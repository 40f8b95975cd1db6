-------------------------- MODULE CommandLineProofs --------------------------
(***************************************************************************)
(* Proofs about CommandLine for every line that users may type: what       *)
(* parse_pipeline() hands to execute_pipeline() is what stands in the line, *)
(* and no string or command is used after it was freed.                    *)
(*                                                                         *)
(* Parsed: the commands of scmd are the parts of the line up to an         *)
(* operator, and Taken: a command has the words and the last redirections  *)
(* of the tokens the parser has passed since it began.                     *)
(***************************************************************************)
EXTENDS CommandLine, FiniteSetTheorems, SequenceTheorems, WellFoundedInduction, TLAPS

Ends == {"|", "&", "\n"}

\* The parser has passed the tokens from c.id up to e, and c has them.
IsLatest(x, S) == \/ S = {} /\ x = Null
                  \/ x \in S /\ \A j \in S : j <= x
Taken(c, e) ==
  /\ c.id <= e
  /\ \A i \in c.id..(e - 1) : /\ Tok(i) \notin Ends
                              /\ Tok(i) \in Redirs => i + 1 < e /\ Word(i + 1)
  /\ ToSet(c.args) = Names(<<c.id - 1, e>>)
                       \ (FileOf(<<c.id - 1, e>>, "<") \union FileOf(<<c.id - 1, e>>, ">"))
  /\ \A i, j \in DOMAIN c.args : i < j => c.args[i] < c.args[j]
  /\ IsLatest(c.in, FileOf(<<c.id - 1, e>>, "<"))
  /\ IsLatest(c.out, FileOf(<<c.id - 1, e>>, ">"))

\* The commands cs have the parts of the line up to an end e; where the j-th one ends.
EndOf(cs, j, e) == IF j < Len(cs) THEN cs[j + 1].id - 1 ELSE e
Before(i)       == {b \in Bars : b < i}

Parsed(cs, e) ==
  /\ IF cs = <<>> THEN e = 0 ELSE cs[1].id = 1
  /\ \A j \in DOMAIN cs :
       /\ Taken(cs[j], EndOf(cs, j, e)) /\ cs[j].id < EndOf(cs, j, e)
       /\ EndOf(cs, j, e) \in Bars \union {e} /\ EndOf(cs, j, e) <= e
       /\ Cardinality(Before(cs[j].id)) = j - 1
       /\ \A k \in DOMAIN cs : j < k => EndOf(cs, j, e) < cs[k].id
  /\ \A b \in Bars \union {0} : b < e => \E j \in DOMAIN cs : cs[j].id = b + 1

Cmds == [id : Nat \ {0}, args : Seq(Nat \ {0}), in : Nat, out : Nat]
Points == {"prompt", "scommand", "tail", "error", "garbage", "execute", "aborted", "quit",
           "destroy", "end"}

Messages == {"no redirection", "syntax", "arguments"}

LineTypes ==
  /\ at \in Points
  /\ line \in Seq(Words \ {"\n"})
  /\ pos \in Nat \ {0}
  /\ cmd \in Cmds /\ scmd \in Seq(Cmds)
  /\ said \in Seq(Messages)
  /\ had_error \in BOOLEAN

Waiting == at = "prompt" =>
  /\ line = <<>> /\ pos = 1 /\ cmd = NewCmd(1) /\ scmd = <<>>
  /\ said = <<>> /\ ~had_error

Parsing == at = "scommand" =>
  /\ said = <<>> /\ ~had_error
  /\ pos <= Amp /\ Taken(cmd, pos)
  /\ cmd.id - 1 \in Bars \union {0} /\ Parsed(scmd, cmd.id - 1)
  /\ Cardinality(Before(cmd.id)) = Len(scmd)

AtEnd == at = "tail" =>
  /\ said = <<>> /\ ~had_error
  /\ pos = Amp /\ scmd # <<>> /\ Parsed(scmd, Amp)
  /\ Len(scmd) = Cardinality(Bars) + 1

Erring == at = "error" =>
  ~Accepted /\ (said = <<>> /\ had_error <=> Silently)

\* AsTyped, from the moment the parser is done with the line.
Done ==
  /\ Len(scmd) = IF Accepted THEN Cardinality(Bars) + 1 ELSE 0
  /\ Accepted => \A s \in Segments :
                   Asked(s, scmd[Cardinality({b \in Bars : b <= s[1]}) + 1])
  /\ wait = (~Accepted \/ Amp > Len(line))
  /\ said = <<>> <=> Accepted \/ Silently

Ready == at \in {"garbage", "execute"} => Done

Children == at \in {"prompt", "scommand", "tail", "error", "garbage", "execute"} => ran = <<>>

LineInv == LineTypes /\ Waiting /\ Parsing /\ AtEnd /\ Erring /\ Ready

-----------------------------------------------------------------------------
(* The operators of the properties.                                        *)

\* Every nonempty set of naturals has a least element: the provers' way to an
\* induction, from the well-foundedness of the intervals 0..n.
LEMMA Least ==
  ASSUME NEW T, T \subseteq Nat, T # {}
  PROVE  \E m \in T : \A k \in T : m <= k
<1> DEFINE U == {0..n : n \in T}
<1>1. U \subseteq FiniteSubsetsOf(Nat)
  <2> SUFFICES ASSUME NEW n \in T PROVE 0..n \in FiniteSubsetsOf(Nat)
    OBVIOUS
  <2>1. n \in Int /\ 0 \in Int
    OBVIOUS
  <2>2. IsFiniteSet(0..n)
    BY <2>1, FS_Interval
  <2> QED BY <2>2 DEF FiniteSubsetsOf
<1>2. U # {}
  OBVIOUS
<1>3. \E x \in U : \A y \in U : ~ (<<y, x>> \in StrictSubsetOrdering(Nat))
  <2> HIDE DEF U
  <2> QED BY <1>1, <1>2, FS_StrictSubsetOrderingWellFounded, WFMin
<1>4. PICK m \in T : \A k \in T : ~ (<<0..k, 0..m>> \in StrictSubsetOrdering(Nat))
  BY <1>3
<1>5. ASSUME NEW k \in T, k < m PROVE FALSE
  <2>1. 0..k \subseteq 0..m /\ m \in 0..m /\ m \notin 0..k
    BY <1>5
  <2>2. 0..k # 0..m
    BY <2>1
  <2>3. 0..k \in SUBSET Nat /\ 0..m \in SUBSET Nat
    OBVIOUS
  <2> QED BY <1>4, <2>1, <2>2, <2>3 DEF StrictSubsetOrdering
<1> QED BY <1>5

LEMMA AmpIs ==
  ASSUME LineTypes
  PROVE  /\ Amp \in 1..(Len(line) + 1)
         /\ Tok(Amp) \in {"&", "\n"}
         /\ \A i \in 1..(Amp - 1) : Tok(i) = line[i] /\ i <= Len(line) /\ Tok(i) \notin {"&", "\n"}
<1> DEFINE s == Append(line, "&")
           I == {i \in 1..Len(s) : s[i] = "&"}
<1>1. /\ s \in Seq(Words \union {"&"}) /\ Len(s) = Len(line) + 1 /\ s[Len(s)] = "&"
      /\ Len(line) \in Nat /\ \A i \in 1..Len(line) : s[i] = line[i]
  <2>1. line \in Seq(Words \union {"&"}) /\ "&" \in Words \union {"&"}
    BY DEF LineTypes
  <2> QED BY <2>1, AppendProperties
<1>2. Amp = IF I # {} THEN Min(I) ELSE 0
  BY DEF Amp, SelectInSeq
<1>3. Len(s) \in I /\ I \subseteq Nat
  BY <1>1
<1>4. PICK m \in I : \A k \in I : m <= k
  BY <1>3, Least
<1>5. Min(I) \in I /\ \A k \in I : Min(I) <= k
  BY <1>4 DEF Min
<1>6. Amp \in I /\ \A k \in I : Amp <= k
  BY <1>2, <1>3, <1>5
<1> HIDE DEF I
<1>7. Amp \in 1..(Len(line) + 1) /\ s[Amp] = "&"
  BY <1>1, <1>6 DEF I
<1>8. ASSUME NEW i \in 1..(Amp - 1)
      PROVE  Tok(i) = line[i] /\ i <= Len(line) /\ Tok(i) \notin {"&", "\n"}
  <2>1. i \in 1..Len(line) /\ i < Amp
    BY <1>1, <1>7
  <2>2. i \notin I
    BY <1>1, <1>6, <1>7, <2>1
  <2>3. line[i] # "&"
    BY <1>1, <2>1, <2>2 DEF I
  <2>4. line[i] # "\n"
    BY <2>1 DEF LineTypes
  <2> QED BY <1>1, <2>1, <2>3, <2>4 DEF Tok
<1>9. Tok(Amp) \in {"&", "\n"}
  BY <1>1, <1>7 DEF Tok
<1> HIDE DEF s
<1> QED BY <1>7, <1>8, <1>9

LEMMA AmpAt ==
  ASSUME LineTypes, NEW i \in Nat \ {0}, i <= Amp, Tok(i) \in {"&", "\n"}
  PROVE  i = Amp
<1>1. Amp \in Nat /\ (i < Amp => i \in 1..(Amp - 1))
  BY AmpIs
<1> QED BY <1>1, AmpIs

LEMMA BarsAre ==
  ASSUME LineTypes
  PROVE  /\ IsFiniteSet(Bars) /\ Bars \subseteq 1..(Amp - 1)
         /\ \A i \in 1..(Amp - 1) : i \in Bars <=> Tok(i) = "|"
         /\ Amp \in Nat \ {0} /\ Amp \notin Bars
<1>1. Amp \in Nat \ {0} /\ \A i \in 1..(Amp - 1) : Tok(i) = line[i]
  BY AmpIs
<1>2. Bars \subseteq 1..(Amp - 1)
  BY DEF Bars
<1>3. IsFiniteSet(1..(Amp - 1))
  BY <1>1, FS_Interval
<1> QED BY <1>1, <1>2, <1>3, FS_Subset DEF Bars

-----------------------------------------------------------------------------
(* A command takes tokens.                                                 *)

LEMMA TakenNone ==
  ASSUME NEW i \in Nat \ {0}
  PROVE  Taken(NewCmd(i), i) /\ NewCmd(i) \in Cmds
<1> DEFINE c == NewCmd(i)
           s == <<c.id - 1, i>>
<1>1. c \in Cmds /\ c.id = i /\ c.args = <<>> /\ c.in = Null /\ c.out = Null
  BY DEF NewCmd, Cmds, Null
<1>2. Tokens(s) = {}
  BY <1>1 DEF Tokens
<1>3. Names(s) = {} /\ \A r : FileOf(s, r) = {}
  BY <1>2 DEF Names, FileOf
<1>4. ToSet(c.args) = {}
  BY <1>1 DEF ToSet
<1>5. \A j \in i..(i - 1) : FALSE
  OBVIOUS
<1> HIDE DEF c
<1>6. Taken(c, i)
  BY <1>1, <1>3, <1>4, <1>5 DEF Taken, IsLatest
<1> QED BY <1>1, <1>6 DEF c

\* The places that a command c which ends at e refers to lie before e.
LEMMA TakenPlaces ==
  ASSUME NEW c \in Cmds, NEW e \in Nat \ {0}, Taken(c, e)
  PROVE  /\ ToSet(c.args) \subseteq c.id..(e - 1)
         /\ c.in = Null \/ c.in \in c.id..(e - 1)
         /\ c.out = Null \/ c.out \in c.id..(e - 1)
         /\ Tokens(<<c.id - 1, e>>) = c.id..(e - 1)
<1> DEFINE s == <<c.id - 1, e>>
<1>1. Tokens(s) = c.id..(e - 1)
  BY DEF Tokens, Cmds
<1>2. Names(s) \subseteq Tokens(s) /\ \A r : FileOf(s, r) \subseteq Tokens(s)
  BY DEF Names, FileOf
<1> HIDE DEF s
<1>3. /\ ToSet(c.args) \subseteq Names(s)
      /\ c.in = Null \/ c.in \in FileOf(s, "<")
      /\ c.out = Null \/ c.out \in FileOf(s, ">")
  BY DEF Taken, IsLatest, s
<1>4. ToSet(c.args) \subseteq c.id..(e - 1)
  BY <1>1, <1>2, <1>3
<1>5. c.in = Null \/ c.in \in c.id..(e - 1)
  BY <1>1, <1>2, <1>3
<1>6. c.out = Null \/ c.out \in c.id..(e - 1)
  BY <1>1, <1>2, <1>3
<1> QED BY <1>1, <1>4, <1>5, <1>6 DEF s

LEMMA TakenFresh ==
  ASSUME NEW c \in Cmds, NEW e \in Nat \ {0}, Taken(c, e)
  PROVE  c = NewCmd(c.id) <=> e = c.id
<1> DEFINE s == <<c.id - 1, e>>
<1>1. Tokens(s) = c.id..(e - 1) /\ c.id \in Nat \ {0} /\ c.id <= e
  BY TakenPlaces DEF Taken, Cmds
<1>2. CASE e = c.id
  <2>1. c.id..(e - 1) = {}
    BY <1>1, <1>2
  <2>2. ToSet(c.args) = {} /\ c.in = Null /\ c.out = Null
    BY <2>1, TakenPlaces
  <2>3. c.args \in Seq(Nat \ {0}) /\ \A k \in DOMAIN c.args : FALSE
    BY <2>2 DEF ToSet, Cmds
  <2>4. Len(c.args) \in Nat /\ DOMAIN c.args = 1..Len(c.args)
    BY <2>3
  <2>5. Len(c.args) = 0
    <3>1. 1 \notin 1..Len(c.args)
      BY <2>3, <2>4
    <3> QED BY <2>4, <3>1
  <2>6. c.args = <<>>
    BY <2>3, <2>5
  <2> QED BY <1>2, <2>2, <2>6 DEF NewCmd, Cmds
<1>3. CASE e # c.id
  <2> SUFFICES c.args # <<>> \/ c.in # Null \/ c.out # Null
    BY <1>3 DEF NewCmd, Cmds
  <2>1. c.id \in c.id..(e - 1) /\ c.id \in Tokens(s)
    BY <1>1, <1>3
  <2>2. Tok(c.id) \notin Ends /\ (Tok(c.id) \in Redirs => c.id + 1 < e /\ Word(c.id + 1))
    BY <2>1 DEF Taken
  <2>3. CASE Tok(c.id) \in Redirs
    <3>1. c.id + 1 \in FileOf(s, Tok(c.id))
      BY <1>1, <2>1, <2>2, <2>3 DEF FileOf, Names
    <3>2. CASE Tok(c.id) = "<"
      BY <1>1, <3>1, <3>2 DEF Taken, IsLatest, Null
    <3>3. CASE Tok(c.id) = ">"
      BY <1>1, <3>1, <3>3 DEF Taken, IsLatest, Null
    <3> QED BY <2>3, <3>2, <3>3 DEF Redirs
  <2>4. CASE Tok(c.id) \notin Redirs
    <3>1. c.id \in Names(s)
      BY <2>1, <2>2, <2>4 DEF Names, Word, Redirs, Ends
    <3>2. \A r : c.id \notin FileOf(s, r)
      BY <1>1 DEF FileOf
    <3>3. c.id \in ToSet(c.args)
      BY <3>1, <3>2 DEF Taken
    <3> QED BY <3>3 DEF ToSet
  <2> QED BY <2>3, <2>4
<1> QED BY <1>2, <1>3

LEMMA TakesWord ==
  ASSUME NEW c \in Cmds, NEW d \in Cmds, NEW e \in Nat \ {0}, Taken(c, e), Word(e),
         d.id = c.id /\ d.args = Append(c.args, e) /\ d.in = c.in /\ d.out = c.out
  PROVE  Taken(d, e + 1)
<1> DEFINE s == <<c.id - 1, e>>
           t == <<c.id - 1, e + 1>>
<1>1. /\ c.id \in Nat \ {0} /\ c.args \in Seq(Nat \ {0}) /\ c.id <= e
  BY DEF Cmds, Taken
<1>2. /\ Tokens(s) = c.id..(e - 1) /\ Tokens(t) = c.id..e
      /\ Tokens(t) = Tokens(s) \union {e} /\ e \notin Tokens(s)
  BY <1>1 DEF Tokens
<1>3. Names(t) = Names(s) \union {e}
  BY <1>2 DEF Names
<1>4. ASSUME NEW r \in Redirs PROVE FileOf(t, r) = FileOf(s, r)
  <2>1. ASSUME e - 1 \in Tokens(t) PROVE Tok(e - 1) # r
    <3>1. e - 1 \in c.id..(e - 1)
      BY <1>1, <1>2, <2>1
    <3>2. Tok(e - 1) \in Redirs => (e - 1) + 1 < e
      BY <3>1 DEF Taken
    <3> QED BY <3>2
  <2>2. ASSUME NEW i \in Names(s) PROVE i - 1 \in Tokens(t) <=> i - 1 \in Tokens(s)
    <3>1. i \in c.id..(e - 1)
      BY <1>2 DEF Names
    <3> QED BY <1>1, <1>2, <3>1
  <2> QED BY <1>2, <1>3, <2>1, <2>2 DEF FileOf
<1>5. FileOf(t, "<") = FileOf(s, "<") /\ FileOf(t, ">") = FileOf(s, ">")
  BY <1>4 DEF Redirs
<1>6. e \notin FileOf(s, "<") /\ e \notin FileOf(s, ">")
  BY <1>2 DEF FileOf, Names
<1>7. ToSet(d.args) = ToSet(c.args) \union {e}
  <2>1. /\ DOMAIN d.args = (DOMAIN c.args) \union {Len(c.args) + 1}
        /\ d.args[Len(c.args) + 1] = e
        /\ \A k \in DOMAIN c.args : d.args[k] = c.args[k]
    BY <1>1
  <2> QED BY <2>1 DEF ToSet
<1>8. \A i, j \in DOMAIN d.args : i < j => d.args[i] < d.args[j]
  <2> SUFFICES ASSUME NEW i \in DOMAIN d.args, NEW j \in DOMAIN d.args, i < j
               PROVE  d.args[i] < d.args[j]
    OBVIOUS
  <2>1. i \in DOMAIN c.args /\ d.args[i] = c.args[i]
    BY <1>1
  <2>2. CASE j \in DOMAIN c.args
    BY <1>1, <2>1, <2>2 DEF Taken
  <2>3. CASE j \notin DOMAIN c.args
    <3>1. d.args[j] = e
      BY <1>1, <2>3
    <3>2. c.args[i] \in c.id..(e - 1)
      BY <2>1, TakenPlaces DEF ToSet
    <3>3. c.args[i] < e
      BY <1>1, <3>2
    <3> QED BY <2>1, <3>1, <3>3
  <2> QED BY <2>2, <2>3
<1>9. ASSUME NEW i \in d.id..((e + 1) - 1)
      PROVE  Tok(i) \notin Ends /\ (Tok(i) \in Redirs => i + 1 < e + 1 /\ Word(i + 1))
  <2>1. CASE i = e
    BY <2>1 DEF Word, Redirs, Ends
  <2>2. CASE i # e
    <3>1. i \in c.id..(e - 1)
      BY <1>1, <2>2
    <3> QED BY <3>1 DEF Taken
  <2> QED BY <2>1, <2>2
<1>10. /\ ToSet(c.args) = Names(s) \ (FileOf(s, "<") \union FileOf(s, ">"))
       /\ IsLatest(c.in, FileOf(s, "<")) /\ IsLatest(c.out, FileOf(s, ">"))
  BY DEF Taken
<1>11. /\ ToSet(d.args) = Names(t) \ (FileOf(t, "<") \union FileOf(t, ">"))
       /\ IsLatest(d.in, FileOf(t, "<")) /\ IsLatest(d.out, FileOf(t, ">"))
  <2> HIDE DEF s, t
  <2> QED BY <1>1, <1>3, <1>5, <1>6, <1>7, <1>10
<1>12. d.id <= e + 1
  BY <1>1
<1> QED BY <1>8, <1>9, <1>11, <1>12 DEF Taken

LEMMA TakesFile ==
  ASSUME NEW c \in Cmds, NEW d \in Cmds, NEW e \in Nat \ {0}, Taken(c, e),
         Tok(e) \in Redirs, Word(e + 1),
         d.id = c.id /\ d.args = c.args,
         d.in  = IF Tok(e) = "<" THEN e + 1 ELSE c.in,
         d.out = IF Tok(e) = ">" THEN e + 1 ELSE c.out
  PROVE  Taken(d, e + 2)
<1> DEFINE s == <<c.id - 1, e>>
           t == <<c.id - 1, e + 2>>
<1>1. c.id \in Nat \ {0} /\ c.id <= e
  BY DEF Cmds, Taken
<1>2. /\ Tokens(s) = c.id..(e - 1) /\ Tokens(t) = c.id..(e + 1)
      /\ Tokens(t) = Tokens(s) \union {e, e + 1} /\ e \notin Tokens(s) /\ e + 1 \notin Tokens(s)
  BY <1>1 DEF Tokens
<1>3. ~ Word(e)
  BY DEF Word, Redirs
<1>4. Names(t) = Names(s) \union {e + 1} /\ e + 1 \notin Names(s)
  BY <1>2, <1>3 DEF Names
<1>5. ASSUME NEW r \in Redirs
      PROVE  FileOf(t, r) = IF Tok(e) = r THEN FileOf(s, r) \union {e + 1} ELSE FileOf(s, r)
  <2>0. (e + 1) - 1 = e
    OBVIOUS
  <2>1. (e + 1) - 1 = e /\ e \in Tokens(t)
    <3> HIDE DEF s, t
    <3> QED BY <1>2, <2>0
  <2>2. ASSUME NEW i \in Names(s) PROVE i - 1 \in Tokens(t) <=> i - 1 \in Tokens(s)
    <3>1. i \in c.id..(e - 1)
      BY <1>2 DEF Names
    <3> QED BY <1>1, <1>2, <3>1
  <2> QED BY <1>4, <2>1, <2>2 DEF FileOf
<1>6. \A r : FileOf(s, r) \subseteq c.id..(e - 1)
  BY <1>2 DEF FileOf, Names
<1>7. \A r : e + 1 \notin FileOf(s, r) /\ \A j \in FileOf(s, r) : j <= e + 1
  BY <1>1, <1>6
<1>8. Tok(e) = "<" \/ Tok(e) = ">"
  BY DEF Redirs
<1>9. /\ FileOf(t, "<") = IF Tok(e) = "<" THEN FileOf(s, "<") \union {e + 1} ELSE FileOf(s, "<")
      /\ FileOf(t, ">") = IF Tok(e) = ">" THEN FileOf(s, ">") \union {e + 1} ELSE FileOf(s, ">")
  BY <1>5 DEF Redirs
<1>10. /\ ToSet(c.args) = Names(s) \ (FileOf(s, "<") \union FileOf(s, ">"))
       /\ IsLatest(c.in, FileOf(s, "<")) /\ IsLatest(c.out, FileOf(s, ">"))
  BY DEF Taken
<1>11. ToSet(d.args) = Names(t) \ (FileOf(t, "<") \union FileOf(t, ">"))
  <2> HIDE DEF s, t
  <2> QED BY <1>4, <1>7, <1>8, <1>9, <1>10
<1>12. IsLatest(d.in, FileOf(t, "<"))
  <2> HIDE DEF s, t
  <2> QED BY <1>7, <1>9, <1>10 DEF IsLatest
<1>13. IsLatest(d.out, FileOf(t, ">"))
  <2> HIDE DEF s, t
  <2> QED BY <1>7, <1>9, <1>10 DEF IsLatest
<1>14. ASSUME NEW i \in d.id..((e + 2) - 1)
       PROVE  Tok(i) \notin Ends /\ (Tok(i) \in Redirs => i + 1 < e + 2 /\ Word(i + 1))
  <2>1. CASE i = e
    BY <2>1 DEF Redirs, Ends
  <2>2. CASE i = e + 1
    BY <2>2 DEF Word, Redirs, Ends
  <2>3. CASE i # e /\ i # e + 1
    <3>1. i \in c.id..(e - 1)
      BY <1>1, <2>3
    <3> QED BY <3>1 DEF Taken
  <2> QED BY <2>1, <2>2, <2>3
<1>15. d.id <= e + 2 /\ \A i, j \in DOMAIN d.args : i < j => d.args[i] < d.args[j]
  BY <1>1 DEF Taken
<1> QED BY <1>11, <1>12, <1>13, <1>14, <1>15 DEF Taken

-----------------------------------------------------------------------------
(* Parts of the line.                                                      *)

LEMMA LatestIs ==
  ASSUME NEW S, S \subseteq Nat, NEW x, IsLatest(x, S)
  PROVE  Latest(S) = x
<1>1. CASE S = {}
  BY <1>1 DEF IsLatest, Latest
<1>2. CASE S # {}
  <2>1. x \in S /\ \A j \in S : j <= x
    BY <1>2 DEF IsLatest
  <2>2. \A y \in S : (\A j \in S : j <= y) => y = x
    BY <2>1
  <2> QED BY <1>2, <2>1, <2>2 DEF Latest
<1> QED BY <1>1, <1>2

LEMMA TakenAsked ==
  ASSUME NEW c \in Cmds, NEW e \in Nat \ {0}, Taken(c, e)
  PROVE  Asked(<<c.id - 1, e>>, c)
<1> DEFINE s == <<c.id - 1, e>>
<1>1. \A r : FileOf(s, r) \subseteq Nat
  <2>1. Tokens(s) \subseteq Nat
    BY TakenPlaces DEF Cmds
  <2> QED BY <2>1 DEF FileOf, Names
<1>2. c.in = Latest(FileOf(s, "<")) /\ c.out = Latest(FileOf(s, ">"))
  BY <1>1, LatestIs DEF Taken
<1> QED BY <1>2 DEF Taken, Asked

LEMMA TakenGood ==
  ASSUME LineTypes, NEW c \in Cmds, NEW e \in 1..Amp, Taken(c, e), c.id < e
  PROVE  Good(<<c.id - 1, e>>)
<1> DEFINE s == <<c.id - 1, e>>
<1>1. Tokens(s) = c.id..(e - 1) /\ c.id \in Nat \ {0} /\ e \in Nat \ {0}
  <2>1. e \in Nat \ {0}
    BY AmpIs
  <2> QED BY <2>1, TakenPlaces DEF Cmds
<1>2. Tokens(s) # {}
  <2>1. c.id \in c.id..(e - 1)
    BY <1>1
  <2> QED BY <1>1, <2>1
<1>3. ASSUME NEW i \in Tokens(s), line[i] \in Redirs PROVE i + 1 \in Names(s)
  <2>1. i \in c.id..(e - 1) /\ i \in 1..(Amp - 1)
    BY <1>1, AmpIs
  <2>2. Tok(i) \in Redirs
    BY <1>3, <2>1, AmpIs
  <2>3. i + 1 < e /\ Word(i + 1)
    BY <2>1, <2>2 DEF Taken
  <2> QED BY <1>1, <2>1, <2>3 DEF Names
<1> QED BY <1>2, <1>3 DEF Good

\* A part of the line that is empty, or a redirection without a name.
LEMMA NotAccepted ==
  ASSUME LineTypes, NEW b \in Bars \union {0}, NEW q \in 1..Amp, b < q,
         \A i \in (b + 1)..(q - 1) : Tok(i) # "|",
         \/ q = b + 1 /\ Tok(q) \in Ends
         \/ Tok(q) \in Redirs /\ ~ Word(q + 1)
  PROVE  ~ Accepted
<1>1. /\ Amp \in Nat \ {0} /\ Bars \subseteq 1..(Amp - 1) /\ b \in Nat /\ q \in Nat
      /\ \A i \in 1..(Amp - 1) : i \in Bars <=> Tok(i) = "|"
      /\ Tok(Amp) \in {"&", "\n"}
  BY BarsAre, AmpIs
<1> DEFINE T == {x \in Bars \union {Amp} : b < x}
<1>2. Amp \in T /\ T \subseteq Nat
  <2>1. b < Amp /\ 1..(Amp - 1) \subseteq Nat
    BY <1>1
  <2> QED BY <1>1, <2>1
<1>3. PICK t \in T : \A x \in T : t <= x
  BY <1>2, Least
<1> DEFINE s == <<b, t>>
<1>4. /\ t \in Bars \union {Amp} /\ b < t /\ t \in 1..Amp
      /\ \A x \in Bars : x <= b \/ t <= x
  BY <1>1, <1>3
<1>5. s \in Segments
  BY <1>4 DEF Segments
<1>6. Tokens(s) = (b + 1)..(t - 1)
  BY DEF Tokens
<1>7. CASE q = b + 1 /\ Tok(q) \in Ends
  <2>1. q \in T
    <3>1. CASE Tok(q) = "|"
      BY <1>1, <1>7, <3>1
    <3>2. CASE Tok(q) \in {"&", "\n"}
      BY <1>1, <1>7, <3>2, AmpAt
    <3> QED BY <1>7, <3>1, <3>2 DEF Ends
  <2>2. t = q
    BY <1>1, <1>3, <1>4, <1>7, <2>1
  <2>3. Tokens(s) = {}
    BY <1>1, <1>6, <1>7, <2>2
  <2> QED BY <1>5, <2>3 DEF Accepted, Good
<1>8. CASE Tok(q) \in Redirs /\ ~ Word(q + 1)
  <2>1. q < Amp
    BY <1>1, <1>8 DEF Redirs
  <2>2. t # q
    BY <1>1, <1>4, <1>8, <2>1 DEF Redirs
  <2>3. ~ (t < q)
    <3> SUFFICES ASSUME t < q PROVE FALSE
      OBVIOUS
    <3>1. t \in (b + 1)..(q - 1) /\ t \in 1..(Amp - 1)
      BY <1>1, <1>4, <2>1
    <3>2. t \in Bars
      BY <1>4, <2>1, <3>1
    <3> QED BY <1>1, <3>1, <3>2
  <2>4. q \in Tokens(s)
    BY <1>1, <1>4, <1>6, <2>2, <2>3
  <2>5. line[q] \in Redirs
    BY <1>1, <1>8, <2>1, AmpIs
  <2>6. q + 1 \notin Names(s)
    BY <1>8 DEF Names
  <2> QED BY <1>5, <2>4, <2>5, <2>6 DEF Accepted, Good
<1> QED BY <1>7, <1>8

LEMMA ParsedIs ==
  ASSUME LineTypes, NEW cs \in Seq(Cmds), cs # <<>>, Parsed(cs, Amp)
  PROVE  \A s \in Segments :
           Good(s) /\ Asked(s, cs[Cardinality({b \in Bars : b <= s[1]}) + 1])
<1>1. /\ Amp \in Nat \ {0} /\ Bars \subseteq 1..(Amp - 1) /\ IsFiniteSet(Bars)
      /\ \A i \in 1..(Amp - 1) : i \in Bars <=> Tok(i) = "|"
  BY BarsAre
<1> SUFFICES ASSUME NEW b \in Bars \union {0}, NEW t \in Bars \union {Amp}, b < t,
                    \A x \in Bars : x <= b \/ t <= x
             PROVE  /\ Good(<<b, t>>)
                    /\ Asked(<<b, t>>, cs[Cardinality({x \in Bars : x <= b}) + 1])
  BY DEF Segments
<1>2. b \in Nat /\ t \in Nat /\ t <= Amp
  BY <1>1
<1>3. PICK j \in DOMAIN cs : cs[j].id = b + 1
  <2>1. b < Amp
    BY <1>1, <1>2
  <2>2. \A x \in Bars \union {0} : x < Amp => \E j \in DOMAIN cs : cs[j].id = x + 1
    BY DEF Parsed
  <2> QED BY <2>1, <2>2
<1> DEFINE e == EndOf(cs, j, Amp)
<1>4. /\ Taken(cs[j], e) /\ cs[j].id < e /\ e \in Bars \union {Amp} /\ e <= Amp
      /\ Cardinality(Before(cs[j].id)) = j - 1
  BY DEF Parsed
<1> HIDE DEF e
<1>5. e \in Nat /\ e \in 1..Amp /\ cs[j] \in Cmds /\ j \in Nat
  <2>1. e \in 1..Amp
    <3>1. Bars \subseteq 1..Amp /\ Amp \in 1..Amp
      BY <1>1
    <3> QED BY <1>4, <3>1
  <2> QED BY <1>1, <2>1
<1>6. t = e
  <2>1. t <= e
    BY <1>1, <1>2, <1>3, <1>4, <1>5
  <2>2. ~ (t < e)
    <3> SUFFICES ASSUME t < e PROVE FALSE
      OBVIOUS
    <3>1. t \in Bars /\ Tok(t) = "|"
      BY <1>1, <1>2, <1>4, <1>5
    <3>2. t \in cs[j].id..(e - 1)
      BY <1>2, <1>3, <1>5
    <3>3. Tok(t) \notin Ends
      BY <1>4, <3>2 DEF Taken
    <3> QED BY <3>1, <3>3 DEF Ends
  <2> QED BY <1>2, <1>5, <2>1, <2>2
<1>7. cs[j].id - 1 = b
  BY <1>2, <1>3
<1>8. {x \in Bars : x <= b} = Before(cs[j].id)
  <2>1. \A x \in Bars : x <= b <=> x < cs[j].id
    BY <1>1, <1>2, <1>3
  <2> QED BY <2>1 DEF Before
<1>9. Cardinality({x \in Bars : x <= b}) + 1 = j
  <2>1. (j - 1) + 1 = j
    BY <1>5
  <2> QED BY <1>4, <1>8, <2>1
<1>10. Good(<<cs[j].id - 1, e>>)
  BY <1>4, <1>5, TakenGood
<1>11. Asked(<<cs[j].id - 1, e>>, cs[j])
  BY <1>4, <1>5, TakenAsked
<1> QED BY <1>6, <1>7, <1>9, <1>10, <1>11

LEMMA ParsedNone ==
  ASSUME LineTypes
  PROVE  Parsed(<<>>, 0) /\ Cardinality(Before(1)) = 0
<1>1. Bars \subseteq Nat \ {0}
  <2>1. Bars \subseteq 1..(Amp - 1)
    BY BarsAre
  <2> QED BY <2>1
<1>2. Before(1) = {}
  <2>1. \A b \in Bars : ~ (b < 1)
    BY <1>1
  <2> QED BY <2>1 DEF Before
<1>3. \A b \in Bars \union {0} : ~ (b < 0)
  BY <1>1
<1> QED BY <1>2, <1>3, FS_EmptySet DEF Parsed

\* The parser comes to the end of a command at e, a "|" or the end of the pipeline.
LEMMA ParsedAdds ==
  ASSUME LineTypes, NEW cs \in Seq(Cmds), NEW c \in Cmds, NEW e \in Bars \union {Amp},
         c.id - 1 \in Bars \union {0}, Parsed(cs, c.id - 1), c.id < e, Taken(c, e),
         Cardinality(Before(c.id)) = Len(cs)
  PROVE  /\ Parsed(Append(cs, c), e)
         /\ e \in Bars => Cardinality(Before(e + 1)) = Len(cs) + 1
         /\ e = Amp => Cardinality(Bars) = Len(cs)
<1>1. /\ Amp \in Nat \ {0} /\ Bars \subseteq 1..(Amp - 1) /\ IsFiniteSet(Bars)
      /\ \A i \in 1..(Amp - 1) : i \in Bars <=> Tok(i) = "|"
  BY BarsAre
<1>2. c.id \in Nat \ {0} /\ e \in Nat \ {0} /\ e <= Amp
  BY <1>1 DEF Cmds
<1>3. ASSUME NEW b \in Bars PROVE b < c.id \/ e <= b
  <2> SUFFICES ASSUME b \in c.id..(e - 1) PROVE FALSE
    BY <1>1, <1>2
  <2>1. Tok(b) = "|"
    BY <1>1
  <2> QED BY <2>1 DEF Taken, Ends
<1>4. /\ e \in Bars => Cardinality(Before(e + 1)) = Len(cs) + 1
      /\ e = Amp => Cardinality(Bars) = Len(cs)
  <2>1. Before(c.id) \subseteq Bars /\ IsFiniteSet(Before(c.id)) /\ e \notin Before(c.id)
    BY <1>1, <1>2, FS_Subset DEF Before
  <2>2. ASSUME e \in Bars PROVE Before(e + 1) = Before(c.id) \union {e}
    <3>1. \A b \in Bars : b < e + 1 <=> b < c.id \/ b = e
      BY <1>1, <1>2, <1>3
    <3> QED BY <2>2, <3>1 DEF Before
  <2>3. ASSUME e = Amp PROVE Bars = Before(c.id)
    <3>1. \A b \in Bars : b < c.id
      BY <1>1, <1>2, <1>3, <2>3
    <3> QED BY <3>1 DEF Before
  <2> QED BY <2>1, <2>2, <2>3, FS_AddElement
<1> DEFINE ds == Append(cs, c)
           n  == Len(cs)
<1>5. /\ ds \in Seq(Cmds) /\ Len(ds) = n + 1 /\ n \in Nat /\ DOMAIN ds = 1..(n + 1)
      /\ ds[n + 1] = c /\ \A j \in 1..n : ds[j] = cs[j] /\ cs[j] \in Cmds
      /\ DOMAIN cs = 1..n
  OBVIOUS
<1>6. ASSUME NEW j \in 1..n PROVE EndOf(ds, j, e) = EndOf(cs, j, c.id - 1)
  <2> HIDE DEF ds
  <2>1. CASE j = n
    BY <1>5, <2>1 DEF EndOf
  <2>2. CASE j # n
    BY <1>5, <2>2 DEF EndOf
  <2> QED BY <2>1, <2>2
<1>7. EndOf(ds, n + 1, e) = e
  <2> HIDE DEF ds
  <2> QED BY <1>5 DEF EndOf
<1>8. ds # <<>> /\ ds[1].id = 1
  <2> HIDE DEF ds
  <2>1. CASE n = 0
    <3>1. cs = <<>>
      BY <2>1
    <3>2. c.id = 1
      BY <1>2, <3>1 DEF Parsed
    <3>3. ds[1] = c /\ Len(ds) = 1
      BY <1>5, <2>1
    <3> QED BY <1>5, <3>2, <3>3
  <2>2. CASE n # 0
    <3>1. cs # <<>> /\ cs[1].id = 1
      BY <2>2 DEF Parsed
    <3> QED BY <1>5, <2>2, <3>1
  <2> QED BY <2>1, <2>2
<1>9. ASSUME NEW j \in DOMAIN ds
      PROVE  /\ Taken(ds[j], EndOf(ds, j, e)) /\ ds[j].id < EndOf(ds, j, e)
             /\ EndOf(ds, j, e) \in Bars \union {e} /\ EndOf(ds, j, e) <= e
             /\ Cardinality(Before(ds[j].id)) = j - 1
             /\ \A k \in DOMAIN ds : j < k => EndOf(ds, j, e) < ds[k].id
  <2> HIDE DEF ds
  <2>1. CASE j = n + 1
    BY <1>2, <1>5, <1>7, <2>1
  <2>2. CASE j \in 1..n
    <3> DEFINE f == EndOf(cs, j, c.id - 1)
    <3>1. /\ Taken(cs[j], f) /\ cs[j].id < f
          /\ f \in Bars \union {c.id - 1} /\ f <= c.id - 1
          /\ Cardinality(Before(cs[j].id)) = j - 1
          /\ \A k \in 1..n : j < k => f < cs[k].id
      BY <1>5, <2>2 DEF Parsed
    <3>2. EndOf(ds, j, e) = f
      BY <1>6, <2>2
    <3> HIDE DEF f
    <3>3. f \in Nat
      <4>1. Bars \subseteq Nat /\ c.id - 1 \in Nat
        BY <1>1, <1>2
      <4> QED BY <3>1, <4>1
    <3>4. f \in Bars
      <4>1. cs[j].id \in Nat \ {0}
        BY <1>5, <2>2 DEF Cmds
      <4>2. f # 0
        BY <3>1, <3>3, <4>1
      <4> QED BY <3>1, <4>2
    <3>5. f <= e /\ f < c.id
      BY <1>2, <3>1, <3>3
    <3> QED BY <1>5, <2>2, <3>1, <3>2, <3>4, <3>5
  <2> QED BY <1>5, <2>1, <2>2
<1>10. ASSUME NEW b \in Bars \union {0}, b < e
       PROVE  \E j \in DOMAIN ds : ds[j].id = b + 1
  <2> HIDE DEF ds
  <2>1. b \in Nat /\ b < c.id
    BY <1>1, <1>2, <1>3, <1>10
  <2>2. CASE b < c.id - 1
    <3>1. PICK j \in DOMAIN cs : cs[j].id = b + 1
      BY <2>2 DEF Parsed
    <3> QED BY <1>5, <3>1
  <2>3. CASE b = c.id - 1
    BY <1>2, <1>5, <2>3
  <2> QED BY <1>2, <2>1, <2>2, <2>3
<1> HIDE DEF ds
<1>11. Parsed(ds, e)
  BY <1>8, <1>9, <1>10 DEF Parsed
<1> QED BY <1>4, <1>11 DEF ds

-----------------------------------------------------------------------------
(* The steps.                                                              *)

LEMMA SameLine ==
  ASSUME line' = line
  PROVE  /\ Amp' = Amp /\ Bars' = Bars /\ Segments' = Segments
         /\ Accepted' = Accepted /\ Silently' = Silently
         /\ \A i : Before(i)' = Before(i)
         /\ \A c, e : Taken(c, e)' = Taken(c, e)
         /\ \A cs, e : Parsed(cs, e)' = Parsed(cs, e)
         /\ \A s, c : Asked(s, c)' = Asked(s, c)
<1>1. Amp' = Amp
  BY DEF Amp, SelectInSeq
<1>2. Bars' = Bars
  BY <1>1 DEF Bars
<1>3. Segments' = Segments
  BY <1>1, <1>2 DEF Segments
<1>4. \A i : Tok(i)' = Tok(i) /\ Word(i)' = Word(i)
  BY DEF Tok, Word
<1>5. \A s, r : Names(s)' = Names(s) /\ FileOf(s, r)' = FileOf(s, r)
  BY <1>4 DEF Names, FileOf, Tokens
<1>6. \A s : Good(s)' = Good(s)
  BY <1>5 DEF Good, Tokens
<1>7. Accepted' = Accepted
  BY <1>1, <1>3, <1>4, <1>6 DEF Accepted
<1>8. Silently' = Silently
  BY <1>4 DEF Silently
<1>9. \A i : Before(i)' = Before(i)
  BY <1>2 DEF Before
<1>10. \A c, e : Taken(c, e)' = Taken(c, e)
  BY <1>4, <1>5 DEF Taken
<1>11. \A cs, e : Parsed(cs, e)' = Parsed(cs, e)
  BY <1>2, <1>9, <1>10 DEF Parsed, EndOf
<1>12. \A s, c : Asked(s, c)' = Asked(s, c)
  BY <1>5 DEF Asked
<1> QED BY <1>1, <1>2, <1>3, <1>7, <1>8, <1>9, <1>10, <1>11, <1>12

LEMMA LineInit == ShellInit => LineInv
<1> SUFFICES ASSUME ShellInit PROVE LineInv
  OBVIOUS
<1>1. NewCmd(1) \in Cmds /\ <<>> \in Seq(Words \ {"\n"}) /\ <<>> \in Seq(Cmds) /\ <<>> \in Seq(Messages)
  BY TakenNone
<1>2. LineTypes
  <2>1. at \in Points /\ pos \in Nat \ {0}
    BY DEF ShellInit, Points
  <2>4. had_error \in BOOLEAN
    BY DEF ShellInit
  <2>2. cmd \in Cmds
    BY <1>1 DEF ShellInit
  <2>3. line \in Seq(Words \ {"\n"}) /\ scmd \in Seq(Cmds) /\ said \in Seq(Messages)
    BY <1>1 DEF ShellInit
  <2> QED BY <2>1, <2>2, <2>3, <2>4 DEF LineTypes
<1> QED BY <1>2 DEF ShellInit, LineInv, Waiting, Parsing, AtEnd, Erring, Ready

\* What is true of every line, for the next one.
LEMMA NewLine == LineTypes => Amp \in Nat \ {0} /\ Cardinality(Before(1)) = 0
<1> QED BY BarsAre, ParsedNone

LEMMA NewCommand == Taken(NewCmd(1), 1) /\ (LineTypes => Parsed(<<>>, 0))
<1> QED BY TakenNone, ParsedNone

LEMMA ReadLineKeeps ==
  ASSUME LineInv, ReadLine
  PROVE  LineInv'
<1> USE DEF ReadLine
<1>1. LineTypes'
  BY LinesAssumption DEF LineInv, LineTypes, Points
<1>2. (Amp \in Nat \ {0} /\ Cardinality(Before(1)) = 0)'
  BY <1>1, NewLine, PTL
<1>3. /\ cmd' = NewCmd(1) /\ scmd' = <<>> /\ pos' = 1 /\ said' = <<>> /\ ~ had_error'
  BY DEF LineInv, Waiting
<1>4. Taken(NewCmd(1), 1)' /\ Parsed(<<>>, 0)'
  BY <1>1, NewCommand, PTL
<1>5. PICK c : c = NewCmd(1)
  OBVIOUS
<1>6. PICK cs : cs = <<>>
  OBVIOUS
<1>7. c = cmd' /\ c.id = 1 /\ pos' = 1 /\ cs = scmd' /\ Taken(c, 1)' /\ Parsed(cs, c.id - 1)'
      /\ c.id - 1 = 0 /\ Cardinality(Before(c.id)') = Len(cs)
  BY <1>2, <1>3, <1>4, <1>5, <1>6 DEF NewCmd
<1>8. Parsing'
  BY <1>2, <1>3, <1>7 DEF Parsing
<1> QED BY <1>1, <1>8 DEF LineInv, Waiting, AtEnd, Erring, Ready

\* The parser's argument is at its place or behind the redirection there.
LEMMA NextIs ==
  ASSUME pos \in Nat \ {0}
  PROVE  /\ Tok(pos) \in Redirs =>
              /\ NextArgument.type = Tok(pos)
              /\ NextArgument.arg = IF Word(pos + 1) THEN pos + 1 ELSE Null
              /\ NextArgument.next = IF Word(pos + 1) THEN pos + 2 ELSE pos + 1
         /\ Tok(pos) \notin Redirs =>
              /\ NextArgument.type = "normal"
              /\ NextArgument.arg = IF Word(pos) THEN pos ELSE Null
              /\ NextArgument.next = IF Word(pos) THEN pos + 1 ELSE pos
BY DEF NextArgument

LEMMA ArgumentKeeps ==
  ASSUME LineInv, Argument
  PROVE  LineInv'
<1>1. /\ at = "scommand" /\ NextArgument.arg # Null /\ cmd' = WithArgument(cmd, NextArgument)
      /\ pos' = NextArgument.next /\ UNCHANGED <<at, line, scmd, said, had_error>>
  BY DEF Argument
<1>2. LineTypes /\ Parsing
  BY DEF LineInv
<1>3. PICK c, e, cs : c = cmd /\ e = pos /\ cs = scmd
  OBVIOUS
<1>4. /\ c \in Cmds /\ e \in Nat \ {0} /\ Taken(c, e) /\ e <= Amp /\ Amp \in Nat
      /\ Parsed(cs, c.id - 1) /\ c.id - 1 \in Bars \union {0}
      /\ Cardinality(Before(c.id)) = Len(cs) /\ said = <<>> /\ ~had_error
  BY <1>1, <1>2, <1>3, BarsAre DEF Parsing, LineTypes
<1>5. PICK d : d = cmd'
  OBVIOUS
<1>6. /\ d \in Cmds /\ d.id = c.id /\ pos' \in Nat \ {0} /\ pos' <= Amp
      /\ Taken(d, pos')
  <2>1. CASE Tok(e) \notin Redirs
    <3>1. Word(e) /\ NextArgument.type = "normal" /\ NextArgument.arg = e
          /\ NextArgument.next = e + 1
      BY <1>1, <1>3, <1>4, <2>1, NextIs
    <3>2. d = [c EXCEPT !.args = Append(@, e)]
      BY <1>1, <1>3, <1>5, <3>1 DEF WithArgument
    <3>3. /\ d \in Cmds /\ d.id = c.id /\ d.args = Append(c.args, e) /\ d.in = c.in
          /\ d.out = c.out
      <4>1. PICK ws : ws = Append(c.args, e)
        OBVIOUS
      <4>2. ws \in Seq(Nat \ {0})
        BY <1>4, <4>1 DEF Cmds
      <4>3. d = [c EXCEPT !.args = ws]
        BY <3>2, <4>1
      <4>4. /\ d \in Cmds /\ d.id = c.id /\ d.args = ws /\ d.in = c.in /\ d.out = c.out
        BY <1>4, <4>2, <4>3 DEF Cmds
      <4> QED BY <4>1, <4>4
    <3>4. Taken(d, e + 1)
      BY <1>4, <3>1, <3>3, TakesWord
    <3>5. e # Amp
      BY <1>2, <3>1, AmpIs DEF Word
    <3> QED BY <1>1, <1>4, <3>1, <3>3, <3>4, <3>5
  <2>2. CASE Tok(e) \in Redirs
    <3>1. Word(e + 1) /\ NextArgument.type = Tok(e) /\ NextArgument.arg = e + 1
          /\ NextArgument.next = e + 2
      BY <1>1, <1>3, <1>4, <2>2, NextIs
    <3>2. /\ Tok(e) = "<" => d = [c EXCEPT !.in = e + 1]
          /\ Tok(e) = ">" => d = [c EXCEPT !.out = e + 1]
      BY <1>1, <1>3, <1>5, <3>1 DEF WithArgument
    <3>3. /\ d \in Cmds /\ d.id = c.id /\ d.args = c.args
          /\ d.in = IF Tok(e) = "<" THEN e + 1 ELSE c.in
          /\ d.out = IF Tok(e) = ">" THEN e + 1 ELSE c.out
      <4>1. CASE Tok(e) = "<"
        BY <1>4, <3>2, <4>1 DEF Cmds
      <4>2. CASE Tok(e) = ">"
        BY <1>4, <3>2, <4>2 DEF Cmds
      <4> QED BY <2>2, <4>1, <4>2 DEF Redirs
    <3>4. Taken(d, e + 2)
      BY <1>4, <2>2, <3>1, <3>3, TakesFile
    <3>5. e # Amp /\ e + 1 # Amp
      BY <1>2, <2>2, <3>1, AmpIs DEF Word, Redirs
    <3> QED BY <1>1, <1>4, <3>1, <3>3, <3>4, <3>5
  <2> QED BY <2>1, <2>2
<1>7. PICK f : f = pos'
  OBVIOUS
<1>8. /\ Taken(d, f)' /\ Parsed(cs, d.id - 1)' /\ Amp' = Amp /\ Bars' = Bars
      /\ Before(d.id)' = Before(d.id)
  BY <1>1, <1>4, <1>6, <1>7, SameLine
<1>9. LineTypes'
  BY <1>1, <1>2, <1>5, <1>6 DEF LineTypes
<1>10. Parsing'
  <2>1. cmd' = d /\ pos' = f /\ scmd' = cs
    BY <1>1, <1>3, <1>5, <1>7
  <2> QED BY <1>1, <1>4, <1>6, <1>8, <2>1 DEF Parsing
<1> QED BY <1>1, <1>9, <1>10 DEF LineInv, Waiting, AtEnd, Erring, Ready

LEMMA CommandKeeps ==
  ASSUME LineInv, Command
  PROVE  LineInv'
<1>1. /\ at = "scommand" /\ NextArgument.arg = Null /\ ~Fresh /\ ~Nameless
      /\ scmd' = Append(scmd, cmd) /\ another_pipe' = (Tok(NextArgument.next) = "|")
      /\ pos' = Past("|", NextArgument.next) /\ cmd' = NewCmd(pos')
      /\ at' = IF another_pipe' THEN "scommand" ELSE "tail"
      /\ UNCHANGED <<line, said, had_error>>
  BY DEF Command
<1>2. LineTypes /\ Parsing
  BY DEF LineInv
<1>3. PICK c, e, cs : c = cmd /\ e = pos /\ cs = scmd
  OBVIOUS
<1>4. /\ c \in Cmds /\ e \in Nat \ {0} /\ cs \in Seq(Cmds) /\ Taken(c, e) /\ e <= Amp
      /\ Parsed(cs, c.id - 1) /\ c.id - 1 \in Bars \union {0}
      /\ Cardinality(Before(c.id)) = Len(cs) /\ said = <<>> /\ ~had_error
  BY <1>1, <1>2, <1>3 DEF Parsing, LineTypes
<1>5. /\ Amp \in Nat \ {0} /\ Bars \subseteq 1..(Amp - 1)
      /\ \A i \in 1..(Amp - 1) : i \in Bars <=> Tok(i) = "|"
      /\ Tok(Amp) \in {"&", "\n"}
  BY <1>2, BarsAre, AmpIs
\* The command has tokens, and ends at an operator or with the line.
<1>6. c.id < e /\ c.id \in Nat \ {0}
  <2>1. c.id <= e /\ c.id # e
    BY <1>1, <1>3, <1>4, TakenFresh DEF Fresh, Taken
  <2> QED BY <1>4, <2>1 DEF Cmds
<1>7. Tok(e) \in Ends /\ NextArgument.next = e
  <2>1. Tok(e) \notin Redirs
    BY <1>1, <1>3, <1>4, NextIs DEF Nameless
  <2>2. ~Word(e) /\ NextArgument.next = e
    BY <1>1, <1>3, <1>4, <2>1, NextIs DEF Null
  <2> QED BY <2>1, <2>2 DEF Word, Redirs, Ends
<1>8. /\ Tok(e) = "|" => e \in Bars /\ pos' = e + 1
      /\ Tok(e) # "|" => e = Amp /\ pos' = e
  BY <1>1, <1>2, <1>4, <1>5, <1>7, AmpAt DEF Ends, Past
<1>9. /\ Parsed(Append(cs, c), e)
      /\ e \in Bars => Cardinality(Before(e + 1)) = Len(cs) + 1
      /\ e = Amp => Cardinality(Bars) = Len(cs)
  BY <1>2, <1>4, <1>6, <1>8, ParsedAdds
<1>10. PICK ds, f : ds = Append(cs, c) /\ f = e + 1
  OBVIOUS
<1>11. /\ ds \in Seq(Cmds) /\ ds = scmd' /\ ds # <<>> /\ Len(ds) = Len(cs) + 1
       /\ f \in Nat \ {0} /\ f - 1 = e
  BY <1>1, <1>3, <1>4, <1>10
<1>12. NewCmd(pos') \in Cmds /\ NewCmd(f) \in Cmds /\ Taken(NewCmd(f), f)
  BY <1>4, <1>8, <1>11, TakenNone
<1>13. LineTypes'
  BY <1>1, <1>2, <1>4, <1>8, <1>11, <1>12 DEF LineTypes, Points
<1>14. Amp' = Amp /\ Bars' = Bars /\ Before(f)' = Before(f) /\ Parsed(ds, e)'
  BY <1>1, <1>9, <1>10, SameLine
<1>15. CASE Tok(e) = "|"
  <2>1. PICK d : d = NewCmd(f)
    OBVIOUS
  <2>2. d = cmd' /\ f = pos' /\ d.id = f /\ d.id - 1 = e
    BY <1>1, <1>8, <1>10, <1>11, <1>15, <2>1 DEF NewCmd
  <2>3. Taken(d, f)' /\ at' = "scommand"
    BY <1>1, <1>7, <1>12, <1>15, <2>1, SameLine
  <2>4. e < Amp /\ f <= Amp
    BY <1>4, <1>5, <1>8, <1>15, <1>10
  <2>5. Parsing'
    BY <1>1, <1>4, <1>8, <1>9, <1>10, <1>11, <1>14, <1>15, <2>2, <2>3, <2>4 DEF Parsing
  <2> QED BY <1>13, <2>3, <2>5 DEF LineInv, Waiting, AtEnd, Erring, Ready
<1>16. CASE Tok(e) # "|"
  <2>1. at' = "tail" /\ pos' = e /\ e = Amp
    BY <1>1, <1>7, <1>8, <1>16
  <2>2. AtEnd'
    BY <1>1, <1>4, <1>9, <1>11, <1>14, <2>1 DEF AtEnd
  <2> QED BY <1>13, <2>1, <2>2 DEF LineInv, Waiting, Parsing, Erring, Ready
<1> QED BY <1>15, <1>16

-----------------------------------------------------------------------------
(* The errors.                                                             *)

\* A line whose first part has been taken is not one of the lines that say nothing.
LEMMA NotSilently ==
  ASSUME LineTypes, NEW c \in Cmds, NEW e \in Nat \ {0}, Taken(c, e), c.id = 1, 1 < e
  PROVE  ~ Silently
<1>1. 1 \in c.id..(e - 1)
  OBVIOUS
<1>2. Tok(1) \notin Ends /\ (Tok(1) \in Redirs => Word(2))
  <2>1. Tok(1) \notin Ends /\ (Tok(1) \in Redirs => Word(1 + 1))
    BY <1>1 DEF Taken
  <2>2. 1 + 1 = 2
    OBVIOUS
  <2> QED BY <2>1, <2>2
<1>3. 1 <= Len(line)
  BY <1>2 DEF Tok, Ends
<1>4. line # <<>> /\ Tok(1) = line[1]
  BY <1>3 DEF Tok
<1> QED BY <1>2, <1>4 DEF Silently, Word, Redirs

LEMMA ParsedNotSilently ==
  ASSUME LineTypes, NEW cs \in Seq(Cmds), cs # <<>>, NEW e \in Nat, Parsed(cs, e)
  PROVE  ~ Silently
<1>1. 1 \in DOMAIN cs /\ cs[1] \in Cmds /\ cs[1].id = 1
  BY DEF Parsed
<1> DEFINE f == EndOf(cs, 1, e)
<1>2. Taken(cs[1], f) /\ 1 < f /\ f \in Bars \union {e}
  BY <1>1 DEF Parsed
<1>3. f \in Nat \ {0}
  <2>1. Bars \subseteq 1..(Amp - 1)
    BY BarsAre
  <2> HIDE DEF f
  <2> QED BY <1>2, <2>1
<1> HIDE DEF f
<1> QED BY <1>1, <1>2, <1>3, NotSilently

\* parse_scommand() returns NULL: what the parser stands at.
LEMMA MissingIs ==
  ASSUME LineTypes, Parsing, Missing
  PROVE  /\ \/ Tok(pos) \in Redirs /\ ~ Word(pos + 1) /\ NextArgument.next = pos + 1
            \/ Tok(pos) \in Ends /\ Fresh /\ NextArgument.next = pos
         /\ Fresh <=> pos = cmd.id
         /\ Nameless <=> ~Fresh /\ Tok(pos) \in Redirs
         /\ ~ Accepted
<1>1. at = "scommand" /\ NextArgument.arg = Null /\ (Fresh \/ Nameless)
  BY DEF Missing
<1>2. PICK c, e : c = cmd /\ e = pos
  OBVIOUS
<1>3. c \in Cmds /\ e \in Nat \ {0} /\ Taken(c, e) /\ e <= Amp /\ c.id - 1 \in Bars \union {0}
  BY <1>1, <1>2 DEF Parsing, LineTypes
<1>4. Fresh <=> e = c.id
  BY <1>2, <1>3, TakenFresh DEF Fresh
<1>5. NextArgument.type \in Redirs <=> Tok(e) \in Redirs
  BY <1>2, <1>3, NextIs DEF Redirs
<1>6. Nameless <=> ~Fresh /\ Tok(e) \in Redirs
  BY <1>5 DEF Nameless
<1>7. \/ Tok(e) \in Redirs /\ ~ Word(e + 1) /\ NextArgument.next = e + 1
      \/ Tok(e) \in Ends /\ Fresh /\ NextArgument.next = e
  <2>1. CASE Tok(e) \in Redirs
    BY <1>1, <1>2, <1>3, <2>1, NextIs DEF Null
  <2>2. CASE Tok(e) \notin Redirs
    <3>1. ~ Word(e) /\ NextArgument.next = e
      BY <1>1, <1>2, <1>3, <2>2, NextIs DEF Null
    <3> QED BY <1>1, <1>6, <2>2, <3>1 DEF Word, Redirs, Ends
  <2> QED BY <2>1, <2>2
<1>8. ~ Accepted
  <2>1. PICK b \in Bars \union {0} : b = c.id - 1
    BY <1>3
  <2>2. c.id \in Nat \ {0} /\ c.id <= e
    BY <1>3 DEF Cmds, Taken
  <2>3. e \in 1..Amp /\ b < e /\ b + 1 = c.id
    <3>1. Amp \in Nat
      BY AmpIs
    <3> QED BY <1>3, <2>1, <2>2, <3>1
  <2>4. \A i \in (b + 1)..(e - 1) : Tok(i) # "|"
    BY <1>3, <2>3 DEF Taken, Ends
  <2>5. \/ e = b + 1 /\ Tok(e) \in Ends
        \/ Tok(e) \in Redirs /\ ~ Word(e + 1)
    BY <1>4, <1>7, <2>3
  <2> QED BY <2>3, <2>4, <2>5, NotAccepted
<1> QED BY <1>2, <1>4, <1>6, <1>7, <1>8

LEMMA MessagesSaid ==
  /\ SyntaxMsg \in Seq(Messages)
  /\ <<"syntax">> \in Seq(Messages) /\ <<"arguments">> \in Seq(Messages)
  /\ <<"syntax">> # <<>> /\ <<"arguments">> # <<>>
<1>1. "no redirection" \in Messages /\ "syntax" \in Messages /\ "arguments" \in Messages
  BY Zenon DEF Messages
<1>2. \A m \in Messages : <<m>> \in Seq(Messages) /\ <<m>> # <<>>
  OBVIOUS
<1>3. <<>> \in Seq(Messages)
  OBVIOUS
<1> QED BY <1>1, <1>2, <1>3, Zenon DEF SyntaxMsg

LEMMA FirstMissingKeeps ==
  ASSUME LineInv, FirstMissing
  PROVE  LineInv'
<1>1. /\ Missing /\ scmd = <<>> /\ at = "scommand"
      /\ pos' = Past("&", Past("|", NextArgument.next))
      /\ had_error' = (pos' = NextArgument.next)
      /\ said' = SyntaxMsg /\ at' = "error" /\ UNCHANGED <<line, cmd, scmd>>
  BY DEF FirstMissing, Missing
<1>2. LineTypes /\ Parsing
  BY DEF LineInv
<1>3. PICK e, n : e = pos /\ n = NextArgument.next
  OBVIOUS
<1>4. /\ \/ Tok(e) \in Redirs /\ ~ Word(e + 1) /\ n = e + 1
         \/ Tok(e) \in Ends /\ Fresh /\ n = e
      /\ Fresh <=> e = cmd.id
      /\ Nameless <=> ~Fresh /\ Tok(e) \in Redirs
      /\ Fresh \/ Nameless
      /\ ~ Accepted
  BY <1>1, <1>2, <1>3, MissingIs DEF Missing
<1>5. e \in Nat \ {0} /\ n \in Nat \ {0} /\ pos' \in Nat \ {0}
  <2>1. e \in Nat \ {0}
    BY <1>2, <1>3 DEF LineTypes
  <2>2. n \in Nat \ {0}
    BY <1>4, <2>1
  <2> QED BY <1>1, <1>3, <2>1, <2>2 DEF Past
<1>6. cmd.id = 1 /\ Taken(cmd, e) /\ 1 <= e
  <2>1. Parsed(scmd, cmd.id - 1) /\ Taken(cmd, e)
    BY <1>1, <1>2, <1>3 DEF Parsing
  <2>2. cmd.id - 1 = 0 /\ cmd.id \in Nat
    BY <1>1, <1>2, <2>1 DEF Parsed, LineTypes, Cmds
  <2> QED BY <1>5, <2>1, <2>2
<1>7. had_error' <=> Tok(n) \notin {"|", "&"}
  <2>1. had_error' <=> Past("&", Past("|", n)) = n
    BY <1>1, <1>3
  <2>2. CASE Tok(n) = "|"
    <3>1. Past("|", n) = n + 1
      BY <2>2 DEF Past
    <3>2. Past("&", n + 1) \in {n + 1, (n + 1) + 1}
      BY DEF Past
    <3>3. Past("&", Past("|", n)) # n
      BY <1>5, <3>1, <3>2
    <3> QED BY <2>1, <2>2, <3>3
  <2>3. CASE Tok(n) # "|"
    <3>1. Past("|", n) = n
      BY <2>3 DEF Past
    <3>2. Past("&", n) = n <=> Tok(n) # "&"
      BY <1>5 DEF Past
    <3> QED BY <2>1, <2>3, <3>1, <3>2
  <2> QED BY <2>2, <2>3
<1>8. said' = <<>> <=> ~ Nameless
  BY <1>1 DEF SyntaxMsg
<1>9. /\ \A i \in 1..Len(line) : line[i] # "\n" /\ Tok(i) = line[i]
      /\ \A i \in Nat : i > Len(line) => Tok(i) = "\n"
      /\ Len(line) \in Nat /\ (line = <<>> <=> Len(line) = 0)
  BY <1>2 DEF LineTypes, Tok
<1>10. said' = <<>> /\ had_error' <=> Silently
  <2>1. CASE Nameless
    <3>1. PICK c : c = cmd
      OBVIOUS
    <3>2. c \in Cmds /\ c.id = 1 /\ Taken(c, e) /\ 1 < e
      BY <1>2, <1>4, <1>5, <1>6, <2>1, <3>1 DEF LineTypes
    <3>3. ~ Silently
      BY <1>2, <1>5, <3>2, NotSilently
    <3> QED BY <1>8, <2>1, <3>3
  <2>2. CASE ~ Nameless
    <3>1. e = 1
      BY <1>4, <1>6, <2>2
    <3>2. CASE Tok(1) \in Redirs /\ ~ Word(2) /\ n = 2
      <4>1. line # <<>> /\ Tok(1) = line[1]
        BY <1>9, <3>2 DEF Redirs
      <4>2. Tok(2) \in Redirs \union Ends
        BY <3>2 DEF Word, Redirs, Ends
      <4> QED BY <1>7, <1>8, <2>2, <3>2, <4>1, <4>2 DEF Silently, Redirs, Ends
    <3>3. CASE Tok(1) \in Ends /\ n = 1
      <4>1. line = <<>> <=> Tok(1) = "\n"
        BY <1>9
      <4>2. line # <<>> => line[1] \notin Redirs
        BY <1>9, <3>3 DEF Redirs, Ends
      <4> QED BY <1>7, <1>8, <2>2, <3>3, <4>1, <4>2 DEF Silently, Ends
    <3>4. 1 + 1 = 2
      OBVIOUS
    <3> QED BY <1>4, <3>1, <3>2, <3>3, <3>4
  <2> QED BY <2>1, <2>2
<1>11. LineTypes'
  <2>1. had_error' \in BOOLEAN
    BY <1>1
  <2>2. said' \in Seq(Messages)
    BY <1>1, MessagesSaid
  <2> QED BY <1>1, <1>2, <1>5, <2>1, <2>2 DEF LineTypes, Points
<1>12. Accepted' = Accepted /\ Silently' = Silently
  BY <1>1, SameLine
<1> QED BY <1>1, <1>4, <1>10, <1>11, <1>12 DEF LineInv, Waiting, Parsing, AtEnd, Erring, Ready

LEMMA LaterMissingKeeps ==
  ASSUME LineInv, LaterMissing
  PROVE  LineInv'
<1>1. /\ Missing /\ scmd # <<>> /\ at = "scommand" /\ scmd' = Tail(scmd)
      /\ had_error' = (had_error \/ Nameless) /\ pos' = NextArgument.next
      /\ said' = SyntaxMsg /\ at' = "error" /\ UNCHANGED <<line, cmd>>
  BY DEF LaterMissing, Missing
<1>2. LineTypes /\ Parsing
  BY DEF LineInv
<1>3. ~ Accepted /\ pos' \in Nat \ {0}
  <2>1. pos \in Nat \ {0}
    BY <1>2 DEF LineTypes
  <2> QED BY <1>1, <1>2, <2>1, MissingIs
<1>4. ~ Silently
  <2>1. PICK cs, f : cs = scmd /\ f = cmd.id - 1
    OBVIOUS
  <2>2. cs \in Seq(Cmds) /\ Parsed(cs, f) /\ cs # <<>>
    BY <1>1, <1>2, <2>1 DEF LineTypes, Parsing
  <2>3. f \in Nat
    <3>1. cmd \in Cmds
      BY <1>2 DEF LineTypes
    <3> QED BY <2>1, <3>1 DEF Cmds
  <2> QED BY <1>2, <2>2, <2>3, ParsedNotSilently
<1>5. ~ (said' = <<>> /\ had_error')
  BY <1>1, <1>2 DEF SyntaxMsg, Parsing
<1>6. LineTypes'
  <2>1. had_error' \in BOOLEAN
    BY <1>1
  <2>2. said' \in Seq(Messages)
    BY <1>1, MessagesSaid
  <2>3. scmd' \in Seq(Cmds)
    BY <1>1, <1>2 DEF LineTypes
  <2> QED BY <1>1, <1>2, <1>3, <2>1, <2>2, <2>3 DEF LineTypes, Points
<1>7. Accepted' = Accepted /\ Silently' = Silently
  BY <1>1, SameLine
<1> QED BY <1>1, <1>3, <1>4, <1>5, <1>6, <1>7
        DEF LineInv, Waiting, Parsing, AtEnd, Erring, Ready

\* After the pipeline: what stands at its end.
LEMMA EndIs ==
  ASSUME LineTypes
  PROVE  /\ Amp > Len(line) <=> Tok(Amp) # "&"
         /\ Tok(Amp) # "&" => Tok(Amp + 1) = "\n"
<1>1. Amp \in 1..(Len(line) + 1) /\ Len(line) \in Nat /\ Tok(Amp) \in {"&", "\n"}
  BY AmpIs DEF LineTypes
<1>2. \A i \in 1..Len(line) : line[i] # "\n"
  BY DEF LineTypes
<1>3. Amp > Len(line) <=> Tok(Amp) = "\n"
  BY <1>1, <1>2 DEF Tok
<1>4. Tok(Amp) = "\n" => Amp + 1 > Len(line)
  BY <1>1, <1>3
<1>5. Tok(Amp) = "\n" => Tok(Amp + 1) = "\n"
  BY <1>1, <1>4 DEF Tok
<1> QED BY <1>1, <1>3, <1>5

LEMMA BackgroundKeeps ==
  ASSUME LineInv, Background
  PROVE  LineInv'
<1>1. /\ at = "tail" /\ wait' = (Tok(pos) # "&")
      /\ another_pipe' = (Tok(pos) = "&" /\ Tok(pos + 1) = "|")
      /\ pos' = IF Tok(pos) = "&" THEN Past("|", pos + 1) ELSE pos
      /\ at' = IF another_pipe' THEN "error" ELSE "garbage"
      /\ UNCHANGED <<line, cmd, scmd, had_error, said>>
  BY DEF Background
<1>2. LineTypes /\ AtEnd
  BY DEF LineInv
<1>3. PICK cs : cs = scmd
  OBVIOUS
<1>4. /\ cs \in Seq(Cmds) /\ cs # <<>> /\ pos = Amp /\ Amp \in Nat \ {0} /\ Parsed(cs, Amp)
      /\ Len(cs) = Cardinality(Bars) + 1 /\ said = <<>> /\ ~ had_error
  BY <1>1, <1>2, <1>3, BarsAre DEF LineTypes, AtEnd
<1>5. \A s \in Segments :
        Good(s) /\ Asked(s, cs[Cardinality({b \in Bars : b <= s[1]}) + 1])
  BY <1>2, <1>4, ParsedIs
<1>6. Accepted <=> Tok(Amp + 1) # "|"
  BY <1>5 DEF Accepted
<1>7. /\ Amp > Len(line) <=> Tok(Amp) # "&"
      /\ Tok(Amp) # "&" => Tok(Amp + 1) = "\n"
  BY <1>2, EndIs
<1>8. another_pipe' <=> ~ Accepted
  BY <1>1, <1>4, <1>6, <1>7
<1>9. LineTypes'
  <2>1. pos' \in Nat \ {0}
    BY <1>1, <1>4 DEF Past
  <2> QED BY <1>1, <1>2, <2>1 DEF LineTypes, Points
<1>10. /\ Amp' = Amp /\ Bars' = Bars /\ Segments' = Segments
       /\ Accepted' = Accepted /\ Silently' = Silently
       /\ \A s, c : Asked(s, c)' = Asked(s, c)
  BY <1>1, SameLine
<1>11. CASE another_pipe'
  <2>1. ~ Silently
    BY <1>2, <1>4, ParsedNotSilently
  <2> QED BY <1>1, <1>4, <1>8, <1>9, <1>10, <1>11, <2>1
          DEF LineInv, Waiting, Parsing, AtEnd, Erring, Ready
<1>12. CASE ~ another_pipe'
  <2>1. Accepted /\ at' = "garbage" /\ wait' = (Amp > Len(line))
    BY <1>1, <1>4, <1>7, <1>8, <1>12
  <2>2. scmd' = cs /\ said' = <<>> /\ Len(cs) = Cardinality(Bars) + 1
    BY <1>1, <1>3, <1>4
  <2>3. \A s \in Segments' : Asked(s, cs[Cardinality({b \in Bars : b <= s[1]}) + 1])'
    BY <1>5, <1>10
  <2>4. Done'
    BY <1>1, <1>10, <2>1, <2>2, <2>3 DEF Done
  <2> QED BY <1>9, <2>1, <2>4 DEF LineInv, Waiting, Parsing, AtEnd, Erring, Ready
<1> QED BY <1>11, <1>12

LEMMA ErrorKeeps ==
  ASSUME LineInv, Error
  PROVE  LineInv'
<1> DEFINE operator == IF scmd = <<>> THEN pos' # pos ELSE another_pipe
           msg == IF had_error THEN <<>>
                  ELSE IF operator THEN <<"syntax">> ELSE <<"arguments">>
<1>1. /\ at = "error" /\ pos' = IF scmd = <<>> THEN Past("&", Past("|", pos)) ELSE pos
      /\ said' = said \o msg /\ scmd' = <<>> /\ wait' = TRUE /\ at' = "garbage"
      /\ UNCHANGED <<line, cmd, had_error>>
  BY DEF Error
<1>2. LineTypes /\ Erring
  BY DEF LineInv
<1>3. msg \in Seq(Messages) /\ (msg = <<>> <=> had_error)
  <2>1. <<>> \in Seq(Messages)
    OBVIOUS
  <2> QED BY <2>1, MessagesSaid, Zenon
<1> HIDE DEF msg
<1>4. said \in Seq(Messages)
  BY <1>2 DEF LineTypes
<1>5. said' \in Seq(Messages)
  BY <1>1, <1>3, <1>4
<1>6. said' = <<>> <=> said = <<>> /\ had_error
  <2>1. Len(said') = Len(said) + Len(msg) /\ Len(said) \in Nat /\ Len(msg) \in Nat
    BY <1>1, <1>3, <1>4
  <2>2. /\ said' = <<>> <=> Len(said') = 0
        /\ said = <<>> <=> Len(said) = 0
        /\ msg = <<>> <=> Len(msg) = 0
    BY <1>3, <1>4, <1>5
  <2> QED BY <1>3, <2>1, <2>2
<1>7. LineTypes'
  <2>1. pos' \in Nat \ {0}
    BY <1>1, <1>2 DEF LineTypes, Past
  <2>2. scmd' \in Seq(Cmds)
    BY <1>1
  <2> QED BY <1>1, <1>2, <1>5, <2>1, <2>2 DEF LineTypes, Points
<1>8. Accepted' = Accepted /\ Silently' = Silently
  BY <1>1, SameLine
<1>9. ~ Accepted /\ (said' = <<>> <=> Silently)
  BY <1>1, <1>2, <1>6 DEF Erring
<1>10. Done'
  BY <1>1, <1>8, <1>9 DEF Done
<1> QED BY <1>1, <1>7, <1>10 DEF LineInv, Waiting, Parsing, AtEnd, Erring, Ready

LEMMA DoneKept ==
  ASSUME Done, UNCHANGED <<line, scmd, wait, said>>
  PROVE  Done'
<1>1. PICK cs : cs = scmd
  OBVIOUS
<1>2. /\ Amp' = Amp /\ Bars' = Bars /\ Segments' = Segments
      /\ Accepted' = Accepted /\ Silently' = Silently
      /\ \A s, c : Asked(s, c)' = Asked(s, c)
  BY SameLine
<1>3. Accepted => \A s \in Segments : Asked(s, cs[Cardinality({b \in Bars : b <= s[1]}) + 1])
  BY <1>1 DEF Done
<1>4. Accepted' => \A s \in Segments' : Asked(s, cs[Cardinality({b \in Bars : b <= s[1]}) + 1])'
  BY <1>2, <1>3
<1>5. scmd' = cs
  BY <1>1
<1> QED BY <1>2, <1>4, <1>5 DEF Done

LEMMA GarbageKeeps ==
  ASSUME LineInv, Garbage
  PROVE  LineInv'
<1>1. /\ at = "garbage" /\ at' = "execute" /\ pos' = Len(line) + 1
      /\ UNCHANGED <<line, cmd, scmd, wait, said, had_error>>
  BY DEF Garbage
<1>2. LineTypes'
  <2>1. pos' \in Nat \ {0}
    BY <1>1 DEF LineInv, LineTypes
  <2> QED BY <1>1, <2>1 DEF LineInv, LineTypes, Points
<1>3. Done'
  BY <1>1, DoneKept DEF LineInv, Ready
<1> QED BY <1>1, <1>2, <1>3 DEF LineInv, Waiting, Parsing, AtEnd, Erring, Ready

LEMMA TailTaken ==
  ASSUME NEW S, NEW ws \in Seq(S), ws # <<>>
  PROVE  /\ Tail(ws) \in Seq(S) /\ (Len(ws) # 1 => Tail(ws) # <<>>)
         /\ \A j \in DOMAIN Tail(ws) : j + 1 \in DOMAIN ws /\ Tail(ws)[j] = ws[j + 1]
<1>1. /\ Tail(ws) \in Seq(S) /\ Len(Tail(ws)) = Len(ws) - 1
      /\ \A i \in 1..Len(Tail(ws)) : Tail(ws)[i] = ws[i + 1]
  BY HeadTailProperties
<1>2. PICK t : t = Tail(ws)
  OBVIOUS
<1>3. /\ t \in Seq(S) /\ Len(t) = Len(ws) - 1
      /\ \A i \in 1..Len(t) : t[i] = ws[i + 1]
  BY <1>1, <1>2, Zenon
<1>4. Len(ws) \in Nat /\ Len(t) \in Nat /\ DOMAIN t = 1..Len(t) /\ DOMAIN ws = 1..Len(ws)
  BY <1>3
<1>5. Len(ws) # 1 => t # <<>>
  BY <1>3, <1>4
<1>6. \A j \in DOMAIN t : j + 1 \in DOMAIN ws /\ t[j] = ws[j + 1]
  BY <1>3, <1>4
<1> QED BY <1>2, <1>3, <1>5, <1>6, Zenon

\* Behind parse_pipeline() only the types are left to keep, until the next line.
LEMMA BuiltinKeeps ==
  ASSUME LineInv, cd
  PROVE  LineInv'
<1>1. /\ at = "execute" /\ scmd # <<>> /\ First.args # <<>> /\ at' = "destroy"
      /\ UNCHANGED <<line, pos, cmd, had_error, said>>
      /\ \E d : /\ d = "none" \/ Len(First.args) # 1
                /\ scmd' = [scmd EXCEPT ![1].args = IF d = "none" THEN Tail(@)
                                                    ELSE Tail(Tail(@))]
  BY DEF cd, Runs
<1>2. LineTypes
  BY DEF LineInv
<1>3. scmd \in Seq(Cmds) /\ 1 \in DOMAIN scmd /\ scmd[1] = First /\ First \in Cmds
  BY <1>1, <1>2 DEF LineTypes, First
<1>4. PICK ws, c : ws = First.args /\ c = First
  OBVIOUS
<1>5. ws \in Seq(Nat \ {0}) /\ ws # <<>> /\ c \in Cmds /\ c.args = ws
  BY <1>1, <1>3, <1>4 DEF Cmds
<1>6. PICK d : /\ d = "none" \/ Len(ws) # 1
               /\ scmd' = [scmd EXCEPT ![1].args = IF d = "none" THEN Tail(@)
                                                   ELSE Tail(Tail(@))]
  BY <1>1, <1>4
<1>7. PICK bs : bs = IF d = "none" THEN Tail(ws) ELSE Tail(Tail(ws))
  OBVIOUS
<1>8. bs \in Seq(Nat \ {0})
  <2>1. Tail(ws) \in Seq(Nat \ {0}) /\ (Len(ws) # 1 => Tail(ws) # <<>>)
    BY <1>5, TailTaken
  <2>2. Tail(ws) # <<>> => Tail(Tail(ws)) \in Seq(Nat \ {0})
    BY <2>1, TailTaken
  <2> QED BY <1>6, <1>7, <2>1, <2>2
<1>9. [c EXCEPT !.args = bs] \in Cmds
  BY <1>5, <1>8 DEF Cmds
<1>10. scmd' = [scmd EXCEPT ![1] = [c EXCEPT !.args = bs]]
  BY <1>3, <1>4, <1>6, <1>7
<1>11. scmd' \in Seq(Cmds)
  BY <1>3, <1>9, <1>10
<1>12. LineTypes'
  BY <1>1, <1>2, <1>11 DEF LineTypes, Points
<1> QED BY <1>1, <1>12 DEF LineInv, Waiting, Parsing, AtEnd, Erring, Ready

LEMMA ExecuteKeeps ==
  ASSUME LineInv, Abort \/ exit_or_help \/ Single \/ Pair \/ Nothing
  PROVE  LineInv'
<1>1. /\ at' \in {"aborted", "quit", "destroy"}
      /\ scmd' = scmd \/ scmd' = <<>>
      /\ UNCHANGED <<line, pos, cmd, had_error, said>>
  BY DEF Abort, exit_or_help, Single, Pair, Nothing, parserVars
<1>2. scmd' \in Seq(Cmds)
  <2>1. scmd \in Seq(Cmds) /\ <<>> \in Seq(Cmds)
    BY DEF LineInv, LineTypes
  <2> QED BY <1>1, <2>1
<1>3. LineTypes'
  BY <1>1, <1>2 DEF LineInv, LineTypes, Points
<1> QED BY <1>1, <1>3 DEF LineInv, Waiting, Parsing, AtEnd, Erring, Ready

LEMMA DestroyKeeps ==
  ASSUME LineInv, Destroy
  PROVE  LineInv'
<1>1. /\ at' \in {"end", "prompt"}
      /\ line' = <<>> /\ pos' = 1 /\ cmd' = NewCmd(1) /\ scmd' = <<>> /\ said' = <<>>
      /\ had_error' = FALSE
  BY DEF Destroy
<1>2. NewCmd(1) \in Cmds
  BY TakenNone
<1>3. LineTypes'
  <2>1. had_error' \in BOOLEAN
    BY <1>1
  <2>2. line' \in Seq(Words \ {"\n"})
    BY <1>1
  <2>3. scmd' \in Seq(Cmds) /\ said' \in Seq(Messages)
    BY <1>1
  <2> QED BY <1>1, <1>2, <2>1, <2>2, <2>3 DEF LineTypes, Points
<1> QED BY <1>1, <1>3 DEF LineInv, Waiting, Parsing, AtEnd, Erring, Ready

LEMMA LineStutters ==
  ASSUME LineInv, UNCHANGED shellVars
  PROVE  LineInv'
<1>1. UNCHANGED <<at, line, pos, cmd, scmd, wait, said, had_error>>
  BY DEF shellVars, parserVars
<1>2. PICK c, e, cs, i : c = cmd /\ e = pos /\ cs = scmd /\ i = c.id
  OBVIOUS
<1>3. c = cmd' /\ e = pos' /\ cs = scmd'
  BY <1>1, <1>2
<1>4. /\ Amp' = Amp /\ Bars' = Bars /\ Accepted' = Accepted /\ Silently' = Silently
      /\ Before(i)' = Before(i) /\ Taken(c, e)' = Taken(c, e)
      /\ Parsed(cs, i - 1)' = Parsed(cs, i - 1)
      /\ \A a : Parsed(cs, a)' = Parsed(cs, a)
  BY <1>1, SameLine
<1>5. LineTypes'
  BY <1>1 DEF LineInv, LineTypes
<1>6. Waiting'
  BY <1>1 DEF LineInv, Waiting
<1>7. Parsing'
  BY <1>1, <1>2, <1>3, <1>4 DEF LineInv, Parsing
<1>8. AtEnd'
  BY <1>1, <1>2, <1>3, <1>4 DEF LineInv, AtEnd
<1>9. Erring'
  BY <1>1, <1>4 DEF LineInv, Erring
<1>10. Ready'
  BY <1>1, DoneKept DEF LineInv, Ready
<1> QED BY <1>5, <1>6, <1>7, <1>8, <1>9, <1>10 DEF LineInv

LEMMA LineNext ==
  ASSUME LineInv, [ShellNext]_shellVars
  PROVE  LineInv'
BY ReadLineKeeps, ArgumentKeeps, CommandKeeps, FirstMissingKeeps, LaterMissingKeeps,
   BackgroundKeeps, ErrorKeeps, GarbageKeeps, BuiltinKeeps, ExecuteKeeps, DestroyKeeps,
   LineStutters DEF ShellNext

\* parse_pipeline() at each of its points: the commands and the words it has built are
\* those of the tokens it has passed.
THEOREM LineInvariant == ShellSpec => []LineInv
BY LineInit, LineNext, PTL DEF ShellSpec

\* What execute_pipeline() gets is what was typed, for every line of tokens
\* (parsing.c:49-127).
THEOREM WhatWasTyped == ShellSpec => []AsTyped
<1>1. LineInv => AsTyped
  BY DEF LineInv, Ready, Done, AsTyped
<1> QED BY <1>1, LineInvariant, PTL

-----------------------------------------------------------------------------
(* The heap.                                                               *)

MemInv == MemorySound /\ Children

\* What a command owns has the places of its tokens.
LEMMA OwnedPlaces ==
  ASSUME NEW c \in Cmds, NEW e \in Nat \ {0}, Taken(c, e)
  PROVE  \A o \in Owned(c) : \E t, p : o = <<t, p>> /\ p \in c.id..e
<1>1. c.id \in c.id..e
  BY DEF Taken, Cmds
<1>2. c.id..(e - 1) \subseteq c.id..e
  BY DEF Cmds
<1>3. \A s \in (ToSet(c.args) \union {c.in, c.out}) \ {Null} : s \in c.id..e
  BY <1>2, TakenPlaces
<1> QED BY <1>1, <1>3 DEF Owned, Strings

LEMMA OwnedApart ==
  ASSUME NEW c \in Cmds, NEW e \in Nat \ {0}, Taken(c, e),
         NEW d \in Cmds, NEW f \in Nat \ {0}, Taken(d, f), e < d.id
  PROVE  Owned(c) \cap Owned(d) = {}
<1> SUFFICES ASSUME NEW o \in Owned(c), o \in Owned(d) PROVE FALSE
  OBVIOUS
<1>1. PICK t, p : o = <<t, p>> /\ p \in c.id..e
  BY OwnedPlaces
<1>2. PICK u, q : o = <<u, q>> /\ q \in d.id..f
  BY OwnedPlaces
<1>3. p = q
  BY <1>1, <1>2
<1> QED BY <1>1, <1>2, <1>3 DEF Cmds

\* The commands that were parsed own nothing of the one that begins behind them.
LEMMA ParsedApart ==
  ASSUME LineTypes, NEW cs \in Seq(Cmds), NEW c \in Cmds, NEW e \in Nat \ {0},
         Parsed(cs, c.id - 1), Taken(c, e)
  PROVE  \A j \in DOMAIN cs : Owned(cs[j]) \cap Owned(c) = {}
<1> TAKE j \in DOMAIN cs
<1> DEFINE f == EndOf(cs, j, c.id - 1)
<1>1. Taken(cs[j], f) /\ f \in Bars \union {c.id - 1} /\ f <= c.id - 1 /\ cs[j].id < f
      /\ cs[j] \in Cmds
  BY DEF Parsed
<1> HIDE DEF f
<1>2. f \in Nat \ {0} /\ f < c.id
  <2>1. Bars \subseteq 1..(Amp - 1)
    BY BarsAre
  <2>2. f \in Int /\ cs[j].id \in Nat
    BY <1>1, <2>1 DEF Cmds
  <2>3. f \in Nat \ {0}
    BY <1>1, <2>2
  <2> QED BY <1>1, <2>3 DEF Cmds
<1> QED BY <1>1, <1>2, OwnedApart

LEMMA NewOwns == ASSUME NEW i PROVE Owned(NewCmd(i)) = {<<"scommand", i>>}
<1>1. NewCmd(i).id = i /\ NewCmd(i).args = <<>> /\ NewCmd(i).in = Null /\ NewCmd(i).out = Null
  BY DEF NewCmd
<1>2. ToSet(NewCmd(i).args) = {}
  BY <1>1 DEF ToSet
<1> HIDE DEF NewCmd
<1> QED BY <1>1, <1>2 DEF Owned, Strings

LEMMA AddedOwns ==
  ASSUME NEW c \in Cmds, NEW i \in Nat, NEW a, a.type \in Redirs \union {"normal"}, a.arg = i
  PROVE  Owned(WithArgument(c, a)) \subseteq Owned(c) \union {<<"string", i>>}
<1> DEFINE d == WithArgument(c, a)
<1>1. PICK ws : ws = Append(c.args, i)
  OBVIOUS
<1>2. /\ d.id = c.id
      /\ d.args \in {c.args, ws} /\ d.in \in {c.in, i} /\ d.out \in {c.out, i}
  <2>1. CASE a.type = "normal"
    <3>1. d = [c EXCEPT !.args = ws]
      BY <1>1, <2>1 DEF WithArgument
    <3> HIDE DEF d
    <3> QED BY <3>1 DEF Cmds
  <2>2. CASE a.type = "<"
    <3>1. d = [c EXCEPT !.in = i]
      BY <2>2 DEF WithArgument
    <3> HIDE DEF d
    <3> QED BY <3>1 DEF Cmds
  <2>3. CASE a.type = ">"
    <3>1. d = [c EXCEPT !.out = i]
      BY <2>3 DEF WithArgument
    <3> HIDE DEF d
    <3> QED BY <3>1 DEF Cmds
  <2> QED BY <2>1, <2>2, <2>3 DEF Redirs
<1> HIDE DEF d
<1>3. ToSet(ws) = ToSet(c.args) \union {i}
  <2>1. c.args \in Seq(Nat \union {i})
    BY DEF Cmds
  <2>2. /\ DOMAIN ws = (DOMAIN c.args) \union {Len(c.args) + 1} /\ ws[Len(c.args) + 1] = i
        /\ \A k \in DOMAIN c.args : ws[k] = c.args[k]
    BY <1>1, <2>1
  <2> QED BY <2>2 DEF ToSet
<1>4. (ToSet(d.args) \union {d.in, d.out}) \subseteq (ToSet(c.args) \union {c.in, c.out}) \union {i}
  BY <1>2, <1>3
<1> QED BY <1>2, <1>4 DEF Owned, Strings, d

LEMMA OwnedByIs ==
  ASSUME NEW cs
  PROVE  \A o : o \in OwnedBy(cs) <=> \E j \in DOMAIN cs : o \in Owned(cs[j])
BY DEF OwnedBy, ToSet

LEMMA MemInit == ShellInit => MemInv
<1>1. OwnedBy(<<>>) = {}
  BY OwnedByIs
<1> QED BY <1>1 DEF ShellInit, MemInv, MemorySound, Referenced, Children

LEMMA ReadLineMem ==
  ASSUME LineInv, MemInv, ReadLine
  PROVE  MemInv'
<1>1. /\ at = "prompt" /\ at' = "scommand" /\ heap' = {<<"scommand", 1>>}
      /\ UNCHANGED <<cmd, scmd, ran>> /\ cmd = NewCmd(1) /\ scmd = <<>> /\ ran = <<>>
  BY DEF ReadLine, LineInv, Waiting, MemInv, Children
<1>2. OwnedBy(<<>>) = {} /\ Owned(NewCmd(1)) = {<<"scommand", 1>>}
  BY OwnedByIs, NewOwns
<1> QED BY <1>1, <1>2 DEF MemInv, MemorySound, Referenced, Children

LEMMA ArgumentMem ==
  ASSUME LineInv, MemInv, Argument
  PROVE  MemInv'
<1>1. /\ at = "scommand" /\ NextArgument.arg # Null /\ cmd' = WithArgument(cmd, NextArgument)
      /\ heap' = heap \union {<<"string", NextArgument.arg>>}
      /\ UNCHANGED <<at, scmd, ran>>
  BY DEF Argument
<1>2. cmd \in Cmds /\ pos \in Nat \ {0}
  BY DEF LineInv, LineTypes
<1>3. NextArgument.type \in Redirs \union {"normal"} /\ NextArgument.arg \in Nat
  BY <1>1, <1>2, NextIs DEF Null
<1>4. Owned(cmd)' \subseteq Owned(cmd) \union {<<"string", NextArgument.arg>>}
  <2>1. PICK c, a : c = cmd /\ a = NextArgument
    OBVIOUS
  <2>2. Owned(WithArgument(c, a)) \subseteq Owned(c) \union {<<"string", a.arg>>}
    BY <1>2, <1>3, <2>1, AddedOwns
  <2>3. PICK d : d = WithArgument(c, a)
    OBVIOUS
  <2>4. cmd' = d /\ Owned(d) \subseteq Owned(c) \union {<<"string", a.arg>>}
    BY <1>1, <2>1, <2>2, <2>3
  <2> QED BY <2>1, <2>4 DEF Owned, Strings
<1>5. OwnedBy(scmd) \union Owned(cmd) \subseteq heap
  BY <1>1 DEF MemInv, MemorySound, Referenced
<1>6. OwnedBy(scmd)' = OwnedBy(scmd)
  BY <1>1
<1>7. Referenced' \subseteq heap'
  BY <1>1, <1>4, <1>5, <1>6 DEF Referenced
<1> QED BY <1>1, <1>7 DEF MemInv, MemorySound, Children

LEMMA CommandMem ==
  ASSUME LineInv, MemInv, Command
  PROVE  MemInv'
<1>1. /\ at = "scommand" /\ scmd' = Append(scmd, cmd) /\ cmd' = NewCmd(pos')
      /\ \/ at' = "scommand" /\ heap' = heap \union {<<"scommand", pos'>>}
         \/ at' = "tail" /\ UNCHANGED heap
      /\ UNCHANGED ran
  BY DEF Command
<1>2. PICK c, e, cs, ds : c = cmd /\ e = pos /\ cs = scmd /\ ds = Append(cs, c)
  OBVIOUS
<1>3. /\ c \in Cmds /\ e \in Nat \ {0} /\ cs \in Seq(Cmds) /\ Taken(c, e)
      /\ Parsed(cs, c.id - 1)
  BY <1>1, <1>2 DEF LineInv, LineTypes, Parsing
<1>4. \A j \in DOMAIN cs : Owned(cs[j]) \cap Owned(c) = {}
  BY <1>3, ParsedApart DEF LineInv
<1>5. \A i, j \in DOMAIN cs : i # j => Owned(cs[i]) \cap Owned(cs[j]) = {}
  BY <1>2 DEF MemInv, MemorySound
<1>6. OwnedBy(cs) \union Owned(c) \subseteq heap
  BY <1>1, <1>2 DEF MemInv, MemorySound, Referenced
<1>7. /\ DOMAIN ds = (DOMAIN cs) \union {Len(cs) + 1} /\ ds[Len(cs) + 1] = c
      /\ \A j \in DOMAIN cs : ds[j] = cs[j]
  BY <1>2, <1>3
<1>8. OwnedBy(ds) \subseteq heap
  BY <1>6, <1>7, OwnedByIs
<1>9. \A i, j \in DOMAIN ds : i # j => Owned(ds[i]) \cap Owned(ds[j]) = {}
  BY <1>4, <1>5, <1>7
<1>10. scmd' = ds
  BY <1>1, <1>2
<1>11. PICK i : i = pos'
  OBVIOUS
<1>12. cmd' = NewCmd(i) /\ Owned(NewCmd(i)) = {<<"scommand", i>>}
  BY <1>1, <1>11, NewOwns
<1>13. Owned(cmd)' = {<<"scommand", i>>}
  <2>1. PICK d : d = NewCmd(i)
    OBVIOUS
  <2>2. cmd' = d /\ Owned(d) = {<<"scommand", i>>}
    BY <1>12, <2>1
  <2> QED BY <2>2 DEF Owned, Strings
<1>14. OwnedBy(scmd)' = OwnedBy(ds)
  BY <1>10
<1>15. Referenced' \subseteq heap'
  BY <1>1, <1>8, <1>11, <1>13, <1>14 DEF Referenced
<1>16. ran = <<>>
  BY <1>1 DEF MemInv, Children
<1> QED BY <1>1, <1>9, <1>10, <1>15, <1>16 DEF MemInv, MemorySound, Children

LEMMA LaterMissingMem ==
  ASSUME LineInv, MemInv, LaterMissing
  PROVE  MemInv'
<1>1. /\ at = "scommand" /\ scmd # <<>> /\ scmd' = Tail(scmd) /\ at' = "error"
      /\ heap' = heap \ Owned(cmd) /\ UNCHANGED ran
  BY DEF LaterMissing, Missing, PopFront
<1>2. PICK c, e, cs, ds : c = cmd /\ e = pos /\ cs = scmd /\ ds = Tail(cs)
  OBVIOUS
<1>3. /\ c \in Cmds /\ e \in Nat \ {0} /\ cs \in Seq(Cmds) /\ cs # <<>> /\ Taken(c, e)
      /\ Parsed(cs, c.id - 1)
  BY <1>1, <1>2 DEF LineInv, LineTypes, Parsing
<1>4. \A j \in DOMAIN cs : Owned(cs[j]) \cap Owned(c) = {}
  BY <1>3, ParsedApart DEF LineInv
<1>5. \A i, j \in DOMAIN cs : i # j => Owned(cs[i]) \cap Owned(cs[j]) = {}
  BY <1>2 DEF MemInv, MemorySound
<1>6. OwnedBy(cs) \subseteq heap
  BY <1>2 DEF MemInv, MemorySound, Referenced
<1>7. \A j \in DOMAIN ds : j + 1 \in DOMAIN cs /\ ds[j] = cs[j + 1] /\ j \in Nat
  BY <1>2, <1>3
<1>8. OwnedBy(ds) \subseteq heap \ Owned(c)
  BY <1>4, <1>6, <1>7, OwnedByIs
<1>9. \A i, j \in DOMAIN ds : i # j => Owned(ds[i]) \cap Owned(ds[j]) = {}
  <2> TAKE i, j \in DOMAIN ds
  <2>1. i # j => i + 1 # j + 1
    BY <1>7
  <2> QED BY <1>5, <1>7, <2>1
<1>10. scmd' = ds /\ OwnedBy(scmd)' = OwnedBy(ds)
  BY <1>1, <1>2
<1>11. Referenced' \subseteq heap'
  BY <1>1, <1>2, <1>8, <1>10 DEF Referenced
<1>12. ran = <<>>
  BY <1>1 DEF MemInv, Children
<1> QED BY <1>1, <1>9, <1>10, <1>11, <1>12 DEF MemInv, MemorySound, Children

\* Steps that take the pipeline away, or leave it and the heap alone.
LEMMA EmptyMem ==
  ASSUME scmd' = <<>>, at' # "scommand", ran' = <<>>
  PROVE  MemInv'
<1>1. OwnedBy(<<>>) = {}
  BY OwnedByIs
<1>2. OwnedBy(scmd)' = {} /\ DOMAIN scmd' = {} /\ DOMAIN ran' = {}
  BY <1>1
<1> QED BY <1>2 DEF MemInv, MemorySound, Referenced, Children

LEMMA SameMem ==
  ASSUME MemInv, UNCHANGED <<scmd, heap, ran>>, at' # "scommand",
         ran = <<>> \/ at' \in {"aborted", "quit", "destroy", "end"}
  PROVE  MemInv'
<1>1. OwnedBy(scmd)' = OwnedBy(scmd)
  OBVIOUS
<1>2. Referenced' \subseteq heap'
  BY <1>1 DEF MemInv, MemorySound, Referenced
<1> QED BY <1>2 DEF MemInv, MemorySound, Children

LEMMA FirstMissingMem ==
  ASSUME MemInv, FirstMissing
  PROVE  MemInv'
<1>1. /\ scmd' = <<>> /\ at' = "error" /\ at = "scommand" /\ UNCHANGED ran
  BY DEF FirstMissing, Missing
<1> QED BY <1>1, EmptyMem DEF MemInv, Children

LEMMA ErrorMem ==
  ASSUME MemInv, Error
  PROVE  MemInv'
<1>1. /\ scmd' = <<>> /\ at' = "garbage" /\ at = "error" /\ UNCHANGED ran
  BY DEF Error
<1> QED BY <1>1, EmptyMem DEF MemInv, Children

LEMMA DestroyMem ==
  ASSUME MemInv, Destroy
  PROVE  MemInv'
BY EmptyMem DEF Destroy

LEMMA QuietMem ==
  ASSUME MemInv, Background \/ Garbage \/ Abort \/ exit_or_help \/ Nothing
  PROVE  MemInv'
<1>1. /\ at \in {"tail", "garbage", "execute"}
      /\ at' \in {"error", "garbage", "execute", "aborted", "quit", "destroy"}
      /\ UNCHANGED <<scmd, heap, ran>>
  BY DEF Background, Garbage, Abort, exit_or_help, Nothing, Runs, parserVars
<1> QED BY <1>1, SameMem DEF MemInv, Children

\* cd takes its name and its argument off the list without freeing them.
LEMMA BuiltinMem ==
  ASSUME LineInv, MemInv, cd
  PROVE  MemInv'
<1>1. /\ at = "execute" /\ scmd # <<>> /\ First.args # <<>> /\ at' = "destroy"
      /\ UNCHANGED <<heap, ran>>
      /\ \E d : /\ d = "none" \/ Len(First.args) # 1
                /\ scmd' = [scmd EXCEPT ![1].args = IF d = "none" THEN Tail(@)
                                                    ELSE Tail(Tail(@))]
  BY DEF cd, Runs
<1>2. scmd \in Seq(Cmds) /\ 1 \in DOMAIN scmd /\ scmd[1] = First /\ First \in Cmds
  BY <1>1 DEF LineInv, LineTypes, First
<1>3. PICK ws, c, cs : ws = First.args /\ c = First /\ cs = scmd
  OBVIOUS
<1>4. ws \in Seq(Nat \ {0}) /\ ws # <<>> /\ c \in Cmds /\ c.args = ws /\ cs \in Seq(Cmds)
      /\ 1 \in DOMAIN cs /\ cs[1] = c
  BY <1>1, <1>2, <1>3 DEF Cmds
<1>5. PICK d : /\ d = "none" \/ Len(ws) # 1
               /\ scmd' = [scmd EXCEPT ![1].args = IF d = "none" THEN Tail(@)
                                                   ELSE Tail(Tail(@))]
  BY <1>1, <1>3
<1>6. PICK bs : bs = IF d = "none" THEN Tail(ws) ELSE Tail(Tail(ws))
  OBVIOUS
<1>7. ToSet(bs) \subseteq ToSet(ws)
  <2>1. Tail(ws) \in Seq(Nat \ {0}) /\ (Len(ws) # 1 => Tail(ws) # <<>>)
    BY <1>4, TailTaken
  <2>2. \A j \in DOMAIN Tail(ws) : j + 1 \in DOMAIN ws /\ Tail(ws)[j] = ws[j + 1]
    BY <1>4, TailTaken
  <2>3. Tail(ws) # <<>> =>
          \A j \in DOMAIN Tail(Tail(ws)) :
            j + 1 \in DOMAIN Tail(ws) /\ Tail(Tail(ws))[j] = Tail(ws)[j + 1]
    BY <2>1, TailTaken
  <2>4. \A j \in DOMAIN bs : \E k \in DOMAIN ws : bs[j] = ws[k]
    BY <1>5, <1>6, <2>1, <2>2, <2>3
  <2> QED BY <2>4 DEF ToSet
<1>8. PICK b : b = [c EXCEPT !.args = bs]
  OBVIOUS
<1>9. b.id = c.id /\ b.args = bs /\ b.in = c.in /\ b.out = c.out
  BY <1>4, <1>8 DEF Cmds
<1>10. Owned(b) \subseteq Owned(c)
  BY <1>4, <1>7, <1>9 DEF Owned, Strings
<1>11. PICK ds : ds = [cs EXCEPT ![1] = b]
  OBVIOUS
<1>12. scmd' = ds
  BY <1>2, <1>3, <1>5, <1>6, <1>8, <1>11
<1>13. DOMAIN ds = DOMAIN cs /\ \A j \in DOMAIN cs : Owned(ds[j]) \subseteq Owned(cs[j])
  BY <1>4, <1>10, <1>11
<1>14. /\ OwnedBy(cs) \subseteq heap
       /\ \A i, j \in DOMAIN cs : i # j => Owned(cs[i]) \cap Owned(cs[j]) = {}
  BY <1>3 DEF MemInv, MemorySound, Referenced
<1>15. OwnedBy(ds) \subseteq heap
  BY <1>13, <1>14, OwnedByIs
<1>16. \A i, j \in DOMAIN ds : i # j => Owned(ds[i]) \cap Owned(ds[j]) = {}
  BY <1>13, <1>14
<1>17. OwnedBy(scmd)' = OwnedBy(ds)
  BY <1>12
<1>18. Referenced' \subseteq heap' /\ ran = <<>>
  BY <1>1, <1>15, <1>17 DEF Referenced, MemInv, Children
<1>19. \A i, j \in DOMAIN scmd' : i # j => Owned(scmd[i])' \cap Owned(scmd[j])' = {}
  BY <1>12, <1>16 DEF Owned, Strings
<1>20. DOMAIN ran' = {} /\ at' = "destroy"
  BY <1>1, <1>18
<1> QED BY <1>18, <1>19, <1>20 DEF MemInv, MemorySound, Children

\* The children get strings that pipeline_pop_front() does not free.
LEMMA SingleMem ==
  ASSUME LineInv, MemInv, Single
  PROVE  MemInv'
<1>1. /\ scmd # <<>> /\ scmd' = <<>> /\ heap' = heap /\ at' = "destroy"
      /\ ran' = <<[cmd |-> First, stdin |-> Or(First.in, "tty"),
                   stdout |-> Or(First.out, "tty")]>>
  BY DEF Single, Runs, PopFront
<1>2. 1 \in DOMAIN scmd /\ scmd[1] = First
  BY <1>1 DEF LineInv, LineTypes, First
<1>3. Owned(scmd[1]) \subseteq heap
  <2>1. OwnedBy(scmd) \subseteq heap
    BY DEF MemInv, MemorySound, Referenced
  <2> QED BY <1>2, <2>1, OwnedByIs
<1>4. Strings(First) \subseteq heap
  BY <1>2, <1>3 DEF Owned
<1>5. DOMAIN ran' = {1} /\ ran[1].cmd' = First
  BY <1>1
<1>6. OwnedBy(scmd)' = {} /\ DOMAIN scmd' = {}
  BY <1>1, OwnedByIs
<1>7. \A i \in DOMAIN ran' : Strings(ran[i].cmd)' \subseteq heap'
  <2>1. PICK c, r : c = First /\ r = ran'
    OBVIOUS
  <2>2. DOMAIN r = {1} /\ r[1].cmd = c /\ Strings(c) \subseteq heap
    BY <1>4, <1>5, <2>1
  <2>3. \A i \in DOMAIN r : Strings(r[i].cmd) \subseteq heap
    BY <2>2
  <2> QED BY <1>1, <2>1, <2>3 DEF Strings
<1> QED BY <1>1, <1>6, <1>7 DEF MemInv, MemorySound, Referenced, Children

LEMMA PairMem ==
  ASSUME LineInv, MemInv, Pair
  PROVE  MemInv'
<1>1. /\ scmd # <<>> /\ Len(scmd) = 2 /\ scmd' = <<>> /\ heap' = heap /\ at' = "destroy"
      /\ Len(ran') = 2 /\ DOMAIN ran' = {1, 2}
      /\ ran'[1].cmd = First /\ ran'[2].cmd = scmd[2]
  BY DEF Pair, Runs, PopFront
<1>2. 1 \in DOMAIN scmd /\ 2 \in DOMAIN scmd /\ scmd[1] = First
  BY <1>1 DEF LineInv, LineTypes, First
<1>3. Owned(scmd[1]) \subseteq heap /\ Owned(scmd[2]) \subseteq heap
  <2>1. OwnedBy(scmd) \subseteq heap
    BY DEF MemInv, MemorySound, Referenced
  <2> QED BY <1>2, <2>1, OwnedByIs
<1>4. Strings(First) \subseteq heap /\ Strings(scmd[2]) \subseteq heap
  BY <1>2, <1>3 DEF Owned
<1>5. OwnedBy(scmd)' = {} /\ DOMAIN scmd' = {}
  BY <1>1, OwnedByIs
<1>6. \A i \in DOMAIN ran' : Strings(ran[i].cmd)' \subseteq heap'
  <2>1. PICK c, d, r : c = First /\ d = scmd[2] /\ r = ran'
    OBVIOUS
  <2>2. /\ DOMAIN r = {1, 2} /\ r[1].cmd = c /\ r[2].cmd = d
        /\ Strings(c) \subseteq heap /\ Strings(d) \subseteq heap
    BY <1>1, <1>4, <2>1
  <2>3. \A i \in DOMAIN r : Strings(r[i].cmd) \subseteq heap
    BY <2>2
  <2> QED BY <1>1, <2>1, <2>3 DEF Strings
<1> QED BY <1>1, <1>5, <1>6 DEF MemInv, MemorySound, Referenced, Children

LEMMA MemStutters ==
  ASSUME MemInv, UNCHANGED shellVars
  PROVE  MemInv'
<1>1. UNCHANGED <<at, cmd, scmd, heap, ran>>
  BY DEF shellVars, parserVars
<1>2. OwnedBy(scmd)' = OwnedBy(scmd) /\ Owned(cmd)' = Owned(cmd)
  BY <1>1
<1>3. Referenced' \subseteq heap'
  BY <1>1, <1>2 DEF MemInv, MemorySound, Referenced
<1>4. \A i, j \in DOMAIN scmd' : i # j => Owned(scmd[i])' \cap Owned(scmd[j])' = {}
  BY <1>1 DEF MemInv, MemorySound
<1>5. \A i \in DOMAIN ran' : Strings(ran[i].cmd)' \subseteq heap'
  BY <1>1 DEF MemInv, MemorySound
<1> QED BY <1>1, <1>3, <1>4, <1>5 DEF MemInv, MemorySound, Children

LEMMA MemNext ==
  ASSUME LineInv, MemInv, [ShellNext]_shellVars
  PROVE  MemInv'
BY ReadLineMem, ArgumentMem, CommandMem, FirstMissingMem, LaterMissingMem, ErrorMem,
   QuietMem, BuiltinMem, SingleMem, PairMem, DestroyMem, MemStutters DEF ShellNext

\* No string and no command is freed twice or used after it was freed, and each has one
\* owner, for every line of tokens (command.c, parsing.c, execute.c:57-66).
THEOREM MemoryIsSound == ShellSpec => []MemorySound
<1>1. MemInv => MemorySound
  BY DEF MemInv
<1> QED BY <1>1, MemInit, MemNext, LineInvariant, PTL DEF ShellSpec
=============================================================================
