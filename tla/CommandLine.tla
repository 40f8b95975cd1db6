----------------------------- MODULE CommandLine -----------------------------
(***************************************************************************)
(* LAB1's shell between the prompt and the fork(): parse_pipeline() of     *)
(* parsing.c on the lists of command.c, the builtins of builtin.c, and what*)
(* execute_pipeline() gives to the children (how these run: MyBash).       *)
(*                                                                         *)
(* A line is a sequence of tokens, a string is the place of its token in   *)
(* the line.  heap has the strings and the simple commands that malloc()   *)
(* gave and nobody freed.  Every fork(), pipe() and open() succeeds here.  *)
(***************************************************************************)
EXTENDS Naturals, Sequences, SequencesExt, FiniteSets

CONSTANTS Lines,      \* what users type
          MaxLines,   \* lines in a session
          Login,      \* the user's home: a path, which is a sequence of names
          Directories \* the paths that are directories

\* A token is a word, a redirection or an operator; "\n" is what there is behind them.
Words == UNION {ToSet(l) : l \in Lines}
ASSUME LinesAssumption == Lines \subseteq Seq(Words \ {"\n"})

VARIABLES
  at,                           \* point of mybash's loop and of parse_pipeline()
  line, pos,                    \* the line, and where the parser is in it
  cmd, scmd, wait,              \* parse_scommand()'s cmd; the pipeline
  another_pipe, had_error, said,  \* locals of parse_pipeline(), and what it printed
  heap,
  ran,                          \* the children: a command, and its stdin and stdout
  home, cwd, typed, dest        \* $HOME, the working directory, lines typed, last cd

parserVars == <<line, pos, cmd, scmd, wait, another_pipe, had_error, said>>
homeVars   == <<home, cwd, typed, dest>>
shellVars  == <<at, parserVars, heap, ran, homeVars>>

Null   == 0
Redirs == {"<", ">"}
Tok(i) == IF i <= Len(line) THEN line[i] ELSE "\n"
Word(i) == Tok(i) \notin {"<", ">", "|", "&", "\n"}

NewCmd(i) == [id |-> i, args |-> <<>>, in |-> Null, out |-> Null]

\* What scommand_destroy() and pipeline_destroy() free.
Strings(c) == {<<"string", s>> : s \in (ToSet(c.args) \union {c.in, c.out}) \ {Null}}
Owned(c)   == {<<"scommand", c.id>>} \union Strings(c)
OwnedBy(p) == UNION {Owned(c) : c \in ToSet(p)}

ShellInit ==
  /\ at = "prompt" /\ line = <<>> /\ pos = 1
  /\ cmd = NewCmd(1) /\ scmd = <<>> /\ wait = TRUE
  /\ another_pipe = FALSE /\ had_error = FALSE /\ said = <<>>
  /\ heap = {} /\ ran = <<>> /\ dest = "none"
  /\ home = Login /\ cwd = Login /\ typed = 0

-----------------------------------------------------------------------------
(* parser.o: at EOF everything is as at the end of a line.                 *)

\* parser_next_argument(): type, string or Null, and where it leaves the parser.
NextArgument ==
  LET redir == Tok(pos) \in Redirs
      i     == IF redir THEN pos + 1 ELSE pos
  IN  [type |-> IF redir THEN Tok(pos) ELSE "normal",
       arg  |-> IF Word(i) THEN i ELSE Null,
       next |-> IF Word(i) THEN i + 1 ELSE i]

\* parser_op_pipe(), parser_op_background(): where they leave it.
Past(op, i) == IF Tok(i) = op THEN i + 1 ELSE i

-----------------------------------------------------------------------------
(* parsing.c                                                               *)

ReadLine ==
  /\ at = "prompt" /\ typed < MaxLines
  /\ at' = "scommand" /\ typed' = typed + 1
  /\ line' \in Lines
  /\ another_pipe' = TRUE
  /\ heap' = {<<"scommand", 1>>}
  /\ UNCHANGED <<pos, cmd, scmd, wait, had_error, said, ran, home, cwd, dest>>

\* scommand_push_back(), or the redirection, which may take the place of another.
WithArgument(c, a) ==
  CASE a.type = "normal" -> [c EXCEPT !.args = Append(@, a.arg)]
    [] a.type = "<"      -> [c EXCEPT !.in = a.arg]
    [] a.type = ">"      -> [c EXCEPT !.out = a.arg]

\* A turn of parse_scommand()'s loop.
Argument ==
  /\ at = "scommand" /\ NextArgument.arg # Null
  /\ cmd'  = WithArgument(cmd, NextArgument)
  /\ heap' = heap \union {<<"string", NextArgument.arg>>}
  /\ pos'  = NextArgument.next
  /\ UNCHANGED <<at, line, scmd, wait, another_pipe, had_error, said, ran, homeVars>>

\* It returns NULL for a command without a token, and for a redirection without a name.
Fresh     == cmd = NewCmd(cmd.id)
Nameless  == ~Fresh /\ NextArgument.type \in Redirs
Missing   == at = "scommand" /\ NextArgument.arg = Null /\ (Fresh \/ Nameless)
SyntaxMsg == IF Nameless THEN <<"no redirection">> ELSE <<>>

\* A command: pipeline_push_back(), parser_op_pipe().
Command ==
  /\ at = "scommand" /\ NextArgument.arg = Null /\ ~Fresh /\ ~Nameless
  /\ scmd' = Append(scmd, cmd)
  /\ another_pipe' = (Tok(NextArgument.next) = "|")
  /\ pos' = Past("|", NextArgument.next)
  /\ cmd' = NewCmd(pos')
  /\ IF another_pipe' THEN at' = "scommand" /\ heap' = heap \union {<<"scommand", pos'>>}
                      ELSE at' = "tail" /\ UNCHANGED heap
  /\ UNCHANGED <<line, wait, had_error, said, ran, homeVars>>

\* No first command: an empty line, or an operator.
FirstMissing ==
  /\ Missing /\ scmd = <<>>
  /\ another_pipe' = (Tok(NextArgument.next) = "|")
  /\ pos' = Past("&", Past("|", NextArgument.next))
  /\ had_error' = (pos' = NextArgument.next)
  /\ said' = SyntaxMsg
  /\ heap' = heap \ Owned(cmd)
  /\ at' = "error"
  /\ UNCHANGED <<line, cmd, scmd, wait, ran, homeVars>>

\* (Mutation: pipeline_pop_front() destroys the command, as command.h says.)
PopFront_destroy(h, c) == h \ Owned(c)

\* pipeline_pop_front() only takes the command off the list.
PopFront(h, c) == h

\* Nothing after a "|".
LaterMissing ==
  /\ Missing /\ scmd # <<>>
  /\ scmd' = Tail(scmd)
  /\ heap' = PopFront(heap \ Owned(cmd), Head(scmd))
  /\ had_error' = (had_error \/ Nameless)
  /\ said' = SyntaxMsg
  /\ pos' = NextArgument.next
  /\ at' = "error"
  /\ UNCHANGED <<line, cmd, wait, another_pipe, ran, homeVars>>

\* (Mutation: the flag as it was read.)
Background_swapped ==
  /\ at = "tail"
  /\ wait' = (Tok(pos) = "&")
  /\ another_pipe' = (Tok(pos) = "&" /\ Tok(pos + 1) = "|")
  /\ pos' = IF Tok(pos) = "&" THEN Past("|", pos + 1) ELSE pos
  /\ at' = IF another_pipe' THEN "error" ELSE "garbage"
  /\ UNCHANGED <<line, cmd, scmd, had_error, said, heap, ran, homeVars>>

\* "&", which no "|" may follow.
Background ==
  /\ at = "tail"
  /\ wait' = (Tok(pos) # "&")
  /\ another_pipe' = (Tok(pos) = "&" /\ Tok(pos + 1) = "|")
  /\ pos' = IF Tok(pos) = "&" THEN Past("|", pos + 1) ELSE pos
  /\ at' = IF another_pipe' THEN "error" ELSE "garbage"
  /\ UNCHANGED <<line, cmd, scmd, had_error, said, heap, ran, homeVars>>

\* The messages, and an empty pipeline in the place of what there was.
Error ==
  /\ at = "error"
  /\ pos' = IF scmd = <<>> THEN Past("&", Past("|", pos)) ELSE pos
  /\ LET operator == IF scmd = <<>> THEN pos' # pos ELSE another_pipe
     IN  said' = said \o (IF had_error THEN <<>>
                          ELSE IF operator THEN <<"syntax">> ELSE <<"arguments">>)
  /\ heap' = heap \ OwnedBy(scmd)
  /\ scmd' = <<>> /\ wait' = TRUE
  /\ at' = "garbage"
  /\ UNCHANGED <<line, cmd, another_pipe, had_error, ran, homeVars>>

\* parser_garbage(): the rest of the line is dropped without a word.
Garbage ==
  /\ at = "garbage"
  /\ pos' = Len(line) + 1
  /\ at' = "execute"
  /\ UNCHANGED <<line, cmd, scmd, wait, another_pipe, had_error, said, heap, ran, homeVars>>
-----------------------------------------------------------------------------
(* builtin.c                                                               *)

First       == Head(scmd)
NameOf(c)   == line[c.args[1]]
Internal(c) == NameOf(c) = "cd" \/ (Len(c.args) = 1 /\ NameOf(c) \in {"exit", "help"})
Runs        == at = "execute" /\ scmd # <<>>

\* cmd_is_cd() asks for the name of the first command: scommand_front() asserts that
\* there is one.
Abort ==
  /\ Runs /\ First.args = <<>>
  /\ at' = "aborted"
  /\ UNCHANGED <<parserVars, heap, ran, homeVars>>

Chdir(path)    == IF path \in Directories THEN path ELSE cwd
Down(d, name)  == IF name = ".." THEN SubSeq(d, 1, Len(d) - 1) ELSE Append(d, name)

\* getcwd() and strcat() write into the string that getenv() returned.
Home(d) ==
  CASE d = "."   -> cwd
    [] d = "~/d" -> Append(home, "d")
    [] OTHER     -> home

cd ==
  /\ Runs /\ First.args # <<>> /\ NameOf(First) = "cd"
  /\ LET d == IF Len(First.args) = 1 THEN "none" ELSE line[First.args[2]]
     IN  /\ home' = Home(d)
         /\ cwd'  = CASE d \in {"none", "~"} -> Chdir(home)
                      [] d = "."             -> cwd
                      [] d = "~/d"           -> Chdir(home')
                      [] d = "./d"           -> Chdir(Append(cwd, "d"))
                      [] OTHER               -> Chdir(Down(cwd, d))
         /\ scmd' = [scmd EXCEPT ![1].args = IF d = "none" THEN Tail(@) ELSE Tail(Tail(@))]
         /\ dest' = d
  /\ at' = "destroy"
  /\ UNCHANGED <<line, pos, cmd, wait, another_pipe, had_error, said, heap, ran, typed>>

exit_or_help ==
  /\ Runs /\ First.args # <<>> /\ Len(First.args) = 1 /\ NameOf(First) \in {"exit", "help"}
  /\ at' = IF NameOf(First) = "exit" THEN "quit" ELSE "destroy"
  /\ UNCHANGED <<parserVars, heap, ran, homeVars>>

-----------------------------------------------------------------------------
(* execute.c, and the loop of mybash.c                                     *)

OpenedFile(s) == <<"file", s>>
Or(s, other)  == IF s = Null THEN <<other, Null>> ELSE OpenedFile(s)

Emptied(c) == [c EXCEPT !.args = <<>>]   \* scommand_to_array()

Single ==
  /\ Runs /\ First.args # <<>> /\ ~Internal(First) /\ Len(scmd) = 1
  /\ ran'  = <<[cmd |-> First, stdin |-> Or(First.in, "tty"), stdout |-> Or(First.out, "tty")]>>
  /\ scmd' = <<>>
  /\ heap' = PopFront(heap, Emptied(First))
  /\ at' = "destroy"
  /\ UNCHANGED <<line, pos, cmd, wait, another_pipe, had_error, said, homeVars>>

\* The second child opens both its files for writing.
Pair ==
  /\ Runs /\ First.args # <<>> /\ ~Internal(First) /\ Len(scmd) = 2
  /\ LET c == scmd[2]
     IN  /\ ran' = <<[cmd |-> First, stdin |-> Or(First.in, "tty"), stdout |-> Or(First.out, "pipe")],
                     [cmd |-> c, stdin |-> <<"pipe", Null>>,
                      stdout |-> IF c.in = Null THEN Or(c.out, "tty") ELSE OpenedFile(c.in)]>>
         /\ heap' = PopFront(PopFront(heap, Emptied(First)), Emptied(c))
  /\ scmd' = <<>>
  /\ at' = "destroy"
  /\ UNCHANGED <<line, pos, cmd, wait, another_pipe, had_error, said, homeVars>>

\* An empty pipeline, or one of three commands and more.
Nothing ==
  /\ at = "execute"
  /\ scmd # <<>> => First.args # <<>> /\ ~Internal(First) /\ Len(scmd) > 2
  /\ at' = "destroy"
  /\ UNCHANGED <<parserVars, heap, ran, homeVars>>

\* pipeline_destroy(); the locals of the line are gone.
Destroy ==
  /\ at \in {"destroy", "quit"}
  /\ heap' = heap \ OwnedBy(scmd)
  /\ line' = <<>> /\ pos' = 1
  /\ cmd' = NewCmd(1) /\ scmd' = <<>> /\ wait' = TRUE
  /\ another_pipe' = FALSE /\ had_error' = FALSE /\ said' = <<>>
  /\ ran' = <<>> /\ dest' = "none"
  /\ at' = IF at = "quit" THEN "end" ELSE "prompt"
  /\ UNCHANGED <<home, cwd, typed>>

ShellNext ==
  \/ ReadLine \/ Argument \/ Command \/ FirstMissing \/ LaterMissing \/ Background \/ Error \/ Garbage
  \/ Abort \/ cd \/ exit_or_help \/ Single \/ Pair \/ Nothing \/ Destroy

ShellSpec == ShellInit /\ [][ShellNext]_shellVars
-----------------------------------------------------------------------------
(* Properties.                                                             *)

\* The line up to its "&", the places of its operators, and its parts: what lies between
\* two of these places.
Amp      == SelectInSeq(Append(line, "&"), LAMBDA t : t = "&")
Bars     == {i \in 1..(Amp - 1) : line[i] = "|"}
Segments == {s \in (Bars \union {0}) \X (Bars \union {Amp}) :
               s[1] < s[2] /\ \A b \in Bars : b <= s[1] \/ s[2] <= b}
Tokens(s)  == (s[1] + 1)..(s[2] - 1)
Names(s)   == {i \in Tokens(s) : Word(i)}
FileOf(s, redir) == {i \in Names(s) : i - 1 \in Tokens(s) /\ Tok(i - 1) = redir}
Good(s)    == /\ Tokens(s) # {}
              /\ \A i \in Tokens(s) : line[i] \in Redirs => i + 1 \in Names(s)
Accepted   == (\A s \in Segments : Good(s)) /\ Tok(Amp + 1) # "|"

Latest(S)  == IF S = {} THEN Null ELSE CHOOSE i \in S : \A j \in S : j <= i
Asked(s, c) ==
  /\ ToSet(c.args) = Names(s) \ (FileOf(s, "<") \union FileOf(s, ">"))
  /\ \A i, j \in DOMAIN c.args : i < j => c.args[i] < c.args[j]
  /\ c.in = Latest(FileOf(s, "<")) /\ c.out = Latest(FileOf(s, ">"))

\* What is executed is what was typed up to the first "&": a command for each part
\* between two "|", in their order, with its words and its last redirections, waited for
\* if there is no "&"; and nothing at all if a part is empty, a redirection has no name or
\* a "|" follows the "&".  This is said to the user unless the line is empty or begins with
\* a redirection and another one, or the end, in the place of its name (parsing.c:49-127).
Silently == \/ line = <<>>
            \/ line[1] \in Redirs /\ Tok(2) \in Redirs \union {"\n"}
AsTyped ==
  at = "execute" =>
    /\ Len(scmd) = IF Accepted THEN Cardinality(Bars) + 1 ELSE 0
    /\ Accepted => \A s \in Segments :
                     Asked(s, scmd[Cardinality({b \in Bars : b <= s[1]}) + 1])
    /\ wait = (~Accepted \/ Amp > Len(line))
    /\ said = <<>> <=> Accepted \/ Silently

\* Nothing is freed twice or used afterwards, and nobody owns what another one does:
\* not the pipeline, parse_scommand()'s cmd, nor the strings that the children were
\* given and execute_pipeline() goes on using after pipeline_pop_front() (execute.c:57-66).
Referenced == OwnedBy(scmd) \union (IF at = "scommand" THEN Owned(cmd) ELSE {})
MemorySound ==
  /\ Referenced \subseteq heap
  /\ \A i, j \in DOMAIN scmd : i # j => Owned(scmd[i]) \cap Owned(scmd[j]) = {}
  /\ \A i \in DOMAIN ran : Strings(ran[i].cmd) \subseteq heap
=============================================================================
