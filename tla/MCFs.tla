-------------------------------- MODULE MCFs --------------------------------
(* The programs of the instances of Fs. *)
EXTENDS Fs

CONSTANTS p1, p2

A     == <<"/", "a">>
B     == <<"/", "b">>
AB    == <<"/", "a", "b">>
X     == <<"x">>
Up    == <<"..">>
Do(op, path)    == [op |-> op, path |-> path, mode |-> "rdwr"]
Trunc(op, path) == [op |-> op, path |-> path, mode |-> "trunc"]
Read(path)      == [op |-> "open", path |-> path, mode |-> "rdonly"]
Link(old, new)  == [op |-> "link", path |-> old, new |-> new]
On(op)          == [op |-> op]

Programs == <<
  << Do("creat", A), On("write"), On("write"), On("close") >>,
  << Do("creat", B), Do("unlink", B) >>,
  << Link(A, B), Do("unlink", A) >>,
  << Do("creat", B), Link(B, A), Link(B, AB) >>,
  << Trunc("open", A), On("write"), On("close") >>,
  << Do("mkdir", A), Do("creat", AB), Do("unlink", A) >>,
  << Do("unlink", AB), Do("unlink", A) >>,
  << Do("mkdir", A), Do("mkdir", AB), Do("chdir", AB), Read(Up) >>,
  << Do("chdir", A), Do("creat", X), Read(B) >>
>>

\* Every pair of these programs, the processes being interchangeable.
MCWorkloads ==
  {[p \in {p1, p2} |-> Programs[k[IF p = p1 THEN 1 ELSE 2]]] :
     k \in {j \in (DOMAIN Programs) \X (DOMAIN Programs) : j[1] <= j[2]}}

\* Twice the same program, whose files come and go under one name.
MCTwo == {[p \in {p1, p2} |-> << Do("creat", B), On("close"), Do("unlink", B) >>]}
=============================================================================
