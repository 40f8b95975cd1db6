------------------------------ MODULE MCFatFs ------------------------------
(* FatFs with a file and a directory in the root and a file in the directory. *)
EXTENDS FatFs

MCFiles == {<<"b">>, <<"a", "c">>}
MCDirs  == {<<"a">>}
MCData  == {Junk, Text}
=============================================================================
