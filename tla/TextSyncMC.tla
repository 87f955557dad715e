------------------------------ MODULE TextSyncMC ------------------------------
(***************************************************************************)
(* Instance of TextSync: files of at most three characters, in which a     *)
(* wide character is before another, at the end of a line, or after one.   *)
(***************************************************************************)
EXTENDS TextSync

SomeTexts == {<<"latin", "emoji", "ascii">>, <<"emoji", "newline", "latin">>}
SomeInserts == {<<>>, <<"emoji", "newline">>}
=============================================================================
