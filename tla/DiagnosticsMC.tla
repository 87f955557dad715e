---------------------------- MODULE DiagnosticsMC ----------------------------
(* A plugin that includes one document, and two runs of spcomp at a time.  *)
EXTENDS Diagnostics, TLC

Runs == Permutations(Run)

\* The server may handle a change when the client has reported the next.
ServerLags == [ch \in Channel |-> IF ch = "client" THEN 1 ELSE 2]
OneEach == [ch \in Channel |-> 1]
=============================================================================
