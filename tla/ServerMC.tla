------------------------------- MODULE ServerMC -------------------------------
(***************************************************************************)
(* Small instances of Server: two requests for features, one whose handler *)
(* fails and one for an unknown method; settings that are valid options,   *)
(* and settings that are not.                                              *)
(***************************************************************************)
EXTENDS Server, TLC

CONSTANTS w1, w2, hover, preprocessed, unknown,
          before, after, invalid, defaults, error          \* model values

Workers == Permutations({w1, w2})
=============================================================================
