---------------------------- MODULE MCETWSession ----------------------------
(* Small instances of ETWSession: the bounds are numbers.                   *)
EXTENDS ETWSession
=============================================================================
