---------------------------- MODULE MCJobEvents ----------------------------
(* Small instances of JobEvents for TLC.                                   *)
EXTENDS JobEvents
=============================================================================
