------------------------------- MODULE MCJobs -------------------------------
(* Small instances of Jobs for TLC: the configurations give the constants. *)
EXTENDS Jobs
=============================================================================
