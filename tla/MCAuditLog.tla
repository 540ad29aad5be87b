------------------------------ MODULE MCAuditLog ------------------------------
(***************************************************************************)
(* AuditLog with two goroutines of three entries each on a queue of two:   *)
(* the queue fills, and the drain goroutine is caught holding an entry     *)
(* when Close begins.                                                      *)
(***************************************************************************)
EXTENDS AuditLog

CONSTANTS pipeline, overview, run, again

MCLoggers == {pipeline, overview}
MCClosers == {run, again}
=============================================================================
