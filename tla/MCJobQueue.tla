----------------------------- MODULE MCJobQueue -----------------------------
(* A small instance of a job queue, whose Threads and Jobs are model       *)
(* values.                                                                 *)
EXTENDS JobQueue
=============================================================================
