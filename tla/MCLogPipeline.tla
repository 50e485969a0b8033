---------------------------- MODULE MCLogPipeline ----------------------------
(***************************************************************************)
(* An instance of LogPipeline.  Queues of one place stand for the 100000   *)
(* of the program, so that send really blocks.                             *)
(***************************************************************************)
EXTENDS LogPipeline

Job(first, last, toobig) == [sends |-> SubSeq(Order, first, last), big |-> toobig]

\* A stored pair; one whose log record exceeds 400 bytes; a pixel ad.gif with such a record.
MixedJobs == {Job(2, 3, {}), Job(2, 3, {"mapping_log"}), Job(1, 2, {"mapping_log"})}

==============================================================================
