------------------------------- MODULE MCDaemon -------------------------------
(* A bucket of three refills, chunks of up to two; a second pass finds the  *)
(* state the first one left.                                                *)
EXTENDS Daemon
CONSTANTS x1, x2, cut
TwoJobs   == {x1, x2}
OneCut    == {cut}
MCStreams == {x1, x2, cut}
=============================================================================
