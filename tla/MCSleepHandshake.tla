-------------------------- MODULE MCSleepHandshake --------------------------
(* One sleep, which may end at any moment, and at most one eject job: every  *)
(* thread meets every other in every phase of a sleep, an eject and a stop.  *)
EXTENDS SleepHandshake
=============================================================================
