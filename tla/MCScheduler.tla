----------------------------- MODULE MCScheduler -----------------------------
(* Small instances of Scheduler: which threads and topics there are.        *)
EXTENDS Scheduler

CONSTANTS r1, r2, t1

TwoRequests == {r1, r2}
OneTopic == {t1}
TwoTimes == {"06:00", "08:00"}
BothFaults == {"read", "list"}
=============================================================================
