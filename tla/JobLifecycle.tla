---------------------------- MODULE JobLifecycle -----------------------------
(***************************************************************************)
(* What the registry promises about one ingestion job, whoever works on    *)
(* it: a job starts at most MaxAttempts times, counts every start, ends in *)
(* success only from a started run, and never leaves success.              *)
(***************************************************************************)
EXTENDS Naturals

CONSTANTS Versions, MaxAttempts

VARIABLES life, tries

Init ==
  /\ life = [v \in Versions |-> "none"]
  /\ tries = [v \in Versions |-> 0]

Move(v, from, to) ==
  /\ life[v] \in from
  /\ life' = [life EXCEPT ![v] = to]

Accept(v) == Move(v, {"none"}, "queued") /\ UNCHANGED tries

\* A queued job, a failed one, or a running one whose worker was given up.
Begin(v) ==
  /\ Move(v, {"queued", "failed", "running"}, "running")
  /\ tries[v] < MaxAttempts
  /\ tries' = [tries EXCEPT ![v] = @ + 1]

Succeed(v) == Move(v, {"running"}, "succeeded") /\ UNCHANGED tries

Fail(v) == Move(v, {"running"}, "failed") /\ UNCHANGED tries

\* No further attempt: the rest of the budget is written off.
GiveUp(v) ==
  /\ Move(v, {"failed"}, "failed")
  /\ tries' = [tries EXCEPT ![v] = MaxAttempts]

Next == \E v \in Versions : Accept(v) \/ Begin(v) \/ Succeed(v) \/ Fail(v) \/ GiveUp(v)

Spec == Init /\ [][Next]_<<life, tries>>
=============================================================================
