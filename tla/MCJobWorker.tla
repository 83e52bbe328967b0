----------------------------- MODULE MCJobWorker -----------------------------
(***************************************************************************)
(* Small pools for TLC: process A runs the goroutines a0 and a1, process B *)
(* the goroutine b0, and every process names its goroutines worker-0,      *)
(* worker-1, ... (Worker.Run), so a0 and b0 share a name.  Row 1 has one   *)
(* attempt and, in the run of the whole pool, no handler; row 2 has a      *)
(* handler and two attempts.  A crash of A with both goroutines at work    *)
(* leaves row 1 lapsed, its budget spent, ahead of row 2.                  *)
(***************************************************************************)
EXTENDS JobWorker

CONSTANTS a0, a1, b0, A, B, worker0, worker1, Scenarios

Budgets       == [j \in Jobs |-> IF j = 1 THEN 1 ELSE 2]
SingleAttempt == [j \in Jobs |-> 1]

ProcessOf == [w \in Workers |-> IF w = b0 THEN B ELSE A]
NameOf    == [w \in Workers |-> IF w = a1 THEN worker1 ELSE worker0]

(***************************************************************************)
(* A scenario is who acts in one behaviour: the workers that run, the rows *)
(* that are enqueued, the processes that may be told to stop, the faults   *)
(* that strike, whether operators retry dead jobs, and whether handlers    *)
(* and statements may overrun.                                             *)
(***************************************************************************)
Siblings   == [workers |-> {a0, a1}, rows |-> Jobs, stopped |-> {}, faults |-> 1,
               operators |-> {}, mayOverrun |-> FALSE]
Overrunning == [workers |-> {a0, a1}, rows |-> {2}, stopped |-> {}, faults |-> 1,
               operators |-> {}, mayOverrun |-> TRUE]
Replicas   == [workers |-> {a0, b0}, rows |-> {2}, stopped |-> {A}, faults |-> 2,
               operators |-> {}, mayOverrun |-> TRUE]
Retrying   == [workers |-> {b0}, rows |-> {2}, stopped |-> {}, faults |-> 1,
               operators |-> Operators, mayOverrun |-> TRUE]
Namesakes  == [workers |-> {a0, b0}, rows |-> {2}, stopped |-> {}, faults |-> 0,
               operators |-> {}, mayOverrun |-> TRUE]
Alone      == [workers |-> {b0}, rows |-> Jobs, stopped |-> {}, faults |-> 1,
               operators |-> {}, mayOverrun |-> FALSE]

WholePool     == {Siblings, Overrunning, Replicas, Retrying}
OnlyNamesakes == {Namesakes}
OnlyAlone     == {Alone}

VARIABLE scenario

Within(x) ==
  /\ \A w \in Workers \ x.workers : workers'[w] = workers[w]
  /\ \A j \in Jobs \ x.rows : jobs'[j] = jobs[j]
  /\ stopping' \subseteq x.stopped
  /\ faults' <= x.faults
  /\ \A op \in Operators \ x.operators : lookups'[op] = NoLookup
  /\ late' => x.mayOverrun

MCInit == scenario \in Scenarios /\ Init

InScenario == Within(scenario) /\ UNCHANGED scenario

\* Next, within the scenario; every action is a disjunct, so that TLC counts each.
MCNext ==
  \/ \E j \in Jobs : Produce(j) /\ InScenario
  \/ \E w \in Workers :
       \/ LockClaim(w) /\ InScenario
       \/ CommitClaim(w) /\ InScenario
       \/ RefuseClaim(w) /\ InScenario
       \/ FindNothing(w) /\ InScenario
       \/ Reclaim(w) /\ InScenario
       \/ StopLoop(w) /\ InScenario
       \/ \E ok \in BOOLEAN : HandlerEnds(w, ok) /\ InScenario
       \/ Record(w) /\ InScenario
       \/ LoseClaim(w) /\ InScenario
       \/ LoseReclaim(w) /\ InScenario
       \/ LoseRecord(w) /\ InScenario
  \/ \E p \in Processes :
       \/ Signal(p) /\ InScenario
       \/ Crash(p) /\ InScenario
       \/ Restart(p) /\ InScenario
  \/ \E op \in Operators :
       \/ LookUpDead(op) /\ InScenario
       \/ CommitRetry(op) /\ InScenario
  \/ Pass /\ InScenario

MCSpec == MCInit /\ [][MCNext]_<<vars, scenario>>

\* Fairness, for the workers and the clock of the scenario.
MCFairness ==
  /\ \A w \in Workers : /\ WF_<<vars, scenario>>(WorkerStep(w) /\ InScenario)
                        /\ SF_<<vars, scenario>>(Record(w) /\ InScenario)
                        /\ SF_<<vars, scenario>>(Reclaim(w) /\ InScenario)
  /\ \A p \in Processes : WF_<<vars, scenario>>(Restart(p) /\ InScenario)
  /\ SF_<<vars, scenario>>(Pass /\ InScenario)

MCFairSpec == MCSpec /\ MCFairness
=============================================================================
