---------------------------- MODULE MCModeration ----------------------------
(***************************************************************************)
(* Instances of Moderation for TLC.  A scenario is what one behaviour is   *)
(* about: the cases that come up, who reviews them, the measures asked for *)
(* and how late the clock runs, and whether a verification may land late.  *)
(***************************************************************************)
EXTENDS Moderation, TLC

CONSTANTS mod, ada, sec, boss, arena1, arg1, acc1, case1, case2, case3, case4, case5, case6,
          x1, Scenarios

\* boss is an administrator too, and owns every target.
RoleOf == (mod :> "moderator") @@ (ada :> "admin") @@ (sec :> "security") @@ (boss :> "admin")
OwnerOf == (arena1 :> boss) @@ (arg1 :> boss) @@ (acc1 :> boss)
SubjectOf == (case1 :> arena1) @@ (case2 :> arena1) @@ (case3 :> arg1) @@ (case4 :> arg1)
               @@ (case5 :> acc1) @@ (case6 :> acc1)
CreditedBy == (x1 :> arg1)

\* Two cases about one Arena, one argument, or one account (pending at first).
ClosingAnArena ==
  [cases |-> {case1, case2}, staff |-> {ada, mod, boss}, late |-> FALSE, time |-> 1,
   measures |-> {"arena_close", "argument_remove"}, outcomes |-> {"upheld", "reversed"}]

RemovingAnArgument ==
  [cases |-> {case3, case4}, staff |-> {ada, mod}, late |-> FALSE, time |-> 1,
   measures |-> {"argument_remove"}, outcomes |-> {"reversed"}]

Discrediting ==
  [cases |-> {case3}, staff |-> {ada, mod}, late |-> FALSE, time |-> 1,
   measures |-> {"attribution_invalidate", "argument_remove"}, outcomes |-> {"reversed"}]

Suspending ==
  [cases |-> {case5, case6}, staff |-> {ada, sec}, late |-> TRUE, time |-> 1,
   measures |-> {"suspension"}, outcomes |-> {"reversed"}]

\* One case, claimed again each time the lease lapses.
Reclaiming ==
  [cases |-> {case5}, staff |-> {ada, sec}, late |-> FALSE, time |-> 3,
   measures |-> {"suspension", "ban", "no_action"}, outcomes |-> {"modified", "reversed"}]

AllScenarios ==
  {ClosingAnArena, RemovingAnArgument, Discrediting, Suspending, Reclaiming}

ReversingScenarios == {RemovingAnArgument, Discrediting}

VARIABLE scenario

Within(x) ==
  /\ now' <= x.time
  /\ \A c \in Cases : cases[c].status = "open" /\ cases'[c].status # "open" =>
       c \in x.cases /\ cases'[c].by \in x.staff
  /\ \A s \in Sessions : pc[s] = "idle" /\ pc'[s] # "idle" =>
       /\ call'[s].by \in x.staff
       /\ call'[s].kind = "decide" => call'[s].case \in x.cases /\ call'[s].measure \in x.measures
       /\ call'[s].kind = "review" => call'[s].outcome \in x.outcomes
  /\ \A t \in Targets : targets'[t] # targets[t] => \E c \in x.cases : Subject[c] = t
  /\ \A t \in verifying' \ verifying : \E c \in x.cases : Subject[c] = t
  /\ ~x.late => \A t \in verifying' : targets'[t].status = "pending"
  /\ \A e \in Credits : credits'[e] # credits[e] => "attribution_invalidate" \in x.measures

\* The rows of actions are taken in order: which is taken means nothing.
InOrder ==
  \A a, b \in Actions : b < a /\ ~Recorded(a) /\ actions'[a] # NoAction => Recorded(b)

MCInit == scenario \in Scenarios /\ Init

InScenario == Within(scenario) /\ InOrder /\ UNCHANGED scenario

\* Next, within the scenario; every action is a disjunct, so that TLC counts each.
MCNext ==
  \/ \E s \in Sessions :
       \/ \E m \in Staff, c \in Cases, measure \in Measures :
            AskDecision(s, m, c, measure) /\ InScenario
       \/ LoadCase(s) /\ InScenario
       \/ DecideCase(s) /\ InScenario
       \/ RefuseDecision(s) /\ InScenario
       \/ \E m \in Staff, a \in Actions, outcome \in Outcomes :
            AskReview(s, m, a, outcome) /\ InScenario
       \/ LoadAppeal(s) /\ InScenario
       \/ DecideAppeal(s) /\ InScenario
       \/ RefuseReview(s) /\ InScenario
       \/ Abort(s) /\ InScenario
  \/ \E m \in Staff, c \in Cases : ClaimCase(m, c) /\ InScenario
  \/ \E a \in Actions : FileAppeal(a) /\ InScenario
  \/ \E m \in Staff, a \in Actions : ClaimAppeal(m, a) /\ InScenario
  \/ \E t \in Profiles : ReadsPending(t) /\ InScenario
  \/ \E t \in Profiles : SetEmailVerified(t) /\ InScenario
  \/ Meanwhile /\ InScenario
  \/ Tick /\ InScenario

MCSpec == MCInit /\ [][MCNext]_<<vars, scenario>>

Symmetry == Permutations(Sessions)
=============================================================================
