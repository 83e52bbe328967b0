---------------------------- MODULE MCPublication ----------------------------
(***************************************************************************)
(* Instances of Publication for TLC.  A scenario is what clients and       *)
(* moderators do in one behaviour: who publishes and withdraws what, who   *)
(* may be suspended, which Arenas may close, and the INK and the faults.   *)
(***************************************************************************)
EXTENDS Publication, TLC

CONSTANTS ann, bob, k1, k2, k3, arena1, arena2, Scenarios

Publish(author, key, arena, parent, cost) ==
  [kind |-> "publish", author |-> author, key |-> key, arena |-> arena,
   parent |-> parent, cost |-> cost]

Top == Publish(ann, k1, arena1, NoParent, 1)

\* Two authors use one key, and a retry asks for something else.
Sharing ==
  [authors |-> {ann, bob}, targets |-> {<<ann, k1>>}, adjusted |-> {},
   suspended |-> {}, closing |-> {}, ink |-> 2, faults |-> 0,
   requests |-> {Top, [Top EXCEPT !.cost = 2], [Top EXCEPT !.author = bob]}]

\* A reply, a reply to the reply, and a reply from another Arena.
Replying ==
  [authors |-> {ann}, targets |-> {ann} \X {k1, k2}, adjusted |-> {},
   suspended |-> {}, closing |-> {arena1}, ink |-> 3, faults |-> 0,
   requests |-> {Top, Publish(ann, k2, arena1, <<ann, k1>>, 1),
                 Publish(ann, k3, arena1, <<ann, k2>>, 1),
                 Publish(ann, k3, arena2, <<ann, k1>>, 1)}]

\* Two attempts of one author against one balance.
Spending ==
  [authors |-> {ann}, targets |-> {<<ann, k1>>}, adjusted |-> {},
   suspended |-> {ann}, closing |-> {}, ink |-> 2, faults |-> 0,
   requests |-> {Top, [Top EXCEPT !.cost = 2], Publish(ann, k2, arena1, NoParent, 1),
                 Publish(ann, k2, arena1, <<ann, k1>>, 1)}]

\* The authors of one key, with calls that are aborted or lose their answer.
Failing ==
  [authors |-> {ann, bob}, targets |-> {<<ann, k1>>}, adjusted |-> {},
   suspended |-> {}, closing |-> {}, ink |-> 1, faults |-> 2,
   requests |-> {Top, [Top EXCEPT !.author = bob]}]

\* Other operations are posted to the account under the keys of its attempts.
Adjusting ==
  [authors |-> {ann, bob}, targets |-> {}, adjusted |-> {k1},
   suspended |-> {}, closing |-> {}, ink |-> 2, faults |-> 0,
   requests |-> {Top, [Top EXCEPT !.cost = 2]}]

AllScenarios == {Sharing, Replying, Spending, Failing, Adjusting}

AllRequests == UNION {x.requests : x \in Scenarios}

VARIABLE scenario

Asked(x) ==
  x.requests \cup {r \in Withdrawals : r.author \in x.authors /\ r.target \in x.targets}

Within(x) ==
  /\ \A s \in Sessions : pc[s] = "idle" /\ pc'[s] # "idle" => req'[s] \in Asked(x)
  /\ Authors \ x.suspended \subseteq eligible' /\ Arenas \ x.closing \subseteq open'
  /\ \A k \in Keys \ x.adjusted : posted'[k] # posted[k] => posted'[k].cost # 0
  /\ \A a \in Authors : credited'[a] <= IF a \in x.authors THEN x.ink ELSE 0
  /\ faults' <= x.faults

\* Before its first request a session has none: one stands for them all.
MCInit ==
  /\ scenario \in Scenarios
  /\ Init /\ \A s \in Sessions : req[s].author = ann /\ req[s].target = <<ann, k1>>

InScenario == Within(scenario) /\ UNCHANGED scenario

\* Next, within the scenario; every action is a disjunct, so that TLC counts each.
MCNext ==
  \/ \E s \in Sessions :
       \/ Begin(s) /\ InScenario
       \/ LookUpAttempt(s) /\ InScenario
       \/ EnsureEligible(s) /\ InScenario
       \/ EnsureAcceptsArguments(s) /\ InScenario
       \/ ensureReplyableParent(s) /\ InScenario
       \/ Debit(s) /\ InScenario
       \/ ClaimKey(s) /\ InScenario
       \/ CreateArgument(s) /\ InScenario
       \/ Commit(s) /\ InScenario
       \/ ResolveReplay(s) /\ InScenario
       \/ ReadForAuthor(s) /\ InScenario
       \/ WithdrawArgument(s) /\ InScenario
       \/ ReadAgain(s) /\ InScenario
       \/ Abort(s) /\ InScenario
       \/ LoseCommit(s) /\ InScenario
  \/ Meanwhile /\ InScenario

MCSpec == MCInit /\ [][MCNext]_<<vars, scenario>>

MCFairSpec == MCSpec /\ Fairness
=============================================================================
