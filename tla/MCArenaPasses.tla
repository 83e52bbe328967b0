--------------------------- MODULE MCArenaPasses ---------------------------
(***************************************************************************)
(* Instances of ArenaPasses for TLC: one account with a purchased lot of   *)
(* two passes and a member lot of one that expires.  A scenario is what    *)
(* one behaviour is about: which events are delivered, which Arenas are    *)
(* published, whether the member lot is granted, how often drafts are      *)
(* edited, how late the clock runs and how many statements fail.           *)
(***************************************************************************)
EXTENDS ArenaPasses, TLC

CONSTANTS owner, bought, member, arena1, arena2, refund1, dispute1

Accounts == [x \in {bought, member, arena1, arena2} |-> owner]
Quantities == (bought :> 2) @@ (member :> 1)
Expiries == (bought :> Never) @@ (member :> 1)

Paid(n) == [id |-> n, type |-> "completed", intent |-> bought]
Returned(n, kind, r, part) ==
  [id |-> n, type |-> kind, intent |-> bought, refund |-> r, partial |-> part]

Full == Returned(3, "refund", refund1, FALSE)
Part == Returned(4, "refund", refund1, TRUE)
Contested == Returned(5, "dispute", dispute1, FALSE)

AllEvents == {Paid(1), Paid(2), Full, Part, Contested}

\* One payment under two events, delivered again after failures and crashes.
Paying ==
  [events |-> {Paid(1), Paid(2)}, arenas |-> {arena1}, lots |-> {}, edits |-> 2,
   time |-> 0, faults |-> 2]

\* A refund and a dispute of one purchase, while a pass of it is consumed.
Refunding ==
  [events |-> {Paid(1), Full, Contested}, arenas |-> {arena1}, lots |-> {}, edits |-> 2,
   time |-> 0, faults |-> 0]

\* One refund reported partial first, then whole, with failures.
Reporting ==
  [events |-> {Paid(1), Part, Full}, arenas |-> {arena1}, lots |-> {}, edits |-> 2,
   time |-> 0, faults |-> 1]

\* More Arenas than one lot serves, drafts that move and a lot that expires.
Publishing ==
  [events |-> {Paid(1)}, arenas |-> {arena1, arena2}, lots |-> {member}, edits |-> 2,
   time |-> 1, faults |-> 0]

\* More Arenas than passes.
Exhausting ==
  [events |-> {}, arenas |-> {arena1, arena2}, lots |-> {member}, edits |-> 3,
   time |-> 1, faults |-> 1]

Scenarios == {Paying, Refunding, Reporting, Publishing, Exhausting}

VARIABLE scenario

Within(x) ==
  /\ now' <= x.time /\ faults' <= x.faults
  /\ \A s \in Sessions : call'[s] # call[s] =>
       IF call'[s].kind = "deliver" THEN call'[s].event \in x.events ELSE call'[s].arena \in x.arenas
  /\ \A l \in Grants : created'[l] # created[l] => l \in x.lots
  /\ \A a \in Arenas : version'[a] # version[a] =>
       /\ a \in x.arenas
       /\ version'[a] <= x.edits \/ (arenas[a] = "draft" /\ arenas'[a] = "published")
  /\ \A i \in Intents : intents'[i] # intents[i] => x.events # {}

MCInit == scenario \in Scenarios /\ Init

InScenario == Within(scenario) /\ UNCHANGED scenario

\* Next, within the scenario; every action is a disjunct, so that TLC counts each.
MCNext ==
  \/ \E s \in Sessions :
       \/ \E e \in Events : InsertEvent(s, e) /\ InScenario
       \/ ClaimEvent(s) /\ InScenario
       \/ ResolveEvent(s) /\ InScenario
       \/ BumpEvent(s) /\ InScenario
       \/ GetIntentToSettle(s) /\ InScenario
       \/ GrantPassLot(s) /\ InScenario
       \/ MarkCheckoutIntentPaid(s) /\ InScenario
       \/ GetIntentToRefund(s) /\ InScenario
       \/ AssessPasses(s) /\ InScenario
       \/ ReportRemaining(s) /\ InScenario
       \/ ZeroPassLotRemaining(s) /\ InScenario
       \/ RecordRefund(s) /\ InScenario
       \/ MarkProcessed(s) /\ InScenario
       \/ MarkFailed(s) /\ InScenario
       \/ FailStatement(s) /\ InScenario
       \/ Crash(s) /\ InScenario
       \/ \E a \in Arenas : ReadArena(s, a) /\ InScenario
       \/ \E a \in Arenas : ReplyAtOnce(s, a) /\ InScenario
       \/ FindConsumption(s) /\ InScenario
       \/ ListAvailablePassLots(s) /\ InScenario
       \/ LockLot(s) /\ InScenario
       \/ FindAgain(s) /\ InScenario
       \/ ConsumeArenaPassLot(s) /\ InScenario
       \/ PublishArenaDraft(s) /\ InScenario
  \/ Meanwhile /\ InScenario

MCSpec == MCInit /\ [][MCNext]_<<vars, scenario>>

Symmetry == Permutations(Sessions)
=============================================================================
