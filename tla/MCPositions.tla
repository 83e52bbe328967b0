---------------------------- MODULE MCPositions ----------------------------
(***************************************************************************)
(* Instances of Positions for TLC.  A scenario is what one behaviour is    *)
(* about: whose positions, which positions are asked for, which arguments  *)
(* are published, what moves meanwhile and how late the clock runs.        *)
(***************************************************************************)
EXTENDS Positions, TLC

CONSTANTS ana, bea, arena1, arena2, ana1, bea1, a1, a2, a3, own, far

\* own is ana's argument; far is of another Arena.
AccountsOf == (ana1 :> ana) @@ (bea1 :> bea)
ArenasOf == (ana1 :> arena1) @@ (bea1 :> arena1)
Authors == (a1 :> bea) @@ (a2 :> bea) @@ (a3 :> bea) @@ (own :> ana) @@ (far :> bea)
Homes == (a1 :> arena1) @@ (a2 :> arena1) @@ (a3 :> arena1) @@ (own :> arena1) @@ (far :> arena2)

\* Two sessions confirm different positions and change them.
Confirming ==
  [by |-> {ana}, positions |-> Positions, arguments |-> {}, hidden |-> {},
   versions |-> 2, gates |-> TRUE, time |-> 0]

\* Changes race while the clocks of two instances disagree.
Changing ==
  [by |-> {ana}, positions |-> {"agree", "disagree"}, arguments |-> {}, hidden |-> {},
   versions |-> 3, gates |-> FALSE, time |-> 2]

\* With arguments to credit, one session at a time takes a position.
\* One change is credited to several arguments at once.
Crediting ==
  [by |-> {ana}, positions |-> {"agree", "disagree"}, arguments |-> {a1, a2, a3},
   hidden |-> {}, versions |-> 2, gates |-> FALSE, time |-> 1]

\* The holder's own argument, and one of another Arena.
Improper ==
  [by |-> {ana}, positions |-> {"agree", "disagree"}, arguments |-> {own, far},
   hidden |-> {}, versions |-> 2, gates |-> FALSE, time |-> 1]

\* A change someone else tries to credit, and an argument hidden and restored.
Hiding ==
  [by |-> {ana, bea}, positions |-> {"agree", "disagree"}, arguments |-> {a1},
   hidden |-> {a1}, versions |-> 2, gates |-> FALSE, time |-> 1]

Scenarios == {Confirming, Changing, Crediting, Improper, Hiding}

VARIABLE scenario

CanGrow(x) == IF projection[ana1] = NoRow THEN TRUE ELSE projection[ana1].version < x.versions

Within(x) ==
  /\ now' <= x.time
  /\ open' # open \/ active' # active => x.gates
  /\ \A a \in Arguments : arguments'[a] # arguments[a] => a \in x.arguments
  /\ \A a \in Arguments : arguments'[a].status = "hidden" => a \in x.hidden
  /\ \A s \in Sessions : pc[s] = "idle" /\ pc'[s] # "idle" =>
       /\ call'[s].holder = ana1
       /\ call'[s].kind = "confirm" => x.gates \/ projection[ana1] = NoRow
       /\ call'[s].kind = "change" => CanGrow(x)
       /\ call'[s].kind # "credit" =>
            /\ call'[s].position \in x.positions
            /\ x.arguments # {} => \A t \in Sessions \ {s} : pc[t] = "idle"
       /\ call'[s].kind = "credit" =>
            call'[s].by \in x.by /\ call'[s].chosen \subseteq x.arguments
  /\ \A h \in Holders : projection'[h] # NoRow => projection'[h].version <= x.versions

MCInit == scenario \in Scenarios /\ Init

InScenario == Within(scenario) /\ UNCHANGED scenario

\* Next, within the scenario; every action is a disjunct, so that TLC counts each.
MCNext ==
  \/ \E s \in Sessions :
       \/ \E h \in Holders, p \in Positions : AskConfirm(s, h, p) /\ InScenario
       \/ \E h \in Holders, p \in Positions : AskChange(s, h, p) /\ InScenario
       \/ \E h \in Holders, m \in Accounts, v \in Versions,
            chosen \in SUBSET scenario.arguments : AskCredit(s, m, h, v, chosen) /\ InScenario
       \/ LookUpPosition(s) /\ InScenario
       \/ EnsureEligible(s) /\ InScenario
       \/ EnsureAcceptsPositions(s) /\ InScenario
       \/ ConfirmInitialPosition(s) /\ InScenario
       \/ LoadPosition(s) /\ InScenario
       \/ AcceptChange(s) /\ InScenario
       \/ CreatePositionChange(s) /\ InScenario
       \/ UpdateCurrentPosition(s) /\ InScenario
       \/ LockChangeForAttributor(s) /\ InScenario
       \/ SelectArguments(s) /\ InScenario
       \/ CreateAttributions(s) /\ InScenario
       \/ Abort(s) /\ InScenario
  \/ Meanwhile /\ InScenario
  \/ Tick /\ InScenario

MCSpec == MCInit /\ [][MCNext]_<<vars, scenario>>

Symmetry == Permutations(Sessions)
=============================================================================
