------------------------------ MODULE Positions ------------------------------
(***************************************************************************)
(* Positions in an Arena and the arguments credited for a change of mind   *)
(* (internal/positions, internal/persuasion).                              *)
(*                                                                         *)
(* A holder confirms an initial position once; each later change appends a *)
(* row to an append-only history and moves a projection, in one            *)
(* transaction that starts from a version read before it.  The holder then *)
(* credits a few arguments for a change, in a transaction that locks the   *)
(* row of the change.                                                      *)
(*                                                                         *)
(* A session executes one use case at a time; every statement outside a    *)
(* transaction is a step, and so is every statement of a transaction that  *)
(* may wait for another.  Rows written by a transaction in progress are in *)
(* its session's call until it commits.  Arenas close, accounts are        *)
(* suspended and arguments come and go at any time.  Clients retry by      *)
(* asking again, so an answer lost after a commit is a call never read.    *)
(***************************************************************************)
EXTENDS Integers, Sequences, FiniteSets

CONSTANTS
  Holders,                    \* pairs of an account and an Arena
  AccountOf, ArenaOf,         \* of each holder
  Arguments, Author, Home,    \* each argument's author and Arena
  Positions,
  MaxAttributions,            \* EligibilityPolicy.MaxAttributions
  Sessions,
  NoRow, NoCall, NoAnswer,
  Skew,                       \* how far the clock of an instance may lag
  MaxVersion, MaxTime         \* bounds on a history and on time

Accounts == {AccountOf[h] : h \in Holders}
Arenas == {ArenaOf[h] : h \in Holders}
Versions == 2 .. MaxVersion

ProjectionRows == [initial : Positions, current : Positions, version : Nat, updated : Nat]
ChangeRows == {r \in [from : Positions, to : Positions, at : Nat] : r.from # r.to}
ArgumentRows == [status : {"none", "published", "hidden"}, created : Nat]

ConfirmCalls == [kind : {"confirm"}, holder : Holders, position : Positions]
ChangeCalls ==
  [kind : {"change"}, holder : Holders, position : Positions,
   read : ProjectionRows \cup {NoRow}, at : Nat]
CreditCalls ==
  [kind : {"credit"}, by : Accounts, holder : Holders, version : Versions,
   chosen : SUBSET Arguments, known : SUBSET Arguments]

Answers ==
  [kind : {"confirmed", "occupied"}, holder : Holders, position : Positions]
    \cup [kind : {"changed"}, holder : Holders, version : Versions, row : ChangeRows]
    \cup [kind : {"credited"}, holder : Holders, version : Versions,
          selection : SUBSET Arguments]

ASSUME PositionsAssumption ==
  /\ DOMAIN AccountOf = Holders /\ DOMAIN ArenaOf = Holders
  /\ DOMAIN Author = Arguments /\ DOMAIN Home = Arguments
  /\ IsFiniteSet(Arguments)
  /\ NoRow \notin ProjectionRows \cup ChangeRows
  /\ NoCall \notin ConfirmCalls \cup ChangeCalls \cup CreditCalls
  /\ NoAnswer \notin Answers
  /\ MaxAttributions \in Nat \ {0} /\ Skew \in Nat /\ MaxVersion \in Nat \ {0} /\ MaxTime \in Nat

VARIABLES
  now,
  open, active,       \* the Arenas that take positions, the accounts that may
  arguments,          \* app.arguments
  projection,         \* app.debate_positions
  changes,            \* app.position_changes, by version
  credited,           \* app.persuasion_attributions, by change
  pc, call, told      \* per session; told is the answer to its latest call

worldVars == <<open, active, arguments>>
recordVars == <<projection, changes, credited>>
sessionVars == <<pc, call, told>>
vars == <<now, worldVars, recordVars, sessionVars>>

Init ==
  /\ now = 0
  /\ open = Arenas /\ active = Accounts
  /\ arguments = [a \in Arguments |-> [status |-> "none", created |-> 0]]
  /\ projection = [h \in Holders |-> NoRow]
  /\ changes = [h \in Holders |-> [v \in Versions |-> NoRow]]
  /\ credited = [h \in Holders |-> [v \in Versions |-> {}]]
  /\ pc = [s \in Sessions |-> "idle"]
  /\ call = [s \in Sessions |-> NoCall]
  /\ told = [s \in Sessions |-> NoAnswer]
-----------------------------------------------------------------------------
\* What the clock of an instance may read.
Instants == {t \in 0 .. now : t + Skew >= now}

Asks(s, request, stage) ==
  /\ pc[s] = "idle"
  /\ call' = [call EXCEPT ![s] = request]
  /\ pc' = [pc EXCEPT ![s] = stage]
  /\ told' = [told EXCEPT ![s] = NoAnswer]
  /\ UNCHANGED <<now, worldVars, recordVars>>

Goes(s, stage) ==
  /\ pc' = [pc EXCEPT ![s] = stage]
  /\ UNCHANGED <<call, told>>

Continues(s, request, stage) ==
  /\ call' = [call EXCEPT ![s] = request]
  /\ pc' = [pc EXCEPT ![s] = stage]
  /\ UNCHANGED told

Ends(s, answer) ==
  /\ pc' = [pc EXCEPT ![s] = "idle"]
  /\ call' = [call EXCEPT ![s] = NoCall]
  /\ told' = [told EXCEPT ![s] = answer]

\* An error: nothing is promised.
Refused(s) == Ends(s, NoAnswer)
-----------------------------------------------------------------------------
(***************************************************************************)
(* ConfirmInitialPositionUseCase.  An existing projection answers every    *)
(* retry; the session that loses the INSERT reads the one that won.        *)
(***************************************************************************)
AskConfirm(s, h, p) ==
  Asks(s, [kind |-> "confirm", holder |-> h, position |-> p], "look")

Confirmed(h, p) == [kind |-> "confirmed", holder |-> h, position |-> p]

resolveExistingConfirmation(s, stored) ==
  LET c == call[s] IN
  Ends(s, IF stored.initial = c.position
            THEN Confirmed(c.holder, c.position)
            ELSE [kind |-> "occupied", holder |-> c.holder, position |-> c.position])

LookUpPosition(s) ==
  LET stored == projection[call[s].holder] IN
  /\ pc[s] = "look"
  /\ IF stored # NoRow THEN resolveExistingConfirmation(s, stored) ELSE Goes(s, "eligible")
  /\ UNCHANGED <<now, worldVars, recordVars>>

EnsureEligible(s) ==
  /\ pc[s] = "eligible"
  /\ IF AccountOf[call[s].holder] \in active THEN Goes(s, "accepts") ELSE Refused(s)
  /\ UNCHANGED <<now, worldVars, recordVars>>

EnsureAcceptsPositions(s) ==
  /\ pc[s] = "accepts"
  /\ IF ArenaOf[call[s].holder] \in open THEN Goes(s, "insert") ELSE Refused(s)
  /\ UNCHANGED <<now, worldVars, recordVars>>

InsertInitial(h, p) ==
  \E t \in Instants :
    projection' = [projection EXCEPT
                     ![h] = [initial |-> p, current |-> p, version |-> 1, updated |-> t]]

\* Answers as if the row were the caller's own, inserted or not.
Mutant_ConfirmInitialPosition(s) ==
  LET c == call[s] IN
  /\ pc[s] = "insert"
  /\ IF projection[c.holder] = NoRow
       THEN InsertInitial(c.holder, c.position) ELSE UNCHANGED projection
  /\ Ends(s, Confirmed(c.holder, c.position))
  /\ UNCHANGED <<now, worldVars, changes, credited>>

\* INSERT ... ON CONFLICT DO NOTHING; a loser looks up the row again.
ConfirmInitialPosition(s) ==
  LET c == call[s] IN
  /\ pc[s] = "insert"
  /\ IF projection[c.holder] = NoRow
       THEN InsertInitial(c.holder, c.position) /\ Ends(s, Confirmed(c.holder, c.position))
       ELSE UNCHANGED projection /\ Goes(s, "look")
  /\ UNCHANGED <<now, worldVars, changes, credited>>
-----------------------------------------------------------------------------
(***************************************************************************)
(* ChangePositionUseCase.  The projection is read, the Arena asked and the *)
(* change computed before the transaction.                                 *)
(***************************************************************************)
AskChange(s, h, p) ==
  Asks(s, [kind |-> "change", holder |-> h, position |-> p, read |-> NoRow, at |-> 0], "load")

LoadPosition(s) ==
  LET stored == projection[call[s].holder] IN
  /\ pc[s] = "load"
  /\ IF stored # NoRow THEN Continues(s, [call[s] EXCEPT !.read = stored], "gate") ELSE Refused(s)
  /\ UNCHANGED <<now, worldVars, recordVars>>

Mutant_MayChange(read, p, t) == t >= read.updated

\* DebatePosition.ChangeTo.
MayChange(read, p, t) == p # read.current /\ t >= read.updated

AcceptChange(s) ==
  LET c == call[s] IN
  /\ pc[s] = "gate" /\ c.read.version < MaxVersion
  /\ \E t \in Instants :
       IF ArenaOf[c.holder] \in open /\ MayChange(c.read, c.position, t)
         THEN Continues(s, [c EXCEPT !.at = t], "append") ELSE Refused(s)
  /\ UNCHANGED <<now, worldVars, recordVars>>

NextVersion(c) == c.read.version + 1
NewChange(c) == [from |-> c.read.current, to |-> c.position, at |-> c.at]

Appends(c) == changes' = [changes EXCEPT ![c.holder][NextVersion(c)] = NewChange(c)]

\* Another transaction has inserted a row with this version of the holder.
AwaitsKey(s) ==
  \E t \in Sessions \ {s} :
    /\ pc[t] = "advance"
    /\ call[t].holder = call[s].holder /\ NextVersion(call[t]) = NextVersion(call[s])

\* The INSERT runs outside the transaction and is kept whatever comes next.
Mutant_CreatePositionChange(s) ==
  LET c == call[s] IN
  /\ pc[s] = "append" /\ ~AwaitsKey(s)
  /\ IF changes[c.holder][NextVersion(c)] = NoRow
       THEN Appends(c) /\ Goes(s, "advance") ELSE UNCHANGED changes /\ Refused(s)
  /\ UNCHANGED <<now, worldVars, projection, credited>>

\* The unique key of the chain refuses a version another call committed.
CreatePositionChange(s) ==
  LET c == call[s] IN
  /\ pc[s] = "append" /\ ~AwaitsKey(s)
  /\ IF changes[c.holder][NextVersion(c)] = NoRow THEN Goes(s, "advance") ELSE Refused(s)
  /\ UNCHANGED <<now, worldVars, recordVars>>

\* The UPDATE and the commit, or the rollback.
UpdateCurrentPosition(s) ==
  LET c == call[s] IN
  /\ pc[s] = "advance"
  /\ IF projection[c.holder].version = c.read.version
       THEN /\ Appends(c)
            /\ projection' = [projection EXCEPT
                 ![c.holder] = [@ EXCEPT !.current = c.position, !.version = NextVersion(c),
                                         !.updated = c.at]]
            /\ Ends(s, [kind |-> "changed", holder |-> c.holder, version |-> NextVersion(c),
                        row |-> NewChange(c)])
       ELSE Refused(s) /\ UNCHANGED <<projection, changes>>
  /\ UNCHANGED <<now, worldVars, credited>>
-----------------------------------------------------------------------------
(***************************************************************************)
(* RecordAttributionsUseCase: one transaction under the lock of the change.*)
(***************************************************************************)
AskCredit(s, m, h, v, chosen) ==
  /\ Cardinality(chosen) <= MaxAttributions
  /\ Asks(s, [kind |-> "credit", by |-> m, holder |-> h, version |-> v, chosen |-> chosen,
              known |-> {}], "lock")

AwaitsChange(s) ==
  \E t \in Sessions \ {s} :
    /\ pc[t] \in {"select", "credit"}
    /\ call[t].holder = call[s].holder /\ call[t].version = call[s].version

IsChangeOf(m, h, v) == AccountOf[h] = m /\ changes[h][v] # NoRow

Mutant_LockChangeForAttributor(s) ==
  /\ pc[s] = "lock"
  /\ IF IsChangeOf(call[s].by, call[s].holder, call[s].version)
       THEN Goes(s, "select") ELSE Refused(s)
  /\ UNCHANGED <<now, worldVars, recordVars>>

LockChangeForAttributor(s) ==
  /\ pc[s] = "lock" /\ ~AwaitsChange(s)
  /\ IF IsChangeOf(call[s].by, call[s].holder, call[s].version)
       THEN Goes(s, "select") ELSE Refused(s)
  /\ UNCHANGED <<now, worldVars, recordVars>>

\* EligibilityPolicy.Validate of one candidate.
IsBefore(a, h, v) ==
  /\ arguments[a].status # "none"
  /\ Home[a] = ArenaOf[h] /\ Author[a] # AccountOf[h]
  /\ arguments[a].created < changes[h][v].at

Eligible(a, h, v) == IsBefore(a, h, v) /\ arguments[a].status = "published"

Credited(c, selection) ==
  [kind |-> "credited", holder |-> c.holder, version |-> c.version, selection |-> selection]

\* What is recorded already, the limit, and the policy.
SelectArguments(s) ==
  LET c == call[s]
      known == credited[c.holder][c.version]
      fresh == c.chosen \ known
  IN
  /\ pc[s] = "select"
  /\ IF Cardinality(known) + Cardinality(fresh) > MaxAttributions
       THEN Refused(s)
     ELSE IF fresh = {}
       THEN Ends(s, Credited(c, known))
     ELSE IF \A a \in fresh : Eligible(a, c.holder, c.version)
       THEN Continues(s, [c EXCEPT !.chosen = fresh, !.known = known], "credit")
       ELSE Refused(s)
  /\ UNCHANGED <<now, worldVars, recordVars>>

Mutant_CreateAttributions(s) ==
  LET c == call[s] IN
  /\ pc[s] = "credit"
  /\ credited' = [credited EXCEPT ![c.holder][c.version] = c.chosen]
  /\ Ends(s, Credited(c, c.chosen))
  /\ UNCHANGED <<now, worldVars, projection, changes>>

CreateAttributions(s) ==
  LET c == call[s] IN
  /\ pc[s] = "credit"
  /\ credited' = [credited EXCEPT ![c.holder][c.version] = @ \cup c.chosen]
  /\ Ends(s, Credited(c, c.known \cup c.chosen))
  /\ UNCHANGED <<now, worldVars, projection, changes>>
-----------------------------------------------------------------------------
\* The call ends without an answer and its transaction is rolled back.
Abort(s) ==
  /\ pc[s] # "idle" /\ Refused(s)
  /\ UNCHANGED <<now, worldVars, recordVars>>

PublishArgument(a) ==
  /\ arguments[a].status = "none"
  /\ \E t \in Instants :
       arguments' = [arguments EXCEPT ![a] = [status |-> "published", created |-> t]]

\* Withdrawn or removed, and restored by an appeal.
Moderated(a) ==
  /\ arguments[a].status # "none"
  /\ arguments' = [arguments EXCEPT
       ![a].status = IF @ = "published" THEN "hidden" ELSE "published"]

Flips(set, x) == IF x \in set THEN set \ {x} ELSE set \cup {x}

Meanwhile ==
  /\ \/ /\ \E a \in Arguments : PublishArgument(a) \/ Moderated(a)
        /\ UNCHANGED <<open, active>>
     \/ /\ \E x \in Arenas : open' = Flips(open, x)
        /\ UNCHANGED <<active, arguments>>
     \/ /\ \E m \in Accounts : active' = Flips(active, m)
        /\ UNCHANGED <<open, arguments>>
  /\ UNCHANGED <<now, recordVars, sessionVars>>

Tick == now < MaxTime /\ now' = now + 1 /\ UNCHANGED <<worldVars, recordVars, sessionVars>>

Asked(s) ==
  \E h \in Holders :
    \/ \E p \in Positions : AskConfirm(s, h, p) \/ AskChange(s, h, p)
    \/ \E m \in Accounts, v \in Versions, chosen \in SUBSET Arguments :
         AskCredit(s, m, h, v, chosen)

SessionStep(s) ==
  \/ Asked(s)
  \/ LookUpPosition(s) \/ EnsureEligible(s) \/ EnsureAcceptsPositions(s)
  \/ ConfirmInitialPosition(s)
  \/ LoadPosition(s) \/ AcceptChange(s) \/ CreatePositionChange(s) \/ UpdateCurrentPosition(s)
  \/ LockChangeForAttributor(s) \/ SelectArguments(s) \/ CreateAttributions(s)
  \/ Abort(s)

Next == (\E s \in Sessions : SessionStep(s)) \/ Meanwhile \/ Tick

Spec == Init /\ [][Next]_vars
-----------------------------------------------------------------------------
Stages ==
  {"idle", "look", "eligible", "accepts", "insert", "load", "gate", "append", "advance",
   "lock", "select", "credit"}

CallsOf(stage) ==
  CASE stage = "idle" -> {NoCall}
    [] stage \in {"look", "eligible", "accepts", "insert"} -> ConfirmCalls
    [] stage \in {"load", "gate", "append", "advance"} -> ChangeCalls
    [] OTHER -> CreditCalls

\* Types of the rows, whose CHECKs no call meets, and of the calls in progress.
TypeOK ==
  /\ now \in Nat
  /\ open \subseteq Arenas /\ active \subseteq Accounts
  /\ arguments \in [Arguments -> ArgumentRows]
  /\ projection \in [Holders -> ProjectionRows \cup {NoRow}]
  /\ changes \in [Holders -> [Versions -> ChangeRows \cup {NoRow}]]
  /\ credited \in [Holders -> [Versions -> SUBSET Arguments]]
  /\ pc \in [Sessions -> Stages]
  /\ DOMAIN call = Sessions /\ \A s \in Sessions : call[s] \in CallsOf(pc[s])
  /\ told \in [Sessions -> Answers \cup {NoAnswer}]

(***************************************************************************)
(* The history is a chain and the projection its tip ("must equal the last *)
(* accepted change target", migration 00014): versions have no gap and no  *)
(* surplus, each change starts where the one before ended and no earlier,  *)
(* and the projection shows the last of them, whatever two sessions read   *)
(* before their transactions.                                              *)
(***************************************************************************)
TargetAt(h, v) == IF v = 1 THEN projection[h].initial ELSE changes[h][v].to

ProjectionIsChainTip ==
  \A h \in Holders :
    IF projection[h] = NoRow
      THEN \A v \in Versions : changes[h][v] = NoRow
      ELSE /\ projection[h].version \in 1 .. MaxVersion
           /\ projection[h].current = TargetAt(h, projection[h].version)
           /\ \A v \in Versions :
                /\ changes[h][v] # NoRow <=> v <= projection[h].version
                /\ changes[h][v] # NoRow =>
                     /\ changes[h][v].from = TargetAt(h, v - 1)
                     /\ changes[h][v].at <= projection[h].updated
                     /\ v > 2 => changes[h][v - 1].at <= changes[h][v].at

(***************************************************************************)
(* "the cumulative three-argument limit cannot be bypassed by concurrent   *)
(* requests" (persuasion.sql:3-4), and every argument credited for a       *)
(* change was published in its Arena by someone else before it.            *)
(***************************************************************************)
CreditsAreEligible ==
  \A h \in Holders, v \in Versions :
    /\ Cardinality(credited[h][v]) <= MaxAttributions
    /\ \A a \in credited[h][v] : changes[h][v] # NoRow /\ IsBefore(a, h, v)

(***************************************************************************)
(* What a client was told stays true of the record: a confirmed position   *)
(* is the initial one for ever, a refusal means another one is, a change   *)
(* has its row in the history, and a selection is recorded.                *)
(***************************************************************************)
IsTrue(answer) ==
  LET h == answer.holder IN
  CASE answer.kind = "confirmed" ->
         projection[h] # NoRow /\ projection[h].initial = answer.position
    [] answer.kind = "occupied" ->
         projection[h] # NoRow /\ projection[h].initial # answer.position
    [] answer.kind = "changed" -> changes[h][answer.version] = answer.row
    [] OTHER -> answer.selection \subseteq credited[h][answer.version]

AnswersMatchHistory == \A s \in Sessions : told[s] # NoAnswer => IsTrue(told[s])

(***************************************************************************)
(* Positions and attributions implement the abstract history: it grows one *)
(* entry at a time, is never rewritten, and no credit is ever taken back.  *)
(***************************************************************************)
Path(h) ==
  IF projection[h] = NoRow THEN << >> ELSE [v \in 1 .. projection[h].version |-> TargetAt(h, v)]

History == INSTANCE PositionHistory WITH path <- [h \in Holders |-> Path(h)]

HistorySpec == History!Spec
=============================================================================
