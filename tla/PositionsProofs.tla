--------------------------- MODULE PositionsProofs ---------------------------
(***************************************************************************)
(* Proofs about Positions, for every number of holders, arguments and      *)
(* sessions and every history.  The inductive invariant adds to the        *)
(* properties what the calls in progress know: a projection read before a  *)
(* transaction is the present one unless the version has moved, and a      *)
(* session that credits arguments is the only one at its change.           *)
(***************************************************************************)
EXTENDS Positions, FiniteSetTheorems, SequenceTheorems, TLAPS

SessionTypes ==
  /\ pc \in [Sessions -> Stages]
  /\ DOMAIN call = Sessions /\ \A s \in Sessions : call[s] \in CallsOf(pc[s])
  /\ told \in [Sessions -> Answers \cup {NoAnswer}]

RecordTypes ==
  /\ projection \in [Holders -> ProjectionRows \cup {NoRow}]
  /\ changes \in [Holders -> [Versions -> ChangeRows \cup {NoRow}]]
  /\ credited \in [Holders -> [Versions -> SUBSET Arguments]]

WorldTypes ==
  /\ now \in Nat
  /\ open \subseteq Arenas /\ active \subseteq Accounts
  /\ arguments \in [Arguments -> ArgumentRows]

\* A projection that a call read before its transaction.
Changing(s) ==
  LET c == call[s] IN
  pc[s] \in {"gate", "append", "advance"} =>
    /\ c.read # NoRow /\ projection[c.holder] # NoRow
    /\ 1 <= c.read.version /\ c.read.version <= projection[c.holder].version
    /\ c.read.version = projection[c.holder].version => c.read = projection[c.holder]

Computed(s) ==
  LET c == call[s] IN
  pc[s] \in {"append", "advance"} =>
    c.position # c.read.current /\ c.at >= c.read.updated /\ c.read.version < MaxVersion

\* A session that has locked a change.
AtChange(s) == pc[s] \in {"select", "credit"}

Locking(s) == AtChange(s) => changes[call[s].holder][call[s].version] # NoRow

\* What it is about to credit.
Selected(s) ==
  LET c == call[s] IN
  pc[s] = "credit" =>
    /\ c.known = credited[c.holder][c.version] /\ c.known \cap c.chosen = {}
    /\ Cardinality(c.known) + Cardinality(c.chosen) <= MaxAttributions
    /\ \A a \in c.chosen : IsBefore(a, c.holder, c.version)

Alone ==
  \A s, t \in Sessions :
    AtChange(s) /\ AtChange(t) /\ call[s].holder = call[t].holder
      /\ call[s].version = call[t].version => s = t

CallsFit ==
  (\A s \in Sessions : Changing(s) /\ Computed(s) /\ Locking(s) /\ Selected(s)) /\ Alone

IInv ==
  TypeOK /\ ProjectionIsChainTip /\ CreditsAreEligible /\ AnswersMatchHistory /\ CallsFit

LEMMA TypesSplit == TypeOK <=> WorldTypes /\ RecordTypes /\ SessionTypes
  BY DEF TypeOK, WorldTypes, RecordTypes, SessionTypes

LEMMA StagesHaveCalls ==
  /\ CallsOf("idle") = {NoCall}
  /\ \A p \in {"look", "eligible", "accepts", "insert"} : p \in Stages /\ CallsOf(p) = ConfirmCalls
  /\ \A p \in {"load", "gate", "append", "advance"} : p \in Stages /\ CallsOf(p) = ChangeCalls
  /\ \A p \in {"lock", "select", "credit"} : p \in Stages /\ CallsOf(p) = CreditCalls
  BY DEF CallsOf, Stages

LEMMA AsksOK ==
  ASSUME SessionTypes, NEW s \in Sessions, NEW stage \in Stages, NEW request \in CallsOf(stage),
         Asks(s, request, stage)
  PROVE  SessionTypes'
  BY DEF SessionTypes, Asks

LEMMA GoesOK ==
  ASSUME SessionTypes, NEW s \in Sessions, NEW stage \in Stages,
         CallsOf(stage) = CallsOf(pc[s]), Goes(s, stage)
  PROVE  SessionTypes'
  BY DEF SessionTypes, Goes

LEMMA ContinuesOK ==
  ASSUME SessionTypes, NEW s \in Sessions, NEW stage \in Stages, NEW request \in CallsOf(stage),
         Continues(s, request, stage)
  PROVE  SessionTypes'
  BY DEF SessionTypes, Continues

LEMMA EndsOK ==
  ASSUME SessionTypes, NEW s \in Sessions, NEW answer \in Answers \cup {NoAnswer},
         Ends(s, answer)
  PROVE  SessionTypes'
  <1>1. "idle" \in Stages /\ CallsOf("idle") = {NoCall}
    BY StagesHaveCalls DEF Stages
  <1> QED
    BY <1>1 DEF SessionTypes, Ends

LEMMA RefusedOK ==
  ASSUME SessionTypes, NEW s \in Sessions, Refused(s)
  PROVE  SessionTypes'
  BY EndsOK DEF Refused

-----------------------------------------------------------------------------
(***************************************************************************)
(* Types.                                                                  *)
(***************************************************************************)
LEMMA InitTypes == Init => TypeOK
  <1> SUFFICES ASSUME Init PROVE TypeOK
    OBVIOUS
  <1> USE DEF Init
  <1>1. WorldTypes
    BY DEF WorldTypes, ArgumentRows
  <1>2. RecordTypes
    BY DEF RecordTypes
  <1>3. SessionTypes
    BY StagesHaveCalls DEF SessionTypes, Stages
  <1> QED
    BY <1>1, <1>2, <1>3, TypesSplit

LEMMA AskedTypes ==
  ASSUME TypeOK, NEW s \in Sessions, Asked(s)
  PROVE  TypeOK'
  <1>0. WorldTypes /\ RecordTypes /\ SessionTypes
    BY TypesSplit
  <1>1. WorldTypes' /\ RecordTypes'
    BY <1>0 DEF Asked, AskConfirm, AskChange, AskCredit, Asks, worldVars, recordVars,
                WorldTypes, RecordTypes
  <1>2. SessionTypes'
    <2> PICK h \in Holders :
          \/ \E p \in Positions : AskConfirm(s, h, p) \/ AskChange(s, h, p)
          \/ \E m \in Accounts, v \in Versions, chosen \in SUBSET Arguments :
               AskCredit(s, m, h, v, chosen)
      BY DEF Asked
    <2>1. CASE \E p \in Positions : AskConfirm(s, h, p)
      <3> PICK p \in Positions : AskConfirm(s, h, p)
        BY <2>1
      <3>1. [kind |-> "confirm", holder |-> h, position |-> p] \in CallsOf("look")
        BY StagesHaveCalls DEF ConfirmCalls
      <3> QED
        BY <1>0, <3>1, AsksOK, StagesHaveCalls DEF AskConfirm
    <2>2. CASE \E p \in Positions : AskChange(s, h, p)
      <3> PICK p \in Positions : AskChange(s, h, p)
        BY <2>2
      <3>1. [kind |-> "change", holder |-> h, position |-> p, read |-> NoRow, at |-> 0]
              \in CallsOf("load")
        BY StagesHaveCalls DEF ChangeCalls
      <3> QED
        BY <1>0, <3>1, AsksOK, StagesHaveCalls DEF AskChange
    <2>3. CASE \E m \in Accounts, v \in Versions, chosen \in SUBSET Arguments :
                 AskCredit(s, m, h, v, chosen)
      <3> PICK m \in Accounts, v \in Versions, chosen \in SUBSET Arguments :
            AskCredit(s, m, h, v, chosen)
        BY <2>3
      <3>1. [kind |-> "credit", by |-> m, holder |-> h, version |-> v, chosen |-> chosen,
             known |-> {}] \in CallsOf("lock")
        BY StagesHaveCalls DEF CreditCalls
      <3> QED
        BY <1>0, <3>1, AsksOK, StagesHaveCalls DEF AskCredit
    <2> QED
      BY <2>1, <2>2, <2>3
  <1> QED
    BY <1>1, <1>2 DEF TypeOK, WorldTypes, RecordTypes, SessionTypes

\* What the fields of a call range over.
LEMMA CallFields ==
  ASSUME TypeOK, NEW s \in Sessions
  PROVE  /\ pc[s] \in {"look", "eligible", "accepts", "insert"} =>
              call[s] \in ConfirmCalls /\ call[s].holder \in Holders /\ call[s].position \in Positions
         /\ pc[s] \in {"load", "gate", "append", "advance"} =>
              /\ call[s] \in ChangeCalls /\ call[s].holder \in Holders
              /\ call[s].position \in Positions /\ call[s].at \in Nat
              /\ call[s].read \in ProjectionRows \cup {NoRow}
         /\ pc[s] \in {"lock", "select", "credit"} =>
              /\ call[s] \in CreditCalls /\ call[s].by \in Accounts /\ call[s].holder \in Holders
              /\ call[s].version \in Versions
              /\ call[s].chosen \subseteq Arguments /\ call[s].known \subseteq Arguments
  <1>1. call[s] \in CallsOf(pc[s])
    BY DEF TypeOK
  <1>2. CASE pc[s] \in {"look", "eligible", "accepts", "insert"}
    <2>1. call[s] \in ConfirmCalls
      BY <1>1, <1>2, StagesHaveCalls
    <2> QED
      BY <1>2, <2>1 DEF ConfirmCalls
  <1>3. CASE pc[s] \in {"load", "gate", "append", "advance"}
    <2>1. call[s] \in ChangeCalls
      BY <1>1, <1>3, StagesHaveCalls
    <2> QED
      BY <1>3, <2>1 DEF ChangeCalls
  <1>4. CASE pc[s] \in {"lock", "select", "credit"}
    <2>1. call[s] \in CreditCalls
      BY <1>1, <1>4, StagesHaveCalls
    <2> QED
      BY <1>4, <2>1 DEF CreditCalls
  <1> QED
    BY <1>2, <1>3, <1>4

LEMMA LookUpTypes ==
  ASSUME TypeOK, NEW s \in Sessions,
         LookUpPosition(s) \/ EnsureEligible(s) \/ EnsureAcceptsPositions(s)
  PROVE  TypeOK'
  <1>0. WorldTypes /\ RecordTypes /\ SessionTypes
    BY TypesSplit
  <1>1. WorldTypes' /\ RecordTypes'
    BY <1>0 DEF LookUpPosition, EnsureEligible, EnsureAcceptsPositions, worldVars, recordVars,
                WorldTypes, RecordTypes
  <1>2. SessionTypes'
    <2>1. CASE LookUpPosition(s)
      <3>1. pc[s] = "look" /\ call[s].holder \in Holders /\ call[s].position \in Positions
        BY <2>1, CallFields DEF LookUpPosition
      <3>2. CASE Goes(s, "eligible")
        BY <1>0, <3>1, <3>2, GoesOK, StagesHaveCalls
      <3>3. CASE resolveExistingConfirmation(s, projection[call[s].holder])
        BY <1>0, <3>1, <3>3, EndsOK DEF resolveExistingConfirmation, Confirmed, Answers
      <3> QED
        BY <2>1, <3>2, <3>3 DEF LookUpPosition
    <2>2. CASE EnsureEligible(s)
      BY <1>0, <2>2, GoesOK, RefusedOK, StagesHaveCalls DEF EnsureEligible
    <2>3. CASE EnsureAcceptsPositions(s)
      BY <1>0, <2>3, GoesOK, RefusedOK, StagesHaveCalls DEF EnsureAcceptsPositions
    <2> QED
      BY <2>1, <2>2, <2>3
  <1> QED
    BY <1>1, <1>2 DEF TypeOK, WorldTypes, RecordTypes, SessionTypes

LEMMA ConfirmTypes ==
  ASSUME TypeOK, NEW s \in Sessions, ConfirmInitialPosition(s)
  PROVE  TypeOK'
  <1>0. WorldTypes /\ RecordTypes /\ SessionTypes
    BY TypesSplit
  <1>1. pc[s] = "insert" /\ call[s].holder \in Holders /\ call[s].position \in Positions
    BY CallFields DEF ConfirmInitialPosition
  <1>2. WorldTypes'
    BY <1>0 DEF ConfirmInitialPosition, worldVars, WorldTypes
  <1>3. RecordTypes'
    <2>1. CASE UNCHANGED projection
      BY <1>0, <2>1 DEF ConfirmInitialPosition, RecordTypes
    <2>2. CASE InsertInitial(call[s].holder, call[s].position)
      BY <1>0, <1>1, <2>2 DEF ConfirmInitialPosition, RecordTypes, InsertInitial, Instants,
         ProjectionRows
    <2> QED
      BY <2>1, <2>2 DEF ConfirmInitialPosition
  <1>4. SessionTypes'
    <2>1. Confirmed(call[s].holder, call[s].position) \in Answers
      BY <1>1 DEF Confirmed, Answers
    <2> QED
      BY <1>0, <1>1, <2>1, EndsOK, GoesOK, StagesHaveCalls DEF ConfirmInitialPosition
  <1> QED
    BY <1>2, <1>3, <1>4 DEF TypeOK, WorldTypes, RecordTypes, SessionTypes

LEMMA ChangeTypes ==
  ASSUME TypeOK, NEW s \in Sessions,
         LoadPosition(s) \/ AcceptChange(s) \/ CreatePositionChange(s)
  PROVE  TypeOK'
  <1>0. WorldTypes /\ RecordTypes /\ SessionTypes
    BY TypesSplit
  <1>1. WorldTypes' /\ RecordTypes'
    BY <1>0 DEF LoadPosition, AcceptChange, CreatePositionChange, worldVars, recordVars,
                WorldTypes, RecordTypes
  <1>2. SessionTypes'
    <2>0. /\ pc[s] \in {"load", "gate", "append"}
          /\ call[s] \in ChangeCalls /\ call[s].holder \in Holders
      BY CallFields DEF LoadPosition, AcceptChange, CreatePositionChange
    <2>1. CASE LoadPosition(s)
      <3>1. projection[call[s].holder] \in ProjectionRows \cup {NoRow}
        BY <1>0, <2>0 DEF RecordTypes
      <3> DEFINE request == [call[s] EXCEPT !.read = projection[call[s].holder]]
      <3>2. request \in CallsOf("gate")
        BY <2>0, <3>1, StagesHaveCalls DEF ChangeCalls
      <3>3. Continues(s, request, "gate") \/ Refused(s)
        BY <2>1 DEF LoadPosition
      <3> HIDE DEF request
      <3> QED
        BY <1>0, <3>2, <3>3, ContinuesOK, RefusedOK, StagesHaveCalls
    <2>2. CASE AcceptChange(s)
      <3> PICK t \in Instants : \/ Continues(s, [call[s] EXCEPT !.at = t], "append")
                               \/ Refused(s)
        BY <2>2 DEF AcceptChange
      <3> DEFINE request == [call[s] EXCEPT !.at = t]
      <3>0. t \in Nat
        BY <1>0 DEF Instants, WorldTypes
      <3>1. request \in CallsOf("append")
        BY <3>0, <2>0, StagesHaveCalls DEF ChangeCalls
      <3>2. Continues(s, request, "append") \/ Refused(s)
        OBVIOUS
      <3> HIDE DEF request
      <3> QED
        BY <1>0, <3>1, <3>2, ContinuesOK, RefusedOK, StagesHaveCalls
    <2>3. CASE CreatePositionChange(s)
      BY <1>0, <2>3, GoesOK, RefusedOK, StagesHaveCalls DEF CreatePositionChange
    <2> QED
      BY <2>1, <2>2, <2>3
  <1> QED
    BY <1>1, <1>2 DEF TypeOK, WorldTypes, RecordTypes, SessionTypes

LEMMA AdvanceTypes ==
  ASSUME TypeOK, ProjectionIsChainTip, CallsFit, NEW s \in Sessions, UpdateCurrentPosition(s)
  PROVE  TypeOK'
  <1>0. WorldTypes /\ RecordTypes /\ SessionTypes
    BY TypesSplit
  <1> DEFINE c == call[s]
  <1>1. /\ pc[s] = "advance" /\ c.holder \in Holders /\ c.position \in Positions /\ c.at \in Nat
        /\ c.read \in ProjectionRows /\ c.position # c.read.current /\ c.read.version < MaxVersion
        /\ c.read.version >= 1
    BY CallFields DEF UpdateCurrentPosition, CallsFit, Changing, Computed
  <1>2. WorldTypes'
    BY <1>0 DEF UpdateCurrentPosition, worldVars, WorldTypes
  <1>3. CASE Refused(s) /\ UNCHANGED <<projection, changes>>
    <2>1. RecordTypes'
      BY <1>0, <1>3 DEF UpdateCurrentPosition, RecordTypes
    <2>2. SessionTypes'
      BY <1>0, <1>3, RefusedOK
    <2> QED
      BY <1>2, <2>1, <2>2 DEF TypeOK, WorldTypes, RecordTypes, SessionTypes
  <1>4. CASE projection[c.holder].version = c.read.version
    <2>1. NewChange(c) \in ChangeRows /\ NextVersion(c) \in Versions /\ NextVersion(c) \in Nat
      BY <1>1, PositionsAssumption DEF NewChange, ChangeRows, NextVersion, Versions, ProjectionRows
    <2>2. projection[c.holder] \in ProjectionRows
      BY <1>0, <1>1 DEF RecordTypes, UpdateCurrentPosition, CallsFit, Changing
    <2>3. RecordTypes'
      <3>1. changes' \in [Holders -> [Versions -> ChangeRows \cup {NoRow}]]
        <4>1. changes' = [changes EXCEPT ![c.holder][NextVersion(c)] = NewChange(c)]
          BY <1>4 DEF UpdateCurrentPosition, Appends
        <4> HIDE DEF c
        <4> QED
          BY <1>0, <1>1, <2>1, <4>1 DEF RecordTypes
      <3>2. [projection[c.holder] EXCEPT !.current = c.position, !.version = NextVersion(c),
                                         !.updated = c.at] \in ProjectionRows
        BY <1>1, <2>1, <2>2 DEF ProjectionRows
      <3>3. projection' \in [Holders -> ProjectionRows \cup {NoRow}]
        BY <1>0, <1>1, <1>4, <3>2 DEF UpdateCurrentPosition, RecordTypes
      <3> QED
        BY <1>0, <3>1, <3>3 DEF UpdateCurrentPosition, RecordTypes
    <2>4. SessionTypes'
      <3> DEFINE answer == [kind |-> "changed", holder |-> c.holder, version |-> NextVersion(c),
                            row |-> NewChange(c)]
      <3>1. answer \in Answers
        BY <1>1, <2>1 DEF Answers
      <3>2. Ends(s, answer)
        BY <1>4 DEF UpdateCurrentPosition
      <3> HIDE DEF answer
      <3> QED
        BY <1>0, <3>1, <3>2, EndsOK
    <2> QED
      BY <1>2, <2>3, <2>4 DEF TypeOK, WorldTypes, RecordTypes, SessionTypes
  <1> QED
    BY <1>3, <1>4 DEF UpdateCurrentPosition

LEMMA CreditTypes ==
  ASSUME TypeOK, NEW s \in Sessions,
         LockChangeForAttributor(s) \/ SelectArguments(s) \/ CreateAttributions(s)
  PROVE  TypeOK'
  <1>0. WorldTypes /\ RecordTypes /\ SessionTypes
    BY TypesSplit
  <1> DEFINE c == call[s]
  <1>1. /\ pc[s] \in {"lock", "select", "credit"} /\ c \in CreditCalls
        /\ c.holder \in Holders /\ c.version \in Versions
        /\ c.chosen \subseteq Arguments /\ c.known \subseteq Arguments
    BY CallFields DEF LockChangeForAttributor, SelectArguments, CreateAttributions
  <1>2. credited[c.holder][c.version] \subseteq Arguments
    BY <1>0, <1>1 DEF RecordTypes
  <1>3. \A selection \in SUBSET Arguments : Credited(c, selection) \in Answers
    BY <1>1 DEF Credited, Answers
  <1>4. WorldTypes'
    BY <1>0 DEF LockChangeForAttributor, SelectArguments, CreateAttributions, worldVars, WorldTypes
  <1>5. RecordTypes'
    <2>1. CASE UNCHANGED recordVars
      BY <1>0, <2>1 DEF recordVars, RecordTypes
    <2>2. CASE CreateAttributions(s)
      BY <1>0, <1>1, <1>2, <2>2 DEF CreateAttributions, RecordTypes
    <2> QED
      BY <2>1, <2>2 DEF LockChangeForAttributor, SelectArguments
  <1>6. SessionTypes'
    <2>1. CASE LockChangeForAttributor(s)
      BY <1>0, <2>1, GoesOK, RefusedOK, StagesHaveCalls DEF LockChangeForAttributor
    <2>2. CASE SelectArguments(s)
      <3> DEFINE known == credited[c.holder][c.version]
                 fresh == c.chosen \ known
                 request == [c EXCEPT !.chosen = fresh, !.known = known]
      <3>1. request \in CallsOf("credit")
        BY <1>1, <1>2, StagesHaveCalls DEF CreditCalls
      <3>2. \/ Continues(s, request, "credit")
            \/ Refused(s)
            \/ Ends(s, Credited(c, known))
        BY <2>2 DEF SelectArguments
      <3>3. Credited(c, known) \in Answers
        BY <1>2, <1>3
      <3> HIDE DEF request, known
      <3> QED
        BY <1>0, <3>1, <3>2, <3>3, ContinuesOK, RefusedOK, EndsOK, StagesHaveCalls
    <2>3. CASE CreateAttributions(s)
      <3>1. Credited(c, c.known \cup c.chosen) \in Answers
        BY <1>1, <1>3
      <3>2. Ends(s, Credited(c, c.known \cup c.chosen))
        BY <2>3 DEF CreateAttributions
      <3> QED
        BY <1>0, <3>1, <3>2, EndsOK
    <2> QED
      BY <2>1, <2>2, <2>3
  <1> QED
    BY <1>4, <1>5, <1>6 DEF TypeOK, WorldTypes, RecordTypes, SessionTypes

LEMMA AbortTypes ==
  ASSUME TypeOK, NEW s \in Sessions, Abort(s)
  PROVE  TypeOK'
  <1>0. WorldTypes /\ RecordTypes /\ SessionTypes
    BY TypesSplit
  <1>1. WorldTypes' /\ RecordTypes'
    BY <1>0 DEF Abort, worldVars, recordVars, WorldTypes, RecordTypes
  <1>2. SessionTypes'
    BY <1>0, RefusedOK DEF Abort
  <1> QED
    BY <1>1, <1>2 DEF TypeOK, WorldTypes, RecordTypes, SessionTypes

LEMMA WorldTypesKept ==
  ASSUME TypeOK, Meanwhile \/ Tick \/ UNCHANGED vars
  PROVE  TypeOK'
  <1>0. WorldTypes /\ RecordTypes /\ SessionTypes
    BY TypesSplit
  <1>1. RecordTypes' /\ SessionTypes'
    BY <1>0 DEF Meanwhile, Tick, vars, recordVars, sessionVars, RecordTypes, SessionTypes
  <1>2. WorldTypes'
    <2>1. CASE Meanwhile
      <3>1. now' \in Nat /\ open' \subseteq Arenas /\ active' \subseteq Accounts
        BY <1>0, <2>1 DEF Meanwhile, WorldTypes, Flips
      <3>2. arguments' \in [Arguments -> ArgumentRows]
        BY <1>0, <2>1 DEF Meanwhile, WorldTypes, PublishArgument, Moderated, ArgumentRows, Instants
      <3> QED
        BY <3>1, <3>2 DEF WorldTypes
    <2>2. CASE Tick
      BY <1>0, <2>2 DEF Tick, worldVars, WorldTypes
    <2>3. CASE UNCHANGED vars
      BY <1>0, <2>3 DEF vars, worldVars, WorldTypes
    <2> QED
      BY <2>1, <2>2, <2>3
  <1> QED
    BY <1>1, <1>2 DEF TypeOK, WorldTypes, RecordTypes, SessionTypes

LEMMA StepTypes ==
  ASSUME TypeOK, ProjectionIsChainTip, CallsFit, [Next]_vars
  PROVE  TypeOK'
  <1>1. CASE \E s \in Sessions : SessionStep(s)
    BY <1>1, AskedTypes, LookUpTypes, ConfirmTypes, ChangeTypes, AdvanceTypes, CreditTypes,
       AbortTypes DEF SessionStep
  <1>2. CASE Meanwhile \/ Tick \/ UNCHANGED vars
    BY <1>2, WorldTypesKept
  <1> QED
    BY <1>1, <1>2 DEF Next
-----------------------------------------------------------------------------
(***************************************************************************)
(* What a step leaves alone.                                               *)
(***************************************************************************)
Same(t) == pc'[t] = pc[t] /\ call'[t] = call[t] /\ told'[t] = told[t]

LEMMA OthersStay ==
  ASSUME TypeOK, NEW s \in Sessions, SessionStep(s), NEW t \in Sessions, t # s
  PROVE  Same(t)
  <1>1. pc \in [Sessions -> Stages] /\ DOMAIN call = Sessions
          /\ told \in [Sessions -> Answers \cup {NoAnswer}]
    BY DEF TypeOK
  <1>2. \A stage : Goes(s, stage) => Same(t)
    BY <1>1 DEF Goes, Same
  <1>3. \A request, stage : Continues(s, request, stage) \/ Asks(s, request, stage) => Same(t)
    BY <1>1 DEF Continues, Asks, Same
  <1>4. \A answer : Ends(s, answer) => Same(t)
    BY <1>1 DEF Ends, Same
  <1>5. Refused(s) => Same(t)
    BY <1>4 DEF Refused
  <1>6. CASE Asked(s)
    BY <1>3, <1>6 DEF Asked, AskConfirm, AskChange, AskCredit
  <1>7. CASE LookUpPosition(s) \/ EnsureEligible(s) \/ EnsureAcceptsPositions(s)
               \/ ConfirmInitialPosition(s)
    BY <1>2, <1>4, <1>5, <1>7 DEF LookUpPosition, EnsureEligible, EnsureAcceptsPositions,
       ConfirmInitialPosition, resolveExistingConfirmation
  <1>8. CASE LoadPosition(s)
    <2>1. (\E request : Continues(s, request, "gate")) \/ Refused(s)
      BY <1>8 DEF LoadPosition
    <2> QED
      BY <1>3, <1>5, <2>1
  <1>9. CASE AcceptChange(s)
    <2>1. (\E request : Continues(s, request, "append")) \/ Refused(s)
      BY <1>9 DEF AcceptChange
    <2> QED
      BY <1>3, <1>5, <2>1
  <1>10. CASE CreatePositionChange(s) \/ LockChangeForAttributor(s) \/ Abort(s)
    BY <1>2, <1>5, <1>10 DEF CreatePositionChange, LockChangeForAttributor, Abort
  <1>11. CASE UpdateCurrentPosition(s)
    <2>1. (\E answer : Ends(s, answer)) \/ Refused(s)
      BY <1>11 DEF UpdateCurrentPosition
    <2> QED
      BY <1>4, <1>5, <2>1
  <1>12. CASE SelectArguments(s)
    <2>1. \/ \E request : Continues(s, request, "credit")
          \/ \E answer : Ends(s, answer)
          \/ Refused(s)
      BY <1>12 DEF SelectArguments
    <2> QED
      BY <1>3, <1>4, <1>5, <2>1
  <1>13. CASE CreateAttributions(s)
    <2>1. \E answer : Ends(s, answer)
      BY <1>13 DEF CreateAttributions
    <2> QED
      BY <1>4, <2>1
  <1> QED
    BY <1>6, <1>7, <1>8, <1>9, <1>10, <1>11, <1>12, <1>13 DEF SessionStep

\* The steps that write the record.
Writes(s) ==
  \/ /\ pc[s] = "insert" /\ projection[call[s].holder] = NoRow /\ ConfirmInitialPosition(s)
     /\ InsertInitial(call[s].holder, call[s].position)
     /\ Ends(s, Confirmed(call[s].holder, call[s].position))
     /\ UNCHANGED <<changes, credited>>
  \/ /\ UpdateCurrentPosition(s)
     /\ projection[call[s].holder].version = call[s].read.version
  \/ CreateAttributions(s)

LEMMA OthersRead ==
  ASSUME NEW s \in Sessions, SessionStep(s)
  PROVE  UNCHANGED <<now, worldVars>> /\ (UNCHANGED recordVars \/ Writes(s))
  <1>1. CASE Asked(s)
    BY <1>1 DEF Asked, AskConfirm, AskChange, AskCredit, Asks
  <1>2. CASE ConfirmInitialPosition(s)
    BY <1>2 DEF ConfirmInitialPosition, Writes, recordVars
  <1>3. CASE UpdateCurrentPosition(s)
    BY <1>3 DEF UpdateCurrentPosition, Writes, recordVars
  <1>4. CASE CreateAttributions(s)
    BY <1>4 DEF CreateAttributions, Writes
  <1>5. CASE LookUpPosition(s) \/ EnsureEligible(s) \/ EnsureAcceptsPositions(s)
               \/ LoadPosition(s) \/ AcceptChange(s) \/ CreatePositionChange(s)
    BY <1>5 DEF LookUpPosition, EnsureEligible, EnsureAcceptsPositions, LoadPosition, AcceptChange,
       CreatePositionChange
  <1>6. CASE LockChangeForAttributor(s) \/ SelectArguments(s) \/ Abort(s)
    BY <1>6 DEF LockChangeForAttributor, SelectArguments, Abort
  <1> QED
    BY <1>1, <1>2, <1>3, <1>4, <1>5, <1>6 DEF SessionStep
-----------------------------------------------------------------------------
(***************************************************************************)
(* The record only grows.                                                  *)
(***************************************************************************)
PositionsGrow ==
  \A h \in Holders : projection[h] # NoRow =>
    /\ projection'[h] # NoRow /\ projection'[h].initial = projection[h].initial
    /\ projection[h].version <= projection'[h].version
    /\ projection'[h].version = projection[h].version => projection'[h] = projection[h]

ChangesGrow ==
  \A h \in Holders, v \in Versions : changes[h][v] # NoRow => changes'[h][v] = changes[h][v]

CreditsGrow == \A h \in Holders, v \in Versions : credited[h][v] \subseteq credited'[h][v]

ArgumentsStay ==
  \A a \in Arguments : arguments[a].status # "none" =>
    arguments'[a].status # "none" /\ arguments'[a].created = arguments[a].created

\* What the transaction of a change writes.
LEMMA Advances ==
  ASSUME TypeOK, ProjectionIsChainTip, CallsFit, NEW s \in Sessions, UpdateCurrentPosition(s),
         projection[call[s].holder].version = call[s].read.version
  PROVE  LET c == call[s]  h == c.holder  v == c.read.version + 1
             row == [from |-> projection[h].current, to |-> c.position, at |-> c.at] IN
         /\ h \in Holders /\ v \in Versions /\ v \in Nat /\ projection[h] \in ProjectionRows
         /\ changes[h][v] = NoRow /\ v = projection[h].version + 1 /\ v - 1 \in 1 .. MaxVersion
         /\ c.position \in Positions /\ c.at \in Nat /\ c.at >= projection[h].updated
         /\ row \in ChangeRows
         /\ changes' = [changes EXCEPT ![h][v] = row]
         /\ projection' = [projection EXCEPT
              ![h] = [@ EXCEPT !.current = c.position, !.version = v, !.updated = c.at]]
         /\ Ends(s, [kind |-> "changed", holder |-> h, version |-> v, row |-> row])
         /\ UNCHANGED <<now, worldVars, credited>>
  <1> DEFINE c == call[s]
             h == c.holder
             v == c.read.version + 1
             row == [from |-> projection[h].current, to |-> c.position, at |-> c.at]
  <1>1. /\ pc[s] = "advance" /\ h \in Holders /\ c.position \in Positions /\ c.at \in Nat
        /\ c.read = projection[h] /\ projection[h] # NoRow /\ c.position # c.read.current
        /\ c.at >= c.read.updated /\ c.read.version < MaxVersion
    BY CallFields DEF UpdateCurrentPosition, CallsFit, Changing, Computed
  <1>2. projection[h] \in ProjectionRows
    BY <1>1 DEF TypeOK
  <1>3. projection[h].version \in 1 .. MaxVersion
    BY <1>1 DEF ProjectionIsChainTip
  <1>4. v \in Versions /\ v \in Nat /\ v - 1 \in 1 .. MaxVersion /\ v = projection[h].version + 1
    BY <1>1, <1>2, <1>3, PositionsAssumption DEF Versions, ProjectionRows
  <1>5. changes[h][v] = NoRow
    <2>1. changes[h][v] # NoRow <=> v <= projection[h].version
      BY <1>1, <1>4 DEF ProjectionIsChainTip
    <2> QED
      BY <1>2, <1>4, <2>1 DEF ProjectionRows
  <1>6. row = NewChange(c) /\ v = NextVersion(c)
    BY <1>1 DEF NewChange, NextVersion
  <1>7. row \in ChangeRows
    BY <1>1, <1>2 DEF ChangeRows, ProjectionRows
  <1>8. UpdateCurrentPosition(s) /\ projection[c.holder].version = c.read.version
    OBVIOUS
  <1>9. /\ Appends(c)
        /\ projection' = [projection EXCEPT
             ![c.holder] = [@ EXCEPT !.current = c.position, !.version = NextVersion(c),
                                     !.updated = c.at]]
        /\ Ends(s, [kind |-> "changed", holder |-> c.holder, version |-> NextVersion(c),
                    row |-> NewChange(c)])
        /\ UNCHANGED <<now, worldVars, credited>>
    BY <1>8 DEF UpdateCurrentPosition
  <1>10. changes' = [changes EXCEPT ![h][v] = row]
    BY <1>6, <1>9 DEF Appends
  <1>11. projection' = [projection EXCEPT
           ![h] = [@ EXCEPT !.current = c.position, !.version = v, !.updated = c.at]]
    BY <1>6, <1>9
  <1>12. Ends(s, [kind |-> "changed", holder |-> h, version |-> v, row |-> row])
    BY <1>6, <1>9
  <1> HIDE DEF row, v
  <1> QED
    BY <1>1, <1>2, <1>4, <1>5, <1>7, <1>9, <1>10, <1>11, <1>12 DEF row, v

LEMMA AdvanceRows ==
  ASSUME TypeOK, ProjectionIsChainTip, CallsFit, NEW s \in Sessions, UpdateCurrentPosition(s),
         projection[call[s].holder].version = call[s].read.version
  PROVE  \E k \in Holders, n \in Versions, row \in ChangeRows, new \in ProjectionRows :
           /\ projection[k] \in ProjectionRows /\ changes[k][n] = NoRow
           /\ n = projection[k].version + 1 /\ n \in Nat
           /\ row.from = projection[k].current /\ row.to = new.current /\ row.at = new.updated
           /\ new.initial = projection[k].initial /\ new.version = n
           /\ new.updated >= projection[k].updated
           /\ changes' = [changes EXCEPT ![k][n] = row]
           /\ projection' = [projection EXCEPT ![k] = new]
           /\ UNCHANGED credited
  <1> DEFINE c == call[s]
             k == c.holder
             n == c.read.version + 1
             row == [from |-> projection[k].current, to |-> c.position, at |-> c.at]
             new == [projection[k] EXCEPT !.current = c.position, !.version = n, !.updated = c.at]
  <1>1. /\ k \in Holders /\ n \in Versions /\ n \in Nat /\ projection[k] \in ProjectionRows
        /\ changes[k][n] = NoRow /\ n = projection[k].version + 1
        /\ c.position \in Positions /\ c.at \in Nat /\ c.at >= projection[k].updated
        /\ row \in ChangeRows
        /\ changes' = [changes EXCEPT ![k][n] = row]
        /\ projection' = [projection EXCEPT ![k] = new]
        /\ UNCHANGED credited
    BY Advances
  <1>2. /\ new \in ProjectionRows /\ new.initial = projection[k].initial /\ new.version = n
        /\ new.current = c.position /\ new.updated = c.at
    BY <1>1 DEF ProjectionRows
  <1>3. row.from = projection[k].current /\ row.to = c.position /\ row.at = c.at
    OBVIOUS
  <1> HIDE DEF c, k, n, row, new
  <1> QED
    BY <1>1, <1>2, <1>3

\* What a first confirmation writes.
LEMMA Inserts ==
  ASSUME TypeOK, NEW s \in Sessions, pc[s] = "insert",
         InsertInitial(call[s].holder, call[s].position)
  PROVE  \E row \in ProjectionRows :
           /\ row.initial = call[s].position /\ row.current = call[s].position /\ row.version = 1
           /\ projection' = [projection EXCEPT ![call[s].holder] = row]
  <1>1. call[s].position \in Positions
    BY CallFields
  <1> PICK t \in Instants :
        projection' = [projection EXCEPT
          ![call[s].holder] = [initial |-> call[s].position, current |-> call[s].position,
                               version |-> 1, updated |-> t]]
    BY DEF InsertInitial
  <1>2. t \in Nat
    BY DEF Instants, TypeOK
  <1> DEFINE row == [initial |-> call[s].position, current |-> call[s].position,
                     version |-> 1, updated |-> t]
  <1>3. row \in ProjectionRows
    BY <1>1, <1>2 DEF ProjectionRows
  <1> QED
    BY <1>3

LEMMA RecordGrows ==
  ASSUME TypeOK, ProjectionIsChainTip, CallsFit, [Next]_vars
  PROVE  PositionsGrow /\ ChangesGrow /\ CreditsGrow /\ ArgumentsStay
  <1>0. /\ projection \in [Holders -> ProjectionRows \cup {NoRow}]
        /\ changes \in [Holders -> [Versions -> ChangeRows \cup {NoRow}]]
        /\ credited \in [Holders -> [Versions -> SUBSET Arguments]]
        /\ arguments \in [Arguments -> ArgumentRows]
    BY DEF TypeOK
  <1>1. CASE UNCHANGED recordVars
    <2>1. PositionsGrow
      BY <1>0, <1>1 DEF recordVars, PositionsGrow, ProjectionRows
    <2>2. ChangesGrow /\ CreditsGrow
      BY <1>1 DEF recordVars, ChangesGrow, CreditsGrow
    <2>3. ArgumentsStay
      <3>1. CASE \E s \in Sessions : SessionStep(s)
        BY <3>1, OthersRead DEF worldVars, ArgumentsStay
      <3>2. CASE Meanwhile
        <4> SUFFICES ASSUME NEW a \in Arguments, arguments[a].status # "none"
                     PROVE  /\ arguments'[a].status # "none"
                            /\ arguments'[a].created = arguments[a].created
          BY DEF ArgumentsStay
        <4>1. arguments[a] \in ArgumentRows
          BY <1>0
        <4>2. CASE UNCHANGED arguments
          BY <4>2
        <4>3. ASSUME NEW b \in Arguments, PublishArgument(b)
              PROVE  arguments'[a] = arguments[a]
          BY <1>0, <4>3 DEF PublishArgument
        <4>4. ASSUME NEW b \in Arguments, Moderated(b)
              PROVE  /\ arguments'[a].status # "none"
                     /\ arguments'[a].created = arguments[a].created
          BY <1>0, <4>1, <4>4 DEF Moderated, ArgumentRows
        <4> QED
          BY <3>2, <4>2, <4>3, <4>4 DEF Meanwhile
      <3>3. CASE Tick \/ UNCHANGED vars
        BY <3>3 DEF Tick, vars, worldVars, ArgumentsStay
      <3> QED
        BY <3>1, <3>2, <3>3 DEF Next
    <2> QED
      BY <2>1, <2>2, <2>3
  <1>2. ASSUME NEW s \in Sessions, SessionStep(s), Writes(s)
        PROVE  PositionsGrow /\ ChangesGrow /\ CreditsGrow /\ ArgumentsStay
    <2>0. ArgumentsStay
      BY <1>2, OthersRead DEF worldVars, ArgumentsStay
    <2>1. CASE /\ pc[s] = "insert" /\ projection[call[s].holder] = NoRow
               /\ InsertInitial(call[s].holder, call[s].position)
               /\ UNCHANGED <<changes, credited>>
      <3>1. call[s].holder \in Holders
        BY <2>1, CallFields
      <3> PICK row \in ProjectionRows : projection' = [projection EXCEPT ![call[s].holder] = row]
        BY <2>1, Inserts
      <3>2. \A h \in Holders : projection[h] # NoRow => projection'[h] = projection[h]
        BY <1>0, <2>1, <3>1
      <3>3. PositionsGrow
        BY <1>0, <3>2 DEF PositionsGrow, ProjectionRows
      <3> QED
        BY <2>0, <2>1, <3>3 DEF ChangesGrow, CreditsGrow
    <2>2. CASE UpdateCurrentPosition(s) /\ projection[call[s].holder].version = call[s].read.version
      <3> DEFINE c == call[s]
                 h == c.holder
                 v == c.read.version + 1
                 row == [from |-> projection[h].current, to |-> c.position, at |-> c.at]
                 new == [projection[h] EXCEPT !.current = c.position, !.version = v,
                                              !.updated = c.at]
      <3>1. /\ h \in Holders /\ v \in Versions /\ v \in Nat /\ projection[h] \in ProjectionRows
            /\ changes[h][v] = NoRow /\ v = projection[h].version + 1
            /\ changes' = [changes EXCEPT ![h][v] = row]
            /\ projection' = [projection EXCEPT ![h] = new]
            /\ UNCHANGED credited
        BY <2>2, Advances
      <3>2. new.initial = projection[h].initial /\ new.version = v
        BY <3>1 DEF ProjectionRows
      <3>4. new # NoRow
        <4>1. new \in ProjectionRows
          BY <2>2, <3>1, Advances DEF ProjectionRows
        <4> QED
          BY <4>1, PositionsAssumption
      <3>5. projection[h].version \in Nat
        BY <3>1 DEF ProjectionRows
      <3> HIDE DEF c, h, v, row, new
      <3>6. PositionsGrow
        BY <1>0, <3>1, <3>2, <3>4, <3>5 DEF PositionsGrow, ProjectionRows
      <3>7. ChangesGrow
        BY <1>0, <3>1 DEF ChangesGrow
      <3> QED
        BY <2>0, <3>1, <3>6, <3>7 DEF CreditsGrow
    <2>3. CASE CreateAttributions(s)
      <3>1. call[s].holder \in Holders /\ call[s].version \in Versions
        BY <2>3, CallFields DEF CreateAttributions
      <3>2. CreditsGrow
        BY <1>0, <2>3, <3>1 DEF CreateAttributions, CreditsGrow
      <3>3. PositionsGrow
        BY <1>0, <2>3 DEF CreateAttributions, PositionsGrow, ProjectionRows
      <3> QED
        BY <2>0, <2>3, <3>2, <3>3 DEF CreateAttributions, ChangesGrow
    <2> QED
      BY <1>2, <2>1, <2>2, <2>3 DEF Writes
  <1>3. CASE Meanwhile \/ Tick \/ UNCHANGED vars
    BY <1>1, <1>3 DEF Meanwhile, Tick, vars, recordVars
  <1> QED
    BY <1>1, <1>2, <1>3, OthersRead DEF Next
-----------------------------------------------------------------------------
(***************************************************************************)
(* The history is a chain, and the projection its tip.                     *)
(***************************************************************************)
Chain(h) ==
  IF projection[h] = NoRow
    THEN \A v \in Versions : changes[h][v] = NoRow
    ELSE /\ projection[h].version \in 1 .. MaxVersion
         /\ projection[h].current = TargetAt(h, projection[h].version)
         /\ \A v \in Versions :
              /\ changes[h][v] # NoRow <=> v <= projection[h].version
              /\ changes[h][v] # NoRow =>
                   /\ changes[h][v].from = TargetAt(h, v - 1)
                   /\ changes[h][v].at <= projection[h].updated
                   /\ v > 2 => changes[h][v - 1].at <= changes[h][v].at

LEMMA ChainOf == ProjectionIsChainTip <=> \A h \in Holders : Chain(h)
  BY DEF ProjectionIsChainTip, Chain

LEMMA StepChain ==
  ASSUME TypeOK, ProjectionIsChainTip, CallsFit, [Next]_vars
  PROVE  ProjectionIsChainTip'
  <1>0. /\ projection \in [Holders -> ProjectionRows \cup {NoRow}]
        /\ changes \in [Holders -> [Versions -> ChangeRows \cup {NoRow}]]
    BY DEF TypeOK
  <1>1. CASE UNCHANGED <<projection, changes>>
    BY <1>1 DEF ProjectionIsChainTip, TargetAt
  <1>2. ASSUME NEW s \in Sessions, pc[s] = "insert", projection[call[s].holder] = NoRow,
               InsertInitial(call[s].holder, call[s].position), UNCHANGED changes
        PROVE  ProjectionIsChainTip'
    <2>1. call[s].holder \in Holders
      BY <1>2, CallFields
    <2> PICK row \in ProjectionRows :
          /\ row.initial = row.current /\ row.version = 1
          /\ projection' = [projection EXCEPT ![call[s].holder] = row]
      BY <1>2, Inserts
    <2>2. row # NoRow
      BY PositionsAssumption
    <2> SUFFICES ASSUME NEW h \in Holders PROVE Chain(h)'
      BY DEF ProjectionIsChainTip, Chain
    <2>3. CASE h = call[s].holder
      <3>1. projection'[h] = row /\ changes' = changes
        BY <1>0, <1>2, <2>1, <2>3
      <3>2. \A v \in Versions : changes[h][v] = NoRow
        BY <1>2, <2>3 DEF ProjectionIsChainTip
      <3>3. \A v \in Versions : ~(v <= 1)
        BY DEF Versions
      <3>4. 1 \in 1 .. MaxVersion
        BY PositionsAssumption
      <3> QED
        BY <2>2, <3>1, <3>2, <3>3, <3>4 DEF Chain, TargetAt
    <2>4. CASE h # call[s].holder
      <3>1. projection'[h] = projection[h] /\ changes' = changes
        BY <1>0, <1>2, <2>1, <2>4
      <3>2. Chain(h)
        BY DEF ProjectionIsChainTip, Chain
      <3> QED
        BY <3>1, <3>2 DEF Chain, TargetAt
    <2> QED
      BY <2>3, <2>4
  <1>3. ASSUME NEW s \in Sessions, UpdateCurrentPosition(s),
               projection[call[s].holder].version = call[s].read.version
        PROVE  ProjectionIsChainTip'
    <2> PICK k \in Holders, n \in Versions, row \in ChangeRows, new \in ProjectionRows :
          /\ projection[k] \in ProjectionRows /\ changes[k][n] = NoRow
          /\ n = projection[k].version + 1 /\ n \in Nat
          /\ row.from = projection[k].current /\ row.to = new.current /\ row.at = new.updated
          /\ new.initial = projection[k].initial /\ new.version = n
          /\ new.updated >= projection[k].updated
          /\ changes' = [changes EXCEPT ![k][n] = row]
          /\ projection' = [projection EXCEPT ![k] = new]
      BY <1>3, AdvanceRows
    <2>4. row # NoRow /\ new # NoRow
      BY PositionsAssumption
    <2>5. /\ projection[k].version \in Nat /\ projection[k].updated \in Nat
          /\ projection[k] # NoRow /\ new.updated \in Nat /\ row.at \in Nat
      BY PositionsAssumption DEF ProjectionRows, ChangeRows
    <2> SUFFICES ASSUME NEW h \in Holders PROVE Chain(h)'
      BY DEF ProjectionIsChainTip, Chain
    <2>6. Chain(h)
      BY DEF ProjectionIsChainTip, Chain
    <2>7. CASE h = k
      <3>1. projection'[h] = new /\ changes'[h][n] = row
              /\ \A v \in Versions : v # n => changes'[h][v] = changes[h][v]
        BY <1>0, <2>7
      <3>2. \A v \in Versions : v \in Nat /\ v >= 2 /\ (v > 2 => v - 1 \in Versions)
        BY PositionsAssumption DEF Versions
      <3>3. n \in 1 .. MaxVersion /\ n >= 2
        BY PositionsAssumption DEF Versions
      <3>4. \A v \in 1 .. projection[h].version : TargetAt(h, v)' = TargetAt(h, v)
        <4> SUFFICES ASSUME NEW v \in 1 .. projection[h].version
                     PROVE  TargetAt(h, v)' = TargetAt(h, v)
          OBVIOUS
        <4>1. CASE v = 1
          BY <2>7, <3>1, <4>1 DEF TargetAt
        <4>2. CASE v # 1
          <5>1. v \in Versions /\ v # n
            BY <2>5, <2>7, <3>3, <4>2, PositionsAssumption DEF Versions
          <5> QED
            BY <3>1, <4>2, <5>1 DEF TargetAt
        <4> QED
          BY <4>1, <4>2
      <3>5. TargetAt(h, n)' = new.current
        BY <3>1, <3>3 DEF TargetAt
      <3>6. ASSUME NEW v \in Versions
            PROVE  /\ changes'[h][v] # NoRow <=> v <= n
                   /\ changes'[h][v] # NoRow =>
                        /\ changes'[h][v].from = TargetAt(h, v - 1)'
                        /\ changes'[h][v].at <= new.updated
                        /\ v > 2 => changes'[h][v - 1].at <= changes'[h][v].at
        <4>0. v \in Nat /\ v >= 2 /\ (v > 2 => v - 1 \in Versions)
          BY <3>2
        <4>1. CASE v = n
          <5>1. changes'[h][v] = row
            BY <3>1, <4>1
          <5>2. TargetAt(h, v - 1)' = projection[h].current
            <6>1. v - 1 = projection[h].version /\ v - 1 \in 1 .. projection[h].version
              BY <2>5, <2>7, <3>3, <4>1
            <6> QED
              BY <2>5, <2>6, <2>7, <3>4, <6>1 DEF Chain
          <5>3. ASSUME v > 2 PROVE changes'[h][v - 1].at <= row.at
            <6>1. v - 1 \in Versions /\ v - 1 # n /\ v - 1 <= projection[h].version
              BY <2>5, <2>7, <4>0, <4>1, <5>3
            <6>2. changes[h][v - 1] # NoRow /\ changes[h][v - 1].at <= projection[h].updated
              BY <2>5, <2>6, <2>7, <6>1 DEF Chain
            <6>3. changes[h][v - 1].at \in Nat
              BY <1>0, <6>1, <6>2 DEF ChangeRows
            <6> QED
              BY <2>5, <2>7, <3>1, <6>1, <6>2, <6>3
          <5>4. row.from = projection[h].current /\ row.at <= new.updated
            BY <2>5, <2>7
          <5>5. v <= n
            BY <4>0, <4>1
          <5> QED
            BY <2>4, <5>1, <5>2, <5>3, <5>4, <5>5
        <4>2. CASE v # n
          <5>1. changes'[h][v] = changes[h][v]
            BY <3>1, <4>2
          <5>2. changes[h][v] # NoRow <=> v <= n
            <6>1. changes[h][v] # NoRow <=> v <= projection[h].version
              BY <2>5, <2>6, <2>7 DEF Chain
            <6> QED
              BY <2>5, <2>7, <4>0, <4>2, <6>1
          <5>3. ASSUME changes[h][v] # NoRow
                PROVE  /\ changes[h][v].from = TargetAt(h, v - 1)'
                       /\ changes[h][v].at <= new.updated
                       /\ v > 2 => changes'[h][v - 1].at <= changes[h][v].at
            <6>1. /\ v <= projection[h].version /\ changes[h][v].from = TargetAt(h, v - 1)
                  /\ changes[h][v].at <= projection[h].updated
                  /\ v > 2 => changes[h][v - 1].at <= changes[h][v].at
              BY <2>5, <2>6, <2>7, <5>3 DEF Chain
            <6>2. v - 1 \in 1 .. projection[h].version
              BY <2>5, <2>7, <4>0, <6>1
            <6>3. changes[h][v].at \in Nat
              <7>1. changes[h][v] \in ChangeRows
                BY <1>0, <5>3
              <7> QED
                BY <7>1 DEF ChangeRows
            <6>4. changes[h][v].at <= new.updated
              BY <2>5, <2>7, <6>1, <6>3
            <6>5. v > 2 => changes'[h][v - 1] = changes[h][v - 1]
              BY <2>5, <2>7, <3>1, <4>0, <6>1
            <6> QED
              BY <3>4, <6>1, <6>2, <6>4, <6>5
          <5> QED
            BY <5>1, <5>2, <5>3
        <4> QED
          BY <4>1, <4>2
      <3> QED
        BY <2>4, <3>1, <3>3, <3>5, <3>6 DEF Chain
    <2>8. CASE h # k
      <3>1. projection'[h] = projection[h] /\ changes'[h] = changes[h]
        BY <1>0, <2>8
      <3> QED
        BY <2>6, <3>1 DEF Chain, TargetAt
    <2> QED
      BY <2>7, <2>8
  <1>4. CASE \E s \in Sessions : SessionStep(s)
    BY <1>1, <1>2, <1>3, <1>4, OthersRead DEF Writes, recordVars, CreateAttributions
  <1>5. CASE Meanwhile \/ Tick \/ UNCHANGED vars
    BY <1>1, <1>5 DEF Meanwhile, Tick, vars, recordVars
  <1> QED
    BY <1>4, <1>5 DEF Next
-----------------------------------------------------------------------------
(***************************************************************************)
(* What the calls in progress know.                                        *)
(***************************************************************************)
Fits(s) == Changing(s) /\ Computed(s) /\ Locking(s) /\ Selected(s)

Quiet == {"idle", "look", "eligible", "accepts", "insert", "load", "lock"}

LEMMA QuietFits ==
  ASSUME NEW s \in Sessions, pc[s] \in Quiet
  PROVE  Fits(s) /\ ~AtChange(s)
  BY DEF Fits, Quiet, Changing, Computed, AtChange, Locking, Selected

\* A call that does not move keeps what it knows while the record grows.
LEMMA SameFits ==
  ASSUME TypeOK, PositionsGrow, ChangesGrow, ArgumentsStay, [Next]_vars, TypeOK',
         NEW t \in Sessions, Same(t), Fits(t),
         pc[t] = "credit" => credited'[call[t].holder][call[t].version]
                               = credited[call[t].holder][call[t].version]
  PROVE  Fits(t)'
  <1> DEFINE c == call[t]
  <1>0. pc'[t] = pc[t] /\ call'[t] = c
    BY DEF Same
  <1>1. Changing(t)'
    <2> SUFFICES ASSUME pc[t] \in {"gate", "append", "advance"} PROVE Changing(t)'
      BY <1>0 DEF Changing
    <2>1. /\ c.holder \in Holders /\ c.read # NoRow /\ projection[c.holder] # NoRow
          /\ 1 <= c.read.version /\ c.read.version <= projection[c.holder].version
          /\ c.read.version = projection[c.holder].version => c.read = projection[c.holder]
          /\ c.read \in ProjectionRows
      BY CallFields DEF Fits, Changing
    <2>2. /\ projection'[c.holder] # NoRow
          /\ projection[c.holder].version <= projection'[c.holder].version
          /\ projection'[c.holder].version = projection[c.holder].version
               => projection'[c.holder] = projection[c.holder]
      BY <2>1 DEF PositionsGrow
    <2>3. projection[c.holder] \in ProjectionRows /\ projection'[c.holder] \in ProjectionRows
      BY <2>1, <2>2 DEF TypeOK
    <2>4. /\ c.read.version \in Nat /\ projection[c.holder].version \in Nat
          /\ projection'[c.holder].version \in Nat
      BY <2>1, <2>3 DEF ProjectionRows
    <2>5. /\ c.read.version <= projection'[c.holder].version
          /\ c.read.version = projection'[c.holder].version => c.read = projection'[c.holder]
      BY <2>1, <2>2, <2>4
    <2> QED
      BY <1>0, <2>1, <2>2, <2>5 DEF Changing
  <1>2. Computed(t)'
    BY <1>0 DEF Fits, Computed
  <1>3. ASSUME AtChange(t)
        PROVE  /\ c.holder \in Holders /\ c.version \in Versions /\ c.chosen \subseteq Arguments
               /\ changes[c.holder][c.version] # NoRow
               /\ changes'[c.holder][c.version] = changes[c.holder][c.version]
    <2>1. /\ c.holder \in Holders /\ c.version \in Versions /\ c.chosen \subseteq Arguments
          /\ changes[c.holder][c.version] # NoRow
      BY <1>3, CallFields DEF AtChange, Fits, Locking
    <2> QED
      BY <2>1 DEF ChangesGrow
  <1>4. Locking(t)'
    BY <1>0, <1>3 DEF Locking, AtChange
  <1>5. Selected(t)'
    <2> SUFFICES ASSUME pc[t] = "credit" PROVE Selected(t)'
      BY <1>0 DEF Selected
    <2>1. /\ c.known = credited'[c.holder][c.version] /\ c.known \cap c.chosen = {}
          /\ Cardinality(c.known) + Cardinality(c.chosen) <= MaxAttributions
          /\ \A a \in c.chosen : IsBefore(a, c.holder, c.version)
      BY DEF Fits, Selected
    <2>2. AtChange(t)
      BY DEF AtChange
    <2>3. ASSUME NEW a \in c.chosen
          PROVE  /\ arguments'[a].status # "none"
                 /\ Home[a] = ArenaOf[c.holder] /\ Author[a] # AccountOf[c.holder]
                 /\ arguments'[a].created < changes'[c.holder][c.version].at
      BY <1>3, <2>1, <2>2 DEF IsBefore, ArgumentsStay
    <2> QED
      BY <1>0, <2>1, <2>3 DEF Selected, IsBefore
  <1> QED
    BY <1>1, <1>2, <1>4, <1>5 DEF Fits

\* A call keeps, or has just learnt, what it knows.
LEMMA MoverFits ==
  ASSUME TypeOK, ProjectionIsChainTip, CallsFit, NEW s \in Sessions, SessionStep(s)
  PROVE  /\ Fits(s)'
         /\ AtChange(s)' => \/ ~AwaitsChange(s) /\ pc[s] = "lock" /\ call'[s] = call[s]
                            \/ AtChange(s) /\ call'[s].holder = call[s].holder
                                 /\ call'[s].version = call[s].version
  <1> DEFINE c == call[s]
             Goal == AtChange(s)' =>
                       \/ ~AwaitsChange(s) /\ pc[s] = "lock" /\ call'[s] = call[s]
                       \/ AtChange(s) /\ call'[s].holder = call[s].holder
                            /\ call'[s].version = call[s].version
  <1>0. s \in DOMAIN call /\ pc \in [Sessions -> Stages] /\ DOMAIN call = Sessions
    BY DEF TypeOK
  <1>1. ASSUME pc'[s] \in Quiet PROVE Fits(s)' /\ Goal
    BY <1>1 DEF Fits, Quiet, Changing, Computed, AtChange, Locking, Selected
  <1>2. \A answer : Ends(s, answer) => pc'[s] \in Quiet
    BY <1>0 DEF Ends, Quiet
  <1>3. Refused(s) => pc'[s] \in Quiet
    BY <1>2 DEF Refused
  <1>4. \A stage \in Quiet : Goes(s, stage) => pc'[s] \in Quiet
    BY <1>0 DEF Goes
  <1>5. CASE Asked(s)
    <2>1. \A request : \A stage \in Quiet : Asks(s, request, stage) => pc'[s] \in Quiet
      BY <1>0 DEF Asks
    <2>2. "look" \in Quiet /\ "load" \in Quiet /\ "lock" \in Quiet
      BY DEF Quiet
    <2> QED
      BY <1>1, <1>5, <2>1, <2>2 DEF Asked, AskConfirm, AskChange, AskCredit
  <1>6. CASE LookUpPosition(s) \/ EnsureEligible(s) \/ EnsureAcceptsPositions(s)
               \/ ConfirmInitialPosition(s) \/ Abort(s)
    <2>1. "eligible" \in Quiet /\ "accepts" \in Quiet /\ "insert" \in Quiet /\ "look" \in Quiet
      BY DEF Quiet
    <2> QED
      BY <1>1, <1>2, <1>3, <1>4, <1>6, <2>1 DEF LookUpPosition, EnsureEligible,
         EnsureAcceptsPositions, ConfirmInitialPosition, resolveExistingConfirmation, Abort
  <1>7. CASE LoadPosition(s)
    <2> DEFINE stored == projection[c.holder]
               request == [c EXCEPT !.read = stored]
    <2>1. CASE Refused(s)
      BY <1>1, <1>3, <2>1
    <2>2. CASE stored # NoRow /\ Continues(s, request, "gate")
      <3>1. c \in ChangeCalls /\ c.holder \in Holders
        BY <1>7, CallFields DEF LoadPosition
      <3>2. request.holder = c.holder /\ request.read = stored
        BY <3>1 DEF ChangeCalls
      <3>3. pc'[s] = "gate" /\ call'[s] = request /\ projection' = projection
        BY <1>0, <1>7, <2>2 DEF Continues, LoadPosition, recordVars
      <3>4. stored.version \in 1 .. MaxVersion
        BY <2>2, <3>1 DEF ProjectionIsChainTip
      <3>5. 1 <= stored.version /\ stored.version <= stored.version
        BY <3>4
      <3> HIDE DEF request
      <3>6. Changing(s)'
        BY <2>2, <3>2, <3>3, <3>5 DEF Changing
      <3> QED
        BY <3>3, <3>6 DEF Fits, Computed, AtChange, Locking, Selected
    <2> QED
      BY <1>7, <2>1, <2>2 DEF LoadPosition
  <1>8. CASE AcceptChange(s)
    <2>1. CASE Refused(s)
      BY <1>1, <1>3, <2>1
    <2>2. ASSUME NEW t \in Instants, MayChange(c.read, c.position, t),
                 Continues(s, [c EXCEPT !.at = t], "append")
          PROVE  Fits(s)' /\ Goal
      <3> DEFINE request == [c EXCEPT !.at = t]
      <3>1. c \in ChangeCalls /\ c.holder \in Holders /\ pc[s] = "gate" /\ Changing(s)
              /\ c.read.version < MaxVersion
        BY <1>8, CallFields DEF AcceptChange, CallsFit
      <3>2. /\ request.holder = c.holder /\ request.read = c.read /\ request.at = t
            /\ request.position = c.position
        BY <3>1 DEF ChangeCalls
      <3>3. pc'[s] = "append" /\ call'[s] = request /\ projection' = projection
        BY <1>0, <1>8, <2>2 DEF Continues, AcceptChange, recordVars
      <3> HIDE DEF request
      <3>4. Changing(s)'
        BY <3>1, <3>2, <3>3 DEF Changing
      <3>5. Computed(s)'
        BY <2>2, <3>1, <3>2, <3>3 DEF Computed, MayChange
      <3> QED
        BY <3>3, <3>4, <3>5 DEF Fits, AtChange, Locking, Selected
    <2> QED
      BY <1>8, <2>1, <2>2 DEF AcceptChange
  <1>9. CASE CreatePositionChange(s)
    <2>1. CASE Refused(s)
      BY <1>1, <1>3, <2>1
    <2>2. CASE Goes(s, "advance")
      <3>1. pc[s] = "append" /\ pc'[s] = "advance" /\ call' = call /\ projection' = projection
              /\ Changing(s) /\ Computed(s)
        BY <1>0, <1>9, <2>2 DEF CreatePositionChange, Goes, recordVars, CallsFit
      <3> QED
        BY <3>1 DEF Fits, Changing, Computed, AtChange, Locking, Selected
    <2> QED
      BY <1>9, <2>1, <2>2 DEF CreatePositionChange
  <1>10. CASE UpdateCurrentPosition(s) \/ CreateAttributions(s)
    BY <1>1, <1>2, <1>3, <1>10 DEF UpdateCurrentPosition, CreateAttributions
  <1>11. CASE LockChangeForAttributor(s)
    <2>1. CASE Refused(s)
      BY <1>1, <1>3, <2>1
    <2>2. CASE Goes(s, "select") /\ IsChangeOf(c.by, c.holder, c.version)
      <3>1. /\ pc[s] = "lock" /\ ~AwaitsChange(s) /\ pc'[s] = "select" /\ call' = call
            /\ changes' = changes /\ changes[c.holder][c.version] # NoRow
        BY <1>0, <1>11, <2>2 DEF LockChangeForAttributor, Goes, recordVars, IsChangeOf
      <3> QED
        BY <3>1 DEF Fits, Changing, Computed, AtChange, Locking, Selected
    <2> QED
      BY <1>11, <2>1, <2>2 DEF LockChangeForAttributor
  <1>12. CASE SelectArguments(s)
    <2> DEFINE known == credited[c.holder][c.version]
               fresh == c.chosen \ known
               request == [c EXCEPT !.chosen = fresh, !.known = known]
    <2>1. CASE Refused(s) \/ Ends(s, Credited(c, known))
      BY <1>1, <1>2, <1>3, <2>1
    <2>2. CASE /\ ~(Cardinality(known) + Cardinality(fresh) > MaxAttributions)
               /\ \A a \in fresh : Eligible(a, c.holder, c.version)
               /\ Continues(s, request, "credit")
      <3>1. /\ c \in CreditCalls /\ c.holder \in Holders /\ c.version \in Versions
            /\ c.chosen \subseteq Arguments /\ pc[s] = "select" /\ Locking(s)
            /\ changes[c.holder][c.version] # NoRow
        BY <1>12, CallFields DEF SelectArguments, CallsFit, Locking, AtChange
      <3>2. /\ request.holder = c.holder /\ request.version = c.version
            /\ request.chosen = fresh /\ request.known = known
        BY <3>1 DEF CreditCalls
      <3>3. pc'[s] = "credit" /\ call'[s] = request /\ UNCHANGED <<changes, credited, arguments>>
        BY <1>0, <1>12, <2>2 DEF Continues, SelectArguments, recordVars, worldVars
      <3>4. Cardinality(known) + Cardinality(fresh) <= MaxAttributions
        <4>1. known \in SUBSET Arguments
          BY <3>1 DEF TypeOK
        <4>2. IsFiniteSet(known) /\ IsFiniteSet(fresh)
          BY <3>1, <4>1, PositionsAssumption, FS_Subset
        <4>3. Cardinality(known) \in Nat /\ Cardinality(fresh) \in Nat
          BY <4>2, FS_CardinalityType
        <4> QED
          BY <2>2, <4>3, PositionsAssumption
      <3>5. known \cap fresh = {}
        OBVIOUS
      <3>6. \A a \in fresh :
              /\ arguments[a].status # "none"
              /\ Home[a] = ArenaOf[c.holder] /\ Author[a] # AccountOf[c.holder]
              /\ arguments[a].created < changes[c.holder][c.version].at
        BY <2>2 DEF Eligible, IsBefore
      <3>7. request.known = credited[request.holder][request.version]
        BY <3>2
      <3> HIDE DEF request, fresh, known
      <3>8. Selected(s)'
        BY <3>2, <3>3, <3>4, <3>5, <3>6, <3>7 DEF Selected, IsBefore
      <3>9. Locking(s)' /\ AtChange(s)
        BY <3>1, <3>2, <3>3 DEF Locking, AtChange
      <3> QED
        BY <3>2, <3>3, <3>8, <3>9 DEF Fits, Changing, Computed, AtChange
    <2> QED
      BY <1>12, <2>1, <2>2 DEF SelectArguments
  <1> QED
    BY <1>5, <1>6, <1>7, <1>8, <1>9, <1>10, <1>11, <1>12 DEF SessionStep

LEMMA CallsStayFit ==
  ASSUME TypeOK, TypeOK', ProjectionIsChainTip, CallsFit, [Next]_vars
  PROVE  CallsFit'
  <1>0. PositionsGrow /\ ChangesGrow /\ CreditsGrow /\ ArgumentsStay
    BY RecordGrows
  <1>1. CASE \E s \in Sessions : SessionStep(s)
    <2> PICK s \in Sessions : SessionStep(s)
      BY <1>1
    <2>1. ASSUME NEW t \in Sessions, t # s PROVE Same(t) /\ Fits(t)
      BY <2>1, OthersStay DEF CallsFit, Fits
    <2>2. ASSUME NEW t \in Sessions, t # s, pc[t] = "credit"
          PROVE  credited'[call[t].holder][call[t].version]
                   = credited[call[t].holder][call[t].version]
      <3>1. CASE UNCHANGED credited
        BY <3>1
      <3>2. CASE CreateAttributions(s)
        <4>1. AtChange(t) /\ AtChange(s)
          BY <2>2, <3>2 DEF CreateAttributions, AtChange
        <4>2. call[s].holder # call[t].holder \/ call[s].version # call[t].version
          BY <2>2, <4>1 DEF CallsFit, Alone
        <4>3. /\ call[s].holder \in Holders /\ call[s].version \in Versions
              /\ call[t].holder \in Holders /\ call[t].version \in Versions
          BY <4>1, CallFields DEF AtChange
        <4>4. credited \in [Holders -> [Versions -> SUBSET Arguments]]
          BY DEF TypeOK
        <4> QED
          BY <3>2, <4>2, <4>3, <4>4 DEF CreateAttributions
      <3>3. UNCHANGED credited \/ CreateAttributions(s)
        BY OthersRead DEF Writes, recordVars, UpdateCurrentPosition
      <3> QED
        BY <3>1, <3>2, <3>3
    <2>3. ASSUME NEW t \in Sessions PROVE Fits(t)'
      BY <1>0, <2>1, <2>2, SameFits, MoverFits
    <2>4. ASSUME NEW t \in Sessions, t # s, AtChange(s)', AtChange(t)'
          PROVE  call'[s].holder # call'[t].holder \/ call'[s].version # call'[t].version
      <3>1. AtChange(t) /\ call'[t] = call[t]
        BY <2>1, <2>4 DEF Same, AtChange
      <3>2. CASE ~AwaitsChange(s) /\ call'[s] = call[s]
        BY <2>4, <3>1, <3>2 DEF AwaitsChange, AtChange
      <3>3. CASE AtChange(s) /\ call'[s].holder = call[s].holder /\ call'[s].version = call[s].version
        BY <2>4, <3>1, <3>3 DEF CallsFit, Alone
      <3> QED
        BY <2>4, <3>2, <3>3, MoverFits
    <2>5. ASSUME NEW t \in Sessions, NEW u \in Sessions, t # s, u # s, AtChange(t)', AtChange(u)',
                 call'[t].holder = call'[u].holder, call'[t].version = call'[u].version
          PROVE  t = u
      BY <2>1, <2>5 DEF Same, AtChange, CallsFit, Alone
    <2>6. Alone'
      BY <2>4, <2>5 DEF Alone
    <2> QED
      BY <2>3, <2>6 DEF CallsFit, Fits
  <1>2. CASE Meanwhile \/ Tick \/ UNCHANGED vars
    <2>1. UNCHANGED <<recordVars, sessionVars>>
      BY <1>2 DEF Meanwhile, Tick, vars
    <2>2. \A t \in Sessions : Same(t) /\ Fits(t)
      BY <2>1 DEF Same, sessionVars, CallsFit, Fits
    <2>3. \A t \in Sessions : Fits(t)'
      BY <1>0, <2>1, <2>2, SameFits DEF recordVars
    <2>4. Alone'
      BY <2>1 DEF sessionVars, CallsFit, Alone, AtChange
    <2> QED
      BY <2>3, <2>4 DEF CallsFit, Fits
  <1> QED
    BY <1>1, <1>2 DEF Next
-----------------------------------------------------------------------------
(***************************************************************************)
(* What a change credits.                                                  *)
(***************************************************************************)
LEMMA StepCredits ==
  ASSUME TypeOK, ProjectionIsChainTip, CallsFit, CreditsAreEligible, [Next]_vars
  PROVE  CreditsAreEligible'
  <1>0. ChangesGrow /\ ArgumentsStay /\ credited \in [Holders -> [Versions -> SUBSET Arguments]]
    BY RecordGrows DEF TypeOK
  <1>1. ASSUME NEW h \in Holders, NEW v \in Versions, NEW a \in Arguments,
               changes[h][v] # NoRow, IsBefore(a, h, v)
        PROVE  changes'[h][v] # NoRow /\ IsBefore(a, h, v)'
    BY <1>0, <1>1 DEF ChangesGrow, ArgumentsStay, IsBefore
  <1>2. ASSUME NEW h \in Holders, NEW v \in Versions, credited'[h][v] = credited[h][v]
        PROVE  /\ Cardinality(credited'[h][v]) <= MaxAttributions
               /\ \A a \in credited'[h][v] : changes'[h][v] # NoRow /\ IsBefore(a, h, v)'
    <2>1. credited[h][v] \subseteq Arguments
      BY <1>0
    <2> QED
      BY <1>1, <1>2, <2>1 DEF CreditsAreEligible
  <1>3. ASSUME NEW s \in Sessions, CreateAttributions(s), NEW h \in Holders, NEW v \in Versions
        PROVE  /\ Cardinality(credited'[h][v]) <= MaxAttributions
               /\ \A a \in credited'[h][v] : changes'[h][v] # NoRow /\ IsBefore(a, h, v)'
    <2> DEFINE c == call[s]
    <2>1. /\ pc[s] = "credit" /\ c.holder \in Holders /\ c.version \in Versions
          /\ c.chosen \subseteq Arguments
          /\ credited' = [credited EXCEPT ![c.holder][c.version] = @ \cup c.chosen]
      BY <1>3, CallFields DEF CreateAttributions
    <2>2. CASE h = c.holder /\ v = c.version
      <3>1. /\ c.known = credited[h][v] /\ c.known \cap c.chosen = {}
            /\ Cardinality(c.known) + Cardinality(c.chosen) <= MaxAttributions
            /\ \A a \in c.chosen : IsBefore(a, h, v)
            /\ changes[h][v] # NoRow
        BY <2>1, <2>2 DEF CallsFit, Selected, Locking, AtChange
      <3>2. credited'[h][v] = c.known \cup c.chosen
        BY <1>0, <2>1, <2>2, <3>1
      <3>3. c.known \subseteq Arguments /\ (\A a \in c.known : IsBefore(a, h, v))
        BY <1>0, <3>1 DEF CreditsAreEligible
      <3>4. Cardinality(c.known \cup c.chosen) <= MaxAttributions
        <4>1. IsFiniteSet(c.known) /\ IsFiniteSet(c.chosen)
          BY <2>1, <3>3, PositionsAssumption, FS_Subset
        <4>2. Cardinality(c.known \cup c.chosen)
                = Cardinality(c.known) + Cardinality(c.chosen) - Cardinality(c.known \cap c.chosen)
          BY <4>1, FS_Union
        <4>3. Cardinality(c.known \cap c.chosen) = 0
          BY <3>1, FS_EmptySet
        <4>4. Cardinality(c.known) \in Nat /\ Cardinality(c.chosen) \in Nat
          BY <4>1, FS_CardinalityType
        <4> QED
          BY <3>1, <4>2, <4>3, <4>4
      <3>5. \A a \in c.known \cup c.chosen : a \in Arguments /\ IsBefore(a, h, v)
        BY <2>1, <3>1, <3>3
      <3> HIDE DEF c
      <3> QED
        BY <1>1, <3>1, <3>2, <3>4, <3>5
    <2>3. CASE ~(h = c.holder /\ v = c.version)
      <3>1. credited'[h][v] = credited[h][v]
        BY <1>0, <2>1, <2>3
      <3> QED
        BY <1>2, <3>1
    <2> QED
      BY <2>2, <2>3
  <1>4. CASE UNCHANGED credited
    BY <1>2, <1>4 DEF CreditsAreEligible
  <1>5. CASE \E s \in Sessions : CreateAttributions(s)
    BY <1>3, <1>5 DEF CreditsAreEligible
  <1>6. UNCHANGED credited \/ \E s \in Sessions : CreateAttributions(s)
    <2>1. CASE \E s \in Sessions : SessionStep(s)
      BY <2>1, OthersRead DEF Writes, recordVars, UpdateCurrentPosition
    <2>2. CASE Meanwhile \/ Tick \/ UNCHANGED vars
      BY <2>2 DEF Meanwhile, Tick, vars, recordVars
    <2> QED
      BY <2>1, <2>2 DEF Next
  <1> QED
    BY <1>4, <1>5, <1>6
-----------------------------------------------------------------------------
(***************************************************************************)
(* What clients were told.                                                 *)
(***************************************************************************)
LEMMA AnswerStaysTrue ==
  ASSUME TypeOK, PositionsGrow, ChangesGrow, CreditsGrow, NEW answer \in Answers, IsTrue(answer)
  PROVE  IsTrue(answer)'
  <1>1. answer.holder \in Holders
    BY DEF Answers
  <1>2. CASE answer.kind = "confirmed"
    BY <1>1, <1>2 DEF IsTrue, PositionsGrow
  <1>3. CASE answer.kind = "occupied"
    BY <1>1, <1>3 DEF IsTrue, PositionsGrow
  <1>4. CASE answer.kind = "changed"
    <2>1. answer.version \in Versions /\ answer.row \in ChangeRows
      BY <1>4 DEF Answers
    <2>2. answer.row # NoRow
      BY <2>1, PositionsAssumption
    <2> QED
      BY <1>1, <1>4, <2>1, <2>2 DEF IsTrue, ChangesGrow
  <1>5. CASE answer.kind \notin {"confirmed", "occupied", "changed"}
    <2>1. answer.version \in Versions
      BY <1>5 DEF Answers
    <2> QED
      BY <1>1, <1>5, <2>1 DEF IsTrue, CreditsGrow
  <1> QED
    BY <1>2, <1>3, <1>4, <1>5

\* A new answer is true when it is given.
LEMMA NewAnswerIsTrue ==
  ASSUME TypeOK, TypeOK', ProjectionIsChainTip, CallsFit, NEW s \in Sessions, SessionStep(s),
         told'[s] # NoAnswer, told'[s] # told[s]
  PROVE  IsTrue(told[s])'
  <1> DEFINE c == call[s]
  <1>0. told \in [Sessions -> Answers \cup {NoAnswer}]
    BY DEF TypeOK
  <1>1. \A answer : Ends(s, answer) => told'[s] = answer
    BY <1>0 DEF Ends
  <1>2. ~Refused(s)
    BY <1>1 DEF Refused
  <1>3. (\A stage : ~Goes(s, stage)) /\ (\A request, stage : ~Continues(s, request, stage))
    BY DEF Goes, Continues
  <1>4. ~Asked(s)
    BY <1>0 DEF Asked, AskConfirm, AskChange, AskCredit, Asks
  <1>5. ~(EnsureEligible(s) \/ EnsureAcceptsPositions(s) \/ LoadPosition(s) \/ AcceptChange(s)
            \/ CreatePositionChange(s) \/ LockChangeForAttributor(s) \/ Abort(s))
    BY <1>2, <1>3 DEF EnsureEligible, EnsureAcceptsPositions, LoadPosition, AcceptChange,
       CreatePositionChange, LockChangeForAttributor, Abort
  <1>6. CASE LookUpPosition(s)
    <2> DEFINE stored == projection[c.holder]
               answer == IF stored.initial = c.position
                           THEN Confirmed(c.holder, c.position)
                           ELSE [kind |-> "occupied", holder |-> c.holder,
                                 position |-> c.position]
    <2>1. stored # NoRow /\ Ends(s, answer) /\ projection' = projection
      BY <1>3, <1>6 DEF LookUpPosition, resolveExistingConfirmation, recordVars
    <2>2. told'[s] = answer
      BY <1>1, <2>1
    <2>3. CASE stored.initial = c.position
      BY <2>1, <2>2, <2>3 DEF IsTrue, Confirmed
    <2>4. CASE stored.initial # c.position
      <3>1. told'[s] = [kind |-> "occupied", holder |-> c.holder, position |-> c.position]
        BY <2>2, <2>4
      <3>2. projection'[c.holder] # NoRow /\ projection'[c.holder].initial # c.position
        BY <2>1, <2>4
      <3>3. /\ told'[s].kind = "occupied" /\ told'[s].holder = c.holder
            /\ told'[s].position = c.position
        BY <3>1
      <3> QED
        BY <3>2, <3>3 DEF IsTrue
    <2> QED
      BY <2>3, <2>4
  <1>7. CASE ConfirmInitialPosition(s)
    <2>1. /\ pc[s] = "insert" /\ projection[c.holder] = NoRow
          /\ InsertInitial(c.holder, c.position) /\ Ends(s, Confirmed(c.holder, c.position))
      BY <1>3, <1>7 DEF ConfirmInitialPosition
    <2>2. told'[s] = Confirmed(c.holder, c.position)
      BY <1>1, <2>1
    <2> PICK row \in ProjectionRows :
          row.initial = c.position /\ projection' = [projection EXCEPT ![c.holder] = row]
      BY <2>1, Inserts
    <2>3. c.holder \in Holders /\ projection \in [Holders -> ProjectionRows \cup {NoRow}]
      BY <2>1, CallFields DEF TypeOK
    <2>4. projection'[c.holder] = row /\ row # NoRow
      BY <2>3, PositionsAssumption
    <2> QED
      BY <2>2, <2>4 DEF IsTrue, Confirmed
  <1>8. CASE UpdateCurrentPosition(s)
    <2>0. projection[c.holder].version = c.read.version
      BY <1>2, <1>8 DEF UpdateCurrentPosition
    <2> DEFINE h == c.holder
               v == c.read.version + 1
               row == [from |-> projection[h].current, to |-> c.position, at |-> c.at]
    <2>1. /\ h \in Holders /\ v \in Versions /\ changes' = [changes EXCEPT ![h][v] = row]
          /\ Ends(s, [kind |-> "changed", holder |-> h, version |-> v, row |-> row])
      BY <1>8, <2>0, Advances
    <2>2. told'[s] = [kind |-> "changed", holder |-> h, version |-> v, row |-> row]
      BY <1>1, <2>1
    <2>3. changes \in [Holders -> [Versions -> ChangeRows \cup {NoRow}]]
      BY DEF TypeOK
    <2> HIDE DEF h, v, row
    <2>4. changes'[h][v] = row
      BY <2>1, <2>3
    <2> QED
      BY <2>2, <2>4 DEF IsTrue
  <1>9. CASE SelectArguments(s)
    <2> DEFINE known == credited[c.holder][c.version]
    <2>1. Ends(s, Credited(c, known)) /\ credited' = credited
      BY <1>2, <1>3, <1>9 DEF SelectArguments, recordVars
    <2>2. told'[s] = Credited(c, known)
      BY <1>1, <2>1
    <2> QED
      BY <2>1, <2>2 DEF IsTrue, Credited
  <1>10. CASE CreateAttributions(s)
    <2>1. /\ pc[s] = "credit" /\ c.holder \in Holders /\ c.version \in Versions
          /\ credited' = [credited EXCEPT ![c.holder][c.version] = @ \cup c.chosen]
          /\ Ends(s, Credited(c, c.known \cup c.chosen))
      BY <1>10, CallFields DEF CreateAttributions
    <2>2. told'[s] = Credited(c, c.known \cup c.chosen)
      BY <1>1, <2>1
    <2>3. c.known = credited[c.holder][c.version]
      BY <2>1 DEF CallsFit, Selected
    <2>4. credited \in [Holders -> [Versions -> SUBSET Arguments]]
      BY DEF TypeOK
    <2>5. credited'[c.holder][c.version] = c.known \cup c.chosen
      BY <2>1, <2>3, <2>4
    <2> QED
      BY <2>2, <2>5 DEF IsTrue, Credited
  <1> QED
    BY <1>4, <1>5, <1>6, <1>7, <1>8, <1>9, <1>10 DEF SessionStep

LEMMA StepAnswers ==
  ASSUME TypeOK, TypeOK', ProjectionIsChainTip, CallsFit, AnswersMatchHistory, [Next]_vars
  PROVE  AnswersMatchHistory'
  <1>0. PositionsGrow /\ ChangesGrow /\ CreditsGrow
    BY RecordGrows
  <1> SUFFICES ASSUME NEW t \in Sessions, told'[t] # NoAnswer PROVE IsTrue(told[t])'
    BY DEF AnswersMatchHistory
  <1>1. CASE told'[t] = told[t]
    <2> PICK answer : answer = told[t]
      OBVIOUS
    <2>1. answer \in Answers /\ IsTrue(answer)
      BY <1>1 DEF TypeOK, AnswersMatchHistory
    <2>2. IsTrue(answer)'
      BY <1>0, <2>1, AnswerStaysTrue
    <2> QED
      BY <1>1, <2>2 DEF IsTrue
  <1>2. CASE told'[t] # told[t]
    <2>1. CASE \E s \in Sessions : SessionStep(s)
      BY <1>2, <2>1, OthersStay, NewAnswerIsTrue DEF Same
    <2>2. CASE Meanwhile \/ Tick \/ UNCHANGED vars
      BY <1>2, <2>2 DEF Meanwhile, Tick, vars, sessionVars
    <2> QED
      BY <2>1, <2>2 DEF Next
  <1> QED
    BY <1>1, <1>2
-----------------------------------------------------------------------------
LEMMA InitIInv == Init => IInv
  <1> SUFFICES ASSUME Init PROVE IInv
    OBVIOUS
  <1>1. TypeOK
    BY InitTypes
  <1>2. ProjectionIsChainTip /\ AnswersMatchHistory
    BY DEF Init, ProjectionIsChainTip, AnswersMatchHistory
  <1>3. CreditsAreEligible
    BY FS_EmptySet, PositionsAssumption DEF Init, CreditsAreEligible
  <1>4. CallsFit
    BY DEF Init, CallsFit, Changing, Computed, Locking, Selected, Alone, AtChange
  <1> QED
    BY <1>1, <1>2, <1>3, <1>4 DEF IInv

LEMMA StepIInv == IInv /\ [Next]_vars => IInv'
  <1> SUFFICES ASSUME IInv, [Next]_vars PROVE IInv'
    OBVIOUS
  <1>1. TypeOK /\ ProjectionIsChainTip /\ CreditsAreEligible /\ AnswersMatchHistory /\ CallsFit
    BY DEF IInv
  <1>2. TypeOK'
    BY <1>1, StepTypes
  <1> QED
    BY <1>1, <1>2, StepChain, StepCredits, StepAnswers, CallsStayFit DEF IInv

LEMMA Inductive == Spec => []IInv
  BY InitIInv, StepIInv, PTL DEF Spec

\* Every row of the record, every call in progress and every answer has its
\* type in every reachable state.
THEOREM TypeCorrect == Spec => []TypeOK
  <1>1. IInv => TypeOK
    BY DEF IInv
  <1> QED
    BY <1>1, Inductive, PTL

\* However many sessions change positions from versions they read before their
\* transactions, the append-only history of a holder is an unbroken chain and
\* the projection shows its last target (ChangePositionUseCase, migration 00014).
THEOREM ChainsAreUnbroken == Spec => []ProjectionIsChainTip
  <1>1. IInv => ProjectionIsChainTip
    BY DEF IInv
  <1> QED
    BY <1>1, Inductive, PTL

\* The lock of the change makes the limit cumulative over all sessions, and an
\* argument that was eligible when it was credited stays so whatever happens to
\* its status (LockChangeForAttributor, EligibilityPolicy).
THEOREM CreditsStayEligible == Spec => []CreditsAreEligible
  <1>1. IInv => CreditsAreEligible
    BY DEF IInv
  <1> QED
    BY <1>1, Inductive, PTL

\* What a client was told of a position, a change or a selection is in the
\* record from then on, whatever the others did before the answer was given.
THEOREM AnswersStayTrue == Spec => []AnswersMatchHistory
  <1>1. IInv => AnswersMatchHistory
    BY DEF IInv
  <1> QED
    BY <1>1, Inductive, PTL
-----------------------------------------------------------------------------
(***************************************************************************)
(* The abstract history.                                                   *)
(***************************************************************************)
LEMMA FunctionsAreSequences ==
  ASSUME NEW S, NEW n \in Nat, NEW f \in [1 .. n -> S]
  PROVE  f \in Seq(S) /\ Len(f) = n
  <1>1. f \in Seq(S)
    BY SeqDef
  <1>2. Len(f) \in Nat /\ DOMAIN f = 1 .. Len(f) /\ DOMAIN f = 1 .. n
    BY <1>1, LenProperties
  <1> QED
    BY <1>1, <1>2

LEMMA Appending ==
  ASSUME NEW S, NEW n \in Nat, NEW f \in [1 .. n -> S], NEW g \in [1 .. n + 1 -> S],
         \A i \in 1 .. n : g[i] = f[i]
  PROVE  g = Append(f, g[n + 1])
  <1> DEFINE a == Append(f, g[n + 1])
  <1>1. f \in Seq(S) /\ Len(f) = n
    BY FunctionsAreSequences
  <1>2. g \in Seq(S) /\ Len(g) = n + 1
    BY FunctionsAreSequences
  <1>3. g[n + 1] \in S
    OBVIOUS
  <1>4. /\ a \in Seq(S) /\ Len(a) = n + 1 /\ a[n + 1] = g[n + 1]
        /\ \A i \in 1 .. n : a[i] = f[i]
    BY <1>1, <1>3, AppendProperties
  <1> HIDE DEF a
  <1>5. \A i \in 1 .. n + 1 : g[i] = a[i]
    BY <1>4
  <1>6. g = a
    BY <1>2, <1>4, <1>5, SeqEqual
  <1> QED
    BY <1>6 DEF a

LEMMA PathOf ==
  ASSUME TypeOK, ProjectionIsChainTip, NEW h \in Holders, projection[h] # NoRow
  PROVE  /\ projection[h].version \in Nat \ {0}
         /\ Path(h) = [v \in 1 .. projection[h].version |-> TargetAt(h, v)]
         /\ Path(h) \in [1 .. projection[h].version -> Positions]
         /\ Path(h) \in Seq(Positions) /\ Len(Path(h)) = projection[h].version
         /\ Path(h) # << >>
  <1>1. projection[h] \in ProjectionRows /\ projection[h].version \in 1 .. MaxVersion
    BY DEF TypeOK, ProjectionIsChainTip
  <1>2. projection[h].version \in Nat \ {0}
    BY <1>1
  <1>3. ASSUME NEW v \in 1 .. projection[h].version PROVE TargetAt(h, v) \in Positions
    <2>1. CASE v = 1
      BY <1>1, <2>1 DEF TargetAt, ProjectionRows
    <2>2. CASE v # 1
      <3>1. v \in Versions /\ v <= projection[h].version
        BY <1>1, <2>2, PositionsAssumption DEF Versions
      <3>2. changes[h][v] # NoRow
        BY <3>1 DEF ProjectionIsChainTip
      <3>3. changes[h][v] \in ChangeRows
        BY <3>1, <3>2 DEF TypeOK
      <3> QED
        BY <2>2, <3>3 DEF TargetAt, ChangeRows
    <2> QED
      BY <2>1, <2>2
  <1>4. Path(h) = [v \in 1 .. projection[h].version |-> TargetAt(h, v)]
    BY DEF Path
  <1>5. Path(h) \in [1 .. projection[h].version -> Positions]
    BY <1>3, <1>4
  <1>6. Path(h) \in Seq(Positions) /\ Len(Path(h)) = projection[h].version
    BY <1>2, <1>5, FunctionsAreSequences
  <1>7. Path(h) # << >>
    BY <1>2, <1>6, EmptySeq
  <1> QED
    BY <1>2, <1>4, <1>5, <1>6, <1>7

\* What PathOf says of every holder.
PathsFit ==
  \A h \in Holders : projection[h] # NoRow =>
    /\ projection[h].version \in Nat \ {0}
    /\ Path(h) = [v \in 1 .. projection[h].version |-> TargetAt(h, v)]
    /\ Path(h) \in [1 .. projection[h].version -> Positions]

LEMMA PathsAlwaysFit == TypeOK /\ ProjectionIsChainTip => PathsFit
  BY PathOf DEF PathsFit

LEMMA InitHistory == Init => History!Init
  BY DEF Init, History!Init, Path

\* A step that appends one target to the chain of one holder.
LEMMA PathGrows ==
  ASSUME TypeOK, ProjectionIsChainTip, TypeOK', ProjectionIsChainTip', NEW k \in Holders,
         NEW n \in Nat, n = IF projection[k] = NoRow THEN 0 ELSE projection[k].version,
         projection'[k] # NoRow, projection'[k].version = n + 1,
         \A v \in 1 .. n : TargetAt(k, v)' = TargetAt(k, v),
         \A h \in Holders : h # k => projection'[h] = projection[h] /\ changes'[h] = changes[h]
  PROVE  [h \in Holders |-> Path(h)]'
           = [[h \in Holders |-> Path(h)] EXCEPT ![k] = Append(@, TargetAt(k, n + 1)')]
  <1>1. PathsFit
    BY PathsAlwaysFit
  <1>2. (TypeOK /\ ProjectionIsChainTip)' => PathsFit'
    BY PathsAlwaysFit, PTL
  <1>3. Path(k) \in [1 .. n -> Positions] /\ \A v \in 1 .. n : Path(k)[v] = TargetAt(k, v)
    <2>1. CASE projection[k] = NoRow
      BY <2>1 DEF Path
    <2>2. CASE projection[k] # NoRow
      <3> PICK path : path = Path(k)
        OBVIOUS
      <3>1. path = [v \in 1 .. n |-> TargetAt(k, v)] /\ path \in [1 .. n -> Positions]
        BY <1>1, <2>2 DEF PathsFit
      <3> QED
        BY <3>1
    <2> QED
      BY <2>1, <2>2
  <1>4. /\ Path(k)' = [v \in 1 .. n + 1 |-> TargetAt(k, v)']
        /\ Path(k)' \in [1 .. n + 1 -> Positions]
    BY <1>2 DEF PathsFit
  <1>5. Path(k)' = Append(Path(k), TargetAt(k, n + 1)')
    <2> PICK old, new : old = Path(k) /\ new = Path(k)'
      OBVIOUS
    <2>1. old \in [1 .. n -> Positions] /\ new \in [1 .. n + 1 -> Positions]
      BY <1>3, <1>4
    <2>2. \A v \in 1 .. n : new[v] = old[v]
      BY <1>3, <1>4
    <2>3. new[n + 1] = TargetAt(k, n + 1)'
      BY <1>4
    <2>4. new = Append(old, new[n + 1])
      BY <2>1, <2>2, Appending
    <2> QED
      BY <2>3, <2>4
  <1>6. ASSUME NEW h \in Holders, h # k PROVE Path(h)' = Path(h)
    BY <1>6 DEF Path, TargetAt
  <1> QED
    BY <1>5, <1>6

LEMMA ConfirmationTakes ==
  ASSUME TypeOK, ProjectionIsChainTip, TypeOK', ProjectionIsChainTip', NEW s \in Sessions,
         pc[s] = "insert", projection[call[s].holder] = NoRow,
         InsertInitial(call[s].holder, call[s].position), UNCHANGED <<changes, credited>>
  PROVE  \E h \in Holders, p \in Positions : History!Take(h, p)
  <1> PICK k \in Holders : k = call[s].holder
    BY CallFields
  <1> PICK row \in ProjectionRows :
        /\ row.initial = call[s].position /\ row.version = 1
        /\ projection' = [projection EXCEPT ![k] = row]
    BY Inserts
  <1>0. projection \in [Holders -> ProjectionRows \cup {NoRow}] /\ call[s].position \in Positions
    BY CallFields DEF TypeOK
  <1>1. projection'[k] = row /\ row # NoRow
    BY <1>0, PositionsAssumption
  <1>2. [h \in Holders |-> Path(h)]'
          = [[h \in Holders |-> Path(h)] EXCEPT ![k] = Append(@, TargetAt(k, 0 + 1)')]
    <2>1. \A h \in Holders : h # k => projection'[h] = projection[h] /\ changes'[h] = changes[h]
      BY <1>0
    <2>2. projection'[k].version = 0 + 1 /\ \A v \in 1 .. 0 : TargetAt(k, v)' = TargetAt(k, v)
      BY <1>1
    <2> QED
      BY <1>1, <2>1, <2>2, PathGrows
  <1>3. TargetAt(k, 0 + 1)' = call[s].position
    BY <1>1 DEF TargetAt
  <1>4. Path(k) = << >>
    BY DEF Path
  <1>5. History!Take(k, call[s].position)
    BY <1>2, <1>3, <1>4 DEF History!Take
  <1> QED
    BY <1>0, <1>5

LEMMA ChangeTakes ==
  ASSUME TypeOK, ProjectionIsChainTip, TypeOK', ProjectionIsChainTip', CallsFit,
         NEW s \in Sessions, UpdateCurrentPosition(s),
         projection[call[s].holder].version = call[s].read.version
  PROVE  \E h \in Holders, p \in Positions : History!Take(h, p)
  <1> PICK k \in Holders, n \in Versions, row \in ChangeRows, new \in ProjectionRows :
        /\ projection[k] \in ProjectionRows /\ changes[k][n] = NoRow
        /\ n = projection[k].version + 1 /\ n \in Nat
        /\ row.from = projection[k].current /\ row.to = new.current /\ row.at = new.updated
        /\ new.initial = projection[k].initial /\ new.version = n
        /\ changes' = [changes EXCEPT ![k][n] = row]
        /\ projection' = [projection EXCEPT ![k] = new]
        /\ UNCHANGED credited
    BY AdvanceRows
  <1>0. /\ projection \in [Holders -> ProjectionRows \cup {NoRow}]
        /\ changes \in [Holders -> [Versions -> ChangeRows \cup {NoRow}]]
    BY DEF TypeOK
  <1>1. projection'[k] = new /\ new # NoRow /\ projection[k] # NoRow
    BY <1>0, PositionsAssumption
  <1>2. projection[k].version \in Nat \ {0} /\ n >= 2
    BY PathOf, <1>1
  <1> PICK m \in Nat : m = projection[k].version
    BY <1>2
  <1>3. ASSUME NEW v \in 1 .. m PROVE TargetAt(k, v)' = TargetAt(k, v)
    <2>1. CASE v = 1
      BY <1>1, <2>1 DEF TargetAt
    <2>2. CASE v # 1
      <3>1. v # n
        BY <1>2
      <3>2. changes'[k][v] = changes[k][v]
        BY <1>0, <3>1
      <3> QED
        BY <2>2, <3>2 DEF TargetAt
    <2> QED
      BY <2>1, <2>2
  <1>4. TargetAt(k, m + 1)' = row.to
    <2>1. changes'[k][n] = row /\ n # 1
      BY <1>0, <1>2
    <2> QED
      BY <2>1 DEF TargetAt
  <1>5. [h \in Holders |-> Path(h)]'
          = [[h \in Holders |-> Path(h)] EXCEPT ![k] = Append(@, TargetAt(k, m + 1)')]
    <2>1. \A h \in Holders : h # k => projection'[h] = projection[h] /\ changes'[h] = changes[h]
      BY <1>0
    <2> QED
      BY <1>1, <1>2, <1>3, <2>1, PathGrows
  <1>6. Path(k)[Len(Path(k))] = projection[k].current
    <2>1. Len(Path(k)) = m /\ Path(k) = [v \in 1 .. m |-> TargetAt(k, v)]
      BY <1>1, PathOf
    <2>2. Path(k)[m] = TargetAt(k, m)
      BY <1>2, <2>1
    <2> QED
      BY <1>1, <2>1, <2>2 DEF ProjectionIsChainTip
  <1>7. row.to \in Positions /\ row.to # projection[k].current
    BY DEF ChangeRows
  <1>8. History!Take(k, row.to)
    BY <1>4, <1>5, <1>6, <1>7 DEF History!Take
  <1> QED
    BY <1>7, <1>8

LEMMA CreditsGive ==
  ASSUME TypeOK, ProjectionIsChainTip, CallsFit, CreditsAreEligible', NEW s \in Sessions,
         CreateAttributions(s)
  PROVE  \E h \in Holders, v \in Versions, selection \in SUBSET Arguments :
           History!Credit(h, v, selection)
  <1> PICK h \in Holders, v \in Versions, chosen \in SUBSET Arguments :
        h = call[s].holder /\ v = call[s].version /\ chosen = call[s].chosen
    BY CallFields DEF CreateAttributions
  <1>1. /\ credited' = [credited EXCEPT ![h][v] = @ \cup chosen]
        /\ UNCHANGED <<projection, changes>> /\ changes[h][v] # NoRow
    BY DEF CreateAttributions, CallsFit, Locking, AtChange
  <1>2. credited'[h][v] = credited[h][v] \cup chosen
    BY <1>1 DEF TypeOK
  <1>3. Cardinality(credited[h][v] \cup chosen) <= MaxAttributions
    BY <1>2 DEF CreditsAreEligible
  <1>4. projection[h] # NoRow /\ v <= projection[h].version /\ v \in Nat /\ v >= 2
    BY <1>1, PositionsAssumption DEF ProjectionIsChainTip, Versions
  <1>5. v \in 2 .. Len(Path(h))
    BY <1>4, PathOf
  <1>6. [k \in Holders |-> Path(k)]' = [k \in Holders |-> Path(k)]
    BY <1>1 DEF Path, TargetAt
  <1>7. History!Credit(h, v, chosen)
    <2>1. [k \in Holders |-> Path(k)][h] = Path(h)
      OBVIOUS
    <2>2. v \in 2 .. Len([k \in Holders |-> Path(k)][h])
      BY <1>5, <2>1
    <2> QED
      BY <1>1, <1>3, <1>6, <2>2 DEF History!Credit, History!Cardinality, Cardinality
  <1> QED
    BY <1>7

\* Every behaviour of positions and attributions, with its races, retries and
\* rollbacks, is one of the abstract history: entries are appended one at a time
\* and never rewritten, and credits are only added, up to the limit.
THEOREM ImplementsHistory == Spec => HistorySpec
  <1>1. IInv /\ IInv' /\ [Next]_vars => [History!Next]_(History!vars)
    <2> SUFFICES ASSUME IInv, IInv', [Next]_vars PROVE [History!Next]_(History!vars)
      OBVIOUS
    <2>0. /\ TypeOK /\ ProjectionIsChainTip /\ CallsFit
          /\ TypeOK' /\ ProjectionIsChainTip' /\ CreditsAreEligible'
      BY DEF IInv
    <2>1. CASE UNCHANGED recordVars
      BY <2>1 DEF recordVars, History!vars, Path, TargetAt
    <2>2. ASSUME NEW s \in Sessions, Writes(s) PROVE History!Next
      BY <2>0, <2>2, ConfirmationTakes, ChangeTakes, CreditsGive DEF Writes, History!Next
    <2>3. CASE \E s \in Sessions : SessionStep(s)
      BY <2>1, <2>2, <2>3, OthersRead
    <2>4. CASE Meanwhile \/ Tick \/ UNCHANGED vars
      BY <2>1, <2>4 DEF Meanwhile, Tick, vars, recordVars
    <2> QED
      BY <2>3, <2>4 DEF Next
  <1> QED
    BY <1>1, InitHistory, Inductive, PTL DEF Spec, HistorySpec, History!Spec
====
