---------------------------- MODULE PassesProofs ----------------------------
(***************************************************************************)
(* Proofs about ArenaPasses, for every number of lots, Arenas, events and  *)
(* sessions.  Every step is seen twice: as what it does to the tables      *)
(* (RecordStep, of which there are seven kinds), and as what the session   *)
(* that takes it knows from then on.  The inductive invariant adds to the  *)
(* properties what a call in progress has read that no other session can   *)
(* undo, and what a transaction's locks protect.                           *)
(***************************************************************************)
EXTENDS ArenaPasses, FiniteSums, TLAPS

recordVars == <<events, intents, journal, remaining, created, arenas, version, consumed>>

RecordTypes ==
  /\ events \in [Events -> Statuses]
  /\ intents \in [Intents -> {"absent", "open", "paid", "expired"}]
  /\ remaining \in [Lots -> Nat] /\ \A l \in Lots : remaining[l] <= Quantity[l]
  /\ created \in [Lots -> Nat]
  /\ journal \in [Refunds -> JournalRows \cup {NoEntry}]
  /\ arenas \in [Arenas -> {"draft", "published", "deleted", "ended"}]
  /\ version \in [Arenas -> Nat \ {0}] /\ consumed \in [Arenas -> Lots \cup {NoLot}]

LockTypes ==
  /\ lotLock \in [Lots -> Sessions \cup {NoSession}]
  /\ keyLock \in [Arenas -> Sessions \cup {NoSession}]

SessionTypes ==
  /\ pc \in [Sessions -> Stages]
  /\ call \in [Sessions -> Deliveries \cup Publications \cup {NoCall}]
  /\ told \in [Sessions -> Tellings]

ReadTypes ==
  /\ entry \in [Sessions -> [revoked : Nat, review : BOOLEAN]]
  /\ seen \in [Sessions -> Nat] /\ at \in [Sessions -> Nat]
  /\ rows \in [Sessions -> SUBSET Lots]

WorldTypes == now \in Nat /\ faults \in Nat

Delivering == {"claim", "resolve", "bump", "fail"} \cup Handling
Settling == {"settle", "grant", "pay"}
Refunding == {"refund", "assess", "report", "zero", "record"}
Publishing == {"find", "list", "lock", "commit"}

\* The call a session executes, or has answered, is of the kind its stage says.
CallFits(s) ==
  /\ pc[s] \in Delivering \/ told[s] \in {"handled", "acknowledged"} => call[s] \in Deliveries
  /\ pc[s] \in Publishing \/ told[s] \in {"published", "consumed", "conflict"}
       => call[s] \in Publications
  /\ pc[s] # "idle" => told[s] = "nothing"
  /\ pc[s] \in Settling => Event(s).type = "completed"
  /\ pc[s] \in Refunding => Event(s).type # "completed"
  /\ pc[s] \in {"report", "zero"} => ~Event(s).partial

\* What a delivery has read or done that stays so.
DeliveryKnows(s) ==
  /\ pc[s] \in Delivering => events[Event(s)] # "absent"
  /\ pc[s] \in Handling \cup {"fail"} => Claimed(Event(s))
  /\ pc[s] \in {"grant", "pay"} => intents[Intent(s)] # "absent"
  /\ pc[s] \in {"pay", "report", "zero"} => Exists(Intent(s))
  /\ pc[s] = "record" /\ entry[s].revoked > 0 => Exists(Intent(s)) /\ remaining[Intent(s)] = 0
  /\ pc[s] = "succeed" => HasEffect(Event(s))

\* The draft a publication read is still one unless its version moved.
PublicationKnows(s) ==
  /\ pc[s] \in Publishing =>
       /\ version[Arena(s)] >= seen[s]
       /\ arenas[Arena(s)] = "draft" \/ version[Arena(s)] > seen[s]
  /\ pc[s] = "lock" => \A l \in rows[s] : Exists(l) /\ AccountOf[l] = AccountOf[Arena(s)]

Knows(s) == CallFits(s) /\ DeliveryKnows(s) /\ PublicationKnows(s) /\ IsTrue(s)

\* A locked lot is of the account of the Arena of the session that locked it.
LotsAreHeld ==
  \A l \in Lots : lotLock[l] # NoSession =>
    /\ pc[lotLock[l]] \in {"lock", "commit"}
    /\ Exists(l) /\ AccountOf[l] = AccountOf[Arena(lotLock[l])]

\* The session that inserted a consumption is the one about to commit it.
KeysAreHeld ==
  \A a \in Arenas : keyLock[a] # NoSession =>
    /\ pc[keyLock[a]] = "commit" /\ Arena(keyLock[a]) = a /\ consumed[a] = NoLot

CommitsAreReady ==
  \A s \in Sessions : pc[s] = "commit" =>
    IF Candidates(s) = {} THEN consumed[Arena(s)] # NoLot ELSE keyLock[Arena(s)] = s

Locks == LotsAreHeld /\ KeysAreHeld /\ CommitsAreReady

\* A recorded revocation was of a lot.
RevocationsExist ==
  \A r \in Refunds :
    (IF journal[r] = NoEntry THEN FALSE ELSE journal[r].revoked > 0) => Exists(journal[r].intent)

IInv ==
  TypeOK /\ PassesAreAccounted /\ RevocationsExist /\ Locks /\ \A s \in Sessions : Knows(s)

LEMMA TypesSplit ==
  TypeOK <=> RecordTypes /\ LockTypes /\ SessionTypes /\ ReadTypes /\ WorldTypes
  BY DEF TypeOK, RecordTypes, LockTypes, SessionTypes, ReadTypes, WorldTypes

LEMMA EventFields ==
  \A e \in Events :
    e.intent \in Intents /\ (e.type # "completed" => e.refund \in Refunds /\ e.partial \in BOOLEAN)
  BY PassesAssumption DEF EventRecords

LEMMA CallFields ==
  /\ \A c \in Deliveries : c.event \in Events
  /\ \A c \in Publications : c.arena \in Arenas
  BY DEF Deliveries, Publications
-----------------------------------------------------------------------------
(***************************************************************************)
(* What a step does to the tables.                                         *)
(***************************************************************************)
EventMoves ==
  /\ \E e \in Events, status \in Statuses :
       /\ IF events[e] = "absent" THEN status = "received"
          ELSE status \in {"processing", "processed", "failed"} /\ MayBecome(e, status)
       /\ Moves(e, status)
  /\ UNCHANGED <<intents, journal, remaining, created, arenas, version, consumed>>

IntentMoves ==
  /\ \E i \in Intents :
       \/ intents[i] = "absent" /\ \E status \in {"open", "expired"} :
                                     intents' = [intents EXCEPT ![i] = status]
       \/ intents[i] = "open" /\ Exists(i) /\ intents' = [intents EXCEPT ![i] = "paid"]
  /\ UNCHANGED <<events, journal, remaining, created, arenas, version, consumed>>

LotAppears ==
  /\ \E l \in Lots :
       /\ ~Exists(l) /\ CreateLotIfAbsent(l)
       /\ l \in Intents => \E e \in Events : e.type = "completed" /\ e.intent = l /\ Claimed(e)
  /\ UNCHANGED <<events, intents, journal, arenas, version, consumed>>

LotEmpties ==
  /\ \E l \in Intents :
       /\ Exists(l) /\ remaining' = [remaining EXCEPT ![l] = 0]
       /\ \E e \in Events : e.type # "completed" /\ ~e.partial /\ e.intent = l /\ Claimed(e)
  /\ UNCHANGED <<events, intents, journal, created, arenas, version, consumed>>

RefundLands ==
  /\ \E r \in Refunds, row \in JournalRows :
       /\ journal[r] = NoEntry /\ journal' = [journal EXCEPT ![r] = row]
       /\ row.revoked > 0 => Exists(row.intent) /\ remaining[row.intent] = 0
  /\ UNCHANGED <<events, intents, remaining, created, arenas, version, consumed>>

ArenaMoves ==
  /\ \E a \in Arenas :
       /\ \/ arenas[a] = "draft" /\ arenas' \in {arenas, [arenas EXCEPT ![a] = "deleted"]}
          \/ arenas[a] = "published" /\ arenas' = [arenas EXCEPT ![a] = "ended"]
       /\ version' = [version EXCEPT ![a] = @ + 1]
  /\ UNCHANGED <<events, intents, journal, remaining, created, consumed>>

ArenaPays ==
  /\ \E a \in Arenas, l \in Lots :
       /\ arenas[a] = "draft" /\ Exists(l) /\ remaining[l] > 0 /\ AccountOf[l] = AccountOf[a]
       /\ arenas' = [arenas EXCEPT ![a] = "published"]
       /\ version' = [version EXCEPT ![a] = @ + 1]
       /\ remaining' = [remaining EXCEPT ![l] = @ - 1]
       /\ consumed' = [consumed EXCEPT ![a] = l]
  /\ UNCHANGED <<events, intents, journal, created>>

RecordStep ==
  EventMoves \/ IntentMoves \/ LotAppears \/ LotEmpties \/ RefundLands \/ ArenaMoves \/ ArenaPays
    \/ UNCHANGED recordVars

\* What no step undoes.
Grows ==
  /\ \A e \in Events :
       /\ events[e] # "absent" => events'[e] # "absent"
       /\ Claimed(e) => Claimed(e)'
       /\ events[e] \in {"processed", "failed"} => events'[e] = events[e]
  /\ \A i \in Intents :
       /\ intents[i] # "absent" => intents'[i] # "absent"
       /\ intents[i] \in {"paid", "expired"} => intents'[i] = intents[i]
  /\ \A l \in Lots : Exists(l) => Exists(l)' /\ (remaining[l] = 0 => remaining'[l] = 0)
  /\ \A r \in Refunds : journal[r] # NoEntry => journal'[r] = journal[r]
  /\ \A a \in Arenas :
       /\ version'[a] >= version[a] /\ (arenas'[a] # arenas[a] => version'[a] > version[a])
       /\ consumed[a] # NoLot => consumed'[a] = consumed[a]
       /\ arenas[a] \in {"published", "ended"} => arenas'[a] \in {"published", "ended"}

LEMMA RecordsGrow ==
  ASSUME RecordTypes, PublicationsArePaid, RecordStep
  PROVE  Grows
  <1> USE DEF RecordTypes
  <1>1. CASE EventMoves
    BY <1>1 DEF EventMoves, Moves, MayBecome, Statuses, Grows, Claimed, Exists
  <1>2. CASE IntentMoves
    BY <1>2 DEF IntentMoves, Grows, Claimed, Exists
  <1>3. CASE LotAppears
    <2>1. PICK l \in Lots : ~Exists(l) /\ CreateLotIfAbsent(l)
      BY <1>3 DEF LotAppears
    <2>2. \A m \in Lots : m # l => created'[m] = created[m] /\ remaining'[m] = remaining[m]
      BY <2>1 DEF CreateLotIfAbsent
    <2> QED
      BY <1>3, <2>1, <2>2 DEF LotAppears, Grows, Claimed, Exists
  <1>4. CASE LotEmpties
    BY <1>4 DEF LotEmpties, Grows, Claimed, Exists
  <1>5. CASE RefundLands
    BY <1>5 DEF RefundLands, Grows, Claimed, Exists
  <1>6. CASE ArenaMoves
    BY <1>6 DEF ArenaMoves, Grows, Claimed, Exists
  <1>7. CASE ArenaPays
    BY <1>7 DEF ArenaPays, PublicationsArePaid, Grows, Claimed, Exists
  <1>8. CASE UNCHANGED recordVars
    BY <1>8 DEF recordVars, Grows, Claimed, Exists
  <1> QED
    BY <1>1, <1>2, <1>3, <1>4, <1>5, <1>6, <1>7, <1>8 DEF RecordStep

LEMMA LotsAreFinite == \A S \in SUBSET Lots : IsFiniteSet(S) /\ Cardinality(S) \in Nat
  BY PassesAssumption, FS_Subset, FS_CardinalityType

LEMMA RecordsTyped ==
  ASSUME RecordTypes, RecordStep
  PROVE  RecordTypes'
  <1> USE DEF RecordTypes
  <1>1. CASE EventMoves
    BY <1>1 DEF EventMoves, Moves, Statuses
  <1>2. CASE IntentMoves
    BY <1>2 DEF IntentMoves
  <1>3. CASE LotAppears
    <2>1. PICK l \in Lots : ~Exists(l) /\ CreateLotIfAbsent(l)
      BY <1>3 DEF LotAppears
    <2>2. Cardinality({m \in Lots : Exists(m)}) \in Nat
      BY LotsAreFinite
    <2>3. Quantity[l] \in Nat
      BY PassesAssumption
    <2> DEFINE rank == 1 + Cardinality({m \in Lots : Exists(m)})
    <2>4. rank \in Nat
      BY <2>2
    <2>5. /\ created' = [created EXCEPT ![l] = rank]
          /\ remaining' = [remaining EXCEPT ![l] = Quantity[l]]
      BY <2>1 DEF CreateLotIfAbsent
    <2> HIDE DEF rank
    <2>6. created' \in [Lots -> Nat] /\ remaining' \in [Lots -> Nat]
      BY <2>3, <2>4, <2>5
    <2>7. \A m \in Lots : remaining'[m] <= Quantity[m]
      BY <2>3, <2>5
    <2> QED
      BY <1>3, <2>6, <2>7 DEF LotAppears
  <1>4. CASE LotEmpties
    <2>1. PICK l \in Lots : remaining' = [remaining EXCEPT ![l] = 0]
      BY <1>4 DEF LotEmpties, Lots
    <2>2. \A m \in Lots : Quantity[m] \in Nat
      BY PassesAssumption
    <2>3. remaining' \in [Lots -> Nat] /\ \A m \in Lots : remaining'[m] <= Quantity[m]
      BY <2>1, <2>2
    <2> QED
      BY <1>4, <2>3 DEF LotEmpties
  <1>5. CASE RefundLands
    BY <1>5 DEF RefundLands
  <1>6. CASE ArenaMoves
    BY <1>6 DEF ArenaMoves
  <1>7. CASE ArenaPays
    <2>1. PICK a \in Arenas, l \in Lots :
            /\ remaining[l] > 0 /\ remaining' = [remaining EXCEPT ![l] = @ - 1]
            /\ arenas' = [arenas EXCEPT ![a] = "published"]
            /\ version' = [version EXCEPT ![a] = @ + 1]
            /\ consumed' = [consumed EXCEPT ![a] = l]
      BY <1>7 DEF ArenaPays
    <2>2. \A m \in Lots : Quantity[m] \in Nat
      BY PassesAssumption
    <2>3. remaining' \in [Lots -> Nat] /\ \A m \in Lots : remaining'[m] <= Quantity[m]
      BY <2>1, <2>2
    <2>4. /\ arenas' \in [Arenas -> {"draft", "published", "deleted", "ended"}]
          /\ version' \in [Arenas -> Nat \ {0}] /\ consumed' \in [Arenas -> Lots \cup {NoLot}]
      BY <2>1
    <2> QED
      BY <1>7, <2>3, <2>4 DEF ArenaPays
  <1>8. CASE UNCHANGED recordVars
    BY <1>8 DEF recordVars
  <1> QED
    BY <1>1, <1>2, <1>3, <1>4, <1>5, <1>6, <1>7, <1>8 DEF RecordStep

\* The passes of a lot, when an Arena takes one of them.
LEMMA ConsumptionCounts ==
  ASSUME RecordTypes, PublicationsArePaid, ArenaPays
  PROVE  \E l \in Lots :
           /\ Exists(l) /\ remaining[l] > 0 /\ remaining' = [remaining EXCEPT ![l] = @ - 1]
           /\ Cardinality(ConsumedFrom(l)') = Cardinality(ConsumedFrom(l)) + 1
           /\ \A m \in Lots : m # l => ConsumedFrom(m)' = ConsumedFrom(m)
  <1>1. PICK a \in Arenas, l \in Lots :
          /\ arenas[a] = "draft" /\ Exists(l) /\ remaining[l] > 0
          /\ remaining' = [remaining EXCEPT ![l] = @ - 1]
          /\ consumed' = [consumed EXCEPT ![a] = l]
    BY DEF ArenaPays
  <1>2. consumed[a] = NoLot
    BY <1>1 DEF PublicationsArePaid
  <1>3. l # NoLot /\ NoLot \notin Lots
    BY PassesAssumption
  <1>4. ConsumedFrom(l)' = ConsumedFrom(l) \cup {a} /\ a \notin ConsumedFrom(l)
    BY <1>1, <1>2, <1>3 DEF ConsumedFrom, RecordTypes
  <1>5. IsFiniteSet(ConsumedFrom(l))
    BY PassesAssumption, FS_Subset DEF ConsumedFrom
  <1>6. Cardinality(ConsumedFrom(l)') = Cardinality(ConsumedFrom(l)) + 1
    BY <1>4, <1>5, FS_AddElement
  <1>7. \A m \in Lots : m # l => ConsumedFrom(m)' = ConsumedFrom(m)
    BY <1>1, <1>2, <1>3 DEF ConsumedFrom, RecordTypes
  <1> QED
    BY <1>1, <1>6, <1>7

LEMMA CountsAreNumbers == \A l \in Lots : Cardinality(ConsumedFrom(l)) \in Nat
  <1>1. \A l \in Lots : IsFiniteSet(ConsumedFrom(l))
    BY PassesAssumption, FS_Subset DEF ConsumedFrom
  <1> QED
    BY <1>1, FS_CardinalityType

LEMMA RevokedStays ==
  ASSUME RecordTypes, Grows, NEW l \in Lots, Exists(l), Revoked(l)
  PROVE  Revoked(l)'
  BY DEF Revoked, Grows

LEMMA PassesStayKept ==
  ASSUME RecordTypes, PublicationsArePaid, PassesAreKept, Grows, RecordStep
  PROVE  PassesAreKept'
  <1> DEFINE Used(l) == Cardinality(ConsumedFrom(l))
  <1>0. \A l \in Lots : Used(l) \in Nat /\ Quantity[l] \in Nat /\ Quantity[l] > 0 /\ remaining[l] \in Nat
    BY CountsAreNumbers, PassesAssumption DEF RecordTypes
  <1>a. \A l \in Lots :
          IF Exists(l) THEN remaining[l] + Used(l) = Quantity[l] \/ (Revoked(l) /\ Used(l) <= Quantity[l])
          ELSE remaining[l] = 0 /\ Used(l) = 0
    BY DEF PassesAreKept
  <1>b. SUFFICES ASSUME NEW l \in Lots
        PROVE IF Exists(l)'
                THEN remaining'[l] + Used(l)' = Quantity[l] \/ (Revoked(l)' /\ Used(l)' <= Quantity[l])
                ELSE remaining'[l] = 0 /\ Used(l)' = 0
    BY DEF PassesAreKept
  <1>c. Exists(l) /\ Revoked(l) => Revoked(l)'
    BY RevokedStays
  <1> HIDE DEF Used
  <1>d. CASE UNCHANGED consumed /\ remaining'[l] = remaining[l] /\ created'[l] = created[l]
    <2>1. Used(l)' = Used(l) /\ (Exists(l)' <=> Exists(l))
      BY <1>d DEF Used, ConsumedFrom, Exists
    <2> QED
      BY <2>1, <1>a, <1>c, <1>d
  <1>1. CASE LotAppears
    <2>1. PICK m \in Lots : ~Exists(m) /\ CreateLotIfAbsent(m)
      BY <1>1 DEF LotAppears
    <2>2. UNCHANGED consumed
      BY <1>1 DEF LotAppears
    <2>3. CASE m = l
      <3>1. remaining'[l] = Quantity[l] /\ created'[l] = 1 + Cardinality({x \in Lots : Exists(x)})
        BY <2>1, <2>3 DEF CreateLotIfAbsent, RecordTypes
      <3>2. Exists(l)'
        <4>1. Cardinality({x \in Lots : Exists(x)}) \in Nat
          BY LotsAreFinite
        <4> QED
          BY <3>1, <4>1 DEF Exists
      <3>3. Used(l)' = 0
        BY <2>1, <2>2, <2>3, <1>a DEF Used, ConsumedFrom
      <3> QED
        BY <3>1, <3>2, <3>3, <1>0
    <2>4. CASE m # l
      BY <2>1, <2>2, <2>4, <1>d DEF CreateLotIfAbsent, RecordTypes
    <2> QED
      BY <2>3, <2>4
  <1>2. CASE LotEmpties
    <2>1. PICK m \in Intents :
            /\ Exists(m) /\ remaining' = [remaining EXCEPT ![m] = 0]
            /\ \E e \in Events : e.type # "completed" /\ ~e.partial /\ e.intent = m /\ Claimed(e)
      BY <1>2 DEF LotEmpties
    <2>2. UNCHANGED <<created, consumed, events>>
      BY <1>2 DEF LotEmpties
    <2>3. CASE m = l
      <3>1. Used(l)' = Used(l) /\ Exists(l)' /\ Exists(l)
        BY <2>1, <2>2, <2>3 DEF Used, ConsumedFrom, Exists
      <3>2. Revoked(l)'
        BY <2>1, <2>2, <2>3 DEF Revoked, Claimed, RecordTypes
      <3> QED
        BY <3>1, <3>2, <1>a, <1>0
    <2>4. CASE m # l
      BY <2>1, <2>2, <2>4, <1>d DEF RecordTypes
    <2> QED
      BY <2>3, <2>4
  <1>3. CASE ArenaPays
    <2>1. PICK m \in Lots :
            /\ Exists(m) /\ remaining[m] > 0 /\ remaining' = [remaining EXCEPT ![m] = @ - 1]
            /\ Used(m)' = Used(m) + 1
            /\ \A x \in Lots : x # m => ConsumedFrom(x)' = ConsumedFrom(x)
      BY <1>3, ConsumptionCounts DEF Used
    <2>2. Exists(l)' <=> Exists(l)
      BY <1>3 DEF ArenaPays, Exists
    <2>3. CASE m = l
      BY <2>1, <2>2, <2>3, <1>0, <1>a DEF Revoked, RecordTypes
    <2>4. CASE m # l
      <3>1. Used(l)' = Used(l) /\ remaining'[l] = remaining[l]
        BY <2>1, <2>4 DEF Used, RecordTypes
      <3> QED
        BY <3>1, <2>2, <1>a, <1>c
    <2> QED
      BY <2>3, <2>4
  <1>4. CASE EventMoves \/ IntentMoves \/ RefundLands \/ ArenaMoves \/ UNCHANGED recordVars
    BY <1>4, <1>d DEF EventMoves, IntentMoves, RefundLands, ArenaMoves, recordVars
  <1> QED
    BY <1>1, <1>2, <1>3, <1>4 DEF RecordStep

LEMMA PublicationsStayPaid ==
  ASSUME RecordTypes, PublicationsArePaid, RecordStep
  PROVE  PublicationsArePaid'
  <1> USE DEF RecordTypes
  <1>1. CASE ArenaPays
    BY <1>1, PassesAssumption DEF ArenaPays, PublicationsArePaid
  <1>2. CASE ArenaMoves
    BY <1>2 DEF ArenaMoves, PublicationsArePaid
  <1>3. CASE UNCHANGED <<arenas, consumed>>
    BY <1>3 DEF PublicationsArePaid
  <1> QED
    BY <1>1, <1>2, <1>3 DEF RecordStep, EventMoves, IntentMoves, LotAppears, LotEmpties,
                            RefundLands, recordVars

LEMMA GrantsStayPaid ==
  ASSUME RecordTypes, GrantsArePaid, Grows, RecordStep
  PROVE  GrantsArePaid'
  <1> SUFFICES ASSUME NEW i \in Intents
      PROVE /\ Exists(i)' => \E e \in Events : e.type = "completed" /\ e.intent = i /\ Claimed(e)'
            /\ intents'[i] = "paid" => Exists(i)'
    BY DEF GrantsArePaid
  <1>0. i \in Lots
    BY DEF Lots
  <1>1. Exists(i)' => Exists(i) \/ \E e \in Events : e.type = "completed" /\ e.intent = i /\ Claimed(e)
    <2>1. CASE LotAppears
      BY <2>1, <1>0 DEF LotAppears, CreateLotIfAbsent, Exists, RecordTypes
    <2>2. CASE UNCHANGED created
      BY <2>2 DEF Exists
    <2> QED
      BY <2>1, <2>2 DEF RecordStep, EventMoves, IntentMoves, LotEmpties, RefundLands, ArenaMoves,
                        ArenaPays, recordVars
  <1>2. intents'[i] = "paid" => Exists(i)
    <2>1. CASE IntentMoves
      BY <2>1 DEF IntentMoves, GrantsArePaid, RecordTypes
    <2>2. CASE UNCHANGED intents
      BY <2>2 DEF GrantsArePaid
    <2> QED
      BY <2>1, <2>2 DEF RecordStep, EventMoves, LotAppears, LotEmpties, RefundLands, ArenaMoves,
                        ArenaPays, recordVars
  <1> QED
    BY <1>0, <1>1, <1>2 DEF GrantsArePaid, Grows

LEMMA RevocationsStay ==
  ASSUME RecordTypes, RevocationsAreWhole, RevocationsExist, Grows, RecordStep
  PROVE  RevocationsAreWhole' /\ RevocationsExist'
  <1> SUFFICES ASSUME NEW r \in Refunds, journal'[r] # NoEntry, journal'[r].revoked > 0
      PROVE remaining'[journal'[r].intent] = 0 /\ created'[journal'[r].intent] > 0
    BY DEF RevocationsAreWhole, RevocationsExist, Exists
  <1>1. /\ journal'[r] \in JournalRows
        /\ Exists(journal'[r].intent) /\ remaining[journal'[r].intent] = 0
    <2>1. CASE RefundLands
      <3>1. PICK q \in Refunds, row \in JournalRows :
              /\ journal[q] = NoEntry /\ journal' = [journal EXCEPT ![q] = row]
              /\ row.revoked > 0 => Exists(row.intent) /\ remaining[row.intent] = 0
        BY <2>1 DEF RefundLands
      <3> QED
        BY <3>1 DEF RevocationsAreWhole, RevocationsExist, RecordTypes
    <2>2. CASE UNCHANGED journal
      BY <2>2 DEF RevocationsAreWhole, RevocationsExist, RecordTypes
    <2> QED
      BY <2>1, <2>2 DEF RecordStep, EventMoves, IntentMoves, LotAppears, LotEmpties, ArenaMoves,
                        ArenaPays, recordVars
  <1>2. journal'[r].intent \in Lots
    BY <1>1 DEF JournalRows, Lots
  <1>3. PICK m \in Lots : m = journal'[r].intent
    BY <1>2
  <1>4. Exists(m) /\ remaining[m] = 0
    BY <1>1, <1>3
  <1>5. created'[m] > 0 /\ remaining'[m] = 0
    BY <1>4 DEF Grows, Exists
  <1> QED
    BY <1>3, <1>5 DEF Exists

LEMMA RecordStepOK ==
  ASSUME TypeOK, PassesAreAccounted, RevocationsExist, RecordStep
  PROVE  RecordTypes' /\ PassesAreAccounted' /\ RevocationsExist' /\ Grows
  <1>1. RecordTypes
    BY TypesSplit
  <1>2. PassesAreKept /\ PublicationsArePaid /\ GrantsArePaid /\ RevocationsAreWhole
    BY DEF PassesAreAccounted
  <1>3. Grows
    BY <1>1, <1>2, RecordsGrow
  <1> QED
    BY <1>1, <1>2, <1>3, RecordsTyped, PassesStayKept, PublicationsStayPaid, GrantsStayPaid,
       RevocationsStay DEF PassesAreAccounted
-----------------------------------------------------------------------------
(***************************************************************************)
(* What a session in progress is about.                                    *)
(***************************************************************************)
LEMMA DeliveryFacts ==
  ASSUME IInv, NEW s \in Sessions, pc[s] \in Delivering
  PROVE  /\ call[s] \in Deliveries /\ told[s] = "nothing"
         /\ Event(s) \in Events /\ events[Event(s)] # "absent"
         /\ Intent(s) \in Intents /\ Intent(s) \in Lots
         /\ Event(s).type # "completed" => Refund(s) \in Refunds /\ Event(s).partial \in BOOLEAN
  <1>1. call[s] \in Deliveries /\ told[s] = "nothing" /\ events[Event(s)] # "absent"
    BY DEF IInv, Knows, CallFits, DeliveryKnows, Delivering, Handling
  <1>2. Event(s) \in Events
    BY <1>1, CallFields DEF Event
  <1> QED
    BY <1>1, <1>2, EventFields DEF Intent, Refund, Lots

LEMMA PublicationFacts ==
  ASSUME IInv, NEW s \in Sessions, pc[s] \in Publishing
  PROVE  call[s] \in Publications /\ told[s] = "nothing" /\ Arena(s) \in Arenas
  <1>1. call[s] \in Publications /\ told[s] = "nothing"
    BY DEF IInv, Knows, CallFits, Publishing
  <1> QED
    BY <1>1, CallFields DEF Arena

\* The conjuncts of the invariant, one by one.
LEMMA IInvParts ==
  ASSUME IInv
  PROVE  /\ RecordTypes /\ LockTypes /\ SessionTypes /\ ReadTypes /\ WorldTypes
         /\ PassesAreKept /\ PublicationsArePaid /\ GrantsArePaid /\ RevocationsAreWhole
         /\ LotsAreHeld /\ KeysAreHeld /\ CommitsAreReady
         /\ \A s \in Sessions :
              CallFits(s) /\ DeliveryKnows(s) /\ PublicationKnows(s) /\ IsTrue(s)
  BY TypesSplit DEF IInv, PassesAreAccounted, Locks, Knows

LEMMA LotsExist ==
  ASSUME IInv
  PROVE  \A l \in Lots : remaining[l] # 0 => Exists(l)
  BY IInvParts DEF PassesAreKept

\* What a committing publication holds.
LEMMA CommitFacts ==
  ASSUME IInv, NEW s \in Sessions, pc[s] = "commit"
  PROVE  /\ Candidates(s) = {} => consumed[Arena(s)] # NoLot
         /\ Candidates(s) # {} => keyLock[Arena(s)] = s /\ consumed[Arena(s)] = NoLot
         /\ \A l \in Candidates(s) : l \in Lots /\ Exists(l) /\ remaining[l] > 0
                               /\ AccountOf[l] = AccountOf[Arena(s)]
  <1>1. s # NoSession /\ Arena(s) \in Arenas
    BY PassesAssumption, PublicationFacts DEF Publishing
  <1> QED
    BY <1>1, IInvParts DEF CommitsAreReady, KeysAreHeld, LotsAreHeld, Candidates, Locked

LEMMA DeliveriesRecord ==
  ASSUME IInv, NEW s \in Sessions, Delivery(s)
  PROVE  RecordStep
  <1>0. RecordTypes /\ GrantsArePaid /\ CallFits(s) /\ DeliveryKnows(s)
    BY IInvParts
  <1>a. pc[s] \in Delivering =>
          /\ Event(s) \in Events /\ events[Event(s)] # "absent"
          /\ Intent(s) \in Intents /\ Intent(s) \in Lots
          /\ Event(s).type # "completed" => Refund(s) \in Refunds /\ Event(s).partial \in BOOLEAN
    BY DeliveryFacts
  <1> USE DEF RecordStep, recordVars, billingVars, lotVars, arenaVars
  <1>1. ASSUME NEW e \in Events, InsertEvent(s, e) PROVE RecordStep
    BY <1>1 DEF InsertEvent, EventMoves, Statuses
  <1>2. CASE ClaimEvent(s)
    BY <1>2, <1>a DEF ClaimEvent, EventMoves, Statuses, Delivering
  <1>3. CASE ResolveEvent(s)
    BY <1>3 DEF ResolveEvent
  <1>4. CASE BumpEvent(s)
    BY <1>4, <1>a DEF BumpEvent, EventMoves, Statuses, Delivering
  <1>5. CASE GetIntentToSettle(s)
    BY <1>5 DEF GetIntentToSettle
  <1>6. CASE GrantPassLot(s)
    <2>1. Event(s).type = "completed" /\ Claimed(Event(s))
      BY <1>0, <1>6 DEF GrantPassLot, CallFits, DeliveryKnows, Settling, Handling
    <2>2. CASE Exists(Intent(s))
      BY <1>6, <2>2 DEF GrantPassLot, CreateLotIfAbsent
    <2>3. CASE ~Exists(Intent(s))
      <3>1. Event(s) \in Events /\ Intent(s) \in Lots
        BY <1>6, <1>a DEF GrantPassLot, Delivering, Handling
      <3>2. LotAppears
        BY <1>6, <2>1, <2>3, <3>1 DEF GrantPassLot, LotAppears, Intent
      <3> QED
        BY <3>2
    <2> QED
      BY <2>2, <2>3
  <1>7. CASE MarkCheckoutIntentPaid(s)
    <2>1. Intent(s) \in Intents /\ Exists(Intent(s))
      BY <1>0, <1>a, <1>7 DEF MarkCheckoutIntentPaid, DeliveryKnows, Delivering, Handling
    <2>2. CASE intents[Intent(s)] = "open"
      BY <1>7, <2>1, <2>2 DEF MarkCheckoutIntentPaid, IntentMoves
    <2>3. CASE intents[Intent(s)] # "open"
      BY <1>0, <1>7, <2>1, <2>3 DEF MarkCheckoutIntentPaid, RecordTypes
    <2> QED
      BY <2>2, <2>3
  <1>8. CASE GetIntentToRefund(s)
    BY <1>8 DEF GetIntentToRefund
  <1>9. CASE AssessPasses(s)
    BY <1>9 DEF AssessPasses
  <1>10. CASE ReportRemaining(s)
    BY <1>10 DEF ReportRemaining
  <1>11. CASE ZeroPassLotRemaining(s)
    <2>1. Event(s) \in Events /\ Intent(s) \in Intents
      BY <1>11, <1>a DEF ZeroPassLotRemaining, Delivering, Handling
    <2>2. /\ Event(s).type # "completed" /\ ~Event(s).partial
          /\ Claimed(Event(s)) /\ Exists(Intent(s))
      BY <1>0, <1>11 DEF ZeroPassLotRemaining, CallFits, DeliveryKnows, Refunding, Handling
    <2>3. LotEmpties
      BY <1>11, <2>1, <2>2 DEF ZeroPassLotRemaining, LotEmpties, Intent
    <2> QED
      BY <2>3
  <1>12. CASE RecordRefund(s)
    <2>1. /\ Refund(s) \in Refunds /\ Intent(s) \in Intents
          /\ entry[s].revoked > 0 => Exists(Intent(s)) /\ remaining[Intent(s)] = 0
      BY <1>0, <1>12, <1>a DEF RecordRefund, CallFits, DeliveryKnows, Delivering, Refunding, Handling
    <2>2. PICK row : row = [intent |-> Intent(s), revoked |-> entry[s].revoked,
                            review |-> entry[s].review]
      OBVIOUS
    <2>3. entry[s] \in [revoked : Nat, review : BOOLEAN]
      BY IInvParts DEF ReadTypes
    <2>4. row \in JournalRows /\ row.intent = Intent(s) /\ row.revoked = entry[s].revoked
      BY <2>1, <2>2, <2>3 DEF JournalRows
    <2>5. CASE journal[Refund(s)] = NoEntry
      <3>1. journal' = [journal EXCEPT ![Refund(s)] = row]
        BY <1>12, <2>2, <2>5 DEF RecordRefund
      <3> QED
        BY <1>12, <2>1, <2>4, <2>5, <3>1 DEF RecordRefund, RefundLands
    <2>6. CASE journal[Refund(s)] # NoEntry
      BY <1>12, <2>6 DEF RecordRefund
    <2> QED
      BY <2>5, <2>6
  <1>13. CASE MarkProcessed(s)
    BY <1>13, <1>a DEF MarkProcessed, EventMoves, Statuses, Delivering, Handling
  <1>14. CASE MarkFailed(s)
    BY <1>14, <1>a DEF MarkFailed, EventMoves, Statuses, Delivering
  <1>15. CASE FailStatement(s)
    BY <1>15 DEF FailStatement
  <1>16. CASE Crash(s)
    BY <1>16 DEF Crash
  <1> QED
    BY <1>1, <1>2, <1>3, <1>4, <1>5, <1>6, <1>7, <1>8, <1>9, <1>10, <1>11, <1>12, <1>13, <1>14,
       <1>15, <1>16 DEF Delivery

LEMMA PublicationsRecord ==
  ASSUME IInv, NEW s \in Sessions, Publication(s)
  PROVE  RecordStep
  <1> USE DEF RecordStep, recordVars, billingVars, lotVars, arenaVars
  <1>1. ASSUME NEW a \in Arenas, ReadArena(s, a) \/ ReplyAtOnce(s, a) PROVE RecordStep
    BY <1>1 DEF ReadArena, ReplyAtOnce
  <1>2. CASE FindConsumption(s) \/ ListAvailablePassLots(s) \/ LockLot(s) \/ FindAgain(s)
    BY <1>2 DEF FindConsumption, ListAvailablePassLots, LockLot, FindAgain
  <1>3. CASE ConsumeArenaPassLot(s)
    BY <1>3 DEF ConsumeArenaPassLot
  <1>4. CASE PublishArenaDraft(s)
    <2>1. pc[s] = "commit" /\ Arena(s) \in Arenas
      BY <1>4, PublicationFacts DEF PublishArenaDraft, Publishing
    <2>2. CASE arenas[Arena(s)] = "draft" /\ version[Arena(s)] = seen[s]
      <3>1. Candidates(s) # {}
        <4>1. consumed[Arena(s)] = NoLot
          BY <2>1, <2>2, IInvParts DEF PublicationsArePaid
        <4> QED
          BY <2>1, <4>1, CommitFacts
      <3>2. PICK l \in Lots : /\ l \in Candidates(s)
                              /\ remaining' = [remaining EXCEPT ![l] = @ - 1]
                              /\ consumed' = [consumed EXCEPT ![Arena(s)] = l]
        BY <1>4, <2>2, <3>1 DEF PublishArenaDraft, Consumes, IsFirst
      <3>3. Exists(l) /\ remaining[l] > 0 /\ AccountOf[l] = AccountOf[Arena(s)]
        BY <2>1, <3>2, CommitFacts
      <3> QED
        BY <1>4, <2>1, <2>2, <3>2, <3>3 DEF PublishArenaDraft, ArenaPays
    <2>3. CASE ~(arenas[Arena(s)] = "draft" /\ version[Arena(s)] = seen[s])
      BY <1>4, <2>3 DEF PublishArenaDraft
    <2> QED
      BY <2>2, <2>3
  <1> QED
    BY <1>1, <1>2, <1>3, <1>4 DEF Publication

LEMMA MeanwhileRecords ==
  ASSUME IInv, Meanwhile
  PROVE  RecordStep
  <1> USE DEF RecordStep, recordVars, billingVars, lotVars, arenaVars
  <1>1. ASSUME NEW i \in Intents, NEW status \in {"open", "expired"}, RecordCheckoutIntent(i, status)
        PROVE RecordStep
    BY <1>1 DEF RecordCheckoutIntent, IntentMoves
  <1>2. ASSUME NEW l \in Grants, GrantLot(l) PROVE RecordStep
    BY <1>2, PassesAssumption DEF GrantLot, LotAppears, Lots
  <1>3. ASSUME NEW a \in Arenas, EditArena(a) PROVE RecordStep
    BY <1>3 DEF EditArena, ArenaMoves
  <1>4. CASE Tick
    BY <1>4 DEF Tick
  <1> QED
    BY <1>1, <1>2, <1>3, <1>4 DEF Meanwhile
-----------------------------------------------------------------------------
(***************************************************************************)
(* The types of the rest, and what a step leaves to the other sessions.    *)
(***************************************************************************)
OtherTypes == LockTypes /\ SessionTypes /\ ReadTypes /\ WorldTypes

Keeps(t) ==
  /\ pc'[t] = pc[t] /\ call'[t] = call[t] /\ told'[t] = told[t]
  /\ entry'[t] = entry[t] /\ seen'[t] = seen[t] /\ rows'[t] = rows[t]

OthersKeep(s) == \A t \in Sessions \ {s} : Keeps(t)

LEMMA MovesAreTyped ==
  ASSUME SessionTypes, NEW s \in Sessions,
         \/ \E stage \in Stages : Goes(s, stage)
         \/ \E answer \in Tellings : Ends(s, answer)
         \/ \E stage \in Stages, c \in Deliveries \cup Publications : Begins(s, c, stage)
  PROVE  /\ SessionTypes'
         /\ \A t \in Sessions \ {s} : pc'[t] = pc[t] /\ call'[t] = call[t] /\ told'[t] = told[t]
  BY DEF SessionTypes, Goes, Ends, Begins, Stages, Tellings

LEMMA ReadsKept ==
  ASSUME ReadTypes, UNCHANGED readVars
  PROVE  /\ ReadTypes'
         /\ \A t \in Sessions : entry'[t] = entry[t] /\ seen'[t] = seen[t] /\ rows'[t] = rows[t]
  BY DEF ReadTypes, readVars

LEMMA LocksTyped ==
  ASSUME LockTypes, UNCHANGED lockVars \/ \E s \in Sessions : Releases(s)
  PROVE  LockTypes'
  BY DEF LockTypes, lockVars, Releases

LEMMA CallsAreTyped ==
  /\ \A e \in Events : [kind |-> "deliver", event |-> e] \in Deliveries \cup Publications
  /\ \A a \in Arenas : [kind |-> "publish", arena |-> a] \in Deliveries \cup Publications
  BY DEF Deliveries, Publications

LEMMA DeliveriesTyped ==
  ASSUME IInv, NEW s \in Sessions, Delivery(s)
  PROVE  OtherTypes' /\ OthersKeep(s)
  <1> DEFINE Moved == \/ \E stage \in Stages : Goes(s, stage)
                      \/ \E answer \in Tellings : Ends(s, answer)
                      \/ \E stage \in Stages, c \in Deliveries \cup Publications :
                           Begins(s, c, stage)
  <1>0. LockTypes /\ SessionTypes /\ ReadTypes /\ WorldTypes
    BY IInvParts
  <1>a. ASSUME Moved, UNCHANGED lockVars \/ Releases(s), UNCHANGED readVars, WorldTypes'
        PROVE  OtherTypes' /\ OthersKeep(s)
    BY <1>0, <1>a, MovesAreTyped, ReadsKept, LocksTyped DEF OtherTypes, OthersKeep, Keeps
  <1>b. UNCHANGED worldVars => WorldTypes'
    BY <1>0 DEF WorldTypes, worldVars
  <1>c. {"error", "busy", "acknowledged", "handled", "nothing"} \subseteq Tellings
    BY DEF Tellings
  <1>d. Handling \cup {"claim", "resolve", "bump", "fail"} \subseteq Stages
    BY DEF Handling, Stages
  <1>1. ASSUME NEW e \in Events, InsertEvent(s, e) PROVE OtherTypes' /\ OthersKeep(s)
    BY <1>1, <1>a, <1>b, <1>d, CallsAreTyped DEF InsertEvent
  <1>2. CASE ClaimEvent(s)
    <2>1. Moved
      BY <1>2, <1>c, <1>d DEF ClaimEvent, Handling
    <2> QED
      BY <1>2, <1>a, <1>b, <2>1 DEF ClaimEvent
  <1>3. CASE ResolveEvent(s)
    <2>1. Moved
      BY <1>3, <1>c, <1>d DEF ResolveEvent
    <2> QED
      BY <1>3, <1>a, <1>b, <2>1 DEF ResolveEvent
  <1>4. CASE BumpEvent(s)
    <2>1. Moved
      BY <1>4, <1>c DEF BumpEvent
    <2> QED
      BY <1>4, <1>a, <1>b, <2>1 DEF BumpEvent
  <1>5. CASE GetIntentToSettle(s)
    <2>1. Moved
      BY <1>5, <1>d DEF GetIntentToSettle, Handling
    <2> QED
      BY <1>5, <1>a, <1>b, <2>1 DEF GetIntentToSettle
  <1>6. CASE GrantPassLot(s) \/ MarkCheckoutIntentPaid(s) \/ ZeroPassLotRemaining(s) \/ RecordRefund(s)
    <2>1. Moved
      BY <1>6, <1>d
      DEF GrantPassLot, MarkCheckoutIntentPaid, ZeroPassLotRemaining, RecordRefund, Handling
    <2> QED
      BY <1>6, <1>a, <1>b, <2>1
      DEF GrantPassLot, MarkCheckoutIntentPaid, ZeroPassLotRemaining, RecordRefund
  <1>7. CASE GetIntentToRefund(s)
    <2>1. Moved
      BY <1>7, <1>d DEF GetIntentToRefund, Handling
    <2> QED
      BY <1>7, <1>a, <1>b, <2>1 DEF GetIntentToRefund
  <1>8. CASE AssessPasses(s) \/ ReportRemaining(s)
    <2>1. Moved
      BY <1>8, <1>d DEF AssessPasses, ReportRemaining, Handling
    <2>2. PICK e \in [revoked : Nat, review : BOOLEAN] :
            entry' = [entry EXCEPT ![s] = e]
      <3>1. CASE AssessPasses(s)
        <4>1. (~Exists(Intent(s)) \/ NeedsReview(s, remaining[Intent(s)])) \in BOOLEAN
          BY <1>0, <3>1 DEF NeedsReview
        <4> QED
          BY <3>1, <4>1 DEF AssessPasses
      <3>2. CASE ReportRemaining(s)
        <4>1. entry[s] \in [revoked : Nat, review : BOOLEAN] /\ remaining[Intent(s)] \in Nat
          BY <1>0, <3>2, DeliveryFacts, IInvParts
          DEF ReportRemaining, ReadTypes, RecordTypes, Delivering, Handling
        <4>2. entry' = [entry EXCEPT ![s] = [entry[s] EXCEPT !.revoked = remaining[Intent(s)]]]
          BY <1>0, <3>2 DEF ReportRemaining, ReadTypes
        <4> QED
          BY <4>1, <4>2
      <3> QED
        BY <1>8, <3>1, <3>2
    <2>3. ReadTypes' /\ \A t \in Sessions \ {s} :
                          entry'[t] = entry[t] /\ seen'[t] = seen[t] /\ rows'[t] = rows[t]
      BY <1>0, <1>8, <2>2 DEF AssessPasses, ReportRemaining, ReadTypes
    <2> QED
      BY <1>0, <1>8, <1>b, <2>1, <2>3, MovesAreTyped, LocksTyped
      DEF AssessPasses, ReportRemaining, OtherTypes, OthersKeep, Keeps
  <1>9. CASE MarkProcessed(s)
    <2>1. Moved
      BY <1>9, <1>c DEF MarkProcessed
    <2> QED
      BY <1>9, <1>a, <1>b, <2>1 DEF MarkProcessed
  <1>10. CASE MarkFailed(s)
    <2>1. Moved
      BY <1>10, <1>c DEF MarkFailed
    <2> QED
      BY <1>10, <1>a, <1>b, <2>1 DEF MarkFailed
  <1>11. CASE FailStatement(s)
    <2>1. Moved /\ WorldTypes'
      BY <1>0, <1>11, <1>d DEF FailStatement, WorldTypes
    <2> QED
      BY <1>11, <1>a, <2>1 DEF FailStatement
  <1>12. CASE Crash(s)
    <2>1. Moved /\ WorldTypes'
      BY <1>0, <1>12, <1>c DEF Crash, WorldTypes
    <2> QED
      BY <1>12, <1>a, <2>1 DEF Crash
  <1> QED
    BY <1>1, <1>2, <1>3, <1>4, <1>5, <1>6, <1>7, <1>8, <1>9, <1>10, <1>11, <1>12 DEF Delivery

LEMMA PublicationsTyped ==
  ASSUME IInv, NEW s \in Sessions, Publication(s)
  PROVE  OtherTypes' /\ OthersKeep(s)
  <1> DEFINE Moved == \/ \E stage \in Stages : Goes(s, stage)
                      \/ \E answer \in Tellings : Ends(s, answer)
                      \/ \E stage \in Stages, c \in Deliveries \cup Publications :
                           Begins(s, c, stage)
  <1>0. LockTypes /\ SessionTypes /\ ReadTypes /\ WorldTypes
    BY IInvParts
  <1>a. ASSUME Moved, LockTypes', UNCHANGED worldVars,
               ReadTypes', \A t \in Sessions \ {s} :
                 entry'[t] = entry[t] /\ seen'[t] = seen[t] /\ rows'[t] = rows[t]
        PROVE  OtherTypes' /\ OthersKeep(s)
    BY <1>0, <1>a, MovesAreTyped DEF OtherTypes, OthersKeep, Keeps, WorldTypes, worldVars
  <1>b. {"unavailable", "consumed", "published", "conflict", "error"} \subseteq Tellings
    BY DEF Tellings
  <1>c. Publishing \subseteq Stages
    BY DEF Publishing, Stages
  <1>d. UNCHANGED lockVars => LockTypes'
    BY <1>0 DEF LockTypes, lockVars
  <1>1. ASSUME NEW a \in Arenas, ReadArena(s, a) PROVE OtherTypes' /\ OthersKeep(s)
    <2>1. Moved
      BY <1>1, <1>c, CallsAreTyped DEF ReadArena, Publishing
    <2>2. version[a] \in Nat
      BY IInvParts DEF RecordTypes
    <2>3. ReadTypes' /\ \A t \in Sessions \ {s} :
                          entry'[t] = entry[t] /\ seen'[t] = seen[t] /\ rows'[t] = rows[t]
      BY <1>0, <1>1, <2>2 DEF ReadArena, ReadTypes
    <2> QED
      BY <1>1, <1>a, <1>d, <2>1, <2>3 DEF ReadArena
  <1>2. ASSUME NEW a \in Arenas, ReplyAtOnce(s, a) PROVE OtherTypes' /\ OthersKeep(s)
    <2>1. SessionTypes' /\ \A t \in Sessions \ {s} :
                             pc'[t] = pc[t] /\ call'[t] = call[t] /\ told'[t] = told[t]
      <3>1. [kind |-> "publish", arena |-> a] \in Deliveries \cup Publications
        BY CallsAreTyped
      <3> QED
        BY <1>0, <1>2, <3>1, <1>b DEF ReplyAtOnce, SessionTypes
    <2> QED
      BY <1>0, <1>2, <1>d, <2>1, ReadsKept
      DEF ReplyAtOnce, OtherTypes, OthersKeep, Keeps, WorldTypes, worldVars
  <1>3. CASE FindConsumption(s)
    <2>1. Moved
      BY <1>3, <1>c DEF FindConsumption, Publishing
    <2>2. ReadTypes' /\ \A t \in Sessions \ {s} :
                          entry'[t] = entry[t] /\ seen'[t] = seen[t] /\ rows'[t] = rows[t]
      BY <1>0, <1>3 DEF FindConsumption, ReadTypes, WorldTypes
    <2> QED
      BY <1>3, <1>a, <1>d, <2>1, <2>2 DEF FindConsumption
  <1>4. CASE ListAvailablePassLots(s)
    <2>1. Moved
      BY <1>4, <1>c DEF ListAvailablePassLots, Publishing
    <2>2. ReadTypes' /\ \A t \in Sessions \ {s} :
                          entry'[t] = entry[t] /\ seen'[t] = seen[t] /\ rows'[t] = rows[t]
      BY <1>0, <1>4 DEF ListAvailablePassLots, ReadTypes
    <2> QED
      BY <1>4, <1>a, <1>d, <2>1, <2>2 DEF ListAvailablePassLots
  <1>5. CASE LockLot(s)
    <2>1. ReadTypes' /\ LockTypes'
      BY <1>0, <1>5 DEF LockLot, ReadTypes, LockTypes
    <2>2. OthersKeep(s)
      BY <1>0, <1>5 DEF LockLot, OthersKeep, Keeps, ReadTypes
    <2> QED
      BY <1>0, <1>5, <2>1, <2>2 DEF LockLot, OtherTypes, SessionTypes, WorldTypes, worldVars
  <1>6. CASE FindAgain(s)
    <2>1. Moved
      BY <1>6, <1>b, <1>c DEF FindAgain, Publishing
    <2>2. LockTypes'
      BY <1>6, <1>0, <1>d, LocksTyped DEF FindAgain
    <2> QED
      BY <1>0, <1>6, <1>a, <2>1, <2>2, ReadsKept DEF FindAgain
  <1>7. CASE ConsumeArenaPassLot(s)
    <2>1. Moved
      BY <1>7, <1>b, <1>c DEF ConsumeArenaPassLot, Publishing
    <2>2. LockTypes'
      <3>1. CASE Releases(s)
        BY <1>0, <3>1, LocksTyped
      <3>2. CASE keyLock' = [keyLock EXCEPT ![Arena(s)] = s] /\ UNCHANGED lotLock
        BY <1>0, <3>2 DEF LockTypes
      <3> QED
        BY <1>7, <3>1, <3>2 DEF ConsumeArenaPassLot
    <2> QED
      BY <1>0, <1>7, <1>a, <2>1, <2>2, ReadsKept DEF ConsumeArenaPassLot
  <1>8. CASE PublishArenaDraft(s)
    <2>1. Moved
      BY <1>8, <1>b DEF PublishArenaDraft
    <2> QED
      BY <1>0, <1>8, <1>a, <2>1, ReadsKept, LocksTyped DEF PublishArenaDraft
  <1> QED
    BY <1>1, <1>2, <1>3, <1>4, <1>5, <1>6, <1>7, <1>8 DEF Publication

LEMMA MeanwhileTyped ==
  ASSUME IInv, Meanwhile
  PROVE  OtherTypes' /\ \A t \in Sessions : Keeps(t)
  <1>0. LockTypes /\ SessionTypes /\ ReadTypes /\ WorldTypes
    BY IInvParts
  <1>1. UNCHANGED <<lockVars, pc, call, told, readVars>> /\ WorldTypes'
    BY <1>0 DEF Meanwhile, RecordCheckoutIntent, GrantLot, EditArena, Tick, WorldTypes, worldVars
  <1> QED
    BY <1>0, <1>1, ReadsKept, LocksTyped DEF OtherTypes, SessionTypes, Keeps, readVars
-----------------------------------------------------------------------------
(***************************************************************************)
(* What a session knows stays true.                                        *)
(***************************************************************************)
LEMMA KnowledgeStays ==
  ASSUME RecordTypes, RecordTypes', ReadTypes, Grows, NEW t \in Sessions, Knows(t), Keeps(t)
  PROVE  Knows(t)'
  <1> USE DEF Keeps, Event, Intent, Refund, Arena
  <1>1. CallFits(t)'
    BY DEF Knows, CallFits
  <1>2. pc[t] \in Delivering \/ told[t] \in {"handled", "acknowledged"} =>
          Event(t) \in Events /\ Intent(t) \in Intents /\ Intent(t) \in Lots
          /\ (Event(t).type # "completed" => Refund(t) \in Refunds)
    BY CallFields, EventFields DEF Knows, CallFits, Lots
  <1>3. pc[t] \in Publishing \/ told[t] \in {"published", "consumed", "conflict"} =>
          Arena(t) \in Arenas
    BY CallFields DEF Knows, CallFits
  <1>4. DeliveryKnows(t)'
    <2>1. pc[t] \in Delivering => events'[Event(t)] # "absent"
      BY <1>2 DEF Knows, DeliveryKnows, Grows
    <2>2. pc[t] \in Handling \cup {"fail"} => events'[Event(t)] \notin {"absent", "received"}
      BY <1>2 DEF Knows, DeliveryKnows, Grows, Claimed, Delivering
    <2>3. pc[t] \in {"grant", "pay"} => intents'[Intent(t)] # "absent"
      BY <1>2 DEF Knows, DeliveryKnows, Grows, Delivering, Handling
    <2>4. pc[t] \in {"pay", "report", "zero"} => created'[Intent(t)] > 0
      BY <1>2 DEF Knows, DeliveryKnows, Grows, Exists, Delivering, Handling
    <2>5. pc[t] = "record" /\ entry[t].revoked > 0 =>
            created'[Intent(t)] > 0 /\ remaining'[Intent(t)] = 0
      BY <1>2 DEF Knows, DeliveryKnows, Grows, Exists, Delivering, Handling
    <2>6. pc[t] = "succeed" =>
            IF Event(t).type = "completed"
              THEN \/ intents'[Intent(t)] = "expired"
                   \/ intents'[Intent(t)] = "paid" /\ created'[Intent(t)] > 0
              ELSE journal'[Refund(t)] # NoEntry
      BY <1>2 DEF Knows, DeliveryKnows, Grows, Exists, HasEffect, Delivering, Handling
    <2> QED
      BY <2>1, <2>2, <2>3, <2>4, <2>5, <2>6 DEF DeliveryKnows, Claimed, Exists, HasEffect
  <1>5. PublicationKnows(t)'
    <2>1. pc[t] \in Publishing =>
            /\ version'[Arena(t)] >= seen[t]
            /\ arenas'[Arena(t)] = "draft" \/ version'[Arena(t)] > seen[t]
      <3>1. ASSUME pc[t] \in Publishing
            PROVE  version'[Arena(t)] >= version[Arena(t)]
                   /\ (arenas'[Arena(t)] # arenas[Arena(t)] => version'[Arena(t)] > version[Arena(t)])
        BY <1>3, <3>1 DEF Grows
      <3>2. ASSUME pc[t] \in Publishing
            PROVE  version[Arena(t)] \in Int /\ version'[Arena(t)] \in Int /\ seen[t] \in Int
        BY <1>3, <3>2 DEF RecordTypes, ReadTypes
      <3> QED
        BY <3>1, <3>2 DEF Knows, PublicationKnows
    <2>2. pc[t] = "lock" => \A l \in rows[t] :
            created'[l] > 0 /\ AccountOf[l] = AccountOf[Arena(t)]
      BY DEF Knows, PublicationKnows, Grows, Exists, ReadTypes
    <2> QED
      BY <2>1, <2>2 DEF PublicationKnows, Exists
  <1>6. IsTrue(t)'
    <2>0. IsTrue(t) /\ told'[t] = told[t]
      BY DEF Knows
    <2>1. CASE told[t] = "handled"
      BY <1>2, <2>0, <2>1 DEF IsTrue, Grows, HasEffect, Exists
    <2>2. CASE told[t] = "acknowledged"
      BY <1>2, <2>0, <2>2 DEF IsTrue, Grows
    <2>3. CASE told[t] \in {"published", "consumed"}
      BY <1>3, <2>0, <2>3 DEF IsTrue, Grows
    <2>4. CASE told[t] = "conflict"
      <3>1. version'[Arena(t)] >= version[Arena(t)] /\ version[Arena(t)] > seen[t]
        BY <1>3, <2>0, <2>4 DEF IsTrue, Grows
      <3>2. version[Arena(t)] \in Int /\ version'[Arena(t)] \in Int /\ seen[t] \in Int
        BY <1>3, <2>4 DEF RecordTypes, ReadTypes
      <3> QED
        BY <2>0, <2>4, <3>1, <3>2 DEF IsTrue
    <2>5. CASE told[t] \notin {"handled", "acknowledged", "published", "consumed", "conflict"}
      BY <2>0, <2>5 DEF IsTrue
    <2> QED
      BY <2>1, <2>2, <2>3, <2>4, <2>5
  <1> QED
    BY <1>1, <1>4, <1>5, <1>6 DEF Knows

\* A call that ended in an answer that promises nothing.
LEMMA NothingKnown ==
  ASSUME NEW s \in Sessions, pc'[s] = "idle",
         told'[s] \in {"nothing", "error", "busy", "unavailable"}
  PROVE  Knows(s)'
  BY DEF Knows, CallFits, DeliveryKnows, PublicationKnows, IsTrue, Delivering, Handling,
         Publishing, Settling, Refunding

\* A delivery that goes on.
LEMMA DeliveryGoesOn ==
  ASSUME NEW s \in Sessions, call'[s] \in Deliveries, told'[s] = "nothing",
         pc'[s] \in Delivering, DeliveryKnows(s)',
         pc'[s] \in Settling => Event(s)'.type = "completed",
         pc'[s] \in Refunding => Event(s)'.type # "completed",
         pc'[s] \in {"report", "zero"} => ~Event(s)'.partial
  PROVE  Knows(s)'
  BY DEF Knows, CallFits, PublicationKnows, IsTrue, Delivering, Handling, Publishing

\* A publication that goes on.
LEMMA PublicationGoesOn ==
  ASSUME NEW s \in Sessions, call'[s] \in Publications, told'[s] = "nothing",
         pc'[s] \in Publishing, PublicationKnows(s)'
  PROVE  Knows(s)'
  BY DEF Knows, CallFits, DeliveryKnows, IsTrue, Delivering, Handling, Publishing, Settling,
         Refunding

LEMMA DeliveryMovesOn ==
  ASSUME IInv, Grows, NEW s \in Sessions, pc[s] \in Delivering,
         NEW stage \in Handling \cup {"fail", "bump"}, Goes(s, stage),
         stage \in Settling => Event(s).type = "completed",
         stage \in Refunding => Event(s).type # "completed",
         stage \in {"report", "zero"} => ~Event(s).partial,
         stage # "bump" => events'[Event(s)] \notin {"absent", "received"},
         stage \in {"grant", "pay"} => intents[Intent(s)] # "absent",
         stage \in {"pay", "report", "zero"} => created'[Intent(s)] > 0,
         stage = "record" /\ entry'[s].revoked > 0 =>
           created'[Intent(s)] > 0 /\ remaining'[Intent(s)] = 0,
         stage = "succeed" =>
           IF Event(s).type = "completed"
             THEN \/ intents'[Intent(s)] = "expired"
                  \/ intents'[Intent(s)] = "paid" /\ created'[Intent(s)] > 0
             ELSE journal'[Refund(s)] # NoEntry
  PROVE  Knows(s)'
  <1>1. /\ call[s] \in Deliveries /\ told[s] = "nothing" /\ Event(s) \in Events
        /\ events[Event(s)] # "absent" /\ Intent(s) \in Intents
    BY DeliveryFacts
  <1>2. pc'[s] = stage /\ call'[s] = call[s] /\ told'[s] = told[s]
    BY IInvParts DEF Goes, SessionTypes
  <1>3. Event(s)' = Event(s) /\ Intent(s)' = Intent(s) /\ Refund(s)' = Refund(s)
    BY <1>2 DEF Event, Intent, Refund
  <1>4. events'[Event(s)] # "absent" /\ (intents[Intent(s)] # "absent" => intents'[Intent(s)] # "absent")
    BY <1>1 DEF Grows
  <1>5. pc'[s] \in Delivering
    BY <1>2 DEF Delivering
  <1>6. DeliveryKnows(s)'
    <2>1. stage \in Handling \cup {"fail"} => stage # "bump"
      BY DEF Handling
    <2>2. (stage = "succeed" => HasEffect(Event(s))')
      BY <1>2 DEF HasEffect, Exists, Intent, Refund, Event
    <2> QED
      BY <1>2, <1>3, <1>4, <2>1, <2>2 DEF DeliveryKnows, Claimed, Exists
  <1> QED
    BY <1>1, <1>2, <1>3, <1>5, <1>6, DeliveryGoesOn

LEMMA DeliveriesKnow ==
  ASSUME IInv, Grows, RecordTypes', NEW s \in Sessions, Delivery(s)
  PROVE  Knows(s)'
  <1>0. RecordTypes /\ SessionTypes /\ ReadTypes /\ CallFits(s) /\ DeliveryKnows(s) /\ GrantsArePaid
    BY IInvParts
  <1>a. pc[s] \in Delivering =>
          /\ call[s] \in Deliveries /\ told[s] = "nothing" /\ Event(s) \in Events
          /\ Intent(s) \in Intents /\ Intent(s) \in Lots
          /\ Event(s).type # "completed" => Refund(s) \in Refunds /\ Event(s).partial \in BOOLEAN
    BY DeliveryFacts
  <1>b. \A answer : Ends(s, answer) => pc'[s] = "idle" /\ told'[s] = answer /\ call'[s] = call[s]
    BY <1>0 DEF Ends, SessionTypes
  <1>c. pc[s] \in Handling \cup {"fail"} => events'[Event(s)] \notin {"absent", "received"}
    BY <1>0, <1>a DEF DeliveryKnows, Grows, Claimed, Delivering
  <1>d. pc[s] \in Settling => Event(s).type = "completed"
    BY <1>0 DEF CallFits
  <1>e. pc[s] \in Refunding => Event(s).type # "completed"
    BY <1>0 DEF CallFits
  <1> USE DEF Delivering, Handling
  <1>1. ASSUME NEW e \in Events, InsertEvent(s, e) PROVE Knows(s)'
    <2>1. /\ call'[s] = [kind |-> "deliver", event |-> e] /\ told'[s] = "nothing"
          /\ pc'[s] \in {"claim", "resolve"} /\ events'[e] # "absent"
      BY <1>0, <1>1 DEF InsertEvent, Begins, Moves, SessionTypes, RecordTypes
    <2>2. call'[s] \in Deliveries /\ Event(s)' = e
      BY <2>1 DEF Deliveries, Event
    <2>3. DeliveryKnows(s)'
      BY <2>1, <2>2 DEF DeliveryKnows
    <2> QED
      BY <2>1, <2>2, <2>3, DeliveryGoesOn DEF Settling, Refunding
  <1>2. CASE ClaimEvent(s)
    <2>1. CASE MayBecome(Event(s), "processing")
      <3>1. events'[Event(s)] = "processing"
        BY <1>0, <1>2, <1>a, <2>1 DEF ClaimEvent, Moves, RecordTypes
      <3>2. CASE Event(s).type = "completed"
        <4>1. Goes(s, "settle")
          BY <1>2, <2>1, <3>2 DEF ClaimEvent
        <4> QED
          BY <1>2, <3>1, <3>2, <4>1, DeliveryMovesOn DEF ClaimEvent, Refunding
      <3>3. CASE Event(s).type # "completed"
        <4>1. Goes(s, "refund")
          BY <1>2, <2>1, <3>3 DEF ClaimEvent
        <4> QED
          BY <1>2, <3>1, <3>3, <4>1, DeliveryMovesOn DEF ClaimEvent, Settling
      <3> QED
        BY <3>2, <3>3
    <2>2. CASE ~MayBecome(Event(s), "processing")
      BY <1>2, <1>b, <2>2, NothingKnown DEF ClaimEvent
    <2> QED
      BY <2>1, <2>2
  <1>3. CASE ResolveEvent(s)
    <2>1. CASE events[Event(s)] = "received"
      <3>1. Goes(s, "bump")
        BY <1>3, <2>1 DEF ResolveEvent
      <3> QED
        BY <1>3, <3>1, DeliveryMovesOn DEF ResolveEvent, Settling, Refunding
    <2>2. CASE events[Event(s)] = "processing"
      BY <1>3, <1>b, <2>2, NothingKnown DEF ResolveEvent
    <2>3. CASE events[Event(s)] \notin {"received", "processing"}
      <3>1. pc[s] = "resolve" /\ Ends(s, "acknowledged")
        BY <1>3, <2>3 DEF ResolveEvent
      <3>2. events[Event(s)] \in {"processed", "failed"}
        BY <1>0, <1>a, <2>3, <3>1 DEF RecordTypes, Statuses, DeliveryKnows
      <3>3. events'[Event(s)] \in {"processed", "failed"}
        BY <1>a, <3>1, <3>2 DEF Grows
      <3>4. pc'[s] = "idle" /\ told'[s] = "acknowledged" /\ call'[s] = call[s]
        BY <1>b, <3>1
      <3> QED
        BY <1>a, <3>1, <3>3, <3>4
        DEF Knows, CallFits, DeliveryKnows, PublicationKnows, IsTrue, Event, Publishing, Settling,
            Refunding
    <2> QED
      BY <2>1, <2>2, <2>3
  <1>4. CASE BumpEvent(s)
    BY <1>4, <1>b, NothingKnown DEF BumpEvent
  <1>5. CASE GetIntentToSettle(s)
    <2>0. pc[s] = "settle" /\ UNCHANGED intents
      BY <1>5 DEF GetIntentToSettle, billingVars
    <2>t. Event(s).type = "completed"
      BY <1>d, <2>0 DEF Settling
    <2>1. CASE intents[Intent(s)] = "absent"
      <3>1. Goes(s, "fail")
        BY <1>5, <2>1 DEF GetIntentToSettle
      <3> QED
        BY <1>c, <2>0, <3>1, DeliveryMovesOn DEF Settling, Refunding
    <2>2. CASE intents[Intent(s)] = "open"
      <3>1. Goes(s, "grant")
        BY <1>5, <2>2 DEF GetIntentToSettle
      <3> QED
        BY <1>c, <2>0, <2>t, <2>2, <3>1, DeliveryMovesOn DEF Refunding
    <2>3. CASE intents[Intent(s)] \in {"paid", "expired"}
      <3>1. Goes(s, "succeed")
        BY <1>5, <2>3 DEF GetIntentToSettle
      <3>2. intents[Intent(s)] = "paid" => created'[Intent(s)] > 0
        BY <1>0, <1>a, <2>0 DEF GrantsArePaid, Grows, Exists
      <3> QED
        BY <1>c, <2>0, <2>t, <2>3, <3>1, <3>2, DeliveryMovesOn DEF Settling, Refunding
    <2> QED
      BY <1>0, <1>a, <2>0, <2>1, <2>2, <2>3 DEF RecordTypes
  <1>6. CASE GrantPassLot(s)
    <2>1. pc[s] = "grant" /\ Goes(s, "pay") /\ intents[Intent(s)] # "absent"
      BY <1>0, <1>6 DEF GrantPassLot, DeliveryKnows
    <2>2. created'[Intent(s)] > 0
      <3>1. CASE Exists(Intent(s))
        BY <1>6, <3>1 DEF GrantPassLot, CreateLotIfAbsent, lotVars, Exists
      <3>2. CASE ~Exists(Intent(s))
        <4>1. Cardinality({m \in Lots : Exists(m)}) \in Nat /\ Intent(s) \in Lots
          BY <1>a, <2>1, LotsAreFinite
        <4>2. created'[Intent(s)] = 1 + Cardinality({m \in Lots : Exists(m)})
          BY <1>0, <1>6, <3>2, <4>1 DEF GrantPassLot, CreateLotIfAbsent, RecordTypes
        <4> QED
          BY <4>1, <4>2
      <3> QED
        BY <3>1, <3>2
    <2>3. Event(s).type = "completed"
      BY <1>d, <2>1 DEF Settling
    <2> QED
      BY <1>c, <2>1, <2>2, <2>3, DeliveryMovesOn DEF Refunding
  <1>7. CASE MarkCheckoutIntentPaid(s)
    <2>1. pc[s] = "pay" /\ Goes(s, "succeed") /\ intents[Intent(s)] # "absent" /\ Exists(Intent(s))
      BY <1>0, <1>7 DEF MarkCheckoutIntentPaid, DeliveryKnows
    <2>2. intents'[Intent(s)] \in {"paid", "expired"}
      BY <1>0, <1>7, <1>a, <2>1 DEF MarkCheckoutIntentPaid, RecordTypes
    <2>3. created'[Intent(s)] > 0
      BY <1>a, <2>1 DEF Grows, Exists
    <2>4. Event(s).type = "completed"
      BY <1>d, <2>1 DEF Settling
    <2> QED
      BY <1>c, <2>1, <2>2, <2>3, <2>4, DeliveryMovesOn DEF Settling, Refunding
  <1>8. CASE GetIntentToRefund(s)
    <2>0. pc[s] = "refund" /\ UNCHANGED journal
      BY <1>8 DEF GetIntentToRefund, billingVars
    <2>t. Event(s).type # "completed"
      BY <1>e, <2>0 DEF Refunding
    <2>1. CASE Goes(s, "fail")
      BY <1>c, <2>0, <2>1, DeliveryMovesOn DEF Settling, Refunding
    <2>2. CASE Goes(s, "succeed") /\ journal[Refund(s)] # NoEntry
      BY <1>c, <2>0, <2>t, <2>2, DeliveryMovesOn DEF Settling, Refunding
    <2>3. CASE Goes(s, "assess")
      BY <1>c, <2>0, <2>t, <2>3, DeliveryMovesOn DEF Settling
    <2> QED
      BY <1>8, <2>1, <2>2, <2>3 DEF GetIntentToRefund
  <1>9. CASE AssessPasses(s)
    <2>0. pc[s] = "assess" /\ Event(s).type # "completed" /\ Event(s).partial \in BOOLEAN
      BY <1>9, <1>a, <1>e DEF AssessPasses, Refunding
    <2>1. entry'[s].revoked = 0
      BY <1>0, <1>9 DEF AssessPasses, ReadTypes
    <2>2. CASE Event(s).partial \/ remaining[Intent(s)] = 0
      <3>1. Goes(s, "record")
        BY <1>9, <2>2 DEF AssessPasses
      <3> QED
        BY <1>c, <2>0, <2>1, <3>1, DeliveryMovesOn DEF Settling
    <2>3. CASE ~Event(s).partial /\ remaining[Intent(s)] # 0
      <3>1. Goes(s, "report")
        BY <1>9, <2>3 DEF AssessPasses
      <3>2. created'[Intent(s)] > 0
        BY <1>a, <2>0, <2>3, LotsExist DEF Grows, Exists
      <3> QED
        BY <1>c, <2>0, <2>3, <3>1, <3>2, DeliveryMovesOn DEF Settling
    <2> QED
      BY <2>0, <2>2, <2>3
  <1>10. CASE ReportRemaining(s)
    <2>0. /\ pc[s] = "report" /\ Event(s).type # "completed" /\ ~Event(s).partial
          /\ Exists(Intent(s)) /\ created'[Intent(s)] > 0
      BY <1>0, <1>10, <1>a, <1>e DEF ReportRemaining, CallFits, DeliveryKnows, Refunding, Grows, Exists
    <2>1. CASE remaining[Intent(s)] = 0
      <3>1. Goes(s, "record") /\ remaining'[Intent(s)] = 0
        BY <1>10, <2>1 DEF ReportRemaining, lotVars
      <3> QED
        BY <1>c, <2>0, <3>1, DeliveryMovesOn DEF Settling
    <2>2. CASE remaining[Intent(s)] # 0
      <3>1. Goes(s, "zero")
        BY <1>10, <2>2 DEF ReportRemaining
      <3> QED
        BY <1>c, <2>0, <3>1, DeliveryMovesOn DEF Settling
    <2> QED
      BY <2>1, <2>2
  <1>11. CASE ZeroPassLotRemaining(s)
    <2>0. /\ pc[s] = "zero" /\ Event(s).type # "completed" /\ created'[Intent(s)] > 0
      BY <1>0, <1>11, <1>a, <1>e DEF ZeroPassLotRemaining, DeliveryKnows, Refunding, Grows, Exists
    <2>1. Goes(s, "record") /\ remaining'[Intent(s)] = 0
      BY <1>0, <1>11, <1>a DEF ZeroPassLotRemaining, RecordTypes
    <2> QED
      BY <1>c, <2>0, <2>1, DeliveryMovesOn DEF Settling
  <1>12. CASE RecordRefund(s)
    <2>0. pc[s] = "record" /\ Event(s).type # "completed" /\ Goes(s, "succeed")
      BY <1>12, <1>e DEF RecordRefund, Refunding
    <2>1. journal'[Refund(s)] # NoEntry
      <3>1. Refund(s) \in Refunds /\ Intent(s) \in Intents
        BY <1>a, <2>0
      <3>2. PICK row : row = [intent |-> Intent(s), revoked |-> entry[s].revoked,
                              review |-> entry[s].review]
        OBVIOUS
      <3>3. entry[s] \in [revoked : Nat, review : BOOLEAN]
        BY <1>0 DEF ReadTypes
      <3>4. row # NoEntry
        BY <3>1, <3>2, <3>3, PassesAssumption DEF JournalRows
      <3>5. CASE journal[Refund(s)] = NoEntry
        <4>1. journal' = [journal EXCEPT ![Refund(s)] = row]
          BY <1>12, <3>2, <3>5 DEF RecordRefund
        <4> QED
          BY <1>0, <3>1, <3>4, <4>1 DEF RecordTypes
      <3>6. CASE journal[Refund(s)] # NoEntry
        BY <1>12, <3>6 DEF RecordRefund
      <3> QED
        BY <3>5, <3>6
    <2> QED
      BY <1>c, <2>0, <2>1, DeliveryMovesOn DEF Settling, Refunding
  <1>13. CASE MarkProcessed(s)
    <2>0. pc[s] = "succeed" /\ UNCHANGED <<intents, journal, created>>
      BY <1>13 DEF MarkProcessed, lotVars
    <2>1. CASE MayBecome(Event(s), "processed")
      <3>1. pc'[s] = "idle" /\ told'[s] = "handled" /\ call'[s] = call[s]
        BY <1>13, <1>b, <2>1 DEF MarkProcessed
      <3>2. events'[Event(s)] = "processed"
        BY <1>0, <1>13, <1>a, <2>0, <2>1 DEF MarkProcessed, Moves, RecordTypes
      <3>3. HasEffect(Event(s))'
        BY <1>0, <2>0, <3>1 DEF DeliveryKnows, HasEffect, Exists, Event
      <3>4. IsTrue(s)'
        BY <3>1, <3>2, <3>3 DEF IsTrue, Event
      <3> QED
        BY <1>a, <2>0, <3>1, <3>4
        DEF Knows, CallFits, DeliveryKnows, PublicationKnows, Publishing, Settling, Refunding
    <2>2. CASE ~MayBecome(Event(s), "processed")
      BY <1>13, <1>b, <2>2, NothingKnown DEF MarkProcessed
    <2> QED
      BY <2>1, <2>2
  <1>14. CASE MarkFailed(s)
    BY <1>14, <1>b, NothingKnown DEF MarkFailed
  <1>15. CASE FailStatement(s)
    BY <1>15, <1>c, DeliveryMovesOn DEF FailStatement, Settling, Refunding
  <1>16. CASE Crash(s)
    BY <1>16, <1>b, NothingKnown DEF Crash
  <1> QED
    BY <1>1, <1>2, <1>3, <1>4, <1>5, <1>6, <1>7, <1>8, <1>9, <1>10, <1>11, <1>12, <1>13, <1>14,
       <1>15, <1>16 DEF Delivery

LEMMA PublicationsKnow ==
  ASSUME IInv, Grows, RecordTypes', NEW s \in Sessions, Publication(s)
  PROVE  Knows(s)'
  <1>0. /\ RecordTypes /\ SessionTypes /\ ReadTypes /\ CallFits(s) /\ PublicationKnows(s)
        /\ PublicationsArePaid
    BY IInvParts
  <1>a. pc[s] \in Publishing => call[s] \in Publications /\ told[s] = "nothing" /\ Arena(s) \in Arenas
    BY PublicationFacts
  <1>b. \A answer : Ends(s, answer) => pc'[s] = "idle" /\ told'[s] = answer /\ call'[s] = call[s]
    BY <1>0 DEF Ends, SessionTypes
  <1>c. \A stage : Goes(s, stage) => pc'[s] = stage /\ told'[s] = told[s] /\ call'[s] = call[s]
    BY <1>0 DEF Goes, SessionTypes
  <1>d. ASSUME pc[s] \in Publishing, pc'[s] \in Publishing, told'[s] = told[s], call'[s] = call[s],
               UNCHANGED <<arenas, version, seen, created>>,
               pc'[s] = "lock" =>
                 \A l \in rows'[s] : Exists(l) /\ AccountOf[l] = AccountOf[Arena(s)]
        PROVE  Knows(s)'
    <2>1. call'[s] \in Publications /\ told'[s] = "nothing" /\ Arena(s)' = Arena(s)
      BY <1>a, <1>d DEF Arena
    <2>2. PublicationKnows(s)'
      BY <1>0, <1>d, <2>1 DEF PublicationKnows, Exists
    <2> QED
      BY <1>d, <2>1, <2>2, PublicationGoesOn
  <1>e. ASSUME pc'[s] = "idle", call'[s] \in Publications, IsTrue(s)',
               told'[s] \in {"published", "consumed", "conflict"}
        PROVE  Knows(s)'
    BY <1>e DEF Knows, CallFits, DeliveryKnows, PublicationKnows, Delivering, Handling, Publishing,
                Settling, Refunding
  <1>1. ASSUME NEW a \in Arenas, ReadArena(s, a) PROVE Knows(s)'
    <2>1. /\ call'[s] = [kind |-> "publish", arena |-> a] /\ told'[s] = "nothing"
          /\ pc'[s] = "find" /\ seen'[s] = version[a] /\ arenas[a] = "draft"
      BY <1>0, <1>1 DEF ReadArena, Begins, SessionTypes, ReadTypes
    <2>2. call'[s] \in Publications /\ Arena(s)' = a
      BY <2>1 DEF Publications, Arena
    <2>3. version' = version /\ arenas' = arenas /\ version[a] \in Nat
      BY <1>0, <1>1 DEF ReadArena, arenaVars, RecordTypes
    <2>4. PublicationKnows(s)'
      BY <2>1, <2>2, <2>3 DEF PublicationKnows
    <2> QED
      BY <2>1, <2>2, <2>4, PublicationGoesOn DEF Publishing
  <1>2. ASSUME NEW a \in Arenas, ReplyAtOnce(s, a) PROVE Knows(s)'
    <2>1. /\ call'[s] = [kind |-> "publish", arena |-> a] /\ pc'[s] = "idle"
          /\ told'[s] = IF arenas[a] = "published" THEN "published" ELSE "error"
      BY <1>0, <1>2 DEF ReplyAtOnce, SessionTypes
    <2>2. CASE arenas[a] = "published"
      <3>1. call'[s] \in Publications /\ Arena(s)' = a
        BY <2>1 DEF Publications, Arena
      <3>2. arenas'[a] = "published"
        BY <1>2, <2>2 DEF ReplyAtOnce, arenaVars
      <3>3. IsTrue(s)'
        BY <2>1, <2>2, <3>1, <3>2 DEF IsTrue
      <3> QED
        BY <1>e, <2>1, <2>2, <3>1, <3>3
    <2>3. CASE arenas[a] # "published"
      BY <2>1, <2>3, NothingKnown
    <2> QED
      BY <2>2, <2>3
  <1>3. CASE FindConsumption(s)
    <2>1. pc[s] = "find" /\ UNCHANGED <<arenas, version, seen, created>>
      BY <1>3 DEF FindConsumption, arenaVars, lotVars
    <2>2. pc'[s] \in {"commit", "list"} /\ told'[s] = told[s] /\ call'[s] = call[s]
      BY <1>3, <1>c DEF FindConsumption
    <2> QED
      BY <1>d, <2>1, <2>2 DEF Publishing
  <1>4. CASE ListAvailablePassLots(s)
    <2>1. pc[s] = "list" /\ UNCHANGED <<arenas, version, seen, created>>
      BY <1>4 DEF ListAvailablePassLots, arenaVars, lotVars
    <2>2. pc'[s] = "lock" /\ told'[s] = told[s] /\ call'[s] = call[s]
      BY <1>4, <1>c DEF ListAvailablePassLots
    <2>3. rows'[s] = {l \in Lots : Available(s, l)}
      BY <1>0, <1>4 DEF ListAvailablePassLots, ReadTypes
    <2> QED
      BY <1>d, <2>1, <2>2, <2>3 DEF Publishing, Available
  <1>5. CASE LockLot(s)
    <2>1. pc[s] = "lock" /\ UNCHANGED <<arenas, version, seen, created, pc, told, call>>
      BY <1>5 DEF LockLot, arenaVars, lotVars
    <2>2. rows'[s] \subseteq rows[s]
      BY <1>0, <1>5 DEF LockLot, ReadTypes
    <2> QED
      BY <1>0, <1>d, <2>1, <2>2 DEF Publishing, PublicationKnows
  <1>6. CASE FindAgain(s)
    <2>1. pc[s] = "lock" /\ UNCHANGED <<arenas, version, seen, created>>
      BY <1>6 DEF FindAgain, arenaVars, lotVars, readVars
    <2>2. CASE Goes(s, "commit")
      BY <1>c, <1>d, <2>1, <2>2 DEF Publishing
    <2>3. CASE Ends(s, "unavailable")
      BY <1>b, <2>3, NothingKnown
    <2> QED
      BY <1>6, <2>2, <2>3 DEF FindAgain
  <1>7. CASE ConsumeArenaPassLot(s)
    <2>1. pc[s] = "lock" /\ UNCHANGED <<arenas, version, seen, created, consumed>>
      BY <1>7 DEF ConsumeArenaPassLot, arenaVars, lotVars, readVars
    <2>2. CASE Goes(s, "commit")
      BY <1>c, <1>d, <2>1, <2>2 DEF Publishing
    <2>3. CASE Ends(s, "consumed") /\ consumed[Arena(s)] # NoLot
      <3>1. pc'[s] = "idle" /\ told'[s] = "consumed" /\ call'[s] = call[s] /\ Arena(s)' = Arena(s)
        BY <1>b, <2>3 DEF Arena
      <3>2. IsTrue(s)'
        BY <2>1, <2>3, <3>1 DEF IsTrue
      <3> QED
        BY <1>a, <1>e, <2>1, <3>1, <3>2 DEF Publishing
    <2> QED
      BY <1>7, <2>2, <2>3 DEF ConsumeArenaPassLot
  <1>8. CASE PublishArenaDraft(s)
    <2>1. /\ pc[s] = "commit" /\ call[s] \in Publications /\ Arena(s) \in Arenas
          /\ seen' = seen /\ seen[s] \in Nat
      BY <1>0, <1>8, <1>a DEF PublishArenaDraft, Publishing, readVars, ReadTypes
    <2>2. /\ version[Arena(s)] \in Nat /\ version'[Arena(s)] \in Nat
          /\ version'[Arena(s)] >= version[Arena(s)] /\ version[Arena(s)] >= seen[s]
          /\ arenas[Arena(s)] = "draft" \/ version[Arena(s)] > seen[s]
      BY <1>0, <2>1 DEF RecordTypes, Grows, PublicationKnows, Publishing
    <2>3. CASE Ends(s, "published") /\ arenas' = [arenas EXCEPT ![Arena(s)] = "published"]
      <3>1. pc'[s] = "idle" /\ told'[s] = "published" /\ call'[s] = call[s] /\ Arena(s)' = Arena(s)
        BY <1>b, <2>3 DEF Arena
      <3>2. IsTrue(s)'
        BY <1>0, <2>1, <2>3, <3>1 DEF IsTrue, RecordTypes
      <3> QED
        BY <1>e, <2>1, <3>1, <3>2
    <2>4. CASE Ends(s, "conflict") /\ ~(arenas[Arena(s)] = "draft" /\ version[Arena(s)] = seen[s])
      <3>1. pc'[s] = "idle" /\ told'[s] = "conflict" /\ call'[s] = call[s] /\ Arena(s)' = Arena(s)
        BY <1>b, <2>4 DEF Arena
      <3>2. version'[Arena(s)] > seen[s]
        BY <2>1, <2>2, <2>4
      <3>3. IsTrue(s)'
        BY <2>1, <3>1, <3>2 DEF IsTrue
      <3> QED
        BY <1>e, <2>1, <3>1, <3>3
    <2>5. CASE Ends(s, "error")
      BY <1>b, <2>5, NothingKnown
    <2> QED
      BY <1>8, <2>3, <2>4, <2>5 DEF PublishArenaDraft
  <1> QED
    BY <1>1, <1>2, <1>3, <1>4, <1>5, <1>6, <1>7, <1>8 DEF Publication
-----------------------------------------------------------------------------
(***************************************************************************)
(* What the locks protect.                                                 *)
(***************************************************************************)
LEMMA LocksKept ==
  ASSUME IInv, UNCHANGED <<lotLock, keyLock, consumed>>,
         \A t \in Sessions, l \in Lots :
           lotLock[l] = t => pc'[t] \in {"lock", "commit"} /\ call'[t] = call[t],
         \A t \in Sessions, a \in Arenas :
           keyLock[a] = t => pc'[t] = "commit" /\ call'[t] = call[t],
         \A t \in Sessions : pc'[t] = "commit" =>
           /\ call'[t] = call[t]
           /\ pc[t] = "commit" \/ (Candidates(t) = {} /\ consumed[Arena(t)] # NoLot),
         \A l \in Lots :
           lotLock[l] # NoSession => created'[l] > 0 /\ remaining'[l] = remaining[l]
  PROVE  Locks'
  <1>0. LockTypes /\ LotsAreHeld /\ KeysAreHeld /\ CommitsAreReady
    BY IInvParts
  <1>1. LotsAreHeld'
    <2> SUFFICES ASSUME NEW l \in Lots, lotLock[l] # NoSession
        PROVE /\ pc'[lotLock[l]] \in {"lock", "commit"}
              /\ created'[l] > 0
              /\ AccountOf[l] = AccountOf[call'[lotLock[l]].arena]
      BY DEF LotsAreHeld, Arena, Exists
    <2>1. lotLock[l] \in Sessions /\ AccountOf[l] = AccountOf[call[lotLock[l]].arena]
      BY <1>0 DEF LockTypes, LotsAreHeld, Arena
    <2> QED
      BY <2>1
  <1>2. KeysAreHeld'
    <2> SUFFICES ASSUME NEW a \in Arenas, keyLock[a] # NoSession
        PROVE /\ pc'[keyLock[a]] = "commit" /\ call'[keyLock[a]].arena = a
              /\ consumed[a] = NoLot
      BY DEF KeysAreHeld, Arena
    <2>1. keyLock[a] \in Sessions /\ call[keyLock[a]].arena = a /\ consumed[a] = NoLot
      BY <1>0 DEF LockTypes, KeysAreHeld, Arena
    <2> QED
      BY <2>1
  <1>3. CommitsAreReady'
    <2>1. \A t \in Sessions : Candidates(t)' = Candidates(t)
      BY PassesAssumption DEF Candidates, Locked
    <2> QED
      BY <1>0, <2>1 DEF CommitsAreReady, Arena
  <1> QED
    BY <1>1, <1>2, <1>3 DEF Locks

\* A step of a session that is not locking, or of none.
LEMMA LocksUntouched ==
  ASSUME IInv, UNCHANGED <<lotLock, keyLock, consumed>>, Grows,
         \A t \in Sessions : \/ pc[t] \notin {"lock", "commit"} /\ pc'[t] # "commit"
                             \/ pc'[t] = pc[t] /\ call'[t] = call[t],
         \A l \in Lots : lotLock[l] # NoSession => remaining'[l] = remaining[l]
  PROVE  Locks'
  <1>0. LockTypes /\ LotsAreHeld /\ KeysAreHeld
    BY IInvParts
  <1>1. \A t \in Sessions, l \in Lots :
          lotLock[l] = t => pc'[t] \in {"lock", "commit"} /\ call'[t] = call[t]
    BY <1>0, PassesAssumption DEF LotsAreHeld
  <1>2. \A t \in Sessions, a \in Arenas : keyLock[a] = t => pc'[t] = "commit" /\ call'[t] = call[t]
    BY <1>0, PassesAssumption DEF KeysAreHeld
  <1>3. \A l \in Lots : lotLock[l] # NoSession => created'[l] > 0
    BY <1>0 DEF LotsAreHeld, Grows, Exists
  <1> QED
    BY <1>1, <1>2, <1>3, LocksKept

\* The end of a transaction.
LEMMA LocksReleased ==
  ASSUME IInv, Grows, NEW s \in Sessions, Releases(s), pc'[s] = "idle", OthersKeep(s),
         \A a \in Arenas : keyLock[a] \notin {s, NoSession} => consumed'[a] = consumed[a],
         \A l \in Lots : lotLock[l] \notin {s, NoSession} => remaining'[l] = remaining[l]
  PROVE  Locks'
  <1>0. LockTypes /\ LotsAreHeld /\ KeysAreHeld /\ CommitsAreReady /\ NoSession \notin Sessions
    BY IInvParts, PassesAssumption
  <1>a. /\ \A l \in Lots : lotLock'[l] # NoSession => lotLock[l] # s /\ lotLock'[l] = lotLock[l]
        /\ \A a \in Arenas : keyLock'[a] # NoSession => keyLock[a] # s /\ keyLock'[a] = keyLock[a]
        /\ \A l \in Lots : lotLock[l] # s => lotLock'[l] = lotLock[l]
        /\ \A a \in Arenas : keyLock[a] # s => keyLock'[a] = keyLock[a]
    BY DEF Releases
  <1>1. LotsAreHeld'
    <2> SUFFICES ASSUME NEW l \in Lots, lotLock'[l] # NoSession
        PROVE /\ pc'[lotLock'[l]] \in {"lock", "commit"}
              /\ created'[l] > 0
              /\ AccountOf[l] = AccountOf[call'[lotLock'[l]].arena]
      BY DEF LotsAreHeld, Arena, Exists
    <2>1. PICK t \in Sessions \ {s} : lotLock'[l] = t /\ lotLock[l] = t
      BY <1>0, <1>a DEF LockTypes
    <2>2. /\ pc[t] \in {"lock", "commit"} /\ Exists(l)
          /\ AccountOf[l] = AccountOf[call[t].arena]
      BY <1>0, <2>1 DEF LotsAreHeld, Arena
    <2>3. created'[l] > 0
      BY <1>0, <2>1, <2>2 DEF Grows, Exists
    <2> QED
      BY <2>1, <2>2, <2>3 DEF OthersKeep, Keeps
  <1>2. KeysAreHeld'
    <2> SUFFICES ASSUME NEW a \in Arenas, keyLock'[a] # NoSession
        PROVE /\ pc'[keyLock'[a]] = "commit" /\ call'[keyLock'[a]].arena = a
              /\ consumed'[a] = NoLot
      BY DEF KeysAreHeld, Arena
    <2>1. PICK t \in Sessions \ {s} : keyLock'[a] = t /\ keyLock[a] = t
      BY <1>0, <1>a DEF LockTypes
    <2>2. pc[t] = "commit" /\ call[t].arena = a /\ consumed[a] = NoLot
      BY <1>0, <2>1 DEF KeysAreHeld, Arena
    <2>3. consumed'[a] = consumed[a]
      BY <1>0, <2>1
    <2> QED
      BY <2>1, <2>2, <2>3 DEF OthersKeep, Keeps
  <1>3. CommitsAreReady'
    <2> SUFFICES ASSUME NEW t \in Sessions, pc'[t] = "commit"
        PROVE IF Candidates(t)' = {} THEN consumed'[call'[t].arena] # NoLot
                               ELSE keyLock'[call'[t].arena] = t
      BY DEF CommitsAreReady, Arena
    <2>1. t # s /\ pc[t] = "commit" /\ call'[t] = call[t]
      BY DEF OthersKeep, Keeps
    <2>2. call[t].arena \in Arenas
      BY <2>1, PublicationFacts DEF Publishing, Arena
    <2>3. Candidates(t)' = Candidates(t)
      BY <1>0, <1>a, <2>1 DEF Candidates, Locked, LockTypes
    <2>4. IF Candidates(t) = {} THEN consumed[call[t].arena] # NoLot ELSE keyLock[call[t].arena] = t
      BY <1>0, <2>1 DEF CommitsAreReady, Arena
    <2>5. consumed[call[t].arena] # NoLot => consumed'[call[t].arena] # NoLot
      BY <2>2 DEF Grows
    <2> QED
      BY <1>a, <2>1, <2>2, <2>3, <2>4, <2>5
  <1> QED
    BY <1>1, <1>2, <1>3 DEF Locks

LEMMA DeliveriesLock ==
  ASSUME IInv, Grows, NEW s \in Sessions, OthersKeep(s), Delivery(s)
  PROVE  Locks'
  <1>0. RecordTypes /\ SessionTypes /\ LotsAreHeld
    BY IInvParts
  <1>1. CASE Crash(s)
    BY <1>0, <1>1, LocksReleased DEF Crash, Ends, SessionTypes, lotVars, arenaVars
  <1>2. CASE ~Crash(s)
    <2>1. UNCHANGED <<lotLock, keyLock, consumed>>
      BY <1>2 DEF Delivery, InsertEvent, ClaimEvent, ResolveEvent, BumpEvent, GetIntentToSettle,
             GrantPassLot, MarkCheckoutIntentPaid, GetIntentToRefund, AssessPasses, ReportRemaining,
             ZeroPassLotRemaining, RecordRefund, MarkProcessed, MarkFailed, FailStatement,
             lockVars, arenaVars
    <2>2. pc[s] \notin {"lock", "commit"} /\ pc'[s] # "commit"
      BY <1>0, <1>2 DEF Delivery, InsertEvent, ClaimEvent, ResolveEvent, BumpEvent,
             GetIntentToSettle, GrantPassLot, MarkCheckoutIntentPaid, GetIntentToRefund,
             AssessPasses, ReportRemaining, ZeroPassLotRemaining, RecordRefund, MarkProcessed,
             MarkFailed, FailStatement, Begins, Goes, Ends, SessionTypes, Handling
    <2>3. \A l \in Lots : lotLock[l] # NoSession => remaining'[l] = remaining[l]
      <3>1. CASE GrantPassLot(s)
        BY <1>0, <3>1 DEF GrantPassLot, CreateLotIfAbsent, LotsAreHeld, RecordTypes, lotVars
      <3>2. CASE ZeroPassLotRemaining(s)
        BY <1>0, <3>2 DEF ZeroPassLotRemaining, LotsAreHeld, RecordTypes
      <3>3. CASE UNCHANGED remaining
        BY <1>0, <3>3 DEF LotsAreHeld
      <3> QED
        BY <1>2, <3>1, <3>2, <3>3 DEF Delivery, InsertEvent, ClaimEvent, ResolveEvent, BumpEvent,
             GetIntentToSettle, MarkCheckoutIntentPaid, GetIntentToRefund, AssessPasses,
             ReportRemaining, RecordRefund, MarkProcessed, MarkFailed, FailStatement, lotVars
    <2> QED
      BY <2>1, <2>2, <2>3, LocksUntouched DEF OthersKeep, Keeps
  <1> QED
    BY <1>1, <1>2

LEMMA PublicationsLock ==
  ASSUME IInv, Grows, NEW s \in Sessions, OthersKeep(s), Publication(s)
  PROVE  Locks'
  <1>0. /\ RecordTypes /\ SessionTypes /\ LockTypes /\ ReadTypes
        /\ LotsAreHeld /\ KeysAreHeld /\ CommitsAreReady /\ NoSession \notin Sessions
    BY IInvParts, PassesAssumption
  <1>1. CASE (\E a \in Arenas : ReadArena(s, a) \/ ReplyAtOnce(s, a)) \/ ListAvailablePassLots(s)
    <2>1. UNCHANGED <<lotLock, keyLock, consumed, remaining>>
      BY <1>1 DEF ReadArena, ReplyAtOnce, ListAvailablePassLots, lockVars, arenaVars, lotVars
    <2>2. pc[s] \notin {"lock", "commit"} /\ pc'[s] # "commit"
      BY <1>0, <1>1 DEF ReadArena, ReplyAtOnce, ListAvailablePassLots, Begins, Goes, SessionTypes
    <2> QED
      BY <2>1, <2>2, LocksUntouched DEF OthersKeep, Keeps
  <1>a. CASE FindAgain(s) /\ consumed[Arena(s)] = NoLot
    <2>1. Releases(s) /\ pc'[s] = "idle" /\ UNCHANGED <<consumed, remaining>>
      BY <1>0, <1>a DEF FindAgain, Ends, SessionTypes, arenaVars, lotVars
    <2> QED
      BY <2>1, LocksReleased
  <1>2. CASE FindConsumption(s) \/ (FindAgain(s) /\ consumed[Arena(s)] # NoLot)
    <2>1. UNCHANGED <<lotLock, keyLock, consumed, remaining, created>>
      BY <1>2 DEF FindConsumption, FindAgain, lockVars, arenaVars, lotVars
    <2>2. /\ pc[s] \in {"find", "lock"} /\ Candidates(s) = {} /\ call'[s] = call[s]
          /\ pc[s] = "lock" => pc'[s] = "commit"
          /\ pc[s] = "find" => Locked(s) = {}
      <3>1. pc[s] = "find" => Locked(s) = {}
        BY <1>0 DEF LotsAreHeld, Locked
      <3> QED
        BY <1>0, <1>2, <3>1
        DEF FindConsumption, FindAgain, Goes, Ends, Candidates, SessionTypes
    <2>3. pc'[s] = "commit" => consumed[Arena(s)] # NoLot
      BY <1>0, <1>2 DEF FindConsumption, FindAgain, Goes, Ends, SessionTypes
    <2>4. \A t \in Sessions, l \in Lots :
            lotLock[l] = t => pc'[t] \in {"lock", "commit"} /\ call'[t] = call[t]
      BY <1>0, <2>2 DEF LotsAreHeld, Locked, OthersKeep, Keeps
    <2>5. \A t \in Sessions, a \in Arenas :
            keyLock[a] = t => pc'[t] = "commit" /\ call'[t] = call[t]
      BY <1>0, <2>2 DEF KeysAreHeld, OthersKeep, Keeps
    <2>6. \A t \in Sessions : pc'[t] = "commit" =>
            /\ call'[t] = call[t]
            /\ pc[t] = "commit" \/ (Candidates(t) = {} /\ consumed[Arena(t)] # NoLot)
      BY <2>2, <2>3 DEF OthersKeep, Keeps
    <2>7. \A l \in Lots : lotLock[l] # NoSession => created'[l] > 0 /\ remaining'[l] = remaining[l]
      BY <1>0, <2>1 DEF LotsAreHeld, Exists
    <2> QED
      BY <2>1, <2>4, <2>5, <2>6, <2>7, LocksKept
  <1>3. CASE LockLot(s)
    <2>1. /\ pc[s] = "lock" /\ UNCHANGED <<keyLock, consumed, remaining, created, pc, call>>
      BY <1>3 DEF LockLot, arenaVars, lotVars
    <2>2. PICK l \in Lots :
            /\ l \in rows[s] /\ lotLock[l] = NoSession
            /\ lotLock' = [lotLock EXCEPT ![l] = s]
      BY <1>3 DEF LockLot, IsFirst
    <2>3. Exists(l) /\ AccountOf[l] = AccountOf[Arena(s)]
      BY <2>1, <2>2, IInvParts DEF PublicationKnows
    <2>4. \A m \in Lots : lotLock'[m] = lotLock[m] \/ (m = l /\ lotLock'[m] = s)
      BY <1>0, <2>2 DEF LockTypes
    <2>5. LotsAreHeld'
      BY <1>0, <2>1, <2>3, <2>4 DEF LotsAreHeld, Arena, Exists
    <2>6. KeysAreHeld'
      BY <1>0, <2>1 DEF KeysAreHeld, Arena
    <2>7. \A t \in Sessions : t # s => Candidates(t)' = Candidates(t)
      BY <1>0, <2>1, <2>2, <2>4 DEF Candidates, Locked
    <2>8. CommitsAreReady'
      BY <1>0, <2>1, <2>7 DEF CommitsAreReady, Arena
    <2> QED
      BY <2>5, <2>6, <2>8 DEF Locks
  <1>4. CASE ConsumeArenaPassLot(s)
    <2>1. pc[s] = "lock" /\ keyLock[Arena(s)] = NoSession /\ Candidates(s) # {}
          /\ UNCHANGED <<consumed, remaining, created>>
      BY <1>4 DEF ConsumeArenaPassLot, arenaVars, lotVars
    <2>2. CASE consumed[Arena(s)] # NoLot
      BY <1>0, <1>4, <2>1, <2>2, LocksReleased DEF ConsumeArenaPassLot, Ends, SessionTypes
    <2>3. CASE consumed[Arena(s)] = NoLot
      <3>1. /\ keyLock' = [keyLock EXCEPT ![Arena(s)] = s] /\ lotLock' = lotLock
            /\ pc'[s] = "commit" /\ call' = call
        BY <1>0, <1>4, <2>3 DEF ConsumeArenaPassLot, Goes, SessionTypes
      <3>2. Arena(s) \in Arenas
        BY <2>1, PublicationFacts DEF Publishing
      <3>3. \A t \in Sessions \ {s} : pc'[t] = pc[t]
        BY DEF OthersKeep, Keeps
      <3>4. LotsAreHeld'
        BY <1>0, <2>1, <3>1, <3>3 DEF LotsAreHeld, Arena, Exists, LockTypes
      <3>5. KeysAreHeld'
        BY <1>0, <2>1, <2>3, <3>1, <3>2, <3>3 DEF KeysAreHeld, Arena, LockTypes
      <3>6. keyLock'[Arena(s)] = s /\ \A a \in Arenas : keyLock[a] # NoSession => keyLock'[a] = keyLock[a]
        BY <1>0, <2>1, <3>1, <3>2 DEF LockTypes
      <3>7. CommitsAreReady'
        <4> SUFFICES ASSUME NEW t \in Sessions, pc'[t] = "commit"
            PROVE IF Candidates(t) = {} THEN consumed[Arena(t)] # NoLot ELSE keyLock'[Arena(t)] = t
          BY <2>1, <3>1 DEF CommitsAreReady, Arena, Candidates, Locked
        <4>1. CASE t = s
          BY <2>1, <3>6, <4>1
        <4>2. CASE t # s
          <5>1. pc[t] = "commit" /\ Arena(t) \in Arenas
            BY <3>3, <4>2, PublicationFacts DEF Publishing
          <5> QED
            BY <1>0, <3>6, <5>1 DEF CommitsAreReady
        <4> QED
          BY <4>1, <4>2
      <3> QED
        BY <3>4, <3>5, <3>7 DEF Locks
    <2> QED
      BY <2>2, <2>3
  <1>5. CASE PublishArenaDraft(s)
    <2>1. pc[s] = "commit" /\ Releases(s) /\ pc'[s] = "idle" /\ Arena(s) \in Arenas
      BY <1>0, <1>5, PublicationFacts DEF PublishArenaDraft, Ends, SessionTypes, Publishing
    <2>2. CASE UNCHANGED <<remaining, consumed>>
      BY <2>1, <2>2, LocksReleased
    <2>3. CASE Candidates(s) # {} /\ Consumes(s)
      <3>1. PICK l \in Lots : /\ l \in Candidates(s)
                              /\ remaining' = [remaining EXCEPT ![l] = @ - 1]
                              /\ consumed' = [consumed EXCEPT ![Arena(s)] = l]
        BY <2>3 DEF Consumes, IsFirst
      <3>2. lotLock[l] = s /\ keyLock[Arena(s)] = s
        BY <2>1, <2>3, <3>1, CommitFacts DEF Candidates, Locked
      <3>3. \A a \in Arenas : keyLock[a] \notin {s, NoSession} => consumed'[a] = consumed[a]
        BY <1>0, <3>1, <3>2 DEF RecordTypes
      <3>4. \A m \in Lots : lotLock[m] \notin {s, NoSession} => remaining'[m] = remaining[m]
        BY <1>0, <3>1, <3>2 DEF RecordTypes
      <3> QED
        BY <2>1, <3>3, <3>4, LocksReleased
    <2> QED
      BY <1>5, <2>2, <2>3 DEF PublishArenaDraft, arenaVars
  <1> QED
    BY <1>1, <1>a, <1>2, <1>3, <1>4, <1>5 DEF Publication

LEMMA MeanwhileLocks ==
  ASSUME IInv, Grows, Meanwhile
  PROVE  Locks'
  <1>0. LotsAreHeld /\ RecordTypes
    BY IInvParts
  <1>1. UNCHANGED <<lotLock, keyLock, consumed, pc, call>>
    BY DEF Meanwhile, RecordCheckoutIntent, GrantLot, EditArena, Tick, lockVars, arenaVars
  <1>2. \A l \in Lots : lotLock[l] # NoSession => remaining'[l] = remaining[l]
    <2>1. CASE UNCHANGED remaining
      BY <1>0, <2>1 DEF LotsAreHeld
    <2>2. ASSUME NEW g \in Grants, GrantLot(g)
          PROVE  \A l \in Lots : lotLock[l] # NoSession => remaining'[l] = remaining[l]
      BY <1>0, <2>2 DEF GrantLot, CreateLotIfAbsent, LotsAreHeld, RecordTypes
    <2> QED
      BY <2>1, <2>2 DEF Meanwhile, RecordCheckoutIntent, EditArena, Tick, lotVars
  <1> QED
    BY <1>1, <1>2, LocksUntouched
-----------------------------------------------------------------------------
LEMMA InitOK ==
  ASSUME Init
  PROVE  IInv
  <1>1. TypeOK
    BY PassesAssumption DEF Init, TypeOK, Statuses, Stages, Tellings
  <1>2. \A l \in Lots : ConsumedFrom(l) = {}
    BY PassesAssumption DEF Init, ConsumedFrom
  <1>3. PassesAreKept
    <2>1. \A l \in Lots : Cardinality(ConsumedFrom(l)) = 0
      BY <1>2, FS_EmptySet
    <2>2. \A l \in Lots : ~Exists(l) /\ remaining[l] = 0
      BY DEF Init, Exists
    <2> QED
      BY <2>1, <2>2 DEF PassesAreKept
  <1>4. PublicationsArePaid /\ GrantsArePaid /\ RevocationsAreWhole /\ RevocationsExist
    BY DEF Init, PublicationsArePaid, GrantsArePaid, RevocationsAreWhole, RevocationsExist, Exists,
           Lots
  <1>5. Locks
    BY DEF Init, Locks, LotsAreHeld, KeysAreHeld, CommitsAreReady
  <1>6. \A s \in Sessions : Knows(s)
    BY DEF Init, Knows, CallFits, DeliveryKnows, PublicationKnows, IsTrue, Delivering, Handling,
           Publishing, Settling, Refunding
  <1> QED
    BY <1>1, <1>3, <1>4, <1>5, <1>6 DEF IInv, PassesAreAccounted

LEMMA Inductive ==
  ASSUME IInv, [Next]_vars
  PROVE  IInv'
  <1>0. /\ TypeOK /\ PassesAreAccounted /\ RevocationsExist /\ RecordTypes /\ ReadTypes
        /\ \A t \in Sessions : Knows(t)
    BY IInvParts DEF IInv
  <1>a. ASSUME RecordTypes', OtherTypes' PROVE TypeOK'
    BY <1>a DEF TypeOK, RecordTypes, OtherTypes, LockTypes, SessionTypes, ReadTypes, WorldTypes
  <1>1. ASSUME NEW s \in Sessions, Delivery(s) \/ Publication(s) PROVE IInv'
    <2>1. RecordTypes' /\ PassesAreAccounted' /\ RevocationsExist' /\ Grows
      BY <1>0, <1>1, DeliveriesRecord, PublicationsRecord, RecordStepOK
    <2>2. OtherTypes' /\ OthersKeep(s)
      BY <1>1, DeliveriesTyped, PublicationsTyped
    <2>3. Knows(s)'
      BY <1>1, <2>1, DeliveriesKnow, PublicationsKnow
    <2>4. \A t \in Sessions : t # s => Knows(t)'
      BY <1>0, <2>1, <2>2, KnowledgeStays DEF OthersKeep
    <2>5. Locks'
      BY <1>1, <2>1, <2>2, DeliveriesLock, PublicationsLock
    <2>6. \A t \in Sessions : Knows(t)'
      BY <2>3, <2>4
    <2> QED
      BY <1>a, <2>1, <2>2, <2>5, <2>6 DEF IInv
  <1>2. CASE Meanwhile
    <2>1. RecordTypes' /\ PassesAreAccounted' /\ RevocationsExist' /\ Grows
      BY <1>0, <1>2, MeanwhileRecords, RecordStepOK
    <2>2. OtherTypes' /\ \A t \in Sessions : Keeps(t)
      BY <1>2, MeanwhileTyped
    <2>3. \A t \in Sessions : Knows(t)'
      BY <1>0, <2>1, <2>2, KnowledgeStays
    <2>4. Locks'
      BY <1>2, <2>1, MeanwhileLocks
    <2> QED
      BY <1>a, <2>1, <2>2, <2>3, <2>4 DEF IInv
  <1>3. CASE UNCHANGED vars
    <2>1. RecordTypes' /\ PassesAreAccounted' /\ RevocationsExist' /\ Grows
      BY <1>0, <1>3, RecordStepOK DEF vars, billingVars, lotVars, arenaVars, RecordStep, recordVars
    <2>2. UNCHANGED <<lockVars, pc, call, told, readVars, worldVars, lotVars, consumed>>
      BY <1>3 DEF vars, arenaVars
    <2>3. OtherTypes' /\ \A t \in Sessions : Keeps(t)
      BY <2>2, IInvParts, ReadsKept, LocksTyped
      DEF OtherTypes, SessionTypes, WorldTypes, worldVars, Keeps
    <2>4. \A t \in Sessions : Knows(t)'
      BY <1>0, <2>1, <2>3, KnowledgeStays
    <2>5. Locks'
      BY <2>1, <2>2, LocksUntouched, IInvParts DEF lockVars, lotVars, LotsAreHeld
    <2> QED
      BY <1>a, <2>1, <2>3, <2>4, <2>5 DEF IInv
  <1> QED
    BY <1>1, <1>2, <1>3 DEF Next

\* In every behaviour, what the calls in progress have read, what the locks
\* protect and what the tables promise hold together.
THEOREM Invariance == Spec => []IInv
  BY InitOK, Inductive, PTL DEF Spec

\* Every table, lock and call keeps its type: no lot has a negative number of
\* passes left, or more than were granted.
THEOREM TypeCorrect == Spec => []TypeOK
  <1>1. IInv => TypeOK
    BY DEF IInv
  <1> QED
    BY <1>1, Invariance, PTL

\* No delivery, publication, refund or crash, however interleaved, grants a
\* pass twice, consumes one twice or loses one, publishes an Arena without
\* consuming a pass of its creator, grants a lot without a confirmed payment,
\* or leaves passes in a lot whose refund was recorded.
THEOREM PassesAccounted == Spec => []PassesAreAccounted
  <1>1. IInv => PassesAreAccounted
    BY DEF IInv
  <1> QED
    BY <1>1, Invariance, PTL

\* What a delivery or a publication answered stays true in the tables,
\* whatever is delivered, refunded, edited or published afterwards.
THEOREM AnswersStayTrue == Spec => []AnswersMatchRecord
  <1>1. IInv => AnswersMatchRecord
    BY DEF IInv, Knows, AnswersMatchRecord
  <1> QED
    BY <1>1, Invariance, PTL
-----------------------------------------------------------------------------
(***************************************************************************)
(* The order of the locks.  Lots that exist are ranked by their creation,  *)
(* so a list of lots always has a first one; a publication locks its lots  *)
(* in that order, and nothing moves a lot in it.                           *)
(***************************************************************************)
Existing == {l \in Lots : Exists(l)}

LotsAreRanked ==
  \A l \in Existing :
    /\ created[l] <= Cardinality(Existing)
    /\ \A m \in Existing \ {l} : created[m] # created[l]

LocksAscend ==
  \A s \in Sessions : pc[s] = "lock" => \A l \in Locked(s), m \in rows[s] : Precedes(l, m)

LockOrder == LotsAreRanked /\ LocksAscend

LEMMA RanksStay ==
  ASSUME RecordTypes, RecordStep, LotsAreRanked
  PROVE  LotsAreRanked' /\ \A l \in Existing : created'[l] = created[l]
  <1>1. CASE UNCHANGED created
    BY <1>1 DEF LotsAreRanked, Existing, Exists
  <1>2. CASE LotAppears
    <2>1. PICK l \in Lots : ~Exists(l) /\ CreateLotIfAbsent(l)
      BY <1>2 DEF LotAppears
    <2>2. PICK n \in Nat : n = Cardinality(Existing)
      BY LotsAreFinite DEF Existing
    <2>3. created' = [created EXCEPT ![l] = 1 + n]
      BY <2>1, <2>2 DEF CreateLotIfAbsent, Existing
    <2>4. l \notin Existing /\ Existing' = Existing \cup {l}
      BY <2>1, <2>3 DEF Existing, Exists, RecordTypes
    <2>5. Cardinality(Existing \cup {l}) = n + 1
      BY <2>2, <2>4, LotsAreFinite, FS_AddElement DEF Existing
    <2>6. \A m \in Existing : created'[m] = created[m] /\ created[m] \in Nat /\ created[m] <= n
      BY <2>2, <2>3, <2>4 DEF LotsAreRanked, Existing, RecordTypes
    <2>7. created'[l] = 1 + n
      BY <2>3 DEF RecordTypes
    <2>8. LotsAreRanked'
      <3>1. \A m \in Existing : created'[m] # created'[l]
        BY <2>6, <2>7
      <3>2. \A m \in Existing' : created'[m] <= n + 1
        BY <2>4, <2>6, <2>7
      <3>3. \A m \in Existing' : \A k \in Existing' \ {m} : created'[k] # created'[m]
        BY <2>4, <2>6, <3>1 DEF LotsAreRanked
      <3> QED
        BY <2>4, <2>5, <3>2, <3>3 DEF LotsAreRanked
    <2> QED
      BY <2>6, <2>8
  <1> QED
    BY <1>1, <1>2 DEF RecordStep, EventMoves, IntentMoves, LotEmpties, RefundLands, ArenaMoves,
       ArenaPays, recordVars

LEMMA PrecedesIsStrict ==
  ASSUME RecordTypes, NEW l \in Lots, NEW m \in Lots, NEW k \in Lots
  PROVE  ~Precedes(l, l) /\ (Precedes(l, m) /\ Precedes(m, k) => Precedes(l, k))
  BY PassesAssumption DEF Precedes, RecordTypes

\* What a session holds, and what it has listed, exists.
LEMMA LockedLotsExist ==
  ASSUME IInv, NEW s \in Sessions
  PROVE  Locked(s) \subseteq Existing /\ (pc[s] = "lock" => rows[s] \subseteq Existing)
  <1>1. Locked(s) \subseteq Existing
    BY IInvParts, PassesAssumption DEF LotsAreHeld, Locked, Existing
  <1>2. pc[s] = "lock" => rows[s] \subseteq Existing
    BY IInvParts DEF PublicationKnows, Existing, ReadTypes
  <1> QED
    BY <1>1, <1>2

\* A transaction that locks nothing more keeps the order.
LEMMA AscentKept ==
  ASSUME IInv, LocksAscend, \A l \in Existing : created'[l] = created[l],
         \A l \in Lots : lotLock'[l] \in {lotLock[l], NoSession},
         NEW s \in Sessions, pc'[s] = "lock",
         \/ Locked(s) = {}
         \/ pc[s] = "lock" /\ rows'[s] = rows[s]
  PROVE  \A l \in Locked(s)', m \in rows'[s] : Precedes(l, m)'
  <1>1. Locked(s)' \subseteq Locked(s)
    BY PassesAssumption DEF Locked
  <1>2. CASE pc[s] = "lock" /\ rows'[s] = rows[s]
    BY <1>1, <1>2, LockedLotsExist DEF LocksAscend, Precedes
  <1> QED
    BY <1>1, <1>2

LEMMA LockLotAscends ==
  ASSUME IInv, LocksAscend, NEW s \in Sessions, OthersKeep(s), LockLot(s)
  PROVE  LocksAscend'
  <1>0. ReadTypes /\ LockTypes /\ NoSession \notin Sessions
    BY IInvParts, PassesAssumption
  <1>1. pc[s] = "lock" /\ UNCHANGED <<pc, created>>
    BY DEF LockLot, lotVars
  <1>2. PICK l \in Lots :
          /\ IsFirst(l, rows[s]) /\ lotLock[l] = NoSession
          /\ lotLock' = [lotLock EXCEPT ![l] = s]
          /\ rows' = [rows EXCEPT ![s] = @ \ {l}]
    BY DEF LockLot
  <1>3. rows'[s] = rows[s] \ {l} /\ \A m \in rows'[s] : Precedes(l, m)
    BY <1>0, <1>2 DEF IsFirst, ReadTypes
  <1>4. Locked(s)' \subseteq Locked(s) \cup {l} /\ \A t \in Sessions \ {s} : Locked(t)' \subseteq Locked(t)
    BY <1>0, <1>2 DEF Locked, LockTypes
  <1>5. \A k \in Locked(s)', m \in rows'[s] : Precedes(k, m)
    BY <1>1, <1>3, <1>4 DEF LocksAscend
  <1>6. \A t \in Sessions \ {s} : pc[t] = "lock" =>
          \A k \in Locked(t)', m \in rows'[t] : Precedes(k, m)
    BY <1>4 DEF LocksAscend, OthersKeep, Keeps
  <1> QED
    BY <1>1, <1>5, <1>6 DEF LocksAscend, Precedes

LEMMA AscentStays ==
  ASSUME IInv, LocksAscend, [Next]_vars, \A l \in Existing : created'[l] = created[l]
  PROVE  LocksAscend'
  <1>0. SessionTypes /\ LotsAreHeld /\ LockTypes
    BY IInvParts
  \* Every step but LockLot.
  <1>a. ASSUME NEW s \in Sessions, OthersKeep(s),
               \A l \in Lots : lotLock'[l] \in {lotLock[l], NoSession},
               pc'[s] = "lock" => Locked(s) = {}
        PROVE  LocksAscend'
    BY <1>a, AscentKept DEF LocksAscend, OthersKeep, Keeps
  <1>b. ASSUME \A t \in Sessions : Keeps(t), lotLock' = lotLock
        PROVE  LocksAscend'
    BY <1>b, AscentKept DEF LocksAscend, Keeps
  <1>1. ASSUME NEW s \in Sessions, Delivery(s)
        PROVE  LocksAscend'
    <2>1. \A l \in Lots : lotLock'[l] \in {lotLock[l], NoSession}
      BY <1>1 DEF Delivery, InsertEvent, ClaimEvent, ResolveEvent, BumpEvent, GetIntentToSettle,
             GrantPassLot, MarkCheckoutIntentPaid, GetIntentToRefund, AssessPasses, ReportRemaining,
             ZeroPassLotRemaining, RecordRefund, MarkProcessed, MarkFailed, FailStatement, Crash,
             lockVars, Releases
    <2>2. pc'[s] # "lock"
      BY <1>0, <1>1 DEF Delivery, InsertEvent, ClaimEvent, ResolveEvent, BumpEvent,
             GetIntentToSettle, GrantPassLot, MarkCheckoutIntentPaid, GetIntentToRefund,
             AssessPasses, ReportRemaining, ZeroPassLotRemaining, RecordRefund, MarkProcessed,
             MarkFailed, FailStatement, Crash, Begins, Goes, Ends, SessionTypes
    <2> QED
      BY <1>1, <1>a, <2>1, <2>2, DeliveriesTyped
  <1>2. ASSUME NEW s \in Sessions, Publication(s), ~LockLot(s)
        PROVE  LocksAscend'
    <2>1. \A l \in Lots : lotLock'[l] \in {lotLock[l], NoSession}
      BY <1>2 DEF Publication, ReadArena, ReplyAtOnce, FindConsumption, ListAvailablePassLots,
             FindAgain, ConsumeArenaPassLot, PublishArenaDraft, lockVars, Releases
    <2>2. pc'[s] = "lock" => pc[s] = "list"
      BY <1>0, <1>2 DEF Publication, ReadArena, ReplyAtOnce, FindConsumption, ListAvailablePassLots,
             FindAgain, ConsumeArenaPassLot, PublishArenaDraft, Begins, Goes, Ends, SessionTypes
    <2>3. pc[s] = "list" => Locked(s) = {}
      BY <1>0, PassesAssumption DEF LotsAreHeld, Locked
    <2> QED
      BY <1>2, <1>a, <2>1, <2>2, <2>3, PublicationsTyped
  <1>3. ASSUME NEW s \in Sessions, LockLot(s)
        PROVE  LocksAscend'
    BY <1>3, LockLotAscends, PublicationsTyped DEF Publication
  <1>4. CASE Meanwhile
    BY <1>4, <1>b, MeanwhileTyped
       DEF Meanwhile, RecordCheckoutIntent, GrantLot, EditArena, Tick, lockVars
  <1>5. CASE UNCHANGED vars
    BY <1>5, <1>b DEF vars, lockVars, readVars, Keeps
  <1> QED
    BY <1>1, <1>2, <1>3, <1>4, <1>5 DEF Next

LEMMA LockOrderHolds == Spec => [](IInv /\ LockOrder)
  <1>1. Init => LockOrder
    BY DEF Init, LockOrder, LotsAreRanked, LocksAscend, Existing, Exists
  <1>2. IInv /\ LockOrder /\ [Next]_vars => LockOrder'
    <2> SUFFICES ASSUME IInv, LockOrder, [Next]_vars PROVE LockOrder'
      OBVIOUS
    <2>1. RecordStep
      <3>1. CASE UNCHANGED vars
        BY <3>1 DEF vars, billingVars, lotVars, arenaVars, RecordStep, recordVars
      <3> QED
        BY <3>1, DeliveriesRecord, PublicationsRecord, MeanwhileRecords DEF Next
    <2>2. LotsAreRanked' /\ \A l \in Existing : created'[l] = created[l]
      BY <2>1, RanksStay, IInvParts DEF LockOrder
    <2> QED
      BY <2>2, AscentStays DEF LockOrder
  <1> QED
    BY <1>1, <1>2, Invariance, PTL DEF Spec

\* Lots that exist are told apart by the order of the locks.
LEMMA PrecedesIsTotal ==
  ASSUME RecordTypes, LotsAreRanked, NEW l \in Existing, NEW m \in Existing \ {l}
  PROVE  Precedes(l, m) \/ Precedes(m, l)
  <1>1. /\ l \in Lots /\ m \in Lots /\ l # m /\ created[l] # created[m]
        /\ created[l] \in Nat /\ created[m] \in Nat
    BY DEF LotsAreRanked, Existing, RecordTypes
  <1> QED
    BY <1>1, PassesAssumption DEF Precedes

(***************************************************************************)
(* The statement that locks the lots always has a next one to lock: the    *)
(* order it sorts them by (expiry, then creation) leaves no two apart.     *)
(***************************************************************************)
SomeLotIsNext ==
  \A s \in Sessions : pc[s] = "lock" /\ rows[s] # {} => \E l \in Lots : IsFirst(l, rows[s])

THEOREM LotsAreTakenInOrder == Spec => []SomeLotIsNext
  <1>1. IInv /\ LockOrder => SomeLotIsNext
    <2> SUFFICES ASSUME IInv, LockOrder, NEW s \in Sessions, pc[s] = "lock", rows[s] # {}
                 PROVE  \E l \in Lots : IsFirst(l, rows[s])
      BY DEF SomeLotIsNext
    <2>1. RecordTypes /\ rows[s] \subseteq Existing /\ Existing \subseteq Lots
      BY LockedLotsExist, IInvParts DEF Existing
    <2>2. IsFiniteSet(rows[s])
      BY <2>1, LotsAreFinite
    <2> DEFINE later == {p \in Lots \X Lots : Precedes(p[2], p[1])}
    <2>3. \A l, m \in Lots : <<l, m>> \in later <=> Precedes(m, l)
      OBVIOUS
    <2> HIDE DEF later
    <2>4. PICK l \in rows[s] : \A m \in rows[s] : <<l, m>> \notin later
      <3>1. \A l \in rows[s] : <<l, l>> \notin later
        BY <2>1, <2>3, PrecedesIsStrict
      <3>2. \A l, m, k \in rows[s] : <<l, m>> \in later /\ <<m, k>> \in later => <<l, k>> \in later
        BY <2>1, <2>3, PrecedesIsStrict
      <3> QED
        BY <2>2, <3>1, <3>2, MaximalElement
    <2>5. \A m \in rows[s] \ {l} : Precedes(l, m)
      BY <2>1, <2>3, <2>4, PrecedesIsTotal DEF LockOrder
    <2> QED
      BY <2>1, <2>4, <2>5 DEF IsFirst
  <1> QED
    BY <1>1, LockOrderHolds, PTL

(***************************************************************************)
(* No publication, refund or dispute ever waits in a circle: a publication *)
(* that inserted its consumption waits for nobody, and the lots that the   *)
(* waiting ones want ascend along any chain of them.                       *)
(***************************************************************************)
THEOREM LocksNeverDeadlock == Spec => []NoDeadlock
  <1>1. IInv /\ LockOrder => NoDeadlock
    <2> SUFFICES ASSUME IInv, LockOrder, NEW group \in (SUBSET Sessions) \ {{}},
                        \A s \in group : \E t \in group : WaitsFor(s, t)
                 PROVE  FALSE
      BY DEF NoDeadlock
    <2>0. /\ RecordTypes /\ LotsAreHeld /\ KeysAreHeld /\ LockTypes /\ ReadTypes
          /\ NoSession \notin Sessions
      BY IInvParts, PassesAssumption
    \* Those who commit wait for nobody, so nobody waits for a key.
    <2>1. \A t \in group : pc[t] \in {"lock", "zero"}
      BY DEF WaitsFor
    <2>2. \A s, t \in group : keyLock[Arena(s)] = t => Arena(s) \notin Arenas
      BY <2>0, <2>1 DEF KeysAreHeld
    <2>3. \A s \in group : pc[s] = "lock" => Arena(s) \in Arenas
      BY PublicationFacts DEF Publishing
    <2>4. \A s \in group : pc[s] = "zero" => Intent(s) \in Lots
      BY DeliveryFacts DEF Delivering, Handling, Lots
    <2>5. \A s \in group : \E l \in Lots, t \in group :
            lotLock[l] = t /\ (pc[s] = "lock" => l \in rows[s])
      BY <2>0, <2>1, <2>2, <2>3, <2>4 DEF WaitsFor, ReadTypes
    <2> DEFINE Wanted == {l \in Lots : \E t \in group : lotLock[l] = t}
               before == {p \in Lots \X Lots : Precedes(p[1], p[2])}
    <2>6. \A l, m \in Lots : <<l, m>> \in before <=> Precedes(l, m)
      OBVIOUS
    <2>7. Wanted # {} /\ Wanted \subseteq Lots /\ IsFiniteSet(Wanted)
      BY <2>5, LotsAreFinite
    <2>8. \A l \in Wanted : \E m \in Wanted : Precedes(l, m)
      <3> SUFFICES ASSUME NEW l \in Wanted, NEW t \in group, lotLock[l] = t
                   PROVE  \E m \in Wanted : Precedes(l, m)
        OBVIOUS
      <3>1. pc[t] = "lock" /\ l \in Locked(t)
        BY <2>0, <2>1 DEF LotsAreHeld, Locked
      <3>2. PICK m \in Lots : m \in Wanted /\ m \in rows[t]
        BY <2>5, <3>1
      <3> QED
        BY <3>1, <3>2 DEF LockOrder, LocksAscend
    <2> HIDE DEF Wanted, before
    <2>9. PICK l \in Wanted : \A m \in Wanted : <<l, m>> \notin before
      <3>1. \A l \in Wanted : <<l, l>> \notin before
        BY <2>0, <2>6, <2>7, PrecedesIsStrict
      <3>2. \A l, m, k \in Wanted : <<l, m>> \in before /\ <<m, k>> \in before => <<l, k>> \in before
        BY <2>0, <2>6, <2>7, PrecedesIsStrict
      <3> QED
        BY <2>7, <3>1, <3>2, MaximalElement
    <2> QED
      BY <2>6, <2>7, <2>8, <2>9
  <1> QED
    BY <1>1, LockOrderHolds, PTL
=============================================================================
