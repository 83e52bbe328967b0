----------------------------- MODULE ArenaPasses -----------------------------
(***************************************************************************)
(* Arena Passes from payment to publication (internal/billing,             *)
(* internal/arenas).                                                       *)
(*                                                                         *)
(* The payment provider delivers events about checkout sessions: at least  *)
(* once, in any order, several at a time.  A delivery claims its event by  *)
(* inserting it, then grants the passes of a paid session or revokes those *)
(* of a refunded one, statement by statement and without a transaction.    *)
(* Publishing an Arena consumes one pass of its creator in the transaction *)
(* that publishes it, which locks the lots it may consume.                 *)
(*                                                                         *)
(* A session executes one call at a time; every statement outside a        *)
(* transaction is a step, and so is every statement of the transaction     *)
(* that may wait for another.  What the transaction writes is visible when *)
(* it commits.  A lot is named by its reference: a checkout intent, or the *)
(* period of a subscription or the decision of an administrator.           *)
(***************************************************************************)
EXTENDS Integers, FiniteSets

CONSTANTS
  Intents, Grants,        \* the references of purchased and of other lots
  Arenas,
  AccountOf,              \* the account of each lot and of each Arena
  Quantity, Expiry,       \* of each lot
  Never,                  \* the expiry of a lot that has none
  Refunds,                \* provider refund and dispute identifiers
  Events,                 \* provider events, a subset of EventRecords
  Sessions,
  NoSession, NoLot, NoEntry, NoCall,
  MaxVersion, MaxTime, MaxFaults   \* bounds on the edits of a draft, time and faults

Lots == Intents \cup Grants

\* Events about paid sessions; one that is not paid, not about passes, or of
\* another type changes nothing here.
EventRecords ==
  [id : Nat, type : {"completed"}, intent : Intents]
    \cup [id : Nat, type : {"refund", "dispute"}, intent : Intents, refund : Refunds,
          partial : BOOLEAN]

Statuses == {"absent", "received", "processing", "processed", "failed"}

Stages == {"idle", "claim", "resolve", "bump", "settle", "grant", "pay", "refund", "assess",
           "report", "zero", "record", "succeed", "fail", "find", "list", "lock", "commit"}

Tellings == {"nothing", "error", "busy", "acknowledged", "handled",
             "published", "unavailable", "consumed", "conflict"}

JournalRows == [intent : Intents, revoked : Nat, review : BOOLEAN]

Deliveries == [kind : {"deliver"}, event : Events]
Publications == [kind : {"publish"}, arena : Arenas]

ASSUME PassesAssumption ==
  /\ Intents \cap Grants = {}
  /\ DOMAIN AccountOf = Lots \cup Arenas
  /\ Quantity \in [Lots -> Nat \ {0}] /\ Expiry \in [Lots -> Nat \cup {Never}]
  /\ Never \notin Nat /\ NoLot \notin Lots /\ NoSession \notin Sessions
  /\ NoEntry \notin JournalRows /\ NoCall \notin Deliveries \cup Publications
  /\ Events \subseteq EventRecords
  /\ IsFiniteSet(Arenas) /\ IsFiniteSet(Lots)
  /\ MaxVersion \in Nat /\ MaxTime \in Nat /\ MaxFaults \in Nat

VARIABLES
  events,               \* app.stripe_events: the status of each event
  intents,              \* app.checkout_intents: the status of each intent
  remaining, created,   \* app.arena_pass_lots: passes left, and rank of creation (0: no lot)
  journal,              \* app.billing_refunds
  arenas, version,      \* app.arenas
  consumed,             \* app.arena_pass_consumptions: the lot each Arena consumed from
  lotLock, keyLock,     \* the transaction that holds a lot, the unique key of an Arena
  pc, call, told,       \* per session; told is the answer to its latest call
  entry,                \* per session: what a refund is about to record
  seen, at, rows,       \* per session: version and instant read, lots still to lock
  now, faults

billingVars == <<events, intents, journal>>
lotVars == <<remaining, created>>
arenaVars == <<arenas, version, consumed>>
lockVars == <<lotLock, keyLock>>
readVars == <<entry, seen, at, rows>>
worldVars == <<now, faults>>
vars == <<billingVars, lotVars, arenaVars, lockVars, pc, call, told, readVars, worldVars>>

Init ==
  /\ events = [e \in Events |-> "absent"]
  /\ intents = [i \in Intents |-> "absent"]
  /\ remaining = [l \in Lots |-> 0] /\ created = [l \in Lots |-> 0]
  /\ journal = [r \in Refunds |-> NoEntry]
  /\ arenas = [a \in Arenas |-> "draft"] /\ version = [a \in Arenas |-> 1]
  /\ consumed = [a \in Arenas |-> NoLot]
  /\ lotLock = [l \in Lots |-> NoSession] /\ keyLock = [a \in Arenas |-> NoSession]
  /\ pc = [s \in Sessions |-> "idle"]
  /\ call = [s \in Sessions |-> NoCall]
  /\ told = [s \in Sessions |-> "nothing"]
  /\ entry = [s \in Sessions |-> [revoked |-> 0, review |-> FALSE]]
  /\ seen = [s \in Sessions |-> 0] /\ at = [s \in Sessions |-> 0]
  /\ rows = [s \in Sessions |-> {}]
  /\ now = 0 /\ faults = 0
-----------------------------------------------------------------------------
Exists(l) == created[l] > 0

Begins(s, request, stage) ==
  /\ pc[s] = "idle"
  /\ call' = [call EXCEPT ![s] = request]
  /\ pc' = [pc EXCEPT ![s] = stage]
  /\ told' = [told EXCEPT ![s] = "nothing"]

Goes(s, stage) == pc' = [pc EXCEPT ![s] = stage] /\ UNCHANGED <<call, told>>

Ends(s, answer) ==
  /\ pc' = [pc EXCEPT ![s] = "idle"]
  /\ told' = [told EXCEPT ![s] = answer]
  /\ UNCHANGED call

Releases(s) ==
  /\ lotLock' = [l \in Lots |-> IF lotLock[l] = s THEN NoSession ELSE lotLock[l]]
  /\ keyLock' = [a \in Arenas |-> IF keyLock[a] = s THEN NoSession ELSE keyLock[a]]
-----------------------------------------------------------------------------
(***************************************************************************)
(* ProcessWebhookUseCase.Execute: the claim.  Only the delivery that       *)
(* inserts the event processes it; any other one refuses it or answers     *)
(* that all is well, from the status it finds.                             *)
(***************************************************************************)
Event(s) == call[s].event

\* stripe_events_status_transition; the CHECK on last_error, which a failed
\* event carries, refuses to move it back to processing.
MayBecome(e, status) ==
  \/ events[e] = status
  \/ events[e] = "received" /\ status \in {"processing", "failed"}
  \/ events[e] = "processing" /\ status \in {"processed", "failed"}

Moves(e, status) == events' = [events EXCEPT ![e] = status]

InsertEvent(s, e) ==
  /\ Begins(s, [kind |-> "deliver", event |-> e], IF events[e] = "absent" THEN "claim" ELSE "resolve")
  /\ IF events[e] = "absent" THEN Moves(e, "received") ELSE UNCHANGED events
  /\ UNCHANGED <<intents, journal, lotVars, arenaVars, lockVars, readVars, worldVars>>

ClaimEvent(s) ==
  /\ pc[s] = "claim"
  /\ IF MayBecome(Event(s), "processing")
       THEN /\ Moves(Event(s), "processing")
            /\ Goes(s, IF Event(s).type = "completed" THEN "settle" ELSE "refund")
       ELSE Ends(s, "error") /\ UNCHANGED events
  /\ UNCHANGED <<intents, journal, lotVars, arenaVars, lockVars, readVars, worldVars>>

ResolveEvent(s) ==
  /\ pc[s] = "resolve"
  /\ CASE events[Event(s)] = "received" -> Goes(s, "bump")
       [] events[Event(s)] = "processing" -> Ends(s, "busy")
       [] OTHER -> Ends(s, "acknowledged")
  /\ UNCHANGED <<billingVars, lotVars, arenaVars, lockVars, readVars, worldVars>>

\* The event read as received is moved to processing, and refused as such.
BumpEvent(s) ==
  /\ pc[s] = "bump"
  /\ IF MayBecome(Event(s), "processing")
       THEN Moves(Event(s), "processing") /\ Ends(s, "busy")
       ELSE Ends(s, "error") /\ UNCHANGED events
  /\ UNCHANGED <<intents, journal, lotVars, arenaVars, lockVars, readVars, worldVars>>

MarkProcessed(s) ==
  /\ pc[s] = "succeed"
  /\ IF MayBecome(Event(s), "processed")
       THEN Moves(Event(s), "processed") /\ Ends(s, "handled")
       ELSE Ends(s, "error") /\ UNCHANGED events
  /\ UNCHANGED <<intents, journal, lotVars, arenaVars, lockVars, readVars, worldVars>>

MarkFailed(s) ==
  /\ pc[s] = "fail"
  /\ IF MayBecome(Event(s), "failed") THEN Moves(Event(s), "failed") ELSE UNCHANGED events
  /\ Ends(s, "error")
  /\ UNCHANGED <<intents, journal, lotVars, arenaVars, lockVars, readVars, worldVars>>
-----------------------------------------------------------------------------
(***************************************************************************)
(* SettleArenaPassUseCase: the lot of a paid session is granted once, by   *)
(* its reference, and the intent is marked paid.  An event that arrives    *)
(* before the intent is recorded fails.                                    *)
(***************************************************************************)
Intent(s) == Event(s).intent

\* Mutant: a payment without an intent is taken for one settled before.
Mutant_GetIntentToSettle(s) ==
  /\ pc[s] = "settle"
  /\ Goes(s, IF intents[Intent(s)] = "open" THEN "grant" ELSE "succeed")
  /\ UNCHANGED <<billingVars, lotVars, arenaVars, lockVars, readVars, worldVars>>

GetIntentToSettle(s) ==
  /\ pc[s] = "settle"
  /\ Goes(s, CASE intents[Intent(s)] = "absent" -> "fail"
               [] intents[Intent(s)] = "open" -> "grant"
               [] OTHER -> "succeed")
  /\ UNCHANGED <<billingVars, lotVars, arenaVars, lockVars, readVars, worldVars>>

CreateLotIfAbsent(l) ==
  IF Exists(l)
    THEN UNCHANGED lotVars
    ELSE /\ remaining' = [remaining EXCEPT ![l] = Quantity[l]]
         /\ created' = [created EXCEPT ![l] = 1 + Cardinality({m \in Lots : Exists(m)})]

GrantPassLot(s) ==
  /\ pc[s] = "grant"
  /\ CreateLotIfAbsent(Intent(s))
  /\ Goes(s, "pay")
  /\ UNCHANGED <<billingVars, arenaVars, lockVars, readVars, worldVars>>

MarkCheckoutIntentPaid(s) ==
  /\ pc[s] = "pay"
  /\ intents' = [intents EXCEPT ![Intent(s)] = IF @ = "open" THEN "paid" ELSE @]
  /\ Goes(s, "succeed")
  /\ UNCHANGED <<events, journal, lotVars, arenaVars, lockVars, readVars, worldVars>>
-----------------------------------------------------------------------------
(***************************************************************************)
(* ApplyRefundUseCase, for passes: nothing is refunded before the intent   *)
(* is paid; a full refund empties the lot and a partial one waits for a    *)
(* human.  The passes left are read twice, to decide and to report, before *)
(* they are zeroed, and the outcome is recorded once per provider object.  *)
(***************************************************************************)
Refund(s) == Event(s).refund

GetIntentToRefund(s) ==
  /\ pc[s] = "refund"
  /\ Goes(s, CASE intents[Intent(s)] # "paid" -> "fail"
               [] journal[Refund(s)] # NoEntry -> "succeed"
               [] OTHER -> "assess")
  /\ UNCHANGED <<billingVars, lotVars, arenaVars, lockVars, readVars, worldVars>>

NeedsReview(s, left) ==
  Event(s).partial \/ Event(s).type = "dispute" \/ left < Quantity[Intent(s)]

AssessPasses(s) ==
  /\ pc[s] = "assess"
  /\ LET l == Intent(s) IN
     /\ entry' = [entry EXCEPT ![s] =
                   [revoked |-> 0, review |-> ~Exists(l) \/ NeedsReview(s, remaining[l])]]
     /\ Goes(s, IF Event(s).partial \/ remaining[l] = 0 THEN "record" ELSE "report")
  /\ UNCHANGED <<billingVars, lotVars, arenaVars, lockVars, seen, at, rows, worldVars>>

ReportRemaining(s) ==
  /\ pc[s] = "report"
  /\ entry' = [entry EXCEPT ![s].revoked = remaining[Intent(s)]]
  /\ Goes(s, IF remaining[Intent(s)] = 0 THEN "record" ELSE "zero")
  /\ UNCHANGED <<billingVars, lotVars, arenaVars, lockVars, seen, at, rows, worldVars>>

ZeroPassLotRemaining(s) ==
  /\ pc[s] = "zero" /\ lotLock[Intent(s)] = NoSession
  /\ remaining' = [remaining EXCEPT ![Intent(s)] = 0]
  /\ Goes(s, "record")
  /\ UNCHANGED <<billingVars, created, arenaVars, lockVars, readVars, worldVars>>

RecordRefund(s) ==
  /\ pc[s] = "record"
  /\ IF journal[Refund(s)] = NoEntry
       THEN journal' = [journal EXCEPT ![Refund(s)] =
              [intent |-> Intent(s), revoked |-> entry[s].revoked, review |-> entry[s].review]]
       ELSE UNCHANGED journal
  /\ Goes(s, "succeed")
  /\ UNCHANGED <<events, intents, lotVars, arenaVars, lockVars, readVars, worldVars>>
-----------------------------------------------------------------------------
(***************************************************************************)
(* PublishArenaUseCase: one transaction reads the draft, consumes a pass   *)
(* and publishes the version it read.  The lots are chosen by the          *)
(* statement that locks them, in the order of consumption; one emptied     *)
(* meanwhile is no candidate when its lock is granted, and stays locked.   *)
(***************************************************************************)
Arena(s) == call[s].arena

Locked(s) == {l \in Lots : lotLock[l] = s}

\* Mutant: a row is not read again once its lock is granted.
Mutant_Candidates(s) == Locked(s)

\* The locked rows that the statement returns: nobody empties one afterwards.
Candidates(s) == {l \in Locked(s) : remaining[l] > 0}

\* Nearest expiration first, then lots that never expire; then the oldest.
Precedes(l, m) ==
  CASE Expiry[l] = Expiry[m] -> created[l] < created[m]
    [] Expiry[l] = Never /\ Expiry[m] # Never -> FALSE
    [] Expiry[l] # Never /\ Expiry[m] = Never -> TRUE
    [] OTHER -> Expiry[l] < Expiry[m]

IsFirst(l, lots) == l \in lots /\ \A m \in lots \ {l} : Precedes(l, m)

ReadArena(s, a) ==
  /\ Begins(s, [kind |-> "publish", arena |-> a], "find")
  /\ arenas[a] = "draft"
  /\ seen' = [seen EXCEPT ![s] = version[a]]
  /\ UNCHANGED <<billingVars, lotVars, arenaVars, lockVars, entry, at, rows, worldVars>>

\* A published Arena answers the retry; a missing or closed one is refused.
ReplyAtOnce(s, a) ==
  /\ pc[s] = "idle" /\ arenas[a] # "draft"
  /\ call' = [call EXCEPT ![s] = [kind |-> "publish", arena |-> a]]
  /\ told' = [told EXCEPT ![s] = IF arenas[a] = "published" THEN "published" ELSE "error"]
  /\ UNCHANGED <<billingVars, lotVars, arenaVars, lockVars, pc, readVars, worldVars>>

FindConsumption(s) ==
  /\ pc[s] = "find"
  /\ Goes(s, IF consumed[Arena(s)] # NoLot THEN "commit" ELSE "list")
  /\ at' = [at EXCEPT ![s] = now]
  /\ UNCHANGED <<billingVars, lotVars, arenaVars, lockVars, entry, seen, rows, worldVars>>

Available(s, l) ==
  /\ Exists(l) /\ AccountOf[l] = AccountOf[Arena(s)] /\ remaining[l] > 0
  /\ Expiry[l] = Never \/ Expiry[l] > at[s]

ListAvailablePassLots(s) ==
  /\ pc[s] = "list"
  /\ rows' = [rows EXCEPT ![s] = {l \in Lots : Available(s, l)}]
  /\ Goes(s, "lock")
  /\ UNCHANGED <<billingVars, lotVars, arenaVars, lockVars, entry, seen, at, worldVars>>

\* Mutant: the statement that locks the lots has no ORDER BY.
Mutant_LockLotUnordered(s) ==
  /\ pc[s] = "lock" /\ rows[s] # {}
  /\ \E l \in rows[s] :
     /\ lotLock[l] = NoSession
     /\ lotLock' = [lotLock EXCEPT ![l] = s]
     /\ rows' = [rows EXCEPT ![s] = @ \ {l}]
  /\ UNCHANGED <<billingVars, lotVars, arenaVars, keyLock, pc, call, told, entry, seen, at, worldVars>>

LockLot(s) ==
  /\ pc[s] = "lock" /\ rows[s] # {}
  /\ \E l \in Lots :
     /\ IsFirst(l, rows[s]) /\ lotLock[l] = NoSession
     /\ lotLock' = [lotLock EXCEPT ![l] = s]
     /\ rows' = [rows EXCEPT ![s] = @ \ {l}]
  /\ UNCHANGED <<billingVars, lotVars, arenaVars, keyLock, pc, call, told, entry, seen, at, worldVars>>

\* Another publication of the same Arena may have consumed the last pass.
FindAgain(s) ==
  /\ pc[s] = "lock" /\ rows[s] = {} /\ Candidates(s) = {}
  /\ IF consumed[Arena(s)] # NoLot
       THEN Goes(s, "commit") /\ UNCHANGED lockVars
       ELSE Ends(s, "unavailable") /\ Releases(s)
  /\ UNCHANGED <<billingVars, lotVars, arenaVars, readVars, worldVars>>

\* The unique key of the consumption aborts the transaction that comes second.
ConsumeArenaPassLot(s) ==
  /\ pc[s] = "lock" /\ rows[s] = {} /\ Candidates(s) # {}
  /\ keyLock[Arena(s)] = NoSession
  /\ IF consumed[Arena(s)] # NoLot
       THEN Releases(s) /\ Ends(s, "consumed")
       ELSE /\ keyLock' = [keyLock EXCEPT ![Arena(s)] = s]
            /\ Goes(s, "commit") /\ UNCHANGED lotLock
  /\ UNCHANGED <<billingVars, lotVars, arenaVars, readVars, worldVars>>

Consumes(s) == \E l \in Lots :
  /\ IsFirst(l, Candidates(s))
  /\ remaining' = [remaining EXCEPT ![l] = @ - 1]
  /\ consumed' = [consumed EXCEPT ![Arena(s)] = l]

\* Mutant: the consumption does not join the transaction of the publication.
Mutant_PublishArenaDraft(s) ==
  /\ pc[s] = "commit"
  /\ IF Candidates(s) # {} THEN Consumes(s) ELSE UNCHANGED <<remaining, consumed>>
  /\ IF arenas[Arena(s)] = "draft" /\ version[Arena(s)] = seen[s]
       THEN /\ arenas' = [arenas EXCEPT ![Arena(s)] = "published"]
            /\ version' = [version EXCEPT ![Arena(s)] = @ + 1]
            /\ Ends(s, "published")
       ELSE UNCHANGED <<arenas, version>> /\ Ends(s, "conflict")
  /\ Releases(s)
  /\ UNCHANGED <<billingVars, created, readVars, worldVars>>

\* The last statement of the transaction, and its COMMIT or ROLLBACK.
PublishArenaDraft(s) ==
  /\ pc[s] = "commit"
  /\ IF arenas[Arena(s)] = "draft" /\ version[Arena(s)] = seen[s]
       THEN /\ arenas' = [arenas EXCEPT ![Arena(s)] = "published"]
            /\ version' = [version EXCEPT ![Arena(s)] = @ + 1]
            /\ IF Candidates(s) # {}
                 THEN Consumes(s) ELSE UNCHANGED <<remaining, consumed>>
            /\ Ends(s, "published")
       ELSE /\ UNCHANGED <<remaining, arenaVars>>
            /\ Ends(s, IF arenas[Arena(s)] \in {"draft", "published"} THEN "conflict" ELSE "error")
  /\ Releases(s)
  /\ UNCHANGED <<billingVars, created, readVars, worldVars>>
-----------------------------------------------------------------------------
Handling == {"settle", "grant", "pay", "refund", "assess", "report", "zero", "record", "succeed"}

\* A statement of the handler fails, or its answer is lost.
FailStatement(s) ==
  /\ pc[s] \in Handling /\ faults < MaxFaults
  /\ Goes(s, "fail")
  /\ faults' = faults + 1
  /\ UNCHANGED <<billingVars, lotVars, arenaVars, lockVars, readVars, now>>

\* The process dies between two statements; a transaction in progress is undone.
Crash(s) ==
  /\ pc[s] # "idle" /\ faults < MaxFaults
  /\ Ends(s, "nothing") /\ Releases(s)
  /\ faults' = faults + 1
  /\ UNCHANGED <<billingVars, lotVars, arenaVars, readVars, now>>

RecordCheckoutIntent(i, status) ==
  /\ intents[i] = "absent" /\ status \in {"open", "expired"}
  /\ intents' = [intents EXCEPT ![i] = status]
  /\ UNCHANGED <<events, journal, lotVars, arenaVars, lockVars, pc, call, told, readVars, worldVars>>

\* By the event of a subscription or by an administrator.
GrantLot(l) ==
  /\ ~Exists(l) /\ CreateLotIfAbsent(l)
  /\ UNCHANGED <<billingVars, arenaVars, lockVars, pc, call, told, readVars, worldVars>>

\* The creator edits or deletes the draft; an Arena is closed or moderated.
EditArena(a) ==
  /\ version[a] < MaxVersion
  /\ \/ arenas[a] = "draft" /\ arenas' \in {arenas, [arenas EXCEPT ![a] = "deleted"]}
     \/ arenas[a] = "published" /\ arenas' = [arenas EXCEPT ![a] = "ended"]
  /\ version' = [version EXCEPT ![a] = @ + 1]
  /\ UNCHANGED <<billingVars, lotVars, consumed, lockVars, pc, call, told, readVars, worldVars>>

Tick ==
  /\ now < MaxTime /\ now' = now + 1
  /\ UNCHANGED <<billingVars, lotVars, arenaVars, lockVars, pc, call, told, readVars, faults>>

Delivery(s) ==
  \/ \E e \in Events : InsertEvent(s, e)
  \/ ClaimEvent(s) \/ ResolveEvent(s) \/ BumpEvent(s)
  \/ GetIntentToSettle(s) \/ GrantPassLot(s) \/ MarkCheckoutIntentPaid(s)
  \/ GetIntentToRefund(s) \/ AssessPasses(s) \/ ReportRemaining(s)
  \/ ZeroPassLotRemaining(s) \/ RecordRefund(s)
  \/ MarkProcessed(s) \/ MarkFailed(s) \/ FailStatement(s) \/ Crash(s)

Publication(s) ==
  \/ \E a \in Arenas : ReadArena(s, a) \/ ReplyAtOnce(s, a)
  \/ FindConsumption(s) \/ ListAvailablePassLots(s) \/ LockLot(s) \/ FindAgain(s)
  \/ ConsumeArenaPassLot(s) \/ PublishArenaDraft(s)

Meanwhile ==
  \/ \E i \in Intents, status \in {"open", "expired"} : RecordCheckoutIntent(i, status)
  \/ \E l \in Grants : GrantLot(l)
  \/ \E a \in Arenas : EditArena(a)
  \/ Tick

Next == (\E s \in Sessions : Delivery(s) \/ Publication(s)) \/ Meanwhile

Spec == Init /\ [][Next]_vars
-----------------------------------------------------------------------------
TypeOK ==
  /\ events \in [Events -> Statuses]
  /\ intents \in [Intents -> {"absent", "open", "paid", "expired"}]
  /\ remaining \in [Lots -> Nat] /\ \A l \in Lots : remaining[l] <= Quantity[l]
  /\ created \in [Lots -> Nat]
  /\ journal \in [Refunds -> JournalRows \cup {NoEntry}]
  /\ arenas \in [Arenas -> {"draft", "published", "deleted", "ended"}]
  /\ version \in [Arenas -> Nat \ {0}] /\ consumed \in [Arenas -> Lots \cup {NoLot}]
  /\ lotLock \in [Lots -> Sessions \cup {NoSession}]
  /\ keyLock \in [Arenas -> Sessions \cup {NoSession}]
  /\ pc \in [Sessions -> Stages]
  /\ call \in [Sessions -> Deliveries \cup Publications \cup {NoCall}]
  /\ told \in [Sessions -> Tellings]
  /\ entry \in [Sessions -> [revoked : Nat, review : BOOLEAN]]
  /\ seen \in [Sessions -> Nat] /\ at \in [Sessions -> Nat]
  /\ rows \in [Sessions -> SUBSET Lots]
  /\ now \in Nat /\ faults \in Nat

Claimed(e) == events[e] \notin {"absent", "received"}

ConsumedFrom(l) == {a \in Arenas : consumed[a] = l}

\* A claimed event that returns the whole price of the lot emptied it.
Revoked(l) ==
  /\ remaining[l] = 0
  /\ \E e \in Events :
       e.type # "completed" /\ ~e.partial /\ e.intent = l /\ Claimed(e)

\* Every pass of a lot is left, was consumed by one Arena of its account, or
\* was revoked by a refund of the whole price: no race between publications,
\* deliveries of one payment, refunds and crashes grants, consumes or loses one.
PassesAreKept ==
  \A l \in Lots : LET used == Cardinality(ConsumedFrom(l)) IN
    IF Exists(l)
      THEN remaining[l] + used = Quantity[l] \/ (Revoked(l) /\ used <= Quantity[l])
      ELSE remaining[l] = 0 /\ used = 0

\* An Arena is public exactly when it consumed a pass of its creator.
PublicationsArePaid ==
  \A a \in Arenas :
    /\ consumed[a] # NoLot <=> arenas[a] \in {"published", "ended"}
    /\ consumed[a] # NoLot => AccountOf[consumed[a]] = AccountOf[a]

\* Nothing but a payment the provider confirmed grants a purchased lot, and an
\* intent that reads as paid has been granted its lot.
GrantsArePaid ==
  \A i \in Intents :
    /\ Exists(i) => \E e \in Events : e.type = "completed" /\ e.intent = i /\ Claimed(e)
    /\ intents[i] = "paid" => Exists(i)

\* A recorded revocation left nothing to consume.
RevocationsAreWhole ==
  \A r \in Refunds :
    (IF journal[r] = NoEntry THEN FALSE ELSE journal[r].revoked > 0)
      => remaining[journal[r].intent] = 0

PassesAreAccounted ==
  PassesAreKept /\ PublicationsArePaid /\ GrantsArePaid /\ RevocationsAreWhole

HasEffect(e) ==
  IF e.type = "completed"
    THEN intents[e.intent] = "expired" \/ (intents[e.intent] = "paid" /\ Exists(e.intent))
    ELSE journal[e.refund] # NoEntry

IsTrue(s) ==
  CASE told[s] = "handled" -> events[Event(s)] = "processed" /\ HasEffect(Event(s))
    [] told[s] = "acknowledged" -> events[Event(s)] \in {"processed", "failed"}
    [] told[s] = "published" -> arenas[Arena(s)] \in {"published", "ended"}
    [] told[s] = "consumed" -> consumed[Arena(s)] # NoLot
    [] told[s] = "conflict" -> version[Arena(s)] > seen[s]
    [] OTHER -> TRUE

\* What the provider or the creator was answered is what the tables show from
\* then on: an event answered as handled is processed and its effect is there,
\* whatever was redelivered, refunded or published meanwhile
\* (process_webhook.go, publish_arena.go).
AnswersMatchRecord == \A s \in Sessions : IsTrue(s)

\* A statement of s waits for the transaction of t to end.
WaitsFor(s, t) ==
  \/ pc[s] = "lock" /\ \E l \in rows[s] : IsFirst(l, rows[s]) /\ lotLock[l] = t
  \/ pc[s] = "lock" /\ rows[s] = {} /\ Candidates(s) # {} /\ keyLock[Arena(s)] = t
  \/ pc[s] = "zero" /\ lotLock[Intent(s)] = t

\* The locks are granted without a deadlock, though a publication takes one
\* after another while others and refunds want the same ones: among any
\* sessions there is one that waits for none of them
\* (ListAvailablePassLotsForUpdate, ZeroPassLotRemaining, the unique key of
\* arena_pass_consumptions).
NoDeadlock ==
  \A group \in (SUBSET Sessions) \ {{}} :
    \E s \in group : \A t \in group : ~WaitsFor(s, t)

\* "It returns nil only when the event was handled (processed or ignored)"
\* (process_webhook.go:106).  A delivery that finds a failed event returns nil.
NilMeansHandled ==
  \A s \in Sessions :
    told[s] \in {"handled", "acknowledged"} => events[Event(s)] = "processed"

\* needs_review is "True when part of the benefit was already consumed"
\* (00021_billing_refunds.sql:112), and the passes revoked are those
\* that remained (:111).  The passes are counted before they are zeroed.
RefundsMatchLots ==
  \A r \in Refunds : journal[r] # NoEntry =>
    LET used == Cardinality(ConsumedFrom(journal[r].intent)) IN
    /\ journal[r].revoked + used <= Quantity[journal[r].intent]
    /\ used > 0 => journal[r].review
=============================================================================
