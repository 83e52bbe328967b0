-------------------------- MODULE PublicationProofs --------------------------
(***************************************************************************)
(* What publication guarantees for every number of authors, keys, Arenas   *)
(* and sessions, every set of requests and every depth of replies.         *)
(***************************************************************************)
EXTENDS Publication, FiniteSums, TLAPS

(***************************************************************************)
(* What each statement of a session may rely on.  A session that has       *)
(* written a debit owns the row and the key, so nobody else can have       *)
(* posted under the key or spent the balance; one that found its key       *)
(* posted will find it so; one that inserted its argument is alone with    *)
(* it; and what it checked of the parent cannot change.                    *)
(***************************************************************************)
Publishing == {"replay", "account", "arena", "parent", "debit", "claim", "create", "commit",
               "resolve"}

RequestInv(s) ==
  /\ pc[s] \in Publishing => req[s] \in Requests
  /\ pc[s] \in {"read", "update", "reread"} => req[s] \in Withdrawals
  /\ pc[s] \in {"update", "reread"} => Exists(req[s].target)

Funded(s) == holder[Author(s)] = s /\ req[s].cost <= ink[Author(s)]

ChargeInv(s) ==
  /\ charging[s] =>
       /\ pc[s] \in {"create", "commit"}
       /\ Funded(s)
       /\ claimant[Key(s)] = s /\ posted[Key(s)] = NoOperation
  /\ pc[s] = "claim" => Funded(s)
  /\ pc[s] \in {"create", "commit"} => charging[s] \/ PostedTo(Author(s), Key(s))
  /\ pc[s] = "resolve" => Exists(Slot(s))

Replyable(arena, p) ==
  Exists(p) /\ arguments[p].arena = arena /\ arguments[p].depth + 1 <= MaxDepth

ParentInv(s) ==
  pc[s] \in {"debit", "claim", "create", "commit"} /\ req[s].parent # NoParent =>
    Replyable(req[s].arena, req[s].parent)

Answered(s, outcome) ==
  /\ Truthful(s, outcome)
  /\ outcome \in {"published", "replayed", "mismatch"} => req[s] \in Requests
  /\ outcome = "withdrawn" => req[s] \in Withdrawals /\ Exists(req[s].target)

SessionInv(s) ==
  /\ RequestInv(s) /\ ChargeInv(s) /\ ParentInv(s)
  /\ pc[s] = "idle" => Answered(s, answer[s])

\* A withdrawal is remembered, and an argument that was withdrawn is not displayed.
RowsCoherent ==
  \A x \in Slots : Exists(x) =>
    /\ arguments[x].status = "withdrawn" => arguments[x].withdrawn
    /\ arguments[x].withdrawn => arguments[x].status # "published"

RecordInv == ChargeIsIndivisible /\ RepliesAreAnchored /\ RowsCoherent

IInv == TypeOK /\ RecordInv /\ \A s \in Sessions : SessionInv(s)

\* The unique index of author and key: one session inserts, and nobody has before.
InsertsAlone ==
  \A s \in Sessions : pc[s] = "commit" =>
    ~Exists(Slot(s)) /\ \A t \in Sessions : ~Inserts(t, s)
-----------------------------------------------------------------------------
LEMMA RequestFields ==
  ASSUME NEW r \in Requests
  PROVE  /\ r.kind = "publish" /\ r.author \in Authors /\ r.key \in Keys /\ r.arena \in Arenas
         /\ r.parent \in Slots \cup {NoParent} /\ r.cost \in Costs
         /\ <<r.author, r.key>> \in Slots
  BY PublicationAssumption DEF Slots

LEMMA WithdrawalFields ==
  ASSUME NEW r \in Withdrawals
  PROVE  r.kind = "withdraw" /\ r.author \in Authors /\ r.target \in Slots
  BY DEF Withdrawals

LEMMA RowFields ==
  ASSUME TypeOK, NEW x \in Slots, Exists(x)
  PROVE  /\ arguments[x] \in ArgumentRows
         /\ arguments[x].arena \in Arenas /\ arguments[x].parent \in Slots \cup {NoParent}
         /\ arguments[x].cost \in Costs /\ arguments[x].depth \in Nat
         /\ arguments[x].status \in Statuses /\ arguments[x].withdrawn \in BOOLEAN
  BY DEF TypeOK, Exists, ArgumentRows
-----------------------------------------------------------------------------
(***************************************************************************)
(* A step leaves a session alone that keeps its locks, what the locks      *)
(* protect, and the history of the arguments.                              *)
(***************************************************************************)
RowsPersist ==
  \A x \in Slots : Exists(x) =>
    /\ Exists(x)'
    /\ arguments'[x].arena = arguments[x].arena /\ arguments'[x].parent = arguments[x].parent
    /\ arguments'[x].cost = arguments[x].cost /\ arguments'[x].depth = arguments[x].depth
    /\ arguments[x].withdrawn => arguments'[x].withdrawn

Undisturbed(t) ==
  /\ pc'[t] = pc[t] /\ req'[t] = req[t] /\ charging'[t] = charging[t] /\ answer'[t] = answer[t]
  /\ \A a \in Authors : holder[a] = t => 
       holder'[a] = t /\ ink'[a] \in Nat /\ ink'[a] >= ink[a]
  /\ \A k \in Keys : claimant[k] = t => claimant'[k] = t /\ posted'[k] = posted[k]
  /\ \A k \in Keys : posted[k] # NoOperation => posted'[k] = posted[k]

LEMMA AnswersLast ==
  ASSUME TypeOK, NEW s \in Sessions, NEW outcome, RowsPersist,
         \A k \in Keys : posted[k] # NoOperation => posted'[k] = posted[k],
         req'[s] = req[s], Answered(s, outcome)
  PROVE  Answered(s, outcome)'
<1>1. outcome \in {"published", "replayed", "mismatch"} => Slot(s) \in Slots /\ Key(s) \in Keys
  BY RequestFields DEF Slot, Key, Answered
<1>2. Slot(s)' = Slot(s) /\ Key(s)' = Key(s) /\ Author(s)' = Author(s)
  BY DEF Slot, Key, Author
<1>3. outcome = "withdrawn" => req[s].target \in Slots
  BY WithdrawalFields DEF Answered
<1>. QED BY <1>1, <1>2, <1>3 DEF Truthful, Answered, RowsPersist

LEMMA Bystander ==
  ASSUME TypeOK, NEW t \in Sessions, SessionInv(t), RowsPersist, Undisturbed(t)
  PROVE  SessionInv(t)'
<1>1. Author(t)' = Author(t) /\ Key(t)' = Key(t) /\ Slot(t)' = Slot(t)
  BY DEF Undisturbed, Author, Key, Slot
<1>2. req[t] \in Requests =>
        Author(t) \in Authors /\ Key(t) \in Keys /\ Slot(t) \in Slots /\ req[t].cost \in Nat
  BY RequestFields DEF Author, Key, Slot, Costs
<1>3. RequestInv(t)'
  BY WithdrawalFields DEF SessionInv, RequestInv, Undisturbed, RowsPersist
<1>4. pc[t] \in Publishing => req[t] \in Requests
  BY DEF SessionInv, RequestInv
<1>5. ChargeInv(t)'
  <2>1. req[t] \in Requests /\ Funded(t) => Funded(t)'
    <3>. SUFFICES ASSUME req[t] \in Requests, Funded(t) PROVE Funded(t)'
      OBVIOUS
    <3>1. Author(t) \in Authors /\ req'[t] = req[t] /\ req[t].cost \in Nat
      BY <1>2 DEF Undisturbed
    <3>2. holder[Author(t)] = t /\ req[t].cost <= ink[Author(t)] /\ ink[Author(t)] \in Nat
      BY <3>1 DEF Funded, TypeOK
    <3>3. holder'[Author(t)] = t /\ ink'[Author(t)] \in Nat /\ ink'[Author(t)] >= ink[Author(t)]
      BY <3>1, <3>2 DEF Undisturbed
    <3>. QED BY <1>1, <3>1, <3>2, <3>3 DEF Funded
  <2>2. req[t] \in Requests /\ PostedTo(Author(t), Key(t)) => PostedTo(Author(t), Key(t))'
    BY <1>1, <1>2 DEF PostedTo, Undisturbed
  <2>3. req[t] \in Requests /\ Exists(Slot(t)) => Exists(Slot(t))'
    BY <1>1, <1>2 DEF RowsPersist
  <2>. QED BY <1>1, <1>2, <1>4, <2>1, <2>2, <2>3
           DEF SessionInv, ChargeInv, Undisturbed, Publishing
<1>6. ParentInv(t)'
  <2>. SUFFICES ASSUME pc[t] \in {"debit", "claim", "create", "commit"},
                       req[t].parent # NoParent
                PROVE  Replyable(req[t].arena, req[t].parent)'
    BY DEF ParentInv, Undisturbed
  <2>1. req[t].parent \in Slots
    BY <1>4, RequestFields DEF Publishing
  <2>2. Replyable(req[t].arena, req[t].parent)
    BY DEF SessionInv, ParentInv
  <2>. QED BY <2>1, <2>2 DEF Replyable, RowsPersist, Undisturbed
<1>7. (pc[t] = "idle" => Answered(t, answer[t]))'
  <2>1. PICK outcome : outcome = answer[t]
    OBVIOUS
  <2>2. pc[t] = "idle" => Answered(t, outcome)
    BY <2>1 DEF SessionInv
  <2>3. pc[t] = "idle" => Answered(t, outcome)'
    BY <2>2, AnswersLast DEF Undisturbed
  <2>4. answer'[t] = outcome /\ pc'[t] = pc[t]
    BY <2>1 DEF Undisturbed
  <2>. QED BY <2>3, <2>4 DEF Answered, Truthful
<1>. QED BY <1>3, <1>5, <1>6, <1>7 DEF SessionInv
-----------------------------------------------------------------------------
(***************************************************************************)
(* Steps of a session that commit nothing: it is enough to follow the      *)
(* session itself.                                                         *)
(***************************************************************************)
LEMMA GoesTo ==
  ASSUME TypeOK, NEW s \in Sessions, NEW stage \in Stages, Goes(s, stage)
  PROVE  /\ pc'[s] = stage /\ \A t \in Sessions \ {s} : pc'[t] = pc[t]
         /\ pc' \in [Sessions -> Stages]
  BY DEF TypeOK, Goes

LEMMA ReleaseOnlyOwn ==
  ASSUME TypeOK, NEW s \in Sessions, ReleaseLocks(s)
  PROVE  /\ \A t \in Sessions \ {s} :
              /\ \A a \in Authors : holder[a] = t => holder'[a] = t
              /\ \A k \in Keys : claimant[k] = t => claimant'[k] = t
              /\ charging'[t] = charging[t]
         /\ ~charging'[s]
         /\ holder' \in [Authors -> Sessions \cup {NoSession}]
         /\ claimant' \in [Keys -> Sessions \cup {NoSession}]
         /\ charging' \in [Sessions -> BOOLEAN]
  BY DEF TypeOK, ReleaseLocks

OnlyMoves(s) ==
  \A t \in Sessions \ {s} :
    /\ pc'[t] = pc[t] /\ req'[t] = req[t] /\ charging'[t] = charging[t]
    /\ answer'[t] = answer[t]
    /\ \A a \in Authors : holder[a] = t => holder'[a] = t
    /\ \A k \in Keys : claimant[k] = t => claimant'[k] = t

LEMMA NothingCommitted ==
  ASSUME IInv, NEW s \in Sessions, UNCHANGED <<worldVars, recordVars>>, OnlyMoves(s),
         TypeOK', SessionInv(s)'
  PROVE  IInv'
<1>1. RowsPersist
  BY DEF RowsPersist, recordVars, Exists
<1>2. ASSUME NEW t \in Sessions \ {s}
      PROVE  Undisturbed(t)
  BY DEF Undisturbed, OnlyMoves, recordVars, IInv, TypeOK
<1>3. \A t \in Sessions \ {s} : SessionInv(t)'
  BY <1>1, <1>2, Bystander DEF IInv
<1>4. RecordInv'
  BY DEF IInv, RecordInv, ChargeIsIndivisible, PaidFor, PostedTo, RepliesAreAnchored, RowsCoherent,
         Exists, recordVars
<1>. QED BY <1>3, <1>4 DEF IInv

LEMMA QuietTypes ==
  ASSUME TypeOK, UNCHANGED <<worldVars, recordVars, req>>, faults' \in 0 .. MaxFaults,
         holder' \in [Authors -> Sessions \cup {NoSession}],
         claimant' \in [Keys -> Sessions \cup {NoSession}],
         charging' \in [Sessions -> BOOLEAN],
         pc' \in [Sessions -> Stages], answer' \in [Sessions -> Outcomes]
  PROVE  TypeOK'
  BY DEF TypeOK, worldVars, recordVars

\* The session ends with a true answer.
LEMMA EndFacts ==
  ASSUME TypeOK, NEW s \in Sessions, NEW outcome \in Outcomes, EndsWith(s, outcome)
  PROVE  /\ pc'[s] = "idle" /\ answer'[s] = outcome /\ ~charging'[s]
         /\ \A t \in Sessions \ {s} : pc'[t] = pc[t] /\ answer'[t] = answer[t]
         /\ pc' \in [Sessions -> Stages] /\ answer' \in [Sessions -> Outcomes]
         /\ ReleaseLocks(s)
  BY ReleaseOnlyOwn DEF TypeOK, EndsWith, Goes, Stages

LEMMA AtRest ==
  ASSUME NEW s \in Sessions, pc'[s] = "idle", ~charging'[s], Answered(s, answer[s])'
  PROVE  SessionInv(s)'
  BY DEF SessionInv, RequestInv, ChargeInv, ParentInv, Publishing

LEMMA EndStep ==
  ASSUME IInv, NEW s \in Sessions, UNCHANGED <<worldVars, recordVars, req>>,
         faults' \in 0 .. MaxFaults,
         NEW outcome \in Outcomes, EndsWith(s, outcome), Answered(s, outcome)
  PROVE  IInv'
<1>1. TypeOK'
  BY EndFacts, ReleaseOnlyOwn, QuietTypes DEF IInv
<1>2. Answered(s, answer[s])'
  <2>1. answer'[s] = outcome
    BY EndFacts DEF IInv
  <2>. QED BY <2>1 DEF Answered, Truthful, recordVars, Exists, Slot, Key, Author
<1>3. SessionInv(s)'
  BY <1>2, EndFacts, AtRest DEF IInv
<1>4. OnlyMoves(s)
  BY EndFacts, ReleaseOnlyOwn DEF OnlyMoves, IInv
<1>. QED BY <1>1, <1>3, <1>4, NothingCommitted

\* The session goes to its next statement.
LEMMA GoesStep ==
  ASSUME IInv, NEW s \in Sessions, UNCHANGED <<worldVars, recordVars, req, answer, faults>>,
         NEW stage \in Stages, Goes(s, stage),
         holder' \in [Authors -> Sessions \cup {NoSession}],
         claimant' \in [Keys -> Sessions \cup {NoSession}],
         charging' \in [Sessions -> BOOLEAN],
         \A t \in Sessions \ {s} :
           /\ \A a \in Authors : holder[a] = t => holder'[a] = t
           /\ \A k \in Keys : claimant[k] = t => claimant'[k] = t
           /\ charging'[t] = charging[t],
         SessionInv(s)'
  PROVE  IInv'
<1>1. TypeOK'
  BY GoesTo, QuietTypes DEF IInv, TypeOK
<1>2. OnlyMoves(s)
  BY GoesTo DEF OnlyMoves, IInv
<1>. QED BY <1>1, <1>2, NothingCommitted

LEMMA StayStep ==
  ASSUME IInv, NEW s \in Sessions,
         UNCHANGED <<worldVars, recordVars, req, lockVars, charging, answer, faults>>,
         NEW stage \in Stages, Goes(s, stage), SessionInv(s)'
  PROVE  IInv'
<1>1. /\ holder' \in [Authors -> Sessions \cup {NoSession}]
      /\ claimant' \in [Keys -> Sessions \cup {NoSession}]
      /\ charging' \in [Sessions -> BOOLEAN]
  BY DEF IInv, TypeOK, lockVars
<1>. QED BY <1>1, GoesStep DEF lockVars
-----------------------------------------------------------------------------
LEMMA LookUpAttemptStep ==
  ASSUME IInv, NEW s \in Sessions, LookUpAttempt(s)
  PROVE  IInv'
<1>1. SessionInv(s) /\ TypeOK /\ pc[s] = "replay" /\ req[s] \in Requests
  BY DEF IInv, LookUpAttempt, SessionInv, RequestInv, Publishing
<1>2. UNCHANGED <<worldVars, recordVars, req, faults>> /\ faults' \in 0 .. MaxFaults
  BY <1>1 DEF LookUpAttempt, PassesIf, TypeOK
<1>3. CASE Exists(Slot(s))
  <2>1. EndsWith(s, "replayed") /\ "replayed" \in Outcomes
    BY <1>3 DEF LookUpAttempt, PassesIf, Outcomes
  <2>2. Answered(s, "replayed")
    BY <1>1, <1>3 DEF Answered, Truthful
  <2>. QED BY <1>2, <2>1, <2>2, EndStep
<1>4. CASE ~Exists(Slot(s))
  <2>1. /\ Goes(s, "account") /\ "account" \in Stages
        /\ UNCHANGED <<lockVars, charging, answer>>
    BY <1>4 DEF LookUpAttempt, PassesIf, Stages
  <2>2. pc'[s] = "account"
    BY <1>1, <2>1, GoesTo
  <2>3. SessionInv(s)'
    BY <1>1, <1>2, <2>1, <2>2 DEF SessionInv, RequestInv, ChargeInv, ParentInv, Publishing
  <2>. QED BY <1>2, <2>1, <2>3, StayStep
<1>. QED BY <1>3, <1>4

LEMMA EnsureEligibleStep ==
  ASSUME IInv, NEW s \in Sessions, EnsureEligible(s)
  PROVE  IInv'
<1>1. SessionInv(s) /\ TypeOK /\ pc[s] = "account" /\ req[s] \in Requests
  BY DEF IInv, EnsureEligible, SessionInv, RequestInv, Publishing
<1>2. UNCHANGED <<worldVars, recordVars, req, faults>> /\ faults' \in 0 .. MaxFaults
  BY <1>1 DEF EnsureEligible, PassesIf, TypeOK
<1>3. CASE Author(s) \notin eligible
  <2>1. EndsWith(s, "ineligible") /\ "ineligible" \in Outcomes
    BY <1>3 DEF EnsureEligible, PassesIf, Outcomes
  <2>2. Answered(s, "ineligible")
    BY DEF Answered, Truthful
  <2>. QED BY <1>2, <2>1, <2>2, EndStep
<1>4. CASE Author(s) \in eligible
  <2>1. /\ Goes(s, "arena") /\ "arena" \in Stages
        /\ UNCHANGED <<lockVars, charging, answer>>
    BY <1>4 DEF EnsureEligible, PassesIf, Stages
  <2>2. pc'[s] = "arena"
    BY <1>1, <2>1, GoesTo
  <2>3. SessionInv(s)'
    BY <1>1, <1>2, <2>1, <2>2 DEF SessionInv, RequestInv, ChargeInv, ParentInv, Publishing
  <2>. QED BY <1>2, <2>1, <2>3, StayStep
<1>. QED BY <1>3, <1>4

LEMMA EnsureAcceptsArgumentsStep ==
  ASSUME IInv, NEW s \in Sessions, EnsureAcceptsArguments(s)
  PROVE  IInv'
<1>1. SessionInv(s) /\ TypeOK /\ pc[s] = "arena" /\ req[s] \in Requests
  BY DEF IInv, EnsureAcceptsArguments, SessionInv, RequestInv, Publishing
<1>2. UNCHANGED <<worldVars, recordVars, req, faults>> /\ faults' \in 0 .. MaxFaults
  BY <1>1 DEF EnsureAcceptsArguments, PassesIf, TypeOK
<1>3. CASE req[s].arena \notin open
  <2>1. EndsWith(s, "closed") /\ "closed" \in Outcomes
    BY <1>3 DEF EnsureAcceptsArguments, PassesIf, Outcomes
  <2>2. Answered(s, "closed")
    BY DEF Answered, Truthful
  <2>. QED BY <1>2, <2>1, <2>2, EndStep
<1>4. CASE req[s].arena \in open
  <2>1. PICK stage \in {"debit", "parent"} :
          /\ Goes(s, stage) /\ UNCHANGED <<lockVars, charging, answer>>
          /\ stage = "debit" => req[s].parent = NoParent
    BY <1>4 DEF EnsureAcceptsArguments, PassesIf
  <2>2. stage \in Stages
    BY <2>1 DEF Stages
  <2>3. pc'[s] = stage
    BY <1>1, <2>1, <2>2, GoesTo
  <2>4. SessionInv(s)'
    BY <1>1, <1>2, <2>1, <2>3 DEF SessionInv, RequestInv, ChargeInv, ParentInv, Publishing
  <2>. QED BY <1>2, <2>1, <2>2, <2>4, StayStep
<1>. QED BY <1>3, <1>4

LEMMA EnsureParentStep ==
  ASSUME IInv, NEW s \in Sessions, ensureReplyableParent(s)
  PROVE  IInv'
<1> DEFINE p == req[s].parent
<1>1. SessionInv(s) /\ TypeOK /\ pc[s] = "parent" /\ req[s] \in Requests
  BY DEF IInv, ensureReplyableParent, SessionInv, RequestInv, Publishing
<1>2. UNCHANGED <<worldVars, recordVars, req, faults>> /\ faults' \in 0 .. MaxFaults
  BY <1>1 DEF ensureReplyableParent, PassesIf, TypeOK
<1>3. CASE EndsWith(s, "unavailable")
  <2>1. Answered(s, "unavailable") /\ "unavailable" \in Outcomes
    BY DEF Answered, Truthful, Outcomes
  <2>. QED BY <1>2, <1>3, <2>1, EndStep
<1>4. CASE /\ Replyable(req[s].arena, p) /\ Goes(s, "debit")
           /\ UNCHANGED <<lockVars, charging, answer>>
  <2>1. "debit" \in Stages
    BY DEF Stages
  <2>2. pc'[s] = "debit"
    BY <1>1, <1>4, <2>1, GoesTo
  <2>3. Replyable(req[s].arena, p)'
    BY <1>2, <1>4 DEF Replyable, Exists, recordVars
  <2>4. SessionInv(s)'
    BY <1>1, <1>2, <1>4, <2>2, <2>3 DEF SessionInv, RequestInv, ChargeInv, ParentInv, Publishing
  <2>. QED BY <1>2, <1>4, <2>1, <2>4, StayStep
<1>. QED BY <1>3, <1>4 DEF ensureReplyableParent, PassesIf, Has, Replyable
-----------------------------------------------------------------------------
(***************************************************************************)
(* The statements of the transaction.                                      *)
(***************************************************************************)
LEMMA ReplayDebitStep ==
  ASSUME IInv, NEW s \in Sessions, pc[s] \in {"debit", "claim"}, posted[Key(s)] # NoOperation,
         replayDebit(s), UNCHANGED <<worldVars, recordVars, req, faults>>
  PROVE  IInv'
<1>1. SessionInv(s) /\ TypeOK /\ req[s] \in Requests /\ faults' \in 0 .. MaxFaults
  BY DEF IInv, SessionInv, RequestInv, Publishing, TypeOK
<1>2. CASE posted[Key(s)].account = Author(s)
  <2>1. /\ Goes(s, "create") /\ "create" \in Stages
        /\ UNCHANGED holder \/ LocksRow(s)
        /\ UNCHANGED claimant /\ UNCHANGED charging /\ UNCHANGED answer
    BY <1>2 DEF replayDebit, Stages
  <2>2. pc'[s] = "create"
    BY <1>1, <2>1, GoesTo
  <2>3. PostedTo(Author(s), Key(s))' /\ ~charging'[s]
    BY <1>1, <1>2, <2>1
       DEF PostedTo, SessionInv, ChargeInv, Author, Key, recordVars, TypeOK
  <2>4. RequestInv(s)' /\ ChargeInv(s)'
    BY <1>1, <2>2, <2>3 DEF RequestInv, ChargeInv, Publishing
  <2>5. ParentInv(s)'
    BY <1>1, <2>2 DEF SessionInv, ParentInv, Replyable, Exists, recordVars
  <2>6. /\ holder' \in [Authors -> Sessions \cup {NoSession}]
        /\ \A t \in Sessions \ {s} : \A a \in Authors : holder[a] = t => holder'[a] = t
    BY <1>1, <2>1, PublicationAssumption DEF LocksRow, TypeOK
  <2>7. /\ claimant' \in [Keys -> Sessions \cup {NoSession}]
        /\ charging' \in [Sessions -> BOOLEAN]
    BY <1>1, <2>1 DEF TypeOK
  <2>8. SessionInv(s)'
    BY <2>2, <2>4, <2>5 DEF SessionInv
  <2>. QED BY <2>1, <2>6, <2>7, <2>8, GoesStep
<1>3. CASE posted[Key(s)].account # Author(s)
  <2>1. EndsWith(s, "mismatch") /\ "mismatch" \in Outcomes
    BY <1>3 DEF replayDebit, Outcomes
  <2>2. Answered(s, "mismatch")
    BY <1>1, <1>3 DEF Answered, Truthful
  <2>. QED BY <1>1, <2>1, <2>2, EndStep
<1>. QED BY <1>2, <1>3

LEMMA DebitStep ==
  ASSUME IInv, NEW s \in Sessions, Debit(s)
  PROVE  IInv'
<1>1. /\ SessionInv(s) /\ TypeOK /\ pc[s] = "debit" /\ req[s] \in Requests
      /\ Author(s) \in Authors /\ req[s].cost \in Nat
  BY RequestFields DEF IInv, Debit, SessionInv, RequestInv, Publishing, Author, Costs
<1>2. UNCHANGED <<worldVars, recordVars, req, faults>> /\ faults' \in 0 .. MaxFaults
  BY <1>1 DEF Debit, TypeOK
<1>3. CASE posted[Key(s)] # NoOperation
  BY <1>1, <1>2, <1>3, ReplayDebitStep DEF Debit
<1>4. CASE EndsWith(s, "insufficient")
  <2>1. Answered(s, "insufficient") /\ "insufficient" \in Outcomes
    BY DEF Answered, Truthful, Outcomes
  <2>. QED BY <1>2, <1>4, <2>1, EndStep
<1>5. CASE /\ ~(ink[Author(s)] < req[s].cost) /\ LocksRow(s) /\ Goes(s, "claim")
           /\ UNCHANGED <<claimant, charging, answer>>
  <2>1. /\ holder'[Author(s)] = s
        /\ \A t \in Sessions \ {s} : \A a \in Authors : holder[a] = t => holder'[a] = t
        /\ holder' \in [Authors -> Sessions \cup {NoSession}]
    BY <1>1, <1>5, PublicationAssumption DEF LocksRow, TypeOK
  <2>2. pc'[s] = "claim" /\ "claim" \in Stages
    BY <1>1, <1>5, GoesTo DEF Stages
  <2>3. /\ claimant' \in [Keys -> Sessions \cup {NoSession}]
        /\ charging' \in [Sessions -> BOOLEAN]
    BY <1>1, <1>5 DEF TypeOK
  <2>4. req[s].cost <= ink[Author(s)]
    BY <1>1, <1>5 DEF TypeOK
  <2>5. RequestInv(s)' /\ ChargeInv(s)'
    BY <1>1, <1>2, <1>5, <2>1, <2>2, <2>4
       DEF SessionInv, RequestInv, ChargeInv, Funded, Publishing, Author, recordVars
  <2>6. ParentInv(s)'
    BY <1>1, <1>2, <2>2 DEF SessionInv, ParentInv, Replyable, Exists, recordVars
  <2>7. SessionInv(s)'
    BY <2>2, <2>5, <2>6 DEF SessionInv
  <2>8. UNCHANGED claimant /\ UNCHANGED charging /\ UNCHANGED answer
    BY <1>5
  <2>. QED BY <1>2, <1>5, <2>1, <2>2, <2>3, <2>7, <2>8, GoesStep
<1>. QED BY <1>3, <1>4, <1>5 DEF Debit

LEMMA ClaimKeyStep ==
  ASSUME IInv, NEW s \in Sessions, ClaimKey(s)
  PROVE  IInv'
<1>1. /\ SessionInv(s) /\ TypeOK /\ pc[s] = "claim" /\ req[s] \in Requests
      /\ Author(s) \in Authors /\ Key(s) \in Keys
  BY RequestFields DEF IInv, ClaimKey, SessionInv, RequestInv, Publishing, Author, Key
<1>2. UNCHANGED <<worldVars, recordVars, req, faults>>
  BY DEF ClaimKey
<1>3. CASE posted[Key(s)] # NoOperation
  BY <1>1, <1>2, <1>3, ReplayDebitStep DEF ClaimKey
<1>4. CASE posted[Key(s)] = NoOperation
  <2>1. /\ claimant[Key(s)] = NoSession /\ claimant' = [claimant EXCEPT ![Key(s)] = s]
        /\ charging' = [charging EXCEPT ![s] = TRUE]
        /\ Goes(s, "create") /\ UNCHANGED <<holder, answer>>
    BY <1>4 DEF ClaimKey
  <2>2. /\ claimant'[Key(s)] = s
        /\ \A t \in Sessions \ {s} : \A k \in Keys : claimant[k] = t => claimant'[k] = t
        /\ claimant' \in [Keys -> Sessions \cup {NoSession}]
    BY <1>1, <2>1, PublicationAssumption DEF TypeOK
  <2>3. /\ charging' \in [Sessions -> BOOLEAN]
        /\ \A t \in Sessions \ {s} : charging'[t] = charging[t]
        /\ holder' \in [Authors -> Sessions \cup {NoSession}]
    BY <1>1, <2>1 DEF TypeOK
  <2>4. pc'[s] = "create" /\ "create" \in Stages /\ charging'[s]
    BY <1>1, <2>1, GoesTo DEF Stages, TypeOK
  <2>5. RequestInv(s)' /\ ChargeInv(s)'
    BY <1>1, <1>2, <1>4, <2>1, <2>2, <2>4
       DEF SessionInv, RequestInv, ChargeInv, Funded, Publishing, Author, Key, recordVars
  <2>6. ParentInv(s)'
    BY <1>1, <1>2, <2>4 DEF SessionInv, ParentInv, Replyable, Exists, recordVars
  <2>7. SessionInv(s)'
    BY <2>4, <2>5, <2>6 DEF SessionInv
  <2>8. UNCHANGED holder /\ UNCHANGED answer
    BY <2>1
  <2>. QED BY <1>2, <2>1, <2>2, <2>3, <2>4, <2>7, <2>8, GoesStep
<1>. QED BY <1>3, <1>4

LEMMA CreateArgumentStep ==
  ASSUME IInv, NEW s \in Sessions, CreateArgument(s)
  PROVE  IInv'
<1>1. SessionInv(s) /\ TypeOK /\ pc[s] = "create" /\ req[s] \in Requests
  BY DEF IInv, CreateArgument, SessionInv, RequestInv, Publishing
<1>2. UNCHANGED <<worldVars, recordVars, req, answer, faults>>
  BY DEF CreateArgument
<1>3. CASE Exists(Slot(s))
  <2>1. ReleaseLocks(s) /\ Goes(s, "resolve") /\ "resolve" \in Stages
    BY <1>3 DEF CreateArgument, Stages
  <2>2. pc'[s] = "resolve" /\ ~charging'[s] /\ Exists(Slot(s))'
    BY <1>1, <1>2, <1>3, <2>1, GoesTo, ReleaseOnlyOwn DEF Exists, Slot, recordVars
  <2>3. SessionInv(s)'
    BY <1>1, <1>2, <2>2 DEF SessionInv, RequestInv, ChargeInv, ParentInv, Publishing
  <2>. QED BY <1>1, <1>2, <2>1, <2>3, ReleaseOnlyOwn, GoesStep
<1>4. CASE ~Exists(Slot(s))
  <2>1. Goes(s, "commit") /\ UNCHANGED <<lockVars, charging>> /\ "commit" \in Stages
    BY <1>4 DEF CreateArgument, Stages
  <2>2. pc'[s] = "commit"
    BY <1>1, <2>1, GoesTo
  <2>3. charging[s] \/ PostedTo(Author(s), Key(s))
    BY <1>1 DEF SessionInv, ChargeInv
  <2>4. RequestInv(s)' /\ ChargeInv(s)'
    BY <1>1, <1>2, <2>1, <2>2, <2>3
       DEF SessionInv, RequestInv, ChargeInv, Funded, PostedTo, Publishing, Author, Key,
           recordVars, lockVars
  <2>5. ParentInv(s)'
    BY <1>1, <1>2, <2>2 DEF SessionInv, ParentInv, Replyable, Exists, recordVars
  <2>. QED BY <1>2, <2>1, <2>2, <2>4, <2>5, StayStep DEF SessionInv
<1>. QED BY <1>3, <1>4

LEMMA ResolveReplayStep ==
  ASSUME IInv, NEW s \in Sessions, ResolveReplay(s)
  PROVE  IInv'
<1>1. SessionInv(s) /\ pc[s] = "resolve" /\ req[s] \in Requests /\ faults' \in 0 .. MaxFaults
  BY DEF IInv, ResolveReplay, SessionInv, RequestInv, Publishing, TypeOK
<1>2. Exists(Slot(s)) /\ EndsWith(s, "replayed") /\ "replayed" \in Outcomes
  BY <1>1 DEF ResolveReplay, SessionInv, ChargeInv, Outcomes
<1>3. Answered(s, "replayed")
  BY <1>1, <1>2 DEF Answered, Truthful
<1>. QED BY <1>1, <1>2, <1>3, EndStep DEF ResolveReplay
-----------------------------------------------------------------------------
(***************************************************************************)
(* A step that only moves the status of one argument.                      *)
(***************************************************************************)
SameProvenance(row, x) ==
  /\ row.arena = arguments[x].arena /\ row.parent = arguments[x].parent
  /\ row.cost = arguments[x].cost /\ row.depth = arguments[x].depth
  /\ arguments[x].withdrawn => row.withdrawn

LEMMA StatusMoves ==
  ASSUME TypeOK, RecordInv, NEW x \in Slots, Exists(x), NEW row \in ArgumentRows,
         SameProvenance(row, x),
         row.status = "withdrawn" => row.withdrawn,
         row.withdrawn => row.status # "published",
         arguments' = [arguments EXCEPT ![x] = row], UNCHANGED posted
  PROVE  /\ RowsPersist /\ RecordInv'
         /\ arguments' \in [Slots -> ArgumentRows \cup {NoArgument}]
<1>1. arguments' \in [Slots -> ArgumentRows \cup {NoArgument}]
  BY DEF TypeOK
<1>2. row # NoArgument
  BY PublicationAssumption
<1>3. arguments'[x] = row /\ \A y \in Slots \ {x} : arguments'[y] = arguments[y]
  BY DEF TypeOK
<1>4. \A y \in Slots : Exists(y)' <=> Exists(y)
  BY <1>2, <1>3 DEF Exists
<1>5. \A y \in Slots : Exists(y) =>
        /\ arguments'[y].arena = arguments[y].arena /\ arguments'[y].parent = arguments[y].parent
        /\ arguments'[y].cost = arguments[y].cost /\ arguments'[y].depth = arguments[y].depth
        /\ arguments[y].withdrawn => arguments'[y].withdrawn
  BY <1>3 DEF SameProvenance
<1>6. RowsPersist
  BY <1>4, <1>5 DEF RowsPersist
<1>7. ChargeIsIndivisible'
  <2>1. \A a \in Authors, k \in Keys : <<a, k>> \in Slots
    BY DEF Slots
  <2>2. \A a \in Authors, k \in Keys :
          (PaidFor(a, k)' <=> PaidFor(a, k)) /\ (PostedTo(a, k)' <=> PostedTo(a, k))
    BY DEF PaidFor, PostedTo
  <2>3. \A a \in Authors, k \in Keys :
          /\ PaidFor(a, k) => Exists(<<a, k>>) /\ posted[k].cost = arguments[<<a, k>>].cost
          /\ Exists(<<a, k>>) => PostedTo(a, k)
    BY DEF RecordInv, ChargeIsIndivisible
  <2>4. \A a \in Authors, k \in Keys :
          /\ Exists(<<a, k>>)' <=> Exists(<<a, k>>)
          /\ Exists(<<a, k>>) => arguments'[<<a, k>>].cost = arguments[<<a, k>>].cost
    BY <1>4, <1>5, <2>1
  <2>. QED BY <2>2, <2>3, <2>4 DEF ChargeIsIndivisible
<1>8. RepliesAreAnchored'
  <2>1. \A y \in Slots : Exists(y) => arguments[y].parent \in Slots \cup {NoParent}
    BY RowFields
  <2>. QED BY <1>4, <1>5, <2>1 DEF RecordInv, RepliesAreAnchored
<1>9. RowsCoherent'
  BY <1>3, <1>4 DEF RecordInv, RowsCoherent
<1>. QED BY <1>1, <1>6, <1>7, <1>8, <1>9 DEF RecordInv

LEMMA WithdrawnRow ==
  ASSUME TypeOK, NEW x \in Slots, Has(x, "published")
  PROVE  LET row == [arguments[x] EXCEPT !.status = "withdrawn", !.withdrawn = TRUE] IN
         /\ row \in ArgumentRows /\ SameProvenance(row, x)
         /\ row.status = "withdrawn" /\ row.withdrawn
  BY RowFields DEF Has, ArgumentRows, Statuses, SameProvenance

LEMMA ReadForAuthorStep ==
  ASSUME IInv, NEW s \in Sessions, ReadForAuthor(s)
  PROVE  IInv'
<1>1. /\ SessionInv(s) /\ TypeOK /\ pc[s] = "read" /\ req[s] \in Withdrawals
      /\ req[s].target \in Slots
  BY WithdrawalFields DEF IInv, ReadForAuthor, SessionInv, RequestInv
<1>2. UNCHANGED <<worldVars, recordVars, req, faults>> /\ faults' \in 0 .. MaxFaults
  BY <1>1 DEF ReadForAuthor, TypeOK
<1>3. CASE EndsWith(s, "missing")
  <2>1. Answered(s, "missing") /\ "missing" \in Outcomes
    BY DEF Answered, Truthful, Outcomes
  <2>. QED BY <1>2, <1>3, <2>1, EndStep
<1>4. CASE /\ Exists(req[s].target) /\ Goes(s, "update")
           /\ UNCHANGED <<lockVars, charging, answer>>
  <2>1. pc'[s] = "update" /\ "update" \in Stages
    BY <1>1, <1>4, GoesTo DEF Stages
  <2>2. Exists(req[s].target)' /\ req'[s] = req[s] /\ charging'[s] = charging[s]
    BY <1>2, <1>4 DEF Exists, recordVars
  <2>3. SessionInv(s)'
    BY <1>1, <2>1, <2>2 DEF SessionInv, RequestInv, ChargeInv, ParentInv, Publishing
  <2>. QED BY <1>2, <1>4, <2>1, <2>3, StayStep
<1>5. CASE Exists(req[s].target) /\ EndsWith(s, Retracted(s))
  <2>1. PICK outcome \in {"withdrawn", "fixed"} :
          /\ EndsWith(s, outcome)
          /\ outcome = "withdrawn" => arguments[req[s].target].status = "withdrawn"
    BY <1>5 DEF Retracted
  <2>2. Answered(s, outcome) /\ outcome \in Outcomes
    BY <1>1, <1>5, <2>1 DEF IInv, RecordInv, RowsCoherent, Answered, Truthful, Outcomes
  <2>. QED BY <1>2, <2>1, <2>2, EndStep
<1>. QED BY <1>3, <1>4, <1>5 DEF ReadForAuthor, Owned

LEMMA ReadAgainStep ==
  ASSUME IInv, NEW s \in Sessions, ReadAgain(s)
  PROVE  IInv'
<1>1. /\ SessionInv(s) /\ TypeOK /\ pc[s] = "reread" /\ req[s] \in Withdrawals
      /\ req[s].target \in Slots /\ Exists(req[s].target)
  BY WithdrawalFields DEF IInv, ReadAgain, SessionInv, RequestInv
<1>2. UNCHANGED <<worldVars, recordVars, req, faults>> /\ faults' \in 0 .. MaxFaults
  BY <1>1 DEF ReadAgain, TypeOK
<1>3. PICK outcome \in {"withdrawn", "fixed"} :
        /\ EndsWith(s, outcome)
        /\ outcome = "withdrawn" => arguments[req[s].target].status = "withdrawn"
  BY DEF Retracted, ReadAgain
<1>4. Answered(s, outcome) /\ outcome \in Outcomes
  BY <1>1, <1>3 DEF IInv, RecordInv, RowsCoherent, Answered, Truthful, Outcomes
<1>. QED BY <1>2, <1>3, <1>4, EndStep

\* What the rows of the other tables and the locks say, when only a row moved.
LEMMA RowMoved ==
  ASSUME TypeOK, NEW t \in Sessions, SessionInv(t), RowsPersist,
         UNCHANGED <<ink, posted>>,
         pc'[t] = pc[t], req'[t] = req[t], charging'[t] = charging[t], answer'[t] = answer[t],
         \A a \in Authors : holder[a] = t => holder'[a] = t,
         \A k \in Keys : claimant[k] = t => claimant'[k] = t
  PROVE  SessionInv(t)'
<1>1. Undisturbed(t)
  BY DEF Undisturbed, TypeOK
<1>. QED BY <1>1, Bystander

LEMMA WithdrawArgumentStep ==
  ASSUME IInv, NEW s \in Sessions, WithdrawArgument(s)
  PROVE  IInv'
<1> DEFINE x == req[s].target
<1>1. /\ SessionInv(s) /\ TypeOK /\ pc[s] = "update" /\ req[s] \in Withdrawals
      /\ x \in Slots /\ Exists(x)
  BY WithdrawalFields DEF IInv, WithdrawArgument, SessionInv, RequestInv
<1>2. UNCHANGED <<worldVars, ink, posted, req, faults>>
  BY DEF WithdrawArgument
<1>3. CASE ~Has(x, "published")
  <2>1. /\ Goes(s, "reread") /\ "reread" \in Stages
        /\ UNCHANGED <<arguments, lockVars, charging, answer>>
    BY <1>3 DEF WithdrawArgument, Stages
  <2>2. pc'[s] = "reread"
    BY <1>1, <2>1, GoesTo
  <2>3. SessionInv(s)'
    BY <1>1, <1>2, <2>1, <2>2
       DEF SessionInv, RequestInv, ChargeInv, ParentInv, Publishing, Exists
  <2>. QED BY <1>2, <2>1, <2>3, StayStep DEF recordVars
<1>4. CASE Has(x, "published")
  <2> DEFINE row == [arguments[x] EXCEPT !.status = "withdrawn", !.withdrawn = TRUE]
  <2>1. arguments' = [arguments EXCEPT ![x] = row] /\ EndsWith(s, "withdrawn")
    BY <1>4 DEF WithdrawArgument
  <2>2. row \in ArgumentRows /\ SameProvenance(row, x) /\ row.status = "withdrawn" /\ row.withdrawn
    BY <1>1, <1>4, WithdrawnRow
  <2>. HIDE DEF row
  <2>3. /\ RowsPersist /\ RecordInv'
        /\ arguments' \in [Slots -> ArgumentRows \cup {NoArgument}]
    BY <1>1, <1>2, <2>1, <2>2, StatusMoves DEF IInv
  <2>4. "withdrawn" \in Outcomes
    BY DEF Outcomes
  <2>5. /\ pc'[s] = "idle" /\ answer'[s] = "withdrawn" /\ ~charging'[s]
        /\ \A t \in Sessions \ {s} : pc'[t] = pc[t] /\ answer'[t] = answer[t]
        /\ pc' \in [Sessions -> Stages] /\ answer' \in [Sessions -> Outcomes]
        /\ ReleaseLocks(s)
    BY <1>1, <2>1, <2>4, EndFacts
  <2>6. TypeOK'
    BY <1>1, <1>2, <2>3, <2>5, ReleaseOnlyOwn DEF TypeOK, worldVars
  <2>7. arguments'[x] = row /\ row # NoArgument
    BY <1>1, <2>1, <2>2, PublicationAssumption DEF TypeOK
  <2>8. Answered(s, answer[s])'
    BY <1>1, <1>2, <2>2, <2>5, <2>7 DEF Answered, Truthful, Exists
  <2>9. SessionInv(s)'
    BY <2>5, <2>8, AtRest
  <2>10. \A t \in Sessions \ {s} : SessionInv(t)'
    BY <1>1, <1>2, <2>3, <2>5, ReleaseOnlyOwn, RowMoved DEF IInv
  <2>. QED BY <2>3, <2>6, <2>9, <2>10 DEF IInv
<1>. QED BY <1>3, <1>4
-----------------------------------------------------------------------------
(***************************************************************************)
(* The commit, answered or not: one argument recorded and, unless its key  *)
(* had been posted, one debit and one balance reduced by its cost.         *)
(***************************************************************************)
Charges(s) ==
  /\ holder[Author(s)] = s /\ claimant[Key(s)] = s /\ posted[Key(s)] = NoOperation
  /\ req[s].cost <= ink[Author(s)]
  /\ posted' = [posted EXCEPT ![Key(s)] = [account |-> Author(s), cost |-> req[s].cost]]
  /\ ink' = [ink EXCEPT ![Author(s)] = @ - req[s].cost]

TakesPosted(s) ==
  /\ PostedTo(Author(s), Key(s)) /\ posted[Key(s)].cost = 0
  /\ UNCHANGED <<posted, ink>>

LEMMA LandsFacts ==
  ASSUME IInv, InsertsAlone, NEW s \in Sessions, Lands(s)
  PROVE  /\ req[s] \in Requests /\ Author(s) \in Authors /\ Key(s) \in Keys /\ Slot(s) \in Slots
         /\ Slot(s) = <<Author(s), Key(s)>> /\ req[s].cost \in Costs
         /\ ~Exists(Slot(s))
         /\ arguments' = [arguments EXCEPT ![Slot(s)] = NewArgument(s)]
         /\ Charges(s) \/ TakesPosted(s)
         /\ UNCHANGED <<worldVars, req>>
<1>1. SessionInv(s) /\ pc[s] = "commit" /\ req[s] \in Requests
  BY DEF IInv, Lands, SessionInv, RequestInv, Publishing
<1>2. /\ Author(s) \in Authors /\ Key(s) \in Keys /\ Slot(s) \in Slots
      /\ Slot(s) = <<Author(s), Key(s)>> /\ req[s].cost \in Costs
  BY <1>1, RequestFields DEF Author, Key, Slot
<1>3. ~Exists(Slot(s))
  BY <1>1 DEF InsertsAlone
<1>4. ASSUME charging[s]
      PROVE  Charges(s)
  <2>1. /\ holder[Author(s)] = s /\ claimant[Key(s)] = s /\ posted[Key(s)] = NoOperation
        /\ req[s].cost <= ink[Author(s)]
    BY <1>1, <1>4 DEF SessionInv, ChargeInv, Funded
  <2>2. /\ posted' = [posted EXCEPT ![Key(s)] = [account |-> Author(s), cost |-> req[s].cost]]
        /\ ink' = [ink EXCEPT ![Author(s)] = @ - req[s].cost]
    BY <1>4 DEF Lands
  <2>. QED BY <2>1, <2>2 DEF Charges
<1>5. ASSUME ~charging[s]
      PROVE  TakesPosted(s)
  <2>1. PostedTo(Author(s), Key(s)) /\ UNCHANGED <<posted, ink>>
    BY <1>1, <1>5 DEF SessionInv, ChargeInv, Lands
  <2>2. ~PaidFor(Author(s), Key(s))
    BY <1>2, <1>3 DEF IInv, RecordInv, ChargeIsIndivisible
  <2>. QED BY <2>1, <2>2 DEF PaidFor, TakesPosted
<1>6. /\ arguments' = [arguments EXCEPT ![Slot(s)] = NewArgument(s)]
      /\ UNCHANGED <<worldVars, req>>
  BY DEF Lands
<1>. QED BY <1>1, <1>2, <1>3, <1>4, <1>5, <1>6

\* What a commit leaves of the wallet and its operations.
LEMMA LandsPosts ==
  ASSUME IInv, InsertsAlone, NEW s \in Sessions, Lands(s)
  PROVE  /\ posted' \in [Keys -> Operations \cup {NoOperation}]
         /\ ink' \in [Authors -> Nat]
         /\ \A j \in Keys : posted[j] # NoOperation => posted'[j] = posted[j]
         /\ \A j \in Keys \ {Key(s)} : posted'[j] = posted[j]
         /\ PostedTo(Author(s), Key(s))'
         /\ posted'[Key(s)].cost # 0 => posted'[Key(s)].cost = req[s].cost
         /\ \A t \in Sessions \ {s} :
              /\ \A a \in Authors : holder[a] = t => ink'[a] = ink[a]
              /\ \A j \in Keys : claimant[j] = t => posted'[j] = posted[j]
<1>1. /\ Author(s) \in Authors /\ Key(s) \in Keys /\ req[s].cost \in Nat /\ TypeOK
      /\ Charges(s) \/ TakesPosted(s)
      /\ req' = req
  BY LandsFacts DEF IInv, Costs
<1>2. Author(s)' = Author(s) /\ Key(s)' = Key(s)
  BY LandsFacts DEF Author, Key
<1>3. CASE Charges(s)
  <2>1. [account |-> Author(s), cost |-> req[s].cost] \in Operations
    BY <1>1 DEF Operations
  <2>2. /\ posted' \in [Keys -> Operations \cup {NoOperation}]
        /\ posted'[Key(s)] = [account |-> Author(s), cost |-> req[s].cost]
        /\ posted'[Key(s)] # NoOperation
        /\ \A j \in Keys \ {Key(s)} : posted'[j] = posted[j]
        /\ posted[Key(s)] = NoOperation
    BY <1>1, <1>3, <2>1, PublicationAssumption DEF Charges, TypeOK
  <2>3. /\ ink' \in [Authors -> Nat]
        /\ \A a \in Authors \ {Author(s)} : ink'[a] = ink[a]
    BY <1>1, <1>3 DEF Charges, TypeOK
  <2>4. /\ \A t \in Sessions \ {s} : \A a \in Authors : holder[a] = t => a # Author(s)
        /\ \A t \in Sessions \ {s} : \A j \in Keys : claimant[j] = t => j # Key(s)
    BY <1>3 DEF Charges
  <2>5. PostedTo(Author(s), Key(s))' /\ posted'[Key(s)].cost = req[s].cost
    BY <1>2, <2>2 DEF PostedTo
  <2>. QED BY <2>2, <2>3, <2>4, <2>5
<1>4. CASE TakesPosted(s)
  BY <1>1, <1>2, <1>4 DEF TakesPosted, PostedTo, TypeOK
<1>. QED BY <1>1, <1>3, <1>4

LEMMA NewRow ==
  ASSUME IInv, InsertsAlone, NEW s \in Sessions, Lands(s)
  PROVE  LET row == NewArgument(s) IN
         /\ row \in ArgumentRows /\ row # NoArgument
         /\ row.arena = req[s].arena /\ row.parent = req[s].parent /\ row.cost = req[s].cost
         /\ row.status = "published" /\ ~row.withdrawn
         /\ row.depth <= MaxDepth
         /\ row.parent # NoParent =>
              /\ row.parent \in Slots /\ Exists(row.parent)
              /\ arguments[row.parent].arena = row.arena
              /\ row.depth = arguments[row.parent].depth + 1
<1>1. req[s] \in Requests /\ SessionInv(s) /\ TypeOK /\ pc[s] = "commit"
  BY LandsFacts DEF IInv, Lands
<1>2. req[s].arena \in Arenas /\ req[s].parent \in Slots \cup {NoParent} /\ req[s].cost \in Costs
  BY <1>1, RequestFields
<1>3. /\ DepthOf(req[s].parent) \in Nat /\ DepthOf(req[s].parent) <= MaxDepth
      /\ req[s].parent # NoParent =>
           /\ Exists(req[s].parent) /\ arguments[req[s].parent].arena = req[s].arena
           /\ DepthOf(req[s].parent) = arguments[req[s].parent].depth + 1
  <2>1. CASE req[s].parent = NoParent
    BY <2>1, PublicationAssumption DEF DepthOf
  <2>2. CASE req[s].parent # NoParent
    <3>1. Replyable(req[s].arena, req[s].parent)
      BY <1>1, <2>2 DEF SessionInv, ParentInv
    <3>2. arguments[req[s].parent].depth \in Nat
      BY <1>1, <1>2, <2>2, <3>1, RowFields DEF Replyable
    <3>. QED BY <2>2, <3>1, <3>2 DEF Replyable, DepthOf
  <2>. QED BY <2>1, <2>2
<1>4. NewArgument(s) \in ArgumentRows
  BY <1>2, <1>3 DEF NewArgument, ArgumentRows, Statuses
<1>. QED BY <1>2, <1>3, <1>4, PublicationAssumption DEF NewArgument

LEMMA LandsStep ==
  ASSUME IInv, InsertsAlone, NEW s \in Sessions, Lands(s), faults' \in 0 .. MaxFaults,
         NEW outcome \in {"none", "published"}, EndsWith(s, outcome)
  PROVE  IInv'
<1> DEFINE a == Author(s)
           k == Key(s)
           row == NewArgument(s)
<1>1. TypeOK /\ RecordInv /\ outcome \in Outcomes
  BY DEF IInv, Outcomes
<1>2. /\ row \in ArgumentRows /\ row # NoArgument
      /\ row.arena = req[s].arena /\ row.parent = req[s].parent /\ row.cost = req[s].cost
      /\ row.status = "published" /\ ~row.withdrawn /\ row.depth <= MaxDepth
      /\ row.parent # NoParent =>
           /\ row.parent \in Slots /\ Exists(row.parent)
           /\ arguments[row.parent].arena = row.arena
           /\ row.depth = arguments[row.parent].depth + 1
  BY NewRow
<1> HIDE DEF row
<1>3. /\ req[s] \in Requests /\ a \in Authors /\ k \in Keys /\ Slot(s) \in Slots
      /\ Slot(s) = <<a, k>> /\ ~Exists(Slot(s))
  BY LandsFacts
<1>4. /\ arguments' = [arguments EXCEPT ![Slot(s)] = row]
      /\ UNCHANGED <<worldVars, req>>
  BY LandsFacts DEF row
<1>5. /\ pc'[s] = "idle" /\ answer'[s] = outcome /\ ~charging'[s]
      /\ \A t \in Sessions \ {s} : pc'[t] = pc[t] /\ answer'[t] = answer[t]
      /\ pc' \in [Sessions -> Stages] /\ answer' \in [Sessions -> Outcomes]
      /\ ReleaseLocks(s)
  BY <1>1, EndFacts
<1>6. Author(s)' = Author(s) /\ Key(s)' = Key(s)
  BY <1>4 DEF Author, Key
<1>7. /\ posted' \in [Keys -> Operations \cup {NoOperation}] /\ ink' \in [Authors -> Nat]
      /\ \A j \in Keys : posted[j] # NoOperation => posted'[j] = posted[j]
      /\ \A j \in Keys \ {k} : posted'[j] = posted[j]
      /\ posted'[k] # NoOperation /\ posted'[k].account = a
      /\ posted'[k].cost # 0 => posted'[k].cost = req[s].cost
      /\ \A t \in Sessions \ {s} :
           /\ \A b \in Authors : holder[b] = t => ink'[b] = ink[b]
           /\ \A j \in Keys : claimant[j] = t => posted'[j] = posted[j]
  BY <1>6, LandsPosts DEF PostedTo
<1>8. TypeOK'
  <2>1. arguments' \in [Slots -> ArgumentRows \cup {NoArgument}]
    BY <1>1, <1>2, <1>4 DEF TypeOK
  <2>. QED BY <1>1, <1>4, <1>5, <1>7, <2>1, ReleaseOnlyOwn DEF TypeOK, worldVars
<1>9. /\ arguments'[Slot(s)] = row
      /\ \A x \in Slots \ {Slot(s)} : arguments'[x] = arguments[x]
  BY <1>1, <1>3, <1>4 DEF TypeOK
<1>11. RowsPersist
  BY <1>3, <1>9 DEF RowsPersist, Exists
<1>12. ChargeIsIndivisible'
  <2>. SUFFICES ASSUME NEW b \in Authors, NEW j \in Keys
                PROVE  /\ PaidFor(b, j)' =>
                            Exists(<<b, j>>)' /\ posted'[j].cost = arguments'[<<b, j>>].cost
                       /\ Exists(<<b, j>>)' => PostedTo(b, j)'
    BY DEF ChargeIsIndivisible
  <2>1. /\ PaidFor(b, j) => Exists(<<b, j>>) /\ posted[j].cost = arguments[<<b, j>>].cost
        /\ Exists(<<b, j>>) => PostedTo(b, j)
        /\ <<b, j>> \in Slots
    BY <1>1 DEF RecordInv, ChargeIsIndivisible, Slots
  <2>2. CASE j = k /\ b = a
    BY <1>2, <1>3, <1>7, <1>9, <2>2 DEF Exists, PaidFor, PostedTo
  <2>3. CASE j = k /\ b # a
    BY <1>3, <1>7, <1>9, <2>1, <2>3 DEF Exists, PaidFor, PostedTo
  <2>4. CASE j # k
    <3>1. posted'[j] = posted[j] /\ arguments'[<<b, j>>] = arguments[<<b, j>>]
      BY <1>3, <1>7, <1>9, <2>1, <2>4
    <3>. QED BY <2>1, <3>1 DEF Exists, PaidFor, PostedTo
  <2>. QED BY <2>2, <2>3, <2>4
<1>13. RepliesAreAnchored'
  <2>1. ASSUME NEW x \in Slots, Exists(x)'
        PROVE  /\ arguments'[x].depth <= MaxDepth
               /\ arguments'[x].parent # NoParent =>
                    /\ arguments'[x].parent \in Slots /\ Exists(arguments'[x].parent)
                    /\ arguments[arguments'[x].parent].arena = arguments'[x].arena
                    /\ arguments'[x].depth = arguments[arguments'[x].parent].depth + 1
    <3>1. CASE x = Slot(s)
      BY <1>2, <1>9, <3>1
    <3>2. CASE x # Slot(s)
      <4>1. arguments'[x] = arguments[x] /\ Exists(x)
        BY <1>9, <2>1, <3>2 DEF Exists
      <4>. QED BY <1>1, <4>1, RowFields DEF RecordInv, RepliesAreAnchored
    <3>. QED BY <3>1, <3>2
  <2>2. ASSUME NEW x \in Slots, Exists(x)', arguments'[x].parent # NoParent
        PROVE  /\ arguments'[arguments'[x].parent] # NoArgument
               /\ arguments'[arguments'[x].parent].arena = arguments'[x].arena
               /\ arguments'[x].depth = arguments'[arguments'[x].parent].depth + 1
    <3>1. PICK p \in Slots : p = arguments'[x].parent
      BY <2>1, <2>2
    <3>2. /\ Exists(p) /\ arguments[p].arena = arguments'[x].arena
          /\ arguments'[x].depth = arguments[p].depth + 1
      BY <2>1, <2>2, <3>1
    <3>3. Exists(p)' /\ arguments'[p].arena = arguments[p].arena /\ arguments'[p].depth = arguments[p].depth
      BY <1>11, <3>2 DEF RowsPersist
    <3>. QED BY <3>1, <3>2, <3>3 DEF Exists
  <2>. QED BY <2>1, <2>2 DEF RepliesAreAnchored, Exists
<1>14. RowsCoherent'
  BY <1>1, <1>2, <1>9 DEF RecordInv, RowsCoherent, Exists
<1>15. Answered(s, answer[s])'
  BY <1>2, <1>3, <1>4, <1>5, <1>9 DEF Answered, Truthful, Exists, Slot
<1>16. SessionInv(s)'
  BY <1>5, <1>15, AtRest
<1>17. ASSUME NEW t \in Sessions \ {s}
       PROVE  SessionInv(t)'
  <2>1. /\ \A b \in Authors : holder[b] = t => holder'[b] = t
        /\ \A j \in Keys : claimant[j] = t => claimant'[j] = t
        /\ charging'[t] = charging[t]
    BY <1>1, <1>5, ReleaseOnlyOwn
  <2>2. \A b \in Authors : holder[b] = t => ink'[b] \in Nat /\ ink'[b] >= ink[b]
    BY <1>1, <1>7 DEF TypeOK
  <2>3. Undisturbed(t)
    BY <1>4, <1>5, <1>7, <2>1, <2>2 DEF Undisturbed
  <2>. QED BY <1>1, <1>11, <2>3, Bystander DEF IInv
<1>. QED BY <1>8, <1>12, <1>13, <1>14, <1>16, <1>17 DEF IInv, RecordInv

LEMMA FaultSteps ==
  ASSUME IInv, InsertsAlone, NEW s \in Sessions, Abort(s) \/ LoseCommit(s)
  PROVE  IInv'
<1>1. EndsWith(s, "none") /\ faults' \in 0 .. MaxFaults
  BY PublicationAssumption DEF Abort, LoseCommit, Fails, IInv, TypeOK
<1>2. CASE Abort(s)
  <2>1. Answered(s, "none") /\ "none" \in Outcomes
    BY DEF Answered, Truthful, Outcomes
  <2>. QED BY <1>1, <1>2, <2>1, EndStep DEF Abort
<1>3. CASE LoseCommit(s)
  BY <1>1, <1>3, LandsStep DEF LoseCommit
<1>. QED BY <1>2, <1>3
-----------------------------------------------------------------------------
LEMMA BeginStep ==
  ASSUME IInv, NEW s \in Sessions, Begin(s)
  PROVE  IInv'
<1>1. PICK r \in Requests \cup Withdrawals :
        /\ req' = [req EXCEPT ![s] = r]
        /\ Goes(s, IF r.kind = "publish" THEN "replay" ELSE "read")
  BY DEF Begin
<1>2. /\ TypeOK /\ SessionInv(s) /\ pc[s] = "idle"
      /\ answer' = [answer EXCEPT ![s] = "none"]
      /\ UNCHANGED <<worldVars, recordVars, lockVars, charging, faults>>
  BY DEF Begin, IInv
<1>3. PICK stage \in {"replay", "read"} :
        /\ Goes(s, stage)
        /\ stage = "replay" => r \in Requests
        /\ stage = "read" => r \in Withdrawals
  BY <1>1, RequestFields, WithdrawalFields
<1>4. pc'[s] = stage /\ pc' \in [Sessions -> Stages] /\ \A t \in Sessions \ {s} : pc'[t] = pc[t]
  BY <1>2, <1>3, GoesTo DEF Stages
<1>5. req'[s] = r /\ \A t \in Sessions \ {s} : req'[t] = req[t] /\ answer'[t] = answer[t]
  BY <1>1, <1>2 DEF TypeOK
<1>6. TypeOK'
  BY <1>1, <1>2, <1>4 DEF TypeOK, worldVars, recordVars, lockVars, Outcomes
<1>7. SessionInv(s)'
  BY <1>2, <1>3, <1>4, <1>5
     DEF SessionInv, RequestInv, ChargeInv, ParentInv, Publishing
<1>8. OnlyMoves(s)
  BY <1>2, <1>4, <1>5 DEF OnlyMoves, lockVars
<1>. QED BY <1>2, <1>6, <1>7, <1>8, NothingCommitted

(***************************************************************************)
(* What other modules do: rows of other tables, credits, and moderation.   *)
(***************************************************************************)
LEMMA CreditStep ==
  ASSUME IInv, NEW a \in Authors, Credit(a),
         UNCHANGED <<lockVars, pc, localVars, answer, faults>>
  PROVE  IInv'
<1>1. PICK n \in 1 .. MaxInk - credited[a] :
        /\ ink' = [ink EXCEPT ![a] = @ + n] /\ credited' = [credited EXCEPT ![a] = @ + n]
  BY DEF Credit
<1>2. TypeOK /\ RecordInv /\ UNCHANGED <<eligible, open, posted, arguments>>
  BY DEF IInv, Credit
<1>3. credited[a] \in Int /\ ink[a] \in Nat /\ n \in Nat
  BY <1>1, <1>2, PublicationAssumption DEF TypeOK
<1>4. TypeOK'
  BY <1>1, <1>2, <1>3 DEF TypeOK, lockVars, localVars
<1>5. \A b \in Authors : ink'[b] \in Nat /\ ink'[b] >= ink[b]
  BY <1>1, <1>2, <1>3 DEF TypeOK
<1>6. RowsPersist
  BY <1>2 DEF RowsPersist, Exists
<1>7. ASSUME NEW t \in Sessions
      PROVE  SessionInv(t)'
  <2>1. Undisturbed(t)
    BY <1>2, <1>5 DEF Undisturbed, lockVars, localVars
  <2>. QED BY <1>2, <1>6, <2>1, Bystander DEF IInv
<1>8. RecordInv'
  BY <1>2 DEF RecordInv, ChargeIsIndivisible, PaidFor, PostedTo, RepliesAreAnchored, RowsCoherent,
     Exists
<1>. QED BY <1>4, <1>7, <1>8 DEF IInv

LEMMA AdjustStep ==
  ASSUME IInv, NEW a \in Authors, NEW k \in Keys, Adjust(a, k),
         UNCHANGED <<lockVars, pc, localVars, answer, faults>>
  PROVE  IInv'
<1>1. PICK balance \in 0 .. MaxInk :
        /\ ink' = [ink EXCEPT ![a] = balance]
        /\ credited' = [credited EXCEPT ![a] = @ + balance - ink[a]]
        /\ credited'[a] <= MaxInk
  BY DEF Adjust
<1>2. /\ TypeOK /\ RecordInv /\ UNCHANGED <<eligible, open, arguments>>
      /\ holder[a] = NoSession /\ claimant[k] = NoSession /\ posted[k] = NoOperation
      /\ posted' = [posted EXCEPT ![k] = [account |-> a, cost |-> 0]]
  BY DEF IInv, Adjust
<1>3. [account |-> a, cost |-> 0] \in Operations
  BY DEF Operations
<1>4. /\ posted'[k] = [account |-> a, cost |-> 0] /\ posted'[k] # NoOperation
      /\ \A j \in Keys \ {k} : posted'[j] = posted[j]
      /\ posted' \in [Keys -> Operations \cup {NoOperation}]
  BY <1>2, <1>3, PublicationAssumption DEF TypeOK
<1>5. /\ \A b \in Authors \ {a} : ink'[b] = ink[b]
      /\ ink' \in [Authors -> Nat]
  BY <1>1, <1>2, PublicationAssumption DEF TypeOK
<1>6. credited' \in [Authors -> Int]
  BY <1>1, <1>2, PublicationAssumption DEF TypeOK
<1>7. TypeOK'
  BY <1>2, <1>4, <1>5, <1>6 DEF TypeOK, lockVars, localVars
<1>8. RowsPersist
  BY <1>2 DEF RowsPersist, Exists
<1>9. ASSUME NEW t \in Sessions
      PROVE  SessionInv(t)'
  <2>1. \A b \in Authors : holder[b] = t => ink'[b] \in Nat /\ ink'[b] >= ink[b]
    BY <1>2, <1>5, PublicationAssumption DEF TypeOK
  <2>2. \A j \in Keys : claimant[j] = t => posted'[j] = posted[j]
    BY <1>2, <1>4, PublicationAssumption
  <2>3. Undisturbed(t)
    BY <1>2, <1>4, <2>1, <2>2 DEF Undisturbed, lockVars, localVars
  <2>. QED BY <1>2, <1>8, <2>3, Bystander DEF IInv
<1>10. ChargeIsIndivisible'
  <2>. SUFFICES ASSUME NEW b \in Authors, NEW j \in Keys
                PROVE  /\ PaidFor(b, j)' =>
                            Exists(<<b, j>>)' /\ posted'[j].cost = arguments'[<<b, j>>].cost
                       /\ Exists(<<b, j>>)' => PostedTo(b, j)'
    BY DEF ChargeIsIndivisible
  <2>1. /\ PaidFor(b, j) => Exists(<<b, j>>) /\ posted[j].cost = arguments[<<b, j>>].cost
        /\ Exists(<<b, j>>) => PostedTo(b, j)
    BY <1>2 DEF RecordInv, ChargeIsIndivisible
  <2>. QED BY <1>2, <1>4, <2>1 DEF Exists, PaidFor, PostedTo
<1>11. RepliesAreAnchored' /\ RowsCoherent'
  BY <1>2 DEF RecordInv, RepliesAreAnchored, RowsCoherent, Exists
<1>. QED BY <1>7, <1>9, <1>10, <1>11 DEF IInv, RecordInv

LEMMA ModerationStep ==
  ASSUME IInv, NEW x \in Slots, RemoveArgument(x) \/ RestoreArgument(x),
         UNCHANGED <<lockVars, pc, localVars, answer, faults>>
  PROVE  IInv'
<1>1. PICK status \in {"removed", "published"} :
        /\ Moves(x, status)
        /\ status = "published" => ~arguments[x].withdrawn
  BY DEF RemoveArgument, RestoreArgument
<1>2. TypeOK /\ RecordInv /\ Exists(x) /\ UNCHANGED <<worldVars, ink, posted>>
  BY DEF IInv, RemoveArgument, RestoreArgument, Has
<1> DEFINE row == [arguments[x] EXCEPT !.status = status]
<1>3. /\ row \in ArgumentRows /\ SameProvenance(row, x)
      /\ row.status = status /\ row.withdrawn = arguments[x].withdrawn
  BY <1>1, <1>2, RowFields DEF ArgumentRows, Statuses, SameProvenance
<1>4. arguments' = [arguments EXCEPT ![x] = row]
  BY <1>1 DEF Moves
<1> HIDE DEF row
<1>5. /\ RowsPersist /\ RecordInv'
      /\ arguments' \in [Slots -> ArgumentRows \cup {NoArgument}]
  BY <1>1, <1>2, <1>3, <1>4, StatusMoves
<1>6. TypeOK'
  BY <1>2, <1>5 DEF TypeOK, worldVars, lockVars, localVars
<1>7. \A t \in Sessions : SessionInv(t)'
  BY <1>2, <1>5, RowMoved DEF IInv, lockVars, localVars
<1>. QED BY <1>5, <1>6, <1>7 DEF IInv

LEMMA MeanwhileStep ==
  ASSUME IInv, Meanwhile
  PROVE  IInv'
<1>1. UNCHANGED <<lockVars, pc, localVars, answer, faults>>
  BY DEF Meanwhile
<1>2. ASSUME NEW a \in Authors, Credit(a)
      PROVE  IInv'
  BY <1>1, <1>2, CreditStep
<1>5. ASSUME NEW a \in Authors, NEW k \in Keys, Adjust(a, k)
      PROVE  IInv'
  BY <1>1, <1>5, AdjustStep
<1>3. ASSUME NEW x \in Slots, RemoveArgument(x) \/ RestoreArgument(x)
      PROVE  IInv'
  BY <1>1, <1>3, ModerationStep
<1>4. CASE \/ \E a \in Authors : Suspend(a) \/ Reactivate(a)
           \/ \E r \in Arenas : CloseArena(r) \/ ReopenArena(r)
  <2>1. /\ eligible' \subseteq Authors /\ open' \subseteq Arenas
        /\ UNCHANGED <<credited, recordVars>>
    BY <1>4 DEF IInv, TypeOK, Suspend, Reactivate, CloseArena, ReopenArena
  <2>2. TypeOK /\ TypeOK'
    BY <1>1, <2>1 DEF IInv, TypeOK, recordVars, lockVars, localVars
  <2>3. RowsPersist
    BY <2>1 DEF RowsPersist, Exists, recordVars
  <2>4. ASSUME NEW t \in Sessions
        PROVE  SessionInv(t)'
    <3>1. Undisturbed(t)
      BY <1>1, <2>1, <2>2 DEF Undisturbed, lockVars, localVars, recordVars, TypeOK
    <3>. QED BY <2>2, <2>3, <3>1, Bystander DEF IInv
  <2>5. RecordInv'
    BY <2>1 DEF IInv, RecordInv, ChargeIsIndivisible, PaidFor, PostedTo, RepliesAreAnchored,
       RowsCoherent, Exists, recordVars
  <2>. QED BY <2>2, <2>4, <2>5 DEF IInv
<1>. QED BY <1>2, <1>3, <1>4, <1>5 DEF Meanwhile
-----------------------------------------------------------------------------
LEMMA Initially == Init => IInv
<1>. SUFFICES ASSUME Init PROVE IInv
  OBVIOUS
<1>1. TypeOK
  BY PublicationAssumption DEF Init, TypeOK, Stages, Outcomes
<1>2. RecordInv
  <2>1. \A a \in Authors, k \in Keys : <<a, k>> \in Slots
    BY DEF Slots
  <2>. QED BY <2>1 DEF Init, RecordInv, ChargeIsIndivisible, PaidFor, PostedTo, RepliesAreAnchored,
              RowsCoherent, Exists
<1>3. ASSUME NEW s \in Sessions
      PROVE  SessionInv(s)
  BY DEF Init, SessionInv, RequestInv, ChargeInv, ParentInv, Answered, Truthful, Publishing
<1>. QED BY <1>1, <1>2, <1>3 DEF IInv

LEMMA Stuttering ==
  ASSUME IInv, UNCHANGED vars
  PROVE  IInv'
<1>1. /\ UNCHANGED <<eligible, open, credited, ink, posted, arguments, holder, claimant>>
      /\ UNCHANGED <<pc, req, charging, answer, faults>>
  BY DEF vars, worldVars, recordVars, lockVars, localVars
<1>2. TypeOK'
  BY <1>1 DEF IInv, TypeOK
<1>3. RecordInv'
  BY <1>1 DEF IInv, RecordInv, ChargeIsIndivisible, PaidFor, PostedTo, RepliesAreAnchored,
     RowsCoherent, Exists
<1>4. RowsPersist
  BY <1>1 DEF RowsPersist, Exists
<1>5. ASSUME NEW t \in Sessions
      PROVE  SessionInv(t)'
  BY <1>1, <1>4, RowMoved DEF IInv
<1>. QED BY <1>2, <1>3, <1>5 DEF IInv

LEMMA SessionSteps ==
  ASSUME IInv, InsertsAlone, NEW s \in Sessions, SessionStep(s)
  PROVE  IInv'
<1>1. CASE Commit(s)
  BY <1>1, LandsStep DEF Commit, IInv, TypeOK
<1>. QED
  BY <1>1, LookUpAttemptStep, EnsureEligibleStep, EnsureAcceptsArgumentsStep, EnsureParentStep,
     DebitStep, ClaimKeyStep, CreateArgumentStep, ResolveReplayStep, ReadForAuthorStep,
     WithdrawArgumentStep, ReadAgainStep DEF SessionStep

LEMMA InvariantStep == IInv /\ InsertsAlone /\ [Next]_vars => IInv'
<1>. SUFFICES ASSUME IInv, InsertsAlone, [Next]_vars PROVE IInv'
  OBVIOUS
<1>1. ASSUME NEW s \in Sessions, Begin(s) \/ SessionStep(s) \/ Abort(s) \/ LoseCommit(s)
      PROVE  IInv'
  BY <1>1, BeginStep, SessionSteps, FaultSteps
<1>. QED BY <1>1, MeanwhileStep, Stuttering DEF Next
-----------------------------------------------------------------------------
(***************************************************************************)
(* The steps that change the record of arguments.                          *)
(***************************************************************************)
Withdraws(s) ==
  LET x == req[s].target IN
  /\ pc[s] = "update" /\ Has(x, "published")
  /\ arguments' = [arguments EXCEPT ![x] = [@ EXCEPT !.status = "withdrawn", !.withdrawn = TRUE]]

LEMMA ArgumentSteps ==
  ASSUME [Next]_vars
  PROVE  \/ UNCHANGED arguments
         \/ \E s \in Sessions : (Lands(s) /\ Goes(s, "idle")) \/ Withdraws(s)
         \/ \E x \in Slots : RemoveArgument(x) \/ RestoreArgument(x)
<1>1. ASSUME NEW s \in Sessions, SessionStep(s)
      PROVE  UNCHANGED arguments \/ (Lands(s) /\ Goes(s, "idle")) \/ Withdraws(s)
  <2>1. CASE Commit(s)
    BY <2>1 DEF Commit, EndsWith
  <2>2. CASE WithdrawArgument(s)
    BY <2>2 DEF WithdrawArgument, Withdraws
  <2>3. CASE LookUpAttempt(s) \/ EnsureEligible(s) \/ EnsureAcceptsArguments(s) \/ ensureReplyableParent(s)
    BY <2>3 DEF LookUpAttempt, EnsureEligible, EnsureAcceptsArguments, ensureReplyableParent,
                PassesIf, recordVars
  <2>4. CASE Debit(s) \/ ClaimKey(s) \/ CreateArgument(s) \/ ResolveReplay(s)
             \/ ReadForAuthor(s) \/ ReadAgain(s)
    BY <2>4 DEF Debit, ClaimKey, CreateArgument, ResolveReplay, ReadForAuthor, ReadAgain, recordVars
  <2>. QED BY <1>1, <2>1, <2>2, <2>3, <2>4 DEF SessionStep
<1>2. ASSUME NEW s \in Sessions, Begin(s) \/ Abort(s) \/ LoseCommit(s)
      PROVE  UNCHANGED arguments \/ (Lands(s) /\ Goes(s, "idle"))
  BY <1>2 DEF Begin, Abort, LoseCommit, Fails, EndsWith, recordVars
<1>3. ASSUME Meanwhile
      PROVE  UNCHANGED arguments \/ \E x \in Slots : RemoveArgument(x) \/ RestoreArgument(x)
  BY <1>3 DEF Meanwhile, Credit, Adjust, Suspend, Reactivate, CloseArena, ReopenArena, recordVars
<1>. QED BY <1>1, <1>2, <1>3 DEF Next, vars, recordVars

\* Who is about to commit an insertion made it before, or makes it now, alone.
LEMMA InsertSteps ==
  ASSUME IInv, [Next]_vars, NEW t \in Sessions, pc'[t] = "commit"
  PROVE  /\ req'[t] = req[t]
         /\ \/ pc[t] = "commit"
            \/ /\ pc[t] = "create" /\ ~Exists(Slot(t))
               /\ \A u \in Sessions : ~Inserts(u, t)
               /\ \A u \in Sessions \ {t} : pc'[u] = pc[u]
<1>1. CASE Meanwhile \/ UNCHANGED vars
  BY <1>1 DEF Meanwhile, vars, localVars
<1>2. ASSUME NEW s \in Sessions, Begin(s) \/ SessionStep(s) \/ Abort(s) \/ LoseCommit(s)
      PROVE  /\ \A u \in Sessions \ {s} : pc'[u] = pc[u] /\ req'[u] = req[u]
             /\ pc'[s] = "commit" =>
                  /\ req' = req /\ pc[s] = "create" /\ ~Exists(Slot(s))
                  /\ \A u \in Sessions : ~Inserts(u, s)
  <2>1. pc \in [Sessions -> Stages] /\ req \in [Sessions -> Requests \cup Withdrawals]
    BY DEF IInv, TypeOK
  <2>2. CASE Begin(s)
    BY <2>1, <2>2 DEF Begin, Goes
  <2>3. CASE LookUpAttempt(s) \/ EnsureEligible(s) \/ EnsureAcceptsArguments(s) \/ ensureReplyableParent(s)
    BY <2>1, <2>3 DEF LookUpAttempt, EnsureEligible, EnsureAcceptsArguments,
       ensureReplyableParent, PassesIf, EndsWith, Goes
  <2>4. CASE Debit(s) \/ ClaimKey(s)
    BY <2>1, <2>4 DEF Debit, ClaimKey, replayDebit, EndsWith, Goes
  <2>5. CASE CreateArgument(s)
    BY <2>1, <2>5 DEF CreateArgument, Goes
  <2>6. CASE Commit(s) \/ ResolveReplay(s) \/ ReadForAuthor(s) \/ WithdrawArgument(s) \/ ReadAgain(s)
    BY <2>1, <2>6 DEF Commit, Lands, ResolveReplay, ReadForAuthor, WithdrawArgument, ReadAgain,
       EndsWith, Goes
  <2>7. CASE Abort(s) \/ LoseCommit(s)
    BY <2>1, <2>7 DEF Abort, LoseCommit, Lands, Fails, EndsWith, Goes
  <2>. QED BY <1>2, <2>2, <2>3, <2>4, <2>5, <2>6, <2>7 DEF SessionStep
<1>. QED BY <1>1, <1>2 DEF Next

\* A new argument is that of a session whose transaction ended.
LEMMA NewArguments ==
  ASSUME IInv, [Next]_vars, NEW x \in Slots, Exists(x)', ~Exists(x)
  PROVE  \E s \in Sessions : pc[s] = "commit" /\ pc'[s] = "idle" /\ Slot(s) = x
<1>1. TypeOK
  BY DEF IInv
<1>2. ASSUME NEW s \in Sessions, Lands(s), Goes(s, "idle")
      PROVE  pc[s] = "commit" /\ pc'[s] = "idle" /\ Slot(s) = x
  BY <1>1, <1>2 DEF Lands, Goes, Exists, TypeOK
<1>3. ASSUME NEW s \in Sessions, Withdraws(s)
      PROVE  FALSE
  BY <1>1, <1>3 DEF Withdraws, Has, Exists, TypeOK
<1>4. ASSUME NEW y \in Slots, RemoveArgument(y) \/ RestoreArgument(y)
      PROVE  FALSE
  BY <1>1, <1>4 DEF RemoveArgument, RestoreArgument, Moves, Has, Exists, TypeOK
<1>5. ~UNCHANGED arguments
  BY DEF Exists
<1>. QED BY <1>2, <1>3, <1>4, <1>5, ArgumentSteps

LEMMA InsertsStep == IInv /\ InsertsAlone /\ [Next]_vars => InsertsAlone'
<1>. SUFFICES ASSUME IInv, InsertsAlone, [Next]_vars, NEW t \in Sessions, pc'[t] = "commit"
              PROVE  ~Exists(Slot(t))' /\ \A u \in Sessions : ~Inserts(u, t)'
  BY DEF InsertsAlone
<1>1. Slot(t)' = Slot(t) /\ ~Exists(Slot(t)) /\ \A u \in Sessions : ~Inserts(u, t)
  BY InsertSteps DEF InsertsAlone, Slot
<1>2. Slot(t) \in Slots
  <2>1. pc[t] \in {"create", "commit"}
    BY InsertSteps
  <2>2. req[t] \in Requests
    BY <2>1 DEF IInv, SessionInv, RequestInv, Publishing
  <2>. QED BY <2>2, RequestFields DEF Slot
<1>3. ~Exists(Slot(t))'
  <2>. SUFFICES ASSUME Exists(Slot(t))' PROVE FALSE
    OBVIOUS
  <2>1. PICK s \in Sessions : pc[s] = "commit" /\ pc'[s] = "idle" /\ Slot(s) = Slot(t)
    BY <1>1, <1>2, NewArguments DEF Exists
  <2>. QED BY <1>1, <2>1 DEF Inserts
<1>4. ASSUME NEW u \in Sessions, u # t, pc'[u] = "commit", Slot(u)' = Slot(t)'
      PROVE  FALSE
  <2>1. Slot(u)' = Slot(u) /\ \A v \in Sessions : ~Inserts(v, u)
    BY <1>4, InsertSteps DEF InsertsAlone, Slot
  <2>2. pc[u] = "commit" \/ pc[t] = "commit"
    BY <1>4, InsertSteps
  <2>. QED BY <1>1, <1>4, <2>1, <2>2 DEF Inserts
<1>. QED BY <1>3, <1>4 DEF Inserts

LEMMA Inductive == IInv /\ InsertsAlone /\ [Next]_vars => (IInv /\ InsertsAlone)'
  BY InvariantStep, InsertsStep

LEMMA Invariance == Spec => []IInv /\ []InsertsAlone
<1>1. Init => InsertsAlone
  BY DEF Init, InsertsAlone
<1>. QED BY <1>1, Initially, Inductive, PTL DEF Spec

(***************************************************************************)
(* Balances stay non-negative and every answer and stage is one of the     *)
(* code's, for any number of concurrent publications.                      *)
(***************************************************************************)
THEOREM TypeCorrect == Spec => []TypeOK
<1>1. IInv => TypeOK
  BY DEF IInv
<1>. QED BY <1>1, Invariance, PTL

(***************************************************************************)
(* PublishArgumentUseCase never posts a debit without its argument, and    *)
(* records an argument without a debit only under a key that some other    *)
(* operation of its author had taken, whatever is retried, raced, aborted  *)
(* or lost.                                                                *)
(***************************************************************************)
THEOREM ChargesAreIndivisible == Spec => []ChargeIsIndivisible
<1>1. IInv => ChargeIsIndivisible
  BY DEF IInv, RecordInv
<1>. QED BY <1>1, Invariance, PTL

(***************************************************************************)
(* What publications and withdrawals were answered is what the tables      *)
(* hold, at any later time.                                                *)
(***************************************************************************)
THEOREM AnswersAreTrue == Spec => []AnswersMatchRecord
<1>1. IInv => AnswersMatchRecord
  BY DEF IInv, SessionInv, Answered, AnswersMatchRecord
<1>. QED BY <1>1, Invariance, PTL

(***************************************************************************)
(* A reply is in the Arena of its parent and within the depth of the       *)
(* policy, although the parent is read outside the transaction that        *)
(* inserts the reply.                                                      *)
(***************************************************************************)
THEOREM RepliesStayAnchored == Spec => []RepliesAreAnchored
<1>1. IInv => RepliesAreAnchored
  BY DEF IInv, RecordInv
<1>. QED BY <1>1, Invariance, PTL
-----------------------------------------------------------------------------
(***************************************************************************)
(* No step of anybody erases, edits or republishes what an author          *)
(* published or withdrew, and no withdrawal overrides a removal.           *)
(***************************************************************************)
THEOREM ArgumentsAreHistory == Spec => HistoryIsKept
<1> DEFINE Kept(x) == Exists(x) =>
             /\ arguments'[x] # NoArgument
             /\ \A field \in {"arena", "parent", "cost", "depth"} :
                  arguments'[x][field] = arguments[x][field]
             /\ arguments[x].withdrawn =>
                  arguments'[x].withdrawn /\ arguments'[x].status # "published"
             /\ Has(x, "removed") => arguments'[x].status # "withdrawn"
<1>1. ASSUME IInv, InsertsAlone, [Next]_vars, NEW x \in Slots
      PROVE  Kept(x)
  <2>. SUFFICES ASSUME Exists(x) PROVE Kept(x)
    OBVIOUS
  <2>1. TypeOK /\ arguments[x] \in ArgumentRows
        /\ (arguments[x].withdrawn => arguments[x].status # "published")
    BY <1>1, RowFields DEF IInv, RecordInv, RowsCoherent
  <2>2. CASE arguments'[x] = arguments[x]
    BY <2>1, <2>2 DEF Exists, Has
  <2>3. ASSUME NEW s \in Sessions, Lands(s)
        PROVE  arguments'[x] = arguments[x]
    <3>1. ~Exists(Slot(s)) /\ arguments' = [arguments EXCEPT ![Slot(s)] = NewArgument(s)]
      BY <1>1, <2>3, LandsFacts
    <3>. QED BY <2>1, <3>1 DEF TypeOK, Exists
  <2>4. ASSUME NEW s \in Sessions, Withdraws(s), req[s].target = x
        PROVE  Kept(x)
    <3>1. arguments'[x] = [arguments[x] EXCEPT !.status = "withdrawn", !.withdrawn = TRUE]
      BY <2>1, <2>4 DEF Withdraws, TypeOK
    <3>2. Has(x, "published")
      BY <2>4 DEF Withdraws
    <3>3. arguments'[x] \in ArgumentRows /\ SameProvenance(arguments'[x], x)
          /\ arguments'[x].status = "withdrawn" /\ arguments'[x].withdrawn
      BY <2>1, <3>1, <3>2, WithdrawnRow
    <3>4. arguments'[x] # NoArgument
      BY <3>3, PublicationAssumption
    <3>. QED BY <3>2, <3>3, <3>4 DEF SameProvenance, Has
  <2>5. ASSUME NEW s \in Sessions, Withdraws(s), req[s].target # x
        PROVE  arguments'[x] = arguments[x]
    BY <2>1, <2>5 DEF Withdraws, TypeOK
  <2>6. ASSUME NEW y \in Slots, RemoveArgument(y) \/ RestoreArgument(y)
        PROVE  Kept(x)
    <3>1. CASE y # x
      BY <2>1, <2>2, <2>6, <3>1 DEF RemoveArgument, RestoreArgument, Moves, TypeOK
    <3>2. CASE y = x
      <4>1. PICK status \in {"removed", "published"} :
              /\ arguments' = [arguments EXCEPT ![x].status = status]
              /\ status = "published" => ~arguments[x].withdrawn
        BY <2>6, <3>2 DEF RemoveArgument, RestoreArgument, Moves
      <4>2. arguments'[x] = [arguments[x] EXCEPT !.status = status]
        BY <2>1, <4>1 DEF TypeOK
      <4>3. arguments'[x] \in ArgumentRows
        BY <2>1, <4>2 DEF ArgumentRows, Statuses
      <4>4. arguments'[x] # NoArgument
        BY <4>3, PublicationAssumption
      <4>. QED BY <2>1, <4>1, <4>2, <4>4 DEF ArgumentRows
    <3>. QED BY <3>1, <3>2
  <2>. QED BY <1>1, <2>2, <2>3, <2>4, <2>5, <2>6, ArgumentSteps
<1>2. IInv /\ InsertsAlone /\ [Next]_vars => \A x \in Slots : Kept(x)
  BY <1>1
<1>. QED BY <1>2, Invariance, PTL DEF Spec, HistoryIsKept
-----------------------------------------------------------------------------
(***************************************************************************)
(* The money.  Only a commit, a credit and an adjustment move INK, and     *)
(* only a commit gives an account one more argument to pay for, when it    *)
(* posts the debit itself; every other step keeps the set of paid          *)
(* arguments and their costs.                                              *)
(***************************************************************************)
CostsOf(a) == [k \in Paid(a) |-> arguments[<<a, k>>].cost]

ConservedFor(a) ==
  /\ IsFiniteSet(Paid(a))
  /\ credited[a] = ink[a] + SumFunctionOnSet(CostsOf(a), Paid(a))

LEMMA ConservedIsSum ==
  (\A a \in Authors : ConservedFor(a)) => InkIsConserved
  BY DEF ConservedFor, InkIsConserved, CostsOf, SumFunction

LEMMA CostsTyped ==
  ASSUME TypeOK, RecordInv, NEW a \in Authors
  PROVE  \A k \in Paid(a) : CostsOf(a)[k] \in Int /\ <<a, k>> \in Slots
<1>1. \A k \in Paid(a) : Exists(<<a, k>>) /\ <<a, k>> \in Slots
  BY DEF RecordInv, ChargeIsIndivisible, Paid, Slots
<1>. QED BY <1>1, RowFields DEF CostsOf, Costs

\* The account pays for the same arguments at the same costs.
SamePayments(a) ==
  \A k \in Keys :
    /\ PaidFor(a, k)' <=> PaidFor(a, k)
    /\ PaidFor(a, k) => arguments'[<<a, k>>].cost = arguments[<<a, k>>].cost

LEMMA SamePaymentsConserve ==
  ASSUME NEW a \in Authors, SamePayments(a), ConservedFor(a), TypeOK, TypeOK', RecordInv,
         credited'[a] - ink'[a] = credited[a] - ink[a]
  PROVE  ConservedFor(a)'
<1>1. Paid(a)' = Paid(a)
  BY DEF Paid, SamePayments
<1>2. CostsOf(a)' = CostsOf(a)
  BY <1>1 DEF CostsOf, Paid, SamePayments
<1>3. SumFunctionOnSet(CostsOf(a), Paid(a)) \in Int
  BY CostsTyped, SumRemoves DEF ConservedFor
<1>4. credited[a] \in Int /\ ink[a] \in Int /\ credited'[a] \in Int /\ ink'[a] \in Int
  BY DEF TypeOK
<1>. QED BY <1>1, <1>2, <1>3, <1>4 DEF ConservedFor

LEMMA LandsConserves ==
  ASSUME IInv, InsertsAlone, TypeOK', NEW s \in Sessions, Lands(s),
         NEW a \in Authors, ConservedFor(a)
  PROVE  ConservedFor(a)'
<1> DEFINE k == Key(s)
<1>1. /\ Author(s) \in Authors /\ k \in Keys /\ Slot(s) \in Slots /\ Slot(s) = <<Author(s), k>>
      /\ ~Exists(Slot(s)) /\ req[s].cost \in Costs
      /\ arguments' = [arguments EXCEPT ![Slot(s)] = NewArgument(s)]
      /\ credited' = credited
  BY LandsFacts DEF worldVars
<1>2. TypeOK /\ RecordInv /\ \A x \in Slots : x # Slot(s) => arguments'[x] = arguments[x]
  BY <1>1 DEF IInv, TypeOK
<1>3. arguments'[Slot(s)] = NewArgument(s) /\ NewArgument(s) # NoArgument
      /\ NewArgument(s).cost = req[s].cost
  BY <1>1, <1>2, NewRow DEF TypeOK
<1>6. \A j \in Keys : PaidFor(a, j) => Exists(<<a, j>>) /\ <<a, j>> \in Slots
  BY <1>2 DEF RecordInv, ChargeIsIndivisible, Slots
<1>7. CASE TakesPosted(s)
  <2>1. posted' = posted /\ ink' = ink
    BY <1>7 DEF TakesPosted
  <2>2. SamePayments(a)
    BY <1>1, <1>2, <1>6, <2>1 DEF SamePayments, PaidFor, PostedTo
  <2>. QED BY <1>1, <1>2, <2>1, <2>2, SamePaymentsConserve
<1>8. ASSUME Charges(s)
      PROVE  /\ posted[k] = NoOperation /\ posted'[k].account = Author(s)
             /\ posted'[k].cost = req[s].cost /\ posted'[k] # NoOperation
             /\ \A j \in Keys \ {k} : posted'[j] = posted[j]
             /\ ink' = [ink EXCEPT ![Author(s)] = @ - req[s].cost]
  <2>1. [account |-> Author(s), cost |-> req[s].cost] \in Operations
    BY <1>1 DEF Operations, Costs
  <2>. QED BY <1>1, <1>2, <1>8, <2>1, PublicationAssumption DEF Charges, TypeOK
<1>4. CASE Charges(s) /\ a # Author(s)
  <2>1. \A j \in Keys : PaidFor(a, j)' <=> PaidFor(a, j)
    BY <1>4, <1>8 DEF PaidFor, PostedTo
  <2>2. SamePayments(a)
    BY <1>1, <1>2, <1>4, <1>6, <2>1 DEF SamePayments
  <2>3. ink'[a] = ink[a] /\ credited'[a] = credited[a]
    BY <1>1, <1>2, <1>4, <1>8 DEF TypeOK
  <2>. QED BY <1>2, <2>2, <2>3, SamePaymentsConserve
<1>5. CASE Charges(s) /\ a = Author(s)
  <2>9. PICK i \in Keys : i = k
    BY <1>1
  <2>0. /\ ~PaidFor(a, i) /\ PaidFor(a, i)'
        /\ \A j \in Keys \ {i} : PaidFor(a, j)' <=> PaidFor(a, j)
    BY <1>1, <1>5, <1>8, <2>9 DEF PaidFor, PostedTo, Costs
  <2>1. k \notin Paid(a) /\ Paid(a)' = Paid(a) \cup {k}
    BY <2>0, <2>9 DEF Paid
  <2>2. CostsOf(a)'[k] = req[s].cost /\ req[s].cost \in Int
    BY <1>1, <1>3, <1>5, <2>1 DEF CostsOf, Costs
  <2>3. \A j \in Paid(a) : CostsOf(a)[j] \in Int /\ CostsOf(a)'[j] = CostsOf(a)[j]
    <3>1. ASSUME NEW j \in Paid(a)
          PROVE  CostsOf(a)'[j] = CostsOf(a)[j]
      <4>1. j # k /\ j \in Keys /\ <<a, j>> \in Slots /\ <<a, j>> # Slot(s) /\ j \in Paid(a)'
        BY <1>1, <1>5, <2>0, <2>1, <2>9 DEF Paid, Slots
      <4>. QED BY <1>2, <4>1 DEF CostsOf
    <3>. QED BY <1>2, <3>1, CostsTyped
  <2>4. /\ SumFunctionOnSet(CostsOf(a), Paid(a)) \in Int
        /\ SumFunctionOnSet(CostsOf(a)', Paid(a)') =
              SumFunctionOnSet(CostsOf(a), Paid(a)) + req[s].cost
    <3>1. PICK S, f, e, x : S = Paid(a) /\ f = CostsOf(a) /\ e = CostsOf(a)' /\ x = k
      OBVIOUS
    <3>. HIDE DEF k
    <3>2. IsFiniteSet(S) /\ x \notin S /\ e[x] \in Int /\ \A y \in S : f[y] \in Int /\ e[y] = f[y]
      BY <2>1, <2>2, <2>3, <3>1 DEF ConservedFor
    <3>3. /\ SumFunctionOnSet(f, S) \in Int
          /\ SumFunctionOnSet(e, S \cup {x}) = SumFunctionOnSet(f, S) + e[x]
      BY <3>2, SumAdds
    <3>. QED BY <2>1, <2>2, <3>1, <3>3
  <2>5. IsFiniteSet(Paid(a)')
    BY <2>1, FS_AddElement DEF ConservedFor
  <2>6. ink'[a] = ink[a] - req[s].cost /\ credited'[a] = credited[a]
        /\ ink[a] \in Int /\ credited[a] \in Int /\ req[s].cost \in Int
    BY <1>1, <1>2, <1>5, <1>8, <2>2 DEF TypeOK
  <2>7. credited[a] = ink[a] + SumFunctionOnSet(CostsOf(a), Paid(a))
    BY DEF ConservedFor
  <2>8. credited'[a] = ink'[a] + SumFunctionOnSet(CostsOf(a)', Paid(a)')
    BY <2>4, <2>6, <2>7
  <2>. QED BY <2>5, <2>8 DEF ConservedFor
<1>. QED BY <1>4, <1>5, <1>7, LandsFacts

\* The steps that move INK, and those that change a row without a debit.
LEMMA InkSteps ==
  ASSUME [Next]_vars
  PROVE  \/ UNCHANGED <<arguments, posted, ink, credited>>
         \/ \E s \in Sessions : Lands(s)
         \/ \E s \in Sessions : Withdraws(s) /\ UNCHANGED <<posted, ink, credited>>
         \/ \E x \in Slots : RemoveArgument(x) \/ RestoreArgument(x)
         \/ \E a \in Authors : Credit(a) \/ \E k \in Keys : Adjust(a, k)
<1>1. ASSUME NEW s \in Sessions, SessionStep(s)
      PROVE  \/ UNCHANGED <<arguments, posted, ink, credited>> \/ Lands(s)
             \/ Withdraws(s) /\ UNCHANGED <<posted, ink, credited>>
  <2>1. CASE Commit(s)
    BY <2>1 DEF Commit
  <2>2. CASE WithdrawArgument(s)
    BY <2>2 DEF WithdrawArgument, Withdraws, worldVars
  <2>3. CASE LookUpAttempt(s) \/ EnsureEligible(s) \/ EnsureAcceptsArguments(s) \/ ensureReplyableParent(s)
    BY <2>3 DEF LookUpAttempt, EnsureEligible, EnsureAcceptsArguments, ensureReplyableParent,
                PassesIf, recordVars, worldVars
  <2>4. CASE Debit(s) \/ ClaimKey(s) \/ CreateArgument(s) \/ ResolveReplay(s)
             \/ ReadForAuthor(s) \/ ReadAgain(s)
    BY <2>4 DEF Debit, ClaimKey, CreateArgument, ResolveReplay, ReadForAuthor, ReadAgain,
                recordVars, worldVars
  <2>. QED BY <1>1, <2>1, <2>2, <2>3, <2>4 DEF SessionStep
<1>2. ASSUME NEW s \in Sessions, Begin(s) \/ Abort(s) \/ LoseCommit(s)
      PROVE  UNCHANGED <<arguments, posted, ink, credited>> \/ Lands(s)
  BY <1>2 DEF Begin, Abort, LoseCommit, recordVars, worldVars
<1>3. ASSUME Meanwhile
      PROVE  \/ UNCHANGED <<arguments, posted, ink, credited>>
             \/ \E x \in Slots : RemoveArgument(x) \/ RestoreArgument(x)
             \/ \E a \in Authors : Credit(a) \/ \E k \in Keys : Adjust(a, k)
  BY <1>3 DEF Meanwhile, Suspend, Reactivate, CloseArena, ReopenArena, recordVars
<1>. QED BY <1>1, <1>2, <1>3 DEF Next, vars, recordVars, worldVars

\* A change of status keeps the cost and makes no argument.
LEMMA StatusKeepsPayments ==
  ASSUME TypeOK, UNCHANGED posted, NEW x \in Slots, Exists(x), NEW row \in ArgumentRows,
         row.cost = arguments[x].cost, arguments' = [arguments EXCEPT ![x] = row],
         NEW a \in Authors
  PROVE  SamePayments(a)
<1>1. row # NoArgument
  BY PublicationAssumption
<1>2. \A k \in Keys : <<a, k>> \in Slots
  BY DEF Slots
<1>. QED BY <1>1, <1>2 DEF SamePayments, PaidFor, PostedTo, TypeOK

LEMMA ConservationStep ==
  ASSUME IInv, IInv', InsertsAlone, [Next]_vars, NEW a \in Authors, ConservedFor(a)
  PROVE  ConservedFor(a)'
<1>1. TypeOK /\ TypeOK' /\ RecordInv
  BY DEF IInv
<1>2. ASSUME UNCHANGED <<ink, credited>>, SamePayments(a)
      PROVE  ConservedFor(a)'
  BY <1>1, <1>2, SamePaymentsConserve
<1>3. CASE UNCHANGED <<arguments, posted, ink, credited>>
  BY <1>2, <1>3 DEF SamePayments, PaidFor, PostedTo
<1>4. ASSUME NEW s \in Sessions, Lands(s)
      PROVE  ConservedFor(a)'
  BY <1>1, <1>4, LandsConserves
<1>5. ASSUME NEW s \in Sessions, Withdraws(s), UNCHANGED <<posted, ink, credited>>
      PROVE  ConservedFor(a)'
  <2> DEFINE x == req[s].target
             row == [arguments[x] EXCEPT !.status = "withdrawn", !.withdrawn = TRUE]
  <2>1. Exists(x) /\ x \in Slots /\ arguments' = [arguments EXCEPT ![x] = row]
    <3>1. req[s] \in Withdrawals
      BY <1>5 DEF IInv, SessionInv, RequestInv, Withdraws
    <3>. QED BY <1>5, <3>1, WithdrawalFields DEF Withdraws, Has
  <2>2. row \in ArgumentRows /\ row.cost = arguments[x].cost
    BY <1>1, <2>1, RowFields DEF ArgumentRows, Statuses
  <2>. QED BY <1>1, <1>2, <1>5, <2>1, <2>2, StatusKeepsPayments
<1>6. ASSUME NEW x \in Slots, RemoveArgument(x) \/ RestoreArgument(x)
      PROVE  ConservedFor(a)'
  <2>1. PICK status \in {"removed", "published"} : Moves(x, status)
    BY <1>6 DEF RemoveArgument, RestoreArgument
  <2> DEFINE row == [arguments[x] EXCEPT !.status = status]
  <2>2. Exists(x) /\ UNCHANGED <<posted, ink, credited>> /\ arguments' = [arguments EXCEPT ![x] = row]
    BY <1>6, <2>1 DEF RemoveArgument, RestoreArgument, Moves, Has, worldVars
  <2>3. row \in ArgumentRows /\ row.cost = arguments[x].cost
    BY <1>1, <2>2, RowFields DEF ArgumentRows, Statuses
  <2>. QED BY <1>1, <1>2, <2>2, <2>3, StatusKeepsPayments
<1>7. ASSUME NEW b \in Authors, Credit(b)
      PROVE  ConservedFor(a)'
  <2>1. PICK n \in 1 .. MaxInk - credited[b] :
          /\ ink' = [ink EXCEPT ![b] = @ + n] /\ credited' = [credited EXCEPT ![b] = @ + n]
    BY <1>7 DEF Credit
  <2>2. n \in Int /\ \A c \in Authors : ink[c] \in Int /\ credited[c] \in Int
    BY <1>1, <2>1 DEF TypeOK
  <2>3. credited'[a] - ink'[a] = credited[a] - ink[a]
    BY <1>1, <2>1, <2>2 DEF TypeOK
  <2>4. SamePayments(a)
    BY <1>7 DEF Credit, SamePayments, PaidFor, PostedTo
  <2>. QED BY <1>1, <2>3, <2>4, SamePaymentsConserve
<1>8. ASSUME NEW b \in Authors, NEW k \in Keys, Adjust(b, k)
      PROVE  ConservedFor(a)'
  <2>1. PICK balance \in 0 .. MaxInk :
          /\ ink' = [ink EXCEPT ![b] = balance]
          /\ credited' = [credited EXCEPT ![b] = @ + balance - ink[b]]
    BY <1>8 DEF Adjust
  <2>2. balance \in Int /\ \A c \in Authors : ink[c] \in Int /\ credited[c] \in Int
    BY <1>1, <2>1 DEF TypeOK
  <2>3. credited'[a] - ink'[a] = credited[a] - ink[a]
    BY <1>1, <2>1, <2>2 DEF TypeOK
  <2>4. posted[k] = NoOperation /\ posted'[k].cost = 0
        /\ \A j \in Keys \ {k} : posted'[j] = posted[j]
    BY <1>1, <1>8 DEF Adjust, TypeOK
  <2>5. SamePayments(a)
    BY <1>8, <2>4 DEF Adjust, SamePayments, PaidFor, PostedTo
  <2>. QED BY <1>1, <2>3, <2>5, SamePaymentsConserve
<1>. QED BY <1>3, <1>4, <1>5, <1>6, <1>7, <1>8, InkSteps

(***************************************************************************)
(* No debit is lost or taken twice: over any number of publications,       *)
(* replays, aborts and lost answers, what the other operations gave an     *)
(* account is what its wallet holds and what its arguments with a debit    *)
(* cost.                                                                   *)
(***************************************************************************)
THEOREM InkConservation == Spec => []InkIsConserved
<1> DEFINE Conserved == \A a \in Authors : ConservedFor(a)
<1>1. Init => Conserved
  <2>. SUFFICES ASSUME Init, NEW a \in Authors
                PROVE  ConservedFor(a)
    OBVIOUS
  <2>1. Paid(a) = {} /\ credited[a] = 0 /\ ink[a] = 0
    BY DEF Init, Paid, PaidFor, PostedTo
  <2>. QED BY <2>1, SumEmpty, FS_EmptySet DEF ConservedFor
<1>2. IInv /\ IInv' /\ InsertsAlone /\ [Next]_vars /\ Conserved => Conserved'
  BY ConservationStep
<1>3. Conserved => InkIsConserved
  BY ConservedIsSum
<1>. QED BY <1>1, <1>2, <1>3, Invariance, PTL DEF Spec
-----------------------------------------------------------------------------
(***************************************************************************)
(* Locks.  A publication holds its row once it was debited and its key     *)
(* once it was claimed.                                                    *)
(***************************************************************************)
LocksFit(s) ==
  /\ \A a \in Authors : holder[a] = s => pc[s] \in {"claim", "create", "commit"}
  /\ \A k \in Keys : claimant[k] = s => pc[s] \in {"create", "commit"}

\* What a step of s may do: it locks, moves with what it holds, or releases.
LEMMA StepFits ==
  ASSUME TypeOK, \A t \in Sessions : LocksFit(t), NEW s \in Sessions,
         \A t \in Sessions \ {s} : pc'[t] = pc[t],
         \/ ReleaseLocks(s)
         \/ /\ UNCHANGED lockVars
            /\ \/ pc[s] \notin {"claim", "create", "commit"}
               \/ pc[s] = "claim" /\ pc'[s] = "create"
               \/ pc[s] = "create" /\ pc'[s] = "commit"
         \/ /\ LocksRow(s) /\ UNCHANGED claimant
            /\ pc[s] \in {"debit", "claim"} /\ pc'[s] \in {"claim", "create"}
         \/ /\ UNCHANGED holder /\ claimant' = [claimant EXCEPT ![Key(s)] = s]
            /\ pc[s] = "claim" /\ pc'[s] = "create"
  PROVE  \A t \in Sessions : LocksFit(t)'
<1>1. ASSUME NEW t \in Sessions \ {s}
      PROVE  /\ \A a \in Authors : holder'[a] = t => holder[a] = t
             /\ \A k \in Keys : claimant'[k] = t => claimant[k] = t
  BY PublicationAssumption DEF TypeOK, ReleaseLocks, LocksRow, lockVars
<1>2. CASE ReleaseLocks(s)
  <2>1. (\A a \in Authors : holder'[a] # s) /\ (\A k \in Keys : claimant'[k] # s)
    BY <1>2, PublicationAssumption DEF TypeOK, ReleaseLocks
  <2>. QED BY <1>1, <2>1 DEF LocksFit
<1>3. CASE ~ReleaseLocks(s)
  <2>1. LocksFit(s)'
    BY <1>3 DEF LocksFit, TypeOK, LocksRow, lockVars
  <2>. QED BY <1>1, <2>1 DEF LocksFit
<1>. QED BY <1>2, <1>3

LEMMA LocksStayFit ==
  ASSUME IInv, [Next]_vars, \A s \in Sessions : LocksFit(s)
  PROVE  \A s \in Sessions : LocksFit(s)'
<1>1. CASE Meanwhile \/ UNCHANGED vars
  BY <1>1 DEF Meanwhile, vars, lockVars, LocksFit
<1>2. ASSUME NEW s \in Sessions, Begin(s) \/ SessionStep(s) \/ Abort(s) \/ LoseCommit(s)
      PROVE  \A t \in Sessions : LocksFit(t)'
  <2>1. TypeOK /\ Stages = Stages \cup {"idle", "claim", "create", "commit", "resolve"}
    BY DEF IInv, Stages
  <2>2. \A t \in Sessions \ {s} : pc'[t] = pc[t]
    BY <1>2 DEF Begin, SessionStep, Abort, LoseCommit, Fails, LookUpAttempt, EnsureEligible,
       EnsureAcceptsArguments, ensureReplyableParent, Debit, ClaimKey, CreateArgument, Commit,
       ResolveReplay, ReadForAuthor, WithdrawArgument, ReadAgain, PassesIf, replayDebit,
       EndsWith, Goes, IInv, TypeOK
  <2>3. CASE Debit(s)
    <3>1. pc[s] = "debit" /\ (Goes(s, "claim") => pc'[s] = "claim")
          /\ (Goes(s, "create") => pc'[s] = "create")
      BY <2>1, <2>3, GoesTo DEF Debit
    <3>. QED BY <2>1, <2>2, <2>3, <3>1, StepFits DEF Debit, replayDebit, EndsWith, lockVars
  <2>4. CASE ClaimKey(s)
    <3>1. pc[s] = "claim" /\ (Goes(s, "create") => pc'[s] = "create")
      BY <2>1, <2>4, GoesTo DEF ClaimKey
    <3>. QED BY <2>1, <2>2, <2>4, <3>1, StepFits DEF ClaimKey, replayDebit, EndsWith, lockVars
  <2>5. CASE CreateArgument(s)
    <3>1. pc[s] = "create" /\ (Goes(s, "commit") => pc'[s] = "commit")
      BY <2>1, <2>5, GoesTo DEF CreateArgument
    <3>. QED BY <2>1, <2>2, <2>5, <3>1, StepFits DEF CreateArgument
  <2>6. CASE Commit(s) \/ ResolveReplay(s) \/ ReadAgain(s) \/ Abort(s) \/ LoseCommit(s)
    BY <2>1, <2>2, <2>6, StepFits
       DEF Commit, ResolveReplay, ReadAgain, Abort, LoseCommit, Fails, EndsWith
  <2>7. CASE \/ Begin(s) \/ LookUpAttempt(s) \/ EnsureEligible(s) \/ EnsureAcceptsArguments(s)
             \/ ensureReplyableParent(s) \/ ReadForAuthor(s) \/ WithdrawArgument(s)
    <3>1. pc[s] \notin {"claim", "create", "commit"}
      BY <2>7 DEF Begin, LookUpAttempt, EnsureEligible, EnsureAcceptsArguments,
         ensureReplyableParent, ReadForAuthor, WithdrawArgument
    <3>2. UNCHANGED lockVars \/ ReleaseLocks(s)
      BY <2>7 DEF Begin, LookUpAttempt, EnsureEligible, EnsureAcceptsArguments,
         ensureReplyableParent, ReadForAuthor, WithdrawArgument, PassesIf, EndsWith
    <3>. QED BY <2>1, <2>2, <3>1, <3>2, StepFits
  <2>. QED BY <1>2, <2>3, <2>4, <2>5, <2>6, <2>7 DEF SessionStep
<1>. QED BY <1>1, <1>2 DEF Next

(***************************************************************************)
(* No publications wait for each other in a circle: the row comes before   *)
(* the key, the key before the argument, and who inserted the argument     *)
(* waits for nobody.                                                       *)
(***************************************************************************)
THEOREM PublicationNeverDeadlocks == Spec => []NoDeadlock
<1> DEFINE Fit == \A s \in Sessions : LocksFit(s)
<1>1. Init => Fit
  BY PublicationAssumption DEF Init, LocksFit
<1>2. IInv /\ Fit /\ [Next]_vars => Fit'
  BY LocksStayFit
<1>3. IInv /\ Fit => NoDeadlock
  <2>. SUFFICES ASSUME IInv, Fit, NEW group \in SUBSET Sessions, group # {},
                       \A s \in group : \E t \in group : WaitsFor(s, t)
                PROVE  FALSE
    BY DEF NoDeadlock
  <2>1. ASSUME NEW s \in group, NEW t \in group, WaitsFor(s, t)
        PROVE  \/ pc[s] = "debit" /\ pc[t] \in {"claim", "create", "commit"}
               \/ pc[s] = "claim" /\ pc[t] \in {"create", "commit"}
               \/ pc[s] = "create" /\ pc[t] = "commit"
    <3>1. pc[s] \in {"debit", "claim"} => req[s] \in Requests
      BY DEF IInv, SessionInv, RequestInv, Publishing
    <3>2. pc[s] \in {"debit", "claim"} => Author(s) \in Authors /\ Key(s) \in Keys
      BY <3>1, RequestFields DEF Author, Key
    <3>. QED BY <2>1, <3>2 DEF WaitsFor, LocksFit, Inserts
  <2>2. \A s \in group : pc[s] # "commit"
    BY <2>1
  <2>3. \A s \in group : pc[s] # "create"
    BY <2>1, <2>2
  <2>4. \A s \in group : pc[s] # "claim"
    BY <2>1, <2>2, <2>3
  <2>. QED BY <2>1, <2>2, <2>3, <2>4
<1>. QED BY <1>1, <1>2, <1>3, Invariance, PTL DEF Spec
=============================================================================
