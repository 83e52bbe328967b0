---------------------------- MODULE WalletProofs ----------------------------
(***************************************************************************)
(* What the wallet guarantees for every number of accounts, keys, sessions *)
(* and months, every franchise and every ceiling of the balances.          *)
(***************************************************************************)
EXTENDS Wallet, FiniteSums, TLAPS

(***************************************************************************)
(* What each statement of a session may rely on.  Past its row lock, a     *)
(* debit or a renewal is looking at the committed balance; past its key,   *)
(* nobody else can post that key; a renewal has left no earlier period     *)
(* behind.                                                                 *)
(***************************************************************************)
Posting(s) == pc[s] \in {"insert", "apply", "commit"}

Planned(s) == Posting(s) /\ req[s].kind = "debit"

Reading(s) == pc[s] \in {"plan", "renew", "close"} \/ Planned(s)

RequestInv(s) ==
  /\ pc[s] \in {"ensure", "lookup", "lock", "plan", "insert", "apply", "commit", "audit"} =>
       req[s] \in Requests
  /\ pc[s] = "ensure" => req[s].kind = "credit"
  /\ pc[s] \in {"lookup", "lock", "plan"} => req[s].kind = "debit"
  /\ pc[s] \in {"anchor", "period", "renew", "close"} => req[s] \in Renewals

ReadInv(s) ==
  Reading(s) =>
    holder[Account(s)] = s /\ seen[s] = balance[Account(s)] /\ Opened(Account(s))

PlanInv(s) == Planned(s) => ~Insufficient(req[s].amount, seen[s])

KeyInv(s) ==
  pc[s] \in {"apply", "commit"} => claimant[Key(s)] = s /\ posted[Key(s)] = NoEntry

CommitInv(s) ==
  pc[s] = "commit" =>
    holder[Account(s)] = s /\ Plus(balance[Account(s)], Delta(s)) \in Balance

RenewInv(s) ==
  /\ pc[s] \in {"period", "renew", "close"} =>
       /\ cursor[s] \in 1 .. last[s]
       /\ 1 .. cursor[s] - 1 \subseteq Granted(Account(s))
       /\ Opened(Account(s))
  /\ pc[s] = "close" => cursor[s] \notin Granted(Account(s))

SessionInv(s) ==
  RequestInv(s) /\ ReadInv(s) /\ PlanInv(s) /\ KeyInv(s) /\ CommitInv(s) /\ RenewInv(s)

\* Wallets are opened in the past, and only they are posted to.
WalletInv ==
  /\ \A a \in Accounts : anchor[a] <= month
  /\ \A s \in Sessions : began[s] <= month
  /\ \A k \in Keys : posted[k] # NoEntry => Opened(posted[k].account)

IInv == TypeOK /\ WalletInv /\ \A s \in Sessions : SessionInv(s)
-----------------------------------------------------------------------------
(***************************************************************************)
(* The split of a debit the wallet can pay (domain.AllocateDebit): it adds *)
(* up to the amount, takes no more than each bucket holds, and touches     *)
(* purchased INK only after the franchise is spent.                        *)
(***************************************************************************)
THEOREM AllocationIsExact ==
  ASSUME NEW amount \in Ink, NEW available \in Balance, ~Insufficient(amount, available)
  PROVE  LET split == AllocateDebit(amount, available) IN
         /\ split \in Balance
         /\ split.free + split.purchased = amount
         /\ split.free <= available.free /\ split.purchased <= available.purchased
         /\ split.purchased > 0 => split.free = available.free
  BY MaxInkAssumption DEF Ink, Balance, Insufficient, AllocateDebit, Amounts

LEMMA AmountsFields ==
  ASSUME NEW x, NEW y
  PROVE  Amounts(x, y).free = x /\ Amounts(x, y).purchased = y
  BY DEF Amounts

LEMMA NothingIsBalance == Nothing \in Balance
  BY MaxInkAssumption DEF Nothing, Amounts, Balance, Ink

LEMMA AnswerTyped ==
  ASSUME NEW outcome \in Outcomes, NEW amounts \in Balance
  PROVE  Answer(outcome, amounts) \in [outcome : Outcomes, free : Ink, purchased : Ink]
  BY DEF Answer, Balance

LEMMA RequestFields ==
  ASSUME NEW r \in Requests
  PROVE  /\ r.kind \in {"credit", "debit"} /\ r.account \in Accounts /\ r.key \in Keys
         /\ r.bucket \in {"free", "purchased"} /\ r.amount \in 1 .. MaxInk
         /\ r.admin \in BOOLEAN
  BY WalletAssumption

LEMMA AccountTyped ==
  ASSUME TypeOK, NEW s \in Sessions
  PROVE  Account(s) \in Accounts
  BY RequestFields DEF TypeOK, Renewals, Account

\* The signed amounts a session posts fit the lines of an operation.
LEMMA DeltaTyped ==
  ASSUME TypeOK, NEW s \in Sessions, req[s] \in Requests,
         req[s].kind = "debit" => ~Insufficient(req[s].amount, seen[s])
  PROVE  /\ Delta(s) \in [free : -MaxInk .. MaxInk, purchased : -MaxInk .. MaxInk]
         /\ Magnitude(Delta(s)) \in Balance
<1>1. /\ req[s].kind \in {"credit", "debit"} /\ req[s].bucket \in {"free", "purchased"}
      /\ req[s].amount \in 1 .. MaxInk /\ seen[s] \in Balance
  BY RequestFields DEF TypeOK
<1>2. CASE req[s].kind = "credit"
  <2>1. Delta(s) \in {Amounts(req[s].amount, 0), Amounts(0, req[s].amount)}
    BY <1>1, <1>2 DEF Delta, Credited
  <2>. QED BY <2>1, <1>1, MaxInkAssumption DEF Amounts, Magnitude, Balance, Ink
<1>3. CASE req[s].kind = "debit"
  <2>1. Delta(s) = Negated(AllocateDebit(req[s].amount, seen[s]))
    BY <1>3 DEF Delta
  <2>2. AllocateDebit(req[s].amount, seen[s]) \in Balance
    BY <1>1, <1>3, AllocationIsExact, MaxInkAssumption DEF Ink
  <2>. QED BY <2>1, <2>2, MaxInkAssumption DEF Negated, Amounts, Magnitude, Balance, Ink
<1>. QED BY <1>1, <1>2, <1>3
-----------------------------------------------------------------------------
(***************************************************************************)
(* A step of one session leaves alone what another one holds.              *)
(***************************************************************************)
LEMMA GoesTo ==
  ASSUME TypeOK, NEW s \in Sessions, NEW stage \in Stages, Goes(s, stage)
  PROVE  /\ pc'[s] = stage /\ \A t \in Sessions \ {s} : pc'[t] = pc[t]
         /\ pc' \in [Sessions -> Stages]
  BY DEF TypeOK, Goes

LEMMA ReleaseOnlyOwn ==
  ASSUME TypeOK, NEW s \in Sessions, ReleaseLocks(s)
  PROVE  /\ \A t \in Sessions \ {s} :
              /\ \A a \in Accounts : holder[a] = t => holder'[a] = t
              /\ \A k \in Keys : claimant[k] = t => claimant'[k] = t
         /\ holder' \in [Accounts -> Sessions \cup {NoSession}]
         /\ claimant' \in [Keys -> Sessions \cup {NoSession}]
  BY DEF TypeOK, ReleaseLocks

LEMMA LockOnlyFree ==
  ASSUME TypeOK, NEW s \in Sessions, NEW a \in Accounts, RowIsFree(a, s), Locks(a, s)
  PROVE  /\ holder'[a] = s
         /\ \A t \in Sessions \ {s} : \A x \in Accounts : holder[x] = t => holder'[x] = t
         /\ holder' \in [Accounts -> Sessions \cup {NoSession}]
  BY WalletAssumption DEF TypeOK, RowIsFree, Locks

Undisturbed(t) ==
  /\ pc'[t] = pc[t] /\ req'[t] = req[t] /\ seen'[t] = seen[t]
  /\ cursor'[t] = cursor[t] /\ last'[t] = last[t]
  /\ \A a \in Accounts : holder[a] = t =>
       holder'[a] = t /\ balance'[a] = balance[a] /\ Granted(a)' = Granted(a)
  /\ \A k \in Keys : claimant[k] = t => claimant'[k] = t /\ posted'[k] = posted[k]
  /\ \A a \in Accounts : Opened(a) => Opened(a)'
  /\ \A a \in Accounts : Granted(a) \subseteq Granted(a)'

LEMMA Bystander ==
  ASSUME TypeOK, NEW t \in Sessions, SessionInv(t), Undisturbed(t)
  PROVE  SessionInv(t)'
<1>1. Account(t) \in Accounts /\ Account(t)' = Account(t) /\ Key(t)' = Key(t)
  BY AccountTyped DEF Undisturbed, Account, Key
<1>2. Delta(t)' = Delta(t)
  BY DEF Undisturbed, Delta
<1>3. Key(t) \in Keys \/ pc[t] \notin {"apply", "commit"}
  BY RequestFields DEF SessionInv, RequestInv, Key
<1>4. RequestInv(t)' /\ PlanInv(t)'
  BY DEF SessionInv, RequestInv, PlanInv, Planned, Posting, Undisturbed
<1>5. ReadInv(t)'
  BY <1>1 DEF SessionInv, ReadInv, Reading, Planned, Posting, Undisturbed
<1>6. KeyInv(t)'
  BY <1>1, <1>3 DEF SessionInv, KeyInv, Undisturbed
<1>7. CommitInv(t)'
  <2>. SUFFICES ASSUME pc[t] = "commit" PROVE CommitInv(t)'
    BY DEF CommitInv, Undisturbed
  <2>1. holder[Account(t)] = t /\ Plus(balance[Account(t)], Delta(t)) \in Balance
    BY DEF SessionInv, CommitInv
  <2>2. holder'[Account(t)] = t /\ balance'[Account(t)] = balance[Account(t)]
    BY <1>1, <2>1 DEF Undisturbed
  <2>. QED BY <1>1, <1>2, <2>1, <2>2 DEF CommitInv
<1>8. RenewInv(t)'
  <2>1. pc[t] = "close" => holder[Account(t)] = t
    BY DEF SessionInv, ReadInv, Reading
  <2>2. pc[t] = "close" => Granted(Account(t))' = Granted(Account(t))
    BY <1>1, <2>1 DEF Undisturbed
  <2>. QED BY <1>1, <2>2 DEF SessionInv, RenewInv, Undisturbed
<1>. QED BY <1>4, <1>5, <1>6, <1>7, <1>8 DEF SessionInv
-----------------------------------------------------------------------------
(***************************************************************************)
(* What ends a session or begins one: the answer is typed and the session  *)
(* holds nothing that the other ones rely on.                              *)
(***************************************************************************)
LEMMA EndsTyped ==
  ASSUME TypeOK, NEW s \in Sessions, NEW outcome \in Outcomes, NEW amounts \in Balance,
         EndsWith(s, Answer(outcome, amounts))
  PROVE  /\ pc'[s] = "idle" /\ \A t \in Sessions \ {s} : pc'[t] = pc[t]
         /\ pc' \in [Sessions -> Stages]
         /\ answer' \in [Sessions -> [outcome : Outcomes, free : Ink, purchased : Ink]]
         /\ ReleaseLocks(s)
<1>1. Answer(outcome, amounts) \in [outcome : Outcomes, free : Ink, purchased : Ink]
  BY AnswerTyped
<1>2. "idle" \in Stages
  BY DEF Stages
<1>. QED BY <1>1, <1>2, GoesTo DEF TypeOK, EndsWith

LEMMA ResolvesTyped ==
  ASSUME TypeOK, NEW s \in Sessions, NEW outcome \in Outcomes, NEW amounts \in Balance,
         Resolves(s, Answer(outcome, amounts)), req[s] \in Requests
  PROVE  /\ pc'[s] \in {"idle", "audit"} /\ \A t \in Sessions \ {s} : pc'[t] = pc[t]
         /\ pc' \in [Sessions -> Stages]
         /\ answer' \in [Sessions -> [outcome : Outcomes, free : Ink, purchased : Ink]]
         /\ ReleaseLocks(s)
<1>1. Answer(outcome, amounts) \in [outcome : Outcomes, free : Ink, purchased : Ink]
  BY AnswerTyped
<1>2. PICK stage \in {"idle", "audit"} : Goes(s, stage)
  BY DEF Resolves
<1>3. stage \in Stages
  BY <1>2 DEF Stages
<1>. QED BY <1>1, <1>2, <1>3, GoesTo DEF TypeOK, Resolves

\* Every answer of a replay, and the end of the session with it.
LEMMA ReplaysTyped ==
  ASSUME TypeOK, NEW s \in Sessions, req[s] \in Requests, posted[Key(s)] # NoEntry, Replays(s)
  PROVE  /\ pc'[s] \in {"idle", "audit"} /\ \A t \in Sessions \ {s} : pc'[t] = pc[t]
         /\ pc' \in [Sessions -> Stages]
         /\ answer' \in [Sessions -> [outcome : Outcomes, free : Ink, purchased : Ink]]
         /\ ReleaseLocks(s)
         /\ answer'[s].outcome # "insufficient"
<1>1. posted[Key(s)] \in Entries
  BY RequestFields DEF TypeOK, Key
<1>2. Magnitude(posted[Key(s)].delta) \in Balance /\ Nothing \in Balance
  BY <1>1, NothingIsBalance, MaxInkAssumption DEF Entries, Magnitude, Amounts, Balance, Ink
<1>3. "mismatch" \in Outcomes /\ "replayed" \in Outcomes
  BY DEF Outcomes
<1>4. CASE posted[Key(s)].account # Account(s)
  <2>1. EndsWith(s, Answer("mismatch", Nothing))
    BY <1>4 DEF Replays
  <2>. QED BY <2>1, <1>2, <1>3, EndsTyped DEF EndsWith, Answer, TypeOK
<1>5. CASE posted[Key(s)].account = Account(s)
  <2>1. PICK x \in Balance : Resolves(s, Answer("replayed", x))
    BY <1>5, <1>2 DEF Replays
  <2>. QED BY <2>1, <1>3, ResolvesTyped DEF Resolves, Answer, TypeOK
<1>. QED BY <1>4, <1>5

\* A session that is over relies on nothing.
LEMMA AtRest ==
  ASSUME NEW s \in Sessions, pc'[s] = "idle" \/ (pc'[s] = "audit" /\ req'[s] \in Requests)
  PROVE  SessionInv(s)'
  BY DEF SessionInv, RequestInv, ReadInv, PlanInv, KeyInv, CommitInv, RenewInv,
         Reading, Planned, Posting

\* A step of s that moves no committed row and locks nothing but what was free.
LEMMA OthersUndisturbed ==
  ASSUME TypeOK, NEW s \in Sessions, NEW t \in Sessions \ {s},
         pc'[t] = pc[t], req'[t] = req[t], seen'[t] = seen[t],
         cursor'[t] = cursor[t], last'[t] = last[t],
         UNCHANGED ledgerVars,
         \A a \in Accounts : holder[a] = t => holder'[a] = t,
         \A k \in Keys : claimant[k] = t => claimant'[k] = t
  PROVE  Undisturbed(t)
  BY DEF Undisturbed, ledgerVars, Granted, Opened
-----------------------------------------------------------------------------
(***************************************************************************)
(* Steps that commit nothing: it is enough to follow the session itself.   *)
(***************************************************************************)
OnlyMoves(s) ==
  \A t \in Sessions \ {s} :
    /\ pc'[t] = pc[t] /\ req'[t] = req[t] /\ seen'[t] = seen[t]
    /\ cursor'[t] = cursor[t] /\ last'[t] = last[t] /\ began'[t] = began[t]
    /\ \A a \in Accounts : holder[a] = t => holder'[a] = t
    /\ \A k \in Keys : claimant[k] = t => claimant'[k] = t

LEMMA NothingCommitted ==
  ASSUME IInv, NEW s \in Sessions, UNCHANGED <<ledgerVars, month>>, OnlyMoves(s),
         began'[s] <= month, TypeOK', SessionInv(s)'
  PROVE  IInv'
<1>1. \A t \in Sessions \ {s} : SessionInv(t)'
  BY Bystander, OthersUndisturbed DEF IInv, OnlyMoves
<1>2. WalletInv'
  BY DEF IInv, WalletInv, OnlyMoves, ledgerVars, Opened
<1>. QED BY <1>1, <1>2 DEF IInv

LEMMA QuietTypes ==
  ASSUME TypeOK, UNCHANGED <<ledgerVars, month, localVars>>, faults' \in 0 .. MaxFaults,
         holder' \in [Accounts -> Sessions \cup {NoSession}],
         claimant' \in [Keys -> Sessions \cup {NoSession}],
         pc' \in [Sessions -> Stages],
         answer' \in [Sessions -> [outcome : Outcomes, free : Ink, purchased : Ink]]
  PROVE  TypeOK'
  BY DEF TypeOK, ledgerVars, localVars

\* The session ends, or keeps its locks and moves on.
LEMMA EndStep ==
  ASSUME IInv, NEW s \in Sessions, UNCHANGED <<ledgerVars, month, localVars>>,
         faults' \in 0 .. MaxFaults,
         pc'[s] = "idle" \/ (pc'[s] = "audit" /\ req[s] \in Requests),
         \A t \in Sessions \ {s} : pc'[t] = pc[t],
         pc' \in [Sessions -> Stages],
         answer' \in [Sessions -> [outcome : Outcomes, free : Ink, purchased : Ink]],
         ReleaseLocks(s)
  PROVE  IInv'
<1>1. TypeOK'
  BY QuietTypes, ReleaseOnlyOwn DEF IInv
<1>2. SessionInv(s)'
  BY AtRest DEF localVars
<1>3. OnlyMoves(s)
  BY ReleaseOnlyOwn DEF OnlyMoves, IInv, localVars
<1>4. began'[s] <= month
  BY DEF IInv, WalletInv, localVars
<1>. QED BY <1>1, <1>2, <1>3, <1>4, NothingCommitted

LEMMA EndsStep ==
  ASSUME IInv, NEW s \in Sessions, UNCHANGED <<ledgerVars, month, localVars>>,
         faults' \in 0 .. MaxFaults,
         NEW outcome \in Outcomes, EndsWith(s, Answer(outcome, Nothing))
  PROVE  IInv'
  BY EndsTyped, EndStep, NothingIsBalance DEF IInv

LEMMA ReplaysStep ==
  ASSUME IInv, NEW s \in Sessions, UNCHANGED <<ledgerVars, month, localVars, faults>>,
         req[s] \in Requests, posted[Key(s)] # NoEntry, Replays(s)
  PROVE  IInv'
<1>1. faults' \in 0 .. MaxFaults
  BY DEF IInv, TypeOK
<1>. QED BY <1>1, ReplaysTyped, EndStep DEF IInv

\* The session goes to its next statement.
LEMMA GoesStep ==
  ASSUME IInv, NEW s \in Sessions, UNCHANGED <<ledgerVars, month, localVars, answer, faults>>,
         NEW stage \in Stages, Goes(s, stage),
         holder' \in [Accounts -> Sessions \cup {NoSession}],
         claimant' \in [Keys -> Sessions \cup {NoSession}],
         \A t \in Sessions \ {s} :
           /\ \A a \in Accounts : holder[a] = t => holder'[a] = t
           /\ \A k \in Keys : claimant[k] = t => claimant'[k] = t,
         SessionInv(s)'
  PROVE  IInv'
<1>1. TypeOK'
  BY QuietTypes, GoesTo DEF IInv, TypeOK
<1>2. OnlyMoves(s)
  BY GoesTo DEF OnlyMoves, IInv, localVars
<1>3. began'[s] <= month
  BY DEF IInv, WalletInv, localVars
<1>. QED BY <1>1, <1>2, <1>3, NothingCommitted

\* Past these stages a credit relies on its key at most.
LEMMA EnsureWalletStep ==
  ASSUME IInv, NEW s \in Sessions, EnsureWallet(s)
  PROVE  IInv'
<1>1. TypeOK /\ Account(s) \in Accounts /\ req[s] \in Requests /\ req[s].kind = "credit"
  BY AccountTyped DEF IInv, SessionInv, RequestInv, EnsureWallet
<1>2. Goes(s, "insert") /\ "insert" \in Stages
  BY DEF EnsureWallet, Stages
<1>3. /\ holder' \in [Accounts -> Sessions \cup {NoSession}]
      /\ \A t \in Sessions \ {s} : \A a \in Accounts : holder[a] = t => holder'[a] = t
  BY <1>1, LockOnlyFree DEF EnsureWallet, TypeOK
<1>4. pc'[s] = "insert" /\ UNCHANGED <<ledgerVars, month, claimant, localVars, answer, faults>>
  BY <1>1, <1>2, GoesTo DEF EnsureWallet
<1>5. SessionInv(s)'
  BY <1>1, <1>4 DEF SessionInv, RequestInv, ReadInv, PlanInv, KeyInv, CommitInv, RenewInv,
                    Reading, Planned, Posting, localVars
<1>. QED BY <1>1, <1>2, <1>3, <1>4, <1>5, GoesStep DEF TypeOK

LEMMA InsertOperationStep ==
  ASSUME IInv, NEW s \in Sessions, InsertOperation(s)
  PROVE  IInv'
<1>1. /\ TypeOK /\ Account(s) \in Accounts /\ req[s] \in Requests /\ Key(s) \in Keys
      /\ req[s].kind \in {"credit", "debit"}
  BY AccountTyped, RequestFields DEF IInv, SessionInv, RequestInv, InsertOperation, Key
<1>2. UNCHANGED <<ledgerVars, month, localVars, faults>> /\ pc[s] = "insert"
  BY DEF InsertOperation
<1>3. CASE posted[Key(s)] # NoEntry
  BY <1>1, <1>2, <1>3, ReplaysStep DEF InsertOperation
<1>4. CASE posted[Key(s)] = NoEntry
  <2>1. /\ claimant[Key(s)] = NoSession
        /\ claimant' = [claimant EXCEPT ![Key(s)] = s]
        /\ Goes(s, "apply") /\ UNCHANGED <<holder, answer>> /\ "apply" \in Stages
    BY <1>4 DEF InsertOperation, Stages
  <2>2. /\ claimant' \in [Keys -> Sessions \cup {NoSession}] /\ claimant'[Key(s)] = s
        /\ \A t \in Sessions \ {s} : \A k \in Keys : claimant[k] = t => claimant'[k] = t
    BY <1>1, <2>1, WalletAssumption DEF TypeOK
  <2>3. pc'[s] = "apply"
    BY <1>1, <2>1, GoesTo
  <2>4. /\ Key(s)' = Key(s) /\ Account(s)' = Account(s) /\ holder' = holder
        /\ posted' = posted /\ balance' = balance /\ anchor' = anchor
        /\ req'[s] = req[s] /\ seen'[s] = seen[s]
    BY <1>2, <2>1 DEF Key, Account, ledgerVars, localVars
  <2>5. KeyInv(s)'
    BY <1>4, <2>2, <2>4 DEF KeyInv
  <2>6. RequestInv(s)' /\ RenewInv(s)' /\ CommitInv(s)'
    BY <1>1, <2>3, <2>4 DEF RequestInv, RenewInv, CommitInv
  <2>7. ReadInv(s)' /\ PlanInv(s)'
    BY <1>2, <2>3, <2>4 DEF IInv, SessionInv, ReadInv, PlanInv, Reading, Planned, Posting, Opened
  <2>8. SessionInv(s)'
    BY <2>5, <2>6, <2>7 DEF SessionInv
  <2>. QED BY <1>1, <1>2, <2>1, <2>2, <2>8, GoesStep DEF TypeOK
<1>. QED BY <1>3, <1>4

LEMMA ApplyBalanceStep ==
  ASSUME IInv, NEW s \in Sessions, ApplyBalance(s)
  PROVE  IInv'
<1>1. /\ TypeOK /\ Account(s) \in Accounts /\ req[s] \in Requests /\ faults \in 0 .. MaxFaults
      /\ "overflow" \in Outcomes /\ "commit" \in Stages
  BY AccountTyped DEF IInv, SessionInv, RequestInv, ApplyBalance, TypeOK, Outcomes, Stages
<1>2. /\ UNCHANGED <<ledgerVars, month, localVars, faults>> /\ pc[s] = "apply"
      /\ RowIsFree(Account(s), s)
  BY DEF ApplyBalance
<1>3. CASE Plus(balance[Account(s)], Delta(s)) \notin Balance
  BY <1>1, <1>2, <1>3, EndsStep DEF ApplyBalance
<1>4. CASE Plus(balance[Account(s)], Delta(s)) \in Balance
  <2>1. Locks(Account(s), s) /\ Goes(s, "commit") /\ UNCHANGED <<claimant, answer>>
    BY <1>4 DEF ApplyBalance
  <2>2. /\ holder' \in [Accounts -> Sessions \cup {NoSession}] /\ holder'[Account(s)] = s
        /\ \A t \in Sessions \ {s} : \A a \in Accounts : holder[a] = t => holder'[a] = t
    BY <1>1, <1>2, <2>1, LockOnlyFree
  <2>3. pc'[s] = "commit"
    BY <1>1, <2>1, GoesTo
  <2>4. /\ Key(s)' = Key(s) /\ Account(s)' = Account(s) /\ claimant' = claimant
        /\ posted' = posted /\ balance' = balance /\ anchor' = anchor
        /\ req'[s] = req[s] /\ seen'[s] = seen[s]
    BY <1>2, <2>1 DEF Key, Account, ledgerVars, localVars
  <2>5. Delta(s)' = Delta(s)
    BY <2>4 DEF Delta
  <2>6. KeyInv(s)' /\ CommitInv(s)'
    BY <1>2, <1>4, <2>2, <2>4, <2>5 DEF IInv, SessionInv, KeyInv, CommitInv
  <2>7. RequestInv(s)' /\ RenewInv(s)'
    BY <1>1, <2>3, <2>4 DEF RequestInv, RenewInv
  <2>8. ReadInv(s)' /\ PlanInv(s)'
    BY <1>2, <2>2, <2>3, <2>4 DEF IInv, SessionInv, ReadInv, PlanInv, Reading, Planned, Posting, Opened
  <2>9. SessionInv(s)'
    BY <2>6, <2>7, <2>8 DEF SessionInv
  <2>. QED BY <1>1, <1>2, <2>1, <2>2, <2>9, GoesStep DEF TypeOK
<1>. QED BY <1>3, <1>4

LEMMA LookUpKeyStep ==
  ASSUME IInv, NEW s \in Sessions, LookUpKey(s)
  PROVE  IInv'
<1>1. /\ TypeOK /\ req[s] \in Requests /\ req[s].kind = "debit" /\ "lock" \in Stages
  BY DEF IInv, SessionInv, RequestInv, LookUpKey, Stages
<1>2. UNCHANGED <<ledgerVars, month, localVars, faults>>
  BY DEF LookUpKey
<1>3. CASE posted[Key(s)] # NoEntry
  BY <1>1, <1>2, <1>3, ReplaysStep DEF LookUpKey
<1>4. CASE posted[Key(s)] = NoEntry
  <2>1. Goes(s, "lock") /\ UNCHANGED <<lockVars, answer>>
    BY <1>4 DEF LookUpKey
  <2>2. pc'[s] = "lock"
    BY <1>1, <2>1, GoesTo
  <2>3. SessionInv(s)'
    BY <1>1, <1>2, <2>2 DEF SessionInv, RequestInv, ReadInv, PlanInv, KeyInv, CommitInv, RenewInv,
                            Reading, Planned, Posting, localVars
  <2>. QED BY <1>1, <1>2, <2>1, <2>3, GoesStep DEF TypeOK, lockVars
<1>. QED BY <1>3, <1>4

LEMMA PlanDebitStep ==
  ASSUME IInv, NEW s \in Sessions, PlanDebit(s)
  PROVE  IInv'
<1>1. /\ TypeOK /\ req[s] \in Requests /\ req[s].kind = "debit" /\ "insert" \in Stages
      /\ faults \in 0 .. MaxFaults /\ {"overflow", "insufficient"} \subseteq Outcomes
  BY DEF IInv, SessionInv, RequestInv, PlanDebit, Stages, TypeOK, Outcomes
<1>2. UNCHANGED <<ledgerVars, month, localVars, faults>> /\ pc[s] = "plan"
  BY DEF PlanDebit
<1>3. CASE posted[Key(s)] # NoEntry
  BY <1>1, <1>2, <1>3, ReplaysStep DEF PlanDebit
<1>4. CASE posted[Key(s)] = NoEntry /\ AllocationOverflows(req[s].amount, seen[s])
  BY <1>1, <1>2, <1>4, EndsStep DEF PlanDebit
<1>5. CASE posted[Key(s)] = NoEntry /\ ~AllocationOverflows(req[s].amount, seen[s])
           /\ Insufficient(req[s].amount, seen[s])
  BY <1>1, <1>2, <1>5, EndsStep DEF PlanDebit
<1>6. CASE posted[Key(s)] = NoEntry /\ ~AllocationOverflows(req[s].amount, seen[s])
           /\ ~Insufficient(req[s].amount, seen[s])
  <2>1. Goes(s, "insert") /\ UNCHANGED <<lockVars, answer>>
    BY <1>6 DEF PlanDebit
  <2>2. pc'[s] = "insert"
    BY <1>1, <2>1, GoesTo
  <2>3. /\ Account(s)' = Account(s) /\ holder' = holder /\ balance' = balance
        /\ anchor' = anchor /\ req'[s] = req[s] /\ seen'[s] = seen[s]
    BY <1>2, <2>1 DEF Account, ledgerVars, localVars, lockVars
  <2>4. ReadInv(s)'
    BY <1>2, <2>3 DEF IInv, SessionInv, ReadInv, Reading, Opened
  <2>5. PlanInv(s)'
    BY <1>6, <2>3 DEF PlanInv
  <2>6. RequestInv(s)' /\ KeyInv(s)' /\ CommitInv(s)' /\ RenewInv(s)'
    BY <1>1, <2>2, <2>3 DEF RequestInv, KeyInv, CommitInv, RenewInv
  <2>7. SessionInv(s)'
    BY <2>4, <2>5, <2>6 DEF SessionInv
  <2>. QED BY <1>1, <1>2, <2>1, <2>7, GoesStep DEF TypeOK, lockVars
<1>. QED BY <1>3, <1>4, <1>5, <1>6
-----------------------------------------------------------------------------
(***************************************************************************)
(* Steps that change what a session remembers: its request, the balance it *)
(* read, the period it is at.                                              *)
(***************************************************************************)
LEMMA LockWalletStep ==
  ASSUME IInv, NEW s \in Sessions, LockWallet(s)
  PROVE  IInv'
<1>1. /\ TypeOK /\ req[s] \in Requests /\ req[s].kind = "debit" /\ "plan" \in Stages
      /\ Account(s) \in Accounts
      /\ faults \in 0 .. MaxFaults /\ "insufficient" \in Outcomes
  BY AccountTyped DEF IInv, SessionInv, RequestInv, LockWallet, Stages, TypeOK, Outcomes
<1>2. UNCHANGED <<ledgerVars, month, req, began, cursor, last, faults>> /\ pc[s] = "lock"
  BY DEF LockWallet
<1>3. CASE ~Opened(Account(s))
  <2>1. EndsWith(s, Answer("insufficient", Nothing)) /\ UNCHANGED localVars
    BY <1>3 DEF LockWallet, localVars
  <2>. QED BY <1>1, <1>2, <2>1, EndsStep
<1>4. CASE Opened(Account(s))
  <2>1. /\ RowIsFree(Account(s), s) /\ Locks(Account(s), s)
        /\ seen' = [seen EXCEPT ![s] = balance[Account(s)]]
        /\ Goes(s, "plan") /\ UNCHANGED <<claimant, answer>>
    BY <1>4 DEF LockWallet
  <2>2. /\ holder' \in [Accounts -> Sessions \cup {NoSession}] /\ holder'[Account(s)] = s
        /\ \A t \in Sessions \ {s} : \A a \in Accounts : holder[a] = t => holder'[a] = t
    BY <1>1, <2>1, LockOnlyFree
  <2>3. /\ pc'[s] = "plan" /\ pc' \in [Sessions -> Stages]
        /\ \A t \in Sessions \ {s} : pc'[t] = pc[t]
    BY <1>1, <2>1, GoesTo
  <2>4. /\ seen'[s] = balance[Account(s)] /\ seen' \in [Sessions -> Balance]
        /\ \A t \in Sessions \ {s} : seen'[t] = seen[t]
    BY <1>1, <2>1 DEF TypeOK
  <2>5. TypeOK'
    BY <1>1, <1>2, <2>1, <2>2, <2>3, <2>4 DEF TypeOK, ledgerVars
  <2>6. ReadInv(s)'
    BY <1>2, <1>4, <2>2, <2>4 DEF ReadInv, Opened, Account, ledgerVars
  <2>7. SessionInv(s)'
    BY <1>1, <1>2, <2>3, <2>6 DEF SessionInv, RequestInv, PlanInv, KeyInv, CommitInv, RenewInv,
                                  Planned, Posting
  <2>8. OnlyMoves(s) /\ began'[s] <= month
    BY <1>2, <2>1, <2>2, <2>3, <2>4 DEF OnlyMoves, IInv, WalletInv
  <2>. QED BY <1>2, <2>5, <2>7, <2>8, NothingCommitted
<1>. QED BY <1>3, <1>4

LEMMA LockForRenewalStep ==
  ASSUME IInv, NEW s \in Sessions, LockForRenewal(s)
  PROVE  IInv'
<1>1. TypeOK /\ req[s] \in Renewals /\ "renew" \in Stages /\ Account(s) \in Accounts
  BY AccountTyped DEF IInv, SessionInv, RequestInv, LockForRenewal, Stages
<1>2. /\ UNCHANGED <<ledgerVars, month, claimant, req, began, cursor, last, answer, faults>>
      /\ pc[s] = "period" /\ RowIsFree(Account(s), s) /\ Locks(Account(s), s)
      /\ seen' = [seen EXCEPT ![s] = balance[Account(s)]] /\ Goes(s, "renew")
  BY DEF LockForRenewal
<1>3. /\ holder' \in [Accounts -> Sessions \cup {NoSession}] /\ holder'[Account(s)] = s
      /\ \A t \in Sessions \ {s} : \A a \in Accounts : holder[a] = t => holder'[a] = t
  BY <1>1, <1>2, LockOnlyFree
<1>4. /\ pc'[s] = "renew" /\ pc' \in [Sessions -> Stages]
      /\ \A t \in Sessions \ {s} : pc'[t] = pc[t]
  BY <1>1, <1>2, GoesTo
<1>5. /\ seen'[s] = balance[Account(s)] /\ seen' \in [Sessions -> Balance]
      /\ \A t \in Sessions \ {s} : seen'[t] = seen[t]
  BY <1>1, <1>2 DEF TypeOK
<1>6. TypeOK'
  BY <1>1, <1>2, <1>3, <1>4, <1>5 DEF TypeOK, ledgerVars
<1>7. ReadInv(s)' /\ RenewInv(s)'
  BY <1>2, <1>3, <1>4, <1>5 DEF IInv, SessionInv, RenewInv, ReadInv, Opened, Account, Granted, ledgerVars
<1>8. SessionInv(s)'
  BY <1>1, <1>2, <1>4, <1>7 DEF SessionInv, RequestInv, PlanInv, KeyInv, CommitInv, Planned, Posting
<1>9. OnlyMoves(s) /\ began'[s] <= month
  BY <1>2, <1>3, <1>4, <1>5 DEF OnlyMoves, IInv, WalletInv
<1>. QED BY <1>2, <1>6, <1>8, <1>9, NothingCommitted

LEMMA BeginStep ==
  ASSUME IInv, NEW s \in Sessions, Begin(s)
  PROVE  IInv'
<1>1. PICK r \in Requests \cup Renewals :
        /\ req' = [req EXCEPT ![s] = r] /\ Goes(s, FirstStage(r))
  BY DEF Begin
<1>2. /\ pc[s] = "idle" /\ UNCHANGED <<ledgerVars, month, lockVars, faults>>
      /\ began' = [began EXCEPT ![s] = month] /\ seen' = [seen EXCEPT ![s] = Nothing]
      /\ cursor' = [cursor EXCEPT ![s] = 0] /\ last' = [last EXCEPT ![s] = 0]
      /\ answer' = [answer EXCEPT ![s] = Answer("none", Nothing)]
  BY DEF Begin
<1>3. /\ TypeOK /\ FirstStage(r) \in Stages /\ month \in 0 .. MaxMonth /\ MaxMonth \in Nat
      /\ Answer("none", Nothing) \in [outcome : Outcomes, free : Ink, purchased : Ink]
      /\ Nothing \in Balance
  BY AnswerTyped, NothingIsBalance, WalletAssumption DEF IInv, TypeOK, FirstStage, Stages, Outcomes
<1>4. /\ pc'[s] = FirstStage(r) /\ pc' \in [Sessions -> Stages]
      /\ \A t \in Sessions \ {s} : pc'[t] = pc[t]
  BY <1>1, <1>3, GoesTo
<1>5. TypeOK'
  BY <1>1, <1>2, <1>3, <1>4 DEF TypeOK, ledgerVars, lockVars
<1>6. req'[s] = r /\ began'[s] = month
  BY <1>1, <1>2, <1>3 DEF TypeOK
<1>7. SessionInv(s)'
  <2>1. CASE r \in Requests
    BY <1>4, <1>6, <2>1, RequestFields DEF FirstStage, SessionInv, RequestInv, ReadInv, PlanInv,
       KeyInv, CommitInv, RenewInv, Reading, Planned, Posting
  <2>2. CASE r \in Renewals
    BY <1>4, <1>6, <2>2 DEF Renewals, FirstStage, SessionInv, RequestInv, ReadInv, PlanInv,
       KeyInv, CommitInv, RenewInv, Reading, Planned, Posting
  <2>. QED BY <2>1, <2>2
<1>8. OnlyMoves(s)
  BY <1>1, <1>2, <1>3, <1>4 DEF OnlyMoves, TypeOK, lockVars
<1>9. began'[s] <= month
  BY <1>3, <1>6
<1>. QED BY <1>2, <1>5, <1>7, <1>8, <1>9, NothingCommitted

LEMMA ReadAnchorStep ==
  ASSUME IInv, NEW s \in Sessions, ReadAnchor(s)
  PROVE  IInv'
<1> DEFINE due == month - anchor[Account(s)]
<1>1. /\ TypeOK /\ req[s] \in Renewals /\ Account(s) \in Accounts /\ faults \in 0 .. MaxFaults
      /\ {"missing", "renewed"} \subseteq Outcomes /\ "period" \in Stages
      /\ month \in 0 .. MaxMonth /\ MaxMonth \in Nat
  BY AccountTyped, WalletAssumption
     DEF IInv, SessionInv, RequestInv, ReadAnchor, TypeOK, Outcomes, Stages
<1>2. UNCHANGED <<ledgerVars, month, req, began, seen, faults>> /\ pc[s] = "anchor"
  BY DEF ReadAnchor
<1>3. CASE ~Opened(Account(s))
  <2>1. EndsWith(s, Answer("missing", Nothing)) /\ UNCHANGED localVars
    BY <1>2, <1>3 DEF ReadAnchor, localVars
  <2>. QED BY <1>1, <1>2, <2>1, EndsStep
<1>4. CASE Opened(Account(s))
  <2>1. /\ cursor' = [cursor EXCEPT ![s] = 1] /\ last' = [last EXCEPT ![s] = due]
        /\ IF due = 0 THEN EndsWith(s, Answer("renewed", Nothing))
                      ELSE Goes(s, "period") /\ UNCHANGED <<lockVars, answer>>
    BY <1>4 DEF ReadAnchor
  <2>2. due \in 0 .. MaxMonth
    BY <1>1, <1>4 DEF IInv, WalletInv, TypeOK, Opened
  <2>3. /\ cursor'[s] = 1 /\ last'[s] = due
        /\ \A t \in Sessions \ {s} : cursor'[t] = cursor[t] /\ last'[t] = last[t]
        /\ cursor' \in [Sessions -> 0 .. MaxMonth + 1] /\ last' \in [Sessions -> 0 .. MaxMonth]
    BY <1>1, <2>1, <2>2 DEF TypeOK
  <2>4. began'[s] <= month
    BY <1>2 DEF IInv, WalletInv
  <2>5. CASE due = 0
    <3>1. EndsWith(s, Answer("renewed", Nothing))
      BY <2>1, <2>5
    <3>2. /\ pc'[s] = "idle" /\ pc' \in [Sessions -> Stages] /\ ReleaseLocks(s)
          /\ \A t \in Sessions \ {s} : pc'[t] = pc[t]
          /\ answer' \in [Sessions -> [outcome : Outcomes, free : Ink, purchased : Ink]]
      BY <1>1, <3>1, EndsTyped, NothingIsBalance
    <3>3. TypeOK'
      BY <1>1, <1>2, <2>3, <3>2, ReleaseOnlyOwn DEF TypeOK, ledgerVars
    <3>4. OnlyMoves(s)
      BY <1>1, <1>2, <2>3, <3>2, ReleaseOnlyOwn DEF OnlyMoves
    <3>. QED BY <1>2, <2>4, <3>2, <3>3, <3>4, AtRest, NothingCommitted
  <2>6. CASE due # 0
    <3>1. Goes(s, "period") /\ UNCHANGED <<lockVars, answer>>
      BY <2>1, <2>6
    <3>2. /\ pc'[s] = "period" /\ pc' \in [Sessions -> Stages]
          /\ \A t \in Sessions \ {s} : pc'[t] = pc[t]
      BY <1>1, <3>1, GoesTo
    <3>3. TypeOK'
      BY <1>1, <1>2, <2>3, <3>1, <3>2 DEF TypeOK, ledgerVars, lockVars
    <3>4. OnlyMoves(s)
      BY <1>1, <1>2, <2>3, <3>1, <3>2 DEF OnlyMoves, lockVars
    <3>5. RenewInv(s)'
      BY <1>2, <1>4, <2>2, <2>3, <2>6, <3>2
         DEF RenewInv, Opened, Account, Granted, ledgerVars
    <3>6. SessionInv(s)'
      BY <1>1, <1>2, <3>2, <3>5 DEF SessionInv, RequestInv, ReadInv, PlanInv, KeyInv, CommitInv,
                                    Reading, Planned, Posting
    <3>. QED BY <1>2, <2>4, <3>3, <3>4, <3>6, NothingCommitted
  <2>. QED BY <2>5, <2>6
<1>. QED BY <1>3, <1>4

\* A renewal ends after the last period, and otherwise takes the next one.
LEMMA AdvancesTo ==
  ASSUME TypeOK, NEW s \in Sessions, Advances(s), cursor[s] \in 1 .. last[s]
  PROVE  /\ pc'[s] = "idle" \/ (pc'[s] = "period" /\ cursor'[s] = cursor[s] + 1
                                                  /\ cursor'[s] \in 1 .. last[s])
         /\ pc' \in [Sessions -> Stages] /\ cursor' \in [Sessions -> 0 .. MaxMonth + 1]
         /\ \A t \in Sessions \ {s} : pc'[t] = pc[t] /\ cursor'[t] = cursor[t]
         /\ answer' \in [Sessions -> [outcome : Outcomes, free : Ink, purchased : Ink]]
         /\ ReleaseLocks(s)
<1>1. last[s] \in 0 .. MaxMonth /\ MaxMonth \in Nat
  BY WalletAssumption DEF TypeOK
<1>2. CASE cursor[s] < last[s]
  <2>1. /\ cursor' = [cursor EXCEPT ![s] = @ + 1] /\ ReleaseLocks(s) /\ Goes(s, "period")
        /\ UNCHANGED answer /\ "period" \in Stages
    BY <1>2 DEF Advances, Stages
  <2>2. /\ cursor'[s] = cursor[s] + 1 /\ cursor' \in [Sessions -> 0 .. MaxMonth + 1]
        /\ \A t \in Sessions \ {s} : cursor'[t] = cursor[t]
    BY <1>1, <1>2, <2>1 DEF TypeOK
  <2>. QED BY <1>1, <1>2, <2>1, <2>2, GoesTo DEF TypeOK
<1>3. CASE ~(cursor[s] < last[s])
  <2>1. EndsWith(s, Answer("renewed", Nothing)) /\ UNCHANGED cursor /\ "renewed" \in Outcomes
    BY <1>3 DEF Advances, Outcomes
  <2>. QED BY <2>1, EndsTyped, NothingIsBalance DEF TypeOK
<1>. QED BY <1>2, <1>3

LEMMA CheckPeriodStep ==
  ASSUME IInv, NEW s \in Sessions, CheckPeriod(s)
  PROVE  IInv'
<1>1. /\ TypeOK /\ req[s] \in Renewals /\ "close" \in Stages /\ cursor[s] \in 1 .. last[s]
      /\ last[s] \in 0 .. MaxMonth
      /\ 1 .. cursor[s] - 1 \subseteq Granted(Account(s)) /\ Opened(Account(s))
  BY DEF IInv, SessionInv, RequestInv, RenewInv, CheckPeriod, Stages, TypeOK
<1>2. UNCHANGED <<ledgerVars, month, req, began, seen, last, faults>> /\ pc[s] = "renew"
  BY DEF CheckPeriod
<1>3. began'[s] <= month
  BY <1>2 DEF IInv, WalletInv
<1>4. CASE cursor[s] \in Granted(Account(s))
  <2>1. Advances(s)
    BY <1>4 DEF CheckPeriod
  <2>2. TypeOK'
    BY <1>1, <1>2, <2>1, AdvancesTo, ReleaseOnlyOwn DEF TypeOK, ledgerVars
  <2>3. OnlyMoves(s)
    BY <1>1, <1>2, <2>1, AdvancesTo, ReleaseOnlyOwn DEF OnlyMoves
  <2>4. CASE pc'[s] = "idle"
    BY <1>2, <1>3, <2>2, <2>3, <2>4, AtRest, NothingCommitted
  <2>5. CASE pc'[s] = "period" /\ cursor'[s] = cursor[s] + 1 /\ cursor'[s] \in 1 .. last[s]
    <3>1. 1 .. cursor[s] \subseteq Granted(Account(s))
      BY <1>1, <1>4
    <3>2. RenewInv(s)'
      BY <1>1, <1>2, <2>5, <3>1 DEF RenewInv, Opened, Account, Granted, ledgerVars
    <3>3. SessionInv(s)'
      BY <1>1, <1>2, <2>5, <3>2 DEF SessionInv, RequestInv, ReadInv, PlanInv, KeyInv, CommitInv,
                                    Reading, Planned, Posting
    <3>. QED BY <1>2, <1>3, <2>2, <2>3, <3>3, NothingCommitted
  <2>. QED BY <1>1, <2>1, <2>4, <2>5, AdvancesTo
<1>5. CASE cursor[s] \notin Granted(Account(s))
  <2>1. Goes(s, "close") /\ UNCHANGED <<lockVars, cursor, answer>>
    BY <1>5 DEF CheckPeriod
  <2>2. pc'[s] = "close"
    BY <1>1, <2>1, GoesTo
  <2>3. ReadInv(s)' /\ RenewInv(s)'
    BY <1>1, <1>2, <1>5, <2>1, <2>2
       DEF IInv, SessionInv, ReadInv, Reading, RenewInv, Opened, Account, Granted, ledgerVars, lockVars
  <2>4. SessionInv(s)'
    BY <1>1, <1>2, <2>2, <2>3 DEF SessionInv, RequestInv, PlanInv, KeyInv, CommitInv, Planned, Posting
  <2>. QED BY <1>1, <1>2, <2>1, <2>4, GoesStep DEF TypeOK, lockVars, localVars
<1>. QED BY <1>4, <1>5

LEMMA RecordAuditStep ==
  ASSUME IInv, NEW s \in Sessions, RecordAudit(s)
  PROVE  IInv'
<1>1. /\ TypeOK /\ req[s] \in Requests /\ Key(s) \in Keys /\ "idle" \in Stages
  BY RequestFields DEF IInv, SessionInv, RequestInv, RecordAudit, Stages, Key
<1>2. /\ audited' = audited \cup {Key(s)} /\ Goes(s, "idle")
      /\ UNCHANGED <<anchor, balance, posted, renewals, month, lockVars, localVars, answer, faults>>
  BY DEF RecordAudit
<1>3. /\ pc'[s] = "idle" /\ pc' \in [Sessions -> Stages]
      /\ \A t \in Sessions \ {s} : pc'[t] = pc[t]
  BY <1>1, <1>2, GoesTo
<1>4. TypeOK'
  BY <1>1, <1>2, <1>3 DEF TypeOK, lockVars, localVars
<1>5. \A t \in Sessions \ {s} : SessionInv(t)'
  BY <1>1, <1>2, <1>3, Bystander DEF IInv, Undisturbed, lockVars, localVars, Opened, Granted
<1>6. WalletInv'
  BY <1>2 DEF IInv, WalletInv, localVars, Opened
<1>. QED BY <1>3, <1>4, <1>5, <1>6, AtRest DEF IInv

LEMMA NextMonthStep ==
  ASSUME IInv, NextMonth
  PROVE  IInv'
<1>1. /\ month' = month + 1 /\ month' \in 0 .. MaxMonth
      /\ UNCHANGED <<ledgerVars, lockVars, pc, localVars, answer, faults>>
  BY WalletAssumption DEF NextMonth, IInv, TypeOK
<1>2. TypeOK'
  BY <1>1 DEF IInv, TypeOK, ledgerVars, lockVars, localVars
<1>3. \A t \in Sessions : SessionInv(t)'
  BY <1>1, Bystander DEF IInv, Undisturbed, ledgerVars, lockVars, localVars, Opened, Granted
<1>4. WalletInv'
  <2>1. \A a \in Accounts : anchor[a] \in {NotOpened} \cup 0 .. MaxMonth
    BY DEF IInv, TypeOK
  <2>2. month \in 0 .. MaxMonth /\ MaxMonth \in Nat /\ \A s \in Sessions : began[s] \in 0 .. MaxMonth
    BY WalletAssumption DEF IInv, TypeOK
  <2>. QED BY <1>1, <2>1, <2>2 DEF IInv, WalletInv, ledgerVars, localVars, Opened, NotOpened
<1>. QED BY <1>2, <1>3, <1>4 DEF IInv
-----------------------------------------------------------------------------
(***************************************************************************)
(* Steps that commit.                                                      *)
(***************************************************************************)
PostedRow(s) == [account |-> Account(s), delta |-> Delta(s)]

\* What a commit of a credit or a debit does, and may do.
LEMMA PostsFacts ==
  ASSUME IInv, NEW s \in Sessions, Posts(s)
  PROVE  /\ req[s] \in Requests /\ Account(s) \in Accounts /\ Key(s) \in Keys
         /\ pc[s] = "commit" /\ holder[Account(s)] = s /\ claimant[Key(s)] = s
         /\ posted[Key(s)] = NoEntry /\ PostedRow(s) \in Entries
         /\ Magnitude(Delta(s)) \in Balance
         /\ Plus(balance[Account(s)], Delta(s)) \in Balance
         /\ UNCHANGED <<renewals, audited, month, localVars>>
<1>1. TypeOK /\ pc[s] = "commit" /\ req[s] \in Requests
  BY DEF IInv, SessionInv, RequestInv, Posts
<1>2. Account(s) \in Accounts /\ Key(s) \in Keys
  BY <1>1, AccountTyped, RequestFields DEF Key
<1>3. req[s].kind = "debit" => ~Insufficient(req[s].amount, seen[s])
  BY <1>1 DEF IInv, SessionInv, PlanInv, Planned, Posting
<1>4. PostedRow(s) \in Entries /\ Magnitude(Delta(s)) \in Balance
  BY <1>1, <1>2, <1>3, DeltaTyped DEF PostedRow, Entries
<1>5. /\ holder[Account(s)] = s /\ Plus(balance[Account(s)], Delta(s)) \in Balance
      /\ claimant[Key(s)] = s /\ posted[Key(s)] = NoEntry
  BY <1>1 DEF IInv, SessionInv, CommitInv, KeyInv
<1>. QED BY <1>1, <1>2, <1>4, <1>5 DEF Posts

LEMMA PostsStep ==
  ASSUME IInv, NEW s \in Sessions, Posts(s), faults' \in 0 .. MaxFaults,
         pc'[s] = "idle" \/ pc'[s] = "audit",
         \A t \in Sessions \ {s} : pc'[t] = pc[t],
         pc' \in [Sessions -> Stages],
         answer' \in [Sessions -> [outcome : Outcomes, free : Ink, purchased : Ink]],
         ReleaseLocks(s)
  PROVE  IInv'
<1>1. /\ TypeOK /\ req[s] \in Requests /\ Account(s) \in Accounts /\ Key(s) \in Keys
      /\ holder[Account(s)] = s /\ claimant[Key(s)] = s
      /\ PostedRow(s) \in Entries /\ Plus(balance[Account(s)], Delta(s)) \in Balance
      /\ UNCHANGED <<renewals, audited, month, localVars>>
  BY PostsFacts DEF IInv
<1>2. /\ posted' = [posted EXCEPT ![Key(s)] = PostedRow(s)]
      /\ balance' = [balance EXCEPT ![Account(s)] = Plus(@, Delta(s))]
      /\ anchor' = IF Opened(Account(s)) THEN anchor
                   ELSE [anchor EXCEPT ![Account(s)] = began[s]]
  BY DEF Posts, PostedRow
<1>3. /\ month \in 0 .. MaxMonth /\ MaxMonth \in Nat /\ began[s] \in 0 .. MaxMonth
      /\ began[s] <= month
  BY <1>1, WalletAssumption DEF TypeOK, IInv, WalletInv
<1>4. /\ anchor' \in [Accounts -> {NotOpened} \cup 0 .. MaxMonth]
      /\ \A a \in Accounts : Opened(a) => anchor'[a] = anchor[a]
      /\ \A a \in Accounts : anchor'[a] <= month
      /\ anchor'[Account(s)] # NotOpened
  BY <1>1, <1>2, <1>3 DEF TypeOK, Opened, NotOpened, IInv, WalletInv
<1>5. /\ balance' \in [Accounts -> Balance]
      /\ \A a \in Accounts \ {Account(s)} : balance'[a] = balance[a]
  BY <1>1, <1>2 DEF TypeOK
<1>6. /\ posted' \in [Keys -> Entries \cup {NoEntry}] /\ posted'[Key(s)] = PostedRow(s)
      /\ \A k \in Keys \ {Key(s)} : posted'[k] = posted[k]
  BY <1>1, <1>2 DEF TypeOK
<1>7. TypeOK'
  BY <1>1, <1>4, <1>5, <1>6, ReleaseOnlyOwn DEF TypeOK, localVars
<1>8. WalletInv'
  <2>1. \A k \in Keys : posted'[k] # NoEntry => anchor'[posted'[k].account] # NotOpened
    <3> SUFFICES ASSUME NEW k \in Keys, posted'[k] # NoEntry
                 PROVE  anchor'[posted'[k].account] # NotOpened
      OBVIOUS
    <3>1. CASE k = Key(s)
      BY <1>4, <1>6, <3>1 DEF PostedRow
    <3>2. CASE k # Key(s)
      <4>1. posted[k] \in Entries /\ posted'[k] = posted[k] /\ Opened(posted[k].account)
        BY <1>1, <1>6, <3>2 DEF TypeOK, IInv, WalletInv
      <4>2. posted[k].account \in Accounts
        BY <4>1 DEF Entries
      <4>. QED BY <1>4, <4>1, <4>2 DEF Opened
    <3>. QED BY <3>1, <3>2
  <2>. QED BY <1>1, <1>4, <2>1 DEF IInv, WalletInv, Opened, localVars
<1>9. ASSUME NEW t \in Sessions \ {s}
      PROVE  SessionInv(t)'
  <2>1. Undisturbed(t)
    <3>1. \A a \in Accounts : holder[a] = t => holder'[a] = t /\ balance'[a] = balance[a]
      BY <1>1, <1>5, ReleaseOnlyOwn
    <3>2. \A k \in Keys : claimant[k] = t => claimant'[k] = t /\ posted'[k] = posted[k]
      BY <1>1, <1>6, ReleaseOnlyOwn
    <3>. QED BY <1>1, <1>4, <3>1, <3>2 DEF Undisturbed, Granted, Opened, localVars
  <2>. QED BY <1>1, <2>1, Bystander DEF IInv
<1>10. SessionInv(s)'
  BY <1>1, AtRest DEF localVars
<1>. QED BY <1>7, <1>8, <1>9, <1>10 DEF IInv

LEMMA CommitStep ==
  ASSUME IInv, NEW s \in Sessions, Commit(s)
  PROVE  IInv'
<1>1. /\ TypeOK /\ req[s] \in Requests /\ Magnitude(Delta(s)) \in Balance /\ Nothing \in Balance
      /\ "applied" \in Outcomes /\ faults' \in 0 .. MaxFaults /\ Posts(s)
  BY PostsFacts, NothingIsBalance DEF Commit, IInv, TypeOK, Outcomes
<1>2. PICK x \in Balance : Resolves(s, Answer("applied", x))
  BY <1>1 DEF Commit
<1>. QED BY <1>1, <1>2, ResolvesTyped, PostsStep

Renewal(s) == [account |-> Account(s), period |-> cursor[s], expired |-> seen[s].free]

\* What a committed renewal does: the franchise takes the place of what was left.
LEMMA RenewsFacts ==
  ASSUME IInv, NEW s \in Sessions, Renews(s)
  PROVE  /\ Account(s) \in Accounts /\ holder[Account(s)] = s /\ Opened(Account(s))
         /\ cursor[s] \in 1 .. last[s] /\ last[s] \in 0 .. MaxMonth /\ req[s] \in Renewals
         /\ cursor[s] \notin Granted(Account(s))
         /\ 1 .. cursor[s] - 1 \subseteq Granted(Account(s))
         /\ balance' = [balance EXCEPT ![Account(s)] = Amounts(Franchise, @.purchased)]
         /\ Amounts(Franchise, balance[Account(s)].purchased) \in Balance
         /\ renewals' = renewals \cup {Renewal(s)}
         /\ Granted(Account(s))' = Granted(Account(s)) \cup {cursor[s]}
         /\ \A a \in Accounts \ {Account(s)} : Granted(a)' = Granted(a)
         /\ UNCHANGED <<anchor, posted, audited, month, req, began, seen, last>>
<1>1. TypeOK /\ pc[s] = "close" /\ req[s] \in Renewals /\ last[s] \in 0 .. MaxMonth
  BY DEF IInv, SessionInv, RequestInv, Renews, TypeOK
<1>2. Account(s) \in Accounts
  BY <1>1, AccountTyped
<1>3. /\ holder[Account(s)] = s /\ Opened(Account(s)) /\ seen[s] = balance[Account(s)]
      /\ cursor[s] \in 1 .. last[s] /\ cursor[s] \notin Granted(Account(s))
      /\ 1 .. cursor[s] - 1 \subseteq Granted(Account(s))
  BY <1>1 DEF IInv, SessionInv, ReadInv, Reading, RenewInv
<1>4. balance[Account(s)] \in Balance /\ Franchise \in Ink
  BY <1>1, <1>2, WalletAssumption, MaxInkAssumption DEF TypeOK, Ink
<1>5. Plus(balance[Account(s)], Amounts(Franchise - seen[s].free, 0))
        = Amounts(Franchise, balance[Account(s)].purchased)
  BY <1>3, <1>4, MaxInkAssumption DEF Plus, Amounts, Balance, Ink
<1>6. balance' = [balance EXCEPT ![Account(s)] = Amounts(Franchise, @.purchased)]
  BY <1>5 DEF Renews
<1>7. Amounts(Franchise, balance[Account(s)].purchased) \in Balance
  BY <1>4 DEF Amounts, Balance
<1>8. renewals' = renewals \cup {Renewal(s)}
  BY DEF Renews, Renewal
<1>9. Renewal(s).account = Account(s) /\ Renewal(s).period = cursor[s]
  BY DEF Renewal
<1>10. /\ Granted(Account(s))' = Granted(Account(s)) \cup {cursor[s]}
       /\ \A a \in Accounts \ {Account(s)} : Granted(a)' = Granted(a)
  <2>1. Account(s)' = Account(s)
    BY DEF Renews, Account
  <2>. QED BY <1>8, <1>9, <2>1 DEF Granted
<1>. QED BY <1>1, <1>2, <1>3, <1>6, <1>7, <1>8, <1>10 DEF Renews

LEMMA RenewsStep ==
  ASSUME IInv, NEW s \in Sessions, Renews(s), faults' \in 0 .. MaxFaults,
         pc'[s] = "idle" \/ (pc'[s] = "period" /\ cursor'[s] = cursor[s] + 1
                                               /\ cursor'[s] \in 1 .. last[s]),
         pc' \in [Sessions -> Stages], cursor' \in [Sessions -> 0 .. MaxMonth + 1],
         \A t \in Sessions \ {s} : pc'[t] = pc[t] /\ cursor'[t] = cursor[t],
         answer' \in [Sessions -> [outcome : Outcomes, free : Ink, purchased : Ink]],
         ReleaseLocks(s)
  PROVE  IInv'
<1>1. /\ TypeOK /\ Account(s) \in Accounts /\ holder[Account(s)] = s
      /\ Account(s)' = Account(s) /\ Opened(Account(s)) /\ req[s] \in Renewals
      /\ UNCHANGED <<anchor, posted, audited, month, req, began, seen, last>>
  BY RenewsFacts DEF IInv, Account
<1>2. /\ cursor[s] \in 1 .. last[s] /\ last[s] \in 0 .. MaxMonth
      /\ 1 .. cursor[s] - 1 \subseteq Granted(Account(s))
      /\ Granted(Account(s))' = Granted(Account(s)) \cup {cursor[s]}
      /\ \A a \in Accounts \ {Account(s)} : Granted(a)' = Granted(a)
      /\ renewals' = renewals \cup {Renewal(s)}
  BY RenewsFacts
<1>3. /\ balance' \in [Accounts -> Balance]
      /\ \A a \in Accounts \ {Account(s)} : balance'[a] = balance[a]
  <2>1. PICK x \in Balance : balance' = [balance EXCEPT ![Account(s)] = x]
    BY RenewsFacts
  <2>. QED BY <1>1, <2>1 DEF TypeOK
<1>4. renewals' \subseteq [account : Accounts, period : Periods, expired : Ink]
  <2>1. seen[s] \in Balance /\ last[s] \in 0 .. MaxMonth /\ MaxMonth \in Nat
    BY <1>1, WalletAssumption DEF TypeOK
  <2>2. Renewal(s) \in [account : Accounts, period : Periods, expired : Ink]
    BY <1>1, <1>2, <2>1 DEF Renewal, Periods, Balance
  <2>3. renewals \subseteq [account : Accounts, period : Periods, expired : Ink]
    BY <1>1 DEF TypeOK
  <2>. QED BY <1>2, <2>2, <2>3
<1>5. TypeOK'
  BY <1>1, <1>3, <1>4, ReleaseOnlyOwn DEF TypeOK
<1>6. WalletInv'
  BY <1>1 DEF IInv, WalletInv, Opened
<1>7. ASSUME NEW t \in Sessions \ {s}
      PROVE  SessionInv(t)'
  <2>1. \A a \in Accounts : Granted(a) \subseteq Granted(a)'
    BY <1>1, <1>2
  <2>2. \A a \in Accounts : holder[a] = t =>
          holder'[a] = t /\ balance'[a] = balance[a] /\ Granted(a)' = Granted(a)
    BY <1>1, <1>2, <1>3, ReleaseOnlyOwn
  <2>3. \A k \in Keys : claimant[k] = t => claimant'[k] = t /\ posted'[k] = posted[k]
    BY <1>1, ReleaseOnlyOwn
  <2>4. Undisturbed(t)
    BY <1>1, <2>1, <2>2, <2>3 DEF Undisturbed, Opened
  <2>. QED BY <1>1, <2>4, Bystander DEF IInv
<1>8. SessionInv(s)'
  <2>1. CASE pc'[s] = "idle"
    BY <2>1, AtRest
  <2>2. CASE pc'[s] = "period" /\ cursor'[s] = cursor[s] + 1 /\ cursor'[s] \in 1 .. last[s]
    <3>1. 1 .. cursor[s] \subseteq Granted(Account(s))'
      BY <1>2, WalletAssumption
    <3>2. 1 .. cursor'[s] - 1 \subseteq Granted(Account(s))'
      BY <2>2, <3>1, WalletAssumption DEF IInv, TypeOK
    <3>3. Opened(Account(s))'
      BY <1>1 DEF Opened
    <3>4. RenewInv(s)'
      BY <1>1, <2>2, <3>2, <3>3 DEF RenewInv
    <3>5. req'[s] \in Renewals
      BY <1>1
    <3>. QED BY <2>2, <3>4, <3>5 DEF SessionInv, RequestInv, ReadInv, PlanInv, KeyInv, CommitInv,
                                     Reading, Planned, Posting
  <2>. QED BY <2>1, <2>2
<1>. QED BY <1>5, <1>6, <1>7, <1>8 DEF IInv

LEMMA CommitRenewalStep ==
  ASSUME IInv, NEW s \in Sessions, CommitRenewal(s)
  PROVE  IInv'
<1>1. TypeOK /\ Renews(s) /\ Advances(s) /\ faults' \in 0 .. MaxFaults
  BY DEF IInv, TypeOK, CommitRenewal
<1>2. cursor[s] \in 1 .. last[s]
  BY <1>1, RenewsFacts
<1>. QED BY <1>1, <1>2, AdvancesTo, RenewsStep

LEMMA BreakStep ==
  ASSUME IInv, NEW s \in Sessions, BreakDeadlock(s)
  PROVE  IInv'
<1>1. faults' \in 0 .. MaxFaults /\ "none" \in Outcomes
  BY DEF IInv, TypeOK, BreakDeadlock, Outcomes
<1>. QED BY <1>1, EndsStep DEF BreakDeadlock

LEMMA FaultSteps ==
  ASSUME IInv, NEW s \in Sessions, Abort(s) \/ LoseCommit(s)
  PROVE  IInv'
<1>1. Fails(s)
  BY DEF Abort, LoseCommit
<1>2. /\ TypeOK /\ faults' \in 0 .. MaxFaults /\ "none" \in Outcomes
      /\ EndsWith(s, Answer("none", Nothing))
  BY <1>1, WalletAssumption DEF IInv, TypeOK, Fails, Outcomes
<1>3. CASE Abort(s)
  BY <1>2, <1>3, EndsStep DEF Abort
<1>4. CASE Posts(s)
  BY <1>2, <1>4, EndsTyped, PostsStep, NothingIsBalance
<1>5. CASE Renews(s) /\ UNCHANGED cursor
  BY <1>2, <1>5, EndsTyped, RenewsStep, NothingIsBalance DEF TypeOK
<1>. QED BY <1>3, <1>4, <1>5 DEF LoseCommit
-----------------------------------------------------------------------------
LEMMA Initially == Init => IInv
<1> SUFFICES ASSUME Init PROVE IInv
  OBVIOUS
<1>1. Nothing \in Balance /\ MaxMonth \in Nat /\ MaxFaults \in Nat
  BY NothingIsBalance, WalletAssumption
<1>2. Answer("none", Nothing) \in [outcome : Outcomes, free : Ink, purchased : Ink]
  BY <1>1, AnswerTyped DEF Outcomes
<1>3. TypeOK
  BY <1>1, <1>2 DEF Init, TypeOK, Stages
<1>4. WalletInv
  BY <1>1 DEF Init, WalletInv, NotOpened
<1>5. \A s \in Sessions : SessionInv(s)
  BY DEF Init, SessionInv, RequestInv, ReadInv, PlanInv, KeyInv, CommitInv, RenewInv,
         Reading, Planned, Posting
<1>. QED BY <1>3, <1>4, <1>5 DEF IInv

LEMMA Stuttering ==
  ASSUME IInv, UNCHANGED vars
  PROVE  IInv'
<1>1. UNCHANGED <<ledgerVars, month, lockVars, pc, localVars, answer, faults>>
  BY DEF vars
<1>2. TypeOK'
  BY <1>1 DEF IInv, TypeOK, ledgerVars, lockVars, localVars
<1>3. \A t \in Sessions : SessionInv(t)'
  BY <1>1, Bystander DEF IInv, Undisturbed, ledgerVars, lockVars, localVars, Opened, Granted
<1>4. WalletInv'
  BY <1>1 DEF IInv, WalletInv, ledgerVars, localVars, Opened
<1>. QED BY <1>2, <1>3, <1>4 DEF IInv

LEMMA Inductive == IInv /\ [Next]_vars => IInv'
<1> SUFFICES ASSUME IInv, [Next]_vars PROVE IInv'
  OBVIOUS
<1>1. ASSUME NEW s \in Sessions, SessionStep(s)
      PROVE  IInv'
  BY <1>1, EnsureWalletStep, InsertOperationStep, ApplyBalanceStep, LookUpKeyStep, LockWalletStep,
     PlanDebitStep, CommitStep, RecordAuditStep, ReadAnchorStep, LockForRenewalStep,
     CheckPeriodStep, CommitRenewalStep, BreakStep DEF SessionStep
<1>. QED BY <1>1, BeginStep, FaultSteps, NextMonthStep, Stuttering DEF Next

LEMMA Invariance == Spec => []IInv
  BY Initially, Inductive, PTL DEF Spec

(***************************************************************************)
(* No balance ever leaves the range of the CHECKs and of bigint, whatever  *)
(* sessions run together and wherever they are aborted.                    *)
(***************************************************************************)
THEOREM TypeCorrect == Spec => []TypeOK
<1>1. IInv => TypeOK
  BY DEF IInv
<1>. QED BY <1>1, Invariance, PTL
-----------------------------------------------------------------------------
(***************************************************************************)
(* How the committed rows change: not at all, by one posting or by one     *)
(* renewal.                                                                *)
(***************************************************************************)
ledger == <<balance, posted, renewals>>

LEMMA LedgerSteps ==
  ASSUME [Next]_vars
  PROVE  \/ UNCHANGED ledger
         \/ \E s \in Sessions : Posts(s) \/ Renews(s)
<1>1. ASSUME NEW s \in Sessions, SessionStep(s)
      PROVE  UNCHANGED ledger \/ Posts(s) \/ Renews(s)
  BY <1>1 DEF SessionStep, EnsureWallet, InsertOperation, ApplyBalance, LookUpKey, LockWallet,
     PlanDebit, Commit, RecordAudit, ReadAnchor, LockForRenewal, CheckPeriod, CommitRenewal,
     BreakDeadlock, ledger, ledgerVars
<1>2. ASSUME NEW s \in Sessions, Begin(s) \/ Abort(s) \/ LoseCommit(s)
      PROVE  UNCHANGED ledger \/ Posts(s) \/ Renews(s)
  BY <1>2 DEF Begin, Abort, LoseCommit, ledger, ledgerVars
<1>3. CASE NextMonth \/ UNCHANGED vars
  BY <1>3 DEF NextMonth, vars, ledger, ledgerVars
<1>. QED BY <1>1, <1>2, <1>3 DEF Next

LEMMA PostingIsAllowed ==
  ASSUME IInv, NEW s \in Sessions, Posts(s)
  PROVE  Ledger!Credit(Account(s), Key(s)) \/ Ledger!Debit(Account(s), Key(s))
<1>1. /\ req[s] \in Requests /\ Account(s) \in Accounts /\ Key(s) \in Keys /\ pc[s] = "commit"
      /\ posted[Key(s)] = NoEntry /\ Plus(balance[Account(s)], Delta(s)) \in Balance
      /\ UNCHANGED renewals /\ TypeOK
  BY PostsFacts DEF IInv
<1>2. ASSUME NEW delta, delta = Delta(s)
      PROVE  Ledger!Post(Account(s), Key(s), delta)
  <2>1. UNCHANGED grants
    BY <1>1 DEF grants, Granted
  <2>. QED BY <1>1, <1>2, <2>1 DEF Posts, Ledger!Post, Ledger!Plus, Ledger!Amounts, Plus, Amounts,
                                 Ledger!Balance, Balance, Ledger!Ink, Ink
<1>3. CASE req[s].kind = "credit"
  <2>1. req[s].amount \in 1 .. MaxInk
    BY <1>1, RequestFields
  <2>2. Delta(s) = Amounts(req[s].amount, 0) \/ Delta(s) = Amounts(0, req[s].amount)
    BY <1>3 DEF Delta, Credited
  <2>. QED BY <1>2, <2>1, <2>2 DEF Ledger!Credit, Ledger!Amounts, Amounts
<1>4. CASE req[s].kind = "debit"
  <2> DEFINE split == AllocateDebit(req[s].amount, seen[s])
  <2>1. /\ seen[s] = balance[Account(s)] /\ ~Insufficient(req[s].amount, seen[s])
        /\ seen[s] \in Balance /\ req[s].amount \in 1 .. MaxInk
    BY <1>1, <1>4, RequestFields
       DEF IInv, SessionInv, ReadInv, PlanInv, Reading, Planned, Posting, TypeOK
  <2>2. req[s].amount \in Ink
    BY <2>1, MaxInkAssumption DEF Ink
  <2>3. /\ split \in Balance /\ split.free + split.purchased = req[s].amount
        /\ split.purchased > 0 => split.free = seen[s].free
    BY <2>1, <2>2, AllocationIsExact
  <2>4. Delta(s) = Amounts(-split.free, -split.purchased)
    BY <1>4 DEF Delta, Negated
  <2>5. Ledger!Post(Account(s), Key(s), Amounts(-split.free, -split.purchased))
    BY <1>2, <2>4
  <2>6. split.free \in Ink /\ split.purchased \in Ink /\ split.free + split.purchased > 0
    BY <2>1, <2>3, MaxInkAssumption DEF Balance
  <2>. QED BY <2>1, <2>3, <2>5, <2>6 DEF Ledger!Debit, Ledger!Ink, Ink, Ledger!Amounts, Amounts
<1>. QED BY <1>1, <1>3, <1>4, RequestFields

LEMMA RenewalIsAllowed ==
  ASSUME IInv, NEW s \in Sessions, Renews(s)
  PROVE  Ledger!Renew(Account(s), cursor[s]) /\ cursor[s] \in Periods
<1>1. /\ Account(s) \in Accounts /\ cursor[s] \in 1 .. last[s] /\ last[s] \in 0 .. MaxMonth
      /\ cursor[s] \notin Granted(Account(s))
      /\ 1 .. cursor[s] - 1 \subseteq Granted(Account(s))
      /\ balance' = [balance EXCEPT ![Account(s)] = Amounts(Franchise, @.purchased)]
      /\ Granted(Account(s))' = Granted(Account(s)) \cup {cursor[s]}
      /\ \A a \in Accounts \ {Account(s)} : Granted(a)' = Granted(a)
      /\ UNCHANGED posted /\ Account(s)' = Account(s)
  BY RenewsFacts DEF Account
<1>2. cursor[s] \in Periods
  BY <1>1, WalletAssumption DEF Periods
<1>3. grants' = [grants EXCEPT ![Account(s)] = @ \cup {cursor[s]}]
  <2>1. /\ grants = [a \in Accounts |-> Granted(a)]
        /\ grants' = [a \in Accounts |-> Granted(a)']
    BY DEF grants
  <2>. QED BY <1>1, <2>1
<1>4. grants[Account(s)] = Granted(Account(s))
  BY <1>1 DEF grants
<1>. QED BY <1>1, <1>2, <1>3, <1>4 DEF Ledger!Renew, Ledger!Amounts, Amounts

(***************************************************************************)
(* The wallet implements the abstract ledger: under every interleaving of  *)
(* sessions, aborts, lost answers and repeated requests, a key is posted   *)
(* once, a debit takes the franchise first and never more than there is,   *)
(* and every period is renewed once and in order.                          *)
(***************************************************************************)
THEOREM ImplementsLedger == Spec => LedgerSpec
<1>1. Init => Ledger!Init
  <2> SUFFICES ASSUME Init PROVE Ledger!Init
    OBVIOUS
  <2>1. grants = [a \in Accounts |-> {}]
    BY DEF Init, grants, Granted
  <2>. QED BY <2>1 DEF Init, Ledger!Init, Ledger!Amounts, Nothing, Amounts
<1>2. IInv /\ [Next]_vars => [Ledger!Next]_(Ledger!vars)
  <2> SUFFICES ASSUME IInv, [Next]_vars PROVE [Ledger!Next]_(Ledger!vars)
    OBVIOUS
  <2>1. CASE UNCHANGED ledger
    BY <2>1 DEF ledger, Ledger!vars, grants, Granted
  <2>2. ASSUME NEW s \in Sessions, Posts(s)
        PROVE  Ledger!Next
    <3>1. Account(s) \in Accounts /\ Key(s) \in Keys
      BY <2>2, PostsFacts
    <3>. QED BY <2>2, <3>1, PostingIsAllowed DEF Ledger!Next
  <2>3. ASSUME NEW s \in Sessions, Renews(s)
        PROVE  Ledger!Next
    <3>1. Account(s) \in Accounts
      BY <2>3, RenewsFacts
    <3>. QED BY <2>3, <3>1, RenewalIsAllowed DEF Ledger!Next
  <2>. QED BY <2>1, <2>2, <2>3, LedgerSteps
<1>. QED BY <1>1, <1>2, Invariance, PTL DEF Spec, LedgerSpec, Ledger!Spec

(***************************************************************************)
(* A debit is refused for lack of INK only when the wallet cannot pay and  *)
(* the debit was not posted before: the refusal is decided under the row   *)
(* lock, on the committed balance.                                         *)
(***************************************************************************)
THEOREM RefusesJustly == Spec => RefusalsAreJust
<1> DEFINE Just(s) == RefusedFor(s) =>
             /\ ~PostedBy(Account(s), Key(s))
             /\ Opened(Account(s)) => Insufficient(req[s].amount, balance[Account(s)])
<1>1. ASSUME IInv, [Next]_vars, NEW s \in Sessions
      PROVE  Just(s)
  <2> SUFFICES ASSUME RefusedFor(s) PROVE Just(s)
    OBVIOUS
  <2>1. TypeOK /\ answer[s].outcome = "none" /\ answer'[s].outcome = "insufficient"
    BY <1>1 DEF IInv, RefusedFor
  <2>2. \/ LockWallet(s) /\ ~Opened(Account(s))
        \/ PlanDebit(s) /\ posted[Key(s)] = NoEntry /\ Insufficient(req[s].amount, seen[s])
    <3>1. ASSUME NEW t \in Sessions, NEW result, answer' = [answer EXCEPT ![t] = result],
                 t # s \/ result.outcome # "insufficient"
          PROVE  FALSE
      BY <2>1, <3>1 DEF TypeOK
    <3>2. ASSUME NEW t \in Sessions, NEW outcome, NEW x, outcome # "insufficient" \/ t # s,
                 EndsWith(t, Answer(outcome, x)) \/ Resolves(t, Answer(outcome, x))
          PROVE  FALSE
      BY <3>1, <3>2 DEF EndsWith, Resolves, Answer
    <3>3. ASSUME NEW t \in Sessions, Replays(t)
          PROVE  FALSE
      BY <3>2, <3>3 DEF Replays
    <3>4. answer' # answer
      BY <2>1
    <3>5. ASSUME NEW t \in Sessions, Begin(t) \/ Abort(t) \/ LoseCommit(t) \/ BreakDeadlock(t)
          PROVE  FALSE
      BY <3>1, <3>2, <3>5 DEF Begin, Abort, LoseCommit, BreakDeadlock, Fails, Answer
    <3>6. ASSUME NEW t \in Sessions,
                 \/ EnsureWallet(t) \/ InsertOperation(t) \/ ApplyBalance(t) \/ LookUpKey(t)
                 \/ Commit(t) \/ RecordAudit(t) \/ ReadAnchor(t) \/ LockForRenewal(t)
          PROVE  FALSE
      BY <3>2, <3>3, <3>4, <3>6 DEF EnsureWallet, InsertOperation, ApplyBalance, LookUpKey,
         Commit, RecordAudit, ReadAnchor, LockForRenewal, lockVars
    <3>7. ASSUME NEW t \in Sessions, CheckPeriod(t) \/ CommitRenewal(t)
          PROVE  FALSE
      BY <3>2, <3>4, <3>7 DEF CheckPeriod, CommitRenewal, Advances, lockVars
    <3>8. ASSUME NEW t \in Sessions, LockWallet(t)
          PROVE  t = s /\ ~Opened(Account(s))
      BY <3>2, <3>4, <3>8 DEF LockWallet
    <3>9. ASSUME NEW t \in Sessions, PlanDebit(t)
          PROVE  t = s /\ posted[Key(s)] = NoEntry /\ Insufficient(req[s].amount, seen[s])
      BY <3>2, <3>3, <3>4, <3>9 DEF PlanDebit, lockVars
    <3>10. ~(NextMonth \/ UNCHANGED vars)
      BY <3>4 DEF NextMonth, vars
    <3>. QED BY <1>1, <3>5, <3>6, <3>7, <3>8, <3>9, <3>10 DEF Next, SessionStep
  <2>3. CASE LockWallet(s) /\ ~Opened(Account(s))
    <3>1. Key(s) \in Keys
      BY <1>1, <2>3, RequestFields DEF LockWallet, IInv, SessionInv, RequestInv, Key
    <3>. QED BY <1>1, <2>3, <3>1 DEF IInv, WalletInv, PostedBy
  <2>4. CASE PlanDebit(s) /\ posted[Key(s)] = NoEntry /\ Insufficient(req[s].amount, seen[s])
    BY <1>1, <2>4 DEF PlanDebit, PostedBy, IInv, SessionInv, ReadInv, Reading
  <2>. QED BY <2>2, <2>3, <2>4
<1>2. IInv /\ [Next]_vars => \A s \in Sessions : Just(s)
  BY <1>1
<1>. QED BY <1>2, Invariance, PTL DEF Spec, RefusalsAreJust

(***************************************************************************)
(* Where nothing but the monthly grant credited free INK, a wallet never   *)
(* holds more of it than one franchise, however many periods a renewal     *)
(* catches up and whatever it races.                                       *)
(***************************************************************************)
THEOREM FranchiseIsBounded == Spec => []FranchiseDoesNotAccumulate
<1>1. Init => FranchiseDoesNotAccumulate
  BY WalletAssumption DEF Init, FranchiseDoesNotAccumulate, Nothing, Amounts
<1>2. ASSUME IInv, FranchiseDoesNotAccumulate, [Next]_vars
      PROVE  FranchiseDoesNotAccumulate'
  <2>1. TypeOK
    BY <1>2 DEF IInv
  <2>2. CASE UNCHANGED ledger
    BY <1>2, <2>2 DEF FranchiseDoesNotAccumulate, WithoutFreeCredit, PostedBy, ledger
  <2>3. ASSUME NEW s \in Sessions, Posts(s), NEW a \in Accounts, WithoutFreeCredit(a)'
        PROVE  balance'[a].free <= Franchise
    <3>1. /\ Account(s) \in Accounts /\ Key(s) \in Keys
          /\ posted[Key(s)] = NoEntry /\ PostedRow(s) \in Entries
          /\ posted' = [posted EXCEPT ![Key(s)] = PostedRow(s)]
          /\ balance' = [balance EXCEPT ![Account(s)] = Plus(balance[Account(s)], Delta(s))]
      BY <1>2, <2>3, PostsFacts DEF Posts, PostedRow
    <3>2. WithoutFreeCredit(a)
      <4>1. ASSUME NEW k \in Keys, PostedBy(a, k)
            PROVE  PostedBy(a, k)' /\ posted'[k] = posted[k]
        BY <2>1, <3>1, <4>1 DEF PostedBy, TypeOK
      <4>. QED BY <2>3, <4>1 DEF WithoutFreeCredit
    <3>3. balance[a] \in Balance /\ balance[a].free <= Franchise
      BY <1>2, <2>1, <3>2 DEF FranchiseDoesNotAccumulate, TypeOK
    <3>4. CASE a = Account(s)
      <4>1. posted'[Key(s)] # NoEntry /\ posted'[Key(s)] = [account |-> a, delta |-> Delta(s)]
        BY <2>1, <3>1, <3>4, WalletAssumption DEF PostedRow, TypeOK
      <4>2. Delta(s).free <= 0
        BY <2>3, <3>1, <4>1 DEF WithoutFreeCredit, PostedBy
      <4>3. Delta(s).free \in Int
        BY <3>1, MaxInkAssumption DEF PostedRow, Entries
      <4>4. balance'[a].free = balance[a].free + Delta(s).free
        BY <2>1, <3>1, <3>4 DEF Plus, Amounts, TypeOK
      <4>. QED BY <3>3, <4>2, <4>3, <4>4, WalletAssumption, MaxInkAssumption DEF Balance, Ink
    <3>5. CASE a # Account(s)
      BY <2>1, <3>1, <3>3, <3>5 DEF TypeOK
    <3>. QED BY <3>4, <3>5
  <2>4. ASSUME NEW s \in Sessions, Renews(s)
        PROVE  FranchiseDoesNotAccumulate'
    <3>1. /\ Account(s) \in Accounts
          /\ balance' = [balance EXCEPT ![Account(s)] = Amounts(Franchise, @.purchased)]
          /\ UNCHANGED posted
      BY <1>2, <2>4, RenewsFacts
    <3>. QED BY <1>2, <2>1, <3>1, WalletAssumption
             DEF FranchiseDoesNotAccumulate, WithoutFreeCredit, PostedBy, Amounts, TypeOK
  <2>. QED BY <1>2, <2>2, <2>3, <2>4, LedgerSteps DEF FranchiseDoesNotAccumulate
<1>. QED BY <1>1, <1>2, Invariance, PTL DEF Spec
-----------------------------------------------------------------------------
(***************************************************************************)
(* What an answer says is recorded, and stays so: entries, periods and     *)
(* audit facts are only added.  An answer is given one step before the     *)
(* audit fact of an adjustment, which is why a session that is about to    *)
(* record it is followed too; and the amounts of a replay are magnitudes,  *)
(* which say what a debit took because the lines of a debit only take.     *)
(***************************************************************************)
Recorded(s) == posted[Key(s)] # NoEntry /\ posted[Key(s)].account = Account(s)

AnswerInv(s) ==
  /\ pc[s] \notin {"idle", "audit"} => answer[s].outcome = "none"
  /\ pc[s] = "audit" => answer[s].outcome \in {"applied", "replayed"}
  /\ answer[s].outcome \in {"applied", "replayed"} =>
       /\ req[s] \in Requests /\ Recorded(s)
       /\ req[s].kind = "debit" =>
            Magnitude(posted[Key(s)].delta) = Amounts(answer[s].free, answer[s].purchased)
       /\ req[s].admin /\ pc[s] = "idle" => Key(s) \in audited
  /\ answer[s].outcome = "applied" =>
       /\ req[s].kind = "credit" => posted[Key(s)].delta = Credited(req[s])
       /\ req[s].kind = "debit" =>
            /\ posted[Key(s)].delta = Negated(Amounts(answer[s].free, answer[s].purchased))
            /\ answer[s].free + answer[s].purchased = req[s].amount
  /\ answer[s].outcome = "mismatch" =>
       req[s] \in Requests /\ posted[Key(s)] # NoEntry /\ posted[Key(s)].account # Account(s)
  /\ answer[s].outcome = "renewed" => 1 .. last[s] \subseteq Granted(Account(s))

AuditInv == \A k \in audited : posted[k] # NoEntry

LedgerGrows ==
  /\ \A k \in Keys : posted[k] # NoEntry => posted'[k] = posted[k]
  /\ \A a \in Accounts : Granted(a) \subseteq Granted(a)'
  /\ audited \subseteq audited'

LEMMA StepsGrow ==
  ASSUME IInv, [Next]_vars
  PROVE  LedgerGrows
<1>1. audited \subseteq audited'
  BY DEF Next, SessionStep, Begin, Abort, LoseCommit, NextMonth, EnsureWallet, InsertOperation,
     ApplyBalance, LookUpKey, LockWallet, PlanDebit, Commit, RecordAudit, ReadAnchor,
     LockForRenewal, CheckPeriod, CommitRenewal, BreakDeadlock, Posts, Renews, ledgerVars, vars
<1>2. CASE UNCHANGED ledger
  BY <1>1, <1>2 DEF LedgerGrows, ledger, Granted
<1>3. ASSUME NEW s \in Sessions, Posts(s)
      PROVE  LedgerGrows
  <2>1. /\ Key(s) \in Keys /\ posted[Key(s)] = NoEntry /\ UNCHANGED renewals
        /\ posted' = [posted EXCEPT ![Key(s)] = PostedRow(s)]
    BY <1>3, PostsFacts DEF Posts, PostedRow
  <2>. QED BY <1>1, <2>1 DEF LedgerGrows, Granted, IInv, TypeOK
<1>4. ASSUME NEW s \in Sessions, Renews(s)
      PROVE  LedgerGrows
  <2>1. /\ renewals \subseteq renewals' /\ UNCHANGED posted
    BY <1>4 DEF Renews
  <2>. QED BY <1>1, <2>1 DEF LedgerGrows, Granted
<1>. QED BY <1>2, <1>3, <1>4, LedgerSteps

\* What a debit posted takes from both buckets.
LEMMA DebitDelta ==
  ASSUME IInv, NEW s \in Sessions, Posts(s), req[s].kind = "debit"
  PROVE  /\ Delta(s).free <= 0 /\ Delta(s).purchased <= 0
         /\ Delta(s) = Negated(Magnitude(Delta(s)))
         /\ Magnitude(Delta(s)).free + Magnitude(Delta(s)).purchased = req[s].amount
<1>1. /\ seen[s] \in Balance /\ req[s].amount \in Ink /\ ~Insufficient(req[s].amount, seen[s])
  BY PostsFacts, RequestFields, MaxInkAssumption
     DEF IInv, SessionInv, PlanInv, Planned, Posting, TypeOK, Ink
<1>2. PICK split \in Balance : /\ split = AllocateDebit(req[s].amount, seen[s])
                               /\ split.free + split.purchased = req[s].amount
  BY <1>1, AllocationIsExact
<1>3. Delta(s) = Amounts(-split.free, -split.purchased)
  BY <1>2 DEF Delta, Negated
<1>4. split.free \in Int /\ split.purchased \in Int /\ split.free >= 0 /\ split.purchased >= 0
  BY MaxInkAssumption DEF Balance, Ink
<1>5. Magnitude(Delta(s)) = Amounts(split.free, split.purchased)
  BY <1>3, <1>4 DEF Magnitude, Amounts
<1>. QED BY <1>2, <1>3, <1>4, <1>5 DEF Negated, Amounts

LEMMA AnswerStays ==
  ASSUME IInv, LedgerGrows, NEW t \in Sessions, AnswerInv(t),
         pc'[t] = pc[t], req'[t] = req[t], answer'[t] = answer[t], last'[t] = last[t]
  PROVE  AnswerInv(t)'
<1>1. Account(t) \in Accounts /\ Account(t)' = Account(t) /\ Key(t)' = Key(t)
  BY AccountTyped DEF IInv, Account, Key
<1>2. req[t] \in Requests => Key(t) \in Keys
  BY RequestFields DEF Key
<1>3. Recorded(t) /\ req[t] \in Requests => Recorded(t)'
  BY <1>1, <1>2 DEF Recorded, LedgerGrows
<1>. QED BY <1>1, <1>2, <1>3 DEF AnswerInv, Recorded, LedgerGrows

\* The answers of the other sessions are left alone.
LEMMA AnswersOfOthers ==
  ASSUME IInv, NEW s \in Sessions, Begin(s) \/ SessionStep(s) \/ Abort(s) \/ LoseCommit(s),
         NEW t \in Sessions \ {s}
  PROVE  pc'[t] = pc[t] /\ req'[t] = req[t] /\ answer'[t] = answer[t] /\ last'[t] = last[t]
<1> DEFINE Same == pc'[t] = pc[t] /\ req'[t] = req[t] /\ answer'[t] = answer[t] /\ last'[t] = last[t]
<1>0. TypeOK
  BY DEF IInv
<1>1. ASSUME NEW stage, Goes(s, stage)
      PROVE  pc'[t] = pc[t]
  BY <1>0, <1>1 DEF Goes, TypeOK
<1>2. ASSUME NEW result, EndsWith(s, result) \/ Resolves(s, result)
      PROVE  pc'[t] = pc[t] /\ answer'[t] = answer[t]
  BY <1>0, <1>1, <1>2 DEF EndsWith, Resolves, TypeOK
<1>3. Replays(s) => pc'[t] = pc[t] /\ answer'[t] = answer[t]
  BY <1>2 DEF Replays
<1>4. Advances(s) => pc'[t] = pc[t] /\ answer'[t] = answer[t]
  BY <1>1, <1>2 DEF Advances
<1>5. CASE Begin(s)
  BY <1>0, <1>1, <1>5 DEF Begin, TypeOK
<1>6. CASE EnsureWallet(s) \/ InsertOperation(s) \/ ApplyBalance(s) \/ LookUpKey(s)
  BY <1>1, <1>2, <1>3, <1>6
     DEF EnsureWallet, InsertOperation, ApplyBalance, LookUpKey, localVars
<1>7. CASE LockWallet(s) \/ PlanDebit(s) \/ Commit(s) \/ RecordAudit(s)
  BY <1>1, <1>2, <1>3, <1>7 DEF LockWallet, PlanDebit, Commit, Posts, RecordAudit, localVars
<1>8. CASE ReadAnchor(s)
  BY <1>0, <1>1, <1>2, <1>8 DEF ReadAnchor, TypeOK
<1>9. CASE LockForRenewal(s) \/ CheckPeriod(s) \/ CommitRenewal(s)
  BY <1>1, <1>4, <1>9 DEF LockForRenewal, CheckPeriod, CommitRenewal, Renews
<1>10. CASE Abort(s) \/ LoseCommit(s) \/ BreakDeadlock(s)
  BY <1>2, <1>10 DEF Abort, LoseCommit, BreakDeadlock, Fails, Posts, Renews, localVars
<1>. QED BY <1>5, <1>6, <1>7, <1>8, <1>9, <1>10 DEF SessionStep

\* A step after which the session has said nothing that could be false.
LEMMA NothingSaid ==
  ASSUME NEW s \in Sessions, pc'[s] # "audit",
         \/ answer'[s].outcome = "none"
         \/ pc'[s] = "idle" /\ answer'[s].outcome \in {"insufficient", "overflow", "missing"}
  PROVE  AnswerInv(s)'
  BY DEF AnswerInv

\* The outcomes that say nothing about the ledger.
LEMMA RefusalSaid ==
  ASSUME TypeOK, NEW s \in Sessions, NEW amounts,
         NEW outcome \in {"none", "insufficient", "overflow", "missing"},
         EndsWith(s, Answer(outcome, amounts))
  PROVE  AnswerInv(s)'
<1>1. pc'[s] = "idle" /\ answer'[s].outcome = outcome
  BY DEF TypeOK, EndsWith, Goes, Answer
<1>. QED BY <1>1, NothingSaid

LEMMA StillSilent ==
  ASSUME TypeOK, NEW s \in Sessions, AnswerInv(s), pc[s] \notin {"idle", "audit"},
         NEW stage, stage # "audit", Goes(s, stage), UNCHANGED answer
  PROVE  AnswerInv(s)'
<1>1. pc'[s] = stage /\ answer'[s].outcome = "none"
  BY DEF TypeOK, Goes, AnswerInv
<1>. QED BY <1>1, NothingSaid

LEMMA ReplaySaid ==
  ASSUME IInv, NEW s \in Sessions, req[s] \in Requests, posted[Key(s)] # NoEntry,
         Replays(s), UNCHANGED <<posted, audited, localVars>>
  PROVE  AnswerInv(s)'
<1>1. /\ TypeOK /\ Key(s) \in Keys /\ posted[Key(s)] \in Entries
      /\ Key(s)' = Key(s) /\ Account(s)' = Account(s) /\ req'[s] = req[s]
  BY RequestFields DEF IInv, TypeOK, Key, Account, localVars
<1>2. CASE posted[Key(s)].account # Account(s)
  <2>1. pc'[s] = "idle" /\ answer'[s].outcome = "mismatch"
    BY <1>1, <1>2 DEF Replays, EndsWith, Goes, Answer, TypeOK
  <2>. QED BY <1>1, <1>2, <2>1 DEF AnswerInv
<1>3. CASE posted[Key(s)].account = Account(s)
  <2>1. PICK x : /\ Resolves(s, Answer("replayed", x))
                 /\ req[s].kind = "debit" => x = Magnitude(posted[Key(s)].delta)
    BY <1>3 DEF Replays
  <2>2. /\ pc'[s] = IF req[s].admin THEN "audit" ELSE "idle"
        /\ answer'[s] = Answer("replayed", x)
    BY <1>1, <2>1 DEF Resolves, Goes, TypeOK
  <2>3. answer'[s].outcome = "replayed" /\ answer'[s].free = x.free
        /\ answer'[s].purchased = x.purchased
    BY <2>2 DEF Answer
  <2>4. ASSUME req[s].kind = "debit"
        PROVE  Magnitude(posted[Key(s)].delta) = Amounts(x.free, x.purchased)
    BY <2>1, <2>4 DEF Magnitude, Amounts
  <2>5. Recorded(s)'
    BY <1>1, <1>3 DEF Recorded
  <2>. QED BY <1>1, <2>2, <2>3, <2>4, <2>5 DEF AnswerInv
<1>. QED BY <1>2, <1>3

LEMMA CommitSaid ==
  ASSUME IInv, NEW s \in Sessions, Commit(s)
  PROVE  AnswerInv(s)'
<1>1. /\ TypeOK /\ req[s] \in Requests /\ Key(s) \in Keys /\ Account(s) \in Accounts
      /\ PostedRow(s) \in Entries /\ Posts(s)
      /\ Key(s)' = Key(s) /\ Account(s)' = Account(s) /\ req'[s] = req[s]
  BY PostsFacts DEF IInv, Commit, Key, Account, localVars
<1>2. posted'[Key(s)] = PostedRow(s) /\ PostedRow(s) # NoEntry
  BY <1>1, WalletAssumption DEF Posts, PostedRow, TypeOK
<1>3. Recorded(s)' /\ posted'[Key(s)].delta = Delta(s)
  BY <1>1, <1>2 DEF Recorded, PostedRow
<1>4. PICK x : /\ Resolves(s, Answer("applied", x))
               /\ req[s].kind = "debit" => x = Magnitude(Delta(s))
  BY DEF Commit
<1>5. /\ pc'[s] = IF req[s].admin THEN "audit" ELSE "idle"
      /\ answer'[s].outcome = "applied"
      /\ answer'[s].free = x.free /\ answer'[s].purchased = x.purchased
  BY <1>1, <1>4 DEF Resolves, Goes, Answer, TypeOK
<1>6. ASSUME req[s].kind = "debit"
      PROVE  /\ Delta(s) = Negated(Amounts(x.free, x.purchased))
             /\ x.free + x.purchased = req[s].amount
             /\ Magnitude(Delta(s)) = Amounts(x.free, x.purchased)
  <2>1. Delta(s) = Negated(x) /\ x.free + x.purchased = req[s].amount
    BY <1>1, <1>4, <1>6, DebitDelta
  <2>2. x = Magnitude(Delta(s))
    BY <1>4, <1>6
  <2>. QED BY <2>1, <2>2 DEF Negated, Magnitude, Amounts
<1>7. req[s].kind = "credit" => Delta(s) = Credited(req[s])
  BY DEF Delta
<1>. QED BY <1>1, <1>3, <1>5, <1>6, <1>7 DEF AnswerInv

\* The end of a renewal, or its next period.
LEMMA AdvanceSaid ==
  ASSUME IInv, LedgerGrows, NEW s \in Sessions, AnswerInv(s), pc[s] \in {"renew", "close"},
         Advances(s), cursor[s] \in Granted(Account(s))', UNCHANGED <<req, last>>
  PROVE  AnswerInv(s)'
<1>1. /\ TypeOK /\ Account(s) \in Accounts /\ Account(s)' = Account(s)
      /\ cursor[s] \in 1 .. last[s] /\ last[s] \in Nat
      /\ 1 .. cursor[s] - 1 \subseteq Granted(Account(s))
  BY AccountTyped, WalletAssumption DEF IInv, SessionInv, RenewInv, Account, TypeOK
<1>2. CASE cursor[s] < last[s]
  <2>1. Goes(s, "period") /\ UNCHANGED answer
    BY <1>2 DEF Advances
  <2>. QED BY <1>1, <2>1, StillSilent
<1>3. CASE cursor[s] = last[s]
  <2>1. pc'[s] = "idle" /\ answer'[s].outcome = "renewed"
    BY <1>1, <1>3 DEF Advances, EndsWith, Goes, Answer, TypeOK
  <2>2. 1 .. last[s] \subseteq Granted(Account(s))'
    <3>1. ASSUME NEW p \in 1 .. last[s]
          PROVE  p \in 1 .. cursor[s] - 1 \/ p = cursor[s]
      BY <1>1, <1>3, <3>1
    <3>. QED BY <1>1, <3>1 DEF LedgerGrows
  <2>. QED BY <1>1, <2>1, <2>2 DEF AnswerInv
<1>. QED BY <1>1, <1>2, <1>3

LEMMA StepSaid ==
  ASSUME IInv, LedgerGrows, NEW s \in Sessions, AnswerInv(s),
         Begin(s) \/ SessionStep(s) \/ Abort(s) \/ LoseCommit(s)
  PROVE  AnswerInv(s)'
<1>0. TypeOK /\ RequestInv(s) /\ RenewInv(s)
  BY DEF IInv, SessionInv
<1>1. CASE Begin(s)
  <2>1. pc'[s] \in {"ensure", "lookup", "anchor"} /\ answer'[s].outcome = "none"
    BY <1>0, <1>1 DEF Begin, Goes, FirstStage, Answer, TypeOK
  <2>. QED BY <2>1, NothingSaid
<1>2. CASE EnsureWallet(s)
  BY <1>0, <1>2, StillSilent DEF EnsureWallet
<1>3. CASE InsertOperation(s)
  <2>1. CASE posted[Key(s)] # NoEntry
    BY <1>0, <1>3, <2>1, ReplaySaid DEF InsertOperation, RequestInv, ledgerVars
  <2>2. CASE posted[Key(s)] = NoEntry
    BY <1>0, <1>3, <2>2, StillSilent DEF InsertOperation
  <2>. QED BY <2>1, <2>2
<1>4. CASE ApplyBalance(s)
  <2>1. CASE Goes(s, "commit") /\ UNCHANGED answer
    BY <1>0, <1>4, <2>1, StillSilent DEF ApplyBalance
  <2>2. CASE EndsWith(s, Answer("overflow", Nothing))
    BY <1>0, <2>2, RefusalSaid
  <2>. QED BY <1>4, <2>1, <2>2 DEF ApplyBalance
<1>5. CASE LookUpKey(s)
  <2>1. CASE posted[Key(s)] # NoEntry
    BY <1>0, <1>5, <2>1, ReplaySaid DEF LookUpKey, RequestInv, ledgerVars
  <2>2. CASE posted[Key(s)] = NoEntry
    BY <1>0, <1>5, <2>2, StillSilent DEF LookUpKey
  <2>. QED BY <2>1, <2>2
<1>6. CASE LockWallet(s)
  <2>1. CASE Goes(s, "plan") /\ UNCHANGED answer
    BY <1>0, <1>6, <2>1, StillSilent DEF LockWallet
  <2>2. CASE EndsWith(s, Answer("insufficient", Nothing))
    BY <1>0, <2>2, RefusalSaid
  <2>. QED BY <1>6, <2>1, <2>2 DEF LockWallet
<1>7. CASE PlanDebit(s)
  <2>1. CASE posted[Key(s)] # NoEntry
    BY <1>0, <1>7, <2>1, ReplaySaid DEF PlanDebit, RequestInv, ledgerVars
  <2>2. CASE \E outcome \in {"overflow", "insufficient"} : EndsWith(s, Answer(outcome, Nothing))
    BY <1>0, <2>2, RefusalSaid
  <2>3. CASE Goes(s, "insert") /\ UNCHANGED answer
    BY <1>0, <1>7, <2>3, StillSilent DEF PlanDebit
  <2>. QED BY <1>7, <2>1, <2>2, <2>3 DEF PlanDebit
<1>8. CASE Commit(s)
  BY <1>8, CommitSaid
<1>9. CASE RecordAudit(s)
  <2>1. /\ pc[s] = "audit" /\ pc'[s] = "idle" /\ answer' = answer /\ req' = req /\ last' = last
        /\ posted' = posted /\ audited' = audited \cup {Key(s)}
    BY <1>0, <1>9 DEF RecordAudit, Goes, localVars, TypeOK
  <2>2. answer[s].outcome \in {"applied", "replayed"}
    BY <2>1 DEF AnswerInv
  <2>. QED BY <2>1, <2>2 DEF AnswerInv, Recorded, Key, Account
<1>10. CASE ReadAnchor(s)
  <2>1. CASE EndsWith(s, Answer("missing", Nothing))
    BY <1>0, <2>1, RefusalSaid
  <2>2. CASE Goes(s, "period") /\ UNCHANGED answer
    BY <1>0, <1>10, <2>2, StillSilent DEF ReadAnchor
  <2>3. CASE EndsWith(s, Answer("renewed", Nothing)) /\ last' = [last EXCEPT ![s] = 0]
    <3>1. answer'[s].outcome = "renewed" /\ pc'[s] = "idle" /\ last'[s] = 0
      BY <1>0, <2>3 DEF EndsWith, Goes, Answer, TypeOK
    <3>2. 1 .. 0 = {}
      OBVIOUS
    <3>. QED BY <3>1, <3>2 DEF AnswerInv
  <2>. QED BY <1>10, <2>1, <2>2, <2>3 DEF ReadAnchor
<1>11. CASE LockForRenewal(s)
  BY <1>0, <1>11, StillSilent DEF LockForRenewal
<1>12. CASE CheckPeriod(s)
  <2>1. CASE cursor[s] \in Granted(Account(s))
    <3>1. Account(s) \in Accounts /\ Account(s)' = Account(s)
      BY <1>0, <1>12, AccountTyped DEF CheckPeriod, Account
    <3>2. cursor[s] \in Granted(Account(s))'
      BY <2>1, <3>1 DEF LedgerGrows, Granted
    <3>. QED BY <1>12, <2>1, <3>2, AdvanceSaid DEF CheckPeriod
  <2>2. CASE cursor[s] \notin Granted(Account(s))
    BY <1>0, <1>12, <2>2, StillSilent DEF CheckPeriod
  <2>. QED BY <2>1, <2>2
<1>13. CASE CommitRenewal(s)
  <2>1. Renews(s) /\ Advances(s) /\ pc[s] = "close"
    BY <1>13 DEF CommitRenewal, Renews
  <2>2. cursor[s] \in Granted(Account(s))' /\ UNCHANGED <<req, last>>
    BY <2>1, RenewsFacts
  <2>. QED BY <2>1, <2>2, AdvanceSaid
<1>14. CASE Abort(s) \/ LoseCommit(s) \/ BreakDeadlock(s)
  <2>1. EndsWith(s, Answer("none", Nothing))
    BY <1>14 DEF Abort, LoseCommit, BreakDeadlock, Fails
  <2>. QED BY <1>0, <2>1, RefusalSaid
<1>. QED BY <1>1, <1>2, <1>3, <1>4, <1>5, <1>6, <1>7, <1>8, <1>9, <1>10, <1>11, <1>12, <1>13,
           <1>14 DEF SessionStep

SaidInv == AuditInv /\ \A s \in Sessions : AnswerInv(s)

LEMMA SaidStays ==
  ASSUME IInv, SaidInv, [Next]_vars
  PROVE  SaidInv'
<1>1. LedgerGrows
  BY StepsGrow
<1>2. AuditInv'
  <2>1. ASSUME NEW k \in audited
        PROVE  posted'[k] # NoEntry
    BY <1>1, <2>1 DEF SaidInv, AuditInv, LedgerGrows, IInv, TypeOK
  <2>2. ASSUME NEW s \in Sessions, RecordAudit(s)
        PROVE  AuditInv'
    <3>1. posted[Key(s)] # NoEntry
      BY <2>2 DEF RecordAudit, SaidInv, AnswerInv, Recorded
    <3>. QED BY <2>1, <2>2, <3>1 DEF RecordAudit, AuditInv
  <2>3. CASE UNCHANGED audited
    BY <2>1, <2>3 DEF AuditInv
  <2>. QED BY <2>2, <2>3 DEF Next, SessionStep, Begin, Abort, LoseCommit, NextMonth, EnsureWallet,
         InsertOperation, ApplyBalance, LookUpKey, LockWallet, PlanDebit, Commit, ReadAnchor,
         LockForRenewal, CheckPeriod, CommitRenewal, BreakDeadlock, Posts, Renews, ledgerVars,
         vars
<1>3. ASSUME NEW t \in Sessions
      PROVE  AnswerInv(t)'
  <2>1. ASSUME NEW s \in Sessions, Begin(s) \/ SessionStep(s) \/ Abort(s) \/ LoseCommit(s)
        PROVE  AnswerInv(t)'
    <3>1. CASE t = s
      BY <1>1, <2>1, <3>1, StepSaid DEF SaidInv
    <3>2. CASE t # s
      BY <1>1, <2>1, <3>2, AnswersOfOthers, AnswerStays DEF SaidInv
    <3>. QED BY <3>1, <3>2
  <2>2. CASE NextMonth \/ UNCHANGED vars
    <3>1. UNCHANGED <<pc, req, answer, last>>
      BY <2>2 DEF NextMonth, vars, localVars
    <3>. QED BY <1>1, <3>1, AnswerStays DEF SaidInv
  <2>. QED BY <2>1, <2>2 DEF Next
<1>. QED BY <1>1, <1>2, <1>3 DEF SaidInv

(***************************************************************************)
(* A client that was told that its operation is applied, replayed, refused *)
(* as another's, or that its periods are renewed, was told what the ledger *)
(* holds from then on, whichever commits, aborts and retries follow.       *)
(***************************************************************************)
THEOREM AnswersStayTrue == Spec => []AnswersMatchLedger
<1>1. ASSUME Init
      PROVE  SaidInv
  <2>2. AuditInv
    BY <1>1 DEF Init, AuditInv
  <2>3. ASSUME NEW s \in Sessions
        PROVE  AnswerInv(s)
    <3>1. pc[s] = "idle" /\ answer[s].outcome = "none"
      BY <1>1 DEF Init, Answer
    <3>. QED BY <3>1 DEF AnswerInv
  <2>. QED BY <2>2, <2>3 DEF SaidInv
<1>2. IInv /\ SaidInv /\ [Next]_vars => SaidInv'
  BY SaidStays
<1>3. SaidInv => AnswersMatchLedger
  BY DEF SaidInv, AuditInv, AnswerInv, Recorded, AnswersMatchLedger, PostedBy
<1>. QED BY <1>1, <1>2, <1>3, Invariance, PTL DEF Spec
-----------------------------------------------------------------------------
(***************************************************************************)
(* The projection.  The lines of an account are finitely many, since each  *)
(* commit adds one; a commit adds to the balance what it adds to the sum   *)
(* of the lines, because the key it posts, or the period it renews, was    *)
(* not among them.                                                         *)
(***************************************************************************)
DerivedFor(a) ==
  /\ IsFiniteSet(KeysOf(a)) /\ IsFiniteSet(RenewalsOf(a))
  /\ balance[a].free = SumFunctionOnSet(FreeLines(a), KeysOf(a))
                         + SumFunctionOnSet(RenewedFree(a), RenewalsOf(a))
  /\ balance[a].purchased = SumFunctionOnSet(PurchasedLines(a), KeysOf(a))

LEMMA DerivedIsProjection ==
  ASSUME TypeOK, \A a \in Accounts : DerivedFor(a)
  PROVE  ProjectionIsDerived
<1>. SUFFICES ASSUME NEW a \in Accounts
              PROVE  balance[a] = Amounts(SumFunction(FreeLines(a)) + SumFunction(RenewedFree(a)),
                                          SumFunction(PurchasedLines(a)))
  BY DEF ProjectionIsDerived
<1>1. /\ SumFunction(FreeLines(a)) = SumFunctionOnSet(FreeLines(a), KeysOf(a))
      /\ SumFunction(PurchasedLines(a)) = SumFunctionOnSet(PurchasedLines(a), KeysOf(a))
      /\ SumFunction(RenewedFree(a)) = SumFunctionOnSet(RenewedFree(a), RenewalsOf(a))
  BY DEF SumFunction, FreeLines, PurchasedLines, RenewedFree
<1>2. balance[a] = Amounts(balance[a].free, balance[a].purchased)
  BY DEF TypeOK, Balance, Amounts
<1>. QED BY <1>1, <1>2 DEF DerivedFor

\* Every line is a signed amount.
LEMMA LinesTyped ==
  ASSUME TypeOK, NEW a \in Accounts
  PROVE  /\ \A k \in KeysOf(a) : FreeLines(a)[k] \in Int /\ PurchasedLines(a)[k] \in Int
         /\ \A r \in RenewalsOf(a) : RenewedFree(a)[r] \in Int
<1>1. ASSUME NEW k \in KeysOf(a)
      PROVE  FreeLines(a)[k] \in Int /\ PurchasedLines(a)[k] \in Int
  <2>1. posted[k] \in Entries
    BY <1>1 DEF KeysOf, PostedBy, TypeOK
  <2>. QED BY <1>1, <2>1, MaxInkAssumption DEF FreeLines, PurchasedLines, Entries
<1>2. ASSUME NEW r \in RenewalsOf(a)
      PROVE  RenewedFree(a)[r] \in Int
  <2>1. r.expired \in Ink /\ Franchise \in Int
    BY <1>2, WalletAssumption, MaxInkAssumption DEF RenewalsOf, TypeOK
  <2>. QED BY <1>2, <2>1, MaxInkAssumption DEF RenewedFree, Ink
<1>. QED BY <1>1, <1>2

\* Nothing of what the account's projection is derived from changed.
LEMMA SameLines ==
  ASSUME NEW a \in Accounts, DerivedFor(a), balance'[a] = balance[a],
         \A k \in Keys : /\ PostedBy(a, k)' <=> PostedBy(a, k)
                         /\ PostedBy(a, k) => posted'[k] = posted[k],
         RenewalsOf(a)' = RenewalsOf(a)
  PROVE  DerivedFor(a)'
<1>1. KeysOf(a)' = KeysOf(a)
  BY DEF KeysOf
<1>2. FreeLines(a)' = FreeLines(a) /\ PurchasedLines(a)' = PurchasedLines(a)
  BY <1>1 DEF FreeLines, PurchasedLines, KeysOf
<1>3. RenewedFree(a)' = RenewedFree(a)
  BY DEF RenewedFree
<1>. QED BY <1>1, <1>2, <1>3 DEF DerivedFor

LEMMA PostsDerives ==
  ASSUME IInv, NEW s \in Sessions, Posts(s), NEW a \in Accounts, DerivedFor(a)
  PROVE  DerivedFor(a)'
<1>1. /\ TypeOK /\ Account(s) \in Accounts /\ Key(s) \in Keys
      /\ posted[Key(s)] = NoEntry /\ PostedRow(s) \in Entries /\ UNCHANGED renewals
      /\ posted' = [posted EXCEPT ![Key(s)] = PostedRow(s)]
      /\ balance' = [balance EXCEPT ![Account(s)] = Plus(@, Delta(s))]
  BY PostsFacts DEF Posts, PostedRow, IInv
<1>2. PICK k, row, delta :
        /\ k \in Keys /\ row \in Entries /\ k = Key(s) /\ row = PostedRow(s) /\ delta = Delta(s)
        /\ row.account = Account(s) /\ row.delta = delta
  BY <1>1 DEF PostedRow
<1>3. /\ posted'[k] = row /\ row # NoEntry /\ posted[k] = NoEntry
      /\ \A j \in Keys \ {k} : posted'[j] = posted[j]
  BY <1>1, <1>2, WalletAssumption DEF TypeOK
<1>4. RenewalsOf(a)' = RenewalsOf(a) /\ RenewedFree(a)' = RenewedFree(a)
  BY <1>1 DEF RenewalsOf, RenewedFree
<1>5. CASE a # Account(s)
  BY <1>1, <1>2, <1>3, <1>4, <1>5, SameLines DEF PostedBy, TypeOK
<1>6. CASE a = Account(s)
  <2>1. k \notin KeysOf(a) /\ KeysOf(a)' = KeysOf(a) \cup {k}
    BY <1>2, <1>3, <1>6 DEF KeysOf, PostedBy
  <2>2. FreeLines(a)'[k] = delta.free /\ PurchasedLines(a)'[k] = delta.purchased
    BY <1>2, <1>3, <2>1 DEF FreeLines, PurchasedLines
  <2>3. delta.free \in Int /\ delta.purchased \in Int
    BY <1>2, MaxInkAssumption DEF Entries
  <2>4. \A j \in KeysOf(a) : /\ FreeLines(a)'[j] = FreeLines(a)[j]
                             /\ PurchasedLines(a)'[j] = PurchasedLines(a)[j]
    <3>1. ASSUME NEW j \in KeysOf(a)
          PROVE  j \in Keys \ {k} /\ j \in KeysOf(a)'
      BY <2>1 DEF KeysOf
    <3>. QED BY <1>3, <3>1 DEF FreeLines, PurchasedLines
  <2>5. PICK S, f, e, g, h : /\ S = KeysOf(a) /\ f = FreeLines(a) /\ e = FreeLines(a)'
                             /\ g = PurchasedLines(a) /\ h = PurchasedLines(a)'
    OBVIOUS
  <2>6. /\ IsFiniteSet(S) /\ k \notin S /\ e[k] \in Int /\ h[k] \in Int
        /\ \A j \in S : f[j] \in Int /\ e[j] = f[j]
        /\ \A j \in S : g[j] \in Int /\ h[j] = g[j]
    BY <1>1, <2>1, <2>2, <2>3, <2>4, <2>5, LinesTyped DEF DerivedFor
  <2>7. /\ SumFunctionOnSet(f, S) \in Int
        /\ SumFunctionOnSet(e, S \cup {k}) = SumFunctionOnSet(f, S) + e[k]
    <3>1. IsFiniteSet(S) /\ k \notin S /\ e[k] \in Int /\ \A j \in S : f[j] \in Int /\ e[j] = f[j]
      BY <2>6
    <3>. QED BY ONLY <3>1, SumAdds
  <2>8. /\ SumFunctionOnSet(g, S) \in Int
        /\ SumFunctionOnSet(h, S \cup {k}) = SumFunctionOnSet(g, S) + h[k]
    <3>1. IsFiniteSet(S) /\ k \notin S /\ h[k] \in Int /\ \A j \in S : g[j] \in Int /\ h[j] = g[j]
      BY <2>6
    <3>. QED BY ONLY <3>1, SumAdds
  <2>9. SumFunctionOnSet(RenewedFree(a), RenewalsOf(a)) \in Int
    BY <1>1, LinesTyped, SumRemoves DEF DerivedFor
  <2>10. /\ balance'[a].free = balance[a].free + delta.free
         /\ balance'[a].purchased = balance[a].purchased + delta.purchased
    BY <1>1, <1>2, <1>6 DEF Plus, Amounts, TypeOK
  <2>11. IsFiniteSet(KeysOf(a)')
    BY <2>1, FS_AddElement DEF DerivedFor
  <2>12. balance'[a].free = SumFunctionOnSet(FreeLines(a)', KeysOf(a)')
                              + SumFunctionOnSet(RenewedFree(a), RenewalsOf(a))
    <3>1. SumFunctionOnSet(FreeLines(a)', KeysOf(a)') = SumFunctionOnSet(f, S) + delta.free
      BY <2>1, <2>2, <2>5, <2>7
    <3>2. balance[a].free = SumFunctionOnSet(f, S)
                              + SumFunctionOnSet(RenewedFree(a), RenewalsOf(a))
      BY <2>5 DEF DerivedFor
    <3>. QED BY <2>3, <2>7, <2>9, <2>10, <3>1, <3>2
  <2>13. balance'[a].purchased = SumFunctionOnSet(PurchasedLines(a)', KeysOf(a)')
    <3>1. SumFunctionOnSet(PurchasedLines(a)', KeysOf(a)') = SumFunctionOnSet(g, S) + delta.purchased
      BY <2>1, <2>2, <2>5, <2>8
    <3>. QED BY <2>5, <2>10, <3>1 DEF DerivedFor
  <2>. QED BY <1>4, <2>11, <2>12, <2>13 DEF DerivedFor
<1>. QED BY <1>5, <1>6

LEMMA RenewsDerives ==
  ASSUME IInv, NEW s \in Sessions, Renews(s), NEW a \in Accounts, DerivedFor(a)
  PROVE  DerivedFor(a)'
<1>1. /\ TypeOK /\ Account(s) \in Accounts /\ cursor[s] \notin Granted(Account(s))
      /\ renewals' = renewals \cup {Renewal(s)} /\ UNCHANGED posted
      /\ balance' = [balance EXCEPT ![Account(s)] =
                       Plus(@, Amounts(Franchise - seen[s].free, 0))]
  BY RenewsFacts DEF Renews, Renewal, IInv
<1>2. PICK r : /\ r = Renewal(s) /\ r.account = Account(s) /\ r.period = cursor[s]
               /\ r.expired = seen[s].free
  <2>1. /\ Renewal(s).account = Account(s) /\ Renewal(s).period = cursor[s]
        /\ Renewal(s).expired = seen[s].free
    BY DEF Renewal
  <2>. QED BY <2>1
<1>3. /\ KeysOf(a)' = KeysOf(a) /\ FreeLines(a)' = FreeLines(a)
      /\ PurchasedLines(a)' = PurchasedLines(a)
  BY <1>1 DEF KeysOf, PostedBy, FreeLines, PurchasedLines
<1>4. CASE a # Account(s)
  <2>1. RenewalsOf(a)' = RenewalsOf(a)
    BY <1>1, <1>2, <1>4 DEF RenewalsOf
  <2>. QED BY <1>1, <1>4, <2>1, SameLines DEF PostedBy, TypeOK
<1>5. CASE a = Account(s)
  <2>1. r \notin RenewalsOf(a) /\ RenewalsOf(a)' = RenewalsOf(a) \cup {r}
    BY <1>1, <1>2, <1>5 DEF RenewalsOf, Granted
  <2>2. seen[s].free \in Int /\ Franchise \in Int
    BY <1>1, WalletAssumption, MaxInkAssumption DEF TypeOK, Balance, Ink
  <2>3. /\ RenewedFree(a)'[r] = Franchise - seen[s].free
        /\ \A x \in RenewalsOf(a) : RenewedFree(a)'[x] = RenewedFree(a)[x]
    BY <1>2, <2>1 DEF RenewedFree
  <2>4. PICK S, f, e : S = RenewalsOf(a) /\ f = RenewedFree(a) /\ e = RenewedFree(a)'
    OBVIOUS
  <2>5. /\ IsFiniteSet(S) /\ r \notin S /\ e[r] \in Int
        /\ \A x \in S : f[x] \in Int /\ e[x] = f[x]
    BY <1>1, <2>1, <2>2, <2>3, <2>4, LinesTyped DEF DerivedFor
  <2>6. /\ SumFunctionOnSet(f, S) \in Int
        /\ SumFunctionOnSet(e, S \cup {r}) = SumFunctionOnSet(f, S) + e[r]
    BY <2>5, SumAdds
  <2>7. SumFunctionOnSet(FreeLines(a), KeysOf(a)) \in Int
    BY <1>1, LinesTyped, SumRemoves DEF DerivedFor
  <2>8. /\ balance'[a].free = balance[a].free + (Franchise - seen[s].free)
        /\ balance'[a].purchased = balance[a].purchased
    <3>1. balance[a].purchased \in Int
      BY <1>1, MaxInkAssumption DEF TypeOK, Balance, Ink
    <3>. QED BY <1>1, <1>5, <3>1 DEF Plus, Amounts, TypeOK
  <2>9. IsFiniteSet(RenewalsOf(a)')
    BY <2>1, FS_AddElement DEF DerivedFor
  <2>10. SumFunctionOnSet(RenewedFree(a)', RenewalsOf(a)')
           = SumFunctionOnSet(f, S) + (Franchise - seen[s].free)
    BY <2>1, <2>3, <2>4, <2>6
  <2>11. balance[a].free = SumFunctionOnSet(FreeLines(a), KeysOf(a)) + SumFunctionOnSet(f, S)
    BY <2>4 DEF DerivedFor
  <2>12. balance'[a].free = SumFunctionOnSet(FreeLines(a), KeysOf(a))
                              + SumFunctionOnSet(RenewedFree(a)', RenewalsOf(a)')
    BY <2>2, <2>6, <2>7, <2>8, <2>10, <2>11
  <2>. QED BY <1>3, <2>8, <2>9, <2>12 DEF DerivedFor
<1>. QED BY <1>4, <1>5

(***************************************************************************)
(* The balance the statements keep in the wallet row is the one the ledger *)
(* lines add up to: no commit, replay, race or lost answer makes the cache *)
(* drift from the ledger.                                                  *)
(***************************************************************************)
THEOREM ProjectionNeverDrifts == Spec => []ProjectionIsDerived
<1> DEFINE Derived == \A a \in Accounts : DerivedFor(a)
<1>1. Init => Derived
  <2>. SUFFICES ASSUME Init, NEW a \in Accounts
                PROVE  DerivedFor(a)
    OBVIOUS
  <2>1. KeysOf(a) = {} /\ RenewalsOf(a) = {}
    BY DEF Init, KeysOf, PostedBy, RenewalsOf
  <2>2. balance[a].free = 0 /\ balance[a].purchased = 0
    BY DEF Init, Nothing, Amounts
  <2>. QED BY <2>1, <2>2, SumEmpty, FS_EmptySet DEF DerivedFor
<1>2. ASSUME IInv, Derived, [Next]_vars, NEW a \in Accounts
      PROVE  DerivedFor(a)'
  <2>1. CASE UNCHANGED ledger
    BY <1>2, <2>1, SameLines DEF ledger, PostedBy, RenewalsOf
  <2>. QED BY <1>2, <2>1, PostsDerives, RenewsDerives, LedgerSteps
<1>3. IInv /\ Derived => ProjectionIsDerived
  BY DerivedIsProjection DEF IInv
<1>4. IInv /\ Derived /\ [Next]_vars => Derived'
  BY <1>2
<1>. QED BY <1>1, <1>3, <1>4, Invariance, PTL DEF Spec
-----------------------------------------------------------------------------
(***************************************************************************)
(* Locks.  What a transaction holds says where it stands, and a credit     *)
(* that has not reached the balance of its wallet holds the row only if it *)
(* is the one that opens the wallet.                                       *)
(***************************************************************************)
HoldsRow(s, a) ==
  /\ a = Account(s) /\ pc[s] \in {"plan", "insert", "apply", "commit", "renew", "close"}
  /\ pc[s] \in {"insert", "apply"} /\ req[s].kind = "credit" => ~Opened(a)

HoldsKey(s, k) == k = Key(s) /\ pc[s] \in {"apply", "commit"}

FindsRow(s) ==
  pc[s] \in {"insert", "apply"} /\ req[s].kind = "credit" /\ holder[Account(s)] # s
    => Opened(Account(s))

LocksFit(s) ==
  /\ \A a \in Accounts : holder[a] = s => HoldsRow(s, a)
  /\ \A k \in Keys : claimant[k] = s => HoldsKey(s, k)
  /\ FindsRow(s)

\* A commit opens a wallet only for the session that holds its row.
LEMMA WalletsOpen ==
  ASSUME IInv, [Next]_vars
  PROVE  /\ \A a \in Accounts : Opened(a) => Opened(a)'
         /\ \A a \in Accounts : Opened(a)' /\ ~Opened(a) =>
              \E s \in Sessions : pc[s] = "commit" /\ holder[a] = s /\ pc'[s] # "commit"
<1>1. CASE UNCHANGED anchor
  BY <1>1 DEF Opened
<1>2. ASSUME NEW s \in Sessions, Posts(s), Commit(s) \/ LoseCommit(s)
      PROVE  /\ \A a \in Accounts : Opened(a) => Opened(a)'
             /\ \A a \in Accounts : Opened(a)' /\ ~Opened(a) =>
                  pc[s] = "commit" /\ holder[a] = s /\ pc'[s] # "commit"
  <2>1. pc[s] = "commit" /\ Account(s) \in Accounts /\ holder[Account(s)] = s
    BY <1>2, AccountTyped DEF Posts, IInv, SessionInv, CommitInv
  <2>2. pc'[s] \in {"idle", "audit"}
    BY <1>2 DEF Commit, LoseCommit, Posts, Renews, Resolves, Fails, EndsWith, Goes, IInv, TypeOK
  <2>3. \A a \in Accounts : (Opened(a) => Opened(a)') /\ (Opened(a)' /\ ~Opened(a) => a = Account(s))
    BY <1>2 DEF Posts, Opened, IInv, TypeOK
  <2>. QED BY <2>1, <2>2, <2>3
<1>. QED
  BY <1>1, <1>2 DEF Next, SessionStep, Begin, Abort, LoseCommit, NextMonth, EnsureWallet,
     InsertOperation, ApplyBalance, LookUpKey, LockWallet, PlanDebit, Commit, RecordAudit,
     ReadAnchor, LockForRenewal, CheckPeriod, CommitRenewal, BreakDeadlock, Renews, ledgerVars,
     vars

\* A transaction that does not run keeps what it holds and finds.
LEMMA OthersFit ==
  ASSUME IInv, NEW t \in Sessions, LocksFit(t), pc'[t] = pc[t], req'[t] = req[t],
         \A a \in Accounts : holder'[a] = t <=> holder[a] = t,
         \A k \in Keys : claimant'[k] = t <=> claimant[k] = t,
         \A a \in Accounts : Opened(a) => Opened(a)',
         \A a \in Accounts : holder[a] = t /\ Opened(a)' => Opened(a) \/ pc[t] = "commit"
  PROVE  LocksFit(t)'
<1>1. Account(t) \in Accounts /\ Account(t)' = Account(t) /\ Key(t)' = Key(t)
  BY AccountTyped DEF IInv, Account, Key
<1>2. \A a \in Accounts : holder'[a] = t => HoldsRow(t, a)'
  BY <1>1 DEF LocksFit, HoldsRow
<1>3. \A k \in Keys : claimant'[k] = t => HoldsKey(t, k)'
  BY <1>1 DEF LocksFit, HoldsKey
<1>4. FindsRow(t)'
  BY <1>1 DEF LocksFit, FindsRow
<1>. QED BY <1>2, <1>3, <1>4 DEF LocksFit

\* Nor does a step of s, whatever it locks or releases, touch another's locks.
OnlyOwnLocks(s) ==
  \A t \in Sessions \ {s} :
    /\ pc'[t] = pc[t] /\ req'[t] = req[t]
    /\ \A a \in Accounts : holder'[a] = t <=> holder[a] = t
    /\ \A k \in Keys : claimant'[k] = t <=> claimant[k] = t

LEMMA StepFits ==
  ASSUME IInv, [Next]_vars, \A t \in Sessions : LocksFit(t),
         NEW s \in Sessions, OnlyOwnLocks(s), LocksFit(s)'
  PROVE  \A t \in Sessions : LocksFit(t)'
<1>. SUFFICES ASSUME NEW t \in Sessions \ {s}
              PROVE  LocksFit(t)'
  OBVIOUS
<1>1. \A a \in Accounts : holder[a] = t /\ Opened(a)' => Opened(a) \/ pc[t] = "commit"
  BY WalletsOpen
<1>. QED BY <1>1, WalletsOpen, OthersFit DEF OnlyOwnLocks

\* The end of a transaction: the session holds nothing.
LEMMA ReleaseFits ==
  ASSUME TypeOK, NEW s \in Sessions, ReleaseLocks(s), pc'[s] \in {"idle", "audit", "period"},
         \A t \in Sessions \ {s} : pc'[t] = pc[t] /\ req'[t] = req[t]
  PROVE  OnlyOwnLocks(s) /\ LocksFit(s)'
<1>1. \A a \in Accounts : holder'[a] # s /\ \A t \in Sessions \ {s} : holder'[a] = t <=> holder[a] = t
  BY WalletAssumption DEF ReleaseLocks, TypeOK
<1>2. \A k \in Keys : claimant'[k] # s /\ \A t \in Sessions \ {s} : claimant'[k] = t <=> claimant[k] = t
  BY WalletAssumption DEF ReleaseLocks, TypeOK
<1>. QED BY <1>1, <1>2 DEF OnlyOwnLocks, LocksFit, FindsRow

\* The steps that lock a row ...
LEMMA RowStepsFit ==
  ASSUME IInv, NEW s \in Sessions, LocksFit(s), UNCHANGED <<anchor, req, claimant>>,
         \A t \in Sessions \ {s} : pc'[t] = pc[t],
         RowIsFree(Account(s), s), Locks(Account(s), s),
         \/ pc[s] = "ensure" /\ pc'[s] = "insert" /\ ~Opened(Account(s))
         \/ pc[s] = "lock" /\ pc'[s] = "plan"
         \/ pc[s] = "period" /\ pc'[s] = "renew"
         \/ pc[s] = "apply" /\ pc'[s] = "commit"
  PROVE  OnlyOwnLocks(s) /\ LocksFit(s)'
<1>1. TypeOK /\ Account(s) \in Accounts /\ Account(s)' = Account(s) /\ Key(s)' = Key(s)
  BY AccountTyped DEF IInv, Account, Key
<1>2. holder'[Account(s)] = s /\ \A a \in Accounts \ {Account(s)} : holder'[a] = holder[a]
  BY <1>1 DEF Locks, TypeOK
<1>3. \A a \in Accounts : holder[a] = s => a = Account(s)
  BY DEF LocksFit, HoldsRow
<1>4. OnlyOwnLocks(s)
  BY <1>1, <1>2, WalletAssumption DEF OnlyOwnLocks, RowIsFree
<1>5. \A a \in Accounts : holder'[a] = s => HoldsRow(s, a)'
  BY <1>1, <1>2, <1>3 DEF HoldsRow, Opened
<1>6. \A k \in Keys : claimant'[k] = s => HoldsKey(s, k)'
  BY <1>1 DEF LocksFit, HoldsKey
<1>7. FindsRow(s)'
  BY <1>1, <1>2 DEF FindsRow
<1>. QED BY <1>4, <1>5, <1>6, <1>7 DEF LocksFit

\* ... or nothing, where the session holds nothing yet, or a debit its row.
LEMMA QuietStepsFit ==
  ASSUME IInv, NEW s \in Sessions, LocksFit(s), UNCHANGED <<lockVars, anchor>>,
         \A t \in Sessions \ {s} : pc'[t] = pc[t] /\ req'[t] = req[t],
         \/ /\ pc[s] \in {"idle", "ensure", "lookup", "anchor", "audit", "lock", "period"}
            /\ pc'[s] \notin {"insert", "apply"} \/ (Opened(Account(s)) /\ req'[s] = req[s])
         \/ /\ pc[s] \in {"plan", "renew"} /\ req'[s] = req[s]
            /\ pc'[s] \in {"renew", "close"} \/ (pc'[s] = "insert" /\ req[s].kind = "debit")
  PROVE  OnlyOwnLocks(s) /\ LocksFit(s)'
<1>1. OnlyOwnLocks(s)
  BY DEF OnlyOwnLocks, lockVars
<1>2. req'[s] = req[s] => Account(s)' = Account(s) /\ Key(s)' = Key(s)
  BY DEF Account, Key
<1>3. LocksFit(s)'
  BY <1>2 DEF LocksFit, HoldsRow, HoldsKey, FindsRow, Opened, lockVars
<1>. QED BY <1>1, <1>3

\* The statements of one session, by what they do to its locks.
LEMMA ClaimFits ==
  ASSUME IInv, NEW s \in Sessions, LocksFit(s), InsertOperation(s), posted[Key(s)] = NoEntry
  PROVE  OnlyOwnLocks(s) /\ LocksFit(s)'
<1>1. /\ TypeOK /\ Key(s) \in Keys /\ pc[s] = "insert" /\ UNCHANGED <<anchor, req, holder>>
      /\ claimant[Key(s)] = NoSession /\ claimant' = [claimant EXCEPT ![Key(s)] = s]
      /\ Goes(s, "apply") /\ "apply" \in Stages
  BY RequestFields DEF InsertOperation, IInv, SessionInv, RequestInv, Key, Stages,
     ledgerVars, localVars
<1>2. pc'[s] = "apply" /\ \A t \in Sessions \ {s} : pc'[t] = pc[t]
  BY <1>1, GoesTo
<1>3. claimant'[Key(s)] = s /\ \A k \in Keys \ {Key(s)} : claimant'[k] = claimant[k]
  BY <1>1 DEF TypeOK
<1>4. Account(s)' = Account(s) /\ Key(s)' = Key(s)
  BY <1>1 DEF Account, Key
<1>5. OnlyOwnLocks(s)
  BY <1>1, <1>2, <1>3, WalletAssumption DEF OnlyOwnLocks
<1>6. \A k \in Keys : claimant[k] # s
  BY <1>1 DEF LocksFit, HoldsKey
<1>7. LocksFit(s)'
  BY <1>1, <1>2, <1>3, <1>4, <1>6 DEF LocksFit, HoldsRow, HoldsKey, FindsRow, Opened
<1>. QED BY <1>5, <1>7

LEMMA RowLockSteps ==
  ASSUME IInv, NEW s \in Sessions, LocksFit(s),
         EnsureWallet(s) \/ LockWallet(s) \/ LockForRenewal(s) \/ ApplyBalance(s)
  PROVE  OnlyOwnLocks(s) /\ LocksFit(s)'
<1>1. /\ TypeOK /\ UNCHANGED <<anchor, req>>
      /\ {"insert", "plan", "renew", "commit"} \subseteq Stages
      /\ {"insufficient", "overflow"} \subseteq Outcomes
  BY DEF IInv, EnsureWallet, LockWallet, LockForRenewal, ApplyBalance, Stages, Outcomes,
     ledgerVars, localVars
<1>2. ASSUME NEW outcome \in {"insufficient", "overflow"}, EndsWith(s, Answer(outcome, Nothing))
      PROVE  OnlyOwnLocks(s) /\ LocksFit(s)'
  BY <1>1, <1>2, EndsTyped, NothingIsBalance, ReleaseFits
<1>3. CASE EnsureWallet(s)
  <2>1. /\ pc[s] = "ensure" /\ pc'[s] = "insert" /\ UNCHANGED claimant
        /\ \A t \in Sessions \ {s} : pc'[t] = pc[t]
    BY <1>1, <1>3, GoesTo DEF EnsureWallet
  <2>2. CASE Opened(Account(s))
    BY <1>1, <1>3, <2>1, <2>2, QuietStepsFit DEF EnsureWallet, lockVars
  <2>3. CASE ~Opened(Account(s))
    <3>1. RowIsFree(Account(s), s) /\ Locks(Account(s), s)
      BY <1>3, <2>3 DEF EnsureWallet
    <3>. QED BY <1>1, <2>1, <2>3, <3>1, RowStepsFit
  <2>. QED BY <2>2, <2>3
<1>4. CASE LockWallet(s)
  <2>1. CASE ~Opened(Account(s))
    BY <1>2, <1>4, <2>1 DEF LockWallet
  <2>2. CASE Opened(Account(s))
    BY <1>1, <1>4, <2>2, GoesTo, RowStepsFit DEF LockWallet
  <2>. QED BY <2>1, <2>2
<1>5. CASE LockForRenewal(s)
  BY <1>1, <1>5, GoesTo, RowStepsFit DEF LockForRenewal
<1>6. CASE ApplyBalance(s)
  <2>1. CASE Plus(balance[Account(s)], Delta(s)) \notin Balance
    BY <1>2, <1>6, <2>1 DEF ApplyBalance
  <2>2. CASE Plus(balance[Account(s)], Delta(s)) \in Balance
    BY <1>1, <1>6, <2>2, GoesTo, RowStepsFit DEF ApplyBalance
  <2>. QED BY <2>1, <2>2
<1>. QED BY <1>3, <1>4, <1>5, <1>6

LEMMA ReplaysFits ==
  ASSUME IInv, NEW s \in Sessions, LocksFit(s), UNCHANGED req,
         req[s] \in Requests, posted[Key(s)] # NoEntry, Replays(s)
  PROVE  OnlyOwnLocks(s) /\ LocksFit(s)'
  BY ReplaysTyped, ReleaseFits DEF IInv

LEMMA DebitSteps ==
  ASSUME IInv, NEW s \in Sessions, LocksFit(s), LookUpKey(s) \/ PlanDebit(s)
  PROVE  OnlyOwnLocks(s) /\ LocksFit(s)'
<1>1. /\ TypeOK /\ UNCHANGED <<anchor, req>> /\ req[s] \in Requests /\ req[s].kind = "debit"
      /\ {"lock", "insert"} \subseteq Stages /\ {"insufficient", "overflow"} \subseteq Outcomes
  BY DEF IInv, SessionInv, RequestInv, LookUpKey, PlanDebit, Stages, Outcomes,
     ledgerVars, localVars
<1>2. CASE posted[Key(s)] # NoEntry
  BY <1>1, <1>2, ReplaysFits DEF LookUpKey, PlanDebit
<1>3. CASE posted[Key(s)] = NoEntry
  <2>1. CASE LookUpKey(s)
    BY <1>1, <1>3, <2>1, GoesTo, QuietStepsFit DEF LookUpKey
  <2>2. CASE PlanDebit(s) /\ Goes(s, "insert") /\ UNCHANGED lockVars
    BY <1>1, <2>2, GoesTo, QuietStepsFit DEF PlanDebit
  <2>3. ASSUME NEW outcome \in {"insufficient", "overflow"},
               EndsWith(s, Answer(outcome, Nothing))
        PROVE  OnlyOwnLocks(s) /\ LocksFit(s)'
    BY <1>1, <2>3, EndsTyped, NothingIsBalance, ReleaseFits
  <2>. QED BY <1>3, <2>1, <2>2, <2>3 DEF PlanDebit
<1>. QED BY <1>2, <1>3

LEMMA RenewalSteps ==
  ASSUME IInv, NEW s \in Sessions, LocksFit(s),
         ReadAnchor(s) \/ CheckPeriod(s) \/ CommitRenewal(s)
  PROVE  OnlyOwnLocks(s) /\ LocksFit(s)'
<1>1. /\ TypeOK /\ UNCHANGED <<anchor, req>> /\ {"period", "close"} \subseteq Stages
      /\ {"missing", "renewed"} \subseteq Outcomes
  BY DEF IInv, ReadAnchor, CheckPeriod, CommitRenewal, Renews, Stages, Outcomes, ledgerVars
<1>2. CASE ReadAnchor(s)
  <2>1. ASSUME NEW outcome \in {"missing", "renewed"}, EndsWith(s, Answer(outcome, Nothing))
        PROVE  OnlyOwnLocks(s) /\ LocksFit(s)'
    BY <1>1, <2>1, EndsTyped, NothingIsBalance, ReleaseFits
  <2>2. CASE Goes(s, "period") /\ UNCHANGED lockVars
    BY <1>1, <1>2, <2>2, GoesTo, QuietStepsFit DEF ReadAnchor
  <2>. QED BY <1>2, <2>1, <2>2 DEF ReadAnchor
<1>3. CASE Advances(s)
  <2>1. /\ pc'[s] \in {"idle", "period"} /\ ReleaseLocks(s)
        /\ \A t \in Sessions \ {s} : pc'[t] = pc[t]
    BY <1>1, <1>3, GoesTo, EndsTyped, NothingIsBalance DEF Advances
  <2>. QED BY <1>1, <2>1, ReleaseFits
<1>4. CASE CheckPeriod(s) /\ Goes(s, "close") /\ UNCHANGED lockVars
  BY <1>1, <1>4, GoesTo, QuietStepsFit DEF CheckPeriod
<1>. QED BY <1>2, <1>3, <1>4 DEF CheckPeriod, CommitRenewal

LEMMA EndingSteps ==
  ASSUME IInv, NEW s \in Sessions, LocksFit(s),
         Commit(s) \/ RecordAudit(s) \/ Abort(s) \/ LoseCommit(s) \/ BreakDeadlock(s)
  PROVE  OnlyOwnLocks(s) /\ LocksFit(s)'
<1>1. TypeOK /\ UNCHANGED req /\ {"idle", "audit"} \subseteq Stages
  BY DEF IInv, Commit, RecordAudit, Abort, LoseCommit, BreakDeadlock, Posts, Renews, Stages,
     localVars
<1>2. ASSUME NEW stage \in {"idle", "audit"}, Goes(s, stage), ReleaseLocks(s)
      PROVE  OnlyOwnLocks(s) /\ LocksFit(s)'
  BY <1>1, <1>2, GoesTo, ReleaseFits
<1>3. CASE RecordAudit(s)
  BY <1>1, <1>3, GoesTo, QuietStepsFit DEF RecordAudit
<1>. QED BY <1>2, <1>3 DEF Commit, Resolves, Abort, LoseCommit, BreakDeadlock, Fails, EndsWith

LEMMA BeginFits ==
  ASSUME IInv, NEW s \in Sessions, LocksFit(s), Begin(s)
  PROVE  OnlyOwnLocks(s) /\ LocksFit(s)'
<1>1. PICK r \in Requests \cup Renewals :
        /\ req' = [req EXCEPT ![s] = r] /\ Goes(s, FirstStage(r))
  BY DEF Begin
<1>2. FirstStage(r) \in Stages /\ FirstStage(r) \in {"ensure", "lookup", "anchor"}
  BY DEF FirstStage, Stages
<1>3. /\ pc[s] = "idle" /\ pc'[s] \in {"ensure", "lookup", "anchor"}
      /\ UNCHANGED <<lockVars, anchor>>
      /\ \A t \in Sessions \ {s} : pc'[t] = pc[t] /\ req'[t] = req[t]
  BY <1>1, <1>2, GoesTo DEF Begin, IInv, TypeOK, ledgerVars
<1>. QED BY <1>3, QuietStepsFit

LEMMA LocksStayFit ==
  ASSUME IInv, [Next]_vars, \A s \in Sessions : LocksFit(s)
  PROVE  \A s \in Sessions : LocksFit(s)'
<1>1. CASE NextMonth \/ UNCHANGED vars
  <2>. SUFFICES ASSUME NEW t \in Sessions
                PROVE  LocksFit(t)'
    OBVIOUS
  <2>1. UNCHANGED <<anchor, holder, claimant, pc, req>>
    BY <1>1 DEF NextMonth, vars, ledgerVars, lockVars, localVars
  <2>. QED BY <2>1 DEF LocksFit, HoldsRow, HoldsKey, FindsRow, Opened, Account, Key
<1>2. ASSUME NEW s \in Sessions, Begin(s) \/ SessionStep(s) \/ Abort(s) \/ LoseCommit(s)
      PROVE  \A t \in Sessions : LocksFit(t)'
  <2>1. OnlyOwnLocks(s) /\ LocksFit(s)'
    <3>1. CASE InsertOperation(s)
      <4>1. CASE posted[Key(s)] # NoEntry
        <5>1. UNCHANGED req /\ req[s] \in Requests
          BY <3>1 DEF InsertOperation, IInv, SessionInv, RequestInv, localVars
        <5>. QED BY <3>1, <4>1, <5>1, ReplaysFits DEF InsertOperation
      <4>2. CASE posted[Key(s)] = NoEntry
        BY <3>1, <4>2, ClaimFits
      <4>. QED BY <4>1, <4>2
    <3>. QED BY <1>2, <3>1, RowLockSteps, DebitSteps, RenewalSteps, EndingSteps, BeginFits
             DEF SessionStep
  <2>. QED BY <2>1, StepFits
<1>. QED BY <1>1, <1>2 DEF Next

(***************************************************************************)
(* Who waits in a circle is at the key or at the balance, since only there *)
(* a session waits with something in its hands.  A debit at its balance    *)
(* holds the row already, so it waits for nobody; hence one at its key,    *)
(* which waits for a debit with that key at its balance, cannot either.  A *)
(* credit at its balance finds a wallet that is open, whose holder is      *)
(* therefore no credit; and so one at its key waits for nobody who waits.  *)
(* Both arguments follow a key from one kind of session to the same kind.  *)
(***************************************************************************)
LEMMA NoCircle ==
  ASSUME IInv, \A s \in Sessions : LocksFit(s)
  PROVE  OnlySharedKeysDeadlock
<1>. SUFFICES ASSUME NEW group \in SUBSET Sessions, group # {},
                     \A s \in group : \E t \in group : WaitsFor(s, t),
                     \A s, t \in group : ~SharesKey(s, t)
              PROVE  FALSE
  BY DEF OnlySharedKeysDeadlock, Stuck
<1>1. ASSUME NEW s \in group, NEW t \in group, WaitsFor(s, t)
      PROVE  /\ pc[t] \in {"insert", "apply"}
             /\ pc[s] = "apply" => holder[Account(s)] = t /\ HoldsRow(t, Account(s))
             /\ pc[s] = "insert" => Key(t) = Key(s) /\ pc[t] = "apply"
  <2>1. pc[t] \in {"ensure", "lock", "apply", "period", "insert"}
    BY DEF WaitsFor
  <2>2. Account(s) \in Accounts /\ (pc[s] = "insert" => Key(s) \in Keys)
    BY AccountTyped, RequestFields DEF IInv, SessionInv, RequestInv, Key
  <2>3. \/ holder[Account(s)] = t /\ pc[s] # "insert"
        \/ claimant[Key(s)] = t /\ pc[s] = "insert"
    BY <1>1 DEF WaitsFor
  <2>4. CASE holder[Account(s)] = t /\ pc[s] # "insert"
    <3>1. HoldsRow(t, Account(s))
      BY <2>2, <2>4 DEF LocksFit
    <3>. QED BY <2>1, <2>4, <3>1 DEF HoldsRow
  <2>5. CASE claimant[Key(s)] = t /\ pc[s] = "insert"
    <3>1. HoldsKey(t, Key(s))
      BY <2>2, <2>5 DEF LocksFit
    <3>. QED BY <2>1, <2>5, <3>1 DEF HoldsKey
  <2>. QED BY <2>3, <2>4, <2>5
<1>2. ASSUME NEW s \in group, pc[s] \in {"insert", "apply"}
      PROVE  req[s] \in Requests /\ req[s].kind \in {"credit", "debit"}
  BY <1>2, RequestFields DEF IInv, SessionInv, RequestInv
<1>3. ASSUME NEW s \in group, pc[s] = "apply", req[s].kind = "debit"
      PROVE  FALSE
  <2>1. PICK t \in group : WaitsFor(s, t)
    OBVIOUS
  <2>2. holder[Account(s)] = s
    BY <1>3 DEF IInv, SessionInv, ReadInv, Reading, Planned, Posting
  <2>. QED BY <1>1, <1>3, <2>1, <2>2 DEF WaitsFor
<1>4. ASSUME NEW s \in group, pc[s] = "insert"
      PROVE  \E t \in group : pc[t] = "apply" /\ req[t].kind = req[s].kind
  <2>1. PICK t \in group : WaitsFor(s, t)
    OBVIOUS
  <2>2. pc[t] = "apply" /\ req[t].key = req[s].key
    BY <1>1, <1>4, <2>1 DEF Key
  <2>. QED BY <1>2, <1>4, <2>2 DEF SharesKey, Key
<1>5. ASSUME NEW s \in group, pc[s] = "apply", req[s].kind = "credit"
      PROVE  FALSE
  <2>1. PICK t \in group : WaitsFor(s, t)
    OBVIOUS
  <2>2. /\ pc[t] \in {"insert", "apply"} /\ holder[Account(s)] = t /\ t # s
        /\ HoldsRow(t, Account(s))
    BY <1>1, <1>5, <2>1 DEF WaitsFor
  <2>3. Opened(Account(s))
    BY <1>5, <2>2 DEF LocksFit, FindsRow
  <2>4. req[t].kind = "debit"
    BY <1>2, <2>2, <2>3 DEF HoldsRow
  <2>. QED BY <1>3, <1>4, <2>2, <2>4
<1>6. ASSUME NEW s \in group
      PROVE  pc[s] \notin {"insert", "apply"}
  BY <1>2, <1>3, <1>4, <1>5
<1>. QED BY <1>1, <1>6

(***************************************************************************)
(* A debit locks the row before its key and a credit the key before the    *)
(* row.  The two orders meet only where a credit and a debit are sent      *)
(* under one key: sessions that wait for each other in a circle, however   *)
(* many they are and whatever wallets they touch, have such a pair.        *)
(***************************************************************************)
THEOREM OnlyOneKeyDeadlocks == Spec => []OnlySharedKeysDeadlock
<1> DEFINE Fit == \A s \in Sessions : LocksFit(s)
<1>1. Init => Fit
  BY WalletAssumption DEF Init, LocksFit, FindsRow
<1>2. IInv /\ Fit /\ [Next]_vars => Fit'
  BY LocksStayFit
<1>3. IInv /\ Fit => OnlySharedKeysDeadlock
  BY NoCircle
<1>. QED BY <1>1, <1>2, <1>3, Invariance, PTL DEF Spec
=============================================================================
