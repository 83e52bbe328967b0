------------------------------- MODULE Wallet -------------------------------
(***************************************************************************)
(* The INK wallet (internal/wallet): credits, debits, administrative       *)
(* adjustments and the monthly renewal of the free franchise, as the       *)
(* statements of adapters/postgres/repository.go run them in concurrent    *)
(* READ COMMITTED transactions.                                            *)
(*                                                                         *)
(* A session is one use-case execution.  Between two of its statements any *)
(* other session may run, and what it wrote becomes visible when it        *)
(* commits; until then it holds the wallet row it locked (`holder`) and    *)
(* the operation key it inserted (`claimant`), on which others wait.  A    *)
(* session may be aborted anywhere (crash, lost connection, cancelled      *)
(* request) and the answer of a commit may be lost; a client repeats a     *)
(* request as it likes.                                                    *)
(*                                                                         *)
(* An operation and its ledger lines are one entry: the account and the    *)
(* signed amount per bucket.  The two keys of a renewed period are one     *)
(* record of `renewals` with the amount that expired (no expire operation  *)
(* was written when it is 0).  Months are counted, not dated.              *)
(*                                                                         *)
(* All operations share one space of keys.  PublishArgument and AdjustInk  *)
(* pass on the key of their caller as it came, so a credit and a debit may *)
(* be sent under one.                                                      *)
(***************************************************************************)
EXTENDS InkAllocation, Functions

CONSTANTS
  Accounts,
  Keys,               \* idempotency keys of clients
  Requests,           \* the credits and debits clients send
  Sessions,
  NoSession, NoEntry,
  Franchise,          \* FreeCyclePolicy.Franchise
  MaxMonth,           \* bound: the calendar stops here
  MaxFaults           \* bound: aborts and lost answers

Renewals == [kind : {"renew"}, account : Accounts, admin : {FALSE}]

Entries == [account : Accounts,
            delta : [free : -MaxInk .. MaxInk, purchased : -MaxInk .. MaxInk]]

ASSUME WalletAssumption ==
  /\ Requests \subseteq [kind : {"credit", "debit"}, account : Accounts, key : Keys,
                         bucket : {"free", "purchased"}, amount : 1 .. MaxInk, admin : BOOLEAN]
  /\ NoSession \notin Sessions /\ NoEntry \notin Entries
  /\ Franchise \in 1 .. MaxInk
  /\ MaxMonth \in Nat /\ MaxFaults \in Nat

Periods == 1 .. MaxMonth

NotOpened == -1

VARIABLES
  anchor,             \* the month each wallet was created in, or NotOpened
  balance,            \* the cached projection per bucket
  posted,             \* the entry of each client key
  renewals,           \* the periods renewed, each with what expired
  audited,            \* keys the administrative trail names
  month,              \* the wall clock
  holder,             \* the session that locked each wallet row
  claimant,           \* the session that inserted each key and has not ended
  pc, req, seen,      \* per session: next statement, request, balance read
  began,              \* per session: the month its request began in
  cursor, last,       \* per session: period being renewed, and the last one due
  answer,             \* per session: the answer of its latest request
  faults

ledgerVars == <<anchor, balance, posted, renewals, audited>>
lockVars == <<holder, claimant>>
localVars == <<req, began, seen, cursor, last>>
vars == <<ledgerVars, month, lockVars, pc, localVars, answer, faults>>

Stages == {"idle", "ensure", "lookup", "lock", "plan", "insert", "apply", "commit",
           "audit", "anchor", "period", "renew", "close"}

Outcomes == {"none", "applied", "replayed", "mismatch", "insufficient", "overflow",
             "missing", "renewed"}

Answer(outcome, amounts) ==
  [outcome |-> outcome, free |-> amounts.free, purchased |-> amounts.purchased]

Nothing == Amounts(0, 0)

Init ==
  /\ anchor = [a \in Accounts |-> NotOpened]
  /\ balance = [a \in Accounts |-> Nothing]
  /\ posted = [k \in Keys |-> NoEntry]
  /\ renewals = {} /\ audited = {} /\ month = 0
  /\ holder = [a \in Accounts |-> NoSession]
  /\ claimant = [k \in Keys |-> NoSession]
  /\ pc = [s \in Sessions |-> "idle"]
  /\ req \in [Sessions -> Renewals]
  /\ began = [s \in Sessions |-> 0]
  /\ seen = [s \in Sessions |-> Nothing]
  /\ cursor = [s \in Sessions |-> 0]
  /\ last = [s \in Sessions |-> 0]
  /\ answer = [s \in Sessions |-> Answer("none", Nothing)]
  /\ faults = 0
-----------------------------------------------------------------------------
Account(s) == req[s].account
Key(s) == req[s].key
Opened(a) == anchor[a] # NotOpened
PostedBy(a, k) == posted[k] # NoEntry /\ posted[k].account = a
Granted(a) == {r.period : r \in {x \in renewals : x.account = a}}

Goes(s, stage) == pc' = [pc EXCEPT ![s] = stage]

\* A row lock is granted when no other transaction holds it.
RowIsFree(a, s) == holder[a] \in {NoSession, s}

Locks(a, s) == holder' = [holder EXCEPT ![a] = s]

\* The end of a transaction, committed or not.
ReleaseLocks(s) ==
  /\ holder' = [a \in Accounts |-> IF holder[a] = s THEN NoSession ELSE holder[a]]
  /\ claimant' = [k \in Keys |-> IF claimant[k] = s THEN NoSession ELSE claimant[k]]

EndsWith(s, result) ==
  /\ ReleaseLocks(s)
  /\ answer' = [answer EXCEPT ![s] = result]
  /\ Goes(s, "idle")

Mutant_Resolves(s, result) ==
  /\ ReleaseLocks(s)
  /\ answer' = [answer EXCEPT ![s] = result]
  /\ Goes(s, IF req[s].admin /\ result.outcome = "applied" THEN "audit" ELSE "idle")

\* AdjustInkUseCase.Execute records the audit fact after the transaction ended.
Resolves(s, result) ==
  /\ ReleaseLocks(s)
  /\ answer' = [answer EXCEPT ![s] = result]
  /\ Goes(s, IF req[s].admin THEN "audit" ELSE "idle")

\* reconstructAllocation sums the magnitudes of the stored lines.
Magnitude(x) ==
  Amounts(IF x.free < 0 THEN -x.free ELSE x.free,
          IF x.purchased < 0 THEN -x.purchased ELSE x.purchased)

\* replayCredit, replayDebit: whatever operation of the account has the key, a
\* credit or a debit, is the one replayed; the plan is rebuilt from its lines.
Replays(s) ==
  IF posted[Key(s)].account # Account(s)
    THEN EndsWith(s, Answer("mismatch", Nothing))
    ELSE Resolves(s, Answer("replayed",
           IF req[s].kind = "debit" THEN Magnitude(posted[Key(s)].delta) ELSE Nothing))

FirstStage(r) ==
  IF r.kind = "credit" THEN "ensure" ELSE IF r.kind = "debit" THEN "lookup" ELSE "anchor"

Begin(s) ==
  /\ pc[s] = "idle"
  /\ \E r \in Requests \cup Renewals :
       /\ req' = [req EXCEPT ![s] = r]
       /\ began' = [began EXCEPT ![s] = month]
       /\ seen' = [seen EXCEPT ![s] = Nothing]
       /\ cursor' = [cursor EXCEPT ![s] = 0]
       /\ last' = [last EXCEPT ![s] = 0]
       /\ Goes(s, FirstStage(r))
  /\ answer' = [answer EXCEPT ![s] = Answer("none", Nothing)]
  /\ UNCHANGED <<ledgerVars, month, lockVars, faults>>
-----------------------------------------------------------------------------
(***************************************************************************)
(* ApplyCredit: the wallet row is inserted if it is not there, waiting for *)
(* another transaction that is inserting it; then the key, the line and    *)
(* the balance, whose UPDATE locks the row.                                *)
(***************************************************************************)
EnsureWallet(s) ==
  LET a == Account(s) IN
  /\ pc[s] = "ensure"
  /\ IF Opened(a) THEN UNCHANGED holder ELSE RowIsFree(a, s) /\ Locks(a, s)
  /\ Goes(s, "insert")
  /\ UNCHANGED <<ledgerVars, month, claimant, localVars, answer, faults>>

Mutant_InsertOperation(s) ==
  LET k == Key(s) IN
  /\ pc[s] = "insert"
  /\ IF posted[k] # NoEntry
       THEN Replays(s)
       ELSE /\ claimant[k] = NoSession
            /\ claimant' = [claimant EXCEPT ![k] = s]
            /\ holder' = [a \in Accounts |-> IF holder[a] = s THEN NoSession ELSE holder[a]]
            /\ Goes(s, "apply")
            /\ UNCHANGED answer
  /\ UNCHANGED <<ledgerVars, month, localVars, faults>>

\* CreateWalletOperationIfAbsent waits for a transaction that inserted the key.
InsertOperation(s) ==
  LET k == Key(s) IN
  /\ pc[s] = "insert"
  /\ IF posted[k] # NoEntry
       THEN Replays(s)
       ELSE /\ claimant[k] = NoSession
            /\ claimant' = [claimant EXCEPT ![k] = s]
            /\ Goes(s, "apply")
            /\ UNCHANGED <<holder, answer>>
  /\ UNCHANGED <<ledgerVars, month, localVars, faults>>

Credited(r) == IF r.bucket = "free" THEN Amounts(r.amount, 0) ELSE Amounts(0, r.amount)

Delta(s) ==
  IF req[s].kind = "debit" THEN Negated(AllocateDebit(req[s].amount, seen[s]))
                           ELSE Credited(req[s])

Mutant_ApplyBalance(s) ==
  /\ pc[s] = "apply"
  /\ RowIsFree(Account(s), s)
  /\ Locks(Account(s), s) /\ Goes(s, "commit") /\ UNCHANGED <<claimant, answer>>
  /\ UNCHANGED <<ledgerVars, month, localVars, faults>>

\* The UPDATE of the balance: bigint and the CHECKs refuse what is out of range.
ApplyBalance(s) ==
  LET a == Account(s) IN
  /\ pc[s] = "apply"
  /\ RowIsFree(a, s)
  /\ IF Plus(balance[a], Delta(s)) \in Balance
       THEN Locks(a, s) /\ Goes(s, "commit") /\ UNCHANGED <<claimant, answer>>
       ELSE EndsWith(s, Answer("overflow", Nothing))
  /\ UNCHANGED <<ledgerVars, month, localVars, faults>>
-----------------------------------------------------------------------------
(***************************************************************************)
(* applyDebit: a key already posted is replayed without a lock; otherwise  *)
(* the wallet row is locked, the key is looked up again under the lock and *)
(* the split is planned from the balance the lock returned.                *)
(***************************************************************************)
LookUpKey(s) ==
  /\ pc[s] = "lookup"
  /\ IF posted[Key(s)] # NoEntry
       THEN Replays(s)
       ELSE Goes(s, "lock") /\ UNCHANGED <<lockVars, answer>>
  /\ UNCHANGED <<ledgerVars, month, localVars, faults>>

Mutant_LockWallet(s) ==
  LET a == Account(s) IN
  /\ pc[s] = "lock"
  /\ IF Opened(a)
       THEN /\ seen' = [seen EXCEPT ![s] = balance[a]]
            /\ Goes(s, "plan") /\ UNCHANGED <<lockVars, answer>>
       ELSE EndsWith(s, Answer("insufficient", Nothing)) /\ UNCHANGED seen
  /\ UNCHANGED <<ledgerVars, month, req, began, cursor, last, faults>>

\* GetWalletAccountForUpdate; a wallet that is not there has nothing to debit.
LockWallet(s) ==
  LET a == Account(s) IN
  /\ pc[s] = "lock"
  /\ IF Opened(a)
       THEN /\ RowIsFree(a, s) /\ Locks(a, s)
            /\ seen' = [seen EXCEPT ![s] = balance[a]]
            /\ Goes(s, "plan") /\ UNCHANGED <<claimant, answer>>
       ELSE EndsWith(s, Answer("insufficient", Nothing)) /\ UNCHANGED seen
  /\ UNCHANGED <<ledgerVars, month, req, began, cursor, last, faults>>

Mutant_PlanDebit(s) ==
  /\ pc[s] = "plan"
  /\ IF AllocationOverflows(req[s].amount, seen[s])
       THEN EndsWith(s, Answer("overflow", Nothing))
     ELSE IF Insufficient(req[s].amount, seen[s])
       THEN EndsWith(s, Answer("insufficient", Nothing))
       ELSE Goes(s, "insert") /\ UNCHANGED <<lockVars, answer>>
  /\ UNCHANGED <<ledgerVars, month, localVars, faults>>

PlanDebit(s) ==
  /\ pc[s] = "plan"
  /\ IF posted[Key(s)] # NoEntry
       THEN Replays(s)
     ELSE IF AllocationOverflows(req[s].amount, seen[s])
       THEN EndsWith(s, Answer("overflow", Nothing))
     ELSE IF Insufficient(req[s].amount, seen[s])
       THEN EndsWith(s, Answer("insufficient", Nothing))
       ELSE Goes(s, "insert") /\ UNCHANGED <<lockVars, answer>>
  /\ UNCHANGED <<ledgerVars, month, localVars, faults>>
-----------------------------------------------------------------------------
(***************************************************************************)
(* The commit of a credit or a debit, and the audit fact of an adjustment, *)
(* which the trail keeps once per key.                                     *)
(***************************************************************************)
Mutant_Posts(s) ==
  /\ pc[s] = "commit"
  /\ posted' = [posted EXCEPT ![Key(s)] = [account |-> Account(s), delta |-> Delta(s)]]
  /\ balance' = [balance EXCEPT ![Account(s)] = Plus(@, Amounts(Delta(s).free, 0))]
  /\ anchor' = IF Opened(Account(s)) THEN anchor ELSE [anchor EXCEPT ![Account(s)] = began[s]]
  /\ UNCHANGED <<renewals, audited, month, localVars>>

Posts(s) ==
  /\ pc[s] = "commit"
  /\ posted' = [posted EXCEPT ![Key(s)] = [account |-> Account(s), delta |-> Delta(s)]]
  /\ balance' = [balance EXCEPT ![Account(s)] = Plus(@, Delta(s))]
  /\ anchor' = IF Opened(Account(s)) THEN anchor ELSE [anchor EXCEPT ![Account(s)] = began[s]]
  /\ UNCHANGED <<renewals, audited, month, localVars>>

Commit(s) ==
  /\ Posts(s)
  /\ Resolves(s, Answer("applied", IF req[s].kind = "debit" THEN Magnitude(Delta(s)) ELSE Nothing))
  /\ UNCHANGED faults

RecordAudit(s) ==
  /\ pc[s] = "audit"
  /\ audited' = audited \cup {Key(s)}
  /\ Goes(s, "idle")
  /\ UNCHANGED <<anchor, balance, posted, renewals, month, lockVars, localVars, answer, faults>>
-----------------------------------------------------------------------------
(***************************************************************************)
(* RenewFreeCycleUseCase: one transaction per period, from the first after *)
(* the anchor to the one that contained the clock when the call began.     *)
(***************************************************************************)
ReadAnchor(s) ==
  LET due == month - anchor[Account(s)] IN
  /\ pc[s] = "anchor"
  /\ IF ~Opened(Account(s))
       THEN EndsWith(s, Answer("missing", Nothing)) /\ UNCHANGED <<cursor, last>>
       ELSE /\ cursor' = [cursor EXCEPT ![s] = 1]
            /\ last' = [last EXCEPT ![s] = due]
            /\ IF due = 0 THEN EndsWith(s, Answer("renewed", Nothing))
                          ELSE Goes(s, "period") /\ UNCHANGED <<lockVars, answer>>
  /\ UNCHANGED <<ledgerVars, month, req, began, seen, faults>>

LockForRenewal(s) ==
  LET a == Account(s) IN
  /\ pc[s] = "period"
  /\ RowIsFree(a, s) /\ Locks(a, s)
  /\ seen' = [seen EXCEPT ![s] = balance[a]]
  /\ Goes(s, "renew")
  /\ UNCHANGED <<ledgerVars, month, claimant, req, began, cursor, last, answer, faults>>

\* The next period, or the end of the call.
Advances(s) ==
  IF cursor[s] < last[s]
    THEN /\ cursor' = [cursor EXCEPT ![s] = @ + 1]
         /\ ReleaseLocks(s) /\ Goes(s, "period") /\ UNCHANGED answer
    ELSE EndsWith(s, Answer("renewed", Nothing)) /\ UNCHANGED cursor

Mutant_CheckPeriod(s) ==
  /\ pc[s] = "renew"
  /\ IF cursor[s] \in Granted(Account(s))
       THEN ReleaseLocks(s) /\ Goes(s, "period") /\ UNCHANGED <<cursor, answer>>
       ELSE Goes(s, "close") /\ UNCHANGED <<lockVars, cursor, answer>>
  /\ UNCHANGED <<ledgerVars, month, req, began, seen, last, faults>>

\* The grant key is the marker of the period: a period granted before is skipped.
CheckPeriod(s) ==
  /\ pc[s] = "renew"
  /\ IF cursor[s] \in Granted(Account(s))
       THEN Advances(s)
       ELSE Goes(s, "close") /\ UNCHANGED <<lockVars, cursor, answer>>
  /\ UNCHANGED <<ledgerVars, month, req, began, seen, last, faults>>

Mutant_Renews(s) ==
  /\ pc[s] = "close"
  /\ renewals' = renewals \cup
       {[account |-> Account(s), period |-> cursor[s], expired |-> seen[s].free]}
  /\ Plus(balance[Account(s)], Amounts(Franchise, 0)) \in Balance
  /\ balance' = [balance EXCEPT ![Account(s)] = Plus(@, Amounts(Franchise, 0))]
  /\ UNCHANGED <<anchor, posted, audited, month, req, began, seen, last>>

\* What remains expires and the franchise is granted, as one signed delta.
Renews(s) ==
  /\ pc[s] = "close"
  /\ renewals' = renewals \cup
       {[account |-> Account(s), period |-> cursor[s], expired |-> seen[s].free]}
  /\ balance' = [balance EXCEPT ![Account(s)] = Plus(@, Amounts(Franchise - seen[s].free, 0))]
  /\ UNCHANGED <<anchor, posted, audited, month, req, began, seen, last>>

CommitRenewal(s) == Renews(s) /\ Advances(s) /\ UNCHANGED faults
-----------------------------------------------------------------------------
(***************************************************************************)
(* Faults: the session ends without an answer, its transaction rolled      *)
(* back, or committed with the answer lost.                                *)
(***************************************************************************)
Fails(s) ==
  /\ faults < MaxFaults
  /\ faults' = faults + 1
  /\ EndsWith(s, Answer("none", Nothing))

Abort(s) ==
  /\ pc[s] # "idle"
  /\ Fails(s)
  /\ UNCHANGED <<ledgerVars, month, localVars>>

LoseCommit(s) ==
  \/ Posts(s) /\ Fails(s)
  \/ Renews(s) /\ Fails(s) /\ UNCHANGED cursor

\* A statement of s waits for the transaction of t to end.
WaitsFor(s, t) ==
  LET a == Account(s) IN
  /\ s # t
  /\ \/ pc[s] = "ensure" /\ ~Opened(a) /\ holder[a] = t
     \/ pc[s] = "lock" /\ Opened(a) /\ holder[a] = t
     \/ pc[s] \in {"apply", "period"} /\ holder[a] = t
     \/ pc[s] = "insert" /\ posted[Key(s)] = NoEntry /\ claimant[Key(s)] = t

\* Sessions that wait for each other alone.
Stuck(group) == \A s \in group : \E t \in group : WaitsFor(s, t)

\* PostgreSQL ends a circle of waits by refusing the statement of one of them;
\* the repository hands that error to its caller and retries nothing.
BreakDeadlock(s) ==
  /\ \E group \in SUBSET Sessions : s \in group /\ Stuck(group)
  /\ EndsWith(s, Answer("none", Nothing))
  /\ UNCHANGED <<ledgerVars, month, localVars, faults>>

NextMonth ==
  /\ month < MaxMonth
  /\ month' = month + 1
  /\ UNCHANGED <<ledgerVars, lockVars, pc, localVars, answer, faults>>

SessionStep(s) ==
  \/ EnsureWallet(s) \/ InsertOperation(s) \/ ApplyBalance(s)
  \/ LookUpKey(s) \/ LockWallet(s) \/ PlanDebit(s)
  \/ Commit(s) \/ RecordAudit(s)
  \/ ReadAnchor(s) \/ LockForRenewal(s) \/ CheckPeriod(s) \/ CommitRenewal(s)
  \/ BreakDeadlock(s)

Next ==
  \/ \E s \in Sessions : Begin(s) \/ SessionStep(s) \/ Abort(s) \/ LoseCommit(s)
  \/ NextMonth

Spec == Init /\ [][Next]_vars

\* A session that can run its next statement does, and one that waits for a row
\* or for a key gets it: PostgreSQL grants locks in the order of the waiters, and
\* its deadlock detector runs after deadlock_timeout.
Waits(s) ==
  \/ EnsureWallet(s) \/ InsertOperation(s) \/ ApplyBalance(s)
  \/ LockWallet(s) \/ LockForRenewal(s)

Fairness == \A s \in Sessions : WF_vars(SessionStep(s)) /\ SF_vars(Waits(s))

FairSpec == Spec /\ Fairness
-----------------------------------------------------------------------------
\* Types; the balances stay in the range of the CHECKs and of bigint.
TypeOK ==
  /\ anchor \in [Accounts -> {NotOpened} \cup 0 .. MaxMonth]
  /\ balance \in [Accounts -> Balance]
  /\ posted \in [Keys -> Entries \cup {NoEntry}]
  /\ renewals \subseteq [account : Accounts, period : Periods, expired : Ink]
  /\ audited \subseteq Keys
  /\ month \in 0 .. MaxMonth
  /\ holder \in [Accounts -> Sessions \cup {NoSession}]
  /\ claimant \in [Keys -> Sessions \cup {NoSession}]
  /\ pc \in [Sessions -> Stages]
  /\ req \in [Sessions -> Requests \cup Renewals]
  /\ began \in [Sessions -> 0 .. MaxMonth]
  /\ seen \in [Sessions -> Balance]
  /\ cursor \in [Sessions -> 0 .. MaxMonth + 1]
  /\ last \in [Sessions -> 0 .. MaxMonth]
  /\ answer \in [Sessions -> [outcome : Outcomes, free : Ink, purchased : Ink]]
  /\ faults \in 0 .. MaxFaults

(***************************************************************************)
(* What a client was answered is what the ledger holds (CreditResult,      *)
(* DebitResult, RenewFreeCycleResult).  An operation reported applied is   *)
(* the one that was asked for, posted to the account that asked: what a    *)
(* credit gives, or a debit of the amount and split reported.  A replay    *)
(* promises less: its key was posted to the account, for a debit with      *)
(* lines of the amounts reported, by an operation that need not be the one *)
(* asked for.  An adjustment answered either way has its audit fact; a key *)
(* is refused as a mismatch only when another account owns it; a finished  *)
(* renewal left no period behind.  No audit fact names an operation that   *)
(* does not exist.                                                         *)
(***************************************************************************)
AnswersMatchLedger ==
  /\ \A s \in Sessions : pc[s] = "idle" =>
       LET ans == answer[s] IN
       /\ ans.outcome \in {"applied", "replayed"} =>
            /\ PostedBy(Account(s), Key(s))
            /\ req[s].kind = "debit" =>
                 Magnitude(posted[Key(s)].delta) = Amounts(ans.free, ans.purchased)
            /\ req[s].admin => Key(s) \in audited
       /\ ans.outcome = "applied" =>
            /\ req[s].kind = "credit" => posted[Key(s)].delta = Credited(req[s])
            /\ req[s].kind = "debit" =>
                 /\ posted[Key(s)].delta = Negated(Amounts(ans.free, ans.purchased))
                 /\ ans.free + ans.purchased = req[s].amount
       /\ ans.outcome = "mismatch" =>
            posted[Key(s)] # NoEntry /\ posted[Key(s)].account # Account(s)
       /\ ans.outcome = "renewed" => 1 .. last[s] \subseteq Granted(Account(s))
  /\ \A k \in audited : posted[k] # NoEntry

(***************************************************************************)
(* A debit is refused for lack of INK (domain.ErrInsufficientInk) only if  *)
(* at that moment it is not posted and the committed balance cannot pay    *)
(* for it: a retry of a debit that emptied the wallet is replayed, and a   *)
(* credit that committed before the lock was granted counts.               *)
(***************************************************************************)
RefusedFor(s) == answer[s].outcome = "none" /\ answer'[s].outcome = "insufficient"

RefusalsAreJust ==
  [][\A s \in Sessions : RefusedFor(s) =>
       /\ ~PostedBy(Account(s), Key(s))
       /\ Opened(Account(s)) => Insufficient(req[s].amount, balance[Account(s)])]_vars

(***************************************************************************)
(* The cached projection is what the ledger lines add up to                *)
(* (ProveProjection and GetDerivedWalletBalance rebuild it from them): the *)
(* lines of the operations posted to the account, and for each period it   *)
(* renewed the grant less what expired.                                    *)
(***************************************************************************)
KeysOf(a) == {k \in Keys : PostedBy(a, k)}

RenewalsOf(a) == {r \in renewals : r.account = a}

FreeLines(a) == [k \in KeysOf(a) |-> posted[k].delta.free]

PurchasedLines(a) == [k \in KeysOf(a) |-> posted[k].delta.purchased]

RenewedFree(a) == [r \in RenewalsOf(a) |-> Franchise - r.expired]

ProjectionIsDerived ==
  \A a \in Accounts :
    balance[a] = Amounts(SumFunction(FreeLines(a)) + SumFunction(RenewedFree(a)),
                         SumFunction(PurchasedLines(a)))

(***************************************************************************)
(* Where the franchise is the only free INK, what is left of it never      *)
(* piles up from one period to the next (MONETIZATION.md: it expires with  *)
(* its period), whatever a renewal catches up with or races.               *)
(***************************************************************************)
WithoutFreeCredit(a) == \A k \in Keys : PostedBy(a, k) => posted[k].delta.free <= 0

FranchiseDoesNotAccumulate ==
  \A a \in Accounts : WithoutFreeCredit(a) => balance[a].free <= Franchise

(***************************************************************************)
(* The wallet implements InkLedger: the committed rows change only as the  *)
(* ledger may, one entry per key, franchise first, never below zero, and   *)
(* one renewal per period in the order of the periods.                     *)
(***************************************************************************)
grants == [a \in Accounts |-> Granted(a)]

Ledger == INSTANCE InkLedger WITH granted <- grants

LedgerSpec == Ledger!Spec

(***************************************************************************)
(* Rows and keys are taken in two orders: a debit locks the row and then   *)
(* inserts its key, a credit the other way round unless it is the one that *)
(* opens the wallet.  Sessions do wait in a circle, but never without a    *)
(* credit and a debit among them that were sent under one key.             *)
(***************************************************************************)
SharesKey(s, t) ==
  req[s] \in Requests /\ req[t] \in Requests /\ Key(s) = Key(t) /\ req[s].kind # req[t].kind

OnlySharedKeysDeadlock ==
  \A group \in (SUBSET Sessions) \ {{}} :
    Stuck(group) => \E s, t \in group : SharesKey(s, t)

\* Every request ends, with an answer or an error: no statement of the wallet
\* waits for ever, and a circle of waits is broken once and for all.
EveryRequestIsAnswered ==
  \A s \in Sessions : pc[s] # "idle" ~> pc[s] = "idle"
=============================================================================
