---------------------------- MODULE Publication ----------------------------
(***************************************************************************)
(* Publishing and withdrawing an argument (internal/arguments), with the   *)
(* three parts of the system that publication meets: the wallet it         *)
(* charges, the account and the Arena whose state it checks, and the       *)
(* moderation that moves all of them.                                      *)
(*                                                                         *)
(* PublishArgumentUseCase looks for an earlier attempt, checks the gates   *)
(* one after the other outside any transaction, then runs one READ         *)
(* COMMITTED transaction: the INK debit, the argument, its sources.  A     *)
(* session is one use-case execution; between two of its statements any    *)
(* other session may run.  It holds the wallet row, the operation key and  *)
(* the argument it wrote until its transaction ends.                       *)
(*                                                                         *)
(* Other uses of the wallet (grants, adjustments, other debits) draw their *)
(* keys from the space that the clients' keys are in: here each is one     *)
(* step, module Wallet shows its statements.                               *)
(*                                                                         *)
(* An argument is named by its author and the key of the attempt, which    *)
(* are unique together.  Its depth, which the reply query counts along the *)
(* immutable chain of parents, is kept with it; its sources, written by    *)
(* the same transaction, are not told apart from it.  The wallet is the    *)
(* sum of the two buckets that module Wallet keeps.                        *)
(***************************************************************************)
EXTENDS Integers, Functions

CONSTANTS
  Authors,
  Keys,               \* attempt keys of clients
  Arenas,
  Requests,           \* the publications clients ask for
  Sessions,
  NoSession, NoParent, NoArgument, NoOperation,
  MaxDepth,           \* ReplyPolicy.MaxDepth
  MaxInk,             \* bound: INK credited to an account
  MaxFaults           \* bound: aborts and lost answers

Slots == Authors \X Keys

Statuses == {"published", "withdrawn", "removed"}

Costs == Nat \ {0}

ArgumentRows == [arena : Arenas, parent : Slots \cup {NoParent}, cost : Costs, depth : Nat,
                 status : Statuses, withdrawn : BOOLEAN]

\* A posted wallet operation; cost is what a debit for an argument took, and 0
\* for an operation of any other type.
Operations == [account : Authors, cost : Nat]

Withdrawals == [kind : {"withdraw"}, author : Authors, target : Slots]

ASSUME PublicationAssumption ==
  /\ Requests \subseteq [kind : {"publish"}, author : Authors, key : Keys, arena : Arenas,
                         parent : Slots \cup {NoParent}, cost : Costs]
  /\ NoSession \notin Sessions /\ NoParent \notin Slots
  /\ NoArgument \notin ArgumentRows /\ NoOperation \notin Operations
  /\ MaxDepth \in Nat \ {0} /\ MaxInk \in Nat /\ MaxFaults \in Nat

VARIABLES
  eligible,           \* the accounts that are active
  open,               \* the Arenas that are published
  ink, credited,      \* per account: the balance, and the sum of all operations
                      \* but the debits for arguments
  posted,             \* the wallet operation of each key
  arguments,          \* the argument of each author and key
  holder,             \* the session that locked each wallet row
  claimant,           \* the session that inserted each key and has not ended
  pc, req,            \* per session: next statement, request
  charging,           \* per session: whether its transaction wrote a debit
  answer,             \* per session: the answer of its latest request
  faults

worldVars == <<eligible, open, credited>>
recordVars == <<ink, posted, arguments>>
lockVars == <<holder, claimant>>
localVars == <<req, charging>>
vars == <<worldVars, recordVars, lockVars, pc, localVars, answer, faults>>

Stages == {"idle", "replay", "account", "arena", "parent", "debit", "claim", "create",
           "commit", "resolve", "read", "update", "reread"}

Outcomes == {"none", "published", "replayed", "ineligible", "closed", "unavailable",
             "insufficient", "mismatch", "withdrawn", "fixed", "missing"}

Init ==
  /\ eligible = Authors /\ open = Arenas
  /\ credited = [a \in Authors |-> 0]
  /\ ink = [a \in Authors |-> 0]
  /\ posted = [k \in Keys |-> NoOperation]
  /\ arguments = [x \in Slots |-> NoArgument]
  /\ holder = [a \in Authors |-> NoSession]
  /\ claimant = [k \in Keys |-> NoSession]
  /\ pc = [s \in Sessions |-> "idle"]
  /\ req \in [Sessions -> Withdrawals]
  /\ charging = [s \in Sessions |-> FALSE]
  /\ answer = [s \in Sessions |-> "none"]
  /\ faults = 0
-----------------------------------------------------------------------------
Author(s) == req[s].author
Key(s) == req[s].key
Slot(s) == <<req[s].author, req[s].key>>

Exists(x) == arguments[x] # NoArgument
Has(x, status) == Exists(x) /\ arguments[x].status = status

Goes(s, stage) == pc' = [pc EXCEPT ![s] = stage]

\* The end of a transaction, committed or not.
ReleaseLocks(s) ==
  /\ holder' = [a \in Authors |-> IF holder[a] = s THEN NoSession ELSE holder[a]]
  /\ claimant' = [k \in Keys |-> IF claimant[k] = s THEN NoSession ELSE claimant[k]]
  /\ charging' = [charging EXCEPT ![s] = FALSE]

EndsWith(s, outcome) ==
  /\ ReleaseLocks(s)
  /\ answer' = [answer EXCEPT ![s] = outcome]
  /\ Goes(s, "idle")

\* A statement whose row decides between going on and ending with a refusal.
PassesIf(s, condition, stage, refusal) ==
  /\ IF condition THEN Goes(s, stage) /\ UNCHANGED <<lockVars, charging, answer>>
                  ELSE EndsWith(s, refusal)
  /\ UNCHANGED <<worldVars, recordVars, req, faults>>

Begin(s) ==
  /\ pc[s] = "idle"
  /\ \E r \in Requests \cup Withdrawals :
       /\ req' = [req EXCEPT ![s] = r]
       /\ Goes(s, IF r.kind = "publish" THEN "replay" ELSE "read")
  /\ answer' = [answer EXCEPT ![s] = "none"]
  /\ UNCHANGED <<worldVars, recordVars, lockVars, charging, faults>>
-----------------------------------------------------------------------------
(***************************************************************************)
(* Execute before its transaction: a recorded attempt is the answer, with  *)
(* no charge and no gate; then each gate reads the committed row it is     *)
(* about, and nothing keeps that row from changing afterwards.             *)
(***************************************************************************)
Mutant_LookUpAttempt(s) ==
  /\ pc[s] = "replay"
  /\ PassesIf(s, \A a \in Authors : ~Exists(<<a, Key(s)>>), "account", "replayed")

LookUpAttempt(s) ==
  /\ pc[s] = "replay"
  /\ PassesIf(s, ~Exists(Slot(s)), "account", "replayed")

EnsureEligible(s) ==
  /\ pc[s] = "account"
  /\ PassesIf(s, Author(s) \in eligible, "arena", "ineligible")

EnsureAcceptsArguments(s) ==
  /\ pc[s] = "arena"
  /\ PassesIf(s, req[s].arena \in open,
              IF req[s].parent = NoParent THEN "debit" ELSE "parent", "closed")

Mutant_ensureReplyableParent(s) ==
  LET p == req[s].parent IN
  /\ pc[s] = "parent"
  /\ PassesIf(s, /\ Has(p, "published")
                 /\ arguments[p].arena = req[s].arena
                 /\ arguments[p].depth <= MaxDepth, "debit", "unavailable")

ensureReplyableParent(s) ==
  LET p == req[s].parent IN
  /\ pc[s] = "parent"
  /\ PassesIf(s, /\ Has(p, "published")
                 /\ arguments[p].arena = req[s].arena
                 /\ arguments[p].depth + 1 <= MaxDepth, "debit", "unavailable")
-----------------------------------------------------------------------------
(***************************************************************************)
(* The transaction.  The wallet answers a key it has posted by a replay,   *)
(* or by a refusal when another account owns the key; otherwise it locks   *)
(* the row and checks the balance under the lock, then inserts the         *)
(* operation, waiting for a transaction that inserted the same key.        *)
(***************************************************************************)
LocksRow(s) ==
  /\ holder[Author(s)] \in {NoSession, s}
  /\ holder' = [holder EXCEPT ![Author(s)] = s]

\* Any operation of the account under the key is taken for the debit, whatever
\* its type and amount, and the bridge passes it on as a success.  It is found
\* before the row is locked or after.
replayDebit(s) ==
  IF posted[Key(s)].account = Author(s)
    THEN /\ Goes(s, "create")
         /\ UNCHANGED holder \/ LocksRow(s)
         /\ UNCHANGED <<claimant, charging, answer>>
    ELSE EndsWith(s, "mismatch")

Mutant_Debit(s) ==
  /\ pc[s] = "debit"
  /\ IF posted[Key(s)] # NoOperation
       THEN replayDebit(s)
     ELSE IF ink[Author(s)] < req[s].cost
       THEN EndsWith(s, "insufficient")
       ELSE Goes(s, "claim") /\ UNCHANGED <<lockVars, charging, answer>>
  /\ UNCHANGED <<worldVars, recordVars, req, faults>>

Mutant_DebitKeepsRow(s) ==
  /\ pc[s] = "debit"
  /\ IF posted[Key(s)] # NoOperation
       THEN replayDebit(s)
     ELSE IF ink[Author(s)] < req[s].cost
       THEN /\ LocksRow(s) /\ Goes(s, "idle")
            /\ answer' = [answer EXCEPT ![s] = "insufficient"]
            /\ UNCHANGED <<claimant, charging>>
       ELSE LocksRow(s) /\ Goes(s, "claim") /\ UNCHANGED <<claimant, charging, answer>>
  /\ UNCHANGED <<worldVars, recordVars, req, faults>>

\* The lookups of the key and the locked read of applyDebit, in one step: until
\* the row is locked nothing it read is kept.
Debit(s) ==
  /\ pc[s] = "debit"
  /\ IF posted[Key(s)] # NoOperation
       THEN replayDebit(s)
     ELSE IF ink[Author(s)] < req[s].cost
       THEN holder[Author(s)] = NoSession /\ EndsWith(s, "insufficient")
       ELSE LocksRow(s) /\ Goes(s, "claim") /\ UNCHANGED <<claimant, charging, answer>>
  /\ UNCHANGED <<worldVars, recordVars, req, faults>>

Mutant_ClaimKey(s) ==
  LET k == Key(s) IN
  /\ pc[s] = "claim"
  /\ IF posted[k] # NoOperation
       THEN replayDebit(s) /\ UNCHANGED <<posted, ink>>
       ELSE /\ posted' = [posted EXCEPT ![k] = [account |-> Author(s), cost |-> req[s].cost]]
            /\ ink' = [ink EXCEPT ![Author(s)] = @ - req[s].cost]
            /\ Goes(s, "create")
            /\ UNCHANGED <<lockVars, charging, answer>>
  /\ UNCHANGED <<worldVars, arguments, req, faults>>

ClaimKey(s) ==
  LET k == Key(s) IN
  /\ pc[s] = "claim"
  /\ IF posted[k] # NoOperation
       THEN replayDebit(s)
       ELSE /\ claimant[k] = NoSession
            /\ claimant' = [claimant EXCEPT ![k] = s]
            /\ charging' = [charging EXCEPT ![s] = TRUE]
            /\ Goes(s, "create")
            /\ UNCHANGED <<holder, answer>>
  /\ UNCHANGED <<worldVars, recordVars, req, faults>>

\* t has inserted the argument that s wants to insert, and has not ended.
Inserts(t, s) == t # s /\ pc[t] = "commit" /\ Slot(t) = Slot(s)

\* The insert finds the key of the author taken: the transaction, its debit
\* included, is rolled back and the recorded argument is read.
CreateArgument(s) ==
  /\ pc[s] = "create"
  /\ IF Exists(Slot(s))
       THEN ReleaseLocks(s) /\ Goes(s, "resolve")
       ELSE /\ \A t \in Sessions : ~Inserts(t, s)
            /\ Goes(s, "commit") /\ UNCHANGED <<lockVars, charging>>
  /\ UNCHANGED <<worldVars, recordVars, req, answer, faults>>

DepthOf(parent) == IF parent = NoParent THEN 0 ELSE arguments[parent].depth + 1

\* The row that CreateArgument inserts.
NewArgument(s) ==
  [arena |-> req[s].arena, parent |-> req[s].parent, cost |-> req[s].cost,
   depth |-> DepthOf(req[s].parent), status |-> "published", withdrawn |-> FALSE]

Mutant_Lands(s) ==
  /\ pc[s] = "commit"
  /\ arguments' = [arguments EXCEPT ![Slot(s)] = NewArgument(s)]
  /\ IF charging[s]
       THEN posted' = [posted EXCEPT ![Key(s)] = [account |-> Author(s), cost |-> req[s].cost]]
       ELSE UNCHANGED posted
  /\ IF charging[s] /\ req[s].parent = NoParent
       THEN ink' = [ink EXCEPT ![Author(s)] = @ - req[s].cost]
       ELSE UNCHANGED ink
  /\ UNCHANGED <<worldVars, req>>

\* The commit makes the argument visible, and with it the debit unless an earlier
\* operation was taken for it.
Lands(s) ==
  /\ pc[s] = "commit"
  /\ arguments' = [arguments EXCEPT ![Slot(s)] = NewArgument(s)]
  /\ IF charging[s]
       THEN /\ posted' = [posted EXCEPT ![Key(s)] =
                             [account |-> Author(s), cost |-> req[s].cost]]
            /\ ink' = [ink EXCEPT ![Author(s)] = @ - req[s].cost]
       ELSE UNCHANGED <<posted, ink>>
  /\ UNCHANGED <<worldVars, req>>

Commit(s) == Lands(s) /\ EndsWith(s, "published") /\ UNCHANGED faults

ResolveReplay(s) ==
  /\ pc[s] = "resolve"
  /\ EndsWith(s, IF Exists(Slot(s)) THEN "replayed" ELSE "missing")
  /\ UNCHANGED <<worldVars, recordVars, req, faults>>
-----------------------------------------------------------------------------
(***************************************************************************)
(* WithdrawArgumentUseCase: read under the scope of the author, one        *)
(* conditional UPDATE, and a second read when the status moved in between. *)
(***************************************************************************)
Owned(s) == req[s].target[1] = Author(s) /\ Exists(req[s].target)

\* What a read that finds the argument no longer published answers.
Retracted(s) == IF arguments[req[s].target].status = "withdrawn" THEN "withdrawn" ELSE "fixed"

ReadForAuthor(s) ==
  /\ pc[s] = "read"
  /\ IF ~Owned(s) THEN EndsWith(s, "missing")
     ELSE IF Has(req[s].target, "published")
       THEN Goes(s, "update") /\ UNCHANGED <<lockVars, charging, answer>>
       ELSE EndsWith(s, Retracted(s))
  /\ UNCHANGED <<worldVars, recordVars, req, faults>>

Moves(x, status) == arguments' = [arguments EXCEPT ![x].status = status]

Mutant_WithdrawArgument(s) ==
  LET x == req[s].target IN
  /\ pc[s] = "update"
  /\ arguments' = [arguments EXCEPT ![x] = [@ EXCEPT !.status = "withdrawn", !.withdrawn = TRUE]]
  /\ EndsWith(s, "withdrawn")
  /\ UNCHANGED <<worldVars, ink, posted, req, faults>>

WithdrawArgument(s) ==
  LET x == req[s].target IN
  /\ pc[s] = "update"
  /\ IF Has(x, "published")
       THEN /\ arguments' = [arguments EXCEPT ![x] =
                               [@ EXCEPT !.status = "withdrawn", !.withdrawn = TRUE]]
            /\ EndsWith(s, "withdrawn")
       ELSE Goes(s, "reread") /\ UNCHANGED <<arguments, lockVars, charging, answer>>
  /\ UNCHANGED <<worldVars, ink, posted, req, faults>>

ReadAgain(s) ==
  /\ pc[s] = "reread"
  /\ EndsWith(s, Retracted(s))
  /\ UNCHANGED <<worldVars, recordVars, req, faults>>
-----------------------------------------------------------------------------
(***************************************************************************)
(* What other modules do meanwhile: a wallet is credited, or an operation  *)
(* that is no debit for an argument is posted under a key that a client    *)
(* may use too, each under the lock of the row; moderation and appeals     *)
(* move accounts, Arenas and arguments, each by one conditional UPDATE.    *)
(* The CHECK on withdrawn_at keeps an argument that was withdrawn before   *)
(* its removal from being published again.                                 *)
(***************************************************************************)
Credit(a) ==
  /\ holder[a] = NoSession
  /\ \E n \in 1 .. MaxInk - credited[a] :
       /\ ink' = [ink EXCEPT ![a] = @ + n]
       /\ credited' = [credited EXCEPT ![a] = @ + n]
  /\ UNCHANGED <<eligible, open, posted, arguments>>

Adjust(a, k) ==
  /\ holder[a] = NoSession
  /\ posted[k] = NoOperation /\ claimant[k] = NoSession
  /\ posted' = [posted EXCEPT ![k] = [account |-> a, cost |-> 0]]
  /\ \E balance \in 0 .. MaxInk \ {ink[a]} :
       /\ ink' = [ink EXCEPT ![a] = balance]
       /\ credited' = [credited EXCEPT ![a] = @ + balance - ink[a]]
       /\ credited'[a] <= MaxInk
  /\ UNCHANGED <<eligible, open, arguments>>

Suspend(a) ==
  /\ a \in eligible /\ eligible' = eligible \ {a}
  /\ UNCHANGED <<open, credited, recordVars>>

Reactivate(a) ==
  /\ a \notin eligible /\ eligible' = eligible \cup {a}
  /\ UNCHANGED <<open, credited, recordVars>>

CloseArena(r) ==
  /\ r \in open /\ open' = open \ {r}
  /\ UNCHANGED <<eligible, credited, recordVars>>

ReopenArena(r) ==
  /\ r \notin open /\ open' = open \cup {r}
  /\ UNCHANGED <<eligible, credited, recordVars>>

RemoveArgument(x) ==
  /\ Exists(x) /\ arguments[x].status \in {"published", "withdrawn"}
  /\ Moves(x, "removed")
  /\ UNCHANGED <<worldVars, ink, posted>>

RestoreArgument(x) ==
  /\ Has(x, "removed") /\ ~arguments[x].withdrawn
  /\ Moves(x, "published")
  /\ UNCHANGED <<worldVars, ink, posted>>

Meanwhile ==
  /\ \/ \E a \in Authors : Credit(a) \/ Suspend(a) \/ Reactivate(a)
     \/ \E a \in Authors, k \in Keys : Adjust(a, k)
     \/ \E r \in Arenas : CloseArena(r) \/ ReopenArena(r)
     \/ \E x \in Slots : RemoveArgument(x) \/ RestoreArgument(x)
  /\ UNCHANGED <<lockVars, pc, localVars, answer, faults>>
-----------------------------------------------------------------------------
(***************************************************************************)
(* Faults: the session ends without an answer, its transaction rolled      *)
(* back, or committed with the answer lost.                                *)
(***************************************************************************)
Fails(s) ==
  /\ faults < MaxFaults
  /\ faults' = faults + 1
  /\ EndsWith(s, "none")

Abort(s) == pc[s] # "idle" /\ Fails(s) /\ UNCHANGED <<worldVars, recordVars, req>>

LoseCommit(s) == Lands(s) /\ Fails(s)

SessionStep(s) ==
  \/ LookUpAttempt(s) \/ EnsureEligible(s) \/ EnsureAcceptsArguments(s)
  \/ ensureReplyableParent(s)
  \/ Debit(s) \/ ClaimKey(s) \/ CreateArgument(s) \/ Commit(s) \/ ResolveReplay(s)
  \/ ReadForAuthor(s) \/ WithdrawArgument(s) \/ ReadAgain(s)

Next ==
  \/ \E s \in Sessions : Begin(s) \/ SessionStep(s) \/ Abort(s) \/ LoseCommit(s)
  \/ Meanwhile

Spec == Init /\ [][Next]_vars

\* PostgreSQL grants a row or a key in the order of the waiters.
Fairness ==
  \A s \in Sessions : WF_vars(SessionStep(s)) /\ SF_vars(Debit(s) \/ ClaimKey(s) \/ CreateArgument(s))

FairSpec == Spec /\ Fairness
-----------------------------------------------------------------------------
\* Types; the balance never goes below zero, whatever runs concurrently.
TypeOK ==
  /\ eligible \subseteq Authors /\ open \subseteq Arenas
  /\ ink \in [Authors -> Nat]
  /\ credited \in [Authors -> Int]
  /\ posted \in [Keys -> Operations \cup {NoOperation}]
  /\ arguments \in [Slots -> ArgumentRows \cup {NoArgument}]
  /\ holder \in [Authors -> Sessions \cup {NoSession}]
  /\ claimant \in [Keys -> Sessions \cup {NoSession}]
  /\ pc \in [Sessions -> Stages]
  /\ req \in [Sessions -> Requests \cup Withdrawals]
  /\ charging \in [Sessions -> BOOLEAN]
  /\ answer \in [Sessions -> Outcomes]
  /\ faults \in 0 .. MaxFaults

(***************************************************************************)
(* "argumento e débito de INK são indivisíveis" (BUSINESS_RULES.md, rule   *)
(* 7), as far as the code keeps it: a posted debit has its argument, of    *)
(* the same author and cost, and an argument has its debit, or, without    *)
(* one, an operation of another type posted to its author under its key,   *)
(* that replayDebit took for it; however attempts are repeated, raced,     *)
(* aborted or answered into the void.                                      *)
(***************************************************************************)
PostedTo(a, k) == posted[k] # NoOperation /\ posted[k].account = a

PaidFor(a, k) == PostedTo(a, k) /\ posted[k].cost # 0

ChargeIsIndivisible ==
  \A a \in Authors, k \in Keys :
    /\ PaidFor(a, k) => Exists(<<a, k>>) /\ posted[k].cost = arguments[<<a, k>>].cost
    /\ Exists(<<a, k>>) => PostedTo(a, k)

(***************************************************************************)
(* Nothing is charged twice and no debit is lost: what the other           *)
(* operations gave an account is what it has left and what those of its    *)
(* arguments cost whose debit was posted.                                  *)
(***************************************************************************)
Paid(a) == {k \in Keys : PaidFor(a, k)}

InkIsConserved ==
  \A a \in Authors :
    credited[a] = ink[a] + SumFunction([k \in Paid(a) |-> arguments[<<a, k>>].cost])

(***************************************************************************)
(* The record of an argument is history (migration 00015, invariants 3 and *)
(* 4): no step of anybody erases it, edits it or forgets its withdrawal,   *)
(* and a removal by moderation ends only by its reversal, never because a  *)
(* withdrawal that was under way overrides it.                             *)
(***************************************************************************)
HistoryIsKept ==
  [][\A x \in Slots : Exists(x) =>
       /\ arguments'[x] # NoArgument
       /\ \A field \in {"arena", "parent", "cost", "depth"} :
            arguments'[x][field] = arguments[x][field]
       /\ arguments[x].withdrawn =>
            arguments'[x].withdrawn /\ arguments'[x].status # "published"
       /\ Has(x, "removed") => arguments'[x].status # "withdrawn"]_vars

(***************************************************************************)
(* What a client was answered is what is recorded: a publication reported  *)
(* as new is the argument that was asked for, one reported as a replay is  *)
(* an argument of that author under that key, a key refused as another's   *)
(* is another's, and a withdrawal reported as done is on the record.       *)
(***************************************************************************)
Truthful(s, outcome) ==
  /\ outcome \in {"published", "replayed"} => Exists(Slot(s))
  /\ outcome = "published" =>
       LET row == arguments[Slot(s)] IN
       row.arena = req[s].arena /\ row.parent = req[s].parent /\ row.cost = req[s].cost
  /\ outcome = "mismatch" => posted[Key(s)] # NoOperation /\ posted[Key(s)].account # Author(s)
  /\ outcome = "withdrawn" => arguments[req[s].target].withdrawn

AnswersMatchRecord ==
  \A s \in Sessions : pc[s] = "idle" => Truthful(s, answer[s])

(***************************************************************************)
(* A reply hangs from an argument of its own Arena, no deeper than the     *)
(* policy allows (ReplyPolicy, and the foreign key on parent and Arena).   *)
(***************************************************************************)
RepliesAreAnchored ==
  \A x \in Slots : Exists(x) =>
    /\ arguments[x].depth <= MaxDepth
    /\ arguments[x].parent # NoParent =>
         /\ Exists(arguments[x].parent)
         /\ arguments[arguments[x].parent].arena = arguments[x].arena
         /\ arguments[x].depth = arguments[arguments[x].parent].depth + 1

\* A statement of s waits for the transaction of t to end.
WaitsFor(s, t) ==
  \/ pc[s] = "debit" /\ holder[Author(s)] = t /\ s # t
  \/ pc[s] = "claim" /\ claimant[Key(s)] = t /\ s # t
  \/ pc[s] = "create" /\ Inserts(t, s)

\* No publications wait in a circle: among any there is one that waits for none.
NoDeadlock ==
  \A group \in (SUBSET Sessions) \ {{}} :
    \E s \in group : \A t \in group : ~WaitsFor(s, t)

\* Every publication and every withdrawal ends with an answer or an error: no
\* two of them wait for each other's row or key.
EveryRequestIsAnswered ==
  \A s \in Sessions : pc[s] # "idle" ~> pc[s] = "idle"
=============================================================================
