------------------------------ MODULE InkLedger ------------------------------
(***************************************************************************)
(* What the wallet promises, without transactions, locks or retries: every *)
(* idempotency key is posted at most once, by one account; a debit takes   *)
(* the franchise first and never more than there is; a period of the free  *)
(* cycle replaces what is left of the franchise by a new one, once and in  *)
(* order.                                                                  *)
(***************************************************************************)
EXTENDS InkAllocation

CONSTANTS Accounts, Keys, Periods, Franchise, NoEntry

VARIABLES balance,      \* the two buckets of each account
          posted,       \* the entry of each client key
          granted       \* the periods granted to each account

vars == <<balance, posted, granted>>

Init ==
  /\ balance = [a \in Accounts |-> Amounts(0, 0)]
  /\ posted = [k \in Keys |-> NoEntry]
  /\ granted = [a \in Accounts |-> {}]

Post(a, k, delta) ==
  /\ posted[k] = NoEntry
  /\ posted' = [posted EXCEPT ![k] = [account |-> a, delta |-> delta]]
  /\ Plus(balance[a], delta) \in Balance
  /\ balance' = [balance EXCEPT ![a] = Plus(@, delta)]
  /\ UNCHANGED granted

Credit(a, k) ==
  \E amount \in 1 .. MaxInk :
    Post(a, k, Amounts(amount, 0)) \/ Post(a, k, Amounts(0, amount))

\* Purchased INK is touched only when the franchise is spent.
Debit(a, k) ==
  \E free, purchased \in Ink :
    /\ free + purchased > 0
    /\ purchased > 0 => free = balance[a].free
    /\ Post(a, k, Amounts(-free, -purchased))

Renew(a, p) ==
  /\ p \notin granted[a] /\ 1 .. p - 1 \subseteq granted[a]
  /\ granted' = [granted EXCEPT ![a] = @ \cup {p}]
  /\ balance' = [balance EXCEPT ![a] = Amounts(Franchise, @.purchased)]
  /\ UNCHANGED posted

Next ==
  \E a \in Accounts :
    \/ \E k \in Keys : Credit(a, k) \/ Debit(a, k)
    \/ \E p \in Periods : Renew(a, p)

Spec == Init /\ [][Next]_vars
=============================================================================
