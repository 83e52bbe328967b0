----------------------------- MODULE Moderation -----------------------------
(***************************************************************************)
(* Review of moderation cases and of appeals (internal/moderation), and    *)
(* what a decision and its reversal do to the rows they are about.         *)
(*                                                                         *)
(* A case is claimed under a lease, decided once by the moderator who      *)
(* holds the claim, and its action, the sanction's effect on the target    *)
(* and the case's transition are one READ COMMITTED transaction.  A        *)
(* reversed appeal restores the target in the transaction that records     *)
(* the outcome.                                                            *)
(*                                                                         *)
(* A session executes one use case for one member of staff.  Its reads     *)
(* come first and are steps of their own; from its first UPDATE on a       *)
(* transaction only locks rows it then changes or refuses, in one order    *)
(* (appeal, target, case), so those statements and its commit are one      *)
(* step.  The appeal window and the freshness of the session only refuse   *)
(* a call, which is then not made.  Cases come from no code of this        *)
(* repository: they start open.                                            *)
(***************************************************************************)
EXTENDS Integers

CONSTANTS
  Staff, Role,             \* administrative assignments
  Arenas, Arguments, Profiles,
  Owner,                   \* the creator, the author or the account itself
  Cases, Subject,          \* the target of each case
  Actions,                 \* bound: the decisions that can be recorded
  Credits, Credited,       \* attributions and the argument each one credits
  Sessions,
  NoAction, NoOne, NoCall,
  ClaimLease,
  MaxTime                  \* bound on the clock

Targets == Arenas \cup Arguments \cup Profiles

TypeOfTarget(t) ==
  IF t \in Arenas THEN "arena" ELSE IF t \in Arguments THEN "argument" ELSE "profile"

Roles == {"moderator", "admin", "security"}

Measures ==
  {"no_action", "warning", "link_hide", "interaction_limit", "argument_remove", "arena_close",
   "attribution_invalidate", "position_invalidate", "suspension", "ban", "preserve_legal"}

MayPerform(role, measure) ==
  CASE role = "moderator" ->
         measure \notin {"arena_close", "suspension", "ban", "preserve_legal"}
    [] role = "security" ->
         measure \in {"no_action", "link_hide", "interaction_limit", "suspension",
                      "preserve_legal"}
    [] OTHER -> TRUE

SanctionAllowed(target, measure) ==
  CASE measure \in {"no_action", "warning", "preserve_legal"} -> TRUE
    [] measure \in {"link_hide", "position_invalidate"} -> target # "profile"
    [] measure \in {"interaction_limit", "suspension", "ban"} -> target = "profile"
    [] measure \in {"argument_remove", "attribution_invalidate"} -> target = "argument"
    [] OTHER -> target = "arena"

Outcomes == {"upheld", "modified", "reversed"}

CaseRows ==
  [status : {"open", "under_review", "decided"}, by : Staff \cup {NoOne}, lease : Nat]

ActionRows == [case : Cases, measure : Measures, by : Staff]

AppealRows ==
  [status : {"none", "open", "under_review"} \cup Outcomes, reviewer : Staff \cup {NoOne}]

TargetRows ==
  [status : {"published", "closed", "restricted", "removed", "withdrawn",
             "pending", "active", "suspended", "deleted"},
   withdrawn : BOOLEAN]

CreditRows == [status : {"none", "valid", "invalid"}, invalidated : BOOLEAN]

Calls ==
  [kind : {"decide"}, by : Staff, case : Cases, measure : Measures, at : Nat]
    \cup [kind : {"review"}, by : Staff, action : Actions, outcome : Outcomes]

ASSUME ModerationAssumption ==
  /\ Role \in [Staff -> Roles]
  /\ Arenas \cap Arguments = {} /\ Profiles \cap (Arenas \cup Arguments) = {}
  /\ Subject \in [Cases -> Targets]
  /\ DOMAIN Owner = Targets /\ Credited \in [Credits -> Arguments]
  /\ NoAction \notin ActionRows /\ NoOne \notin Staff /\ NoCall \notin Calls
  /\ ClaimLease \in Nat \ {0} /\ MaxTime \in Nat

VARIABLES
  now,
  cases,              \* app.moderation_cases
  actions,            \* app.moderation_actions
  appeals,            \* the appeal that contests each action
  targets,            \* the status of each target's own row
  credits,            \* app.persuasion_attributions
  verifying,          \* accounts read as pending by a verification yet to write
  overwritten,        \* history: accounts a verification brought back from away
  pc, call,           \* per session
  violated            \* the sessions whose latest call a CHECK refused

recordVars == <<cases, actions, appeals>>
identityVars == <<verifying, overwritten>>
worldVars == <<targets, credits, identityVars>>
sessionVars == <<pc, call, violated>>
vars == <<now, recordVars, worldVars, sessionVars>>

Init ==
  /\ now = 0
  /\ cases = [c \in Cases |-> [status |-> "open", by |-> NoOne, lease |-> 0]]
  /\ actions = [a \in Actions |-> NoAction]
  /\ appeals = [a \in Actions |-> [status |-> "none", reviewer |-> NoOne]]
  /\ targets = [t \in Targets |->
                  [status |-> IF t \in Profiles THEN "pending" ELSE "published",
                   withdrawn |-> FALSE]]
  /\ credits = [x \in Credits |-> [status |-> "none", invalidated |-> FALSE]]
  /\ verifying = {} /\ overwritten = {}
  /\ pc = [s \in Sessions |-> "idle"]
  /\ call = [s \in Sessions |-> NoCall]
  /\ violated = {}
-----------------------------------------------------------------------------
Recorded(a) == actions[a] # NoAction
Target(a) == Subject[actions[a].case]
Conflict(m, t) == Owner[t] = m
Live(c) == cases[c].status = "under_review" /\ cases[c].lease > now

\* Out of the public's sight: where a sanction puts its target, or further.
Away(t) ==
  IF t \in Profiles THEN {"suspended", "deleted"}
  ELSE IF t \in Arguments THEN {"removed"} ELSE {"closed", "restricted", "removed"}

Ends(s) ==
  /\ pc' = [pc EXCEPT ![s] = "idle"]
  /\ call' = [call EXCEPT ![s] = NoCall]

Calling(s, request, stage) ==
  /\ call' = [call EXCEPT ![s] = request]
  /\ pc' = [pc EXCEPT ![s] = stage]
  /\ violated' = violated \ {s}
-----------------------------------------------------------------------------
(***************************************************************************)
(* ClaimCaseUseCase: the authorization reads what never moves here, so the *)
(* call is its conditional UPDATE.  A claim repeated by the holder of a    *)
(* live lease is answered from the row and writes nothing.                 *)
(***************************************************************************)
Mutant_ClaimCase(m, c) ==
  /\ ~Conflict(m, Subject[c])
  /\ cases[c].status \in {"open", "under_review"}
  /\ cases' = [cases EXCEPT ![c] = [status |-> "under_review", by |-> m,
                                    lease |-> now + ClaimLease]]
  /\ UNCHANGED <<now, actions, appeals, worldVars, sessionVars>>

ClaimCase(m, c) ==
  /\ ~Conflict(m, Subject[c])
  /\ \/ cases[c].status = "open"
     \/ cases[c].status = "under_review" /\ cases[c].lease <= now
  /\ cases' = [cases EXCEPT ![c] = [status |-> "under_review", by |-> m,
                                    lease |-> now + ClaimLease]]
  /\ UNCHANGED <<now, actions, appeals, worldVars, sessionVars>>
-----------------------------------------------------------------------------
(***************************************************************************)
(* DecideCaseUseCase.  The measure is authorized and the instant of the    *)
(* decision is taken before the transaction; the transaction checks the    *)
(* claim on an unlocked read, and again in the UPDATE of the case, which   *)
(* comes last.                                                             *)
(***************************************************************************)
AskDecision(s, m, c, measure) ==
  /\ pc[s] = "idle"
  /\ ~Conflict(m, Subject[c])
  /\ MayPerform(Role[m], measure)
  /\ SanctionAllowed(TypeOfTarget(Subject[c]), measure)
  /\ Calling(s, [kind |-> "decide", by |-> m, case |-> c, measure |-> measure, at |-> now],
             "load")
  /\ UNCHANGED <<now, recordVars, worldVars>>

ClaimedBy(m, c, at) ==
  cases[c].status = "under_review" /\ cases[c].by = m /\ cases[c].lease > at

LoadCase(s) ==
  /\ pc[s] = "load"
  /\ IF ClaimedBy(call[s].by, call[s].case, call[s].at)
       THEN pc' = [pc EXCEPT ![s] = "decide"] /\ UNCHANGED call
       ELSE Ends(s)
  /\ UNCHANGED <<now, recordVars, worldVars, violated>>

\* The measures that move the row of the target: from which states, and to which.
Projecting == {"arena_close", "argument_remove", "suspension", "ban"}

Before(measure) ==
  CASE measure = "arena_close" -> {"published"}
    [] measure = "argument_remove" -> {"published", "withdrawn"}
    [] OTHER -> {"active"}

After(measure) ==
  CASE measure = "arena_close" -> "closed"
    [] measure = "argument_remove" -> "removed"
    [] OTHER -> "suspended"

Mutant_InvalidateArgumentAttributions(t) ==
  credits' = [x \in Credits |->
                IF Credited[x] = t /\ credits[x].status = "valid"
                  THEN [credits[x] EXCEPT !.status = "invalid"] ELSE credits[x]]

\* Every valid attribution that credits the argument.
InvalidateArgumentAttributions(t) ==
  credits' = [x \in Credits |->
                IF Credited[x] = t /\ credits[x].status = "valid"
                  THEN [status |-> "invalid", invalidated |-> TRUE] ELSE credits[x]]

Mutant_applySanctionEffect(measure, t) ==
  /\ targets' = IF measure \in Projecting /\ targets[t].status \in Before(measure)
                  THEN [targets EXCEPT ![t].status = After(measure)] ELSE targets
  /\ IF measure = "attribution_invalidate"
       THEN InvalidateArgumentAttributions(t) ELSE UNCHANGED credits

applySanctionEffect(measure, t) ==
  /\ measure \in Projecting => targets[t].status \in Before(measure)
  /\ targets' = IF measure \in Projecting
                  THEN [targets EXCEPT ![t].status = After(measure)] ELSE targets
  /\ IF measure = "attribution_invalidate"
       THEN InvalidateArgumentAttributions(t) ELSE UNCHANGED credits

Mutant_MovesCase(m, c, at) ==
  cases' = [cases EXCEPT ![c] = [status |-> "decided", by |-> NoOne, lease |-> 0]]

\* DecideModerationCase.
MovesCase(m, c, at) ==
  /\ ClaimedBy(m, c, at)
  /\ cases' = [cases EXCEPT ![c] = [status |-> "decided", by |-> NoOne, lease |-> 0]]

CreatesAction(m, c, measure) ==
  \E a \in Actions :
    /\ ~Recorded(a)
    /\ actions' = [actions EXCEPT ![a] = [case |-> c, measure |-> measure, by |-> m]]

DecideCase(s) ==
  LET d == call[s] IN
  /\ pc[s] = "decide"
  /\ CreatesAction(d.by, d.case, d.measure)
  /\ applySanctionEffect(d.measure, Subject[d.case])
  /\ MovesCase(d.by, d.case, d.at)
  /\ Ends(s)
  /\ UNCHANGED <<now, appeals, identityVars, violated>>

\* A statement of the transaction finds its row moved: nothing of it is kept.
RefuseDecision(s) ==
  LET d == call[s]  t == Subject[d.case] IN
  /\ pc[s] = "decide"
  /\ \/ d.measure \in Projecting /\ targets[t].status \notin Before(d.measure)
     \/ ~ClaimedBy(d.by, d.case, d.at)
  /\ Ends(s)
  /\ UNCHANGED <<now, recordVars, worldVars, violated>>
-----------------------------------------------------------------------------
(***************************************************************************)
(* Appeals.  The owner files at most one for an action; a reviewer who did *)
(* not take the action, nor owns its target, moves it to review, and any   *)
(* such reviewer may finish it.                                            *)
(***************************************************************************)
FileAppeal(a) ==
  /\ Recorded(a) /\ actions[a].measure # "no_action"
  /\ appeals[a].status = "none"
  /\ appeals' = [appeals EXCEPT ![a].status = "open"]
  /\ UNCHANGED <<now, cases, actions, worldVars, sessionVars>>

MayReview(m, a) == m # actions[a].by /\ ~Conflict(m, Target(a))

ClaimAppeal(m, a) ==
  /\ appeals[a].status = "open" /\ MayReview(m, a)
  /\ appeals' = [appeals EXCEPT ![a].status = "under_review"]
  /\ UNCHANGED <<now, cases, actions, worldVars, sessionVars>>

AskReview(s, m, a, outcome) ==
  /\ pc[s] = "idle"
  /\ appeals[a].status # "none" /\ MayReview(m, a)
  /\ Calling(s, [kind |-> "review", by |-> m, action |-> a, outcome |-> outcome], "read")
  /\ UNCHANGED <<now, recordVars, worldVars>>

LoadAppeal(s) ==
  /\ pc[s] = "read"
  /\ IF appeals[call[s].action].status = "under_review"
       THEN pc' = [pc EXCEPT ![s] = "review"] /\ UNCHANGED call
       ELSE Ends(s)
  /\ UNCHANGED <<now, recordVars, worldVars, violated>>

Restored(measure) == IF measure \in {"suspension", "ban"} THEN "active" ELSE "published"

\* RestoreArgumentAttributions sets the status and leaves invalidated_at.
RestoredCredits(t) ==
  [x \in Credits |-> IF Credited[x] = t /\ credits[x].status = "invalid"
                       THEN [credits[x] EXCEPT !.status = "valid"] ELSE credits[x]]

\* arguments_withdrawn_at_check and persuasion_attributions_invalidated_check.
TargetCheck(row) == row.withdrawn => row.status \in {"withdrawn", "removed"}
CreditCheck(row) == (row.status = "invalid") <=> row.invalidated

\* The row of the target that a reversal writes.
RestoredTarget(a) == [targets[Target(a)] EXCEPT !.status = Restored(actions[a].measure)]

IsSanctioned(a) ==
  actions[a].measure \in Projecting => targets[Target(a)].status = After(actions[a].measure)

\* The rows a reversal writes satisfy the CHECKs of their tables.
IsStorable(a) ==
  /\ actions[a].measure \in Projecting => TargetCheck(RestoredTarget(a))
  /\ actions[a].measure = "attribution_invalidate" =>
       \A x \in Credits : CreditCheck(RestoredCredits(Target(a))[x])

applyAppealReversal(a) ==
  /\ IsSanctioned(a) /\ IsStorable(a)
  /\ targets' = IF actions[a].measure \in Projecting
                  THEN [targets EXCEPT ![Target(a)] = RestoredTarget(a)] ELSE targets
  /\ credits' = IF actions[a].measure = "attribution_invalidate"
                  THEN RestoredCredits(Target(a)) ELSE credits

Mutant_DecideAppeal(s) ==
  LET r == call[s] IN
  /\ pc[s] = "review"
  /\ IF r.outcome = "reversed" THEN applyAppealReversal(r.action) ELSE UNCHANGED worldVars
  /\ appeals' = [appeals EXCEPT ![r.action] = [status |-> r.outcome, reviewer |-> r.by]]
  /\ Ends(s)
  /\ UNCHANGED <<now, cases, actions, identityVars, violated>>

DecideAppeal(s) ==
  LET r == call[s] IN
  /\ pc[s] = "review"
  /\ appeals[r.action].status = "under_review"
  /\ IF r.outcome = "reversed" THEN applyAppealReversal(r.action) ELSE UNCHANGED worldVars
  /\ appeals' = [appeals EXCEPT ![r.action] = [status |-> r.outcome, reviewer |-> r.by]]
  /\ Ends(s)
  /\ UNCHANGED <<now, cases, actions, identityVars, violated>>

\* Refused by a conditional UPDATE, or by a CHECK on the row it writes.
RefuseReview(s) ==
  LET r == call[s] IN
  /\ pc[s] = "review"
  /\ IF appeals[r.action].status = "under_review"
       THEN /\ r.outcome = "reversed"
            /\ ~IsSanctioned(r.action) \/ ~IsStorable(r.action)
            /\ violated' = IF IsSanctioned(r.action) THEN violated \cup {s} ELSE violated
       ELSE UNCHANGED violated
  /\ Ends(s)
  /\ UNCHANGED <<now, recordVars, worldVars>>
-----------------------------------------------------------------------------
(***************************************************************************)
(* What other modules do meanwhile.  VerifyEmailUseCase reads the account, *)
(* unlocked, and activates it by a later statement that looks at nothing   *)
(* (two executions with two tokens of one account may both have read it    *)
(* pending).  The rest is one statement each: authors and creators, the    *)
(* arenas module's own moderation, the deletion of an account, and         *)
(* attributions recorded, invalidated and restored one by one.             *)
(***************************************************************************)
ReadsPending(t) ==
  /\ targets[t].status = "pending" /\ t \notin verifying
  /\ verifying' = verifying \cup {t}
  /\ UNCHANGED <<now, recordVars, targets, credits, overwritten, sessionVars>>

\* Other executions may, or may not, still be on their way to the same UPDATE.
SetEmailVerified(t) ==
  /\ t \in verifying
  /\ targets' = [targets EXCEPT ![t] = [status |-> "active", withdrawn |-> FALSE]]
  /\ verifying' \in {verifying, verifying \ {t}}
  /\ overwritten' = IF targets[t].status \in Away(t) THEN overwritten \cup {t} ELSE overwritten
  /\ UNCHANGED <<now, recordVars, credits, sessionVars>>

Turns(t, from, to) ==
  /\ targets[t].status \in from
  /\ targets' = [targets EXCEPT ![t].status = to]
  /\ UNCHANGED credits

WithdrawArgument(t) ==
  /\ targets[t].status = "published"
  /\ targets' = [targets EXCEPT ![t] = [status |-> "withdrawn", withdrawn |-> TRUE]]
  /\ UNCHANGED credits

CreditTurns(x, from, row) ==
  /\ credits[x].status = from
  /\ credits' = [credits EXCEPT ![x] = row]
  /\ UNCHANGED targets

Meanwhile ==
  /\ \/ \E t \in Arguments : WithdrawArgument(t)
     \/ \E t \in Arenas : \/ Turns(t, {"published"}, "closed")
                          \/ Turns(t, {"published", "closed"}, "restricted")
                          \/ Turns(t, {"published", "closed", "restricted"}, "removed")
     \/ \E t \in Profiles : Turns(t, {"active", "suspended"}, "deleted")
     \/ \E x \in Credits :
          \/ /\ targets[Credited[x]].status = "published"
             /\ CreditTurns(x, "none", [status |-> "valid", invalidated |-> FALSE])
          \/ CreditTurns(x, "valid", [status |-> "invalid", invalidated |-> TRUE])
          \/ CreditTurns(x, "invalid", [status |-> "valid", invalidated |-> FALSE])
  /\ UNCHANGED <<now, recordVars, identityVars, sessionVars>>

Tick == now < MaxTime /\ now' = now + 1 /\ UNCHANGED <<recordVars, worldVars, sessionVars>>

\* The call ends without an answer and its transaction is rolled back; that its
\* answer is lost after the commit changes nothing more.
Abort(s) ==
  /\ pc[s] # "idle" /\ Ends(s)
  /\ UNCHANGED <<now, recordVars, worldVars, violated>>

SessionStep(s) ==
  \/ \E m \in Staff, c \in Cases, measure \in Measures : AskDecision(s, m, c, measure)
  \/ LoadCase(s) \/ DecideCase(s) \/ RefuseDecision(s)
  \/ \E m \in Staff, a \in Actions, outcome \in Outcomes : AskReview(s, m, a, outcome)
  \/ LoadAppeal(s) \/ DecideAppeal(s) \/ RefuseReview(s)
  \/ Abort(s)

Next ==
  \/ \E s \in Sessions : SessionStep(s)
  \/ \E m \in Staff, c \in Cases : ClaimCase(m, c)
  \/ \E a \in Actions : FileAppeal(a)
  \/ \E m \in Staff, a \in Actions : ClaimAppeal(m, a)
  \/ \E t \in Profiles : ReadsPending(t) \/ SetEmailVerified(t)
  \/ Meanwhile
  \/ Tick

Spec == Init /\ [][Next]_vars
-----------------------------------------------------------------------------
\* Types of the rows and of the calls in progress; every stored row satisfies the CHECKs.
TypeOK ==
  /\ now \in 0 .. MaxTime
  /\ cases \in [Cases -> CaseRows]
  /\ actions \in [Actions -> ActionRows \cup {NoAction}]
  /\ appeals \in [Actions -> AppealRows]
  /\ targets \in [Targets -> TargetRows] /\ \A t \in Targets : TargetCheck(targets[t])
  /\ credits \in [Credits -> CreditRows] /\ \A x \in Credits : CreditCheck(credits[x])
  /\ pc \in [Sessions -> {"idle", "load", "decide", "read", "review"}]
  /\ call \in [Sessions -> Calls \cup {NoCall}]
  /\ \A s \in Sessions :
       /\ pc[s] \in {"load", "decide"} => call[s] # NoCall /\ call[s].kind = "decide"
       /\ pc[s] \in {"read", "review"} => call[s] # NoCall /\ call[s].kind = "review"
  /\ violated \subseteq Sessions
  /\ verifying \subseteq Profiles /\ overwritten \subseteq Profiles

(***************************************************************************)
(* A case is decided exactly when one action is recorded for it            *)
(* (review.go:82-84), whoever claims it again, races or repeats a decision *)
(* meanwhile; and an action is contested by no one before it exists.       *)
(***************************************************************************)
OneDecisionPerCase ==
  /\ \A c \in Cases :
       cases[c].status = "decided" <=> \E a \in Actions : Recorded(a) /\ actions[a].case = c
  /\ \A a, b \in Actions :
       Recorded(a) /\ Recorded(b) /\ actions[a].case = actions[b].case => a = b
  /\ \A a \in Actions : appeals[a].status # "none" => Recorded(a)

(***************************************************************************)
(* No phantom sanction and no phantom restore: what the record says of a   *)
(* target is what its row shows.  An account is suspended, an argument     *)
(* removed, only by a sanction that no appeal reversed; and while a        *)
(* sanction stands it stands alone and its target is not back in public,   *)
(* though it may have moved further away (an account deleted, an Arena     *)
(* removed) -- unless the target is an account that an email verification  *)
(* begun while it was pending activated again after it had gone.           *)
(***************************************************************************)
Stands(a) ==
  /\ Recorded(a) /\ actions[a].measure \in Projecting
  /\ appeals[a].status # "reversed"

SanctionsMatchRecord ==
  /\ \A a \in Actions : Stands(a) /\ Target(a) \notin overwritten =>
       /\ targets[Target(a)].status \in Away(Target(a))
       /\ \A b \in Actions : Stands(b) /\ Target(b) = Target(a) => a = b
  /\ \A t \in Profiles : targets[t].status = "suspended" =>
       \E a \in Actions : Stands(a) /\ Target(a) = t
  /\ \A t \in Arguments : targets[t].status = "removed" =>
       \E a \in Actions : Stands(a) /\ Target(a) = t

(***************************************************************************)
(* "a live lease serializes concurrent claims so two moderators never own  *)
(* the same review" (migration 00024): while the lease of a claim lives,   *)
(* the case moves only by a decision of its holder.                        *)
(***************************************************************************)
ClaimsAreExclusive ==
  [][\A c \in Cases :
       Live(c) /\ cases'[c] # cases[c] =>
         \E a \in Actions :
           /\ ~Recorded(a) /\ actions'[a] # NoAction
           /\ actions'[a].case = c /\ actions'[a].by = cases[c].by]_vars

(***************************************************************************)
(* The record is history: an action never changes, a decided appeal is     *)
(* final, and a step that reverses a sanction brings its target back.      *)
(***************************************************************************)
OutcomesAreFinal ==
  [][\A a \in Actions :
       /\ Recorded(a) => actions'[a] = actions[a]
       /\ appeals[a].status \in Outcomes => appeals'[a] = appeals[a]
       /\ appeals'[a].status = "reversed" /\ appeals[a].status # "reversed"
            /\ actions[a].measure \in Projecting
            => targets'[Target(a)].status = Restored(actions[a].measure)]_vars

(***************************************************************************)
(* "Reversals restore projections from the original action record"         *)
(* (appeals.go:5): a reversal of a sanction that is still in place is not  *)
(* refused by the constraints of the row it restores.                      *)
(***************************************************************************)
ReversalsAreStored == violated = {}
=============================================================================
