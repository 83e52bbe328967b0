-------------------------- MODULE ModerationProofs --------------------------
(***************************************************************************)
(* What moderation guarantees for every number of cases, targets, members  *)
(* of staff and sessions, and for every length of the claim's lease.       *)
(***************************************************************************)
EXTENDS Moderation, TLAPS

(***************************************************************************)
(* The sanction matrix is applied before the transaction, to the target of *)
(* the case, which never changes: every recorded or pending measure fits   *)
(* its target.                                                             *)
(***************************************************************************)
Fits(measure, t) == SanctionAllowed(TypeOfTarget(t), measure)

MeasuresFit ==
  /\ \A a \in Actions : Recorded(a) => Fits(actions[a].measure, Target(a))
  /\ \A s \in Sessions : pc[s] \in {"load", "decide"} =>
       Fits(call[s].measure, Subject[call[s].case])

IInv == TypeOK /\ MeasuresFit /\ OneDecisionPerCase /\ SanctionsMatchRecord
-----------------------------------------------------------------------------
LEMMA ActionFields ==
  ASSUME TypeOK, NEW a \in Actions, Recorded(a)
  PROVE  /\ actions[a] \in ActionRows
         /\ actions[a].case \in Cases /\ actions[a].measure \in Measures
         /\ actions[a].by \in Staff /\ Target(a) \in Targets
  BY ModerationAssumption DEF TypeOK, Recorded, ActionRows, Target

LEMMA DecisionFields ==
  ASSUME TypeOK, NEW s \in Sessions, pc[s] \in {"load", "decide"}
  PROVE  /\ call[s] \in Calls
         /\ call[s].by \in Staff /\ call[s].case \in Cases /\ call[s].measure \in Measures
         /\ call[s].at \in Nat /\ Subject[call[s].case] \in Targets
<1>1. call[s] \in Calls /\ call[s].kind = "decide"
  BY DEF TypeOK
<1>. QED BY <1>1, ModerationAssumption DEF Calls

LEMMA ReviewFields ==
  ASSUME TypeOK, NEW s \in Sessions, pc[s] \in {"read", "review"}
  PROVE  /\ call[s] \in Calls
         /\ call[s].by \in Staff /\ call[s].action \in Actions /\ call[s].outcome \in Outcomes
<1>1. call[s] \in Calls /\ call[s].kind = "review"
  BY DEF TypeOK
<1>. QED BY <1>1 DEF Calls

\* The sanction of a target takes it from the public and nothing else does.
LEMMA ProjectingMeasures ==
  ASSUME NEW measure \in Projecting, NEW t \in Targets, Fits(measure, t)
  PROVE  /\ After(measure) \in Away(t) /\ Before(measure) \cap Away(t) = {}
         /\ After(measure) = "suspended" <=> t \in Profiles
         /\ After(measure) = "removed" <=> t \in Arguments
         /\ Restored(measure) \notin {"suspended", "removed"}
  BY ModerationAssumption
  DEF Projecting, Fits, SanctionAllowed, TypeOfTarget, Targets, After, Before, Away, Restored

LEMMA TargetTypes ==
  ASSUME NEW measure
  PROVE  /\ After(measure) \in {"closed", "removed", "suspended"}
         /\ Restored(measure) \in {"active", "published"}
  BY DEF After, Restored
-----------------------------------------------------------------------------
(***************************************************************************)
(* Types, and the CHECKs of the stored rows.                               *)
(***************************************************************************)
SessionType(s) ==
  /\ pc[s] \in {"idle", "load", "decide", "read", "review"}
  /\ call[s] \in Calls \cup {NoCall}
  /\ pc[s] \in {"load", "decide"} => call[s] # NoCall /\ call[s].kind = "decide"
  /\ pc[s] \in {"read", "review"} => call[s] # NoCall /\ call[s].kind = "review"

LEMMA SessionTypes ==
  ASSUME TypeOK, NEW s \in Sessions, NEW stage, NEW request,
         pc' = [pc EXCEPT ![s] = stage], call' = [call EXCEPT ![s] = request],
         SessionType(s)'
  PROVE  /\ pc' \in [Sessions -> {"idle", "load", "decide", "read", "review"}]
         /\ call' \in [Sessions -> Calls \cup {NoCall}]
         /\ \A r \in Sessions :
              /\ pc'[r] \in {"load", "decide"} => call'[r] # NoCall /\ call'[r].kind = "decide"
              /\ pc'[r] \in {"read", "review"} => call'[r] # NoCall /\ call'[r].kind = "review"
  BY DEF TypeOK, SessionType

LEMMA EndsTypes ==
  ASSUME TypeOK, NEW s \in Sessions, Ends(s)
  PROVE  /\ pc' \in [Sessions -> {"idle", "load", "decide", "read", "review"}]
         /\ call' \in [Sessions -> Calls \cup {NoCall}]
         /\ \A r \in Sessions :
              /\ pc'[r] \in {"load", "decide"} => call'[r] # NoCall /\ call'[r].kind = "decide"
              /\ pc'[r] \in {"read", "review"} => call'[r] # NoCall /\ call'[r].kind = "review"
         /\ \A r \in Sessions : pc'[r] \in {"load", "decide"} =>
              pc[r] \in {"load", "decide"} /\ call'[r] = call[r]
<1>1. SessionType(s)'
  BY DEF Ends, SessionType, TypeOK
<1>. QED BY <1>1, SessionTypes DEF Ends, TypeOK

LEMMA TargetsStayTyped ==
  ASSUME TypeOK, NEW t \in Targets, NEW row \in TargetRows, TargetCheck(row),
         targets' = [targets EXCEPT ![t] = row]
  PROVE  targets' \in [Targets -> TargetRows] /\ \A u \in Targets : TargetCheck(targets'[u])
  BY DEF TypeOK

LEMMA EffectTypes ==
  ASSUME TypeOK, NEW measure \in Measures, NEW t \in Targets, Fits(measure, t),
         applySanctionEffect(measure, t)
  PROVE  /\ targets' \in [Targets -> TargetRows] /\ \A u \in Targets : TargetCheck(targets'[u])
         /\ credits' \in [Credits -> CreditRows] /\ \A x \in Credits : CreditCheck(credits'[x])
<1>1. targets' \in [Targets -> TargetRows] /\ \A u \in Targets : TargetCheck(targets'[u])
  <2>1. CASE measure \in Projecting
    <3>. DEFINE row == [targets[t] EXCEPT !.status = After(measure)]
    <3>1. targets' = [targets EXCEPT ![t] = row] /\ targets[t] \in TargetRows
      BY <2>1 DEF applySanctionEffect, TypeOK
    <3>2. row \in TargetRows
      BY <3>1, TargetTypes DEF TargetRows
    <3>3. TargetCheck(row)
      <4>1. row.withdrawn = targets[t].withdrawn /\ row.status = After(measure)
        BY <3>1 DEF TargetRows
      <4>2. targets[t].withdrawn => targets[t].status \in {"withdrawn", "removed"}
        BY DEF TypeOK, TargetCheck
      <4>3. targets[t].status \in Before(measure)
        BY <2>1 DEF applySanctionEffect
      <4>. QED BY <2>1, <4>1, <4>2, <4>3 DEF TargetCheck, Before, After, Projecting
    <3>. QED BY <3>1, <3>2, <3>3, TargetsStayTyped
  <2>2. CASE measure \notin Projecting
    BY <2>2 DEF applySanctionEffect, TypeOK
  <2>. QED BY <2>1, <2>2
<1>2. credits' \in [Credits -> CreditRows] /\ \A x \in Credits : CreditCheck(credits'[x])
  <2>1. CASE measure = "attribution_invalidate"
    <3>. DEFINE row == [status |-> "invalid", invalidated |-> TRUE]
    <3>1. credits' = [x \in Credits |-> IF Credited[x] = t /\ credits[x].status = "valid"
                                          THEN row ELSE credits[x]]
      BY <2>1 DEF applySanctionEffect, InvalidateArgumentAttributions
    <3>2. row \in CreditRows /\ CreditCheck(row)
      BY DEF CreditRows, CreditCheck
    <3>. HIDE DEF row
    <3>. QED BY <3>1, <3>2 DEF TypeOK
  <2>2. CASE measure # "attribution_invalidate"
    BY <2>2 DEF applySanctionEffect, TypeOK
  <2>. QED BY <2>1, <2>2
<1>. QED BY <1>1, <1>2

LEMMA ReversalTypes ==
  ASSUME TypeOK, NEW a \in Actions, Recorded(a), applyAppealReversal(a)
  PROVE  /\ targets' \in [Targets -> TargetRows] /\ \A u \in Targets : TargetCheck(targets'[u])
         /\ credits' \in [Credits -> CreditRows] /\ \A x \in Credits : CreditCheck(credits'[x])
<1>. DEFINE t == Target(a)
<1>0. t \in Targets
  BY ActionFields
<1>1. targets' \in [Targets -> TargetRows] /\ \A u \in Targets : TargetCheck(targets'[u])
  <2>1. CASE actions[a].measure \in Projecting
    <3>1. targets' = [targets EXCEPT ![t] = RestoredTarget(a)] /\ TargetCheck(RestoredTarget(a))
      BY <2>1 DEF applyAppealReversal, IsStorable
    <3>2. RestoredTarget(a) \in TargetRows
      BY <1>0, TargetTypes DEF RestoredTarget, TargetRows, TypeOK
    <3>. QED BY <1>0, <3>1, <3>2, TargetsStayTyped
  <2>2. CASE actions[a].measure \notin Projecting
    BY <2>2 DEF applyAppealReversal, TypeOK
  <2>. QED BY <2>1, <2>2
<1>2. credits' \in [Credits -> CreditRows] /\ \A x \in Credits : CreditCheck(credits'[x])
  <2>1. RestoredCredits(t) \in [Credits -> CreditRows]
    BY DEF RestoredCredits, CreditRows, TypeOK
  <2>. QED BY <2>1 DEF applyAppealReversal, IsStorable, TypeOK
<1>. QED BY <1>1, <1>2

SessionsStayTyped ==
  /\ pc \in [Sessions -> {"idle", "load", "decide", "read", "review"}]
  /\ call \in [Sessions -> Calls \cup {NoCall}]
  /\ \A s \in Sessions :
       /\ pc[s] \in {"load", "decide"} => call[s] # NoCall /\ call[s].kind = "decide"
       /\ pc[s] \in {"read", "review"} => call[s] # NoCall /\ call[s].kind = "review"

RowsStayTyped ==
  /\ targets \in [Targets -> TargetRows] /\ \A t \in Targets : TargetCheck(targets[t])
  /\ credits \in [Credits -> CreditRows] /\ \A x \in Credits : CreditCheck(credits[x])

RecordStaysTyped ==
  /\ cases \in [Cases -> CaseRows]
  /\ actions \in [Actions -> ActionRows \cup {NoAction}]
  /\ appeals \in [Actions -> AppealRows]

IdentityStaysTyped == verifying \subseteq Profiles /\ overwritten \subseteq Profiles

LEMMA TypesPrimed ==
  ASSUME now' \in 0 .. MaxTime, RecordStaysTyped', RowsStayTyped', SessionsStayTyped',
         violated' \subseteq Sessions, IdentityStaysTyped'
  PROVE  TypeOK'
  BY DEF TypeOK, RecordStaysTyped, RowsStayTyped, SessionsStayTyped, IdentityStaysTyped

LEMMA UnchangedTypes ==
  ASSUME TypeOK
  PROVE  /\ UNCHANGED recordVars => RecordStaysTyped'
         /\ UNCHANGED <<targets, credits>> => RowsStayTyped'
         /\ UNCHANGED identityVars => IdentityStaysTyped'
         /\ UNCHANGED worldVars => RowsStayTyped' /\ IdentityStaysTyped'
         /\ UNCHANGED <<pc, call>> => SessionsStayTyped'
         /\ UNCHANGED now => now' \in 0 .. MaxTime
         /\ UNCHANGED violated => violated' \subseteq Sessions
  BY DEF TypeOK, RecordStaysTyped, RowsStayTyped, SessionsStayTyped, IdentityStaysTyped,
         recordVars, worldVars, identityVars, TargetCheck, CreditCheck

LEMMA CallingTypes ==
  ASSUME TypeOK, NEW s \in Sessions, NEW request \in Calls, NEW stage, Calling(s, request, stage),
         \/ stage = "load" /\ request.kind = "decide"
         \/ stage = "read" /\ request.kind = "review"
  PROVE  SessionsStayTyped' /\ violated' \subseteq Sessions
<1>1. SessionType(s)'
  BY ModerationAssumption DEF Calling, SessionType, TypeOK
<1>2. pc' = [pc EXCEPT ![s] = stage] /\ call' = [call EXCEPT ![s] = request]
      /\ violated' = violated \ {s}
  BY DEF Calling
<1>3. SessionsStayTyped'
  BY <1>1, <1>2, SessionTypes DEF SessionsStayTyped
<1>. QED BY <1>2, <1>3 DEF TypeOK

LEMMA AdvanceTypes ==
  ASSUME TypeOK, NEW s \in Sessions, UNCHANGED call,
         \/ pc[s] = "load" /\ pc' = [pc EXCEPT ![s] = "decide"]
         \/ pc[s] = "read" /\ pc' = [pc EXCEPT ![s] = "review"]
  PROVE  SessionsStayTyped'
  BY DEF TypeOK, SessionsStayTyped

LEMMA EndsStayTyped ==
  ASSUME TypeOK, NEW s \in Sessions, Ends(s)
  PROVE  SessionsStayTyped'
  BY EndsTypes DEF SessionsStayTyped

LEMMA MovesTypes ==
  ASSUME TypeOK
  PROVE  /\ \A m \in Staff, c \in Cases : ClaimCase(m, c) => TypeOK'
         /\ \A a \in Actions : FileAppeal(a) => TypeOK'
         /\ \A m \in Staff, a \in Actions : ClaimAppeal(m, a) => TypeOK'
<1>1. ASSUME NEW m \in Staff, NEW c \in Cases, ClaimCase(m, c)
      PROVE  TypeOK'
  <2>. DEFINE row == [status |-> "under_review", by |-> m, lease |-> now + ClaimLease]
  <2>1. row \in CaseRows
    BY ModerationAssumption DEF CaseRows, TypeOK
  <2>2. cases' = [cases EXCEPT ![c] = row] /\ UNCHANGED <<actions, appeals>>
    BY <1>1 DEF ClaimCase
  <2>3. RecordStaysTyped'
    BY <2>1, <2>2 DEF TypeOK, RecordStaysTyped
  <2>. QED BY <1>1, <2>3, UnchangedTypes, TypesPrimed DEF ClaimCase, sessionVars
<1>2. ASSUME NEW a \in Actions, FileAppeal(a)
      PROVE  TypeOK'
  <2>1. RecordStaysTyped'
    BY <1>2 DEF FileAppeal, TypeOK, RecordStaysTyped, AppealRows
  <2>. QED BY <1>2, <2>1, UnchangedTypes, TypesPrimed DEF FileAppeal, sessionVars
<1>3. ASSUME NEW m \in Staff, NEW a \in Actions, ClaimAppeal(m, a)
      PROVE  TypeOK'
  <2>1. RecordStaysTyped'
    BY <1>3 DEF ClaimAppeal, TypeOK, RecordStaysTyped, AppealRows
  <2>. QED BY <1>3, <2>1, UnchangedTypes, TypesPrimed DEF ClaimAppeal, sessionVars
<1>. QED BY <1>1, <1>2, <1>3

LEMMA DecideTypes ==
  ASSUME TypeOK, MeasuresFit, NEW s \in Sessions, DecideCase(s)
  PROVE  TypeOK'
<1>. DEFINE d == call[s]
<1>1. pc[s] = "decide" /\ Ends(s) /\ UNCHANGED <<now, appeals, identityVars, violated>>
  BY DEF DecideCase
<1>2. d.by \in Staff /\ d.case \in Cases /\ d.measure \in Measures /\ Subject[d.case] \in Targets
  BY <1>1, DecisionFields
<1>3. PICK a \in Actions : actions' = [actions EXCEPT ![a] = [case |-> d.case, measure |-> d.measure,
                                                              by |-> d.by]]
  BY DEF DecideCase, CreatesAction
<1>4. cases' = [cases EXCEPT ![d.case] = [status |-> "decided", by |-> NoOne, lease |-> 0]]
  BY DEF DecideCase, MovesCase
<1>5. RecordStaysTyped'
  BY <1>1, <1>2, <1>3, <1>4 DEF TypeOK, RecordStaysTyped, ActionRows, CaseRows
<1>6. RowsStayTyped'
  <2>1. applySanctionEffect(d.measure, Subject[d.case]) /\ Fits(d.measure, Subject[d.case])
    BY <1>1 DEF DecideCase, MeasuresFit
  <2>. QED BY <1>2, <2>1, EffectTypes DEF RowsStayTyped
<1>. QED BY <1>1, <1>5, <1>6, EndsStayTyped, UnchangedTypes, TypesPrimed

LEMMA ReviewTypes ==
  ASSUME TypeOK, OneDecisionPerCase, NEW s \in Sessions, DecideAppeal(s)
  PROVE  TypeOK'
<1>. DEFINE r == call[s]
<1>1. pc[s] = "review" /\ Ends(s) /\ UNCHANGED <<now, cases, actions, identityVars, violated>>
  BY DEF DecideAppeal
<1>2. r.by \in Staff /\ r.action \in Actions /\ r.outcome \in Outcomes
  BY <1>1, ReviewFields
<1>3. Recorded(r.action)
  BY <1>2 DEF DecideAppeal, OneDecisionPerCase
<1>4. RecordStaysTyped'
  BY <1>1, <1>2 DEF DecideAppeal, TypeOK, RecordStaysTyped, AppealRows
<1>5. RowsStayTyped'
  BY <1>2, <1>3, ReversalTypes, UnchangedTypes DEF DecideAppeal, RowsStayTyped
<1>. QED BY <1>1, <1>4, <1>5, EndsStayTyped, UnchangedTypes, TypesPrimed

LEMMA MeanwhileTypes ==
  ASSUME TypeOK, Meanwhile
  PROVE  TypeOK'
<1>1. CASE \E t \in Arguments : WithdrawArgument(t)
  <2>1. PICK t \in Arguments : WithdrawArgument(t)
    BY <1>1
  <2>. DEFINE row == [status |-> "withdrawn", withdrawn |-> TRUE]
  <2>2. row \in TargetRows /\ TargetCheck(row) /\ t \in Targets
    BY DEF TargetRows, TargetCheck, Targets
  <2>3. targets' = [targets EXCEPT ![t] = row] /\ UNCHANGED credits
    BY <2>1 DEF WithdrawArgument
  <2>. HIDE DEF row
  <2>4. RowsStayTyped'
    BY <2>2, <2>3, TargetsStayTyped DEF RowsStayTyped, TypeOK
  <2>. QED BY <2>4, UnchangedTypes, TypesPrimed DEF Meanwhile, sessionVars
<1>2. ASSUME NEW t \in Targets, NEW from, NEW to, Turns(t, from, to),
             from \cap {"withdrawn", "removed"} = {},
             to \in {"closed", "restricted", "removed", "deleted"}
      PROVE  TypeOK'
  <2>. DEFINE row == [targets[t] EXCEPT !.status = to]
  <2>1. targets[t] \in TargetRows /\ ~targets[t].withdrawn
    <3>1. targets[t].status \notin {"withdrawn", "removed"}
      BY <1>2 DEF Turns
    <3>. QED BY <3>1 DEF TypeOK, TargetCheck
  <2>2. row \in TargetRows /\ row.withdrawn = targets[t].withdrawn
    BY <1>2, <2>1 DEF TargetRows
  <2>3. TargetCheck(row)
    BY <2>1, <2>2, Zenon DEF TargetCheck
  <2>4. targets' = [targets EXCEPT ![t] = row] /\ UNCHANGED credits
    BY <1>2 DEF Turns
  <2>. HIDE DEF row
  <2>5. RowsStayTyped'
    BY <2>2, <2>3, <2>4, TargetsStayTyped DEF RowsStayTyped, TypeOK
  <2>. QED BY <2>5, UnchangedTypes, TypesPrimed DEF Meanwhile, sessionVars
<1>3. ASSUME NEW x \in Credits, NEW from, NEW row \in CreditRows, CreditCheck(row),
             CreditTurns(x, from, row)
      PROVE  TypeOK'
  <2>1. credits' = [credits EXCEPT ![x] = row] /\ UNCHANGED targets
    BY <1>3 DEF CreditTurns
  <2>2. RowsStayTyped'
    BY <1>3, <2>1 DEF RowsStayTyped, TypeOK
  <2>. QED BY <2>2, UnchangedTypes, TypesPrimed DEF Meanwhile, sessionVars
<1>4. Arenas \subseteq Targets /\ Profiles \subseteq Targets
  BY DEF Targets
<1>5. /\ [status |-> "valid", invalidated |-> FALSE] \in CreditRows
      /\ CreditCheck([status |-> "valid", invalidated |-> FALSE])
      /\ [status |-> "invalid", invalidated |-> TRUE] \in CreditRows
      /\ CreditCheck([status |-> "invalid", invalidated |-> TRUE])
  BY DEF CreditRows, CreditCheck
<1>6. CASE \E t \in Arenas : \/ Turns(t, {"published"}, "closed")
                             \/ Turns(t, {"published", "closed"}, "restricted")
                             \/ Turns(t, {"published", "closed", "restricted"}, "removed")
  <2>1. PICK t \in Targets : \/ Turns(t, {"published"}, "closed")
                             \/ Turns(t, {"published", "closed"}, "restricted")
                             \/ Turns(t, {"published", "closed", "restricted"}, "removed")
    BY <1>4, <1>6
  <2>2. /\ {"published"} \cap {"withdrawn", "removed"} = {}
        /\ {"published", "closed"} \cap {"withdrawn", "removed"} = {}
        /\ {"published", "closed", "restricted"} \cap {"withdrawn", "removed"} = {}
    OBVIOUS
  <2>. QED BY <2>1, <2>2, <1>2
<1>7. CASE \E t \in Profiles : Turns(t, {"active", "suspended"}, "deleted")
  <2>1. PICK t \in Targets : Turns(t, {"active", "suspended"}, "deleted")
    BY <1>4, <1>7
  <2>2. {"active", "suspended"} \cap {"withdrawn", "removed"} = {}
    OBVIOUS
  <2>. QED BY <2>1, <2>2, <1>2
<1>. QED BY <1>1, <1>3, <1>5, <1>6, <1>7 DEF Meanwhile

LEMMA VerificationTypes ==
  ASSUME TypeOK, NEW t \in Profiles
  PROVE  /\ ReadsPending(t) => TypeOK'
         /\ SetEmailVerified(t) => TypeOK'
<1>1. ASSUME ReadsPending(t)
      PROVE  TypeOK'
  <2>1. IdentityStaysTyped'
    BY <1>1 DEF ReadsPending, TypeOK, IdentityStaysTyped
  <2>. QED BY <1>1, <2>1, UnchangedTypes, TypesPrimed DEF ReadsPending, sessionVars
<1>2. ASSUME SetEmailVerified(t)
      PROVE  TypeOK'
  <2>. DEFINE row == [status |-> "active", withdrawn |-> FALSE]
  <2>1. row \in TargetRows /\ TargetCheck(row) /\ t \in Targets
    BY DEF TargetRows, TargetCheck, Targets
  <2>2. targets' = [targets EXCEPT ![t] = row] /\ UNCHANGED credits
    BY <1>2 DEF SetEmailVerified
  <2>. HIDE DEF row
  <2>3. RowsStayTyped'
    BY <2>1, <2>2, TargetsStayTyped DEF RowsStayTyped, TypeOK
  <2>4. IdentityStaysTyped'
    BY <1>2 DEF SetEmailVerified, TypeOK, IdentityStaysTyped
  <2>. QED BY <1>2, <2>3, <2>4, UnchangedTypes, TypesPrimed DEF SetEmailVerified, sessionVars
<1>. QED BY <1>1, <1>2

LEMMA TypeStep ==
  ASSUME TypeOK, MeasuresFit, OneDecisionPerCase, [Next]_vars
  PROVE  TypeOK'
<1>1. ASSUME NEW s \in Sessions, SessionStep(s)
      PROVE  TypeOK'
  <2>1. ASSUME NEW m \in Staff, NEW c \in Cases, NEW measure \in Measures,
               AskDecision(s, m, c, measure)
        PROVE  TypeOK'
    <3>. DEFINE request == [kind |-> "decide", by |-> m, case |-> c, measure |-> measure,
                            at |-> now]
    <3>1. request \in Calls /\ request.kind = "decide"
      BY ModerationAssumption DEF Calls, TypeOK
    <3>2. Calling(s, request, "load") /\ UNCHANGED <<now, recordVars, worldVars>>
      BY <2>1 DEF AskDecision
    <3>. HIDE DEF request
    <3>. QED BY <3>1, <3>2, CallingTypes, UnchangedTypes, TypesPrimed
  <2>2. ASSUME NEW m \in Staff, NEW a \in Actions, NEW outcome \in Outcomes,
               AskReview(s, m, a, outcome)
        PROVE  TypeOK'
    <3>. DEFINE request == [kind |-> "review", by |-> m, action |-> a, outcome |-> outcome]
    <3>1. request \in Calls /\ request.kind = "review"
      BY DEF Calls
    <3>2. Calling(s, request, "read") /\ UNCHANGED <<now, recordVars, worldVars>>
      BY <2>2 DEF AskReview
    <3>. HIDE DEF request
    <3>. QED BY <3>1, <3>2, CallingTypes, UnchangedTypes, TypesPrimed
  <2>3. CASE LoadCase(s)
    BY <2>3, AdvanceTypes, EndsStayTyped, UnchangedTypes, TypesPrimed DEF LoadCase
  <2>4. CASE LoadAppeal(s)
    BY <2>4, AdvanceTypes, EndsStayTyped, UnchangedTypes, TypesPrimed DEF LoadAppeal
  <2>5. CASE RefuseDecision(s) \/ Abort(s)
    BY <2>5, EndsStayTyped, UnchangedTypes, TypesPrimed DEF RefuseDecision, Abort
  <2>6. CASE RefuseReview(s)
    <3>1. violated' \subseteq Sessions
      BY <2>6 DEF RefuseReview, TypeOK
    <3>2. Ends(s) /\ UNCHANGED <<now, recordVars, worldVars>>
      BY <2>6 DEF RefuseReview
    <3>. QED BY <3>1, <3>2, EndsStayTyped, UnchangedTypes, TypesPrimed
  <2>. QED BY <1>1, <2>1, <2>2, <2>3, <2>4, <2>5, <2>6, DecideTypes, ReviewTypes DEF SessionStep
<1>2. CASE Tick
  <2>1. now' \in 0 .. MaxTime
    BY <1>2, ModerationAssumption DEF Tick, TypeOK
  <2>. QED BY <1>2, <2>1, UnchangedTypes, TypesPrimed DEF Tick, sessionVars
<1>3. CASE UNCHANGED vars
  BY <1>3, UnchangedTypes, TypesPrimed DEF vars, sessionVars
<1>. QED BY <1>1, <1>2, <1>3, MovesTypes, MeanwhileTypes, VerificationTypes DEF Next
-----------------------------------------------------------------------------
(***************************************************************************)
(* The two steps that write the record.                                    *)
(***************************************************************************)
LEMMA Decision ==
  ASSUME IInv, NEW s \in Sessions, DecideCase(s)
  PROVE  \E a \in Actions :
           /\ ~Recorded(a) /\ appeals[a].status = "none" /\ UNCHANGED appeals
           /\ actions' = [actions EXCEPT ![a] = [case |-> call[s].case,
                                                 measure |-> call[s].measure, by |-> call[s].by]]
           /\ Recorded(a)' /\ actions'[a].case = call[s].case
           /\ actions'[a].measure = call[s].measure /\ actions'[a].by = call[s].by
           /\ \A b \in Actions : b # a => actions'[b] = actions[b]
<1>1. PICK a \in Actions :
        /\ ~Recorded(a)
        /\ actions' = [actions EXCEPT ![a] = [case |-> call[s].case, measure |-> call[s].measure,
                                              by |-> call[s].by]]
  BY DEF DecideCase, CreatesAction
<1>2. actions'[a] = [case |-> call[s].case, measure |-> call[s].measure, by |-> call[s].by]
  BY <1>1 DEF IInv, TypeOK
<1>3. actions'[a] \in ActionRows
  BY <1>2, DecisionFields DEF IInv, DecideCase, ActionRows
<1>4. Recorded(a)'
  BY <1>3, ModerationAssumption DEF Recorded
<1>5. appeals[a].status = "none" /\ UNCHANGED appeals
  BY <1>1 DEF IInv, OneDecisionPerCase, DecideCase
<1>6. \A b \in Actions : b # a => actions'[b] = actions[b]
  BY <1>1 DEF IInv, TypeOK
<1>7. /\ actions'[a].case = call[s].case /\ actions'[a].measure = call[s].measure
      /\ actions'[a].by = call[s].by
  BY <1>2
<1>. QED BY <1>1, <1>4, <1>5, <1>6, <1>7, Zenon

LEMMA Outcome ==
  ASSUME IInv, NEW s \in Sessions, DecideAppeal(s)
  PROVE  /\ call[s].action \in Actions /\ call[s].outcome \in Outcomes
         /\ Recorded(call[s].action) /\ appeals[call[s].action].status = "under_review"
         /\ UNCHANGED <<cases, actions, overwritten>>
         /\ appeals'[call[s].action].status = call[s].outcome
         /\ \A b \in Actions : b # call[s].action => appeals'[b] = appeals[b]
         /\ call[s].outcome # "reversed" => UNCHANGED targets
         /\ call[s].outcome = "reversed" => applyAppealReversal(call[s].action)
<1>1. call[s].action \in Actions /\ call[s].outcome \in Outcomes
  BY ReviewFields DEF IInv, DecideAppeal
<1>2. Recorded(call[s].action)
  BY <1>1 DEF IInv, OneDecisionPerCase, DecideAppeal
<1>. QED BY <1>1, <1>2 DEF DecideAppeal, IInv, TypeOK, worldVars, identityVars

\* No other step records an action or moves an appeal out of, or into, its outcome.
Quiet ==
  /\ UNCHANGED actions
  /\ \A c \in Cases : cases'[c].status = "decided" <=> cases[c].status = "decided"
  /\ \A a \in Actions :
       /\ appeals'[a].status = "none" => appeals[a].status = "none"
       /\ appeals[a].status = "none" /\ ~Recorded(a) => appeals'[a].status = "none"
       /\ appeals'[a].status = "reversed" <=> appeals[a].status = "reversed"

LEMMA QuietSteps ==
  ASSUME IInv, [Next]_vars
  PROVE  \/ \E s \in Sessions : DecideCase(s) \/ DecideAppeal(s)
         \/ /\ Quiet
            /\ \/ UNCHANGED <<targets, overwritten>>
               \/ Meanwhile
               \/ \E t \in Profiles : SetEmailVerified(t)
<1>1. ASSUME NEW s \in Sessions, SessionStep(s), ~DecideCase(s), ~DecideAppeal(s)
      PROVE  UNCHANGED <<recordVars, targets, overwritten>>
  BY <1>1 DEF SessionStep, AskDecision, LoadCase, RefuseDecision, AskReview, LoadAppeal,
              RefuseReview, Abort, recordVars, worldVars, identityVars
<1>2. UNCHANGED recordVars => Quiet
  BY DEF Quiet, recordVars
<1>3. ASSUME NEW m \in Staff, NEW c \in Cases, ClaimCase(m, c)
      PROVE  Quiet /\ UNCHANGED <<targets, overwritten>>
  <2>1. cases' = [cases EXCEPT ![c] = [status |-> "under_review", by |-> m,
                                       lease |-> now + ClaimLease]]
        /\ cases[c].status \in {"open", "under_review"} /\ UNCHANGED <<actions, appeals, targets, overwritten>>
    BY <1>3 DEF ClaimCase, worldVars, identityVars
  <2>. QED BY <2>1 DEF Quiet, IInv, TypeOK
<1>4. ASSUME NEW a \in Actions, FileAppeal(a)
      PROVE  Quiet /\ UNCHANGED <<targets, overwritten>>
  BY <1>4 DEF FileAppeal, Quiet, IInv, TypeOK, AppealRows, worldVars, identityVars
<1>5. ASSUME NEW m \in Staff, NEW a \in Actions, ClaimAppeal(m, a)
      PROVE  Quiet /\ UNCHANGED <<targets, overwritten>>
  BY <1>5 DEF ClaimAppeal, Quiet, IInv, TypeOK, AppealRows, worldVars, identityVars
<1>6. CASE Meanwhile
  BY <1>2, <1>6 DEF Meanwhile
<1>7. CASE Tick \/ UNCHANGED vars
  BY <1>2, <1>7 DEF Tick, vars, worldVars, identityVars
<1>8. ASSUME NEW t \in Profiles, ReadsPending(t) \/ SetEmailVerified(t)
      PROVE  Quiet /\ (UNCHANGED <<targets, overwritten>> \/ SetEmailVerified(t))
  BY <1>2, <1>8 DEF ReadsPending, SetEmailVerified
<1>. QED BY <1>1, <1>2, <1>3, <1>4, <1>5, <1>6, <1>7, <1>8 DEF Next, recordVars
-----------------------------------------------------------------------------
LEMMA MeasuresStayFit ==
  ASSUME IInv, [Next]_vars
  PROVE  MeasuresFit'
<1>1. ASSUME NEW s \in Sessions, pc'[s] \in {"load", "decide"}
      PROVE  Fits(call'[s].measure, Subject[call'[s].case])
  <2>1. CASE pc[s] \in {"load", "decide"} /\ call'[s] = call[s]
    BY <2>1 DEF IInv, MeasuresFit
  <2>2. ASSUME NEW r \in Sessions, NEW m \in Staff, NEW c \in Cases, NEW measure \in Measures,
               AskDecision(r, m, c, measure), r = s
        PROVE  Fits(call'[s].measure, Subject[call'[s].case])
    <3>1. call'[s] = [kind |-> "decide", by |-> m, case |-> c, measure |-> measure, at |-> now]
      BY <2>2 DEF AskDecision, Calling, IInv, TypeOK
    <3>. QED BY <2>2, <3>1 DEF AskDecision, Fits
  <2>3. ASSUME NEW r \in Sessions, SessionStep(r),
               ~\E m \in Staff, c \in Cases, measure \in Measures : AskDecision(s, m, c, measure)
        PROVE  pc[s] \in {"load", "decide"} /\ call'[s] = call[s]
    <3>1. CASE Ends(r)
      BY <3>1, EndsTypes, <1>1 DEF IInv
    <3>2. CASE pc[r] \in {"load", "read"} /\ UNCHANGED call
               /\ pc' = [pc EXCEPT ![r] = IF pc[r] = "load" THEN "decide" ELSE "review"]
      BY <1>1, <3>2 DEF IInv, TypeOK
    <3>3. ASSUME NEW m \in Staff, NEW a \in Actions, NEW outcome \in Outcomes,
                 AskReview(r, m, a, outcome)
          PROVE  pc[s] \in {"load", "decide"} /\ call'[s] = call[s]
      BY <1>1, <3>3 DEF AskReview, Calling, IInv, TypeOK
    <3>4. ASSUME NEW m \in Staff, NEW c \in Cases, NEW measure \in Measures,
                 AskDecision(r, m, c, measure)
          PROVE  pc[s] \in {"load", "decide"} /\ call'[s] = call[s]
      BY <1>1, <2>3, <3>4 DEF AskDecision, Calling, IInv, TypeOK
    <3>. QED BY <2>3, <3>1, <3>2, <3>3, <3>4
             DEF SessionStep, LoadCase, DecideCase, RefuseDecision, LoadAppeal, DecideAppeal,
                 RefuseReview, Abort
  <2>4. ASSUME ~\E r \in Sessions : SessionStep(r)
        PROVE  pc[s] \in {"load", "decide"} /\ call'[s] = call[s]
    <3>1. UNCHANGED <<pc, call>>
      BY <2>4 DEF Next, vars, sessionVars, ClaimCase, FileAppeal, ClaimAppeal, ReadsPending,
                  SetEmailVerified, Meanwhile, Tick
    <3>. QED BY <1>1, <3>1
  <2>. QED BY <2>1, <2>2, <2>3, <2>4
<1>2. ASSUME NEW a \in Actions, Recorded(a)'
      PROVE  Fits(actions'[a].measure, Target(a)')
  <2>1. CASE \E s \in Sessions : DecideCase(s)
    <3>1. PICK s \in Sessions : DecideCase(s)
      BY <2>1
    <3>2. PICK b \in Actions :
            /\ actions'[b].case = call[s].case /\ actions'[b].measure = call[s].measure
            /\ \A d \in Actions : d # b => actions'[d] = actions[d]
      BY <3>1, Decision
    <3>3. Fits(call[s].measure, Subject[call[s].case])
      BY <3>1 DEF IInv, MeasuresFit, DecideCase
    <3>. QED BY <1>2, <3>2, <3>3 DEF IInv, MeasuresFit, Recorded, Target
  <2>2. CASE UNCHANGED actions
    BY <1>2, <2>2 DEF IInv, MeasuresFit, Recorded, Target
  <2>. QED BY <2>1, <2>2, QuietSteps, Outcome DEF Quiet
<1>. QED BY <1>1, <1>2 DEF MeasuresFit
-----------------------------------------------------------------------------
LEMMA OneDecisionKept ==
  ASSUME IInv, [Next]_vars
  PROVE  OneDecisionPerCase'
<1>1. CASE \E s \in Sessions : DecideCase(s)
  <2>1. PICK s \in Sessions : DecideCase(s)
    BY <1>1
  <2>. DEFINE c == call[s].case
  <2>2. PICK a \in Actions :
          /\ ~Recorded(a) /\ appeals[a].status = "none" /\ UNCHANGED appeals
          /\ Recorded(a)' /\ actions'[a].case = c
          /\ \A b \in Actions : b # a => actions'[b] = actions[b]
    BY <2>1, Decision
  <2>3. c \in Cases /\ cases[c].status = "under_review"
    BY <2>1, DecisionFields DEF IInv, DecideCase, MovesCase, ClaimedBy
  <2>4. cases'[c].status = "decided" /\ \A d \in Cases : d # c => cases'[d] = cases[d]
    BY <2>1, <2>3 DEF DecideCase, MovesCase, IInv, TypeOK
  <2>5. \A b \in Actions : Recorded(b) => actions[b].case # c
    BY <2>3 DEF IInv, OneDecisionPerCase
  <2>6. \A b \in Actions : b # a => (Recorded(b)' <=> Recorded(b))
    BY <2>2 DEF Recorded
  <2>7. \A d \in Cases : cases'[d].status = "decided" <=>
          \E b \in Actions : Recorded(b)' /\ actions'[b].case = d
    <3>. SUFFICES ASSUME NEW d \in Cases
                  PROVE  cases'[d].status = "decided" <=>
                           \E b \in Actions : Recorded(b)' /\ actions'[b].case = d
      OBVIOUS
    <3>1. CASE d = c
      BY <2>2, <2>4, <3>1
    <3>2. CASE d # c
      <4>1. cases[d].status = "decided" <=>
              \E b \in Actions : Recorded(b) /\ actions[b].case = d
        BY DEF IInv, OneDecisionPerCase
      <4>. QED BY <2>2, <2>4, <2>6, <3>2, <4>1
    <3>. QED BY <3>1, <3>2
  <2>8. \A b, d \in Actions :
          Recorded(b)' /\ Recorded(d)' /\ actions'[b].case = actions'[d].case => b = d
    <3>1. \A b, d \in Actions :
            Recorded(b) /\ Recorded(d) /\ actions[b].case = actions[d].case => b = d
      BY DEF IInv, OneDecisionPerCase
    <3>. QED BY <2>2, <2>5, <2>6, <3>1
  <2>9. \A b \in Actions : appeals'[b].status # "none" => Recorded(b)'
    <3>1. \A b \in Actions : appeals[b].status # "none" => Recorded(b)
      BY DEF IInv, OneDecisionPerCase
    <3>. QED BY <2>2, <2>6, <3>1
  <2>. QED BY <2>7, <2>8, <2>9 DEF OneDecisionPerCase
<1>2. CASE \E s \in Sessions : DecideAppeal(s)
  <2>1. PICK s \in Sessions : DecideAppeal(s)
    BY <1>2
  <2>. QED BY <2>1, Outcome DEF IInv, OneDecisionPerCase, Recorded
<1>3. CASE Quiet
  BY <1>3 DEF Quiet, IInv, OneDecisionPerCase, Recorded
<1>. QED BY <1>1, <1>2, <1>3, QuietSteps
-----------------------------------------------------------------------------
(***************************************************************************)
(* A sanction is put in place only where none stands (Before and Away are  *)
(* disjoint), and taken back only by the appeal of the one that stands --  *)
(* of targets no verification overwrote.                                   *)
(***************************************************************************)
LEMMA StandingIsAlone ==
  ASSUME IInv, NEW a \in Actions, NEW t \in Targets, targets[t].status \notin Away(t),
         Stands(a)
  PROVE  Target(a) # t \/ t \in overwritten
  BY DEF IInv, SanctionsMatchRecord

LEMMA SanctionsMatchKept ==
  ASSUME IInv, [Next]_vars
  PROVE  SanctionsMatchRecord'
<1>1. CASE \E s \in Sessions : DecideCase(s)
  <2>1. PICK s \in Sessions : DecideCase(s)
    BY <1>1
  <2>. DEFINE m == call[s].measure
              t == Subject[call[s].case]
  <2>2. PICK a \in Actions :
          /\ ~Recorded(a) /\ appeals[a].status = "none" /\ UNCHANGED appeals
          /\ Recorded(a)' /\ actions'[a].case = call[s].case /\ actions'[a].measure = m
          /\ \A b \in Actions : b # a => actions'[b] = actions[b]
    BY <2>1, Decision
  <2>3. t \in Targets /\ m \in Measures /\ Fits(m, t) /\ applySanctionEffect(m, t)
    BY <2>1, DecisionFields DEF DecideCase, IInv, MeasuresFit
  <2>0. UNCHANGED overwritten
    BY <2>1 DEF DecideCase, identityVars
  <2>4. \A b \in Actions : b # a => (Stands(b)' <=> Stands(b)) /\ Target(b)' = Target(b)
    BY <2>2 DEF Stands, Recorded, Target
  <2>5. ~Stands(a) /\ Target(a)' = t /\ (Stands(a)' <=> m \in Projecting)
    BY <2>2 DEF Stands, Target
  <2>6. CASE m \notin Projecting
    <3>1. UNCHANGED targets /\ \A b \in Actions : Stands(b)' <=> Stands(b)
      BY <2>3, <2>4, <2>5, <2>6 DEF applySanctionEffect
    <3>2. \A b \in Actions : Stands(b) => b # a
      BY <2>5
    <3>. QED BY <2>0, <2>4, <3>1, <3>2 DEF IInv, SanctionsMatchRecord
  <2>7. CASE m \in Projecting
    <3>1. targets[t].status \in Before(m) /\ targets' = [targets EXCEPT ![t].status = After(m)]
      BY <2>3, <2>7 DEF applySanctionEffect
    <3>2. targets'[t].status = After(m) /\ \A u \in Targets : u # t => targets'[u] = targets[u]
      BY <2>3, <3>1 DEF IInv, TypeOK, TargetRows
    <3>3. /\ After(m) \in Away(t) /\ targets[t].status \notin Away(t)
          /\ After(m) = "suspended" => t \in Profiles
          /\ After(m) = "removed" => t \in Arguments
      BY <2>3, <2>7, <3>1, ProjectingMeasures
    <3>4. \A b \in Actions : Stands(b) => b # a /\ (Target(b) # t \/ t \in overwritten)
      BY <2>3, <2>5, <3>3, StandingIsAlone
    <3>5. \A b \in Actions : Stands(b)' /\ Target(b)' \notin overwritten =>
            /\ targets'[Target(b)'].status \in Away(Target(b)')
            /\ \A d \in Actions : Stands(d)' /\ Target(d)' = Target(b)' => d = b
      <4>. SUFFICES ASSUME NEW b \in Actions, Stands(b)', Target(b)' \notin overwritten
                    PROVE  /\ targets'[Target(b)'].status \in Away(Target(b)')
                           /\ \A d \in Actions : Stands(d)' /\ Target(d)' = Target(b)' => d = b
        OBVIOUS
      <4>1. CASE b = a
        <5>1. \A d \in Actions : Stands(d)' /\ Target(d)' = t => d = a
          BY <2>4, <2>5, <3>4, <4>1
        <5>. QED BY <2>5, <3>2, <3>3, <4>1, <5>1
      <4>2. CASE b # a
        <5>1. Stands(b) /\ Target(b)' = Target(b) /\ Target(b) \notin overwritten
          BY <2>4, <4>2
        <5>2. Target(b) \in Targets /\ Target(b) # t
          BY <3>4, <5>1, ActionFields DEF IInv, Stands
        <5>3. /\ targets[Target(b)].status \in Away(Target(b))
              /\ \A d \in Actions : Stands(d) /\ Target(d) = Target(b) => d = b
          BY <5>1 DEF IInv, SanctionsMatchRecord
        <5>. QED BY <2>4, <2>5, <3>2, <5>1, <5>2, <5>3
      <4>. QED BY <4>1, <4>2
    <3>7. \A u \in Profiles : targets'[u].status = "suspended" =>
            \E b \in Actions : Stands(b)' /\ Target(b)' = u
      <4>. SUFFICES ASSUME NEW u \in Profiles, targets'[u].status = "suspended"
                    PROVE  \E b \in Actions : Stands(b)' /\ Target(b)' = u
        OBVIOUS
      <4>1. CASE u = t
        BY <2>5, <2>7, <4>1
      <4>2. CASE u # t
        <5>1. targets[u].status = "suspended"
          BY <3>2, <4>2 DEF Targets
        <5>2. PICK b \in Actions : Stands(b) /\ Target(b) = u
          BY <5>1 DEF IInv, SanctionsMatchRecord
        <5>. QED BY <2>4, <3>4, <5>2
      <4>. QED BY <4>1, <4>2
    <3>8. \A u \in Arguments : targets'[u].status = "removed" =>
            \E b \in Actions : Stands(b)' /\ Target(b)' = u
      <4>. SUFFICES ASSUME NEW u \in Arguments, targets'[u].status = "removed"
                    PROVE  \E b \in Actions : Stands(b)' /\ Target(b)' = u
        OBVIOUS
      <4>1. CASE u = t
        BY <2>5, <2>7, <4>1
      <4>2. CASE u # t
        <5>1. targets[u].status = "removed"
          BY <3>2, <4>2 DEF Targets
        <5>2. PICK b \in Actions : Stands(b) /\ Target(b) = u
          BY <5>1 DEF IInv, SanctionsMatchRecord
        <5>. QED BY <2>4, <3>4, <5>2
      <4>. QED BY <4>1, <4>2
    <3>. QED BY <2>0, <3>5, <3>7, <3>8 DEF SanctionsMatchRecord
  <2>. QED BY <2>6, <2>7
<1>2. CASE \E s \in Sessions : DecideAppeal(s)
  <2>1. PICK s \in Sessions : DecideAppeal(s)
    BY <1>2
  <2>2. PICK a \in Actions :
        /\ a = call[s].action
        /\ Recorded(a) /\ appeals[a].status = "under_review"
        /\ UNCHANGED actions /\ appeals'[a].status = call[s].outcome
        /\ \A b \in Actions : b # a => appeals'[b] = appeals[b]
        /\ call[s].outcome # "reversed" => UNCHANGED targets
        /\ call[s].outcome = "reversed" => applyAppealReversal(a)
        /\ UNCHANGED overwritten
    BY <2>1, Outcome
  <2>. DEFINE t == Target(a)
  <2>3. \A b \in Actions : b # a => (Stands(b)' <=> Stands(b))
    BY <2>2 DEF Stands, Recorded
  <2>4. \A b \in Actions : Target(b)' = Target(b)
    BY <2>2 DEF Target
  <2>5. CASE actions[a].measure \notin Projecting \/ call[s].outcome # "reversed"
    <3>1. UNCHANGED targets
      BY <2>2, <2>5 DEF applyAppealReversal
    <3>2. Stands(a)' <=> Stands(a)
      BY <2>2, <2>5 DEF Stands, Recorded
    <3>3. \A b \in Actions : Stands(b)' <=> Stands(b)
      BY <2>3, <3>2
    <3>. QED BY <2>2, <2>4, <3>1, <3>3 DEF IInv, SanctionsMatchRecord
  <2>6. CASE actions[a].measure \in Projecting /\ call[s].outcome = "reversed"
    <3>1. Stands(a) /\ ~Stands(a)' /\ t \in Targets
      BY <2>2, <2>6, ActionFields DEF Stands, IInv
    <3>2. targets' = [targets EXCEPT ![t] = RestoredTarget(a)]
      BY <2>2, <2>6 DEF applyAppealReversal
    <3>3. targets[t] \in TargetRows
      BY <3>1 DEF IInv, TypeOK
    <3>4. targets'[t].status \notin {"suspended", "removed"}
          /\ \A u \in Targets : u # t => targets'[u] = targets[u]
      BY <3>1, <3>2, <3>3, TargetTypes DEF IInv, TypeOK, RestoredTarget, TargetRows
    <3>5. \A b \in Actions : Stands(b)' =>
            b # a /\ Stands(b) /\ (Target(b) # t \/ t \in overwritten)
      BY <2>2, <2>3, <3>1 DEF IInv, SanctionsMatchRecord
    <3>6. \A b \in Actions : Stands(b)' /\ Target(b)' \notin overwritten =>
            /\ targets'[Target(b)'].status \in Away(Target(b)')
            /\ \A d \in Actions : Stands(d)' /\ Target(d)' = Target(b)' => d = b
      <4>. SUFFICES ASSUME NEW b \in Actions, Stands(b)', Target(b) \notin overwritten
                    PROVE  /\ targets'[Target(b)].status \in Away(Target(b))
                           /\ \A d \in Actions : Stands(d)' /\ Target(d) = Target(b) => d = b
        BY <2>4
      <4>1. Stands(b) /\ Target(b) # t /\ Target(b) \in Targets
        BY <3>5, ActionFields DEF Stands, IInv
      <4>2. /\ targets[Target(b)].status \in Away(Target(b))
            /\ \A d \in Actions : Stands(d) /\ Target(d) = Target(b) => d = b
        BY <4>1 DEF IInv, SanctionsMatchRecord
      <4>. QED BY <3>4, <3>5, <4>1, <4>2
    <3>8. \A u \in Targets : u # t =>
            ((\E b \in Actions : Stands(b) /\ Target(b) = u)
               => \E b \in Actions : Stands(b)' /\ Target(b)' = u)
      BY <2>3, <2>4
    <3>9. \A u \in Profiles : targets'[u].status = "suspended" =>
            \E b \in Actions : Stands(b)' /\ Target(b)' = u
      BY <3>4, <3>8 DEF IInv, SanctionsMatchRecord, Targets
    <3>10. \A u \in Arguments : targets'[u].status = "removed" =>
             \E b \in Actions : Stands(b)' /\ Target(b)' = u
      BY <3>4, <3>8 DEF IInv, SanctionsMatchRecord, Targets
    <3>. QED BY <2>2, <3>6, <3>9, <3>10 DEF SanctionsMatchRecord
  <2>. QED BY <2>5, <2>6
<1>3. ASSUME Quiet,
             \A t \in Targets :
               /\ t \notin overwritten' => t \notin overwritten
               /\ t \notin overwritten' /\ targets[t].status \in Away(t) =>
                    targets'[t].status \in Away(t)
               /\ t \in Profiles /\ targets'[t].status = "suspended" =>
                    targets[t].status = "suspended"
               /\ t \in Arguments /\ targets'[t].status = "removed" =>
                    targets[t].status = "removed"
      PROVE  SanctionsMatchRecord'
  <2>1. \A b \in Actions : (Stands(b)' <=> Stands(b)) /\ Target(b)' = Target(b)
    BY <1>3 DEF Quiet, Stands, Recorded, Target
  <2>2. \A b \in Actions : Stands(b) => Target(b) \in Targets
    BY ActionFields DEF Stands, IInv
  <2>3. \A b \in Actions : Stands(b)' /\ Target(b)' \notin overwritten' =>
          /\ targets'[Target(b)'].status \in Away(Target(b)')
          /\ \A d \in Actions : Stands(d)' /\ Target(d)' = Target(b)' => d = b
    BY <1>3, <2>1, <2>2 DEF IInv, SanctionsMatchRecord
  <2>. QED BY <1>3, <2>1, <2>3 DEF IInv, SanctionsMatchRecord, Targets
<1>4. CASE Quiet /\ UNCHANGED <<targets, overwritten>>
  BY <1>3, <1>4
<1>5. CASE Quiet /\ Meanwhile
  <2>1. ASSUME NEW t \in Targets, NEW row, targets' = [targets EXCEPT ![t] = row],
               targets[t].status \in Away(t) => row.status \in Away(t),
               t \in Profiles => row.status # "suspended",
               t \in Arguments => row.status # "removed"
        PROVE  SanctionsMatchRecord'
    <3>1. /\ targets'[t] = row /\ \A u \in Targets : u # t => targets'[u] = targets[u]
          /\ UNCHANGED overwritten
      BY <1>5, <2>1 DEF IInv, TypeOK, Meanwhile, identityVars
    <3>. QED BY <1>3, <1>5, <2>1, <3>1
  <2>2. ASSUME NEW t \in Arguments, WithdrawArgument(t)
        PROVE  SanctionsMatchRecord'
    <3>1. t \in Targets /\ t \notin Profiles /\ targets[t].status \notin Away(t)
      BY <2>2, ModerationAssumption DEF WithdrawArgument, Targets, Away
    <3>. QED BY <2>1, <2>2, <3>1 DEF WithdrawArgument
  <2>3. ASSUME NEW t \in Arenas \cup Profiles, NEW from, NEW to, Turns(t, from, to),
               to \in Away(t) \ {"suspended"}
        PROVE  SanctionsMatchRecord'
    <3>. DEFINE row == [targets[t] EXCEPT !.status = to]
    <3>1. t \in Targets /\ t \notin Arguments /\ targets[t] \in TargetRows
      BY ModerationAssumption DEF Targets, IInv, TypeOK
    <3>2. row.status = to /\ targets' = [targets EXCEPT ![t] = row]
      BY <2>3, <3>1 DEF Turns, TargetRows
    <3>. HIDE DEF row
    <3>. QED BY <2>1, <2>3, <3>1, <3>2
  <2>4. \A t \in Arenas : {"closed", "restricted", "removed"} = Away(t) \ {"suspended"}
    BY ModerationAssumption DEF Away
  <2>5. \A t \in Profiles : "deleted" \in Away(t) \ {"suspended"}
    BY DEF Away
  <2>6. ASSUME NEW x \in Credits, NEW from, NEW row, CreditTurns(x, from, row)
        PROVE  SanctionsMatchRecord'
    BY <1>4, <1>5, <2>6 DEF CreditTurns, Meanwhile, identityVars
  <2>7. CASE \E t \in Arenas : \/ Turns(t, {"published"}, "closed")
                               \/ Turns(t, {"published", "closed"}, "restricted")
                               \/ Turns(t, {"published", "closed", "restricted"}, "removed")
    <3>1. PICK t \in Arenas : \/ Turns(t, {"published"}, "closed")
                              \/ Turns(t, {"published", "closed"}, "restricted")
                              \/ Turns(t, {"published", "closed", "restricted"}, "removed")
      BY <2>7
    <3>2. /\ "closed" \in Away(t) \ {"suspended"} /\ "restricted" \in Away(t) \ {"suspended"}
          /\ "removed" \in Away(t) \ {"suspended"}
      BY <2>4
    <3>. QED BY <2>3, <3>1, <3>2
  <2>8. CASE \E t \in Profiles : Turns(t, {"active", "suspended"}, "deleted")
    BY <2>3, <2>5, <2>8
  <2>. QED BY <1>5, <2>2, <2>6, <2>7, <2>8 DEF Meanwhile
<1>6. ASSUME Quiet, NEW t \in Profiles, SetEmailVerified(t)
      PROVE  SanctionsMatchRecord'
  <2>1. t \in Targets /\ t \notin Arguments
    BY ModerationAssumption DEF Targets
  <2>2. targets'[t].status = "active" /\ \A u \in Targets : u # t => targets'[u] = targets[u]
    BY <1>6, <2>1 DEF SetEmailVerified, IInv, TypeOK
  <2>3. /\ overwritten \subseteq overwritten'
        /\ targets[t].status \in Away(t) => t \in overwritten'
    BY <1>6 DEF SetEmailVerified
  <2>. QED BY <1>3, <1>6, <2>1, <2>2, <2>3
<1>. QED BY <1>1, <1>2, <1>4, <1>5, <1>6, QuietSteps
-----------------------------------------------------------------------------
LEMMA InitInv ==
  ASSUME Init
  PROVE  IInv
<1>1. TypeOK
  BY ModerationAssumption
  DEF Init, TypeOK, CaseRows, AppealRows, TargetRows, CreditRows, TargetCheck, CreditCheck
<1>2. MeasuresFit /\ OneDecisionPerCase
  BY DEF Init, MeasuresFit, OneDecisionPerCase, Recorded
<1>3. SanctionsMatchRecord
  BY DEF Init, SanctionsMatchRecord, Stands, Recorded, Targets
<1>. QED BY <1>1, <1>2, <1>3 DEF IInv

LEMMA Invariance == Spec => []IInv
<1>1. Init => IInv
  BY InitInv
<1>2. IInv /\ [Next]_vars => IInv'
  BY TypeStep, MeasuresStayFit, OneDecisionKept, SanctionsMatchKept DEF IInv
<1>. QED BY <1>1, <1>2, PTL DEF Spec

(***************************************************************************)
(* Every stored row has its columns' types and satisfies the CHECKs, also  *)
(* where a decision or a reversal overwrites what its target was.          *)
(***************************************************************************)
THEOREM TypeCorrect == Spec => []TypeOK
<1>1. IInv => TypeOK
  BY DEF IInv
<1>. QED BY <1>1, Invariance, PTL

(***************************************************************************)
(* DecideCase records one action for a case and decides it, or neither,    *)
(* however many moderators claim, race, retry or give up.                  *)
(***************************************************************************)
THEOREM CasesAreDecidedOnce == Spec => []OneDecisionPerCase
<1>1. IInv => OneDecisionPerCase
  BY DEF IInv
<1>. QED BY <1>1, Invariance, PTL

(***************************************************************************)
(* applySanctionEffect and applyAppealReversal keep the target's row in    *)
(* step with the record, whatever the other modules do to it meanwhile: of *)
(* all their statements only SetEmailVerified can part the two, and only   *)
(* on an account it brings back from away.                                 *)
(***************************************************************************)
THEOREM SanctionsAreRecorded == Spec => []SanctionsMatchRecord
<1>1. IInv => SanctionsMatchRecord
  BY DEF IInv
<1>. QED BY <1>1, Invariance, PTL
-----------------------------------------------------------------------------
LEMMA CaseSteps ==
  ASSUME IInv, [Next]_vars, UNCHANGED cases => FALSE
  PROVE  \/ \E m \in Staff, c \in Cases : ClaimCase(m, c)
         \/ \E s \in Sessions : DecideCase(s)
<1>1. ASSUME NEW s \in Sessions, SessionStep(s), ~DecideCase(s)
      PROVE  FALSE
  BY <1>1 DEF SessionStep, AskDecision, LoadCase, RefuseDecision, AskReview, LoadAppeal,
              DecideAppeal, RefuseReview, Abort, recordVars
<1>2. ~\E a \in Actions : FileAppeal(a)
  BY DEF FileAppeal
<1>3. ~\E m \in Staff, a \in Actions : ClaimAppeal(m, a)
  BY DEF ClaimAppeal
<1>4. ~Meanwhile /\ ~Tick /\ ~UNCHANGED vars
  BY DEF Meanwhile, Tick, vars, recordVars
<1>5. ~\E t \in Profiles : ReadsPending(t) \/ SetEmailVerified(t)
  BY DEF ReadsPending, SetEmailVerified, recordVars
<1>. QED BY <1>1, <1>2, <1>3, <1>4, <1>5 DEF Next

(***************************************************************************)
(* The conditional UPDATEs of ClaimCase and DecideCase make the lease an   *)
(* exclusive right: nobody but its holder moves the case while it lives.   *)
(***************************************************************************)
THEOREM LeasesAreExclusive == Spec => ClaimsAreExclusive
<1>. DEFINE Exclusive ==
       \A c \in Cases :
         Live(c) /\ cases'[c] # cases[c] =>
           \E a \in Actions :
             /\ ~Recorded(a) /\ actions'[a] # NoAction
             /\ actions'[a].case = c /\ actions'[a].by = cases[c].by
<1>1. IInv /\ [Next]_vars => Exclusive
  <2>. SUFFICES ASSUME IInv, [Next]_vars, NEW c \in Cases, Live(c), cases'[c] # cases[c]
                PROVE  \E a \in Actions :
                         /\ ~Recorded(a) /\ actions'[a] # NoAction
                         /\ actions'[a].case = c /\ actions'[a].by = cases[c].by
    OBVIOUS
  <2>1. ASSUME NEW m \in Staff, NEW d \in Cases, ClaimCase(m, d)
        PROVE  FALSE
    <3>1. cases' = [cases EXCEPT ![d] = [status |-> "under_review", by |-> m,
                                         lease |-> now + ClaimLease]]
          /\ (cases[d].status = "open" \/ cases[d].lease <= now)
      BY <2>1 DEF ClaimCase
    <3>2. c = d
      BY <3>1 DEF IInv, TypeOK
    <3>3. cases[c].lease \in Nat /\ now \in Nat
      BY ModerationAssumption DEF IInv, TypeOK, CaseRows
    <3>. QED BY <3>1, <3>2, <3>3 DEF Live
  <2>2. ASSUME NEW s \in Sessions, DecideCase(s)
        PROVE  \E a \in Actions :
                 /\ ~Recorded(a) /\ actions'[a] # NoAction
                 /\ actions'[a].case = c /\ actions'[a].by = cases[c].by
    <3>1. MovesCase(call[s].by, call[s].case, call[s].at) /\ call[s].case \in Cases
      BY <2>2, DecisionFields DEF DecideCase, IInv
    <3>2. c = call[s].case
      BY <3>1 DEF MovesCase, IInv, TypeOK
    <3>3. cases[c].by = call[s].by
      BY <3>1, <3>2 DEF MovesCase, ClaimedBy
    <3>4. PICK a \in Actions : ~Recorded(a) /\ Recorded(a)' /\ actions'[a].case = call[s].case
                                 /\ actions'[a].by = call[s].by
      BY <2>2, Decision
    <3>. QED BY <3>2, <3>3, <3>4 DEF Recorded
  <2>. QED BY <2>1, <2>2, CaseSteps
<1>. QED BY <1>1, Invariance, PTL DEF Spec, ClaimsAreExclusive

(***************************************************************************)
(* DecideAppeal writes an outcome once, and with "reversed" the row that   *)
(* the sanction moved; no step rewrites an action.                         *)
(***************************************************************************)
THEOREM HistoryIsFinal == Spec => OutcomesAreFinal
<1>. DEFINE Final(a) ==
       /\ Recorded(a) => actions'[a] = actions[a]
       /\ appeals[a].status \in Outcomes => appeals'[a] = appeals[a]
       /\ appeals'[a].status = "reversed" /\ appeals[a].status # "reversed"
            /\ actions[a].measure \in Projecting
            => targets'[Target(a)].status = Restored(actions[a].measure)
<1>1. IInv /\ [Next]_vars => \A a \in Actions : Final(a)
  <2>. SUFFICES ASSUME IInv, [Next]_vars, NEW a \in Actions
                PROVE  Final(a)
    OBVIOUS
  <2>1. ASSUME NEW s \in Sessions, DecideCase(s)
        PROVE  Final(a)
    <3>1. PICK b \in Actions : ~Recorded(b) /\ UNCHANGED appeals
                                 /\ \A d \in Actions : d # b => actions'[d] = actions[d]
      BY <2>1, Decision
    <3>. QED BY <3>1
  <2>2. ASSUME NEW s \in Sessions, DecideAppeal(s)
        PROVE  Final(a)
    <3>1. PICK b \in Actions :
            /\ b = call[s].action /\ Recorded(b) /\ appeals[b].status = "under_review"
            /\ UNCHANGED actions /\ appeals'[b].status = call[s].outcome
            /\ \A d \in Actions : d # b => appeals'[d] = appeals[d]
            /\ call[s].outcome = "reversed" => applyAppealReversal(b)
      BY <2>2, Outcome
    <3>2. CASE a # b
      BY <3>1, <3>2
    <3>3. CASE a = b
      <4>1. appeals[a].status \notin Outcomes
        BY <3>1, <3>3 DEF Outcomes
      <4>2. ASSUME appeals'[a].status = "reversed", actions[a].measure \in Projecting
            PROVE  targets'[Target(a)].status = Restored(actions[a].measure)
        <5>1. targets' = [targets EXCEPT ![Target(a)] = RestoredTarget(a)]
          BY <3>1, <3>3, <4>2 DEF applyAppealReversal
        <5>2. Target(a) \in Targets
          BY <3>1, <3>3, ActionFields DEF IInv
        <5>3. targets[Target(a)] \in TargetRows
          BY <5>2 DEF IInv, TypeOK
        <5>4. targets'[Target(a)] = RestoredTarget(a)
          BY <5>1, <5>2 DEF IInv, TypeOK
        <5>. QED BY <5>3, <5>4 DEF RestoredTarget, TargetRows
      <4>. QED BY <3>1, <4>1, <4>2
    <3>. QED BY <3>2, <3>3
  <2>3. ASSUME ~\E s \in Sessions : DecideCase(s) \/ DecideAppeal(s)
        PROVE  Final(a)
    <3>1. Quiet
      BY <2>3, QuietSteps
    <3>2. appeals[a].status \in Outcomes => appeals'[a] = appeals[a]
      <4>1. ASSUME NEW s \in Sessions, SessionStep(s)
            PROVE  UNCHANGED appeals
        BY <2>3, <4>1 DEF SessionStep, AskDecision, LoadCase, RefuseDecision, AskReview,
                          LoadAppeal, RefuseReview, Abort, recordVars
      <4>2. ASSUME NEW b \in Actions, FileAppeal(b)
            PROVE  appeals[a].status \in Outcomes => appeals'[a] = appeals[a]
        BY <4>2 DEF FileAppeal, Outcomes, IInv, TypeOK
      <4>3. ASSUME NEW m \in Staff, NEW b \in Actions, ClaimAppeal(m, b)
            PROVE  appeals[a].status \in Outcomes => appeals'[a] = appeals[a]
        BY <4>3 DEF ClaimAppeal, Outcomes, IInv, TypeOK
      <4>4. ASSUME NEW m \in Staff, NEW c \in Cases, ClaimCase(m, c)
            PROVE  UNCHANGED appeals
        BY <4>4 DEF ClaimCase
      <4>5. CASE Meanwhile \/ Tick \/ UNCHANGED vars
        BY <4>5 DEF Meanwhile, Tick, vars, recordVars
      <4>6. ASSUME NEW t \in Profiles, ReadsPending(t) \/ SetEmailVerified(t)
            PROVE  UNCHANGED appeals
        BY <4>6 DEF ReadsPending, SetEmailVerified, recordVars
      <4>. QED BY <4>1, <4>2, <4>3, <4>4, <4>5, <4>6 DEF Next
    <3>. QED BY <3>1, <3>2 DEF Quiet
  <2>. QED BY <2>1, <2>2, <2>3
<1>. QED BY <1>1, Invariance, PTL DEF Spec, OutcomesAreFinal
=============================================================================
