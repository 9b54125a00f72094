------------------------ MODULE NonDestructive_proofs ------------------------
(***************************************************************************)
(* Proofs about NonDestructive, for any number of actions, panes and       *)
(* places.                                                                 *)
(*                                                                         *)
(* An action has at most the request at Herdr that it waits for.  One that *)
(* gives up leaves it there, but then reports no focus; one that reports a *)
(* focus has had all its requests answered.                                *)
(***************************************************************************)
EXTENDS NonDestructive, TLAPS

Reported == {"exact", "fallback"}

(* What is true of one action.  Its request is at Herdr while it waits for *)
(* it, or when it gave up; a result ends it; what it opened has no bound.  *)
RequestsInv(h) ==
    \A what \in Asking :
        <<h, what>> \in atHerdr =>
            \/ pc[h] = what
            \/ pc[h] = "answered" /\ result[h] \notin Reported

ResultInv(h) ==
    /\ result[h] # "none" => pc[h] = "answered"
    /\ result[h] \in Reported => met[h]
    /\ result[h] = "opened" => helper[h] # "killed" /\ deadline[h] = "none"

ActionInv == \A h \in Handlers : RequestsInv(h) /\ ResultInv(h)

-----------------------------------------------------------------------------
(* Every step keeps the types.                                             *)
LEMMA TypingStep == TypeOK /\ [Next]_vars => TypeOK'
  <1> SUFFICES ASSUME TypeOK, [Next]_vars
               PROVE  TypeOK'
    OBVIOUS
  <1> USE DEF TypeOK, Goto, Answer
  <1>1. CASE UNCHANGED vars
    BY <1>1 DEF vars, herdr, action, system
  <1>2. CASE Next
    <2>1. met' \in [Handlers -> BOOLEAN]
      BY <1>2 DEF Next, Witness
    <2>2. Step
      BY <1>2 DEF Next
    <2>3. ASSUME NEW h \in Handlers, Admit(h) \/ GiveUp(h)
          PROVE  TypeOK'
      BY <2>1, <2>3 DEF Admit, GiveUp, Steps, Busy, Asking, Outcomes, herdr,
         system
    <2>4. ASSUME NEW h \in Handlers, NEW a \in Associations, Focus(h, a)
          PROVE  TypeOK'
      <3>1. PICK what \in Asking : Ask(h, what)
        BY <2>4 DEF Focus, Asking
      <3>2. app' \in [Handlers -> Associations \cup {NoApp}]
        BY <2>4 DEF Focus
      <3> QED
        BY <2>1, <2>4, <3>1, <3>2 DEF Focus, Ask, Steps, Busy, Requests,
           system
    <2>5. ASSUME NEW h \in Handlers, OpenURL(h) \/ CopyURL(h) \/ Copied(h)
          PROVE  TypeOK'
      BY <2>1, <2>5 DEF OpenURL, CopyURL, Copied, Unavailable, Run, Steps,
         Busy, Outcomes, Processes, herdr, system
    <2>6. ASSUME NEW h \in Handlers, Expire(h) \/ HelperEnds(h) \/ OutputEnds(h)
          PROVE  TypeOK'
      BY <2>1, <2>6 DEF Expire, HelperEnds, OutputEnds, End, Processes,
         herdr, action
    <2>7. ASSUME NEW h \in Handlers, NEW what \in Asking,
                 CarryOut(h, what) \/ Refuse(h, what)
          PROVE  TypeOK'
      <3>1. (focus \in Panes)'
        BY <2>7 DEF CarryOut, Refuse, Candidates, Open
      <3>2. (atHerdr \subseteq Requests)'
        BY <2>7 DEF CarryOut, Refuse, Reply, Taken, Requests, Asking
      <3>3. (pc \in [Handlers -> Steps])'
            /\ (result \in [Handlers -> Outcomes])'
        BY <2>7 DEF CarryOut, Refuse, Reply, Verified, Steps, Busy, Asking,
           Outcomes
      <3> QED
        BY <2>1, <2>7, <3>1, <3>2, <3>3 DEF CarryOut, Refuse, system
    <2>8. ASSUME NEW p \in Panes,
                 \/ MoveFocus(p) \/ ClosePane(p)
                 \/ \E place \in Places : MovePane(p, place)
          PROVE  TypeOK'
      BY <2>1, <2>8 DEF MoveFocus, ClosePane, MovePane, action, system
    <2>9. CASE RequestLock \/ Publish
      BY <2>1, <2>9 DEF RequestLock, Publish, herdr, action, system
    <2> QED
      BY <2>2, <2>3, <2>4, <2>5, <2>6, <2>7, <2>8, <2>9 DEF Step
  <1> QED
    BY <1>1, <1>2

-----------------------------------------------------------------------------
(* An action that a step does not touch, but for what Herdr takes of its.  *)
Untouched(h) ==
    /\ UNCHANGED <<pc[h], result[h], helper[h], deadline[h]>>
    /\ \A what \in Asking : <<h, what>> \in atHerdr' => <<h, what>> \in atHerdr
    /\ met[h] => met'[h]

LEMMA UntouchedKeeps ==
    ASSUME NEW h \in Handlers, RequestsInv(h), ResultInv(h), Untouched(h)
    PROVE  RequestsInv(h)' /\ ResultInv(h)'
  BY DEF Untouched, RequestsInv, ResultInv

LEMMA MetStays ==
    ASSUME TypeOK, Witness
    PROVE  \A h \in Handlers :
             met'[h] = (met[h] \/ (pc[h] \in Asking /\ OnTarget(h)))
  BY DEF TypeOK, Witness

(* What an action does for itself.                                         *)
LEMMA OwnStep ==
    ASSUME TypeOK, ActionInv, Witness, NEW h \in Handlers,
           \/ Admit(h) \/ GiveUp(h) \/ OpenURL(h) \/ CopyURL(h) \/ Copied(h)
           \/ \E a \in Associations : Focus(h, a)
    PROVE  ActionInv'
  <1> USE DEF TypeOK, Goto, Answer, Asking, Reported
  <1>1. \A x \in Handlers : met[x] => met'[x]
    BY MetStays
  <1>2. ASSUME NEW x \in Handlers, x # h
        PROVE  Untouched(x)
    BY <1>1, <1>2 DEF Untouched, Admit, GiveUp, OpenURL, CopyURL, Copied,
       Focus, Ask, Unavailable, Run, herdr, system
  <1>3. RequestsInv(h)' /\ ResultInv(h)'
    <2> USE DEF ActionInv, RequestsInv, ResultInv
    <2>1. CASE Admit(h) \/ GiveUp(h)
      BY <2>1 DEF Admit, Begin, GiveUp, herdr, system
    <2>2. CASE OpenURL(h)
      BY <2>2 DEF OpenURL, Unavailable, Run, herdr, system
    <2>3. CASE CopyURL(h) \/ Copied(h)
      BY <2>3 DEF CopyURL, Copied, Unavailable, Run, herdr, system
    <2>4. ASSUME NEW a \in Associations, Focus(h, a)
          PROVE  RequestsInv(h)' /\ ResultInv(h)'
      BY <2>4 DEF Focus, Begin, Ask, system
    <2> QED
      BY <2>1, <2>2, <2>3, <2>4
  <1> QED
    BY <1>2, <1>3, UntouchedKeeps DEF ActionInv

(* What becomes of the processes it started.                               *)
LEMMA HelperStep ==
    ASSUME TypeOK, ActionInv, Witness, NEW h \in Handlers,
           Expire(h) \/ HelperEnds(h) \/ OutputEnds(h)
    PROVE  ActionInv'
  <1>1. \A x \in Handlers : met[x] => met'[x]
    BY MetStays
  <1>2. ASSUME NEW x \in Handlers, x # h
        PROVE  Untouched(x)
    BY <1>1, <1>2 DEF TypeOK, Untouched, Expire, HelperEnds, OutputEnds, End,
       herdr, action
  <1>3. RequestsInv(h)' /\ ResultInv(h)'
    BY <1>1 DEF TypeOK, ActionInv, RequestsInv, ResultInv, Expire,
       HelperEnds, OutputEnds, End, herdr, action
  <1> QED
    BY <1>2, <1>3, UntouchedKeeps DEF ActionInv

(* Herdr deals with a request: of an action that waits for it, or of one   *)
(* that is over.                                                           *)
LEMMA ReplyStep ==
    ASSUME TypeOK, ActionInv, Witness, NEW h \in Handlers, NEW what \in Asking,
           CarryOut(h, what) \/ Refuse(h, what)
    PROVE  ActionInv'
  <1>1. \A x \in Handlers : met[x] => met'[x]
    BY MetStays
  <1>2. ASSUME NEW x \in Handlers, x # h
        PROVE  Untouched(x)
    BY <1>1, <1>2 DEF TypeOK, Untouched, CarryOut, Refuse, Reply, Taken,
       Goto, Answer, system
  <1>3. RequestsInv(h)' /\ ResultInv(h)'
    <2> USE DEF TypeOK, ActionInv, RequestsInv, ResultInv
    <2>1. /\ UNCHANGED <<helper, deadline>>
          /\ result[h] # "none" => pc[h] # what
          /\ pc[h] \in Asking => result[h] = "none"
      BY DEF CarryOut, Refuse, system, Asking
    <2>2. CASE pc[h] # what
      <3>1. UNCHANGED <<pc, result>> /\ Taken(h, what, {})
        BY <2>2 DEF CarryOut, Refuse, Reply
      <3> QED
        BY <1>1, <2>1, <3>1 DEF Taken
    <2>3. CASE Refuse(h, what) /\ pc[h] = what
      <3>1. Answer(h, "unavailable") /\ Taken(h, what, {})
        BY <2>3 DEF Refuse
      <3> QED
        BY <1>1, <2>1, <3>1 DEF Answer, Taken, Reported
    <2>4. CASE CarryOut(h, what) /\ pc[h] = what /\ what # "verify"
      <3>1. PICK next \in Asking :
               Goto(h, next) /\ Taken(h, what, {<<h, next>>})
        BY <2>4 DEF CarryOut, Reply, Asking
      <3>2. pc'[h] = next /\ result' = result /\ result[h] = "none"
        BY <2>1, <2>4, <3>1 DEF Goto
      <3>3. \A other \in Asking : <<h, other>> \in atHerdr' => other = next
        BY <2>1, <2>4, <3>1, <3>2 DEF Taken, Asking
      <3> QED
        BY <2>1, <3>2, <3>3 DEF Reported
    <2>5. CASE CarryOut(h, what) /\ pc[h] = what /\ what = "verify"
      <3>1. /\ \/ Answer(h, "unavailable")
               \/ Answer(h, Verified(h)) /\ Matches(h, home[focus], focus)
            /\ Taken(h, what, {})
        BY <2>5 DEF CarryOut, Reply
      <3>2. Verified(h) \in Reported
        BY DEF Verified, Reported
      <3>3. Matches(h, home[focus], focus) => met'[h]
        BY <2>5, MetStays DEF Matches, OnTarget, Asking
      <3>4. \A other \in Asking : <<h, other>> \notin atHerdr'
        BY <2>5, <3>1 DEF Taken, Reported
      <3> QED
        BY <2>1, <3>1, <3>2, <3>3, <3>4 DEF Answer, Reported
    <2> QED
      BY <2>2, <2>3, <2>4, <2>5
  <1> QED
    BY <1>2, <1>3, UntouchedKeeps DEF ActionInv

LEMMA ActionInvStep == TypeOK /\ ActionInv /\ [Next]_vars => ActionInv'
  <1> SUFFICES ASSUME TypeOK, ActionInv, [Next]_vars
               PROVE  ActionInv'
    OBVIOUS
  <1>1. CASE UNCHANGED vars
    BY <1>1 DEF vars, herdr, action, system, ActionInv, RequestsInv, ResultInv
  <1>2. CASE Next
    <2>1. Step /\ Witness
      BY <1>2 DEF Next
    <2>2. CASE UNCHANGED <<atHerdr, action, system>>
      <3>1. \A h \in Handlers : Untouched(h)
        BY <2>1, <2>2, MetStays DEF Untouched, action, system
      <3> QED
        BY <3>1, UntouchedKeeps DEF ActionInv
    <2> QED
      BY <2>1, <2>2, OwnStep, HelperStep, ReplyStep DEF Step, MoveFocus,
         ClosePane, MovePane, RequestLock, Publish, herdr
  <1> QED
    BY <1>1, <1>2

LEMMA ActionInvHolds == Spec => [](TypeOK /\ ActionInv)
  <1>1. Init => TypeOK /\ ActionInv
    BY DEF Init, TypeOK, ActionInv, RequestsInv, ResultInv, Steps, Outcomes,
       Processes, Reported
  <1> QED
    BY <1>1, TypingStep, ActionInvStep, PTL DEF Spec

-----------------------------------------------------------------------------
(* The variables keep their types (TypeOK).                                *)
THEOREM ActionTyping == Spec => []TypeOK
  BY ActionInvHolds, PTL

(* Whoever reports a focus has seen it where the application is            *)
(* (VerifiedFocusWasMet), whatever the user and other actions do to the    *)
(* focus and the panes meanwhile.                                          *)
THEOREM ReportedFocusWasMet == Spec => []VerifiedFocusWasMet
  <1>1. ActionInv => VerifiedFocusWasMet
    BY DEF ActionInv, ResultInv, VerifiedFocusWasMet, Reported
  <1> QED
    BY <1>1, ActionInvHolds, PTL

(* None of its requests is then left to move the focus later               *)
(* (VerifiedLeavesNothing).                                                *)
THEOREM ReportedLeavesNothing == Spec => []VerifiedLeavesNothing
  <1>1. ActionInv => VerifiedLeavesNothing
    BY DEF ActionInv, RequestsInv, ResultInv, VerifiedLeavesNothing,
       Reported, Asking
  <1> QED
    BY <1>1, ActionInvHolds, PTL

(* No deadline ends the application that was opened (OpenedSurvives).      *)
THEOREM OpenedIsNotKilled == Spec => []OpenedSurvives
  <1>1. ActionInv => OpenedSurvives
    BY DEF ActionInv, ResultInv, OpenedSurvives
  <1> QED
    BY <1>1, ActionInvHolds, PTL
=============================================================================
