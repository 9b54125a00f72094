--------------------------- MODULE NonDestructive ---------------------------
(***************************************************************************)
(* Open, copy and focus: actions/non_destructive.go over the desktop's     *)
(* helpers (adapter/system.go) and Herdr's focus (adapter/focus.go), with  *)
(* the service's lock that an action holds meanwhile.                      *)
(*                                                                         *)
(* The user moves the focus, panes move and close, and Herdr takes its     *)
(* time: a request whose caller gave up may still be carried out.  A       *)
(* clipboard helper may leave a process behind that keeps what it was      *)
(* given, the pipe of its output included.                                 *)
(***************************************************************************)
CONSTANTS
    Handlers,      \* connections, with one action each
    Panes,
    Places         \* where a pane can be: a workspace and a tab of it

VARIABLES
    focus,         \* the pane that has Herdr's focus
    home,          \* where each pane is
    atHerdr,       \* requests that Herdr has not dealt with
    pc,            \* where each action is
    app,           \* what the application shows: a place, perhaps a pane
    result,
    helper,        \* the process that was started for the action
    output,        \* the helper's output is still open
    deadline,      \* the deadline that the helper's context has
    writer,        \* a publication: none, or waiting for the lock
    met            \* history: the focus was where the action wants it

herdr == <<focus, home, atHerdr>>
action == <<pc, app, result>>
system == <<helper, output, deadline>>
vars == <<herdr, action, system, writer, met>>

-----------------------------------------------------------------------------
NoPane == "none"
Nowhere == [workspace |-> "none", tab |-> "none"]

(* An association that is high names a pane, the others do not count it.   *)
Associations == [place : Places, pane : Panes \cup {NoPane}]
NoApp == [place |-> Nowhere, pane |-> NoPane]

Asking == {"pane", "workspace", "tab", "verify"}
Busy == Asking \cup {"open", "copy", "copying"}
Steps == Busy \cup {"idle", "answered"}
Requests == Handlers \X Asking
Outcomes == {"none", "opened", "copied", "exact", "fallback", "unavailable"}
Processes == {"none", "running", "exited", "broke", "killed"}
Ended == {"exited", "broke", "killed"}

Readers == {h \in Handlers : pc[h] \in Busy}
Open == {p \in Panes : home[p] # Nowhere}

Init ==
    /\ home \in [Panes -> Places]
    /\ focus \in Panes
    /\ atHerdr = {}
    /\ pc = [h \in Handlers |-> "idle"]
    /\ app = [h \in Handlers |-> NoApp]
    /\ result = [h \in Handlers |-> "none"]
    /\ helper = [h \in Handlers |-> "none"]
    /\ output = [h \in Handlers |-> FALSE]
    /\ deadline = [h \in Handlers |-> "none"]
    /\ writer = "none"
    /\ met = [h \in Handlers |-> FALSE]

Goto(h, where) == pc' = [pc EXCEPT ![h] = where] /\ UNCHANGED result
Answer(h, outcome) ==
    /\ pc' = [pc EXCEPT ![h] = "answered"]
    /\ result' = [result EXCEPT ![h] = outcome]

(* To focus is to ask Herdr, over a connection of its own per request.     *)
Ask(h, what) ==
    /\ Goto(h, what)
    /\ atHerdr' = atHerdr \cup {<<h, what>>}

-----------------------------------------------------------------------------
(* The action gets the read lock and is validated.                         *)
Begin(h) == pc[h] = "idle" /\ writer = "none"

Admit(h) ==
    /\ Begin(h)
    /\ \/ \E step \in {"open", "copy"} : Goto(h, step)
       \/ Answer(h, "unavailable")
    /\ UNCHANGED <<herdr, app, system, writer>>

Focus(h, a) ==
    /\ Begin(h)
    /\ app' = [app EXCEPT ![h] = a]
    /\ Ask(h, IF a.pane # NoPane THEN "pane" ELSE "workspace")
    /\ UNCHANGED <<focus, home, system, writer>>

-----------------------------------------------------------------------------
(* FocusApplication, seen from the handler.                                *)

(* Mutant: the pane is verified, and not where it is.                      *)
MatchesPane(h, place, pane) ==
    IF app[h].pane # NoPane THEN pane = app[h].pane ELSE place = app[h].place

Matches(h, place, pane) ==
    /\ place = app[h].place
    /\ app[h].pane # NoPane => pane = app[h].pane

Verified(h) ==
    IF app[h].pane # NoPane THEN "exact" ELSE "fallback"

(* Mutant: the verification has no deadline.                               *)
GiveUpFocusing(h) ==
    /\ pc[h] \in Asking \ {"verify"}
    /\ Answer(h, "unavailable")
    /\ UNCHANGED <<herdr, app, system, writer>>

(* Mutant: the deadline of a focus request leads to the verification.      *)
GiveUpVerifying(h) ==
    /\ pc[h] \in Asking
    /\ IF pc[h] = "verify"
       THEN Answer(h, "unavailable") /\ UNCHANGED atHerdr
       ELSE Ask(h, "verify")
    /\ UNCHANGED <<focus, home, app, system, writer>>

(* The deadline: the connection is closed, what it carried is not undone.  *)
GiveUp(h) ==
    /\ pc[h] \in Asking
    /\ Answer(h, "unavailable")
    /\ UNCHANGED <<herdr, app, system, writer>>

-----------------------------------------------------------------------------
(* Herdr.                                                                  *)

(* The panes a request may give the focus to; none, and it is refused.     *)
Candidates(h, what) ==
    CASE what = "pane" -> Open \cap {app[h].pane}
      [] what = "workspace" ->
            {p \in Open : home[p].workspace = app[h].place.workspace}
      [] what = "tab" -> {p \in Open : home[p] = app[h].place}
      [] OTHER -> {focus}

Taken(h, what, then) == atHerdr' = (atHerdr \ {<<h, what>>}) \cup then

(* The answer goes to a caller that still waits for it.                    *)
Reply(h, what) ==
    \/ /\ pc[h] # what
       /\ UNCHANGED <<pc, result>>
       /\ Taken(h, what, {})
    \/ /\ pc[h] = what /\ what # "verify"
       /\ LET next == IF what = "workspace" THEN "tab" ELSE "verify" IN
          Goto(h, next) /\ Taken(h, what, {<<h, next>>})
    \/ /\ pc[h] = what /\ what = "verify"
       /\ Answer(h, IF Matches(h, home[focus], focus)
                    THEN Verified(h) ELSE "unavailable")
       /\ Taken(h, what, {})

CarryOut(h, what) ==
    /\ <<h, what>> \in atHerdr
    /\ focus' \in Candidates(h, what)
    /\ Reply(h, what)
    /\ UNCHANGED <<home, app, system, writer>>

(* Herdr refuses, or the connection breaks.                                *)
Refuse(h, what) ==
    /\ <<h, what>> \in atHerdr
    /\ Taken(h, what, {})
    /\ IF pc[h] = what THEN Answer(h, "unavailable")
       ELSE UNCHANGED <<pc, result>>
    /\ UNCHANGED <<focus, home, app, system, writer>>

(* The user.                                                               *)
MoveFocus(p) ==
    /\ p \in Open \ {focus}
    /\ focus' = p
    /\ UNCHANGED <<home, atHerdr, action, system, writer>>

MovePane(p, place) ==
    /\ p \in Open /\ home[p] # place
    /\ home' = [home EXCEPT ![p] = place]
    /\ UNCHANGED <<focus, atHerdr, action, system, writer>>

ClosePane(p) ==
    /\ p \in Open \ {focus}
    /\ home' = [home EXCEPT ![p] = Nowhere]
    /\ UNCHANGED <<focus, atHerdr, action, system, writer>>

-----------------------------------------------------------------------------
(* The desktop: Open and Copy with SystemRunner and SystemClipboard.       *)

(* A helper is started, with a deadline or for as long as it likes.        *)
Run(h, limit) ==
    /\ helper' = [helper EXCEPT ![h] = "running"]
    /\ output' = [output EXCEPT ![h] = TRUE]
    /\ deadline' = [deadline EXCEPT ![h] = limit]

(* No tool on this platform, not a local URL, or the start fails.          *)
Unavailable(h) == Answer(h, "unavailable") /\ UNCHANGED system

(* Mutant: the opener gets the context that ends with the action.          *)
OpenBounded(h) ==
    /\ pc[h] = "open"
    /\ Unavailable(h) \/ (Run(h, "armed") /\ Answer(h, "opened"))
    /\ UNCHANGED <<herdr, app, writer>>

(* The opener is started and left alone.                                   *)
OpenURL(h) ==
    /\ pc[h] = "open"
    /\ Unavailable(h) \/ (Run(h, "none") /\ Answer(h, "opened"))
    /\ UNCHANGED <<herdr, app, writer>>

CopyURL(h) ==
    /\ pc[h] = "copy"
    /\ Unavailable(h) \/ (Run(h, "armed") /\ Goto(h, "copying"))
    /\ UNCHANGED <<herdr, app, writer>>

(* Mutant: the deadline is not given to the helper's command.              *)
ExpireUnseen(h) ==
    /\ deadline[h] = "armed"
    /\ deadline' = [deadline EXCEPT ![h] = "over"]
    /\ UNCHANGED <<herdr, action, helper, output, writer>>

(* The helper is over; its output stays open in what it left behind.       *)
End(h, how) ==
    /\ helper' = [helper EXCEPT ![h] = how]
    /\ \E leaves \in BOOLEAN : output' = [output EXCEPT ![h] = leaves]

(* Two seconds.  Only the helper itself is killed.                         *)
Expire(h) ==
    /\ deadline[h] = "armed"
    /\ deadline' = [deadline EXCEPT ![h] = "over"]
    /\ IF helper[h] = "running" THEN End(h, "killed")
       ELSE UNCHANGED <<helper, output>>
    /\ UNCHANGED <<herdr, action, writer>>

(* Run returns when the helper ended and its output was read to the end.   *)
Copied(h) ==
    /\ pc[h] = "copying"
    /\ helper[h] \in Ended /\ ~output[h]
    /\ Answer(h, IF helper[h] = "exited" THEN "copied" ELSE "unavailable")
    /\ deadline' = [deadline EXCEPT ![h] = "none"]
    /\ UNCHANGED <<herdr, app, helper, output, writer>>

(* A helper ends, having done what it should or not.                       *)
HelperEnds(h) ==
    /\ helper[h] = "running"
    /\ End(h, "exited") \/ End(h, "broke")
    /\ UNCHANGED <<herdr, action, deadline, writer>>

(* What it left behind ends, when something else is copied for example.    *)
OutputEnds(h) ==
    /\ output[h] /\ helper[h] \in Ended
    /\ output' = [output EXCEPT ![h] = FALSE]
    /\ UNCHANGED <<herdr, action, helper, deadline, writer>>

-----------------------------------------------------------------------------
(* A publication waits for the actions, and later actions for it.          *)

RequestLock ==
    /\ writer = "none"
    /\ writer' = "waiting"
    /\ UNCHANGED <<herdr, action, system>>

Publish ==
    /\ writer = "waiting" /\ Readers = {}
    /\ writer' = "none"
    /\ UNCHANGED <<herdr, action, system>>

-----------------------------------------------------------------------------
(* History: since the action began, the focus was where it wants it.       *)
OnTarget(h) == home[focus] = app[h].place /\ app[h].pane \in {NoPane, focus}
Witness ==
    met' = [h \in Handlers |-> met[h] \/ (pc[h] \in Asking /\ OnTarget(h))]

Step ==
    \/ \E h \in Handlers :
          \/ Admit(h) \/ OpenURL(h) \/ CopyURL(h) \/ Copied(h) \/ GiveUp(h)
          \/ Expire(h) \/ HelperEnds(h) \/ OutputEnds(h)
          \/ \E a \in Associations : Focus(h, a)
    \/ \E h \in Handlers, what \in Asking : CarryOut(h, what) \/ Refuse(h, what)
    \/ \E p \in Panes : MoveFocus(p) \/ ClosePane(p)
    \/ \E p \in Panes, place \in Places : MovePane(p, place)
    \/ RequestLock \/ Publish

Next == Step /\ Witness

(* Time passes and runnable goroutines run.  Herdr owes no answer, and no  *)
(* helper has to end or to let go of its output.                           *)
Fairness ==
    /\ \A h \in Handlers :
          /\ WF_vars(GiveUp(h) /\ Witness) /\ WF_vars(Expire(h) /\ Witness)
          /\ WF_vars((OpenURL(h) \/ CopyURL(h) \/ Copied(h)) /\ Witness)
    /\ WF_vars(Publish /\ Witness)

Spec == Init /\ [][Next]_vars /\ Fairness

-----------------------------------------------------------------------------
(* Properties.                                                             *)

TypeOK ==
    /\ focus \in Panes /\ home \in [Panes -> Places \cup {Nowhere}]
    /\ atHerdr \subseteq Requests
    /\ pc \in [Handlers -> Steps] /\ result \in [Handlers -> Outcomes]
    /\ app \in [Handlers -> Associations \cup {NoApp}]
    /\ helper \in [Handlers -> Processes] /\ output \in [Handlers -> BOOLEAN]
    /\ deadline \in [Handlers -> {"none", "armed", "over"}]
    /\ writer \in {"none", "waiting"} /\ met \in [Handlers -> BOOLEAN]

(* "FocusApplication verifies the final observed focus" (non_destructive): *)
(* an action that reports a pane or a tab as focused has seen the focus    *)
(* there, in the workspace and tab that the application names.             *)
VerifiedFocusWasMet ==
    \A h \in Handlers : result[h] \in {"exact", "fallback"} => met[h]

(* Once a focus was reported, none of its requests is left at Herdr to     *)
(* move the focus later.                                                   *)
VerifiedLeavesNothing ==
    \A h \in Handlers, what \in Asking :
        result[h] \in {"exact", "fallback"} => <<h, what>> \notin atHerdr

(* "Do not let the action deadline terminate the desktop application"      *)
(* (system.go): what was opened is never killed.                           *)
OpenedSurvives ==
    \A h \in Handlers : result[h] = "opened" => helper[h] # "killed"

(* An action that focuses ends, though Herdr stays silent: it holds the    *)
(* service's lock meanwhile.                                               *)
FocusAnswers ==
    \A h \in Handlers : pc[h] \in Asking ~> pc[h] = "answered"

(* The process that was started to copy is gone, and its output is open.   *)
LeftBehind(h) == pc[h] = "copying" /\ helper[h] \in Ended /\ output[h]

(* A publication gets the lock, unless it waits for a copy whose helper    *)
(* left a process behind.                                                  *)
PublishesUnlessLeftBehind ==
    writer = "waiting" ~>
        writer = "none" \/ \E h \in Handlers : LeftBehind(h)

(* A copy ends with its deadline (TestSystemClipboardTimesOut).            *)
CopyIsBounded ==
    \A h \in Handlers : pc[h] = "copying" ~> pc[h] = "answered"
=============================================================================
