-------------------------------- MODULE Popup --------------------------------
(***************************************************************************)
(* The popup: internal/ui/ui.go and ExecuteAction and List of              *)
(* internal/cli/cli.go, against a daemon of which only its snapshot is     *)
(* kept.                                                                   *)
(*                                                                         *)
(* Update handles one message at a time; the commands it returns (the      *)
(* tick, the refresh, the actions) run in goroutines of their own and      *)
(* their messages arrive in any order, between any two keys.               *)
(***************************************************************************)
EXTENDS Naturals, Sequences, FiniteSetsExt

CONSTANTS
    Ids, Groups,  \* of applications, and of the process groups they run in
    Lists,        \* the lists of applications the daemon may publish
    Slots,        \* bound: actions under way at the same time
    MaxRev,       \* bound: revisions of one daemon
    MaxRestarts   \* bound: daemons that replace another one

Apps == [id : Ids, group : Groups, external : BOOLEAN]

ASSUME ListsAssumption == <<>> \in Lists /\ Lists \subseteq Seq(Apps)
ASSUME BoundsAssumption == MaxRev \in Nat /\ MaxRestarts \in Nat

VARIABLES
    daemon,    \* the snapshot of the daemon that answers
    restarts,  \* daemons started after the first one
    snapshot,  \* Model.snapshot
    cursor,    \* Model.cursor
    refreshing,\* Model.refreshing
    ticks,     \* ticks scheduled
    asking,    \* refreshes the daemon has not answered yet
    replies,   \* refresh messages under way
    pending,   \* Model.pending
    eligible,  \* Model.forceEligible
    flights,   \* actions under way and their messages
    quit,      \* the program has ended
    lastKey    \* history: the target of the last key that did something

server == <<daemon, restarts>>
cycle == <<refreshing, ticks, asking, replies>>
vars == <<daemon, restarts, snapshot, cursor, refreshing, ticks, asking,
          replies, pending, eligible, flights, quit, lastKey>>

-----------------------------------------------------------------------------
Nothing == [key |-> "none"]
Failure == [rev |-> 0, apps |-> <<>>, outcome |-> "error"]
Free == [stage |-> "free"]

Snapshots == [rev : 0 .. MaxRev, apps : Lists]
Targets == [key : {"t", "K", "open", "focus"}, app : Apps, rev : 0 .. MaxRev,
            confirmed : BOOLEAN]
Outcomes == {"error", "done", "eligible", "focused"}
Replies == [rev : 0 .. MaxRev, apps : Lists, outcome : Outcomes]
Flights == {Free} \cup [stage : {"sent"}, target : Targets]
    \cup [stage : {"done"}, target : Targets, outcome : Outcomes]
    \cup [stage : {"back"}, target : Targets, reply : Replies]

Reply(outcome) ==
    [rev |-> daemon.rev, apps |-> daemon.apps, outcome |-> outcome]

(* External applications are not shown.                                    *)
ShownRows(list) == {i \in DOMAIN list : ~list[i].external}
UpTo(rows, i) == {j \in rows : j <= i}
Visible ==
    [list \in Lists |->
        LET rows == ShownRows(list)
        IN  [n \in 1 .. Cardinality(rows) |->
                list[CHOOSE i \in rows : Cardinality(UpTo(rows, i)) = n]]]
Shown == Visible[snapshot.apps]

Init ==
    /\ daemon = [rev |-> 0, apps |-> <<>>]
    /\ restarts = 0
    /\ snapshot = daemon
    /\ cursor = 0
    /\ refreshing = FALSE /\ ticks = 1 /\ asking = 0 /\ replies = <<>>
    /\ pending = Nothing
    /\ eligible = Nothing
    /\ flights = [s \in Slots |-> Free]
    /\ quit = FALSE
    /\ lastKey = Nothing

-----------------------------------------------------------------------------
(* The daemon.                                                             *)

Publish ==
    /\ daemon.rev < MaxRev
    /\ \E list \in Lists \ {daemon.apps} :
         daemon' = [rev |-> daemon.rev + 1, apps |-> list]
    /\ UNCHANGED <<restarts, snapshot, cursor, cycle, pending, eligible,
                   flights, quit, lastKey>>

(* A daemon that replaces another one begins with revision 0.              *)
Restart ==
    /\ restarts < MaxRestarts
    /\ restarts' = restarts + 1
    /\ daemon' = [rev |-> 0, apps |-> <<>>]
    /\ UNCHANGED <<snapshot, cursor, cycle, pending, eligible, flights, quit,
                   lastKey>>

-----------------------------------------------------------------------------
(* Pieces of Update.                                                       *)

SameApp(a, b) == a.id = b.id /\ a.group = b.group

(* Mutant: a confirmation outlives the revision it was asked at.           *)
SameTargetOfAnyRevision(t, u) ==
    t.key = u.key /\ t.confirmed = u.confirmed /\ SameApp(t.app, u.app)

SameTarget(t, u) ==
    /\ t.key = u.key /\ t.rev = u.rev /\ t.confirmed = u.confirmed
    /\ SameApp(t.app, u.app)

Contains(list, t) == \E i \in DOMAIN list : SameApp(list[i], t.app)

HasSelection == cursor < Len(Shown)
Target(key, confirmed) ==
    [key |-> key, app |-> Shown[cursor + 1], rev |-> snapshot.rev,
     confirmed |-> confirmed]

RowsOfSelected(list) ==
    {i \in DOMAIN list : HasSelection /\ list[i].id = Shown[cursor + 1].id}
LastRow(list) == IF list = <<>> THEN 0 ELSE Len(list) - 1

(* Mutants: the cursor stays where it is when its application is gone; it  *)
(* keeps its row, whatever is in it.                                       *)
CursorUnclamped(list) ==
    IF RowsOfSelected(list) # {} THEN Min(RowsOfSelected(list)) - 1 ELSE cursor
CursorKeepsRow(list) == Min({cursor, LastRow(list)})

(* The cursor stays with its application, and else near its row.           *)
CursorAfter(list) ==
    IF RowsOfSelected(list) # {} THEN Min(RowsOfSelected(list)) - 1
    ELSE Min({cursor, LastRow(list)})

(* A snapshot with a lower revision than the one shown is obsolete.        *)
Current(reply) == reply.rev >= snapshot.rev

ReplaceSnapshot(reply) ==
    /\ snapshot' = [rev |-> reply.rev, apps |-> reply.apps]
    /\ cursor' = CursorAfter(Visible[reply.apps])

InvalidateDestructiveState(reply) ==
    /\ pending' = IF pending # Nothing /\ (pending.rev # reply.rev
                                       \/ ~Contains(reply.apps, pending))
                  THEN Nothing ELSE pending
    /\ eligible' = IF eligible # Nothing /\ ~Contains(reply.apps, eligible)
                   THEN Nothing ELSE eligible

(* The action runs in the background with the target selected now.         *)
Dispatch(key, confirmed) ==
    \E s \in Slots :
        /\ flights[s] = Free
        /\ flights' = [flights EXCEPT ![s] =
                         [stage |-> "sent", target |-> Target(key, confirmed)]]

-----------------------------------------------------------------------------
(* The refresh.                                                            *)

(* Mutant: the tick schedules the next one as well.                        *)
TickReschedules ==
    /\ ~quit /\ ticks > 0
    /\ IF refreshing THEN UNCHANGED <<refreshing, asking>>
       ELSE refreshing' = TRUE /\ asking' = asking + 1
    /\ UNCHANGED <<server, snapshot, cursor, ticks, replies, pending, eligible,
                   flights, quit, lastKey>>

Tick ==
    /\ ~quit /\ ticks > 0
    /\ ticks' = ticks - 1
    /\ IF refreshing THEN UNCHANGED <<refreshing, asking>>
       ELSE refreshing' = TRUE /\ asking' = asking + 1
    /\ UNCHANGED <<server, snapshot, cursor, replies, pending, eligible,
                   flights, quit, lastKey>>

Answer(reply) ==
    /\ asking > 0
    /\ asking' = asking - 1
    /\ replies' = Append(replies, reply)
    /\ UNCHANGED <<server, snapshot, cursor, refreshing, ticks, pending,
                   eligible, flights, quit, lastKey>>

Fetch == Answer(Reply("done"))
FetchFails == Answer(Failure)

(* Mutant: a refresh that failed schedules no other one.                   *)
ReceiveRefreshOnce ==
    /\ ~quit /\ replies # <<>>
    /\ LET reply == Head(replies)
       IN  IF reply.outcome # "error" /\ Current(reply)
           THEN /\ ReplaceSnapshot(reply)
                /\ InvalidateDestructiveState(reply)
                /\ ticks' = ticks + 1
           ELSE UNCHANGED <<snapshot, cursor, pending, eligible, ticks>>
    /\ replies' = Tail(replies)
    /\ refreshing' = FALSE
    /\ UNCHANGED <<server, asking, flights, quit, lastKey>>

ReceiveRefresh ==
    /\ ~quit /\ replies # <<>>
    /\ LET reply == Head(replies)
       IN  IF reply.outcome # "error" /\ Current(reply)
           THEN ReplaceSnapshot(reply) /\ InvalidateDestructiveState(reply)
           ELSE UNCHANGED <<snapshot, cursor, pending, eligible>>
    /\ replies' = Tail(replies)
    /\ refreshing' = FALSE
    /\ ticks' = ticks + 1
    /\ UNCHANGED <<server, asking, flights, quit, lastKey>>

-----------------------------------------------------------------------------
(* Actions: the daemon accepts those that name an application of its       *)
(* current revision; ExecuteAction then fetches its list.                  *)

OutcomesOf(t) ==
    IF t.rev # daemon.rev \/ ~Contains(daemon.apps, t) THEN {}
    ELSE CASE t.key = "t" -> IF t.confirmed THEN {"done", "eligible"} ELSE {}
           [] t.key = "K" -> IF t.confirmed THEN {"done"} ELSE {}
           [] t.key = "focus" -> {"done", "focused"}
           [] OTHER -> {"done"}

Perform(s) ==
    /\ flights[s].stage = "sent"
    /\ \E outcome \in OutcomesOf(flights[s].target) :
         flights' = [flights EXCEPT ![s] =
            [stage |-> "done", target |-> @.target, outcome |-> outcome]]
    /\ UNCHANGED <<server, snapshot, cursor, cycle, pending, eligible, quit,
                   lastKey>>

Fetched(s) ==
    /\ flights[s].stage = "done"
    /\ flights' = [flights EXCEPT ![s] =
         [stage |-> "back", target |-> @.target, reply |-> Reply(@.outcome)]]
    /\ UNCHANGED <<server, snapshot, cursor, cycle, pending, eligible, quit,
                   lastKey>>

(* A refusal, a lost connection, or a list that fails after the action.    *)
PerformFails(s) ==
    /\ flights[s].stage \in {"sent", "done"}
    /\ flights' = [flights EXCEPT ![s] =
         [stage |-> "back", target |-> @.target, reply |-> Failure]]
    /\ UNCHANGED <<server, snapshot, cursor, cycle, pending, eligible, quit,
                   lastKey>>

(* An answer replaces the snapshot without a look at the confirmation that *)
(* is pending.                                                             *)
ReceiveAction(s) ==
    /\ ~quit /\ flights[s].stage = "back"
    /\ LET t == flights[s].target
           reply == flights[s].reply
           after == IF Current(reply) THEN reply.apps ELSE snapshot.apps
       IN  IF reply.outcome = "error"
           THEN /\ eligible' = IF t.key \in {"t", "K"} THEN Nothing
                               ELSE eligible
                /\ UNCHANGED <<snapshot, cursor, quit>>
           ELSE /\ IF Current(reply) THEN ReplaceSnapshot(reply)
                   ELSE UNCHANGED <<snapshot, cursor>>
                /\ eligible' =
                     IF t.key \notin {"t", "K"} THEN eligible
                     ELSE IF reply.outcome = "eligible" /\ Contains(after, t)
                          THEN t ELSE Nothing
                /\ quit' = (reply.outcome = "focused")
    /\ flights' = [flights EXCEPT ![s] = Free]
    /\ UNCHANGED <<server, cycle, pending, lastKey>>

-----------------------------------------------------------------------------
(* Keys.                                                                   *)

Move ==
    /\ ~quit
    /\ cursor' \in {cursor + 1, cursor - 1} \cap 0 .. Len(Shown) - 1
    /\ pending' = Nothing
    /\ lastKey' = Nothing
    /\ UNCHANGED <<server, snapshot, cycle, eligible, flights, quit>>

Press(key) ==
    /\ lastKey' = Target(key, FALSE)
    /\ UNCHANGED <<server, snapshot, cursor, cycle, eligible, quit>>

Confirming(key) == pending # Nothing /\ SameTarget(pending, Target(key, FALSE))

Terminate ==
    /\ ~quit /\ HasSelection
    /\ IF Confirming("t") THEN pending' = Nothing /\ Dispatch("t", TRUE)
       ELSE pending' = Target("t", FALSE) /\ UNCHANGED flights
    /\ Press("t")

Kill ==
    /\ ~quit /\ HasSelection
    /\ IF eligible = Nothing \/ ~SameApp(eligible.app, Shown[cursor + 1])
       THEN pending' = Nothing /\ UNCHANGED flights
       ELSE IF Confirming("K") THEN pending' = Nothing /\ Dispatch("K", TRUE)
            ELSE pending' = Target("K", FALSE) /\ UNCHANGED flights
    /\ Press("K")

Navigate ==
    /\ ~quit
    /\ pending' = Nothing
    /\ IF HasSelection THEN \E key \in {"open", "focus"} : Dispatch(key, FALSE)
       ELSE UNCHANGED flights
    /\ lastKey' = Nothing
    /\ UNCHANGED <<server, snapshot, cursor, cycle, eligible, quit>>

(* Esc takes a confirmation back first, q ends the program at once.        *)
Escape ==
    /\ ~quit
    /\ \/ pending # Nothing /\ pending' = Nothing /\ UNCHANGED quit
       \/ quit' = TRUE /\ UNCHANGED pending
    /\ lastKey' = Nothing
    /\ UNCHANGED <<server, snapshot, cursor, cycle, eligible, flights>>

-----------------------------------------------------------------------------
Keys == Move \/ Terminate \/ Kill \/ Navigate \/ Escape
Refresh == Tick \/ Fetch \/ FetchFails \/ ReceiveRefresh

Flight(s) ==
    Perform(s) \/ Fetched(s) \/ PerformFails(s) \/ ReceiveAction(s)

Next ==
    \/ Publish \/ Restart \/ Refresh \/ Keys
    \/ \E s \in Slots : Flight(s)

(* Messages are delivered and the daemon does not time out for ever.       *)
Fairness ==
    /\ WF_vars(Tick) /\ WF_vars(ReceiveRefresh)
    /\ SF_vars(Fetch)
    /\ \A s \in Slots : WF_vars(Flight(s))

Spec == Init /\ [][Next]_vars /\ Fairness

-----------------------------------------------------------------------------
(* Properties.                                                             *)

TypeOK ==
    /\ daemon \in Snapshots /\ snapshot \in Snapshots
    /\ restarts \in 0 .. MaxRestarts
    /\ cursor \in Nat
    /\ refreshing \in BOOLEAN /\ quit \in BOOLEAN
    /\ ticks \in Nat /\ asking \in Nat /\ replies \in Seq(Replies)
    /\ pending \in Targets \cup {Nothing}
    /\ eligible \in Targets \cup {Nothing}
    /\ lastKey \in Targets \cup {Nothing}
    /\ flights \in [Slots -> Flights]

(* A row is selected whenever there is one to select, in whatever order    *)
(* snapshots replaced each other: the detail view reads the selected row   *)
(* without a check of its own.                                             *)
SelectionExists == Shown # <<>> => HasSelection

(* "bounded, non-overlapping snapshot refreshes" (ui.go), one after the    *)
(* other for ever: there is always one tick or one refresh under way.      *)
OneRefreshChain ==
    /\ ticks + asking + Len(replies) = 1
    /\ refreshing <=> ticks = 0

(* A TERM or KILL is sent only by the second of two presses of the same    *)
(* key on the same application at the same revision, with no other key     *)
(* that did something in between, whatever arrived in between.             *)
ConfirmedByTwoPresses ==
    [][\A s \in Slots :
        flights[s] = Free /\ flights'[s] # Free /\ flights'[s].target.confirmed
            => /\ lastKey # Nothing
               /\ lastKey = [flights'[s].target EXCEPT !.confirmed = FALSE]
               /\ lastKey' = lastKey]_vars

(* Only keys move the selection away from an application that is shown.    *)
SelectionSticks ==
    [][/\ snapshot' # snapshot /\ HasSelection
       /\ \E i \in DOMAIN Shown' : Shown'[i].id = Shown[cursor + 1].id
       => Shown'[cursor' + 1].id = Shown[cursor + 1].id]_vars

(* When the daemon settles, an open popup comes to show its snapshot and   *)
(* keeps it, unless it goes on showing one of a higher revision.           *)
CatchesUp ==
    <>[][UNCHANGED server]_vars
        => <>[](snapshot = daemon \/ snapshot.rev > daemon.rev) \/ <>quit

(* "so the CLI and TUI see one current view" (README.md): the popup shows  *)
(* what the daemon answers, whichever daemon that is.                      *)
OneCurrentView ==
    <>[][UNCHANGED server]_vars => <>[](snapshot = daemon) \/ <>quit
=============================================================================
