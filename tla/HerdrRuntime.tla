---------------------------- MODULE HerdrRuntime ----------------------------
(***************************************************************************)
(* How the daemon follows Herdr: the rebuild loop of internal/daemon       *)
(* (runtime.go, reconcile.go, Service.Replace and MarkStale), the event    *)
(* relay of internal/adapter/herdr.go and the event stream of              *)
(* internal/herdr/socket.go.                                               *)
(*                                                                         *)
(* Herdr announces a change of its topology on the stream; a process that  *)
(* starts or stops listening is announced by nobody.  Three goroutines     *)
(* pass an announcement on: the stream's reader, the relay and the loop.   *)
(***************************************************************************)
EXTENDS Naturals

CONSTANTS
    Topologies,   \* committed Herdr topologies
    EventBuffer,  \* capacity of the stream's event channel
    Retries,      \* consecutive failed attempts the loop stops at
    MaxWire       \* bound: announcements under way on the connection

ASSUME BoundsAssumption ==
    /\ EventBuffer \in Nat \ {0}
    /\ Retries \in Nat \ {0}
    /\ MaxWire \in Nat \ {0}
ASSUME TopologiesAssumption == Topologies # {} /\ "unread" \notin Topologies

VARIABLES
    topology,   \* what Herdr has committed
    listening,  \* whether a server listens
    trouble,    \* what fails at the moment
    cancelled,  \* the daemon's context is done
    conn,       \* the subscribed connection
    wire,       \* announcements sent on it and not read yet
    events,     \* the stream's channel: events buffered
    signal,     \* the relay's channel, of capacity one
    phase,      \* where the loop is
    sample,     \* the topology the rebuild in progress has read
    failures,   \* consecutive failed attempts
    shown,      \* the service's snapshot
    followed    \* history: what the last applied rebuild read and yielded

world == <<topology, listening, trouble, cancelled>>
stream == <<conn, wire, events, signal>>
loop == <<phase, sample, failures, shown, followed>>
vars == <<topology, listening, trouble, cancelled, conn, wire, events, signal,
          phase, sample, failures, shown, followed>>

-----------------------------------------------------------------------------
Unread == "unread"

(* A snapshot has applications when the rebuild found a listener.          *)
Empty == [apps |-> FALSE]
Snapshots ==
    {Empty} \cup [apps : {TRUE}, topology : Topologies, stale : BOOLEAN]

Rebuilding == {"baseline", "confirm", "rebuild"}
Phases == Rebuilding \cup
    {"subscribe", "acknowledge", "announce", "publish", "select", "backoff",
     "exited"}

Init ==
    /\ topology \in Topologies
    /\ listening \in BOOLEAN
    /\ trouble = "none"
    /\ cancelled = FALSE
    /\ conn = "none" /\ wire = 0 /\ events = 0 /\ signal = FALSE
    /\ phase = "baseline"
    /\ sample = Unread
    /\ failures = 0
    /\ shown = Empty
    /\ followed = [topology |-> Unread, failed |-> FALSE]

-----------------------------------------------------------------------------
(* Herdr, the operating system and the daemon's signals.                   *)

Commit ==
    /\ \E t \in Topologies \ {topology} : topology' = t
    /\ IF conn = "open"
       THEN wire < MaxWire /\ wire' = wire + 1
       ELSE UNCHANGED wire
    /\ UNCHANGED <<listening, trouble, cancelled, conn, events, signal, loop>>

Listen ==
    /\ listening' = ~listening
    /\ UNCHANGED <<topology, trouble, cancelled, stream, loop>>

(* "herdr": its requests fail; "scan": listeners, processes or panes       *)
(* cannot be read; "silent": Herdr, or a command a scan runs, owes no      *)
(* answer.                                                                 *)
Troubles == {"none", "herdr", "scan", "silent"}

Disturb ==
    /\ trouble' \in Troubles \ {trouble}
    /\ UNCHANGED <<topology, listening, cancelled, stream, loop>>

Cancel ==
    /\ ~cancelled
    /\ cancelled' = TRUE
    /\ UNCHANGED <<topology, listening, trouble, stream, loop>>

(* The connection ends; what it still carried may be lost with it.         *)
Disconnect ==
    /\ conn = "open"
    /\ conn' = "lost"
    /\ wire' \in 0 .. wire
    /\ UNCHANGED <<world, events, signal, loop>>

-----------------------------------------------------------------------------
(* The two goroutines between Herdr and the loop.                          *)

(* The reader drops an event when its channel is full.                     *)
ReadEvent ==
    /\ wire > 0
    /\ wire' = wire - 1
    /\ events' = IF events < EventBuffer THEN events + 1 ELSE events
    /\ UNCHANGED <<world, conn, signal, loop>>

(* Mutant: the relay wakes the loop only while it waits.                   *)
RelayToWaiting ==
    /\ events > 0
    /\ events' = events - 1
    /\ signal' = (signal \/ phase = "select")
    /\ UNCHANGED <<world, conn, wire, loop>>

(* The relay drops a signal when one is waiting.                           *)
Relay ==
    /\ events > 0
    /\ events' = events - 1
    /\ signal' = TRUE
    /\ UNCHANGED <<world, conn, wire, loop>>

(* The relay closes its channel when the stream is at its end.             *)
Closed == conn = "lost" /\ wire = 0 /\ events = 0

-----------------------------------------------------------------------------
(* A rebuild asks Herdr for its topology, then for the processes of its    *)
(* panes, then scans the listeners and looks their processes up.           *)

Sample ==
    /\ phase \in Rebuilding
    /\ sample = Unread
    /\ trouble # "herdr" /\ ~cancelled
    /\ sample' = topology
    /\ UNCHANGED <<world, stream, phase, failures, shown, followed>>

Fresh ==
    IF listening
    THEN [apps |-> TRUE, topology |-> sample, stale |-> FALSE]
    ELSE Empty

(* Mutant: a failed input leaves the previous applications current.        *)
DegradedUnmarked == shown

(* Reconcile keeps the previous applications when an input failed and      *)
(* makes them stale.                                                       *)
Degraded == [shown EXCEPT !.stale = TRUE]

(* A cancelled context makes the rebuild's calls and commands fail, those  *)
(* under way included.                                                     *)
Broken == trouble \in {"herdr", "scan"} \/ cancelled

(* What a rebuild that read its topology returns; nothing is an error.     *)
Results ==
    IF sample = Unread THEN {}
    ELSE (IF trouble \in {"none", "silent"} THEN {Fresh} ELSE {})
         \cup (IF shown.apps /\ Broken THEN {Degraded} ELSE {})

Fails ==
    \/ sample = Unread /\ (trouble = "herdr" \/ cancelled)
    \/ sample # Unread /\ Broken /\ ~shown.apps

(* Replace.                                                                *)
Apply(result) ==
    /\ shown' = result
    /\ followed' = [topology |-> sample, failed |-> result # Fresh]

MarkStale ==
    shown' = IF shown.apps THEN [shown EXCEPT !.stale = TRUE] ELSE shown

-----------------------------------------------------------------------------
(* Runtime.Run: baseline, subscribe, confirm, publish.                     *)

(* Mutant: one attempt too many.                                           *)
AttemptFailsLate ==
    /\ failures' = failures + 1
    /\ phase' = IF failures' > Retries THEN "exited" ELSE "backoff"

(* The loop gives up at its last consecutive failure.                      *)
AttemptFails ==
    /\ failures' = failures + 1
    /\ phase' = IF failures' >= Retries THEN "exited" ELSE "backoff"

(* The baseline is only an attempt: its result is not published.           *)
Baseline ==
    /\ phase = "baseline"
    /\ \/ /\ Results # {}
          /\ phase' = "subscribe"
          /\ UNCHANGED failures
       \/ Fails /\ AttemptFails
    /\ sample' = Unread
    /\ UNCHANGED <<world, stream, shown, followed>>

(* Subscribe dials and writes its request; a cancelled context fails the   *)
(* dial.                                                                   *)
Subscribe ==
    /\ phase = "subscribe"
    /\ IF trouble = "herdr" \/ cancelled
       THEN AttemptFails
       ELSE phase' = "acknowledge" /\ UNCHANGED failures
    /\ UNCHANGED <<world, stream, sample, shown, followed>>

Opened == conn' = "open" /\ wire' = 0 /\ events' = 0 /\ signal' = FALSE

(* Mutant: a subscription already counts as a success.                     *)
AcknowledgeResets ==
    /\ phase = "acknowledge"
    /\ IF trouble = "herdr"
       THEN AttemptFails /\ UNCHANGED stream
       ELSE Opened /\ phase' = "confirm" /\ failures' = 0
    /\ UNCHANGED <<world, sample, shown, followed>>

(* The wait for the acknowledgement looks neither at a deadline nor at the *)
(* context: the goroutine that would close the connection starts after it. *)
Acknowledge ==
    /\ phase = "acknowledge"
    /\ IF trouble = "herdr"
       THEN AttemptFails /\ UNCHANGED stream
       ELSE Opened /\ phase' = "confirm" /\ UNCHANGED failures
    /\ UNCHANGED <<world, sample, shown, followed>>

Confirm ==
    /\ phase = "confirm"
    /\ \/ /\ \E result \in Results : Apply(result)
          /\ phase' = "announce"
          /\ UNCHANGED failures
       \/ /\ Fails /\ AttemptFails
          /\ UNCHANGED <<shown, followed>>
    /\ sample' = Unread
    /\ UNCHANGED <<world, stream>>

(* Publishing fails with Herdr, unless there is nothing new to report; its *)
(* error ends the loop and with it the daemon.                             *)
PublishFails == trouble = "herdr" \/ cancelled

Announce ==
    /\ phase = "announce"
    /\ \/ phase' = "select" /\ failures' = 0
       \/ PublishFails /\ phase' = "exited" /\ UNCHANGED failures
    /\ UNCHANGED <<world, stream, sample, shown, followed>>

Backoff ==
    /\ phase = "backoff"
    /\ \/ phase' = "baseline"
       \/ cancelled /\ phase' = "exited"
    /\ UNCHANGED <<world, stream, sample, failures, shown, followed>>

-----------------------------------------------------------------------------
(* Runtime.runEvents.                                                      *)

(* One signal stands for every event before it: the channel is drained     *)
(* before the rebuild reads anything.                                      *)
TakeSignal ==
    /\ phase = "select"
    /\ signal
    /\ signal' = FALSE
    /\ phase' = "rebuild"
    /\ UNCHANGED <<world, conn, wire, events, sample, failures, shown,
                   followed>>

(* Mutant: nothing is polled while there is nothing to show.               *)
TickWhileShowing ==
    /\ phase = "select"
    /\ shown.apps
    /\ phase' = "rebuild"
    /\ UNCHANGED <<world, stream, sample, failures, shown, followed>>

Tick ==
    /\ phase = "select"
    /\ phase' = "rebuild"
    /\ UNCHANGED <<world, stream, sample, failures, shown, followed>>

(* Mutant: the channel is drained after the rebuild.                       *)
RebuildThenDrain ==
    /\ phase = "rebuild"
    /\ \/ /\ \E result \in Results : Apply(result)
          /\ phase' = "publish"
       \/ /\ Fails
          /\ MarkStale
          /\ followed' = [topology |-> sample, failed |-> TRUE]
          /\ phase' = "select"
    /\ sample' = Unread
    /\ signal' = FALSE
    /\ UNCHANGED <<world, conn, wire, events, failures>>

Rebuild ==
    /\ phase = "rebuild"
    /\ \/ /\ \E result \in Results : Apply(result)
          /\ phase' = "publish"
       \/ /\ Fails
          /\ MarkStale
          /\ followed' = [topology |-> sample, failed |-> TRUE]
          /\ phase' = "select"
    /\ sample' = Unread
    /\ UNCHANGED <<world, stream, failures>>

Publish ==
    /\ phase = "publish"
    /\ \/ phase' = "select"
       \/ PublishFails /\ phase' = "exited"
    /\ UNCHANGED <<world, stream, sample, failures, shown, followed>>

StreamEnds ==
    /\ phase = "select"
    /\ Closed /\ ~signal
    /\ phase' = IF cancelled THEN "exited" ELSE "backoff"
    /\ UNCHANGED <<world, stream, sample, failures, shown, followed>>


Stop ==
    /\ phase = "select"
    /\ cancelled
    /\ phase' = "exited"
    /\ UNCHANGED <<world, stream, sample, failures, shown, followed>>

-----------------------------------------------------------------------------
Environment == Commit \/ Listen \/ Disturb \/ Cancel \/ Disconnect
Attempt == Baseline \/ Subscribe \/ Confirm \/ Announce
Following == TakeSignal \/ Tick \/ Rebuild \/ Publish \/ StreamEnds \/ Stop

Next ==
    Environment \/ ReadEvent \/ Relay \/ Sample \/ Attempt \/ Acknowledge
        \/ Backoff \/ Following

(* Herdr owes no answer, and no call of the loop has a deadline.  A call   *)
(* ends when it is answered, when it fails, or with its context; the wait  *)
(* for an acknowledgement does not end with the context.                   *)
Answering == trouble # "silent" \/ cancelled

(* Every goroutine that can run does, a call that ends is acted upon, and  *)
(* select is fair to each of its ready cases.                              *)
Fairness ==
    /\ WF_vars(ReadEvent) /\ WF_vars(Relay)
    /\ WF_vars(Answering /\ (Sample \/ Attempt \/ Rebuild \/ Publish))
    /\ WF_vars(trouble # "silent" /\ Acknowledge)
    /\ WF_vars(Backoff)
    /\ SF_vars(TakeSignal) /\ SF_vars(Tick) /\ SF_vars(StreamEnds)
    /\ SF_vars(Stop)

Spec == Init /\ [][Next]_vars /\ Fairness

-----------------------------------------------------------------------------
(* Properties.                                                             *)

TypeOK ==
    /\ topology \in Topologies /\ listening \in BOOLEAN
    /\ trouble \in Troubles /\ cancelled \in BOOLEAN
    /\ conn \in {"none", "open", "lost"}
    /\ wire \in 0 .. MaxWire
    /\ events \in 0 .. EventBuffer
    /\ signal \in BOOLEAN
    /\ phase \in Phases
    /\ sample \in Topologies \cup {Unread}
    /\ failures \in 0 .. Retries
    /\ shown \in Snapshots
    /\ followed \in [topology : Topologies \cup {Unread}, failed : BOOLEAN]

WakeUpPending == wire > 0 \/ events > 0 \/ signal

(* No change of Herdr is lost between the stream, the relay and the loop,  *)
(* whatever was dropped on the way: while the loop waits, it followed the  *)
(* current topology, or it will be woken, or its last rebuild failed and   *)
(* what it shows says so.                                                  *)
NothingMissed ==
    phase = "select" /\ conn = "open" =>
        \/ WakeUpPending
        \/ followed.topology = topology /\ ~followed.failed
        \/ followed.failed /\ (shown.apps => shown.stale)

(* A rebuild that reads an old topology will be followed by another one.   *)
NoStaleSample ==
    phase \in {"confirm", "rebuild"} /\ conn = "open" =>
        sample \in {Unread, topology} \/ WakeUpPending

(* A snapshot is built from one topology and says so: what is shown as     *)
(* current is what the last applied rebuild read.                          *)
ShownIsFollowed ==
    shown.apps /\ ~shown.stale =>
        shown.topology = followed.topology /\ ~followed.failed

(* When Herdr and the machine settle and answer, the snapshot becomes the  *)
(* current view and stays it, unless the loop gave up.                     *)
Current ==
    IF listening
    THEN shown.apps /\ shown.topology = topology /\ ~shown.stale
    ELSE ~shown.apps

CatchesUp ==
    <>[](trouble = "none" /\ ~cancelled) /\ <>[][UNCHANGED world]_vars
        => <>[]Current \/ <>(phase = "exited")

Attempting ==
    phase \in {"baseline", "subscribe", "acknowledge", "confirm", "announce",
               "backoff"}

(* An attempt to connect ends, in the event loop or with the loop, unless  *)
(* Herdr falls silent again and again: no call of an attempt has a         *)
(* deadline, so a Herdr that does not answer holds the attempt, and the    *)
(* snapshot of before it, for as long as it likes.                         *)
AttemptsEnd ==
    <>[](trouble # "silent") => (Attempting ~> phase \in {"select", "exited"})

(* The loop waits for ever for an acknowledgement that does not come.      *)
LeftUnanswered == <>[](phase = "acknowledge") /\ []<>(trouble = "silent")

=============================================================================
