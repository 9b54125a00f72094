--------------------------- MODULE HerdrTransport ---------------------------
(***************************************************************************)
(* The connections to Herdr: Call and Subscribe of internal/herdr/         *)
(* socket.go with their goroutines, as the runtime loop (runtime.go) and   *)
(* its relay (adapter/herdr.go) use them under one context.                *)
(*                                                                         *)
(* Each request has a connection of its own.  Herdr may answer, answer     *)
(* something else, stay silent or hang up, at any moment.  What matters is *)
(* which connections and goroutines are left, and that cancelling the      *)
(* context ends them all.                                                  *)
(***************************************************************************)
EXTENDS Naturals, Sequences

CONSTANTS
    Conns,         \* connections that can be open at once
    MaxWire,       \* bound: messages of Herdr on the way
    Retries        \* attempts before the loop gives up

NoConn == "none"

ASSUME TransportAssumption ==
    /\ {MaxWire, Retries} \subseteq Nat \ {0}
    /\ NoConn \notin Conns

VARIABLES
    line,          \* each connection: open, hung up by Herdr, closed by us
    wire,          \* what Herdr sent and nobody has read
    watcher,       \* the goroutine that closes it when the context ends
    reader,        \* the goroutine that reads a subscription's events
    relay,         \* the goroutine that takes them from its channel
    at,            \* what the loop is doing
    step,          \* where it is in the request it makes
    cur,           \* the connection of that request
    stream,        \* the subscription that it listens to
    failures,
    cancelled,     \* the context has ended
    unconfirmed    \* history: subscriptions whose confirmation failed

link == <<line, wire>>
goroutines == <<watcher, reader, relay>>
loop == <<at, step, cur, stream, failures>>
vars == <<link, goroutines, loop, cancelled, unconfirmed>>

-----------------------------------------------------------------------------
Messages == {"answer", "event", "garbage"}
Requesting == {"baseline", "subscribe", "confirm", "sample", "publish"}

Set(f, c, value) == [f EXCEPT ![c] = value]

(* Nothing is left of the connection on our side.                          *)
Quiet(c) ==
    /\ line[c] = "closed"
    /\ watcher[c] = "none" /\ reader[c] = "none" /\ relay[c] = "none"

Free(c) == Quiet(c) /\ c # cur /\ c # stream

AwaitsAck(c) == at = "subscribe" /\ step = "await" /\ cur = c

Init ==
    /\ line = [c \in Conns |-> "closed"]
    /\ wire = [c \in Conns |-> <<>>]
    /\ watcher = [c \in Conns |-> "none"]
    /\ reader = [c \in Conns |-> "none"]
    /\ relay = [c \in Conns |-> "none"]
    /\ at = "baseline" /\ step = "dial"
    /\ cur = NoConn /\ stream = NoConn
    /\ failures = 0
    /\ cancelled = FALSE
    /\ unconfirmed = {}

-----------------------------------------------------------------------------
(* Run: what follows a request.                                            *)

Begin(what) == at' = what /\ step' = "dial" /\ cur' = NoConn

(* The loop returns, at its last failure or because a publication failed.*)
GiveUp == at' = "over" /\ step' = "idle" /\ cur' = NoConn /\ stream' = NoConn

(* One more failure of an attempt, perhaps the last.                       *)
Fail ==
    IF failures + 1 < Retries
    THEN Begin("baseline") /\ stream' = NoConn /\ failures' = failures + 1
    ELSE GiveUp /\ failures' = Retries

Listen == at' = "stream" /\ step' = "idle" /\ cur' = NoConn

Succeeded ==
    \/ at = "baseline" /\ Begin("subscribe") /\ UNCHANGED <<stream, failures>>
    \/ /\ at = "subscribe" /\ Begin("confirm")
       /\ stream' = cur /\ UNCHANGED failures
    \/ at \in {"confirm", "publish"} /\ Listen
       /\ failures' = 0 /\ UNCHANGED stream
    \/ at = "sample" /\ Listen /\ UNCHANGED <<stream, failures>>
    \/ /\ at \in {"confirm", "sample"}      \* with values to be written
       /\ Begin("publish") /\ UNCHANGED <<stream, failures>>

(* Mutant: a rebuild that fails ends the listening.                        *)
FailedEndsListening ==
    /\ CASE at = "sample" ->
              Begin("baseline") /\ stream' = NoConn /\ UNCHANGED failures
         [] at = "publish" -> GiveUp /\ UNCHANGED failures
         [] OTHER -> Fail
    /\ unconfirmed' = IF at = "confirm" THEN unconfirmed \cup {stream}
                      ELSE unconfirmed

(* The subscription of a failed confirmation is not closed.                *)
Failed ==
    /\ CASE at = "sample" -> Listen /\ UNCHANGED <<stream, failures>>
         [] at = "publish" -> GiveUp /\ UNCHANGED failures
         [] OTHER -> Fail
    /\ unconfirmed' = IF at = "confirm" THEN unconfirmed \cup {stream}
                      ELSE unconfirmed

-----------------------------------------------------------------------------
(* Call and Subscribe, in the loop.                                        *)

(* A context that has ended does not dial.  A call has a watcher at once.  *)
(* Which connection it is does not matter.                                 *)
Dial ==
    /\ step = "dial" /\ ~cancelled
    /\ \E c \in Conns : Free(c)
    /\ LET c == CHOOSE free \in Conns : Free(free) IN
          /\ line' = Set(line, c, "open")
          /\ watcher' = IF at = "subscribe" THEN watcher
                        ELSE Set(watcher, c, "watching")
          /\ cur' = c
          /\ unconfirmed' = unconfirmed \ {c}
    /\ step' = "send"
    /\ UNCHANGED <<wire, reader, relay, at, stream, failures, cancelled>>

(* Herdr is not there, or there is no connection to be had.                *)
DialFails ==
    /\ step = "dial"
    /\ Failed
    /\ UNCHANGED <<link, goroutines, cancelled>>

Send ==
    /\ step = "send" /\ line[cur] # "closed"
    /\ step' = "await"
    /\ UNCHANGED <<link, goroutines, at, cur, stream, failures, cancelled,
                   unconfirmed>>

(* Our end is closed, with what was not read.                              *)
Drop(c) == line' = Set(line, c, "closed") /\ wire' = Set(wire, c, <<>>)

(* Mutant: the watcher is not told that the call is over.                  *)
CloseUntold(c) == Drop(c) /\ UNCHANGED watcher

(* What is deferred: the watcher is told to go, our end is closed.         *)
Close(c) ==
    /\ Drop(c)
    /\ watcher' = Set(watcher, c,
                      IF watcher[c] = "none" THEN "none" ELSE "told")

(* The connection broke, or the watcher closed it.                         *)
Broken(c) == wire[c] = <<>> /\ line[c] # "open"

Received(message) ==
    step = "await" /\ wire[cur] # <<>> /\ Head(wire[cur]) = message

(* An error: of the connection, of the envelope, or Herdr's own.           *)
RequestFails ==
    /\ \/ step = "send" /\ line[cur] # "open"
       \/ step = "await" /\ Broken(cur)
       \/ \E message \in Messages \ {"answer"} : Received(message)
    /\ Close(cur)
    /\ Failed
    /\ UNCHANGED <<reader, relay, cancelled>>

CallReturns ==
    /\ at # "subscribe" /\ Received("answer")
    /\ Close(cur)
    /\ Succeeded
    /\ UNCHANGED <<reader, relay, cancelled, unconfirmed>>

(* Mutant: the reader of a subscription has no watcher.                    *)
SubscribedUnwatched ==
    /\ at = "subscribe" /\ Received("answer")
    /\ wire' = Set(wire, cur, Tail(wire[cur]))
    /\ reader' = Set(reader, cur, "reading")
    /\ relay' = Set(relay, cur, "relaying")
    /\ Succeeded
    /\ UNCHANGED <<line, watcher, cancelled, unconfirmed>>

(* The acknowledgement starts the reader with its watcher, and the relay.  *)
Subscribed ==
    /\ at = "subscribe" /\ Received("answer")
    /\ wire' = Set(wire, cur, Tail(wire[cur]))
    /\ reader' = Set(reader, cur, "reading")
    /\ watcher' = Set(watcher, cur, "watching")
    /\ relay' = Set(relay, cur, "relaying")
    /\ Succeeded
    /\ UNCHANGED <<line, cancelled, unconfirmed>>

-----------------------------------------------------------------------------
(* runEvents.                                                              *)

(* An event or a tick.                                                     *)
Sample ==
    /\ at = "stream" /\ Begin("sample")
    /\ UNCHANGED <<link, goroutines, stream, failures, cancelled, unconfirmed>>

(* The relay closed its channel; the loop backs off and connects again.    *)
StreamEnds ==
    /\ at = "stream" /\ relay[stream] = "none"
    /\ at' = "backoff" /\ stream' = NoConn
    /\ UNCHANGED <<link, goroutines, step, cur, failures, cancelled,
                   unconfirmed>>

Reconnect ==
    /\ at = "backoff" /\ Begin("baseline")
    /\ UNCHANGED <<link, goroutines, stream, failures, cancelled, unconfirmed>>

Stop ==
    /\ at \in {"stream", "backoff"} /\ cancelled
    /\ at' = "over" /\ stream' = NoConn
    /\ UNCHANGED <<link, goroutines, step, cur, failures, cancelled,
                   unconfirmed>>

-----------------------------------------------------------------------------
(* The goroutines of a connection.                                         *)

Watch(c) ==
    /\ \/ watcher[c] = "watching" /\ cancelled /\ Drop(c)
       \/ watcher[c] = "told" /\ UNCHANGED link
    /\ watcher' = Set(watcher, c, "none")
    /\ UNCHANGED <<reader, relay, loop, cancelled, unconfirmed>>

(* An event goes to the channel or, if that is full, is dropped; the relay *)
(* empties the channel without waiting for anybody (see HerdrRuntime).     *)
Read(c) ==
    /\ reader[c] = "reading" /\ wire[c] # <<>> /\ Head(wire[c]) # "garbage"
    /\ wire' = Set(wire, c, Tail(wire[c]))
    /\ UNCHANGED <<line, watcher, reader, relay, loop, cancelled, unconfirmed>>

ReadFails(c) ==
    /\ reader[c] = "reading"
    /\ Broken(c) \/ (wire[c] # <<>> /\ Head(wire[c]) = "garbage")
    /\ reader' = Set(reader, c, "none")
    /\ Close(c)
    /\ UNCHANGED <<relay, loop, cancelled, unconfirmed>>

(* The reader has closed the channel, and the relay has emptied it.        *)
RelayEnds(c) ==
    /\ relay[c] = "relaying" /\ reader[c] = "none"
    /\ relay' = Set(relay, c, "none")
    /\ UNCHANGED <<link, watcher, reader, loop, cancelled, unconfirmed>>

-----------------------------------------------------------------------------
(* Herdr, and whoever ends the daemon.                                     *)

Say(c, message) ==
    /\ line[c] = "open" /\ Len(wire[c]) < MaxWire
    /\ cur = c => step = "await"
    /\ message = "event" => reader[c] = "reading" \/ at = "subscribe"
    /\ wire' = Set(wire, c, Append(wire[c], message))
    /\ UNCHANGED <<line, goroutines, loop, cancelled, unconfirmed>>

HangUp(c) ==
    /\ line[c] = "open"
    /\ line' = Set(line, c, "hung up")
    /\ UNCHANGED <<wire, goroutines, loop, cancelled, unconfirmed>>

Cancel ==
    /\ ~cancelled
    /\ cancelled' = TRUE
    /\ UNCHANGED <<link, goroutines, loop, unconfirmed>>

-----------------------------------------------------------------------------
Request ==
    Dial \/ DialFails \/ Send \/ RequestFails \/ CallReturns \/ Subscribed
Goroutine(c) == Watch(c) \/ Read(c) \/ ReadFails(c) \/ RelayEnds(c)

Next ==
    \/ Request \/ Sample \/ StreamEnds \/ Reconnect \/ Stop \/ Cancel
    \/ \E c \in Conns : Goroutine(c) \/ HangUp(c)
    \/ \E c \in Conns, message \in Messages : Say(c, message)

(* Goroutines run.  Of the ready cases of a select each has its turn.      *)
(* Herdr owes nothing, and nobody has to cancel.                           *)
Fairness ==
    /\ WF_vars(Request) /\ WF_vars(StreamEnds) /\ WF_vars(Reconnect)
    /\ SF_vars(Stop)
    /\ \A c \in Conns :
          /\ WF_vars(Watch(c)) /\ WF_vars(RelayEnds(c))
          /\ WF_vars(Read(c) \/ ReadFails(c))

Spec == Init /\ [][Next]_vars /\ Fairness

-----------------------------------------------------------------------------
(* Properties.                                                             *)

TypeOK ==
    /\ line \in [Conns -> {"open", "hung up", "closed"}]
    /\ wire \in [Conns -> Seq(Messages)]
    /\ watcher \in [Conns -> {"none", "watching", "told"}]
    /\ reader \in [Conns -> {"none", "reading"}]
    /\ relay \in [Conns -> {"none", "relaying"}]
    /\ at \in Requesting \cup {"stream", "backoff", "over"}
    /\ step \in {"idle", "dial", "send", "await"}
    /\ {cur, stream} \subseteq Conns \cup {NoConn}
    /\ failures \in 0..Retries
    /\ cancelled \in BOOLEAN
    /\ unconfirmed \subseteq Conns

(* While the loop runs, the only subscriptions that stay open with nobody  *)
(* listening are those whose confirmation failed (runtime.go:80).          *)
LeaksAreUnconfirmed ==
    \A c \in Conns :
        reader[c] = "reading" =>
            c = stream \/ c \in unconfirmed \/ cancelled \/ at = "over"

(* No goroutine waits for the end of the context on behalf of a call that  *)
(* returned or a subscription that ended: none accumulates meanwhile.      *)
WatchersAreNeeded ==
    \A c \in Conns :
        watcher[c] = "watching" => c = cur \/ reader[c] = "reading"

(* Once the context has ended, the loop ends and so do all connections and *)
(* their goroutines, those of abandoned subscriptions included.  A         *)
(* subscription that Herdr has not acknowledged is the one exception: it   *)
(* is awaited without looking at the context (socket.go:132).              *)
CancelLeavesNothing ==
    cancelled ~>
        /\ at = "over" \/ \E c \in Conns : AwaitsAck(c)
        /\ \A c \in Conns : Quiet(c) \/ AwaitsAck(c)
=============================================================================
