------------------------ MODULE HerdrTransport_proofs ------------------------
(***************************************************************************)
(* Proofs about HerdrTransport, for any number of connections.             *)
(*                                                                         *)
(* What the loop is doing says which connection it uses and whether it has *)
(* a subscription: from that follows what its failures may leave behind.   *)
(***************************************************************************)
EXTENDS HerdrTransport, TLAPS

(* A request has a connection once it has dialled.                         *)
RequestsHaveConns ==
    /\ step \in {"send", "await"} => cur \in Conns
    /\ step \in {"idle", "dial"} => cur = NoConn
    /\ at \in Requesting <=> step # "idle"

(* The loop listens from the acknowledgement on, until it backs off.       *)
ListensTo ==
    /\ at \in {"confirm", "sample", "publish", "stream"} => stream \in Conns
    /\ at \in {"baseline", "subscribe", "backoff", "over"} => stream = NoConn

(* The relay outlives the reader, whose channel it empties.                *)
ReadersAreRelayed ==
    \A c \in Conns : reader[c] = "reading" => relay[c] = "relaying"

LinkInv ==
    /\ RequestsHaveConns
    /\ ListensTo
    /\ ReadersAreRelayed
    /\ LeaksAreUnconfirmed
    /\ WatchersAreNeeded

-----------------------------------------------------------------------------
LEMMA RetriesCount ==
    Retries \in Nat /\ 0 \in 0 .. Retries /\ Retries \in 0 .. Retries
  <1>1. Retries \in Nat
    BY TransportAssumption
  <1> QED
    BY <1>1

LEMMA OneMoreFailure ==
    ASSUME failures \in 0..Retries, failures + 1 < Retries
    PROVE  failures + 1 \in 0..Retries
  <1>1. Retries \in Nat
    BY TransportAssumption
  <1> QED
    BY <1>1

LoopTypes ==
    /\ at \in Requesting \cup {"stream", "backoff", "over"}
    /\ step \in {"idle", "dial", "send", "await"}
    /\ {cur, stream} \subseteq Conns \cup {NoConn}
    /\ failures \in 0..Retries
    /\ unconfirmed \subseteq Conns

(* What follows a request leaves the loop where its types allow, with a    *)
(* subscription exactly while it listens.                                  *)
LEMMA LoopAfterSuccess ==
    ASSUME TypeOK, RequestsHaveConns, ListensTo, step = "await", Succeeded,
           UNCHANGED unconfirmed
    PROVE  LoopTypes' /\ RequestsHaveConns' /\ ListensTo' /\ cur' = NoConn
  <1> USE TransportAssumption
      DEF TypeOK, RequestsHaveConns, ListensTo, LoopTypes, Requesting, Begin,
          Listen
  <1>1. 0 \in 0..Retries
    BY RetriesCount
  <1>2. CASE at = "baseline" /\ Begin("subscribe")
               /\ UNCHANGED <<stream, failures>>
    BY <1>2
  <1>3. CASE at = "subscribe" /\ Begin("confirm") /\ stream' = cur
               /\ UNCHANGED failures
    BY <1>3
  <1>4. CASE at \in {"confirm", "publish"} /\ Listen /\ failures' = 0
               /\ UNCHANGED stream
    BY <1>1, <1>4
  <1>5. CASE at = "sample" /\ Listen /\ UNCHANGED <<stream, failures>>
    BY <1>5
  <1>6. CASE at \in {"confirm", "sample"} /\ Begin("publish")
               /\ UNCHANGED <<stream, failures>>
    BY <1>6
  <1> QED
    BY <1>2, <1>3, <1>4, <1>5, <1>6 DEF Succeeded

LEMMA LoopAfterFailure ==
    ASSUME TypeOK, RequestsHaveConns, ListensTo, step # "idle", Failed
    PROVE  /\ LoopTypes' /\ RequestsHaveConns' /\ ListensTo' /\ cur' = NoConn
           /\ unconfirmed \subseteq unconfirmed'
           /\ \/ stream' = stream
              \/ stream = NoConn
              \/ stream \in unconfirmed'
              \/ at' = "over"
  <1> USE TransportAssumption
      DEF TypeOK, RequestsHaveConns, ListensTo, LoopTypes, Requesting, Begin,
          Listen, GiveUp
  <1>1. (unconfirmed \subseteq Conns)' /\ unconfirmed \subseteq unconfirmed'
    BY DEF Failed
  <1>2. CASE at = "sample"
    BY <1>1, <1>2 DEF Failed
  <1>3. CASE at = "publish"
    BY <1>1, <1>3 DEF Failed
  <1>4. CASE at \in {"baseline", "subscribe", "confirm"}
    <2>1. Fail /\ (at = "confirm" => stream \in unconfirmed')
      BY <1>4 DEF Failed
    <2>2. CASE failures + 1 < Retries
      <3>1. failures + 1 \in 0..Retries
        BY <2>2, OneMoreFailure
      <3> QED
        BY <1>1, <1>4, <2>1, <2>2, <3>1 DEF Fail
    <2>3. CASE ~(failures + 1 < Retries)
      <3>1. Retries \in 0..Retries
        BY RetriesCount
      <3> QED
        BY <1>1, <1>4, <2>1, <2>3, <3>1 DEF Fail
    <2> QED
      BY <2>2, <2>3
  <1> QED
    BY <1>2, <1>3, <1>4

-----------------------------------------------------------------------------
(* Types of what the connections have.                                     *)
LinkTypes ==
    /\ line \in [Conns -> {"open", "hung up", "closed"}]
    /\ wire \in [Conns -> Seq(Messages)]
    /\ watcher \in [Conns -> {"none", "watching", "told"}]
    /\ reader \in [Conns -> {"none", "reading"}]
    /\ relay \in [Conns -> {"none", "relaying"}]
    /\ cancelled \in BOOLEAN

(* A message is read or dropped.                                           *)
LEMMA WiresShrink ==
    ASSUME LinkTypes, NEW c \in Conns
    PROVE  /\ Set(wire, c, <<>>) \in [Conns -> Seq(Messages)]
           /\ wire[c] # <<>> =>
                Set(wire, c, Tail(wire[c])) \in [Conns -> Seq(Messages)]
  <1>1. <<>> \in Seq(Messages)
    OBVIOUS
  <1>2. wire[c] \in Seq(Messages)
    BY DEF LinkTypes
  <1>3. wire[c] # <<>> => Tail(wire[c]) \in Seq(Messages)
    BY <1>2
  <1> QED
    BY <1>1, <1>3 DEF LinkTypes, Set

LEMMA CloseTypes ==
    ASSUME LinkTypes, NEW c \in Conns, Close(c),
           reader' \in [Conns -> {"none", "reading"}],
           UNCHANGED <<relay, cancelled>>
    PROVE  LinkTypes'
  BY WiresShrink DEF Close, Drop, LinkTypes, Set

LEMMA LinkTypesStep ==
    ASSUME TypeOK, RequestsHaveConns, [Next]_vars
    PROVE  LinkTypes'
  <1> USE DEF RequestsHaveConns
  <1>1. LinkTypes
    BY DEF TypeOK, LinkTypes
  <1>2. CASE UNCHANGED <<link, goroutines, cancelled>>
    BY <1>1, <1>2 DEF LinkTypes, link, goroutines
  <1>3. CASE Dial
    <2>1. PICK c \in Conns :
            /\ line' = Set(line, c, "open")
            /\ \/ watcher' = watcher
               \/ watcher' = Set(watcher, c, "watching")
      BY <1>3 DEF Dial
    <2> QED
      BY <1>1, <1>3, <2>1 DEF Dial, LinkTypes, Set
  <1>4. CASE RequestFails \/ CallReturns
    <2>1. cur \in Conns /\ Close(cur) /\ UNCHANGED <<reader, relay, cancelled>>
      BY <1>4 DEF RequestFails, CallReturns, Received
    <2> QED
      BY <1>1, <2>1, CloseTypes DEF LinkTypes
  <1>5. CASE Subscribed
    <2>1. cur \in Conns /\ wire[cur] # <<>>
      BY <1>5 DEF Subscribed, Received
    <2> QED
      BY <1>1, <1>5, <2>1, WiresShrink DEF Subscribed, LinkTypes, Set
  <1>6. CASE Cancel
    BY <1>1, <1>6 DEF Cancel, LinkTypes, link, goroutines
  <1>7. ASSUME NEW c \in Conns, Goroutine(c) \/ HangUp(c)
        PROVE  LinkTypes'
    <2>1. CASE Watch(c)
      <3>1. watcher' \in [Conns -> {"none", "watching", "told"}]
        BY <1>1, <2>1 DEF Watch, LinkTypes, Set
      <3>2. line' \in [Conns -> {"open", "hung up", "closed"}]
        BY <1>1, <2>1 DEF Watch, Drop, LinkTypes, link, Set
      <3>3. wire' \in [Conns -> Seq(Messages)]
        BY <1>1, <2>1, WiresShrink DEF Watch, Drop, LinkTypes, link
      <3> QED
        BY <1>1, <2>1, <3>1, <3>2, <3>3 DEF Watch, LinkTypes
    <2>2. CASE Read(c)
      BY <1>1, <2>2, WiresShrink DEF Read, LinkTypes
    <2>3. CASE ReadFails(c)
      <3>1. reader' \in [Conns -> {"none", "reading"}]
        BY <1>1, <2>3 DEF ReadFails, LinkTypes, Set
      <3> QED
        BY <1>1, <2>3, <3>1, CloseTypes DEF ReadFails
    <2>4. CASE RelayEnds(c) \/ HangUp(c)
      BY <1>1, <2>4 DEF RelayEnds, HangUp, LinkTypes, link, goroutines, Set
    <2> QED
      BY <1>7, <2>1, <2>2, <2>3, <2>4 DEF Goroutine
  <1>8. ASSUME NEW c \in Conns, NEW message \in Messages, Say(c, message)
        PROVE  LinkTypes'
    <2>1. wire[c] \in Seq(Messages)
      BY <1>1 DEF LinkTypes
    <2>2. Append(wire[c], message) \in Seq(Messages)
      BY <2>1
    <2> QED
      BY <1>1, <1>8, <2>2 DEF Say, LinkTypes, goroutines, Set
  <1> QED
    BY <1>2, <1>3, <1>4, <1>5, <1>6, <1>7, <1>8
       DEF Next, vars, Request, DialFails, Send, Sample, StreamEnds,
           Reconnect, Stop

-----------------------------------------------------------------------------
LoopInv == LoopTypes /\ RequestsHaveConns /\ ListensTo

(* The connection that is dialled has nothing left on it.                  *)
LEMMA DialsAFree ==
    ASSUME Dial
    PROVE  \E c \in Conns :
             /\ Free(c) /\ cur' = c /\ line' = Set(line, c, "open")
             /\ watcher' = IF at = "subscribe" THEN watcher
                           ELSE Set(watcher, c, "watching")
             /\ unconfirmed' = unconfirmed \ {c}
  BY DEF Dial

(* What the loop does leaves it with a connection while it makes a request *)
(* and with a subscription while it listens.                               *)
LEMMA LoopInvStep ==
    ASSUME TypeOK, RequestsHaveConns, ListensTo, [Next]_vars
    PROVE  LoopInv'
  <1> USE DEF LoopInv
  <1>1. LoopTypes
    BY DEF TypeOK, LoopTypes
  <1>2. CASE UNCHANGED <<loop, unconfirmed>>
    BY <1>1, <1>2 DEF LoopTypes, RequestsHaveConns, ListensTo, loop
  <1>3. CASE Dial
    BY <1>1, <1>3, DialsAFree
       DEF Dial, LoopTypes, RequestsHaveConns, ListensTo, Requesting
  <1>4. CASE Send
    BY <1>1, <1>4
       DEF Send, LoopTypes, RequestsHaveConns, ListensTo, Requesting
  <1>5. CASE DialFails \/ RequestFails
    BY <1>5, LoopAfterFailure DEF DialFails, RequestFails, Received
  <1>6. CASE CallReturns \/ Subscribed
    BY <1>6, LoopAfterSuccess DEF CallReturns, Subscribed, Received
  <1>7. CASE Sample \/ StreamEnds \/ Reconnect \/ Stop
    BY <1>1, <1>7 DEF Sample, StreamEnds, Reconnect, Stop, Begin, LoopTypes,
       RequestsHaveConns, ListensTo, Requesting
  <1>8. CASE Cancel \/ (\E c \in Conns : Goroutine(c) \/ HangUp(c))
               \/ (\E c \in Conns, message \in Messages : Say(c, message))
    BY <1>2, <1>8 DEF Cancel, Goroutine, Watch, Read, ReadFails, RelayEnds,
       HangUp, Say
  <1> QED
    BY <1>2, <1>3, <1>4, <1>5, <1>6, <1>7, <1>8 DEF Next, vars, Request

(* The variables keep their types (TypeOK): what the loop, Herdr and the   *)
(* goroutines do to one another never takes the loop out of its cases.     *)
THEOREM TransportTyping == Spec => []TypeOK
  <1> DEFINE Inv == TypeOK /\ RequestsHaveConns /\ ListensTo
  <1>1. Init => Inv
    <2> SUFFICES ASSUME Init
                 PROVE  Inv
      OBVIOUS
    <2>1. <<>> \in Seq(Messages)
      OBVIOUS
    <2>2. TypeOK
      BY <2>1, RetriesCount DEF Init, TypeOK, Requesting
    <2> QED
      BY <2>2 DEF Init, RequestsHaveConns, ListensTo, Requesting
  <1>2. Inv /\ [Next]_vars => Inv'
    BY LinkTypesStep, LoopInvStep DEF LoopInv, LoopTypes, LinkTypes, TypeOK
  <1> QED
    BY <1>1, <1>2, PTL DEF Spec

-----------------------------------------------------------------------------
LEMMA LinkInvInit == Init => LinkInv
  BY DEF Init, LinkInv, RequestsHaveConns, ListensTo, ReadersAreRelayed,
     LeaksAreUnconfirmed, WatchersAreNeeded, Requesting

(* The relay ends after its reader.                                        *)
LEMMA RelayedStep ==
    ASSUME TypeOK, RequestsHaveConns, ReadersAreRelayed, [Next]_vars
    PROVE  ReadersAreRelayed'
  <1> USE DEF ReadersAreRelayed, TypeOK
  <1>1. CASE UNCHANGED <<reader, relay>>
    BY <1>1
  <1>2. CASE Subscribed
    <2>1. cur \in Conns
      BY <1>2 DEF Subscribed, Received, RequestsHaveConns
    <2> QED
      BY <1>2, <2>1 DEF Subscribed, Set
  <1>3. ASSUME NEW c \in Conns, ReadFails(c) \/ RelayEnds(c)
        PROVE  ReadersAreRelayed'
    BY <1>3 DEF ReadFails, RelayEnds, Set
  <1> QED
    BY <1>1, <1>2, <1>3 DEF Next, vars, goroutines, Request, Dial, DialFails,
       Send, RequestFails, CallReturns, Sample, StreamEnds, Reconnect, Stop,
       Cancel, Goroutine, Watch, Read, HangUp, Say

(* A call that returns, and a reader that ends, tell their watcher.        *)
LEMMA WatchersStep ==
    ASSUME TypeOK, RequestsHaveConns, ListensTo, WatchersAreNeeded,
           [Next]_vars
    PROVE  WatchersAreNeeded'
  <1> USE DEF WatchersAreNeeded, TypeOK
  <1>1. CASE UNCHANGED <<watcher, reader, cur>>
    BY <1>1
  <1>2. CASE Dial
    <2>1. cur = NoConn
      BY <1>2 DEF Dial, RequestsHaveConns
    <2>2. UNCHANGED reader
      BY <1>2 DEF Dial
    <2> QED
      BY <1>2, <2>1, <2>2, DialsAFree, TransportAssumption DEF Set
  <1>3. CASE UNCHANGED <<watcher, reader>> /\ cur = NoConn
    BY <1>3, TransportAssumption
  <1>4. CASE RequestFails \/ CallReturns
    <2>1. cur \in Conns /\ Close(cur) /\ UNCHANGED reader
      BY <1>4
         DEF RequestFails, CallReturns, Received, RequestsHaveConns
    <2> QED
      BY <2>1 DEF Close, Set
  <1>5. CASE Subscribed
    <2>1. cur \in Conns
      BY <1>5 DEF Subscribed, Received, RequestsHaveConns
    <2> QED
      BY <1>5, <2>1 DEF Subscribed, Set
  <1>6. ASSUME NEW c \in Conns, Watch(c) \/ ReadFails(c)
        PROVE  WatchersAreNeeded'
    BY <1>6 DEF Watch, ReadFails, Close, Set, loop
  <1>7. CASE DialFails \/ Sample \/ Reconnect
    BY <1>3, <1>7 DEF DialFails, Sample, Reconnect, RequestsHaveConns,
       Requesting, goroutines
  <1> QED
    BY <1>1, <1>2, <1>4, <1>5, <1>6, <1>7 DEF Next, vars, goroutines, loop,
       Request, Send, StreamEnds, Stop, Cancel, Goroutine, Read, RelayEnds,
       HangUp, Say

(* The loop lets a subscription go only when its relay has ended, when its *)
(* confirmation fails, or when the loop itself ends.                       *)
LEMMA LeaksStep ==
    ASSUME TypeOK, RequestsHaveConns, ListensTo, ReadersAreRelayed,
           LeaksAreUnconfirmed, [Next]_vars
    PROVE  LeaksAreUnconfirmed'
  <1> USE DEF LeaksAreUnconfirmed, TypeOK
  <1>1. CASE UNCHANGED <<reader, stream, unconfirmed, cancelled, at>>
    BY <1>1
  <1>2. CASE Dial
    BY <1>2, DialsAFree DEF Dial, Free, Quiet
  <1>3. CASE DialFails \/ RequestFails
    <2>1. /\ UNCHANGED <<reader, cancelled>> /\ at # "over"
          /\ unconfirmed \subseteq unconfirmed'
          /\ \/ stream' = stream
             \/ stream = NoConn
             \/ stream \in unconfirmed'
             \/ at' = "over"
      BY <1>3, LoopAfterFailure DEF DialFails, RequestFails, Received,
         goroutines, RequestsHaveConns, Requesting
    <2> QED
      BY <2>1, TransportAssumption
  <1>4. CASE CallReturns
    <2>1. UNCHANGED <<reader, cancelled, unconfirmed>> /\ at # "over"
      BY <1>4 DEF CallReturns, Received, RequestsHaveConns, Requesting
    <2>2. stream' = stream
      BY <1>4 DEF CallReturns, Succeeded
    <2> QED
      BY <2>1, <2>2
  <1>5. CASE Subscribed
    <2>1. /\ cur \in Conns /\ at = "subscribe"
          /\ stream = NoConn
          /\ UNCHANGED <<cancelled, unconfirmed>>
          /\ \A c \in Conns :
               reader'[c] = IF c = cur THEN "reading" ELSE reader[c]
      BY <1>5 DEF Subscribed, Received, RequestsHaveConns, ListensTo, Set
    <2>2. stream' = cur
      BY <1>5, <2>1 DEF Subscribed, Succeeded
    <2> QED
      BY <2>1, <2>2, TransportAssumption
  <1>6. CASE StreamEnds
    BY <1>6 DEF StreamEnds, ReadersAreRelayed, goroutines
  <1>7. CASE Sample \/ Reconnect \/ Stop \/ Cancel
    BY <1>7 DEF Sample, Reconnect, Stop, Cancel, Begin, goroutines, loop
  <1>8. ASSUME NEW c \in Conns, ReadFails(c)
        PROVE  LeaksAreUnconfirmed'
    BY <1>8 DEF ReadFails, Set, loop
  <1> QED
    BY <1>1, <1>2, <1>3, <1>4, <1>5, <1>6, <1>7, <1>8 DEF Next, vars,
       goroutines, loop, Request, Send, Goroutine, Watch, Read, RelayEnds,
       HangUp, Say

LEMMA LinkInvStep ==
    ASSUME TypeOK, LinkInv, [Next]_vars
    PROVE  LinkInv'
  BY LoopInvStep, RelayedStep, WatchersStep, LeaksStep DEF LinkInv, LoopInv

LEMMA LinkInvHolds == Spec => []LinkInv
  BY LinkInvInit, LinkInvStep, TransportTyping, PTL DEF Spec

(* While the loop runs, a subscription that nobody listens to is one whose *)
(* confirmation failed (LeaksAreUnconfirmed): no other path of runEvents   *)
(* forgets an open one, however many connections there are.                *)
THEOREM OnlyUnconfirmedLeak == Spec => []LeaksAreUnconfirmed
  BY LinkInvHolds, PTL DEF LinkInv

(* A goroutine that waits for the context's end watches the request in     *)
(* progress or a subscription that is read (WatchersAreNeeded): those of   *)
(* calls that returned do not accumulate.                                  *)
THEOREM NoWatcherAccumulates == Spec => []WatchersAreNeeded
  BY LinkInvHolds, PTL DEF LinkInv

=============================================================================
