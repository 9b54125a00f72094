------------------------- MODULE HerdrRuntime_proofs -------------------------
(***************************************************************************)
(* Proofs about HerdrRuntime, for any buffer of the event stream, any      *)
(* number of topologies and of retries.                                    *)
(*                                                                         *)
(* The argument: a committed change puts an announcement on the wire; the  *)
(* reader and the relay drop one only when another one waits behind it;    *)
(* and the loop takes the signal before it reads the topology.  So a       *)
(* sample is either current or outlived by a wake-up.                      *)
(***************************************************************************)
EXTENDS HerdrRuntime, TLAPS

(* Outside of a rebuild nothing is kept from the last one.                 *)
SampleIsFresh == phase \notin Rebuilding => sample = Unread

(* NothingMissed, from the moment a result is applied.                     *)
Followed ==
    phase \in {"announce", "publish", "select"} /\ conn = "open" =>
        \/ WakeUpPending
        \/ followed.topology = topology /\ ~followed.failed
        \/ followed.failed /\ (shown.apps => shown.stale)

FollowInv ==
    SampleIsFresh /\ NoStaleSample /\ Followed /\ ShownIsFollowed

-----------------------------------------------------------------------------
(* Snapshots with applications.                                            *)
Views == [apps : {TRUE}, topology : Topologies, stale : BOOLEAN]

LEMMA ShownViews ==
    ASSUME NEW s \in Snapshots, s.apps
    PROVE  s \in Views
  <1>1. s \in {Empty} \cup Views
    BY DEF Snapshots, Views
  <1>2. s # Empty
    BY DEF Empty
  <1> QED
    BY <1>1, <1>2

(* A degraded snapshot is one of the snapshots, and stale.                 *)
LEMMA DegradedIsStale ==
    ASSUME shown \in Snapshots, shown.apps
    PROVE  Degraded \in Snapshots /\ Degraded.apps /\ Degraded.stale
  <1>1. shown \in Views
    BY ShownViews
  <1>2. Degraded \in Views /\ Degraded.stale /\ Degraded.apps
    BY <1>1 DEF Views, Degraded
  <1> QED
    BY <1>2 DEF Snapshots, Views

(* MarkStale leaves a snapshot that shows nothing as current.              *)
LEMMA MarkedIsStale ==
    ASSUME shown \in Snapshots, MarkStale
    PROVE  shown' \in Snapshots /\ (shown'.apps => shown'.stale)
  <1>1. CASE ~shown.apps
    <2>1. shown' = shown
      BY <1>1 DEF MarkStale
    <2> QED
      BY <1>1, <2>1
  <1>2. CASE shown.apps
    <2>1. shown \in Views
      BY <1>2, ShownViews
    <2>2. shown' = [shown EXCEPT !.stale = TRUE]
      BY <1>2 DEF MarkStale
    <2>3. shown' \in Views /\ shown'.stale
      BY <2>1, <2>2 DEF Views
    <2> QED
      BY <2>3 DEF Snapshots, Views
  <1> QED
    BY <1>1, <1>2

-----------------------------------------------------------------------------
(* The loop gives up at its last retry, so the count stays below it.       *)
TypeInv == TypeOK /\ (phase # "exited" => failures < Retries)

LEMMA TypeInvStep == TypeInv /\ [Next]_vars => TypeInv'
  <1> SUFFICES ASSUME TypeInv, [Next]_vars
               PROVE  TypeInv'
    OBVIOUS
  <1> USE BoundsAssumption DEF TypeInv, TypeOK, Phases, Rebuilding, Troubles
  <1>1. CASE UNCHANGED vars
    BY <1>1 DEF vars
  <1>2. CASE Environment
    <2>1. CASE Commit
      BY <2>1 DEF Commit, loop
    <2>2. CASE Listen
      BY <2>2 DEF Listen, stream, loop
    <2>3. CASE Disturb
      BY <2>3 DEF Disturb, stream, loop
    <2>4. CASE Cancel
      BY <2>4 DEF Cancel, stream, loop
    <2>5. CASE Disconnect
      BY <2>5 DEF Disconnect, world, loop
    <2> QED
      BY <1>2, <2>1, <2>2, <2>3, <2>4, <2>5 DEF Environment
  <1>3. CASE ReadEvent \/ Relay
    <2>1. CASE ReadEvent
      BY <2>1 DEF ReadEvent, world, loop
    <2>2. CASE Relay
      BY <2>2 DEF Relay, world, loop
    <2> QED
      BY <1>3, <2>1, <2>2
  <1>4. CASE Sample
    BY <1>4 DEF Sample, world, stream
  <1>5. CASE Baseline \/ Subscribe \/ Backoff
    <2>1. CASE Baseline
      BY <2>1 DEF Baseline, AttemptFails, world, stream
    <2>2. CASE Subscribe
      BY <2>2 DEF Subscribe, AttemptFails, world, stream
    <2>3. CASE Backoff
      BY <2>3 DEF Backoff, world, stream
    <2> QED
      BY <1>5, <2>1, <2>2, <2>3
  <1>5a. CASE Acknowledge
    <2>1. /\ topology' = topology /\ listening' = listening
          /\ trouble' = trouble /\ cancelled' = cancelled
          /\ sample' = sample /\ shown' = shown /\ followed' = followed
      BY <1>5a DEF Acknowledge, world
    <2>2. /\ conn' \in {"none", "open", "lost"}
          /\ wire' \in 0 .. MaxWire
          /\ events' \in 0 .. EventBuffer
          /\ signal' \in BOOLEAN
      <3>1. CASE conn' = "open" /\ wire' = 0 /\ events' = 0
                 /\ signal' = FALSE
        <4>1. 0 \in 0 .. MaxWire /\ 0 \in 0 .. EventBuffer
          OBVIOUS
        <4>2. conn' \in {"none", "open", "lost"} /\ signal' \in BOOLEAN
          BY <3>1
        <4> QED
          BY <3>1, <4>1, <4>2
      <3>2. CASE UNCHANGED stream
        BY <3>2 DEF stream
      <3> QED
        BY <1>5a, <3>1, <3>2 DEF Acknowledge, Opened
    <2>3. /\ phase' \in Phases /\ failures' \in 0 .. Retries
          /\ phase' # "exited" => failures' < Retries
      <3>1. failures \in 0 .. Retries /\ failures < Retries
        BY <1>5a DEF Acknowledge
      <3>2. CASE phase' = "confirm" /\ failures' = failures
        BY <3>1, <3>2
      <3>3. CASE AttemptFails
        BY <3>1, <3>3 DEF AttemptFails
      <3> QED
        BY <1>5a, <3>2, <3>3 DEF Acknowledge, Opened
    <2> QED
      BY <2>1, <2>2, <2>3
  <1>6. CASE Announce \/ TakeSignal \/ Tick \/ Publish \/ StreamEnds \/ Stop
    <2>1. CASE Announce \/ Publish
      BY <2>1 DEF Announce, Publish, world, stream
    <2>2. CASE TakeSignal
      BY <2>2 DEF TakeSignal, world
    <2>3. CASE Tick \/ StreamEnds \/ Stop
      BY <2>3 DEF Tick, StreamEnds, Stop, world, stream
    <2> QED
      BY <1>6, <2>1, <2>2, <2>3
  <1>7. ASSUME NEW result \in Results, Apply(result)
        PROVE  /\ shown' \in Snapshots
               /\ followed' \in [topology : Topologies \cup {Unread},
                                  failed : BOOLEAN]
    <2>1. CASE result = Degraded /\ shown.apps
      BY <1>7, <2>1, DegradedIsStale DEF Apply
    <2>2. CASE result = Fresh /\ sample # Unread
      BY <1>7, <2>2 DEF Apply, Fresh, Snapshots
    <2> QED
      BY <1>7, <2>1, <2>2 DEF Results
  <1>8. CASE Confirm
    <2>1. shown' \in Snapshots
          /\ followed' \in [topology : Topologies \cup {Unread},
                             failed : BOOLEAN]
      BY <1>7, <1>8 DEF Confirm
    <2> QED
      BY <1>8, <2>1 DEF Confirm, AttemptFails, world, stream
  <1>9. CASE Rebuild
    <2>1. shown' \in Snapshots
          /\ followed' \in [topology : Topologies \cup {Unread},
                             failed : BOOLEAN]
      <3>1. CASE \E result \in Results : Apply(result)
        BY <1>7, <3>1
      <3>2. CASE MarkStale /\ followed' = [topology |-> sample, failed |-> TRUE]
        <4>1. shown' \in Snapshots
          BY <3>2, MarkedIsStale
        <4> QED
          BY <3>2, <4>1
      <3> QED
        BY <1>9, <3>1, <3>2 DEF Rebuild
    <2> QED
      BY <1>9, <2>1 DEF Rebuild, world, stream
  <1> QED
    BY <1>1, <1>2, <1>3, <1>4, <1>5, <1>5a, <1>6, <1>8, <1>9
       DEF Next, Attempt, Following

LEMMA TypeInvHolds == Spec => []TypeInv
  <1>1. Init => TypeInv
    <2>1. Empty \in Snapshots
      BY DEF Snapshots
    <2>2. [topology |-> Unread, failed |-> FALSE]
            \in [topology : Topologies \cup {Unread}, failed : BOOLEAN]
      OBVIOUS
    <2>3. Init => shown \in Snapshots
                  /\ followed \in [topology : Topologies \cup {Unread},
                                   failed : BOOLEAN]
      BY <2>1, <2>2 DEF Init
    <2>4. Init => wire \in 0 .. MaxWire /\ events \in 0 .. EventBuffer
                  /\ failures \in 0 .. Retries /\ failures < Retries
      BY BoundsAssumption DEF Init
    <2>5. Init => /\ topology \in Topologies /\ listening \in BOOLEAN
                  /\ trouble \in Troubles
                  /\ cancelled \in BOOLEAN
                  /\ conn \in {"none", "open", "lost"}
                  /\ signal \in BOOLEAN
                  /\ phase \in Phases
                  /\ sample \in Topologies \cup {Unread}
      BY DEF Init, Phases, Rebuilding, Troubles
    <2> QED
      BY <2>3, <2>4, <2>5 DEF TypeInv, TypeOK
  <1> QED
    BY <1>1, TypeInvStep, PTL DEF Spec

(* The variables keep their types (TypeOK).                                *)
THEOREM Typing == Spec => []TypeOK
  <1>1. TypeInv => TypeOK
    BY DEF TypeInv
  <1> QED
    BY <1>1, TypeInvHolds, PTL

-----------------------------------------------------------------------------
LEMMA FollowInvStep ==
    ASSUME TypeInv, FollowInv, [Next]_vars
    PROVE  FollowInv'
  <1> USE DEF FollowInv, SampleIsFresh, NoStaleSample, Followed,
              ShownIsFollowed, WakeUpPending, Rebuilding
  <1>a. wire \in Nat /\ events \in Nat /\ shown \in Snapshots
    BY DEF TypeInv, TypeOK
  <1>1. CASE UNCHANGED vars
    BY <1>1 DEF vars
  <1>2. CASE Commit
    BY <1>2, <1>a DEF Commit, loop
  <1>3. CASE Listen \/ Disturb \/ Cancel \/ Disconnect
    BY <1>3 DEF Listen, Disturb, Cancel, Disconnect, world, stream, loop
  <1>4. CASE ReadEvent \/ Relay
    BY <1>4, <1>a, BoundsAssumption DEF ReadEvent, Relay, world, loop
  <1>5. CASE Sample
    BY <1>5 DEF Sample, world, stream
  <1>6. CASE Baseline \/ Subscribe \/ Acknowledge \/ Backoff
    BY <1>6 DEF Baseline, Subscribe, Acknowledge, Opened, Backoff,
                AttemptFails, world, stream
  <1>7. CASE Announce \/ Publish \/ Tick \/ StreamEnds \/ Stop
    BY <1>7 DEF Announce, Publish, Tick, StreamEnds, Stop, AttemptFails,
                world, stream
  <1>8. CASE TakeSignal
    BY <1>8 DEF TakeSignal, world
  <1>9. ASSUME NEW result \in Results, Apply(result)
        PROVE  /\ followed'.topology = sample /\ sample # Unread
               /\ followed'.failed => (shown'.apps => shown'.stale)
               /\ ShownIsFollowed'
    <2>1. CASE result = Degraded /\ shown.apps
      <3>1. sample # Unread
        BY <1>9 DEF Results
      <3>2. Degraded.apps /\ Degraded.stale
        BY <2>1, <1>a, DegradedIsStale
      <3> QED
        BY <1>9, <2>1, <3>1, <3>2 DEF Apply
    <2>2. CASE result = Fresh
      BY <1>9, <2>2 DEF Apply, Results, Fresh, Empty
    <2> QED
      BY <1>9, <2>1, <2>2 DEF Results
  <1>10. CASE Confirm
    <2>1. SampleIsFresh' /\ NoStaleSample'
      BY <1>10 DEF Confirm, AttemptFails, world, stream
    <2>2. Followed' /\ ShownIsFollowed'
      BY <1>9, <1>10 DEF Confirm, AttemptFails, world, stream
    <2> QED
      BY <2>1, <2>2
  <1>11. CASE Rebuild
    <2>1. SampleIsFresh' /\ NoStaleSample'
      BY <1>11 DEF Rebuild, world, stream
    <2>2. Followed' /\ ShownIsFollowed'
      BY <1>9, <1>11, <1>a, MarkedIsStale DEF Rebuild, world, stream
    <2> QED
      BY <2>1, <2>2
  <1> QED
    BY <1>1, <1>2, <1>3, <1>4, <1>5, <1>6, <1>7, <1>8, <1>10, <1>11
       DEF Next, Environment, Attempt, Following

LEMMA FollowInvHolds == Spec => []FollowInv
  <1>1. Init => FollowInv
    BY DEF Init, FollowInv, SampleIsFresh, NoStaleSample, Followed,
           ShownIsFollowed, Empty, Rebuilding
  <1>2. TypeInv /\ FollowInv /\ [Next]_vars => FollowInv'
    BY FollowInvStep
  <1> QED
    BY <1>1, <1>2, TypeInvHolds, PTL DEF Spec

(* While the loop waits it has followed every change of Herdr, or will be  *)
(* woken, or shows that it could not (NothingMissed).                      *)
THEOREM EveryChangeIsFollowed == Spec => []NothingMissed
  <1>1. FollowInv => NothingMissed
    BY DEF FollowInv, Followed, NothingMissed
  <1> QED
    BY <1>1, FollowInvHolds, PTL

(* A rebuild from an old topology is followed by another (NoStaleSample).  *)
THEOREM OldSamplesAreOutlived == Spec => []NoStaleSample
  <1>1. FollowInv => NoStaleSample
    BY DEF FollowInv
  <1> QED
    BY <1>1, FollowInvHolds, PTL

(* What is shown as current is what the last rebuild read                  *)
(* (ShownIsFollowed).                                                      *)
THEOREM CurrentMeansFollowed == Spec => []ShownIsFollowed
  <1>1. FollowInv => ShownIsFollowed
    BY DEF FollowInv
  <1> QED
    BY <1>1, FollowInvHolds, PTL
=============================================================================
