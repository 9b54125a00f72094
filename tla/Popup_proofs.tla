----------------------------- MODULE Popup_proofs -----------------------------
(***************************************************************************)
(* Proofs about Popup, for any lists of applications, any number of        *)
(* actions at once and any number of daemons, one after the other.         *)
(***************************************************************************)
EXTENDS Popup, FiniteSetTheorems, WellFoundedInduction, TLAPS

(* A confirmation that is pending is that of the last key, and of an       *)
(* application that was shown.                                             *)
PendingIsLast ==
    ~quit /\ pending # Nothing => lastKey = pending /\ ~pending.app.external

PopupInv ==
    /\ TypeOK
    /\ PendingIsLast
    /\ OneRefreshChain
    /\ SelectionExists

-----------------------------------------------------------------------------
(* The applications that are shown.                                        *)

(* A set of naturals that is not empty has a least member.                 *)
LEMMA MinIsLeast ==
    ASSUME NEW S \in SUBSET Nat, S # {}
    PROVE  Min(S) \in S /\ \A y \in S : Min(S) <= y
  <1> DEFINE R == OpToRel(<, Nat)
  <1>1. IsWellFoundedOn(R, Nat)
    BY NatLessThanWellFounded
  <1>2. \A x, y \in Nat : y < x => <<y, x>> \in R
    BY DEF OpToRel
  <1> HIDE DEF R
  <1>3. S \subseteq Nat /\ S # {}
    OBVIOUS
  <1>4. \E x \in S : \A y \in S : ~(<<y, x>> \in R)
    BY ONLY <1>1, <1>3, WFMin, Zenon
  <1>5. PICK x \in S : \A y \in S : ~(<<y, x>> \in R)
    BY <1>4
  <1>6. ASSUME NEW y \in S
        PROVE  x <= y
    <2>1. x \in Nat /\ y \in Nat /\ ~(y < x)
      BY <1>2, <1>3, <1>5
    <2> QED
      BY <2>1
  <1> QED
    BY <1>6 DEF Min

(* Every rank is that of a row: it is of the first one that reaches it.    *)
LEMMA EveryRankIsReached ==
    ASSUME NEW n \in Nat, NEW rows \in SUBSET (1 .. n),
           NEW k \in 1 .. Cardinality(rows)
    PROVE  \E i \in rows : Cardinality(UpTo(rows, i)) = k
  <1> DEFINE Rank(i) == Cardinality(UpTo(rows, i))
             S == {i \in 0 .. n : Rank(i) >= k}
  <1>0. \A j \in rows : j \in Nat /\ 1 <= j /\ j <= n
    OBVIOUS
  <1>1. IsFiniteSet(1 .. n)
    BY FS_Interval
  <1>2. IsFiniteSet(rows)
    BY <1>1, FS_Subset
  <1>3. \A i : IsFiniteSet(UpTo(rows, i)) /\ Rank(i) \in Nat
    <2>1. \A i : UpTo(rows, i) \subseteq rows
      BY DEF UpTo
    <2> QED
      BY <1>2, <2>1, FS_Subset, FS_CardinalityType
  <1>4. Cardinality(rows) \in Nat /\ k \in Nat /\ k >= 1
    BY <1>2, FS_CardinalityType
  <1>5. UpTo(rows, n) = rows
    BY <1>0 DEF UpTo
  <1>6. S \in SUBSET Nat /\ S # {}
    <2>1. Rank(n) >= k
      BY <1>4, <1>5
    <2> QED
      BY <2>1
  <1> DEFINE m == Min(S)
  <1>7. m \in S /\ \A y \in S : m <= y
    BY <1>6, MinIsLeast
  <1> HIDE DEF m
  <1>8. Rank(0) = 0
    <2>1. UpTo(rows, 0) = {}
      <3>1. \A j \in rows : ~(j <= 0)
        BY <1>0
      <3> QED
        BY <3>1 DEF UpTo
    <2> QED
      BY <2>1, FS_EmptySet
  <1>9. m \in 1 .. n /\ m - 1 \in 0 .. n /\ ~(Rank(m - 1) >= k)
    <2>1. m # 0
      BY <1>4, <1>7, <1>8
    <2>2. m \in 1 .. n /\ m - 1 \in 0 .. n
      BY <1>7, <2>1
    <2>3. ~(m <= m - 1)
      BY <2>2
    <2> QED
      BY <1>7, <2>2, <2>3
  <1>10. m \in rows /\ Rank(m) <= Rank(m - 1) + 1
    <2>1. CASE m \in rows
      <3>1. UpTo(rows, m) = UpTo(rows, m - 1) \cup {m}
        <4>1. \A j \in rows : j <= m <=> j <= m - 1 \/ j = m
          BY <1>0, <1>9
        <4> QED
          BY <2>1, <4>1 DEF UpTo
      <3>2. m \notin UpTo(rows, m - 1)
        BY <1>9 DEF UpTo
      <3>3. Rank(m) = Rank(m - 1) + 1
        BY <1>3, <3>1, <3>2, FS_AddElement
      <3> QED
        BY <1>3, <2>1, <3>3
    <2>2. CASE m \notin rows
      <3>1. UpTo(rows, m) = UpTo(rows, m - 1)
        <4>1. \A j \in rows : j <= m <=> j <= m - 1
          BY <1>0, <1>9, <2>2
        <4> QED
          BY <4>1 DEF UpTo
      <3> QED
        BY <1>7, <1>9, <3>1
    <2> QED
      BY <2>1, <2>2
  <1>11. Rank(m) \in Nat /\ Rank(m - 1) \in Nat /\ Rank(m) >= k
    BY <1>3, <1>7
  <1>12. Rank(m) = k
    BY <1>4, <1>9, <1>10, <1>11
  <1> QED
    BY <1>10, <1>12

(* What is shown of a list is a sequence of its applications that are not  *)
(* external.                                                               *)
LEMMA VisibleShows ==
    ASSUME NEW list \in Lists
    PROVE  /\ Visible[list] \in Seq(Apps)
           /\ \A n \in DOMAIN Visible[list] : ~Visible[list][n].external
  <1> DEFINE rows == ShownRows(list)
             row(n) == CHOOSE i \in rows : Cardinality(UpTo(rows, i)) = n
  <1>1. list \in Seq(Apps)
    BY ListsAssumption
  <1>2. Len(list) \in Nat /\ rows \in SUBSET (1 .. Len(list))
    BY <1>1 DEF ShownRows
  <1>3. \A n \in 1 .. Cardinality(rows) : row(n) \in rows
    BY <1>2, EveryRankIsReached
  <1>4. Visible[list] = [n \in 1 .. Cardinality(rows) |-> list[row(n)]]
    BY DEF Visible
  <1> HIDE DEF row
  <1>5. \A i \in rows : list[i] \in Apps /\ ~list[i].external
    BY <1>1 DEF ShownRows
  <1>6. Cardinality(rows) \in Nat
    <2> DEFINE n == Len(list)
    <2> HIDE DEF n, rows
    <2>1. n \in Int /\ rows \in SUBSET (1 .. n)
      BY <1>2 DEF n
    <2>2. IsFiniteSet(1 .. n)
      BY <2>1, FS_Interval
    <2> QED
      BY <2>1, <2>2, FS_Subset, FS_CardinalityType
  <1> HIDE DEF rows
  <1>7. \A n \in 1 .. Cardinality(rows) :
          list[row(n)] \in Apps /\ ~list[row(n)].external
    BY <1>3, <1>5
  <1>8. Visible[list] \in Seq(Apps)
    BY <1>4, <1>6, <1>7
  <1> QED
    BY <1>4, <1>7, <1>8

(* The cursor stays in the list that replaces the one shown.               *)
LEMMA CursorStaysInside ==
    ASSUME NEW list \in Seq(Apps), cursor \in Nat
    PROVE  /\ CursorAfter(list) \in Nat
           /\ list # <<>> => CursorAfter(list) < Len(list)
           /\ RowsOfSelected(list) # {} =>
                /\ CursorAfter(list) + 1 \in DOMAIN list
                /\ list[CursorAfter(list) + 1].id = Shown[cursor + 1].id
  <1>1. Len(list) \in Nat /\ DOMAIN list = 1 .. Len(list)
        /\ (list # <<>> => Len(list) >= 1)
    OBVIOUS
  <1>2. CASE RowsOfSelected(list) # {}
    <2> DEFINE rows == RowsOfSelected(list)
    <2>1. rows \in SUBSET Nat /\ rows # {} /\ rows \subseteq DOMAIN list
      BY <1>1, <1>2 DEF RowsOfSelected
    <2>2. Min(rows) \in rows
      BY <2>1, MinIsLeast
    <2>3. list[Min(rows)].id = Shown[cursor + 1].id
      BY <2>2 DEF RowsOfSelected
    <2>4. CursorAfter(list) = Min(rows) - 1
      BY <1>2 DEF CursorAfter
    <2>5. Min(rows) \in 1 .. Len(list)
      BY <1>1, <2>1, <2>2
    <2> HIDE DEF rows
    <2>6. CursorAfter(list) + 1 = Min(rows)
      BY <2>4, <2>5
    <2> QED
      BY <1>1, <2>3, <2>4, <2>5, <2>6
  <1>3. CASE RowsOfSelected(list) = {}
    <2>1. LastRow(list) \in Nat /\ (list # <<>> => LastRow(list) < Len(list))
      BY <1>1 DEF LastRow
    <2> DEFINE last == LastRow(list)
    <2> HIDE DEF last
    <2>2. last \in Nat
      BY <2>1 DEF last
    <2>3. {cursor, last} \in SUBSET Nat
      BY <2>2
    <2>4. Min({cursor, last}) \in Nat /\ Min({cursor, last}) <= last
      BY <2>3, MinIsLeast
    <2>5. CursorAfter(list) = Min({cursor, last})
      BY <1>3 DEF CursorAfter, last
    <2> QED
      BY <1>1, <1>3, <2>1, <2>2, <2>4, <2>5 DEF last
  <1> QED
    BY <1>2, <1>3

LEMMA NothingShown == <<>> \in Lists /\ Visible[<<>>] = <<>>
  <1>1. <<>> \in Lists
    BY ListsAssumption
  <1>2. ShownRows(<<>>) = {}
    BY DEF ShownRows
  <1>3. Cardinality({}) = 0
    BY FS_EmptySet
  <1>5. Visible[<<>>] \in Seq(Apps) /\ DOMAIN Visible[<<>>] = 1 .. 0
    BY <1>1, <1>2, <1>3, VisibleShows DEF Visible
  <1>6. \A list \in Seq(Apps) : DOMAIN list = 1 .. 0 => list = <<>>
    OBVIOUS
  <1> QED
    BY <1>1, <1>5, <1>6

-----------------------------------------------------------------------------
(* What the pieces of Update make.                                         *)

LEMMA MessagesAreTyped ==
    ASSUME TypeOK
    PROVE  /\ Failure \in Replies
           /\ \A outcome \in Outcomes : Reply(outcome) \in Replies
  <1>1. 0 \in 0 .. MaxRev
    BY BoundsAssumption
  <1>2. Failure \in Replies
    BY <1>1, NothingShown DEF Failure, Replies, Outcomes
  <1>3. daemon.rev \in 0 .. MaxRev /\ daemon.apps \in Lists
    BY DEF TypeOK, Snapshots
  <1> QED
    BY <1>2, <1>3 DEF Reply, Replies

LEMMA SelectedIsShown ==
    ASSUME TypeOK, HasSelection,
           NEW key \in {"t", "K", "open", "focus"}, NEW confirmed \in BOOLEAN
    PROVE  /\ Target(key, confirmed) \in Targets
           /\ ~Target(key, confirmed).app.external
  <1>1. snapshot.rev \in 0 .. MaxRev /\ snapshot.apps \in Lists
    BY DEF TypeOK, Snapshots
  <1>2. Shown \in Seq(Apps) /\ \A n \in DOMAIN Shown : ~Shown[n].external
    BY <1>1, VisibleShows DEF Shown
  <1>3. cursor + 1 \in 1 .. Len(Shown)
    BY <1>2 DEF TypeOK, HasSelection
  <1>4. Shown[cursor + 1] \in Apps /\ ~Shown[cursor + 1].external
    BY <1>2, <1>3
  <1> QED
    BY <1>1, <1>4 DEF Target, Targets

LEMMA ReplacementSelects ==
    ASSUME TypeOK, NEW reply \in Replies, ReplaceSnapshot(reply)
    PROVE  /\ snapshot' \in Snapshots /\ cursor' \in Nat
           /\ SelectionExists'
           /\ HasSelection
              /\ (\E i \in DOMAIN Shown' : Shown'[i].id = Shown[cursor + 1].id)
              => Shown'[cursor' + 1].id = Shown[cursor + 1].id
  <1>1. reply.rev \in 0 .. MaxRev /\ reply.apps \in Lists
    BY DEF Replies
  <1>2. snapshot' = [rev |-> reply.rev, apps |-> reply.apps]
        /\ cursor' = CursorAfter(Visible[reply.apps])
    BY DEF ReplaceSnapshot
  <1>3. snapshot' \in Snapshots /\ snapshot'.apps = reply.apps
    BY <1>1, <1>2 DEF Snapshots
  <1>4. Shown' = Visible[reply.apps]
    BY <1>3 DEF Shown
  <1> DEFINE list == Visible[reply.apps]
  <1>5. list \in Seq(Apps)
    BY <1>1, VisibleShows
  <1> HIDE DEF list
  <1>6. cursor \in Nat /\ cursor' = CursorAfter(list)
    BY <1>2 DEF TypeOK, list
  <1>7. Shown' = list
    BY <1>4 DEF list
  <1>8. /\ cursor' \in Nat
        /\ list # <<>> => cursor' < Len(list)
        /\ RowsOfSelected(list) # {} =>
             list[cursor' + 1].id = Shown[cursor + 1].id
    BY <1>5, <1>6, CursorStaysInside
  <1>9. SelectionExists'
    BY <1>7, <1>8 DEF SelectionExists, HasSelection
  <1>10. /\ HasSelection
         /\ \E i \in DOMAIN list : list[i].id = Shown[cursor + 1].id
         => RowsOfSelected(list) # {}
    BY DEF RowsOfSelected
  <1> QED
    BY <1>3, <1>7, <1>8, <1>9, <1>10

LEMMA DispatchIsTyped ==
    ASSUME TypeOK, HasSelection,
           NEW key \in {"t", "K", "open", "focus"}, NEW confirmed \in BOOLEAN,
           Dispatch(key, confirmed)
    PROVE  flights' \in [Slots -> Flights]
  <1>1. Target(key, confirmed) \in Targets
    BY SelectedIsShown
  <1>2. [stage |-> "sent", target |-> Target(key, confirmed)] \in Flights
    BY <1>1 DEF Flights
  <1> DEFINE flight == [stage |-> "sent", target |-> Target(key, confirmed)]
  <1>3. \E s \in Slots : flights' = [flights EXCEPT ![s] = flight]
    BY DEF Dispatch
  <1> HIDE DEF flight
  <1>4. flight \in Flights /\ flights \in [Slots -> Flights]
    BY <1>2 DEF flight, TypeOK
  <1> QED
    BY <1>3, <1>4

-----------------------------------------------------------------------------
(* The invariant.                                                          *)

LEMMA PopupInvInit == Init => PopupInv
  <1> SUFFICES ASSUME Init
               PROVE  PopupInv
    OBVIOUS
  <1>1. 0 \in 0 .. MaxRev /\ 0 \in 0 .. MaxRestarts
    BY BoundsAssumption
  <1>2. daemon \in Snapshots /\ snapshot \in Snapshots
    BY <1>1, NothingShown DEF Init, Snapshots
  <1>3. flights \in [Slots -> Flights]
    BY DEF Init, Flights
  <1>4. TypeOK
    <2>1. /\ cursor \in Nat /\ ticks \in Nat /\ asking \in Nat
          /\ refreshing \in BOOLEAN /\ quit \in BOOLEAN
      BY DEF Init
    <2>2. replies \in Seq(Replies)
      BY DEF Init
    <2>3. /\ restarts \in 0 .. MaxRestarts
          /\ pending = Nothing /\ eligible = Nothing /\ lastKey = Nothing
      BY <1>1 DEF Init
    <2> QED
      BY <1>2, <1>3, <2>1, <2>2, <2>3 DEF TypeOK
  <1>5. Shown = <<>>
    BY NothingShown DEF Init, Shown
  <1>6. OneRefreshChain
    BY DEF Init, OneRefreshChain
  <1> QED
    BY <1>4, <1>5, <1>6 DEF Init, PopupInv, PendingIsLast, SelectionExists

LEMMA PopupTypingStep ==
    PopupInv /\ [Next]_vars => TypeOK'
  <1> SUFFICES ASSUME PopupInv, [Next]_vars
               PROVE  TypeOK'
    OBVIOUS
  <1> USE DEF PopupInv
  <1>1. CASE Publish
    <2>1. PICK list \in Lists :
            daemon' = [rev |-> daemon.rev + 1, apps |-> list]
      BY <1>1 DEF Publish
    <2>2. daemon.rev + 1 \in 0 .. MaxRev
      BY <1>1, BoundsAssumption DEF Publish, TypeOK, Snapshots
    <2>3. daemon' \in Snapshots
      BY <2>1, <2>2 DEF Snapshots
    <2> QED
      BY <1>1, <2>3 DEF Publish, TypeOK, cycle
  <1>2. CASE Restart
    <2>1. daemon' \in Snapshots
      BY <1>2, NothingShown, BoundsAssumption DEF Restart, Snapshots
    <2>2. restarts' \in 0 .. MaxRestarts
      BY <1>2, BoundsAssumption DEF Restart, TypeOK
    <2> QED
      BY <1>2, <2>1, <2>2 DEF Restart, TypeOK, cycle
  <1>3. CASE Tick
    <2>1. ticks' \in Nat /\ asking' \in Nat /\ refreshing' \in BOOLEAN
      <3>1. ticks \in Nat /\ asking \in Nat /\ refreshing \in BOOLEAN
        BY DEF TypeOK
      <3>2. ticks > 0 /\ ticks' = ticks - 1 /\ asking' \in {asking, asking + 1}
        BY <1>3 DEF Tick
      <3>3. refreshing' = refreshing \/ refreshing' = TRUE
        BY <1>3 DEF Tick
      <3>4. refreshing' \in BOOLEAN
        BY <3>1, <3>3, Zenon
      <3>5. ticks' \in Nat /\ asking' \in Nat
        BY <3>1, <3>2
      <3> QED
        BY <3>4, <3>5
    <2> QED
      BY <1>3, <2>1 DEF Tick, TypeOK, server
  <1>4. CASE Fetch \/ FetchFails
    <2>1. PICK reply \in Replies : Answer(reply)
      BY <1>4, MessagesAreTyped DEF Fetch, FetchFails, Outcomes
    <2>2. asking' \in Nat
      BY <2>1 DEF Answer, TypeOK
    <2>3. replies' \in Seq(Replies)
      <3>1. replies \in Seq(Replies) /\ replies' = Append(replies, reply)
        BY <2>1 DEF Answer, TypeOK
      <3> QED
        BY <3>1
    <2> QED
      BY <2>1, <2>2, <2>3 DEF Answer, TypeOK, server
  <1>5. CASE ReceiveRefresh
    <2> DEFINE reply == Head(replies)
    <2>1. replies \in Seq(Replies) /\ replies # <<>>
          /\ replies' = Tail(replies)
      BY <1>5 DEF ReceiveRefresh, TypeOK
    <2>2. reply \in Replies /\ replies' \in Seq(Replies)
      BY <2>1
    <2>3. \/ ReplaceSnapshot(reply) /\ InvalidateDestructiveState(reply)
          \/ UNCHANGED <<snapshot, cursor, pending, eligible>>
      BY <1>5 DEF ReceiveRefresh
    <2> HIDE DEF reply
    <2>4. snapshot' \in Snapshots /\ cursor' \in Nat
      BY <2>2, <2>3, ReplacementSelects DEF TypeOK
    <2>5. pending' \in Targets \cup {Nothing}
          /\ eligible' \in Targets \cup {Nothing}
      BY <2>3 DEF InvalidateDestructiveState, TypeOK
    <2>6. ticks' \in Nat /\ refreshing' \in BOOLEAN
      <3>1. ticks \in Nat
        BY DEF TypeOK
      <3>2. ticks' = ticks + 1
        BY <1>5 DEF ReceiveRefresh
      <3>3. refreshing' = FALSE
        BY <1>5 DEF ReceiveRefresh
      <3>4. refreshing' \in BOOLEAN
        BY <3>3, Zenon
      <3>5. ticks' \in Nat
        BY <3>1, <3>2
      <3> QED
        BY <3>4, <3>5
    <2> QED
      BY <1>5, <2>2, <2>4, <2>5, <2>6 DEF ReceiveRefresh, TypeOK, server
  <1>6. CASE Move
    <2>1. cursor' \in Nat
      BY <1>6 DEF Move, TypeOK
    <2> QED
      BY <1>6, <2>1 DEF Move, TypeOK, server, cycle
  <1>7. CASE Terminate
    <2>1. Target("t", FALSE) \in Targets
      BY <1>7, SelectedIsShown DEF Terminate
    <2>2. flights' \in [Slots -> Flights]
      BY <1>7, DispatchIsTyped DEF Terminate, TypeOK
    <2>3. pending' \in Targets \cup {Nothing} /\ lastKey' \in Targets
      BY <1>7, <2>1 DEF Terminate, Press
    <2> QED
      BY <1>7, <2>2, <2>3 DEF Terminate, Press, TypeOK, server, cycle
  <1>8. CASE Kill
    <2>1. Target("K", FALSE) \in Targets
      BY <1>8, SelectedIsShown DEF Kill
    <2>2. flights' \in [Slots -> Flights]
      BY <1>8, DispatchIsTyped DEF Kill, TypeOK
    <2>3. pending' \in Targets \cup {Nothing} /\ lastKey' \in Targets
      BY <1>8, <2>1 DEF Kill, Press
    <2> QED
      BY <1>8, <2>2, <2>3 DEF Kill, Press, TypeOK, server, cycle
  <1>9. CASE Navigate
    <2>1. flights' \in [Slots -> Flights]
      BY <1>9, DispatchIsTyped DEF Navigate, TypeOK
    <2> QED
      BY <1>9, <2>1 DEF Navigate, TypeOK, server, cycle
  <1>10. CASE Escape
    BY <1>10 DEF Escape, TypeOK, server, cycle
  <1>11. ASSUME NEW s \in Slots, Flight(s)
         PROVE  TypeOK'
    <2>1. flights \in [Slots -> Flights]
      BY DEF TypeOK
    <2>2. CASE Perform(s)
      <3>1. flights[s].stage = "sent" /\ flights[s].target \in Targets
        BY <2>1, <2>2 DEF Perform, Flights, Free
      <3>2. PICK outcome \in OutcomesOf(flights[s].target) :
              flights' = [flights EXCEPT ![s] =
                [stage |-> "done", target |-> @.target, outcome |-> outcome]]
        BY <2>2 DEF Perform
      <3>3. outcome \in Outcomes
        BY DEF OutcomesOf, Outcomes
      <3> DEFINE flight == [stage |-> "done", target |-> flights[s].target,
                            outcome |-> outcome]
      <3>4. flight \in Flights
        BY <3>1, <3>3 DEF Flights
      <3>5. flights' = [flights EXCEPT ![s] = flight]
        BY <3>2
      <3> HIDE DEF flight
      <3>6. flights' \in [Slots -> Flights]
        BY <2>1, <3>4, <3>5
      <3> QED
        BY <2>2, <3>6 DEF Perform, TypeOK, server, cycle
    <2>3. CASE Fetched(s)
      <3>1. flights[s].target \in Targets /\ flights[s].outcome \in Outcomes
        BY <2>1, <2>3 DEF Fetched, Flights, Free
      <3> DEFINE flight == [stage |-> "back", target |-> flights[s].target,
                            reply |-> Reply(flights[s].outcome)]
      <3>2. flight \in Flights
        BY <3>1, MessagesAreTyped DEF Flights
      <3>3. flights' = [flights EXCEPT ![s] = flight]
        BY <2>3 DEF Fetched
      <3> HIDE DEF flight
      <3>4. flights' \in [Slots -> Flights]
        BY <2>1, <3>2, <3>3
      <3> QED
        BY <2>3, <3>4 DEF Fetched, TypeOK, server, cycle
    <2>4. CASE PerformFails(s)
      <3>1. flights[s].target \in Targets
        BY <2>1, <2>4 DEF PerformFails, Flights, Free
      <3> DEFINE flight == [stage |-> "back", target |-> flights[s].target,
                            reply |-> Failure]
      <3>2. flight \in Flights
        BY <3>1, MessagesAreTyped DEF Flights
      <3>3. flights' = [flights EXCEPT ![s] = flight]
        BY <2>4 DEF PerformFails
      <3> HIDE DEF flight
      <3>4. flights' \in [Slots -> Flights]
        BY <2>1, <3>2, <3>3
      <3> QED
        BY <2>4, <3>4 DEF PerformFails, TypeOK, server, cycle
    <2>5. CASE ReceiveAction(s)
      <3>1. flights[s].target \in Targets /\ flights[s].reply \in Replies
        BY <2>1, <2>5 DEF ReceiveAction, Flights, Free
      <3>2. \/ ReplaceSnapshot(flights[s].reply)
            \/ UNCHANGED <<snapshot, cursor>>
        BY <2>5 DEF ReceiveAction
      <3>3. snapshot' \in Snapshots /\ cursor' \in Nat
        BY <3>1, <3>2, ReplacementSelects DEF TypeOK
      <3>4. eligible' \in Targets \cup {Nothing} /\ quit' \in BOOLEAN
        BY <2>5, <3>1 DEF ReceiveAction, TypeOK
      <3>5. flights' \in [Slots -> Flights]
        BY <2>1, <2>5 DEF ReceiveAction, Flights
      <3> QED
        BY <2>5, <3>3, <3>4, <3>5 DEF ReceiveAction, TypeOK, server, cycle
    <2> QED
      BY <1>11, <2>2, <2>3, <2>4, <2>5 DEF Flight
  <1>12. CASE UNCHANGED vars
    BY <1>12 DEF vars, TypeOK
  <1> QED
    BY <1>1, <1>2, <1>3, <1>4, <1>5, <1>6, <1>7, <1>8, <1>9, <1>10, <1>11, <1>12
       DEF Next, Keys, Refresh

(* The chain of refreshes goes on: each step that ends a part of it begins *)
(* the next one.                                                           *)
LEMMA ChainStep ==
    PopupInv /\ [Next]_vars => OneRefreshChain'
  <1> SUFFICES ASSUME PopupInv, [Next]_vars
               PROVE  OneRefreshChain'
    OBVIOUS
  <1>1. /\ ticks \in Nat /\ asking \in Nat /\ refreshing \in BOOLEAN
        /\ replies \in Seq(Replies) /\ Len(replies) \in Nat
    BY DEF PopupInv, TypeOK
  <1>2. ticks + asking + Len(replies) = 1 /\ (refreshing <=> ticks = 0)
    BY DEF PopupInv, OneRefreshChain
  <1>3. CASE Tick
    <2>1. /\ ticks > 0 /\ ticks' = ticks - 1 /\ replies' = replies
          /\ ~refreshing => refreshing' = TRUE /\ asking' = asking + 1
      BY <1>3 DEF Tick
    <2>2. ~refreshing
      BY <1>1, <1>2, <2>1
    <2> QED
      BY <1>1, <1>2, <2>1, <2>2 DEF OneRefreshChain
  <1>4. CASE Fetch \/ FetchFails
    <2>1. PICK reply \in Replies : Answer(reply)
      BY <1>4, MessagesAreTyped
         DEF PopupInv, Fetch, FetchFails, Outcomes
    <2>2. Len(replies') = Len(replies) + 1
      <3>1. replies' = Append(replies, reply)
        BY <2>1 DEF Answer
      <3> QED
        BY <1>1, <3>1
    <2>3. /\ asking > 0 /\ asking' = asking - 1 /\ ticks' = ticks
          /\ refreshing' = refreshing
      BY <2>1 DEF Answer
    <2> QED
      BY <1>1, <1>2, <2>2, <2>3 DEF OneRefreshChain
  <1>5. CASE ReceiveRefresh
    <2>1. /\ replies # <<>> /\ replies' = Tail(replies)
          /\ ticks' = ticks + 1 /\ refreshing' = FALSE /\ asking' = asking
      BY <1>5 DEF ReceiveRefresh
    <2>2. Len(replies) >= 1 /\ Len(replies') = Len(replies) - 1
      BY <1>1, <2>1
    <2> QED
      BY <1>1, <1>2, <2>1, <2>2 DEF OneRefreshChain
  <1>6. CASE UNCHANGED cycle
    BY <1>2, <1>6 DEF cycle, OneRefreshChain
  <1>7. ASSUME NEW s \in Slots, Flight(s)
        PROVE  UNCHANGED cycle
    BY <1>7 DEF Flight, Perform, Fetched, PerformFails, ReceiveAction
  <1>8. Publish \/ Restart \/ Keys \/ UNCHANGED vars => UNCHANGED cycle
    BY DEF Publish, Restart, Keys, Move, Terminate, Kill, Navigate, Escape,
           Press, vars, cycle
  <1> QED
    BY <1>3, <1>4, <1>5, <1>6, <1>7, <1>8 DEF Next, Refresh

(* What shows another list moves the cursor into it.                       *)
LEMMA SelectionStep ==
    PopupInv /\ [Next]_vars => SelectionExists'
  <1> SUFFICES ASSUME PopupInv, [Next]_vars
               PROVE  SelectionExists'
    OBVIOUS
  <1>1. TypeOK /\ SelectionExists
    BY DEF PopupInv
  <1>2. CASE UNCHANGED <<snapshot, cursor>>
    BY <1>1, <1>2 DEF SelectionExists, HasSelection, Shown
  <1>3. CASE ReceiveRefresh
    <2> DEFINE reply == Head(replies)
    <2>1. replies \in Seq(Replies) /\ replies # <<>>
      BY <1>1, <1>3 DEF ReceiveRefresh, TypeOK
    <2>2. reply \in Replies
      BY <2>1
    <2>3. ReplaceSnapshot(reply) \/ UNCHANGED <<snapshot, cursor>>
      BY <1>3 DEF ReceiveRefresh
    <2> HIDE DEF reply
    <2> QED
      BY <1>1, <1>2, <2>2, <2>3, ReplacementSelects
  <1>4. ASSUME NEW s \in Slots, ReceiveAction(s)
        PROVE  SelectionExists'
    <2>1. flights[s] \in Flights /\ flights[s].stage = "back"
      BY <1>1, <1>4 DEF ReceiveAction, TypeOK
    <2>2. flights[s].reply \in Replies
      BY <2>1 DEF Flights, Free
    <2>3. ReplaceSnapshot(flights[s].reply) \/ UNCHANGED <<snapshot, cursor>>
      BY <1>4 DEF ReceiveAction
    <2> QED
      BY <1>1, <1>2, <2>2, <2>3, ReplacementSelects
  <1>5. CASE Move
    <2>1. snapshot' = snapshot /\ cursor' \in 0 .. Len(Shown) - 1
      BY <1>5 DEF Move
    <2>2. snapshot.apps \in Lists
      BY <1>1 DEF TypeOK, Snapshots
    <2>3. Len(Shown) \in Nat
      BY <2>2, VisibleShows DEF Shown
    <2>4. Shown' = Shown
      BY <2>1 DEF Shown
    <2>5. cursor' < Len(Shown)
      BY <2>1, <2>3
    <2> QED
      BY <2>4, <2>5 DEF SelectionExists, HasSelection
  <1>6. ASSUME NEW s \in Slots, Perform(s) \/ Fetched(s) \/ PerformFails(s)
        PROVE  UNCHANGED <<snapshot, cursor>>
    BY <1>6 DEF Perform, Fetched, PerformFails
  <1>7. Publish \/ Restart \/ Tick \/ Fetch \/ FetchFails \/ Terminate
        \/ Kill \/ Navigate \/ Escape \/ UNCHANGED vars
        => UNCHANGED <<snapshot, cursor>>
    BY DEF Publish, Restart, Tick, Fetch, FetchFails, Answer, Terminate, Kill,
           Navigate, Escape, Press, vars
  <1> QED
    BY <1>2, <1>3, <1>4, <1>5, <1>6, <1>7 DEF Next, Refresh, Keys, Flight

(* A confirmation is only taken back but by the key that asks for it.      *)
LEMMA PendingStep ==
    PopupInv /\ [Next]_vars => PendingIsLast'
  <1> SUFFICES ASSUME PopupInv, [Next]_vars, ~quit', pending' # Nothing
               PROVE  lastKey' = pending' /\ ~pending'.app.external
    BY DEF PendingIsLast
  <1>1. TypeOK /\ PendingIsLast
    BY DEF PopupInv
  <1>2. CASE Terminate
    <2>1. ~quit /\ HasSelection
      BY <1>2 DEF Terminate
    <2>2. pending' = Target("t", FALSE) /\ lastKey' = Target("t", FALSE)
      BY <1>2 DEF Terminate, Press
    <2> QED
      BY <1>1, <2>1, <2>2, SelectedIsShown
  <1>3. CASE Kill
    <2>1. ~quit /\ HasSelection
      BY <1>3 DEF Kill
    <2>2. pending' = Target("K", FALSE) /\ lastKey' = Target("K", FALSE)
      BY <1>3 DEF Kill, Press
    <2> QED
      BY <1>1, <2>1, <2>2, SelectedIsShown
  <1>4. CASE /\ pending' = pending /\ lastKey' = lastKey /\ ~quit
    BY <1>1, <1>4 DEF PendingIsLast
  <1>5. CASE ReceiveRefresh
    <2>1. ~quit /\ lastKey' = lastKey /\ pending' \in {pending, Nothing}
      BY <1>5 DEF ReceiveRefresh, InvalidateDestructiveState
    <2> QED
      BY <1>1, <2>1 DEF PendingIsLast
  <1>6. Move \/ Navigate \/ Escape => FALSE
    BY DEF Move, Navigate, Escape
  <1>7. ASSUME NEW s \in Slots, Flight(s)
        PROVE  /\ pending' = pending /\ lastKey' = lastKey /\ ~quit
    BY <1>7 DEF Flight, Perform, Fetched, PerformFails, ReceiveAction
  <1>8. Publish \/ Restart \/ Tick \/ Fetch \/ FetchFails \/ UNCHANGED vars
        => /\ pending' = pending /\ lastKey' = lastKey /\ ~quit
    BY DEF Publish, Restart, Tick, Fetch, FetchFails, Answer, vars
  <1> QED
    BY <1>2, <1>3, <1>4, <1>5, <1>6, <1>7, <1>8 DEF Next, Refresh, Keys

LEMMA PopupInvStep == PopupInv /\ [Next]_vars => PopupInv'
  BY PopupTypingStep, ChainStep, SelectionStep, PendingStep DEF PopupInv

LEMMA PopupInvHolds == Spec => []PopupInv
  BY PopupInvInit, PopupInvStep, PTL DEF Spec

(* Applications that are shown differ in their name or their group.        *)
LEMMA ShownAppsDiffer ==
    ASSUME NEW a \in Apps, NEW b \in Apps, ~a.external, ~b.external,
           a.id = b.id, a.group = b.group
    PROVE  a = b
  <1>1. a = [id |-> a.id, group |-> a.group, external |-> a.external]
    BY DEF Apps
  <1>2. b = [id |-> b.id, group |-> b.group, external |-> b.external]
    BY DEF Apps
  <1>3. a.external \in BOOLEAN /\ b.external \in BOOLEAN
    BY DEF Apps
  <1>4. a.external = b.external
    BY <1>3, Zenon
  <1> QED
    BY <1>1, <1>2, <1>4

-----------------------------------------------------------------------------
(* The theorems.                                                           *)

(* What the popup keeps is of its types, whatever arrives in whatever      *)
(* order.                                                                  *)
THEOREM PopupTyping == Spec => []TypeOK
  <1>1. PopupInv => TypeOK
    BY DEF PopupInv
  <1> QED
    BY <1>1, PopupInvHolds, PTL

(* A row is selected whenever there is one to select: the detail view of   *)
(* ui.go never reads beyond the list.                                      *)
THEOREM ARowIsSelected == Spec => []SelectionExists
  <1>1. PopupInv => SelectionExists
    BY DEF PopupInv
  <1> QED
    BY <1>1, PopupInvHolds, PTL

(* There is always one tick or one refresh under way, never two: the       *)
(* refreshes of ui.go do not overlap and do not stop.                      *)
THEOREM RefreshesFollowEachOther == Spec => []OneRefreshChain
  <1>1. PopupInv => OneRefreshChain
    BY DEF PopupInv
  <1> QED
    BY <1>1, PopupInvHolds, PTL

(* A TERM or KILL is sent by the second of two presses of one key on one   *)
(* application at one revision, however the messages of refreshes and      *)
(* actions arrive in between.                                              *)
THEOREM SentOnlyIfConfirmed == Spec => ConfirmedByTwoPresses
  <1> DEFINE Sends(s) == /\ flights[s] = Free /\ flights'[s] # Free
                         /\ flights'[s].target.confirmed
             Twice(s) == /\ lastKey # Nothing
                         /\ lastKey = [flights'[s].target EXCEPT
                                         !.confirmed = FALSE]
                         /\ lastKey' = lastKey
  <1>1. ASSUME PopupInv, Next, NEW s \in Slots, Sends(s)
        PROVE  Twice(s)
    <2>1. TypeOK /\ PendingIsLast /\ flights \in [Slots -> Flights]
      BY <1>1 DEF PopupInv, TypeOK
    <2>2. ASSUME NEW key \in {"t", "K"}, ~quit, HasSelection, Confirming(key),
                 Dispatch(key, TRUE), Press(key)
          PROVE  Twice(s)
      <3>1. flights'[s].target = Target(key, TRUE)
        <4> DEFINE flight == [stage |-> "sent", target |-> Target(key, TRUE)]
        <4>1. PICK r \in Slots : flights' = [flights EXCEPT ![r] = flight]
          BY <2>2 DEF Dispatch
        <4>2. flight.target = Target(key, TRUE)
          OBVIOUS
        <4> HIDE DEF flight
        <4>3. flights'[s] = flight
          BY <1>1, <2>1, <4>1
        <4> QED
          BY <4>2, <4>3
      <3>2. lastKey = pending /\ pending # Nothing /\ ~pending.app.external
        BY <2>1, <2>2 DEF Confirming, PendingIsLast
      <3>3. pending \in Targets /\ SameTarget(pending, Target(key, FALSE))
        BY <2>1, <2>2, <3>2 DEF Confirming, TypeOK
      <3>4. /\ Target(key, FALSE) \in Targets
            /\ ~Target(key, FALSE).app.external
        BY <2>1, <2>2, SelectedIsShown
      <3>5. pending = Target(key, FALSE)
        <4> DEFINE t == Target(key, FALSE)
        <4> HIDE DEF t
        <4>1. /\ pending \in Targets /\ ~pending.app.external
              /\ t \in Targets /\ ~t.app.external
              /\ SameTarget(pending, t)
          BY <3>2, <3>3, <3>4 DEF t
        <4>2. pending.app \in Apps /\ t.app \in Apps
          BY <4>1 DEF Targets
        <4>3. pending.app.id = t.app.id /\ pending.app.group = t.app.group
          BY <4>1 DEF SameTarget, SameApp
        <4>4. pending.app = t.app
          BY <4>1, <4>2, <4>3, ShownAppsDiffer
        <4>5. /\ pending.key = t.key /\ pending.rev = t.rev
              /\ pending.confirmed = t.confirmed
          BY <4>1 DEF SameTarget
        <4>6. pending = t
          BY <4>1, <4>4, <4>5 DEF Targets
        <4> QED
          BY <4>6 DEF t
      <3>6. [Target(key, TRUE) EXCEPT !.confirmed = FALSE] = Target(key, FALSE)
        <4> DEFINE t == Target(key, TRUE)
                   u == Target(key, FALSE)
        <4>1. t \in Targets /\ u \in Targets
          BY <2>1, <2>2, SelectedIsShown
        <4>2. /\ t.key = u.key /\ t.app = u.app /\ t.rev = u.rev
              /\ u.confirmed = FALSE
          BY DEF Target
        <4> HIDE DEF t, u
        <4>3. [t EXCEPT !.confirmed = FALSE] = u
          BY <4>1, <4>2 DEF Targets
        <4> QED
          BY <4>3 DEF t, u
      <3>7. lastKey' = Target(key, FALSE)
        BY <2>2 DEF Press
      <3> QED
        BY <3>1, <3>2, <3>5, <3>6, <3>7
    <2>3. CASE Terminate
      <3>1. flights' # flights
        BY <1>1
      <3>2. /\ ~quit /\ HasSelection /\ Press("t") /\ Confirming("t")
            /\ Dispatch("t", TRUE)
        BY <2>3, <3>1 DEF Terminate
      <3> QED
        BY <2>2, <3>2
    <2>4. CASE Kill
      <3>1. flights' # flights
        BY <1>1
      <3>2. /\ ~quit /\ HasSelection /\ Press("K") /\ Confirming("K")
            /\ Dispatch("K", TRUE)
        BY <2>4, <3>1 DEF Kill
      <3> QED
        BY <2>2, <3>2
    <2>5. CASE Navigate
      <3>1. flights' # flights
        BY <1>1
      <3>2. PICK key \in {"open", "focus"} : Dispatch(key, FALSE)
        BY <2>5, <3>1 DEF Navigate
      <3> DEFINE flight == [stage |-> "sent", target |-> Target(key, FALSE)]
      <3>3. PICK r \in Slots : flights' = [flights EXCEPT ![r] = flight]
        BY <3>2 DEF Dispatch
      <3>4. ~flight.target.confirmed
        BY DEF Target
      <3> HIDE DEF flight
      <3>5. flights'[s] = flight
        BY <1>1, <2>1, <3>3
      <3> QED
        BY <1>1, <3>4, <3>5
    <2>6. ASSUME NEW r \in Slots, Flight(r)
          PROVE  Twice(s)
      <3>1. \A q \in Slots : q # r => flights'[q] = flights[q]
        BY <2>1, <2>6 DEF Flight, Perform, Fetched, PerformFails, ReceiveAction
      <3>2. flights[r].stage # "free" \/ flights'[r] = flights[r]
        BY <2>6 DEF Flight, Perform, Fetched, PerformFails, ReceiveAction
      <3>3. s # r
        BY <1>1, <3>2 DEF Free
      <3> QED
        BY <1>1, <3>1, <3>3
    <2>7. Publish \/ Restart \/ Refresh \/ Move \/ Escape
          => flights' = flights
      BY DEF Publish, Restart, Refresh, Tick, Fetch, FetchFails, Answer,
             ReceiveRefresh, Move, Escape
    <2>8. flights' # flights
      BY <1>1
    <2> QED
      BY <1>1, <2>3, <2>4, <2>5, <2>6, <2>7, <2>8 DEF Next, Keys
  <1>2. PopupInv /\ [Next]_vars
        => [\A s \in Slots :
              flights[s] = Free /\ flights'[s] # Free
              /\ flights'[s].target.confirmed
              => /\ lastKey # Nothing
                 /\ lastKey = [flights'[s].target EXCEPT !.confirmed = FALSE]
                 /\ lastKey' = lastKey]_vars
    BY <1>1
  <1> QED
    BY <1>2, PopupInvHolds, PTL DEF Spec, ConfirmedByTwoPresses

(* What arrives moves the selection only when its application is gone:     *)
(* replaceSnapshot finds it again in every list that has it.               *)
THEOREM SelectionFollows == Spec => SelectionSticks
  <1> DEFINE Sticks ==
        /\ snapshot' # snapshot /\ HasSelection
        /\ \E i \in DOMAIN Shown' : Shown'[i].id = Shown[cursor + 1].id
        => Shown'[cursor' + 1].id = Shown[cursor + 1].id
  <1>1. ASSUME PopupInv, Next, snapshot' # snapshot
        PROVE  \E reply \in Replies : ReplaceSnapshot(reply)
    <2>1. TypeOK
      BY <1>1 DEF PopupInv
    <2>2. CASE ReceiveRefresh
      <3>1. replies \in Seq(Replies) /\ replies # <<>>
        BY <2>1, <2>2 DEF ReceiveRefresh, TypeOK
      <3>2. Head(replies) \in Replies
        BY <3>1
      <3>3. ReplaceSnapshot(Head(replies))
        BY <1>1, <2>2 DEF ReceiveRefresh
      <3> QED
        BY <3>2, <3>3
    <2>3. ASSUME NEW s \in Slots, Flight(s)
          PROVE  \E reply \in Replies : ReplaceSnapshot(reply)
      <3>1. ReceiveAction(s)
        BY <1>1, <2>3 DEF Flight, Perform, Fetched, PerformFails
      <3>2. flights[s] \in Flights /\ flights[s].stage = "back"
        BY <2>1, <3>1 DEF ReceiveAction, TypeOK
      <3>3. flights[s].reply \in Replies
        BY <3>2 DEF Flights, Free
      <3>4. ReplaceSnapshot(flights[s].reply)
        BY <1>1, <3>1 DEF ReceiveAction
      <3> QED
        BY <3>3, <3>4
    <2>4. ~(Publish \/ Restart \/ Tick \/ Fetch \/ FetchFails \/ Keys)
      BY <1>1 DEF Publish, Restart, Tick, Fetch, FetchFails, Answer, Keys, Move,
                  Terminate, Kill, Navigate, Escape, Press
    <2> QED
      BY <1>1, <2>2, <2>3, <2>4 DEF Next, Refresh
  <1>2. PopupInv /\ [Next]_vars => [Sticks]_vars
    <2> SUFFICES ASSUME PopupInv, Next, snapshot' # snapshot, HasSelection,
                        \E i \in DOMAIN Shown' :
                            Shown'[i].id = Shown[cursor + 1].id
                 PROVE  Shown'[cursor' + 1].id = Shown[cursor + 1].id
      OBVIOUS
    <2>1. PICK reply \in Replies : ReplaceSnapshot(reply)
      BY <1>1
    <2>2. TypeOK
      BY DEF PopupInv
    <2> QED
      BY <2>1, <2>2, ReplacementSelects
  <1> QED
    BY <1>2, PopupInvHolds, PTL DEF Spec, SelectionSticks

=============================================================================
