----------------------- MODULE MetadataPublisher_proofs -----------------------
(***************************************************************************)
(* Proofs about MetadataPublisher, for any number of workspaces and        *)
(* whatever ports their applications have.                                 *)
(*                                                                         *)
(* What a daemon remembers of a workspace is what Herdr shows there, but   *)
(* for one that it has not touched, where it remembers nothing and an      *)
(* earlier daemon may have written.                                        *)
(***************************************************************************)
EXTENDS MetadataPublisher, FiniteSetTheorems, WellFoundedInduction, TLAPS

(* Memory and Herdr agree on a workspace this daemon has dealt with.       *)
Agrees(w) ==
    shown[w] = memory[w] \/ (memory[w] = NoValue /\ w \notin touched)

MemoryInv ==
    /\ phase \in {"fresh", "idle"} =>
         /\ todo = {}
         /\ \A w \in Workspaces : Agrees(w)
    /\ phase = "publishing" =>
         \A w \in Workspaces :
            \/ w \in todo /\ memory[w] # BoundedValue(apps[w]) /\ Agrees(w)
            \/ w \notin todo /\ memory[w] = BoundedValue(apps[w]) /\ Agrees(w)
            \/ w \notin todo /\ shown[w] = BoundedValue(apps[w])
    /\ phase = "idle" =>
         \A w \in Workspaces : memory[w] = BoundedValue(apps[w])

-----------------------------------------------------------------------------
(* Least and greatest members.                                             *)

(* A set of naturals that is not empty has a least member.                 *)
LEMMA MinIsLeast ==
    ASSUME NEW S \in SUBSET Nat, S # {}
    PROVE  Min(S) \in S /\ \A y \in S : Min(S) <= y
  <1> DEFINE R == OpToRel(<, Nat)
  <1>1. IsWellFoundedOn(R, Nat)
    BY NatLessThanWellFounded
  <1>2. \A x, y \in Nat : y < x => <<y, x>> \in R
    BY DEF OpToRel
  <1> HIDE DEF R
  <1>3. S \subseteq Nat /\ S # {}
    OBVIOUS
  <1>4. \E x \in S : \A y \in S : ~(<<y, x>> \in R)
    BY ONLY <1>1, <1>3, WFMin, Zenon
  <1>5. PICK x \in S : \A y \in S : ~(<<y, x>> \in R)
    BY <1>4
  <1>6. ASSUME NEW y \in S
        PROVE  x <= y
    <2>1. x \in Nat /\ y \in Nat /\ ~(y < x)
      BY <1>2, <1>3, <1>5
    <2> QED
      BY <2>1
  <1> QED
    BY <1>6 DEF Min

(* One that is bounded has a greatest member.                              *)
LEMMA MaxIsGreatest ==
    ASSUME NEW n \in Nat, NEW S \in SUBSET (0 .. n), S # {}
    PROVE  Max(S) \in S /\ \A y \in S : Max(S) >= y
  <1> DEFINE D == {n - k : k \in S}
  <1>1. D \in SUBSET Nat /\ D # {}
    <2>1. \A k \in S : n - k \in Nat
      OBVIOUS
    <2> QED
      BY <2>1
  <1>2. Min(D) \in D /\ \A d \in D : Min(D) <= d
    BY <1>1, MinIsLeast
  <1>3. PICK x \in S : Min(D) = n - x
    BY <1>2
  <1>4. ASSUME NEW y \in S
        PROVE  x >= y
    <2>1. n - y \in D
      OBVIOUS
    <2>2. n - x <= n - y
      BY <1>2, <1>3, <2>1
    <2> QED
      BY <2>2
  <1> QED
    BY <1>4 DEF Max

-----------------------------------------------------------------------------
(* Values.                                                                 *)

LEMMA PortsAreFinite ==
    ASSUME NEW ports \in PortSets
    PROVE  /\ IsFiniteSet(ports)
           /\ \A part \in SUBSET ports :
                IsFiniteSet(part) /\ Cardinality(part) \in Nat
  <1>1. IsFiniteSet(Ports)
    <2>1. \A last \in Int : IsFiniteSet(1 .. last)
      BY FS_Interval
    <2> DEFINE last == 65535
    <2>2. last \in Int /\ Ports = 1 .. last
      BY DEF Ports
    <2> HIDE DEF last
    <2> QED
      BY <2>1, <2>2
  <1>2. ports \in SUBSET Ports
    BY PortsAssumption
  <1>3. \A part \in SUBSET Ports : IsFiniteSet(part)
    BY <1>1, FS_Subset
  <1> QED
    BY <1>2, <1>3, FS_CardinalityType

(* A value is made of the ports it names.                                  *)
LEMMA ValueType ==
    ASSUME NEW ports \in PortSets, NEW k
    PROVE  Value(ports, k) \in Values
  <1>1. Smallest(ports, k) \subseteq ports
    BY DEF Smallest
  <1>2. Cardinality(ports \ Smallest(ports, k)) \in Nat
    BY PortsAreFinite
  <1> QED
    BY <1>1, <1>2 DEF Value, Values

(* BoundedValue is one of the values it chooses from.                      *)
LEMMA BoundedIsValue ==
    ASSUME NEW ports \in PortSets
    PROVE  \E k \in Nat :
             /\ BoundedValue(ports) = Value(ports, k)
             /\ k = 0 \/ Bytes(Value(ports, k)) <= MaxBytes
  <1> DEFINE most == Min({MaxEndpoints, Cardinality(ports)})
             fits == {k \in 0 .. most : Bytes(Value(ports, k)) <= MaxBytes}
             chosen == Max(fits \cup {0})
  <1>1. most \in Nat
    <2>1. {MaxEndpoints, Cardinality(ports)} \in SUBSET Nat
      BY PortsAreFinite, LimitsAssumption
    <2> QED
      BY <2>1, MinIsLeast
  <1>2. fits \cup {0} \in SUBSET (0 .. most) /\ fits \cup {0} # {}
    BY <1>1
  <1>3. chosen \in fits \cup {0}
    BY <1>1, <1>2, MaxIsGreatest
  <1>4. BoundedValue(ports) = Value(ports, chosen)
    BY DEF BoundedValue
  <1> HIDE DEF chosen
  <1>5. \/ chosen = 0
        \/ chosen \in 0 .. most /\ Bytes(Value(ports, chosen)) <= MaxBytes
    BY <1>3
  <1> HIDE DEF most
  <1> QED
    BY <1>1, <1>4, <1>5

(* Only a workspace without ports has no value.                            *)
LEMMA NoValueNoPorts ==
    ASSUME NEW ports \in PortSets, BoundedValue(ports) = NoValue
    PROVE  ports = {}
  <1>1. PICK k \in Nat : BoundedValue(ports) = Value(ports, k)
    BY BoundedIsValue
  <1>2. Smallest(ports, k) = {} /\ Cardinality(ports \ Smallest(ports, k)) = 0
    BY <1>1 DEF Value, NoValue
  <1>3. Cardinality(ports) = 0
    BY <1>2
  <1> QED
    BY <1>3, PortsAreFinite, FS_EmptySet

-----------------------------------------------------------------------------
(* The steps.                                                              *)

LEMMA NoValueType == NoValue \in Values
  <1>1. {} \in SUBSET UNION PortSets
    OBVIOUS
  <1> QED
    BY <1>1 DEF NoValue, Values

LEMMA BoundedType ==
    ASSUME NEW ports \in PortSets
    PROVE  BoundedValue(ports) \in Values
  BY BoundedIsValue, ValueType

(* What is written next is one of those to be visited.                     *)
LEMMA NextIsToBeVisited ==
    ASSUME TypeOK, todo # {}
    PROVE  Min(todo) \in todo /\ Min(todo) \in Workspaces
  <1>1. todo \in SUBSET Nat
    BY WorkspacesAssumption DEF TypeOK
  <1> QED
    BY <1>1, MinIsLeast DEF TypeOK

LEMMA TypingStep == TypeOK /\ [Next]_vars => TypeOK'
  <1> SUFFICES ASSUME TypeOK, [Next]_vars
               PROVE  TypeOK'
    OBVIOUS
  <1> USE DEF TypeOK
  <1>1. \A w \in Workspaces : BoundedValue(apps[w]) \in Values
    BY BoundedType
  <1>2. CASE UNCHANGED vars
    BY <1>2 DEF vars
  <1>3. CASE Publish
    BY <1>3 DEF Publish, ToVisit
  <1>4. CASE Report \/ ReportFails
    <2>1. PICK w \in Workspaces :
            /\ shown' = shown
               \/ shown' = [shown EXCEPT ![w] = BoundedValue(apps[w])]
            /\ touched' \in {touched, touched \cup {w}}
            /\ todo' \in {todo, todo \ {w}}
      BY <1>4, NextIsToBeVisited DEF Report, ReportFails
    <2>2. (shown \in [Workspaces -> Values])'
      BY <1>1, <2>1
    <2> QED
      BY <1>4, <2>1, <2>2 DEF Report, ReportFails
  <1>5. CASE Finish
    BY <1>1, <1>5 DEF Finish
  <1>6. CASE Die \/ Restart
    BY <1>6, NoValueType DEF Die, Restart
  <1> QED
    BY <1>2, <1>3, <1>4, <1>5, <1>6 DEF Next

LEMMA MemoryInvStep ==
    ASSUME TypeOK, TypeOK', MemoryInv, [Next]_vars
    PROVE  MemoryInv'
  <1> USE DEF MemoryInv, Agrees, TypeOK
  <1>1. CASE UNCHANGED vars
    BY <1>1 DEF vars
  <1>2. CASE Publish
    BY <1>2 DEF Publish, ToVisit
  <1>3. CASE Report
    <2> DEFINE w == Min(todo)
    <2>1. w \in todo /\ w \in Workspaces
      BY <1>3, NextIsToBeVisited DEF Report
    <2>2. /\ phase = "publishing" /\ UNCHANGED <<apps, memory, phase>>
          /\ \A x \in Workspaces :
               shown'[x] = IF x = w THEN BoundedValue(apps[w]) ELSE shown[x]
          /\ touched' = touched \cup {w} /\ todo' = todo \ {w}
      BY <1>3, <2>1 DEF Report
    <2> HIDE DEF w
    <2> QED
      BY <2>1, <2>2
  <1>4. CASE ReportFails \/ Die
    BY <1>4 DEF ReportFails, Die
  <1>5. CASE Finish
    <2>1. /\ UNCHANGED <<apps, shown, todo, touched>>
          /\ phase = "publishing" /\ phase' = "idle" /\ todo = {}
          /\ \A w \in Workspaces : memory'[w] = BoundedValue(apps[w])
      BY <1>5 DEF Finish
    <2> QED
      BY <2>1
  <1>6. CASE Restart
    <2>1. /\ phase' = "fresh" /\ todo' = {} /\ touched' = {}
          /\ \A w \in Workspaces : memory'[w] = NoValue
      BY <1>6 DEF Restart
    <2> QED
      BY <2>1
  <1> QED
    BY <1>1, <1>2, <1>3, <1>4, <1>5, <1>6 DEF Next

(* The variables keep their types (TypeOK): a value names ports that the   *)
(* applications have and counts those it leaves out.                       *)
THEOREM PublisherTyping == Spec => []TypeOK
  <1>1. Init => TypeOK
    BY NoValueType, PortsAssumption DEF Init, TypeOK
  <1> QED
    BY <1>1, TypingStep, PTL DEF Spec

LEMMA MemoryInvHolds == Spec => []MemoryInv
  <1>1. Init => MemoryInv
    BY DEF Init, MemoryInv, Agrees
  <1> QED
    BY <1>1, MemoryInvStep, PublisherTyping, PTL DEF Spec

(* After a publication Herdr shows the value of every workspace with       *)
(* applications (PublishedIsShown), whatever an earlier daemon left there  *)
(* and wherever its own writes failed before.                              *)
THEOREM PublicationShows == Spec => []PublishedIsShown
  <1>1. TypeOK /\ MemoryInv => PublishedIsShown
    <2> SUFFICES ASSUME TypeOK, MemoryInv, phase = "idle",
                        NEW w \in Workspaces
                 PROVE  \/ shown[w] = BoundedValue(apps[w])
                        \/ apps[w] = {} /\ w \notin touched
      BY DEF PublishedIsShown
    <2>1. memory[w] = BoundedValue(apps[w]) /\ Agrees(w)
      BY DEF MemoryInv
    <2>2. BoundedValue(apps[w]) = NoValue => apps[w] = {}
      BY NoValueNoPorts DEF TypeOK
    <2> QED
      BY <2>1, <2>2 DEF Agrees
  <1> QED
    BY <1>1, MemoryInvHolds, PublisherTyping, PTL

(* A daemon writes a workspace again only with another value               *)
(* (UnchangedIsSilent).                                                    *)
THEOREM SilentWhenUnchanged == Spec => UnchangedIsSilent
  <1> DEFINE Silent ==
        \A w \in touched : w \in todo /\ w \notin todo' /\ phase' # "fresh"
            => shown'[w] # shown[w]
  <1>1. TypeOK /\ MemoryInv /\ [Next]_vars => [Silent]_vars
    <2> SUFFICES ASSUME TypeOK, MemoryInv, Next, NEW w \in touched,
                        w \in todo, w \notin todo', phase' # "fresh"
                 PROVE  shown'[w] # shown[w]
      OBVIOUS
    <2>1. CASE Report
      <3>1. phase = "publishing" /\ w = Min(todo) /\ w \in Workspaces
        BY <2>1 DEF Report, TypeOK
      <3>2. shown'[w] = BoundedValue(apps[w])
        BY <2>1, <3>1 DEF Report, TypeOK
      <3>3. memory[w] # BoundedValue(apps[w]) /\ shown[w] = memory[w]
        BY <3>1 DEF MemoryInv, Agrees
      <3> QED
        BY <3>2, <3>3
    <2>2. CASE Publish
      BY <2>2 DEF Publish, MemoryInv
    <2> QED
      BY <2>1, <2>2 DEF Next, ReportFails, Finish, Die, Restart
  <1> QED
    BY <1>1, MemoryInvHolds, PublisherTyping, PTL
       DEF Spec, UnchangedIsSilent

-----------------------------------------------------------------------------
(* Lengths.                                                                *)

(* A value without ports is as long as its count.                          *)
LEMMA NothingToSum == ASSUME NEW F(_) PROVE MapThenSumSet(F, {}) = 0
  <1> DEFINE Is(f) == f = [s \in SUBSET {} |->
                 IF s = {} THEN 0
                 ELSE LET x == CHOOSE x \in s : TRUE IN F(x) + f[s \ {x}]]
  <1>1. Is([s \in SUBSET {} |-> 0])
    OBVIOUS
  <1>2. \A f : Is(f) => f[{}] = 0
    OBVIOUS
  <1>3. (CHOOSE f : Is(f))[{}] = 0
    BY <1>1, <1>2
  <1> QED
    BY <1>3 DEF MapThenSumSet, MapThenFoldSet

LEMMA DigitsBound ==
    ASSUME NEW n
    PROVE  Digits(n) \in 1 .. 5
  <1> DEFINE powers == {k \in 1 .. 4 : n >= 10 ^ k}
  <1>1. IsFiniteSet(1 .. 4) /\ Cardinality(1 .. 4) = 4
    <2>1. \A last \in Nat :
            IsFiniteSet(1 .. last) /\ Cardinality(1 .. last) = last
      BY FS_Interval
    <2> QED
      BY <2>1
  <1>2. powers \in SUBSET (1 .. 4)
    OBVIOUS
  <1> HIDE DEF powers
  <1>3. Cardinality(powers) \in Nat /\ Cardinality(powers) <= 4
    BY <1>1, <1>2, FS_Subset, FS_CardinalityType
  <1>4. Digits(n) = 1 + Cardinality(powers)
    BY DEF Digits, powers
  <1> QED
    BY <1>3, <1>4

LEMMA CountFits ==
    ASSUME NEW value, value.ports = {}, value.more \in Nat
    PROVE  Bytes(value) <= MaxBytes
  <1>1. Bytes(value) = LET rest == IF value.more = 0 THEN 0
                                   ELSE Digits(value.more) + 2
                       IN  IF 0 + rest = 0 THEN 0 ELSE 0 + rest - 1
    BY NothingToSum DEF Bytes
  <1> QED
    BY <1>1, DigitsBound, LimitsAssumption

(* Whatever is written has the length that Herdr takes.                    *)
LEMMA BoundedFits ==
    ASSUME NEW ports \in PortSets
    PROVE  Bytes(BoundedValue(ports)) <= MaxBytes
  <1>1. PICK k \in Nat :
          /\ BoundedValue(ports) = Value(ports, k)
          /\ k = 0 \/ Bytes(Value(ports, k)) <= MaxBytes
    BY BoundedIsValue
  <1>2. CASE k = 0
    <2>1. Smallest(ports, 0) = {}
      <3>1. ASSUME NEW p \in ports
            PROVE  ~(Cardinality({q \in ports : q < p}) < 0)
        <4>1. Cardinality({q \in ports : q < p}) \in Nat
          BY PortsAreFinite
        <4> QED
          BY <4>1
      <3> QED
        BY <3>1 DEF Smallest
    <2>2. Value(ports, 0).ports = {} /\ Value(ports, 0).more \in Nat
      BY <2>1, PortsAreFinite DEF Value
    <2> QED
      BY <1>1, <1>2, <2>2, CountFits
  <1> QED
    BY <1>1, <1>2

(* No value that Herdr shows is too long for it (ValuesFit), however many  *)
(* ports an application has.                                               *)
THEOREM ValuesAlwaysFit == Spec => []ValuesFit
  <1>1. Init => ValuesFit
    <2>1. Bytes(NoValue) <= MaxBytes
      BY CountFits DEF NoValue
    <2> QED
      BY <2>1 DEF Init, ValuesFit
  <1>2. TypeOK /\ ValuesFit /\ [Next]_vars => ValuesFit'
    <2> SUFFICES ASSUME TypeOK, ValuesFit, [Next]_vars,
                        NEW w \in Workspaces
                 PROVE  Bytes(shown'[w]) <= MaxBytes
      BY DEF ValuesFit
    <2>1. shown'[w] = shown[w] \/ shown'[w] = BoundedValue(apps[w])
      BY NextIsToBeVisited DEF Next, vars, Publish, Report, ReportFails,
         Finish, Die, Restart, TypeOK
    <2> QED
      BY <2>1, BoundedFits DEF ValuesFit, TypeOK
  <1> QED
    BY <1>1, <1>2, PublisherTyping, PTL DEF Spec
=============================================================================
