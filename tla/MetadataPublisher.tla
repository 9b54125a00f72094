-------------------------- MODULE MetadataPublisher --------------------------
(***************************************************************************)
(* The $dev_servers values in Herdr: internal/metadata/publisher.go, as    *)
(* the loop of internal/daemon/runtime.go calls it after every rebuild.    *)
(*                                                                         *)
(* Values are written workspace by workspace, and remembered only when all *)
(* of them were.  A write may fail before or after Herdr took it; its      *)
(* error ends the loop and the daemon.  Herdr keeps the values; the memory *)
(* of what was written ends with the daemon.                               *)
(***************************************************************************)
EXTENDS Integers, FiniteSetsExt

CONSTANTS
    Workspaces,   \* workspaces of Herdr, numbered in the order of their ids
    PortSets,     \* ports that the applications of a workspace may have
    MaxEndpoints, \* ports one value names
    MaxBytes      \* bytes one value may have

ASSUME WorkspacesAssumption == Workspaces \subseteq Nat
Ports == 1 .. 65535

ASSUME PortsAssumption ==
    {} \in PortSets /\ \A ports \in PortSets : ports \subseteq Ports
\* The number of those left out fits, whatever it is.
ASSUME LimitsAssumption ==
    MaxEndpoints \in Nat /\ MaxBytes \in Nat /\ MaxBytes >= 6

VARIABLES
    apps,     \* workspace -> ports of its applications in the snapshot
    memory,   \* Publisher.values
    shown,    \* what Herdr shows
    todo,     \* workspaces the publication in progress has not visited
    phase,    \* where the loop is
    touched   \* history: workspaces this daemon wrote

vars == <<apps, memory, shown, todo, phase, touched>>

-----------------------------------------------------------------------------
(* A value names the lowest ports and the number of those it leaves out.   *)

Smallest(ports, k) ==
    {p \in ports : Cardinality({q \in ports : q < p}) < k}

Digits(n) == 1 + Cardinality({k \in 1 .. 4 : n >= 10 ^ k})

Value(ports, k) ==
    [ports |-> Smallest(ports, k),
     more |-> Cardinality(ports \ Smallest(ports, k))]
NoValue == [ports |-> {}, more |-> 0]

(* ":3000 :8080 +1"                                                        *)
Bytes(value) ==
    LET places == MapThenSumSet(LAMBDA p : Digits(p) + 2, value.ports)
        rest == IF value.more = 0 THEN 0 ELSE Digits(value.more) + 2
    IN  IF places + rest = 0 THEN 0 ELSE places + rest - 1

(* Mutant: the rest is not counted.                                        *)
BoundedByPorts(ports) ==
    LET most == Min({MaxEndpoints, Cardinality(ports)})
        fits == {k \in 0 .. most :
                   Bytes([Value(ports, k) EXCEPT !.more = 0]) <= MaxBytes}
    IN  Value(ports, Max(fits \cup {0}))

(* Ports are taken off the end until the value fits.                       *)
BoundedValue(ports) ==
    LET most == Min({MaxEndpoints, Cardinality(ports)})
        fits == {k \in 0 .. most : Bytes(Value(ports, k)) <= MaxBytes}
    IN  Value(ports, Max(fits \cup {0}))

-----------------------------------------------------------------------------
Init ==
    /\ apps = [w \in Workspaces |-> {}]
    /\ memory = [w \in Workspaces |-> NoValue]
    /\ shown = [w \in Workspaces |-> NoValue]
    /\ todo = {}
    /\ phase = "fresh"
    /\ touched = {}

(* Mutant: a workspace without applications is left out.                   *)
ToVisitPresent(now) ==
    {w \in Workspaces : now[w] # {} /\ memory[w] # BoundedValue(now[w])}

(* Workspaces whose value is not the one written last.                     *)
ToVisit(now) == {w \in Workspaces : memory[w] # BoundedValue(now[w])}

(* A rebuild was applied and its applications are published.               *)
Publish ==
    /\ phase \in {"fresh", "idle"}
    /\ apps' \in [Workspaces -> PortSets]
    /\ todo' = ToVisit(apps')
    /\ phase' = "publishing"
    /\ UNCHANGED <<memory, shown, touched>>

Report ==
    /\ phase = "publishing"
    /\ todo # {}
    /\ LET w == Min(todo)
       IN  /\ shown' = [shown EXCEPT ![w] = BoundedValue(apps[w])]
           /\ touched' = touched \cup {w}
           /\ todo' = todo \ {w}
    /\ UNCHANGED <<apps, memory, phase>>

(* The value arrived or not; the loop ends and main returns.               *)
ReportFails ==
    /\ phase = "publishing"
    /\ todo # {}
    /\ LET w == Min(todo)
       IN  shown' \in {shown, [shown EXCEPT ![w] = BoundedValue(apps[w])]}
    /\ phase' = "down"
    /\ UNCHANGED <<apps, memory, todo, touched>>

(* Mutant: what was written is not remembered.                             *)
FinishForgets ==
    /\ phase = "publishing"
    /\ todo = {}
    /\ phase' = "idle"
    /\ UNCHANGED <<apps, memory, shown, todo, touched>>

Finish ==
    /\ phase = "publishing"
    /\ todo = {}
    /\ memory' = [w \in Workspaces |-> BoundedValue(apps[w])]
    /\ phase' = "idle"
    /\ UNCHANGED <<apps, shown, todo, touched>>

(* The daemon ends for any other reason.                                   *)
Die ==
    /\ phase # "down"
    /\ phase' = "down"
    /\ UNCHANGED <<apps, memory, shown, todo, touched>>

Restart ==
    /\ phase = "down"
    /\ phase' = "fresh"
    /\ memory' = [w \in Workspaces |-> NoValue]
    /\ todo' = {}
    /\ touched' = {}
    /\ UNCHANGED <<apps, shown>>

Next == Publish \/ Report \/ ReportFails \/ Finish \/ Die \/ Restart

Spec == Init /\ [][Next]_vars

-----------------------------------------------------------------------------
(* Properties.                                                             *)

Values == [ports : SUBSET UNION PortSets, more : Nat]

TypeOK ==
    /\ apps \in [Workspaces -> PortSets]
    /\ memory \in [Workspaces -> Values]
    /\ shown \in [Workspaces -> Values]
    /\ todo \subseteq Workspaces
    /\ phase \in {"fresh", "publishing", "idle", "down"}
    /\ touched \subseteq Workspaces

(* After a publication Herdr shows the value of every workspace with       *)
(* applications and none of those this daemon had to clear, whatever an    *)
(* earlier daemon wrote, or died while it wrote.                           *)
PublishedIsShown ==
    phase = "idle" =>
        \A w \in Workspaces :
            \/ shown[w] = BoundedValue(apps[w])
            \/ apps[w] = {} /\ w \notin touched

(* "suppressing unchanged workspaces" (publisher.go): a daemon does not    *)
(* write again what it has written last.                                   *)
UnchangedIsSilent ==
    [][\A w \in touched : w \in todo /\ w \notin todo' /\ phase' # "fresh"
        => shown'[w] # shown[w]]_vars

(* Whatever the ports, a value fits.                                       *)
ValuesFit == \A w \in Workspaces : Bytes(shown[w]) <= MaxBytes
=============================================================================
