-------------------------- MODULE Discovery_proofs --------------------------
(***************************************************************************)
(* Proofs about Discovery, for any processes and panes and any number of   *)
(* changes between the reads of a rebuild.                                 *)
(*                                                                         *)
(* Each thing that was read was true in one of the worlds of the rebuild,  *)
(* and what was not found was not true in all of them.                     *)
(***************************************************************************)
EXTENDS Discovery, TLAPS

IsWorld(w) ==
    /\ w.table \in [Pids -> Processes \cup {NoProcess}]
    /\ w.panes \in [Panes -> SUBSET Evidence]
    /\ Possible(w)

(* The machine is one of the worlds of the rebuild that is under way.      *)
WorldsInv ==
    /\ IsWorld(World)
    /\ \A x \in Panes \ open : panes[x] = {}
    /\ \A w \in worlds : IsWorld(w)
    /\ step \in Running => World \in worlds

(* A pane was read as it was in some world, or had nothing to show.        *)
RecordsInv ==
    /\ \A x \in DOMAIN records : \E w \in worlds : records[x] = w.panes[x]
    /\ step \in Running =>
         \A x \in Panes :
            \/ x \in DOMAIN records
            \/ step = "panes" /\ x \in todo
            \/ \E w \in worlds : w.panes[x] = {}
    /\ step \notin Running => DOMAIN records = {}

(* It listened on this port all the time, and the port is not ignored.     *)
SteadyListener(l) ==
    /\ l.port \notin Ignored
    /\ \A w \in worlds : l.port \in w.table[l.pid].ports

(* A listener listened in some world.  One that did in all of them is      *)
(* known when the listeners are looked up, unless the scan did not see it  *)
(* or named another process that listens on its port.                      *)
ListenersInv ==
    /\ \A l \in listeners : \E w \in worlds : l.port \in w.table[l.pid].ports
    /\ step \notin {"rescan", "lookup"} => listeners = {}
    /\ step = "rescan" =>
         /\ platform = "darwin"
         /\ \A l \in Listeners :
              SteadyListener(l) => l \in listeners \/ l \in unseen
    /\ step = "lookup" =>
         /\ \A l \in listeners : l.port \notin Ignored
         /\ \A l \in Listeners :
              SteadyListener(l) =>
                \/ l \in listeners \/ l \in unseen
                \/ platform # "darwin" /\ \E k \in listeners : k.port = l.port

(* A process was looked up, as it was in some world, for a listener.       *)
ProcessesInv ==
    /\ \A p \in DOMAIN processes :
         /\ \E l \in listeners : l.pid = p
         /\ processes[p].exists
         /\ \E w \in worlds : processes[p] = Record(w.table[p])
    /\ step = "lookup" =>
         /\ todo \subseteq listeners
         /\ \A l \in listeners \ todo : l.pid \in DOMAIN processes
    /\ step # "lookup" => DOMAIN processes = {}
    /\ step = "panes" => todo \subseteq Panes

ReadInv == TypeOK /\ WorldsInv /\ RecordsInv /\ ListenersInv /\ ProcessesInv

AppRecords ==
    [pid : Pids, inc : 0 .. MaxChanges, ports : SUBSET Ports,
     pane : SUBSET Panes, stale : BOOLEAN,
     conf : {"high", "partial", "unknown"}]

-----------------------------------------------------------------------------
(* What the steps make of their types.                                     *)

LEMMA NothingIsRead ==
    /\ DOMAIN NoReads = {}
    /\ \A T : \E S \in SUBSET Panes : NoReads \in [S -> T]
    /\ \A T : \E S \in SUBSET Pids : NoReads \in [S -> T]
  <1>1. DOMAIN NoReads = {} /\ \A T : NoReads \in [{} -> T]
    BY DEF NoReads
  <1>2. {} \in SUBSET Panes /\ {} \in SUBSET Pids
    OBVIOUS
  <1> QED
    BY <1>1, <1>2

LEMMA RunIsTyped ==
    ASSUME NEW g \in Programs, NEW inc \in 0 .. MaxChanges
    PROVE  Run(g, inc) \in Processes
  <1>1. /\ g.parent \in Pids \cup {0} /\ g.cwd \in Paths \cup {NoPath}
        /\ g.ports \in SUBSET Ports
    BY ProgramsAssumption
  <1> QED
    BY <1>1 DEF Run, Processes

(* What is recorded of a process is the process, but for its directory.    *)
LEMMA RecordFields ==
    ASSUME NEW process \in Processes \cup {NoProcess}
    PROVE  /\ Record(process).inc = process.inc
           /\ Record(process).parent = process.parent
           /\ Record(process).ports = process.ports
           /\ Record(process).exists = process.exists
           /\ process \in Processes => Record(process) \in Processes
           /\ platform # "darwin" => Record(process).cwd = process.cwd
           /\ platform = "darwin" => Record(process).cwd = NoPath
  <1>1. CASE process = NoProcess
    <2>1. ~process.exists /\ \A other \in Processes : other.exists
      BY <1>1 DEF NoProcess, Processes
    <2> QED
      BY <1>1, <2>1 DEF Record, NoProcess
  <1>2. CASE process \in Processes
    BY <1>2 DEF Record, Processes
  <1> QED
    BY <1>1, <1>2

(* The machine changes into a machine.                                     *)
LEMMA MachineIsTyped ==
    ASSUME TypeOK, \A x \in Panes \ open : panes[x] = {}, Change
    PROVE  /\ table' \in [Pids -> Processes \cup {NoProcess}]
           /\ open' \subseteq Panes
           /\ panes' \in [Panes -> SUBSET Evidence]
           /\ changes' \in 0 .. MaxChanges
           /\ \A x \in Panes \ open' : panes'[x] = {}
  <1>1. /\ table \in [Pids -> Processes \cup {NoProcess}]
        /\ open \subseteq Panes /\ panes \in [Panes -> SUBSET Evidence]
    BY DEF TypeOK
  <1>2. changes' \in 0 .. MaxChanges /\ changes + 1 \in 0 .. MaxChanges
    BY IdsAssumption DEF Change, TypeOK
  <1>3. ASSUME NEW p \in Pids, Start(p)
        PROVE  table' \in [Pids -> Processes \cup {NoProcess}]
    <2>1. PICK g \in Programs :
            table' = [table EXCEPT ![p] = Run(g, changes + 1)]
      BY <1>3 DEF Start
    <2>2. Run(g, changes + 1) \in Processes
      BY <1>2, RunIsTyped
    <2> QED
      BY <1>1, <2>1, <2>2
  <1>4. ASSUME NEW p \in Pids, Exit(p)
        PROVE  /\ table' \in [Pids -> Processes \cup {NoProcess}]
               /\ panes' \in [Panes -> SUBSET Evidence]
               /\ \A x \in Panes : panes[x] = {} => panes'[x] = {}
    <2>1. ASSUME NEW q \in Pids, q # p
          PROVE  (IF table[q].parent = p THEN [table[q] EXCEPT !.parent = 0]
                  ELSE table[q]) \in Processes \cup {NoProcess}
      <3>1. CASE table[q] = NoProcess
        <4>1. NoProcess.parent = 0 /\ p # 0
          BY IdsAssumption DEF NoProcess
        <4> QED
          BY <3>1, <4>1
      <3>2. CASE table[q] \in Processes
        BY <3>2 DEF Processes
      <3> QED
        BY <1>1, <3>1, <3>2
    <2>2. table' = [q \in Pids |->
                     IF q = p THEN NoProcess
                     ELSE IF table[q].parent = p
                     THEN [table[q] EXCEPT !.parent = 0] ELSE table[q]]
          /\ panes' = [x \in Panes |-> {e \in panes[x] : e.pid # p}]
      BY <1>4 DEF Exit
    <2>3. table' \in [Pids -> Processes \cup {NoProcess}]
      BY <2>1, <2>2
    <2>4. \A x \in Panes : {e \in panes[x] : e.pid # p} \in SUBSET Evidence
      BY <1>1
    <2>5. panes' \in [Panes -> SUBSET Evidence]
      BY <2>2, <2>4
    <2> QED
      BY <2>2, <2>3, <2>5
  <1>5. ASSUME NEW p \in Pids, Listen(p)
        PROVE  table' \in [Pids -> Processes \cup {NoProcess}]
    <2>1. PICK g \in Programs : table' = [table EXCEPT ![p].ports = g.ports]
      BY <1>5 DEF Listen
    <2>2. g.ports \in SUBSET Ports
      BY ProgramsAssumption
    <2>3. table[p] \in Processes
      <3>1. table[p].exists
        BY <1>5 DEF Listen, Live
      <3>2. ~NoProcess.exists
        BY DEF NoProcess
      <3> QED
        BY <1>1, <3>1, <3>2
    <2>4. [table[p] EXCEPT !.ports = g.ports] \in Processes
      BY <2>2, <2>3 DEF Processes
    <2> DEFINE process == [table[p] EXCEPT !.ports = g.ports]
    <2>5. table' = [table EXCEPT ![p] = process]
      BY <2>1
    <2> HIDE DEF process
    <2>6. process \in Processes
      BY <2>4 DEF process
    <2> QED
      BY <1>1, <2>5, <2>6
  <1>6. ASSUME NEW x \in Panes, Show(x)
        PROVE  /\ open' \subseteq Panes
               /\ panes' \in [Panes -> SUBSET Evidence]
               /\ \A y \in Panes \ open' : panes'[y] = {}
    <2>1. CASE /\ open' = open \cup {x}
               /\ \E f \in Foregrounds : panes' = [panes EXCEPT ![x] = f]
      <3>1. PICK f \in Foregrounds : panes' = [panes EXCEPT ![x] = f]
        BY <2>1
      <3>2. f \in SUBSET Evidence
        BY ProgramsAssumption
      <3> QED
        BY <1>1, <2>1, <3>1, <3>2
    <2>2. CASE open' = open \ {x} /\ panes' = [panes EXCEPT ![x] = {}]
      BY <1>1, <2>2
    <2> QED
      BY <1>6, <2>1, <2>2 DEF Show
  <1>7. CASE \E p \in Pids : Start(p) \/ Listen(p)
    <2>1. open' = open /\ panes' = panes
      BY <1>7 DEF Start, Listen
    <2> QED
      BY <1>1, <1>2, <1>3, <1>5, <1>7, <2>1
  <1>8. CASE \E p \in Pids : Exit(p)
    <2>1. open' = open
      BY <1>8 DEF Exit
    <2> QED
      BY <1>1, <1>2, <1>4, <1>8, <2>1
  <1>9. CASE \E x \in Panes : Show(x)
    <2>1. table' = table
      BY <1>9 DEF Show
    <2> QED
      BY <1>1, <1>2, <1>6, <1>9, <2>1
  <1> QED
    BY <1>7, <1>8, <1>9 DEF Change

(* What Build makes of what was read.                                      *)
LEMMA BuildIsTyped ==
    ASSUME TypeOK
    PROVE  Build \subseteq AppRecords
  <1> SUFFICES ASSUME NEW p \in DOMAIN processes
               PROVE  Application(p) \in AppRecords
    BY DEF Build
  <1>1. p \in Pids /\ processes[p].inc \in 0 .. MaxChanges
    BY DEF TypeOK, Processes
  <1>2. Matches(p) \in SUBSET Panes
    <2>1. DOMAIN records \subseteq Panes
      BY DEF TypeOK
    <2> QED
      BY <2>1 DEF Matches, Strong, Weak
  <1>3. {l.port : l \in {k \in listeners : k.pid = p}} \in SUBSET Ports
    BY DEF TypeOK, Listeners
  <1> DEFINE association == Association(Matches(p))
  <1>4. /\ association.pane \in SUBSET Panes
        /\ association.conf \in {"high", "partial", "unknown"}
    BY <1>2 DEF Association
  <1>5. (association.conf = "partial") \in BOOLEAN
    OBVIOUS
  <1>6. Application(p) =
          [pid |-> p, inc |-> processes[p].inc,
           ports |-> {l.port : l \in {k \in listeners : k.pid = p}},
           pane |-> association.pane, conf |-> association.conf,
           stale |-> association.conf = "partial"]
    BY DEF Application
  <1> HIDE DEF association
  <1> QED
    BY <1>1, <1>3, <1>4, <1>5, <1>6 DEF AppRecords

LEMMA DegradeIsTyped ==
    ASSUME TypeOK, Degrade
    PROVE  /\ apps' \subseteq AppRecords
           /\ step' = "idle" /\ todo' = {} /\ worlds' = {} /\ unseen' = {}
           /\ records' = NoReads /\ listeners' = {} /\ processes' = NoReads
  <1>1. \A a \in AppRecords : [a EXCEPT !.stale = TRUE] \in AppRecords
    BY DEF AppRecords
  <1>2. apps \subseteq AppRecords
    BY DEF TypeOK, AppRecords
  <1>3. apps' = {[a EXCEPT !.stale = TRUE] : a \in apps}
    BY DEF Degrade
  <1>4. apps' \subseteq AppRecords
    BY <1>1, <1>2, <1>3
  <1> QED
    BY <1>4 DEF Degrade, Forget

-----------------------------------------------------------------------------
(* The invariant.                                                          *)

LEMMA ReadInvInit == Init => ReadInv
  <1> SUFFICES ASSUME Init
               PROVE  ReadInv
    OBVIOUS
  <1>1. table \in [Pids -> Processes \cup {NoProcess}]
    <2>1. 0 \in 0 .. MaxChanges
      BY IdsAssumption
    <2>2. {Run(g, 0) : g \in Programs} \subseteq Processes
      BY <2>1, RunIsTyped
    <2> QED
      BY <2>2 DEF Init
  <1>2. panes \in [Panes -> SUBSET Evidence]
    BY ProgramsAssumption DEF Init
  <1>3. TypeOK
    <2>1. /\ \E S \in SUBSET Panes : records \in [S -> SUBSET Evidence]
          /\ \E S \in SUBSET Pids : processes \in [S -> Processes]
      BY NothingIsRead DEF Init
    <2>2. changes \in 0 .. MaxChanges
      BY IdsAssumption DEF Init
    <2>3. /\ platform \in Platforms /\ open \subseteq Panes /\ step = "idle"
          /\ todo = {} /\ listeners = {} /\ apps = {} /\ unseen = {}
      BY DEF Init
    <2> QED
      BY <1>1, <1>2, <2>1, <2>2, <2>3 DEF TypeOK
  <1>4. IsWorld(World)
    BY <1>1, <1>2 DEF Init, IsWorld, World
  <1>5. step = "idle" /\ worlds = {}
    BY DEF Init
  <1>6. DOMAIN records = {} /\ listeners = {} /\ DOMAIN processes = {}
    BY NothingIsRead DEF Init
  <1>7. WorldsInv
    BY <1>4, <1>5 DEF Init, WorldsInv, Running
  <1> QED
    BY <1>3, <1>5, <1>6, <1>7
       DEF ReadInv, RecordsInv, ListenersInv, ProcessesInv, Running

LEMMA DiscoveryTypingStep == ReadInv /\ [Next]_vars => TypeOK'
  <1> SUFFICES ASSUME ReadInv, [Next]_vars
               PROVE  TypeOK'
    OBVIOUS
  <1>1. TypeOK /\ WorldsInv /\ ProcessesInv
    BY DEF ReadInv
  <1> DEFINE MachineOK ==
               /\ platform' \in Platforms
               /\ table' \in [Pids -> Processes \cup {NoProcess}]
               /\ open' \subseteq Panes /\ panes' \in [Panes -> SUBSET Evidence]
               /\ changes' \in 0 .. MaxChanges
             RebuildOK ==
               /\ step' \in Running \cup {"idle", "built"}
               /\ todo' \subseteq Panes \/ todo' \subseteq Listeners
               /\ \E S \in SUBSET Panes : records' \in [S -> SUBSET Evidence]
               /\ listeners' \subseteq Listeners /\ unseen' \subseteq Listeners
               /\ \E S \in SUBSET Pids : processes' \in [S -> Processes]
               /\ apps' \subseteq AppRecords
  <1>2. MachineOK /\ RebuildOK => TypeOK'
    BY DEF TypeOK, AppRecords
  <1>3. UNCHANGED machine => MachineOK
    BY <1>1 DEF TypeOK, machine
  <1>4. /\ step \in Running \cup {"idle", "built"}
        /\ todo \subseteq Panes \/ todo \subseteq Listeners
        /\ \E S \in SUBSET Panes : records \in [S -> SUBSET Evidence]
        /\ listeners \subseteq Listeners /\ unseen \subseteq Listeners
        /\ \E S \in SUBSET Pids : processes \in [S -> Processes]
        /\ apps \subseteq AppRecords
    BY <1>1 DEF TypeOK, AppRecords
  <1> HIDE DEF MachineOK
  <1>5. Degrade => RebuildOK
    <2> SUFFICES ASSUME Degrade
                 PROVE  RebuildOK
      OBVIOUS
    <2>1. /\ apps' \subseteq AppRecords
          /\ step' = "idle" /\ todo' = {} /\ unseen' = {}
          /\ records' = NoReads /\ listeners' = {} /\ processes' = NoReads
      BY <1>1, DegradeIsTyped
    <2> QED
      BY <2>1, NothingIsRead
  <1>6. CASE Change
    <2>1. MachineOK
      <3>1. platform' \in Platforms
        BY <1>1, <1>6 DEF Change, TypeOK
      <3> QED
        BY <1>1, <1>6, <3>1, MachineIsTyped DEF WorldsInv, MachineOK
    <2>2. RebuildOK
      <3>1. step' \in Running \cup {"idle", "built"}
        BY <1>4, <1>6 DEF Change
      <3>2. /\ UNCHANGED <<todo, records, listeners, processes, apps>>
            /\ unseen' \in {unseen, {}}
        BY <1>6 DEF Change
      <3> QED
        BY <1>4, <3>1, <3>2
    <2> QED
      BY <1>2, <2>1, <2>2
  <1>7. CASE Begin
    <2>1. /\ step' = "panes" /\ todo' = open /\ UNCHANGED machine
          /\ unseen' = {}
          /\ UNCHANGED <<records, listeners, processes, apps>>
      BY <1>7 DEF Begin
    <2>2. open \subseteq Panes
      BY <1>1 DEF TypeOK
    <2> QED
      BY <1>2, <1>3, <1>4, <2>1, <2>2 DEF Running
  <1>8. CASE ReadPane
    <2>1. step = "panes" /\ UNCHANGED machine
      BY <1>8 DEF ReadPane
    <2>2. PICK x \in todo :
            \/ Degrade
            \/ /\ records' = [y \in DOMAIN records \cup {x} |->
                               IF y = x THEN panes[x] ELSE records[y]]
               /\ todo' = todo \ {x}
               /\ UNCHANGED <<step, listeners, processes, apps, unseen>>
      BY <1>8 DEF ReadPane
    <2>3. CASE Degrade
      BY <1>2, <1>3, <1>5, <2>1, <2>3
    <2>4. CASE /\ records' = [y \in DOMAIN records \cup {x} |->
                                IF y = x THEN panes[x] ELSE records[y]]
               /\ todo' = todo \ {x}
               /\ UNCHANGED <<step, listeners, processes, apps, unseen>>
      <3>1. x \in Panes /\ panes[x] \in SUBSET Evidence
        BY <1>1, <2>1 DEF ProcessesInv, TypeOK
      <3>2. PICK S \in SUBSET Panes : records \in [S -> SUBSET Evidence]
        BY <1>4
      <3>3. records' \in [S \cup {x} -> SUBSET Evidence]
        BY <2>4, <3>1, <3>2
      <3>4. \E T \in SUBSET Panes : records' \in [T -> SUBSET Evidence]
        BY <3>1, <3>3
      <3>5. todo' \subseteq Panes \/ todo' \subseteq Listeners
        BY <1>4, <2>4
      <3> QED
        BY <1>2, <1>3, <1>4, <2>1, <2>4, <3>4, <3>5
    <2> QED
      BY <2>2, <2>3, <2>4
  <1>9. CASE Scan \/ Rescan
    <2>1. Listening \subseteq Listeners
      BY DEF Listening
    <2>2. /\ \A found \in SUBSET Listeners : Scanned(found) =>
               step' = "lookup" /\ listeners' \subseteq Listeners
               /\ todo' \subseteq Listeners
          /\ Considered(Listening) \subseteq Listening
      BY DEF Scanned, Considered
    <2>3. UNCHANGED machine /\ UNCHANGED <<records, processes, apps>>
      BY <1>9 DEF Scan, Rescan
    <2>4. /\ step' \in {"rescan", "lookup"}
          /\ listeners' \subseteq Listeners /\ todo' \subseteq Listeners
          /\ unseen' \subseteq Listeners
      <3>1. CASE Scan
        BY <2>1, <2>2, <3>1 DEF Scan, Named
      <3>2. CASE Rescan
        <4>1. listeners \subseteq Listeners /\ unseen \subseteq Listeners
          BY <1>4
        <4> QED
          BY <2>1, <2>2, <3>2, <4>1 DEF Rescan
      <3> QED
        BY <1>9, <3>1, <3>2
    <2> QED
      BY <1>2, <1>3, <1>4, <2>3, <2>4 DEF Running
  <1>10. CASE Lookup
    <2>1. UNCHANGED machine
      BY <1>10 DEF Lookup
    <2>2. PICK l \in todo :
            \/ Degrade
            \/ /\ l.pid \in Live
               /\ processes' = [p \in DOMAIN processes \cup {l.pid} |->
                                 IF p = l.pid THEN Record(table[p])
                                 ELSE processes[p]]
               /\ todo' = todo \ {l}
               /\ UNCHANGED <<step, records, listeners, apps, unseen>>
      BY <1>10 DEF Lookup
    <2>3. CASE Degrade
      BY <1>2, <1>3, <1>5, <2>1, <2>3
    <2>4. CASE /\ l.pid \in Live
               /\ processes' = [p \in DOMAIN processes \cup {l.pid} |->
                                 IF p = l.pid THEN Record(table[p])
                                 ELSE processes[p]]
               /\ todo' = todo \ {l}
               /\ UNCHANGED <<step, records, listeners, apps, unseen>>
      <3>1. l.pid \in Pids /\ table[l.pid] \in Processes
        <4>1. l.pid \in Pids /\ table[l.pid].exists
          BY <2>4 DEF Live
        <4>2. ~NoProcess.exists
          BY DEF NoProcess
        <4> QED
          BY <1>1, <4>1, <4>2 DEF TypeOK
      <3>2. PICK S \in SUBSET Pids : processes \in [S -> Processes]
        BY <1>4
      <3> DEFINE pid == l.pid
      <3>3. processes' = [p \in DOMAIN processes \cup {pid} |->
                           IF p = pid THEN Record(table[p]) ELSE processes[p]]
            /\ pid \in Pids /\ Record(table[pid]) \in Processes
        BY <2>4, <3>1, RecordFields
      <3> HIDE DEF pid
      <3>4. processes' \in [S \cup {pid} -> Processes]
        BY <3>2, <3>3
      <3>5. \E T \in SUBSET Pids : processes' \in [T -> Processes]
        BY <3>3, <3>4
      <3>6. todo' \subseteq Panes \/ todo' \subseteq Listeners
        BY <1>4, <2>4
      <3> QED
        BY <1>2, <1>3, <1>4, <2>1, <2>4, <3>5, <3>6
    <2> QED
      BY <2>2, <2>3, <2>4
  <1>11. CASE ReadFails
    BY <1>2, <1>3, <1>5, <1>11 DEF ReadFails
  <1>12. CASE Finish
    <2>1. /\ step' = "built" /\ apps' = Build /\ todo' = todo
          /\ records' = NoReads /\ listeners' = {} /\ processes' = NoReads
          /\ UNCHANGED machine /\ unseen' = unseen
      BY <1>12 DEF Finish, Forget
    <2>2. apps' \subseteq AppRecords
      BY <1>1, <2>1, BuildIsTyped
    <2> QED
      BY <1>2, <1>3, <1>4, <2>1, <2>2, NothingIsRead
  <1>13. CASE UNCHANGED vars
    BY <1>1, <1>13 DEF vars, machine, TypeOK
  <1> QED
    BY <1>6, <1>7, <1>8, <1>9, <1>10, <1>11, <1>12, <1>13 DEF Next

(* While a rebuild is under way, nothing that was true is forgotten.       *)
LEMMA WorldsGrow ==
    ASSUME ReadInv, [Next]_vars
    PROVE  /\ step \in Running /\ step' \in Running => worlds \subseteq worlds'
           /\ step \in Running /\ step' = "built" => worlds' = worlds
  <1>1. CASE Change
    <2>1. step \in Running => worlds' = worlds \cup {World'} /\ step' = step
      BY <1>1 DEF Change
    <2> QED
      BY <2>1 DEF Running
  <1>2. CASE Begin
    BY <1>2 DEF Begin, Running
  <1>3. Degrade => step' = "idle"
    BY DEF Degrade
  <1>4. CASE ReadPane \/ Lookup \/ ReadFails
    BY <1>3, <1>4 DEF ReadPane, Lookup, ReadFails, Running
  <1>5. CASE Scan \/ Rescan \/ Finish \/ UNCHANGED vars
    BY <1>5 DEF Scan, Rescan, Finish, vars
  <1> QED
    BY <1>1, <1>2, <1>4, <1>5 DEF Next

LEMMA WorldsStep == ReadInv /\ [Next]_vars => WorldsInv'
  <1> SUFFICES ASSUME ReadInv, [Next]_vars
               PROVE  WorldsInv'
    OBVIOUS
  <1>1. TypeOK /\ WorldsInv
    BY DEF ReadInv
  <1>2. CASE Change
    <2>1. /\ table' \in [Pids -> Processes \cup {NoProcess}]
          /\ panes' \in [Panes -> SUBSET Evidence]
          /\ \A x \in Panes \ open' : panes'[x] = {}
      BY <1>1, <1>2, MachineIsTyped DEF WorldsInv
    <2>2. Possible(World)'
      BY <1>2 DEF Change
    <2>3. IsWorld(World)'
      BY <2>1, <2>2 DEF IsWorld, World
    <2>4. IsWorld(World')
      BY <2>3 DEF IsWorld, Possible
    <2>5. \/ worlds' = worlds \cup {World'} /\ step' = step
          \/ worlds' = {} /\ step' = "idle"
      BY <1>2 DEF Change
    <2>6. \A w \in worlds' : IsWorld(w)
      BY <1>1, <2>4, <2>5 DEF WorldsInv
    <2>7. step' \in Running => World' \in worlds'
      BY <2>5 DEF Running
    <2> QED
      BY <2>1, <2>3, <2>6, <2>7 DEF WorldsInv, IsWorld, Possible
  <1>3. CASE UNCHANGED machine /\ worlds' \in {worlds, {World}, {}}
             /\ (step' \in Running => World \in worlds')
    <2>1. World' = World /\ open' = open /\ panes' = panes
      BY <1>3 DEF machine, World
    <2>2. \A w \in worlds' : IsWorld(w)
      BY <1>1, <1>3 DEF WorldsInv
    <2>3. IsWorld(World) /\ \A x \in Panes \ open : panes[x] = {}
      BY <1>1 DEF WorldsInv
    <2> QED
      BY <1>3, <2>1, <2>2, <2>3 DEF WorldsInv, IsWorld, Possible
  <1>4. Degrade => step' = "idle" /\ worlds' = {}
    BY DEF Degrade
  <1>5. step \in Running => World \in worlds
    BY <1>1 DEF WorldsInv
  <1>6. CASE Begin
    BY <1>3, <1>6 DEF Begin
  <1>7. CASE ReadPane \/ Lookup \/ ReadFails
    <2>1. UNCHANGED machine /\ step \in Running
      BY <1>7 DEF ReadPane, Lookup, ReadFails, Running
    <2>2. Degrade \/ worlds' = worlds
      BY <1>7 DEF ReadPane, Lookup, ReadFails
    <2> QED
      BY <1>3, <1>4, <1>5, <2>1, <2>2 DEF Running
  <1>8. CASE Scan \/ Rescan \/ Finish
    <2>1. UNCHANGED machine /\ step \in Running /\ worlds' = worlds
      BY <1>8 DEF Scan, Rescan, Finish, Running
    <2> QED
      BY <1>3, <1>5, <2>1
  <1>9. CASE UNCHANGED vars
    <2>1. UNCHANGED machine /\ step' = step /\ worlds' = worlds
      BY <1>9 DEF vars, machine
    <2> QED
      BY <1>3, <1>5, <2>1
  <1> QED
    BY <1>2, <1>6, <1>7, <1>8, <1>9 DEF Next

LEMMA RecordsStep == ReadInv /\ [Next]_vars => RecordsInv'
  <1> SUFFICES ASSUME ReadInv, [Next]_vars
               PROVE  RecordsInv'
    OBVIOUS
  <1>1. TypeOK /\ WorldsInv /\ RecordsInv
    BY DEF ReadInv
  <1>2. CASE step' \notin Running /\ DOMAIN records' = {}
    BY <1>2 DEF RecordsInv
  <1>3. Degrade => step' \notin Running /\ DOMAIN records' = {}
    BY NothingIsRead DEF Degrade, Forget, Running
  <1>4. CASE /\ UNCHANGED records
             /\ step \in Running /\ step' \in Running
             /\ \/ step' = step /\ todo' = todo
                \/ step # "panes" \/ todo = {}
    <2>1. worlds \subseteq worlds'
      BY <1>4, WorldsGrow
    <2> QED
      BY <1>1, <1>4, <2>1 DEF RecordsInv
  <1>5. CASE Change
    <2>1. CASE step \in Running
      BY <1>4, <1>5, <2>1 DEF Change
    <2>2. CASE step \notin Running
      BY <1>1, <1>2, <1>5, <2>2 DEF Change, RecordsInv, Running
    <2> QED
      BY <2>1, <2>2
  <1>6. CASE Begin
    <2>1. DOMAIN records = {} /\ records' = records /\ todo' = open
          /\ step' = "panes" /\ worlds' = {World}
      BY <1>1, <1>6 DEF Begin, RecordsInv
    <2>2. \A x \in Panes \ open : World.panes[x] = {}
      BY <1>1 DEF WorldsInv, World
    <2> QED
      BY <2>1, <2>2 DEF RecordsInv, Running
  <1>7. CASE ReadPane
    <2>1. step = "panes" /\ World \in worlds
      BY <1>1, <1>7 DEF ReadPane, WorldsInv, Running
    <2>2. PICK x \in todo :
            \/ Degrade
            \/ /\ records' = [y \in DOMAIN records \cup {x} |->
                               IF y = x THEN panes[x] ELSE records[y]]
               /\ todo' = todo \ {x}
               /\ step' = step /\ worlds' = worlds
      BY <1>7 DEF ReadPane
    <2>3. CASE /\ records' = [y \in DOMAIN records \cup {x} |->
                                IF y = x THEN panes[x] ELSE records[y]]
               /\ todo' = todo \ {x}
               /\ step' = step /\ worlds' = worlds
      <3>1. records'[x] = World.panes[x]
        BY <2>3 DEF World
      <3>2. \A y \in DOMAIN records \ {x} : records'[y] = records[y]
        BY <2>3
      <3>3. DOMAIN records' = DOMAIN records \cup {x}
        BY <2>3
      <3>4. \A y \in DOMAIN records' :
              \E w \in worlds' : records'[y] = w.panes[y]
        BY <1>1, <2>1, <2>3, <3>1, <3>2, <3>3 DEF RecordsInv
      <3>5. \A y \in Panes :
              \/ y \in DOMAIN records'
              \/ y \in todo'
              \/ \E w \in worlds' : w.panes[y] = {}
        BY <1>1, <2>1, <2>3, <3>3 DEF RecordsInv, Running
      <3> QED
        BY <2>1, <2>3, <3>4, <3>5 DEF RecordsInv, Running
    <2> QED
      BY <1>2, <1>3, <2>2, <2>3
  <1>8. CASE Scan
    BY <1>4, <1>8 DEF Scan, Scanned, Running
  <1>9. CASE Rescan
    BY <1>4, <1>9 DEF Rescan, Scanned, Running
  <1>10. CASE Lookup
    <2>1. Degrade \/ (records' = records /\ step' = "lookup")
      BY <1>10 DEF Lookup
    <2> QED
      BY <1>2, <1>3, <1>4, <1>10, <2>1 DEF Lookup, Running
  <1>11. CASE ReadFails \/ Finish
    BY <1>2, <1>3, <1>11, NothingIsRead DEF ReadFails, Finish, Forget, Running
  <1>12. CASE UNCHANGED vars
    BY <1>1, <1>12 DEF vars, RecordsInv
  <1> QED
    BY <1>5, <1>6, <1>7, <1>8, <1>9, <1>10, <1>11, <1>12 DEF Next

LEMMA ListenersStep == ReadInv /\ [Next]_vars => ListenersInv'
  <1> SUFFICES ASSUME ReadInv, [Next]_vars
               PROVE  ListenersInv'
    OBVIOUS
  <1>1. TypeOK /\ WorldsInv /\ ListenersInv
    BY DEF ReadInv
  <1>2. CASE step' \notin {"rescan", "lookup"} /\ listeners' = {}
    BY <1>2 DEF ListenersInv
  <1>3. Degrade => step' \notin {"rescan", "lookup"} /\ listeners' = {}
    BY DEF Degrade, Forget
  <1>4. CASE /\ UNCHANGED <<listeners, step, platform, unseen>>
             /\ step \in Running
    <2>1. worlds \subseteq worlds'
      BY <1>4, WorldsGrow
    <2>2. \A l : SteadyListener(l)' => SteadyListener(l)
      BY <2>1 DEF SteadyListener
    <2> QED
      BY <1>1, <1>4, <2>1, <2>2 DEF ListenersInv
  <1>5. CASE Change
    <2>1. CASE step \in Running
      BY <1>4, <1>5, <2>1 DEF Change, machine
    <2>2. CASE step \notin Running
      <3>1. listeners = {}
        BY <1>1, <2>2 DEF ListenersInv, Running
      <3> QED
        BY <1>2, <1>5, <2>2, <3>1 DEF Change
    <2> QED
      BY <2>1, <2>2
  <1>6. CASE Begin
    <2>1. listeners = {}
      BY <1>1, <1>6 DEF Begin, ListenersInv, Running
    <2> QED
      BY <1>2, <1>6, <2>1 DEF Begin
  <1>8. CASE Scan
    <2>1. /\ step = "panes" /\ worlds' = worlds /\ platform' = platform
          /\ World \in worlds
      BY <1>1, <1>8 DEF Scan, machine, WorldsInv, Running
    <2>2. \A l \in Listening : \E w \in worlds : l.port \in w.table[l.pid].ports
      BY <2>1 DEF Listening, World
    <2>3. \A l \in Listeners : SteadyListener(l)' => l \in Listening
                                 /\ l.port \notin Ignored
      BY <2>1 DEF Listening, World, SteadyListener
    <2>4. CASE platform = "darwin"
      <3>1. step' = "rescan" /\ listeners' = Listening \ unseen'
        BY <1>8, <2>4 DEF Scan
      <3> QED
        BY <2>1, <2>2, <2>3, <2>4, <3>1 DEF ListenersInv
    <2>5. CASE platform # "darwin"
      <3>1. PICK some \in Named(Listening \ unseen') :
              step' = "lookup" /\ listeners' = Considered(some)
        BY <1>8, <2>5 DEF Scan, Scanned
      <3>2. /\ listeners' = {l \in some : l.port \notin Ignored}
            /\ some \subseteq Listening
            /\ \A l \in Listening \ unseen' : \E k \in some : k.port = l.port
        BY <3>1 DEF Considered, Named
      <3>3. \A l \in Listeners : SteadyListener(l)' =>
              l \in unseen' \/ \E k \in listeners' : k.port = l.port
        BY <2>3, <3>2
      <3> QED
        BY <2>1, <2>2, <2>5, <3>1, <3>2, <3>3 DEF ListenersInv
    <2> QED
      BY <2>4, <2>5
  <1>9. CASE Rescan
    <2>1. /\ step = "rescan" /\ worlds' = worlds /\ platform' = platform
          /\ platform = "darwin" /\ World \in worlds
      BY <1>1, <1>9 DEF Rescan, machine, WorldsInv, Running, ListenersInv
    <2>2. \A l \in Listening : \E w \in worlds : l.port \in w.table[l.pid].ports
      BY <2>1 DEF Listening, World
    <2>3. PICK recovered \in SUBSET Listening :
            /\ Scanned(listeners \cup recovered)
            /\ unseen' = unseen \ recovered
      <3> DEFINE all == {l \in Listening : l.pid \in ForegroundPids}
      <3>1. \/ Scanned(listeners \cup all) /\ unseen' = unseen \ all
            \/ Scanned(listeners \cup {}) /\ unseen' = unseen \ {}
        BY <1>9 DEF Rescan
      <3>2. all \in SUBSET Listening /\ {} \in SUBSET Listening
        OBVIOUS
      <3> HIDE DEF all
      <3> QED
        BY <3>1, <3>2
    <2>4. /\ step' = "lookup"
          /\ listeners' =
               {l \in listeners \cup recovered : l.port \notin Ignored}
      BY <2>3 DEF Scanned, Considered
    <2>5. \A l \in listeners \cup recovered :
            \E w \in worlds : l.port \in w.table[l.pid].ports
      BY <1>1, <2>2 DEF ListenersInv
    <2>6. \A l : SteadyListener(l)' =>
            SteadyListener(l) /\ l.port \notin Ignored
      BY <2>1 DEF SteadyListener
    <2>7. \A l \in Listeners : SteadyListener(l) =>
            l \in listeners \/ l \in unseen
      BY <1>1, <2>1 DEF ListenersInv
    <2>8. \A l \in Listeners : SteadyListener(l)' =>
            l \in listeners' \/ l \in unseen'
      BY <2>3, <2>4, <2>6, <2>7
    <2> QED
      BY <2>1, <2>4, <2>5, <2>8 DEF ListenersInv
  <1>10. CASE ReadPane \/ Lookup
    <2>1. step \in Running /\ platform' = platform
      BY <1>10 DEF ReadPane, Lookup, machine, Running
    <2>2. Degrade \/ UNCHANGED <<listeners, step, unseen>>
      BY <1>10 DEF ReadPane, Lookup
    <2> QED
      BY <1>2, <1>3, <1>4, <2>1, <2>2
  <1>11. CASE ReadFails \/ Finish
    BY <1>2, <1>3, <1>11 DEF ReadFails, Finish, Forget
  <1>12. CASE UNCHANGED vars
    BY <1>1, <1>12 DEF vars, machine, ListenersInv, SteadyListener
  <1> QED
    BY <1>5, <1>6, <1>8, <1>9, <1>10, <1>11, <1>12 DEF Next

LEMMA ProcessesStep == ReadInv /\ [Next]_vars => ProcessesInv'
  <1> SUFFICES ASSUME ReadInv, [Next]_vars
               PROVE  ProcessesInv'
    OBVIOUS
  <1>1. TypeOK /\ WorldsInv /\ ProcessesInv
    BY DEF ReadInv
  <1>2. CASE step' \in {"idle", "built", "rescan"} /\ DOMAIN processes' = {}
    BY <1>2 DEF ProcessesInv
  <1>3. Degrade => step' = "idle" /\ DOMAIN processes' = {}
    BY NothingIsRead DEF Degrade, Forget
  <1>a. ASSUME platform' = platform
        PROVE  \A process : Record(process)' = Record(process)
    BY <1>a DEF Record
  <1>4. CASE /\ UNCHANGED <<listeners, step, processes, todo, platform>>
             /\ step \in Running
    <2>1. worlds \subseteq worlds'
      BY <1>4, WorldsGrow
    <2>2. \A process : Record(process)' = Record(process)
      BY <1>4, <1>a
    <2> QED
      BY <1>1, <1>4, <2>1, <2>2 DEF ProcessesInv
  <1>5. CASE Change
    <2>1. CASE step \in Running
      BY <1>4, <1>5, <2>1 DEF Change
    <2>2. CASE step \notin Running
      BY <1>1, <1>2, <1>5, <2>2 DEF Change, ProcessesInv, Running
    <2> QED
      BY <2>1, <2>2
  <1>6. CASE Begin
    <2>1. DOMAIN processes = {} /\ open \subseteq Panes
      BY <1>1, <1>6 DEF Begin, ProcessesInv, Running, TypeOK
    <2> QED
      BY <1>6, <2>1 DEF Begin, ProcessesInv
  <1>7. CASE ReadPane
    <2>1. step = "panes" /\ todo \subseteq Panes /\ DOMAIN processes = {}
      BY <1>1, <1>7 DEF ReadPane, ProcessesInv
    <2>2. \/ Degrade
          \/ /\ todo' \subseteq todo
             /\ UNCHANGED <<step, listeners, processes, worlds>>
      BY <1>7 DEF ReadPane
    <2> QED
      BY <1>2, <1>3, <2>1, <2>2 DEF ProcessesInv
  <1>8. CASE Scan \/ Rescan
    <2>1. DOMAIN processes = {} /\ processes' = processes
      BY <1>1, <1>8 DEF Scan, Rescan, ProcessesInv
    <2>2. step' = "rescan" \/ (step' = "lookup" /\ todo' = listeners')
      BY <1>8 DEF Scan, Rescan, Scanned
    <2> QED
      BY <1>2, <2>1, <2>2 DEF ProcessesInv
  <1>9. CASE Lookup
    <2>1. step = "lookup" /\ World \in worlds
      BY <1>1, <1>9 DEF Lookup, WorldsInv, Running
    <2>2. PICK l \in todo :
            \/ Degrade
            \/ /\ l.pid \in Live
               /\ processes' = [p \in DOMAIN processes \cup {l.pid} |->
                                 IF p = l.pid THEN Record(table[p])
                                 ELSE processes[p]]
               /\ todo' = todo \ {l}
               /\ UNCHANGED <<step, listeners, worlds>>
      BY <1>9 DEF Lookup
    <2>3. CASE /\ l.pid \in Live
               /\ processes' = [p \in DOMAIN processes \cup {l.pid} |->
                                 IF p = l.pid THEN Record(table[p])
                                 ELSE processes[p]]
               /\ todo' = todo \ {l}
               /\ UNCHANGED <<step, listeners, worlds>>
      <3> DEFINE pid == l.pid
      <3>1. l \in listeners
        BY <1>1, <2>1 DEF ProcessesInv
      <3>2. pid \in Pids /\ table[pid].exists
        BY <2>3 DEF Live
      <3>3. processes' = [p \in DOMAIN processes \cup {pid} |->
                           IF p = pid THEN Record(table[p]) ELSE processes[p]]
        BY <2>3
      <3> HIDE DEF pid
      <3>4. /\ DOMAIN processes' = DOMAIN processes \cup {pid}
            /\ processes'[pid] = Record(World.table[pid])
            /\ \A p \in DOMAIN processes \ {pid} : processes'[p] = processes[p]
        BY <3>3 DEF World
      <3>5. processes'[pid].exists
        <4>1. World.table[pid] \in Processes \cup {NoProcess}
          BY <1>1, <3>2 DEF WorldsInv, IsWorld
        <4>2. World.table[pid].exists
          BY <3>2 DEF World
        <4> QED
          BY <3>4, <4>1, <4>2, RecordFields
      <3>6. \A p \in DOMAIN processes' :
              /\ \E k \in listeners : k.pid = p
              /\ processes'[p].exists
              /\ \E w \in worlds : processes'[p] = Record(w.table[p])
        BY <1>1, <2>1, <3>1, <3>4, <3>5 DEF ProcessesInv, pid
      <3>7. \A k \in listeners \ todo' : k.pid \in DOMAIN processes'
        <4>1. \A k \in listeners \ todo : k.pid \in DOMAIN processes
          BY <1>1, <2>1 DEF ProcessesInv
        <4> QED
          BY <2>3, <3>4, <4>1 DEF pid
      <3>8. todo' \subseteq listeners
        BY <1>1, <2>1, <2>3 DEF ProcessesInv
      <3>9. \A process : Record(process)' = Record(process)
        BY <1>9, <1>a DEF Lookup, machine
      <3> QED
        BY <2>1, <2>3, <3>6, <3>7, <3>8, <3>9 DEF ProcessesInv
    <2> QED
      BY <1>2, <1>3, <2>2, <2>3
  <1>10. CASE ReadFails \/ Finish
    BY <1>2, <1>3, <1>10, NothingIsRead DEF ReadFails, Finish, Forget
  <1>11. CASE UNCHANGED vars
    BY <1>1, <1>11, <1>a DEF vars, ProcessesInv
  <1> QED
    BY <1>5, <1>6, <1>7, <1>8, <1>9, <1>10, <1>11 DEF Next

LEMMA ReadInvStep == ReadInv /\ [Next]_vars => ReadInv'
  BY DiscoveryTypingStep, WorldsStep, RecordsStep, ListenersStep, ProcessesStep
     DEF ReadInv

LEMMA ReadInvHolds == Spec => []ReadInv
  BY ReadInvInit, ReadInvStep, PTL DEF Spec

-----------------------------------------------------------------------------
(* What was read, when it is put together.                                 *)

(* Only Finish makes a rebuild's result, from what was read.               *)
LEMMA OnlyFinishBuilds ==
    ASSUME ReadInv, [Next]_vars, step' = "built"
    PROVE  UNCHANGED vars \/ (Finish /\ apps' = Build /\ worlds' = worlds)
  <1>1. ~Change
    <2>1. Change => step' = "idle" \/ (step' = step /\ step \in Running)
      BY DEF Change
    <2> QED
      BY <2>1 DEF Running
  <1>2. ~Degrade
    BY DEF Degrade
  <1>3. ~(ReadPane \/ Lookup \/ ReadFails)
    BY <1>2 DEF ReadPane, Lookup, ReadFails
  <1>4. ~(Begin \/ Scan \/ Rescan)
    BY DEF Begin, Scan, Rescan, Scanned
  <1> QED
    BY <1>1, <1>3, <1>4 DEF Next, Finish

(* A process that was looked up existed, and is recorded as it was.        *)
LEMMA LookedUp ==
    ASSUME ReadInv, NEW p \in DOMAIN processes
    PROVE  /\ p \in Pids
           /\ \E l \in listeners : l.pid = p
           /\ \E v \in worlds :
                /\ processes[p] = Record(v.table[p])
                /\ v.table[p] \in Processes \cup {NoProcess}
                /\ v.table[p].exists
                /\ processes[p].inc = v.table[p].inc
                /\ processes[p].parent = v.table[p].parent
  <1>1. p \in Pids
    BY DEF ReadInv, TypeOK
  <1>2. PICK v \in worlds : processes[p] = Record(v.table[p])
    BY DEF ReadInv, ProcessesInv
  <1>3. v.table[p] \in Processes \cup {NoProcess}
    BY <1>1 DEF ReadInv, WorldsInv, IsWorld
  <1>4. /\ Record(v.table[p]).exists = v.table[p].exists
        /\ Record(v.table[p]).inc = v.table[p].inc
        /\ Record(v.table[p]).parent = v.table[p].parent
    BY <1>3, RecordFields
  <1>5. processes[p].exists /\ \E l \in listeners : l.pid = p
    BY DEF ReadInv, ProcessesInv
  <1> QED
    BY <1>1, <1>2, <1>3, <1>4, <1>5

LEMMA ApplicationFields ==
    ASSUME NEW p
    PROVE  /\ Application(p).pid = p
           /\ Application(p).inc = processes[p].inc
           /\ Application(p).ports =
                {l.port : l \in {k \in listeners : k.pid = p}}
           /\ Application(p).pane = Association(Matches(p)).pane
           /\ Application(p).conf = Association(Matches(p)).conf
  BY DEF Application

LEMMA AssociationFields ==
    ASSUME NEW found
    PROVE  /\ \A x \in Association(found).pane : found = {x}
           /\ Association(found).conf = "high" <=> \E x \in found : found = {x}
  <1> DEFINE single == \E x \in found : found = {x}
  <1>1. /\ single => Association(found).pane = found
        /\ ~single => Association(found).pane = {}
    BY DEF Association
  <1>2. /\ found = {} => Association(found).conf = "unknown"
        /\ found # {} /\ single => Association(found).conf = "high"
        /\ found # {} /\ ~single => Association(found).conf = "partial"
    BY DEF Association
  <1>3. \A x \in Association(found).pane : found = {x}
    BY <1>1
  <1> QED
    BY <1>2, <1>3

(* What is known of a steady server is its own; a port of its that is not  *)
(* known was not seen, or is known of another that listened there.         *)
LEMMA SteadyIsFound ==
    ASSUME ReadInv, step = "lookup", todo = {},
           NEW w \in worlds, NEW p \in SteadyServers(w)
    PROVE  /\ p \in DOMAIN processes => processes[p].inc = w.table[p].inc
           /\ Application(p).ports \subseteq w.table[p].ports \ Ignored
           /\ \A port \in w.table[p].ports \ Ignored :
                \/ p \in DOMAIN processes /\ port \in Application(p).ports
                \/ [pid |-> p, port |-> port] \in unseen
                \/ /\ platform # "darwin"
                   /\ \E q \in DOMAIN processes :
                        /\ q # p /\ port \in Application(q).ports
                        /\ \E v \in worlds : port \in v.table[q].ports
  <1>1. TypeOK /\ WorldsInv /\ ListenersInv /\ ProcessesInv
    BY DEF ReadInv
  <1>2. /\ p \in Pids
        /\ \A v \in worlds : v.table[p] = w.table[p]
    BY DEF SteadyServers, Steady
  <1>3. w.table[p].ports \subseteq Ports
    <2>1. w.table[p] \in Processes \cup {NoProcess}
      BY <1>1, <1>2 DEF WorldsInv, IsWorld
    <2>2. \A process \in Processes : process.ports \subseteq Ports
      BY DEF Processes
    <2>3. NoProcess.ports = {}
      BY DEF NoProcess
    <2> QED
      BY <2>1, <2>2, <2>3
  <1>4. p \in DOMAIN processes => processes[p].inc = w.table[p].inc
    BY <1>2, LookedUp
  <1>5. \A l \in listeners :
          /\ l.pid \in DOMAIN processes
          /\ l.port \in Application(l.pid).ports
          /\ l.port \notin Ignored
          /\ \E v \in worlds : l.port \in v.table[l.pid].ports
    <2>1. \A l \in listeners : l.port \in Application(l.pid).ports
      BY ApplicationFields
    <2> QED
      BY <1>1, <2>1 DEF ListenersInv, ProcessesInv
  <1>6. Application(p).ports \subseteq w.table[p].ports \ Ignored
    <2>1. ASSUME NEW l \in listeners, l.pid = p
          PROVE  l.port \in w.table[p].ports \ Ignored
      <3>1. PICK v \in worlds : l.port \in v.table[l.pid].ports
        BY <1>5
      <3> QED
        BY <1>2, <1>5, <2>1, <3>1
    <2> QED
      BY <2>1, ApplicationFields
  <1>7. ASSUME NEW port \in w.table[p].ports \ Ignored
        PROVE  \/ p \in DOMAIN processes /\ port \in Application(p).ports
               \/ [pid |-> p, port |-> port] \in unseen
               \/ /\ platform # "darwin"
                  /\ \E q \in DOMAIN processes :
                       /\ q # p /\ port \in Application(q).ports
                       /\ \E v \in worlds : port \in v.table[q].ports
    <2> DEFINE l == [pid |-> p, port |-> port]
    <2>1. l \in Listeners /\ l.pid = p /\ l.port = port
      BY <1>2, <1>3 DEF Listeners
    <2> HIDE DEF l
    <2>2. SteadyListener(l)
      BY <1>2, <2>1 DEF SteadyListener
    <2>3. \/ l \in listeners
          \/ l \in unseen
          \/ platform # "darwin" /\ \E k \in listeners : k.port = l.port
      BY <1>1, <2>1, <2>2 DEF ListenersInv
    <2>4. CASE l \in unseen
      BY <2>4 DEF l
    <2>5. CASE l \in listeners
      BY <1>5, <2>1, <2>5
    <2>6. CASE platform # "darwin" /\ \E k \in listeners : k.port = l.port
      <3>1. PICK k \in listeners : k.port = l.port
        BY <2>6
      <3>2. /\ k.pid \in DOMAIN processes /\ port \in Application(k.pid).ports
            /\ \E v \in worlds : port \in v.table[k.pid].ports
        BY <1>5, <2>1, <3>1
      <3> QED
        BY <2>6, <3>2
    <2> QED
      BY <2>3, <2>4, <2>5, <2>6
  <1> QED
    BY <1>4, <1>6, <1>7

(* When no pane changed, what matches is what shows the process or, on     *)
(* Linux, is near it.                                                      *)
LEMMA MatchesAreSeen ==
    ASSUME ReadInv, step = "lookup",
           \A v, w \in worlds : v.panes = w.panes,
           NEW w \in worlds, NEW p \in DOMAIN processes,
           processes[p] = Record(w.table[p])
    PROVE  /\ Strong(p) = Showing(w, p)
           /\ Weak(p) = IF platform = "darwin" THEN {} ELSE Near(w, p)
  <1>1. TypeOK /\ RecordsInv
    BY DEF ReadInv
  <1>2. DOMAIN records \subseteq Panes
    BY <1>1 DEF TypeOK
  <1>3. \A x \in DOMAIN records : records[x] = w.panes[x]
    BY <1>1 DEF RecordsInv
  <1>4. \A x \in Panes \ DOMAIN records : w.panes[x] = {}
    BY <1>1 DEF RecordsInv, Running
  <1>a. w.table[p] \in Processes \cup {NoProcess}
    BY <1>1 DEF ReadInv, WorldsInv, IsWorld, TypeOK
  <1>b. /\ processes[p].parent = w.table[p].parent
        /\ platform # "darwin" => processes[p].cwd = w.table[p].cwd
        /\ platform = "darwin" => processes[p].cwd = NoPath
    BY <1>a, RecordFields
  <1>5. Strong(p) = Showing(w, p)
    <2>1. ASSUME NEW x \in DOMAIN records
          PROVE  PidsOf(x) \cap {p, processes[p].parent} # {}
                   <=> \E e \in w.panes[x] :
                         e.pid # 0 /\ e.pid \in {p, w.table[p].parent}
      BY <1>3, <1>b DEF PidsOf
    <2> QED
      BY <1>2, <1>4, <2>1 DEF Strong, Showing
  <1>6. CASE platform # "darwin"
    <2>1. ASSUME NEW x \in DOMAIN records
          PROVE  (\E d \in DirectoriesOf(x) : CwdMatches(processes[p].cwd, d))
                   <=> \E e \in w.panes[x] :
                         e.pid = 0 /\ CwdMatches(w.table[p].cwd, e.cwd)
      BY <1>3, <1>6, <1>b DEF DirectoriesOf
    <2>2. Weak(p) = Near(w, p)
      BY <1>2, <1>4, <2>1 DEF Weak, Near
    <2> QED
      BY <1>5, <1>6, <2>2
  <1>7. CASE platform = "darwin"
    <2>1. \A d : ~CwdMatches(processes[p].cwd, d)
      BY <1>7, <1>b DEF CwdMatches
    <2> QED
      BY <1>5, <1>7, <2>1 DEF Weak
  <1> QED
    BY <1>6, <1>7

-----------------------------------------------------------------------------
(* The theorems.                                                           *)

(* Everything a rebuild reads and puts together is of its types.           *)
THEOREM DiscoveryTyping == Spec => []TypeOK
  <1>1. ReadInv => TypeOK
    BY DEF ReadInv
  <1> QED
    BY <1>1, ReadInvHolds, PTL

(* A server that did not change during a rebuild of adapter.Runtime is     *)
(* listed at most once, with its identity and its own ports, and loses a   *)
(* port only to the scan, which omits it or names another process that     *)
(* shares it, whatever any number of others did between its reads.         *)
THEOREM SteadyServersAreListed == Spec => []SteadyIsListed
  <1>1. Init => SteadyIsListed
    BY DEF Init, SteadyIsListed
  <1>2. ASSUME ReadInv, SteadyIsListed, [Next]_vars
        PROVE  SteadyIsListed'
    <2>1. CASE UNCHANGED vars
      BY <1>2, <2>1
         DEF vars, SteadyIsListed, SteadyServers, Steady, AppsOf, NamedAnother
    <2>2. CASE Finish /\ apps' = Build /\ worlds' = worlds
      <3>1. /\ step = "lookup" /\ todo = {} /\ platform' = platform
            /\ unseen' = unseen
        BY <2>2 DEF Finish, machine
      <3>2. \A q : AppsOf(q)' = {a \in Build : a.pid = q}
        BY <2>2 DEF AppsOf
      <3>3. \A q, a : a \in AppsOf(q)' <=>
                        q \in DOMAIN processes /\ a = Application(q)
        BY <3>2, ApplicationFields DEF Build
      <3>4. ASSUME NEW w \in worlds, NEW p \in SteadyServers(w)
            PROVE  /\ \A a, b \in AppsOf(p)' : a = b
                   /\ \A a \in AppsOf(p)' :
                        /\ a.inc = w.table[p].inc
                        /\ a.ports \subseteq w.table[p].ports \ Ignored
                   /\ \A port \in w.table[p].ports \ Ignored :
                        \/ \E a \in AppsOf(p)' : port \in a.ports
                        \/ [pid |-> p, port |-> port] \in unseen'
                        \/ NamedAnother(p, port)'
        <4>1. \A a, b \in AppsOf(p)' : a = b
          BY <3>3
        <4>2. \A a \in AppsOf(p)' :
                /\ a.inc = w.table[p].inc
                /\ a.ports \subseteq w.table[p].ports \ Ignored
          BY <1>2, <3>1, <3>3, <3>4, SteadyIsFound, ApplicationFields
        <4>3. ASSUME NEW port \in w.table[p].ports \ Ignored
              PROVE  \/ \E a \in AppsOf(p)' : port \in a.ports
                     \/ [pid |-> p, port |-> port] \in unseen'
                     \/ NamedAnother(p, port)'
          <5>1. CASE p \in DOMAIN processes /\ port \in Application(p).ports
            BY <3>3, <5>1
          <5>2. CASE [pid |-> p, port |-> port] \in unseen
            BY <3>1, <5>2
          <5>3. CASE /\ platform # "darwin"
                     /\ \E q \in DOMAIN processes :
                          /\ q # p /\ port \in Application(q).ports
                          /\ \E v \in worlds : port \in v.table[q].ports
            <6>1. PICK q \in DOMAIN processes :
                    /\ q # p /\ port \in Application(q).ports
                    /\ \E v \in worlds : port \in v.table[q].ports
              BY <5>3
            <6>2. /\ Application(q) \in apps' /\ Application(q).pid = q
                  /\ Application(q) \notin AppsOf(p)'
              BY <2>2, <3>3, <6>1, ApplicationFields DEF Build
            <6>3. \E v \in worlds' : port \in v.table[Application(q).pid].ports
              BY <2>2, <6>1, <6>2
            <6> QED
              BY <3>1, <5>3, <6>1, <6>2, <6>3 DEF NamedAnother
          <5> QED
            BY <1>2, <3>1, <3>4, <5>1, <5>2, <5>3, SteadyIsFound
        <4> QED
          BY <4>1, <4>2, <4>3
      <3>5. \A w \in worlds : SteadyServers(w)' = SteadyServers(w)
        BY <2>2 DEF SteadyServers, Steady
      <3> QED
        BY <2>2, <3>4, <3>5 DEF SteadyIsListed
    <2>3. CASE step' # "built"
      BY <2>3 DEF SteadyIsListed
    <2> QED
      BY <1>2, <2>1, <2>2, <2>3, OnlyFinishBuilds
  <1> QED
    BY <1>1, <1>2, ReadInvHolds, PTL DEF Spec

(* When the panes did not change either, correlation.Build gives such a    *)
(* server, once listed, to the pane that owns it (by its directory on      *)
(* Linux only), and to none if not exactly one does.                       *)
THEOREM SteadyServersAreOwned == Spec => []SteadyIsOwned
  <1>1. Init => SteadyIsOwned
    BY DEF Init, SteadyIsOwned
  <1>2. ASSUME ReadInv, SteadyIsOwned, [Next]_vars
        PROVE  SteadyIsOwned'
    <2>1. CASE UNCHANGED vars
      BY <1>2, <2>1
         DEF vars, SteadyIsOwned, SteadyServers, Steady, OwnedBy
    <2>2. CASE Finish /\ apps' = Build /\ worlds' = worlds
      <3>1. step = "lookup" /\ platform' = platform
        BY <2>2 DEF Finish, machine
      <3>2. ASSUME \A v, w \in worlds : v.panes = w.panes, NEW w \in worlds,
                   NEW p \in SteadyServers(w), NEW a \in Build, a.pid = p
            PROVE  /\ a.conf = "high" <=> \E x \in Panes : OwnedBy(w, p, x)
                   /\ \A x \in a.pane : OwnedBy(w, p, x)
        <4>1. p \in DOMAIN processes /\ a = Application(p)
          BY <3>2, ApplicationFields DEF Build
        <4>2. processes[p] = Record(w.table[p])
          BY <1>2, <4>1, LookedUp DEF SteadyServers, Steady
        <4>3. /\ Strong(p) = Showing(w, p)
              /\ Weak(p) = IF platform = "darwin" THEN {} ELSE Near(w, p)
          BY <1>2, <3>1, <3>2, <4>1, <4>2, MatchesAreSeen
        <4>4. \A x : Matches(p) = {x} <=> OwnedBy(w, p, x)
          BY <4>3 DEF Matches, OwnedBy
        <4>5. Matches(p) \subseteq Panes
          BY <4>3 DEF Matches, Showing, Near
        <4>6. /\ a.pane = Association(Matches(p)).pane
              /\ a.conf = Association(Matches(p)).conf
          BY <4>1, ApplicationFields
        <4>7. \A x \in a.pane : OwnedBy(w, p, x)
          BY <4>4, <4>6, AssociationFields
        <4>8. a.conf = "high" <=> \E x \in Matches(p) : Matches(p) = {x}
          BY <4>6, AssociationFields
        <4>9. (\E x \in Matches(p) : Matches(p) = {x})
                <=> \E x \in Panes : Matches(p) = {x}
          BY <4>5
        <4>10. (\E x \in Panes : Matches(p) = {x})
                 <=> \E x \in Panes : OwnedBy(w, p, x)
          BY <4>4
        <4> QED
          BY <4>7, <4>8, <4>9, <4>10
      <3>3. \A w \in worlds : SteadyServers(w)' = SteadyServers(w)
        BY <2>2 DEF SteadyServers, Steady
      <3> QED
        BY <2>2, <3>1, <3>2, <3>3
           DEF SteadyIsOwned, SteadyServers, Steady, OwnedBy
    <2>3. CASE step' # "built"
      BY <2>3 DEF SteadyIsOwned
    <2> QED
      BY <1>2, <2>1, <2>2, <2>3, OnlyFinishBuilds
  <1> QED
    BY <1>1, <1>2, ReadInvHolds, PTL DEF Spec

(* What PaneProcesses and Build give to a pane was seen with it during the *)
(* rebuild, if no pid changed hands meanwhile.                             *)
THEOREM OwnedWasSeen == Spec => []HighIsOwnedUnlessReused
  <1>1. Init => HighIsOwnedUnlessReused
    BY DEF Init, HighIsOwnedUnlessReused, HighIsOwned
  <1>2. ASSUME ReadInv, HighIsOwnedUnlessReused, [Next]_vars
        PROVE  HighIsOwnedUnlessReused'
    <2>1. CASE UNCHANGED vars
      BY <1>2, <2>1
         DEF vars, HighIsOwnedUnlessReused, HighIsOwned, Reused, SeenInPane
    <2>2. CASE Finish /\ apps' = Build /\ worlds' = worlds
      <3>1. ASSUME ~Reused, NEW a \in Build, NEW x \in a.pane
            PROVE  \E w \in worlds : SeenInPane(w, a, x)
        <4>1. PICK p \in DOMAIN processes : a = Application(p)
          BY DEF Build
        <4>2. a.pid = p /\ a.inc = processes[p].inc /\ x \in Matches(p)
          BY <3>1, <4>1, ApplicationFields, AssociationFields
        <4>3. PICK v \in worlds :
                /\ processes[p] = Record(v.table[p])
                /\ v.table[p] \in Processes \cup {NoProcess}
                /\ v.table[p].exists
                /\ processes[p].inc = v.table[p].inc
                /\ processes[p].parent = v.table[p].parent
          BY <1>2, LookedUp
        <4>4. p \in Pids
          BY <1>2, LookedUp
        <4>5. x \in DOMAIN records
          BY <4>2 DEF Matches, Strong, Weak
        <4>6. PICK w \in worlds : records[x] = w.panes[x]
          BY <1>2, <4>5 DEF ReadInv, RecordsInv
        <4>7. Possible(v) /\ Possible(w) /\ x \in Panes
          BY <1>2, <4>5 DEF ReadInv, WorldsInv, IsWorld, TypeOK
        <4>8. \A q \in Pids : w.table[q].exists /\ v.table[q].exists
                => w.table[q].inc = v.table[q].inc
          BY <3>1 DEF Reused
        <4>9. CASE \E e \in w.panes[x] : e.pid # 0 /\ e.pid = p
          <5>1. w.table[p].exists
            BY <4>7, <4>9 DEF Possible
          <5>2. w.table[p].inc = a.inc
            BY <4>2, <4>3, <4>4, <4>8, <5>1
          <5> QED
            BY <4>2, <4>9, <5>2 DEF SeenInPane
        <4>10. CASE \E e \in w.panes[x] : e.pid # 0 /\ e.pid = v.table[p].parent
          <5>1. PICK e \in w.panes[x] : e.pid # 0 /\ e.pid = v.table[p].parent
            BY <4>10
          <5>2. e.pid \in Pids /\ w.table[e.pid].exists
            BY <4>7, <5>1 DEF Possible
          <5>3. v.table[e.pid].exists
            BY <4>3, <4>4, <4>7, <5>1 DEF Possible
          <5>4. v.table[e.pid].inc = w.table[e.pid].inc
            BY <4>8, <5>2, <5>3
          <5>5. v.table[a.pid].exists /\ v.table[a.pid].inc = a.inc
                /\ v.table[a.pid].parent = e.pid
            BY <4>2, <4>3, <5>1
          <5> QED
            BY <5>1, <5>3, <5>4, <5>5 DEF SeenInPane
        <4>11. CASE \E e \in w.panes[x] :
                      e.pid = 0 /\ CwdMatches(v.table[p].cwd, e.cwd)
          BY <4>2, <4>3, <4>11 DEF SeenInPane
        <4>12. CASE x \in Strong(p)
          <5>1. \E e \in records[x] :
                  e.pid # 0 /\ e.pid \in {p, processes[p].parent}
            BY <4>12 DEF Strong, PidsOf
          <5> QED
            BY <4>3, <4>6, <4>9, <4>10, <5>1
        <4>13. CASE x \in Weak(p)
          <5>1. \E e \in records[x] :
                  e.pid = 0 /\ CwdMatches(processes[p].cwd, e.cwd)
            BY <4>13 DEF Weak, DirectoriesOf
          <5>2. platform # "darwin"
            <6>1. processes[p].cwd # NoPath
              BY <5>1 DEF CwdMatches
            <6> QED
              BY <4>3, <6>1, RecordFields
          <5>3. processes[p].cwd = v.table[p].cwd
            BY <4>3, <5>2, RecordFields
          <5> QED
            BY <4>6, <4>11, <5>1, <5>3
        <4> QED
          BY <4>2, <4>12, <4>13 DEF Matches
      <3>2. Reused' <=> Reused
        BY <2>2 DEF Reused
      <3> QED
        BY <2>2, <3>1, <3>2
           DEF HighIsOwnedUnlessReused, HighIsOwned, SeenInPane
    <2>3. CASE step' # "built"
      BY <2>3 DEF HighIsOwnedUnlessReused, HighIsOwned
    <2> QED
      BY <1>2, <2>1, <2>2, <2>3, OnlyFinishBuilds
  <1> QED
    BY <1>1, <1>2, ReadInvHolds, PTL DEF Spec

(* Each port that a rebuild lists was one of this very process during the  *)
(* rebuild, if no pid changed hands, also where a scan may omit listeners  *)
(* and the panes' processes are scanned again.                             *)
THEOREM ListedWasListening == Spec => []ListedDidListen
  <1>1. Init => ListedDidListen
    BY DEF Init, ListedDidListen
  <1>2. ASSUME ReadInv, ListedDidListen, [Next]_vars
        PROVE  ListedDidListen'
    <2>1. CASE UNCHANGED vars
      BY <1>2, <2>1 DEF vars, ListedDidListen, Reused
    <2>2. CASE Finish /\ apps' = Build /\ worlds' = worlds
      <3>1. step = "lookup"
        BY <2>2 DEF Finish
      <3>2. ASSUME ~Reused, NEW a \in Build
            PROVE  /\ a.ports # {}
                   /\ \A port \in a.ports :
                        /\ port \notin Ignored
                        /\ \E w \in worlds : /\ w.table[a.pid].inc = a.inc
                                           /\ port \in w.table[a.pid].ports
        <4>1. PICK p \in DOMAIN processes : a = Application(p)
          BY DEF Build
        <4>2. /\ a.pid = p /\ a.inc = processes[p].inc
              /\ a.ports = {l.port : l \in {k \in listeners : k.pid = p}}
          BY <4>1, ApplicationFields
        <4>3. PICK v \in worlds :
                v.table[p].exists /\ processes[p].inc = v.table[p].inc
          BY <1>2, LookedUp
        <4>4. p \in Pids /\ \E l \in listeners : l.pid = p
          BY <1>2, LookedUp
        <4>5. ASSUME NEW l \in listeners, l.pid = p
              PROVE  /\ l.port \notin Ignored
                     /\ \E w \in worlds : /\ w.table[p].inc = processes[p].inc
                                        /\ l.port \in w.table[p].ports
          <5>1. l.port \notin Ignored
            BY <1>2, <3>1 DEF ReadInv, ListenersInv
          <5>2. PICK w \in worlds : l.port \in w.table[p].ports
            BY <1>2, <4>5 DEF ReadInv, ListenersInv
          <5>3. w.table[p].exists
            <6>1. w.table[p] \in Processes \cup {NoProcess}
              BY <1>2, <4>4 DEF ReadInv, WorldsInv, IsWorld
            <6>2. NoProcess.ports = {}
              BY DEF NoProcess
            <6>3. \A process \in Processes : process.exists
              BY DEF Processes
            <6> QED
              BY <5>2, <6>1, <6>2, <6>3
          <5>4. w.table[p].inc = v.table[p].inc
            BY <3>2, <4>3, <4>4, <5>3 DEF Reused
          <5> QED
            BY <4>3, <5>1, <5>2, <5>4
        <4> QED
          BY <4>2, <4>4, <4>5
      <3>3. Reused' <=> Reused
        BY <2>2 DEF Reused
      <3> QED
        BY <2>2, <3>2, <3>3 DEF ListedDidListen
    <2>3. CASE step' # "built"
      BY <2>3 DEF ListedDidListen
    <2> QED
      BY <1>2, <2>1, <2>2, <2>3, OnlyFinishBuilds
  <1> QED
    BY <1>1, <1>2, ReadInvHolds, PTL DEF Spec

=============================================================================
