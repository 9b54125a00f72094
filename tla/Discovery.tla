----------------------------- MODULE Discovery -----------------------------
(***************************************************************************)
(* One rebuild of the snapshot, read by read: Factory.Runtime and          *)
(* PaneProcesses (internal/adapter/herdr.go), Reconcile                    *)
(* (internal/daemon/reconcile.go) and Build (internal/correlation).        *)
(*                                                                         *)
(* Herdr's panes, their processes, the listeners and the process table are *)
(* read one after the other while the machine goes on: what is put         *)
(* together was never, all of it, true at one moment.                      *)
(***************************************************************************)
EXTENDS Naturals, SequencesExt

CONSTANTS
    Pids,        \* process ids, numbers above 0
    Panes,       \* pane ids
    Ports,       \* ports one may listen on
    Ignored,     \* ports the configuration excludes
    Paths,       \* directories, sequences of segments
    Programs,    \* what a process may be: parent, cwd and ports
    Foregrounds, \* what Herdr may say of a pane
    Platforms,   \* where the daemon runs
    MaxChanges   \* bound: changes of the machine and of Herdr

ASSUME IdsAssumption ==
    /\ Pids \subseteq Nat \ {0}
    /\ Ignored \subseteq Ports
    /\ Platforms \subseteq {"linux", "darwin"}
    /\ MaxChanges \in Nat

NoPath == <<>>
NoReads == [x \in {} |-> {}]
NoProcess == [inc |-> 0, parent |-> 0, cwd |-> NoPath, ports |-> {},
              exists |-> FALSE]

Processes ==
    [inc : 0 .. MaxChanges, parent : Pids \cup {0}, cwd : Paths \cup {NoPath},
     ports : SUBSET Ports, exists : {TRUE}]
Evidence == [pid : Pids \cup {0}, cwd : Paths \cup {NoPath}]
Listeners == [pid : Pids, port : Ports]

ASSUME ProgramsAssumption ==
    /\ Programs \subseteq [parent : Pids \cup {0}, cwd : Paths \cup {NoPath},
                           ports : SUBSET Ports]
    /\ Foregrounds \subseteq SUBSET Evidence

VARIABLES
    platform,  \* on darwin the panes' processes are scanned once more
    table,     \* the process table; inc tells the owners of a pid apart
    open,      \* Herdr's panes that exist
    panes,     \* pane -> what is in front of it
    changes,   \* changes so far
    step,      \* where the rebuild is
    todo,      \* what the step has still to read: panes, then listeners
    records,   \* pane -> its foreground, as it was read
    listeners, \* as they were scanned
    processes, \* pid -> its record, as it was looked up
    apps,      \* the snapshot's applications
    worlds,    \* history: everything that was true during this rebuild
    unseen     \* history: the listeners its scan omitted

machine == <<platform, table, open, panes, changes>>
vars == <<platform, table, open, panes, changes, step, todo, records,
          listeners, processes, apps, worlds, unseen>>

-----------------------------------------------------------------------------
World == [table |-> table, panes |-> panes]
Live == {p \in Pids : table[p].exists}
Running == {"panes", "scan", "rescan", "lookup"}

Run(program, inc) ==
    [inc |-> inc, parent |-> program.parent, cwd |-> program.cwd,
     ports |-> program.ports, exists |-> TRUE]

(* Parents exist, and Herdr names processes that do.                       *)
Possible(w) ==
    LET live == {p \in Pids : w.table[p].exists}
    IN  /\ \A p \in live : w.table[p].parent \in (live \cup {0}) \ {p}
        /\ \A x \in Panes : \A e \in w.panes[x] : e.pid \in live \cup {0}

Init ==
    /\ platform \in Platforms
    /\ table \in [Pids -> {NoProcess} \cup {Run(g, 0) : g \in Programs}]
    /\ open \in SUBSET Panes
    /\ panes \in [Panes -> Foregrounds \cup {{}}]
    /\ \A x \in Panes \ open : panes[x] = {}
    /\ Possible(World)
    /\ changes = 0
    /\ step = "idle" /\ todo = {}
    /\ records = NoReads /\ listeners = {} /\ processes = NoReads
    /\ apps = {}
    /\ worlds = {} /\ unseen = {}

-----------------------------------------------------------------------------
(* The machine and Herdr.                                                  *)

Start(p) ==
    /\ p \notin Live
    /\ \E g \in Programs : table' = [table EXCEPT ![p] = Run(g, changes + 1)]
    /\ UNCHANGED <<open, panes>>

(* Children of a process that exits are left to init, panes to its parent. *)
Exit(p) ==
    /\ p \in Live
    /\ table' = [q \in Pids |->
                   IF q = p THEN NoProcess
                   ELSE IF table[q].parent = p
                   THEN [table[q] EXCEPT !.parent = 0] ELSE table[q]]
    /\ panes' = [x \in Panes |-> {e \in panes[x] : e.pid # p}]
    /\ UNCHANGED open

Listen(p) ==
    /\ p \in Live
    /\ \E g \in Programs : table' = [table EXCEPT ![p].ports = g.ports]
    /\ table' # table
    /\ UNCHANGED <<open, panes>>

Show(x) ==
    /\ \/ /\ open' = open \cup {x}
          /\ \E f \in Foregrounds : panes' = [panes EXCEPT ![x] = f]
       \/ /\ open' = open \ {x}
          /\ panes' = [panes EXCEPT ![x] = {}]
    /\ UNCHANGED table

Change ==
    /\ changes < MaxChanges
    /\ changes' = changes + 1
    /\ \/ \E p \in Pids : Start(p) \/ Exit(p) \/ Listen(p)
       \/ \E x \in Panes : Show(x)
    /\ Possible(World)'
    /\ IF step \in Running
       THEN worlds' = worlds \cup {World'} /\ UNCHANGED <<step, unseen>>
       ELSE worlds' = {} /\ unseen' = {} /\ step' = "idle"
    /\ UNCHANGED <<platform, todo, records, listeners, processes, apps>>

-----------------------------------------------------------------------------
(* Build: what the reads amount to.                                        *)

(* Directories match when one contains the other, segment by segment.      *)
CwdMatches(a, b) ==
    a # NoPath /\ b # NoPath /\ (IsPrefix(a, b) \/ IsPrefix(b, a))

PidsOf(x) == {e.pid : e \in records[x]} \ {0}
DirectoriesOf(x) == {e.cwd : e \in {f \in records[x] : f.pid = 0}}

(* Panes that show the process or its parent; panes that only show a       *)
(* directory of its own.                                                   *)
Strong(p) ==
    {x \in DOMAIN records : PidsOf(x) \cap {p, processes[p].parent} # {}}
Weak(p) ==
    {x \in DOMAIN records :
        \E d \in DirectoriesOf(x) : CwdMatches(processes[p].cwd, d)}

(* Mutant: both kinds of evidence are put together.                        *)
MatchesOfBothKinds(p) == Strong(p) \cup Weak(p)

(* A match by directory counts when no pane shows the process.             *)
Matches(p) == IF Strong(p) # {} THEN Strong(p) ELSE Weak(p)

(* One matching pane is high, several are partial and stale, none is       *)
(* external.                                                               *)
Association(found) ==
    [pane |-> IF \E x \in found : found = {x} THEN found ELSE {},
     conf |-> CASE found = {} -> "unknown"
                [] \E x \in found : found = {x} -> "high"
                [] OTHER -> "partial"]

(* The application of a listening process.                                 *)
Application(p) ==
    LET association == Association(Matches(p))
    IN  [pid |-> p, inc |-> processes[p].inc,
         ports |-> {l.port : l \in {k \in listeners : k.pid = p}},
         pane |-> association.pane, conf |-> association.conf,
         stale |-> association.conf = "partial"]

Build == {Application(p) : p \in DOMAIN processes}

-----------------------------------------------------------------------------
(* The rebuild.                                                            *)

(* Herdr's topology: the panes there are.                                  *)
Begin ==
    /\ step \notin Running
    /\ step' = "panes"
    /\ todo' = open
    /\ worlds' = {World} /\ unseen' = {}
    /\ UNCHANGED <<machine, records, listeners, processes, apps>>

(* Mutant: what was read of the panes outlives the rebuild.                *)
ForgetKeepsRecords ==
    /\ listeners' = {} /\ processes' = NoReads
    /\ UNCHANGED records

(* What was read ends with the rebuild.                                    *)
Forget ==
    records' = NoReads /\ listeners' = {} /\ processes' = NoReads

(* Reconcile with an error: the previous applications, all of them stale.  *)
Degrade ==
    /\ step' = "idle"
    /\ todo' = {}
    /\ apps' = {[a EXCEPT !.stale = TRUE] : a \in apps}
    /\ worlds' = {} /\ unseen' = {}
    /\ Forget

(* A pane that is closed by now is an error.                               *)
ReadPane ==
    /\ step = "panes"
    /\ \E x \in todo :
         IF x \notin open THEN Degrade
         ELSE /\ records' = [y \in DOMAIN records \cup {x} |->
                               IF y = x THEN panes[x] ELSE records[y]]
              /\ todo' = todo \ {x}
              /\ UNCHANGED <<step, listeners, processes, apps, worlds, unseen>>
    /\ UNCHANGED machine

(* Processes that inherited a socket, or share its port, listen together.  *)
Listening == {l \in Listeners : l.port \in table[l.pid].ports}

(* The walk over /proc keeps, of the processes that have a socket, the one *)
(* it comes to last: those who share a port may all be listed, or one of   *)
(* them.                                                                   *)
Named(found) ==
    {some \in SUBSET found :
        \A l \in found : \E k \in some : k.port = l.port}

(* Mutants: an ignored port hides its process; no port is ignored.         *)
ConsideredByProcess(found) ==
    {l \in found : \A k \in found : k.pid = l.pid => k.port \notin Ignored}
ConsideredAll(found) == found

Considered(found) == {l \in found : l.port \notin Ignored}

Scanned(found) ==
    /\ step' = "lookup"
    /\ listeners' = Considered(found)
    /\ todo' = listeners'

(* A scan omits without an error what it cannot read: one of the two TCP   *)
(* tables, the descriptors of a process, what lsof is not shown.  (It      *)
(* makes no difference whether it omits an ignored port.)                  *)
Scan ==
    /\ step = "panes" /\ todo = {}
    /\ unseen' \in SUBSET Considered(Listening)
    /\ IF platform = "darwin"
       THEN /\ step' = "rescan" /\ todo' = {}
            /\ listeners' = Listening \ unseen'
       ELSE \E named \in Named(Listening \ unseen') : Scanned(named)
    /\ UNCHANGED <<machine, records, processes, apps, worlds>>

ForegroundPids == {e.pid : e \in UNION {records[x] : x \in DOMAIN records}}

(* One process that cannot be scanned and all the others are not added.    *)
Rescan ==
    /\ step = "rescan"
    /\ LET recovered == {l \in Listening : l.pid \in ForegroundPids}
       IN  \/ /\ Scanned(listeners \cup recovered)
              /\ unseen' = unseen \ recovered
           \/ Scanned(listeners) /\ UNCHANGED unseen
    /\ UNCHANGED <<machine, records, processes, apps, worlds>>

(* ps says nothing of the directory a process works in.                    *)
Record(process) ==
    IF platform = "darwin" THEN [process EXCEPT !.cwd = NoPath] ELSE process

(* Listener by listener; a process that is gone by now is an error.        *)
Lookup ==
    /\ step = "lookup"
    /\ \E l \in todo :
         IF l.pid \notin Live THEN Degrade
         ELSE /\ processes' = [p \in DOMAIN processes \cup {l.pid} |->
                                 IF p = l.pid THEN Record(table[p])
                                 ELSE processes[p]]
              /\ todo' = todo \ {l}
              /\ UNCHANGED <<step, records, listeners, apps, worlds, unseen>>
    /\ UNCHANGED machine

(* Herdr, the scanner or the process table answers with an error.          *)
ReadFails ==
    /\ \/ step = "panes"
       \/ step = "lookup" /\ todo # {}
    /\ Degrade
    /\ UNCHANGED machine

Finish ==
    /\ step = "lookup" /\ todo = {}
    /\ step' = "built"
    /\ apps' = Build
    /\ Forget
    /\ UNCHANGED <<machine, todo, worlds, unseen>>

Next ==
    \/ Change
    \/ Begin \/ ReadPane \/ Scan \/ Rescan \/ Lookup \/ ReadFails \/ Finish

Spec == Init /\ [][Next]_vars

-----------------------------------------------------------------------------
(* Properties.                                                             *)

TypeOK ==
    /\ platform \in Platforms
    /\ table \in [Pids -> Processes \cup {NoProcess}]
    /\ open \subseteq Panes /\ panes \in [Panes -> SUBSET Evidence]
    /\ changes \in 0 .. MaxChanges
    /\ step \in Running \cup {"idle", "built"}
    /\ todo \subseteq Panes \/ todo \subseteq Listeners
    /\ \E S \in SUBSET Panes : records \in [S -> SUBSET Evidence]
    /\ listeners \subseteq Listeners /\ unseen \subseteq Listeners
    /\ \E S \in SUBSET Pids : processes \in [S -> Processes]
    /\ apps \subseteq [pid : Pids, inc : 0 .. MaxChanges, ports : SUBSET Ports,
                       pane : SUBSET Panes, stale : BOOLEAN,
                       conf : {"high", "partial", "unknown"}]

(* A process that was itself all the time of the rebuild.                  *)
Steady(p) == \A v, w \in worlds : v.table[p] = w.table[p]
SteadyServers(w) ==
    {p \in Pids : Steady(p) /\ w.table[p].ports \ Ignored # {}}

AppsOf(p) == {a \in apps : a.pid = p}

(* The socket was taken for one of another process that listened there.    *)
NamedAnother(p, port) ==
    /\ platform # "darwin"
    /\ \E a \in apps \ AppsOf(p) :
         port \in a.ports /\ \E v \in worlds : port \in v.table[a.pid].ports

(* Whatever else started, ended, listened or moved during a rebuild, a     *)
(* server that did not is in the snapshot at most once, with the identity  *)
(* it has and ports that are its own, and no port of its is lost but in    *)
(* the two ways of the scan: it was omitted, or, on Linux, given to        *)
(* another process that shares it.                                         *)
SteadyIsListed ==
    step = "built" =>
        \A w \in worlds : \A p \in SteadyServers(w) :
            /\ \A a, b \in AppsOf(p) : a = b
            /\ \A a \in AppsOf(p) :
                 /\ a.inc = w.table[p].inc
                 /\ a.ports \subseteq w.table[p].ports \ Ignored
            /\ \A port \in w.table[p].ports \ Ignored :
                 \/ \E a \in AppsOf(p) : port \in a.ports
                 \/ [pid |-> p, port |-> port] \in unseen
                 \/ NamedAnother(p, port)

(* The panes that show p or its parent; else those in its directory, which *)
(* is known on Linux only.                                                 *)
Showing(w, p) ==
    {x \in Panes : \E e \in w.panes[x] :
        e.pid # 0 /\ e.pid \in {p, w.table[p].parent}}
Near(w, p) ==
    {x \in Panes : \E e \in w.panes[x] :
        e.pid = 0 /\ CwdMatches(w.table[p].cwd, e.cwd)}
OwnedBy(w, p, x) ==
    \/ Showing(w, p) = {x}
    \/ Showing(w, p) = {} /\ Near(w, p) = {x} /\ platform # "darwin"

(* When the panes did not change either, such a server is given to the one *)
(* pane that owns it, and to none if there is not exactly one.             *)
SteadyIsOwned ==
    step = "built" /\ (\A v, w \in worlds : v.panes = w.panes) =>
        \A w \in worlds : \A p \in SteadyServers(w), a \in apps :
            a.pid = p =>
                /\ a.conf = "high" <=> \E x \in Panes : OwnedBy(w, p, x)
                /\ \A x \in a.pane : OwnedBy(w, p, x)

(* The pane showed this very process, or its parent, or its directory.     *)
SeenInPane(w, a, x) ==
    \E e \in w.panes[x] :
        \/ e.pid = a.pid /\ w.table[a.pid].inc = a.inc
        \/ e.pid # 0 /\ \E v \in worlds :
             /\ v.table[a.pid].exists /\ v.table[a.pid].inc = a.inc
             /\ v.table[a.pid].parent = e.pid
             /\ v.table[e.pid].exists
             /\ v.table[e.pid].inc = w.table[e.pid].inc
        \/ e.pid = 0 /\ \E v \in worlds :
             /\ v.table[a.pid].exists /\ v.table[a.pid].inc = a.inc
             /\ CwdMatches(v.table[a.pid].cwd, e.cwd)

(* "high-confidence, owned process evidence" (README.md): what is given to *)
(* a pane was seen with it during this rebuild.                            *)
HighIsOwned ==
    step = "built" =>
        \A a \in apps : \A x \in a.pane :
            \E w \in worlds : SeenInPane(w, a, x)

(* A pid changed hands during the rebuild.                                 *)
Reused ==
    \E v, w \in worlds, p \in Pids :
        /\ v.table[p].exists /\ w.table[p].exists
        /\ v.table[p].inc # w.table[p].inc

(* What is given to a pane was seen with it during this rebuild, in        *)
(* whatever order the reads and the changes came, as long as no pid        *)
(* changed hands.                                                          *)
HighIsOwnedUnlessReused == Reused \/ HighIsOwned

(* Nothing is listed that did not listen during this rebuild, wherever the *)
(* listener came from: each port of an application was one of this very    *)
(* process, as long as no pid changed hands.                               *)
ListedDidListen ==
    step = "built" /\ ~Reused =>
        \A a \in apps : a.ports # {} /\ \A port \in a.ports :
            /\ port \notin Ignored
            /\ \E w \in worlds : /\ w.table[a.pid].inc = a.inc
                               /\ port \in w.table[a.pid].ports
=============================================================================
