--------------------------- MODULE ActionService ---------------------------
(***************************************************************************)
(* The daemon's action path: internal/daemon/service.go and ipc.go, the    *)
(* executor of internal/actions (bridge.go, destructive.go) and the        *)
(* process inspector of internal/adapter/process.go.                       *)
(*                                                                         *)
(* Every connection is served by a goroutine of its own.  An action keeps  *)
(* the snapshot's read lock from its validation to its answer, so the      *)
(* runtime, the only writer, publishes between actions.  The operating     *)
(* system's process table changes at any moment, lock or no lock.          *)
(***************************************************************************)
EXTENDS Naturals

CONSTANTS
    Clients,        \* connections, each with one request in flight
    Pids,           \* process ids; a group is named by its leader's pid
    ActionNames,    \* the actions clients ask for
    Confidences,    \* the associations a rebuild may find
    MaxIncarnation, \* bound: incarnations the process table may go through
    MaxRequests,    \* bound: actions per connection; lists are not counted
    MaxRev          \* bound: no rebuild starts once the revision is here

ASSUME BoundsAssumption ==
    MaxIncarnation \in Nat /\ MaxRequests \in Nat /\ MaxRev \in Nat
ASSUME NamesAssumption ==
    /\ ActionNames \subseteq {"terminate", "kill", "open", "unsupported"}
    /\ Confidences \subseteq {"high", "partial", "unknown"}

VARIABLES
    table,    \* pid -> the incarnation that has it
    born,     \* incarnations started so far
    rev,      \* Service.snapshot.Revision
    apps,     \* Service.snapshot.Applications
    phase,    \* where the runtime is between two rebuilds
    candidate,\* the applications its rebuild found
    woken,    \* readers the last Unlock let through ahead of the next writer
    force,    \* Executor.force
    pc,       \* where the handler of each connection is
    req,      \* the request it handles
    app,      \* the application it was dispatched with
    held,     \* the grant its KILL consumed
    view,     \* the snapshot the client last listed
    seq,      \* actions requested so far, which names a request
    expired,  \* history: grants earned by a TERM whose grace ran out
    kills     \* history: KILL signals sent

procVars == <<table, born>>
snapVars == <<rev, apps>>
runtimeVars == <<phase, candidate>>
history == <<expired, kills>>
vars == <<table, born, rev, apps, phase, candidate, woken, force, pc, req, app,
          held, view, seq, expired, kills>>

-----------------------------------------------------------------------------
(* An incarnation stands for a start time and a launch key: both change    *)
(* when a pid is reused, the key also when a process replaces its image.   *)
Incarnations == 1 .. MaxIncarnation
Identities == [pid : Pids, inc : Incarnations, pgid : Pids]
NoProcess == [pid |-> "none"]

Applications ==
    [identity : Identities, conf : {"high", "partial", "unknown"},
     stale : BOOLEAN, soft : Nat, noted : BOOLEAN]
NoApp == [identity |-> NoProcess]

(* The application's id leaves the process group out.                      *)
SameId(i, j) == i.pid = j.pid /\ i.inc = j.inc

Sequence == 0 .. MaxRequests
Grants == [identity : Identities, client : Clients, seq : Sequence]
NoGrant == [identity |-> NoProcess]

Requests ==
    [action : ActionNames, identity : Identities, rev : Nat,
     confirmed : BOOLEAN]
ListRequest == [action |-> "list"]
NoRequest == [action |-> "none"]

(* Handler positions at which the read lock is held.                       *)
Dispatching ==
    {"open", "clear", "consume", "validate", "signal", "wait", "record"}
Readers == {c \in Clients : pc[c] \in Dispatching}
Queued == {c \in Clients : pc[c] = "requested"}

WriterPending == phase \in {"replace", "mark"}

Init ==
    /\ table = [p \in Pids |-> NoProcess]
    /\ born = 0
    /\ rev = 0
    /\ apps = {}
    /\ phase = "idle"
    /\ candidate = {}
    /\ woken = {}
    /\ force = {}
    /\ pc = [c \in Clients |-> "idle"]
    /\ req = [c \in Clients |-> NoRequest]
    /\ app = [c \in Clients |-> NoApp]
    /\ held = [c \in Clients |-> NoGrant]
    /\ view = [c \in Clients |-> [rev |-> 0, apps |-> {}]]
    /\ seq = [c \in Clients |-> 0]
    /\ expired = {}
    /\ kills = {}

-----------------------------------------------------------------------------
(* The operating system.                                                   *)

Live == {p \in Pids : table[p] # NoProcess}

Spawn(p, g) ==
    /\ table[p] = NoProcess
    /\ g = p \/ table[g] # NoProcess
    /\ born < MaxIncarnation
    /\ born' = born + 1
    /\ table' = [table EXCEPT ![p] = [pid |-> p, inc |-> born + 1, pgid |-> g]]

Exit(p) ==
    /\ p \in Live
    /\ table' = [table EXCEPT ![p] = NoProcess]
    /\ UNCHANGED born

(* A shell moves its child to a process group after the fork.              *)
Regroup(p, g) ==
    /\ p \in Live
    /\ table[p].pgid # g
    /\ table' = [table EXCEPT ![p].pgid = g]
    /\ UNCHANGED born

Environment ==
    /\ \E p \in Pids : Exit(p) \/ \E g \in Pids : Spawn(p, g) \/ Regroup(p, g)
    /\ UNCHANGED <<snapVars, runtimeVars, woken, force, pc, req, app, held,
                   view, seq, history>>

-----------------------------------------------------------------------------
(* The runtime, the only writer of the snapshot.                           *)

(* correlation.Build: no pane is unknown (external), several are partial   *)
(* and stale, one is high.                                                 *)
Found(identity, conf) ==
    [identity |-> identity, conf |-> conf, stale |-> conf = "partial",
     soft |-> 0, noted |-> FALSE]

Stale(a) == [a EXCEPT !.stale = TRUE]

(* Reconcile with an input that failed: every application goes stale and   *)
(* gains one more evidence record.                                         *)
Degraded(a) == [Stale(a) EXCEPT !.soft = @ + 1]

(* Mutant: a listener whose process cannot be looked up is kept, with an   *)
(* incarnation that nothing has.                                           *)
RebuildIgnoresLookup ==
    /\ phase = "idle"
    /\ rev < MaxRev
    /\ \/ \E S \in SUBSET Pids : \E f \in [S -> Confidences] :
            /\ candidate' =
                 {Found(IF p \in Live THEN table[p]
                        ELSE [pid |-> p, inc |-> 0, pgid |-> p], f[p]) :
                  p \in S}
            /\ phase' = "rebuilt"
       \/ /\ apps # {}
          /\ candidate' = {Degraded(a) : a \in apps}
          /\ phase' = "rebuilt"
       \/ /\ phase' = "failed"
          /\ UNCHANGED candidate
    /\ UNCHANGED <<procVars, snapVars, woken, force, pc, req, app, held, view,
                   seq, history>>

(* A listener whose process cannot be looked up fails the whole rebuild.   *)
Rebuild ==
    /\ phase = "idle"
    /\ rev < MaxRev
    /\ \/ \E S \in SUBSET Live : \E f \in [S -> Confidences] :
            /\ candidate' = {Found(table[p], f[p]) : p \in S}
            /\ phase' = "rebuilt"
       \/ /\ apps # {}
          /\ candidate' = {Degraded(a) : a \in apps}
          /\ phase' = "rebuilt"
       \/ /\ phase' = "failed"
          /\ UNCHANGED candidate
    /\ UNCHANGED <<procVars, snapVars, woken, force, pc, req, app, held, view,
                   seq, history>>

(* RWMutex.Lock announces the writer: readers that come later wait.        *)
RequestLock ==
    /\ \/ phase = "rebuilt" /\ phase' = "replace"
       \/ phase = "failed" /\ phase' = "mark"
    /\ UNCHANGED <<procVars, snapVars, candidate, woken, force, pc, req, app,
                   held, view, seq, history>>

(* Mutant: publication does not wait for the actions.                      *)
WriterPassesReaders == woken = {}

WriterMayEnter == Readers = {} /\ woken = {}

(* Unlock lets in the readers that are waiting, before the next writer.    *)
Unlock ==
    /\ phase' = "idle"
    /\ candidate' = {}
    /\ woken' = Queued

(* Mutant: the digest covers the identities only.                          *)
InstallByIdentity(next) ==
    /\ apps' = next
    /\ rev' = IF {a.identity : a \in next} = {a.identity : a \in apps}
              THEN rev ELSE rev + 1

Install(next) ==
    /\ apps' = next
    /\ rev' = IF next = apps THEN rev ELSE rev + 1

Replace ==
    /\ phase = "replace"
    /\ WriterMayEnter
    /\ Install(candidate)
    /\ Unlock
    /\ UNCHANGED <<procVars, force, pc, req, app, held, view, seq, history>>

Marked(a) == [Stale(a) EXCEPT !.noted = TRUE]

MarkStale ==
    /\ phase = "mark"
    /\ WriterMayEnter
    /\ Install({Marked(a) : a \in apps})
    /\ Unlock
    /\ UNCHANGED <<procVars, force, pc, req, app, held, view, seq, history>>

-----------------------------------------------------------------------------
(* One request on a connection: ServeJSONL and Service.ExecuteAction.      *)

(* A client asks with the identity and the revision of its last list.      *)
Send(c) ==
    /\ pc[c] = "idle"
    /\ \/ /\ req' = [req EXCEPT ![c] = ListRequest]
          /\ UNCHANGED seq
       \/ /\ seq[c] < MaxRequests
          /\ seq' = [seq EXCEPT ![c] = @ + 1]
          /\ \E a \in view[c].apps, action \in ActionNames, yes \in BOOLEAN :
               req' = [req EXCEPT ![c] =
                         [action |-> action, identity |-> a.identity,
                          rev |-> view[c].rev, confirmed |-> yes]]
    /\ pc' = [pc EXCEPT ![c] = "requested"]
    /\ UNCHANGED <<procVars, snapVars, runtimeVars, woken, force, app, held,
                   view, history>>

(* RLock: a pending writer blocks every reader it did not find waiting.    *)
MayRead(c) == ~WriterPending \/ c \in woken

List(c) ==
    /\ req[c].action = "list"
    /\ view' = [view EXCEPT ![c] = [rev |-> rev, apps |-> apps]]
    /\ pc' = [pc EXCEPT ![c] = "idle"]
    /\ req' = [req EXCEPT ![c] = NoRequest]
    /\ UNCHANGED app

Accepted(c, a) ==
    /\ req[c].action \in {"open", "terminate", "kill"}
    /\ req[c].rev = rev
    /\ SameId(a.identity, req[c].identity)
    /\ a.identity = req[c].identity

(* An unsupported action, a stale revision or an unknown target.           *)
Refuse(c) ==
    /\ req[c].action # "list"
    /\ \A a \in apps : ~Accepted(c, a)
    /\ pc' = [pc EXCEPT ![c] = "idle"]
    /\ req' = [req EXCEPT ![c] = NoRequest]
    /\ UNCHANGED <<app, view>>

(* Executor.Execute is called with a copy of the application found.        *)
FirstStep(action) ==
    CASE action = "terminate" -> "clear"
      [] action = "kill" -> "consume"
      [] OTHER -> "open"

Dispatch(c) ==
    /\ req[c].action # "list"
    /\ \E a \in apps :
         /\ Accepted(c, a)
         /\ app' = [app EXCEPT ![c] = a]
    /\ pc' = [pc EXCEPT ![c] = FirstStep(req[c].action)]
    /\ UNCHANGED <<req, view>>

(* The copy of the snapshot that ServeJSONL takes before it looks at the   *)
(* action is not used; to inspect an application is to list.               *)
Admit(c) ==
    /\ pc[c] = "requested"
    /\ MayRead(c)
    /\ woken' = woken \ {c}
    /\ List(c) \/ Refuse(c) \/ Dispatch(c)
    /\ UNCHANGED <<procVars, snapVars, runtimeVars, force, held, seq, history>>

(* The answer is written and the read lock released.                       *)
Answer(c) ==
    /\ pc' = [pc EXCEPT ![c] = "idle"]
    /\ req' = [req EXCEPT ![c] = NoRequest]
    /\ app' = [app EXCEPT ![c] = NoApp]
    /\ held' = [held EXCEPT ![c] = NoGrant]

Goto(c, where) ==
    /\ pc' = [pc EXCEPT ![c] = where]
    /\ UNCHANGED <<req, app, held>>

(* Open, Copy and FocusApplication leave the daemon's state alone.         *)
Navigate(c) ==
    /\ pc[c] = "open"
    /\ Answer(c)
    /\ UNCHANGED <<procVars, snapVars, runtimeVars, woken, force, view, seq,
                   history>>

-----------------------------------------------------------------------------
(* Executor and actions.Service: TERM and KILL.                            *)

GrantsOf(a) == {g \in force : SameId(g.identity, a.identity)}

(* Mutant: a refusal that returns without the deferred unlock.             *)
ClearForceKeepsLock(c) ==
    /\ pc[c] = "clear"
    /\ force' = force \ GrantsOf(app[c])
    /\ Goto(c, IF req[c].confirmed THEN "validate" ELSE "clear")
    /\ UNCHANGED <<procVars, snapVars, runtimeVars, woken, view, seq, history>>

(* A TERM request withdraws the application's grant even when it is not    *)
(* confirmed and Terminate then refuses it.                                *)
ClearForce(c) ==
    /\ pc[c] = "clear"
    /\ force' = force \ GrantsOf(app[c])
    /\ IF req[c].confirmed THEN Goto(c, "validate") ELSE Answer(c)
    /\ UNCHANGED <<procVars, snapVars, runtimeVars, woken, view, seq, history>>

(* Mutants: the grant is compared by id alone; it is read, not taken.      *)
ConsumeForceById(c) ==
    /\ pc[c] = "consume"
    /\ force' = force \ GrantsOf(app[c])
    /\ \/ \E g \in GrantsOf(app[c]) :
            /\ req[c].confirmed
            /\ held' = [held EXCEPT ![c] = g]
            /\ pc' = [pc EXCEPT ![c] = "validate"]
            /\ UNCHANGED <<req, app>>
       \/ /\ ~req[c].confirmed \/ GrantsOf(app[c]) = {}
          /\ Answer(c)
    /\ UNCHANGED <<procVars, snapVars, runtimeVars, woken, view, seq, history>>

ConsumeForceReads(c) ==
    /\ pc[c] = "consume"
    /\ \/ \E g \in GrantsOf(app[c]) :
            /\ req[c].confirmed
            /\ g.identity = app[c].identity
            /\ held' = [held EXCEPT ![c] = g]
            /\ pc' = [pc EXCEPT ![c] = "validate"]
            /\ UNCHANGED <<req, app>>
       \/ /\ ~req[c].confirmed \/ GrantsOf(app[c]) = {}
          /\ Answer(c)
    /\ UNCHANGED <<procVars, snapVars, runtimeVars, woken, force, view, seq,
                   history>>

(* A KILL request takes the grant, whether or not it may use it.           *)
ConsumeForce(c) ==
    /\ pc[c] = "consume"
    /\ force' = force \ GrantsOf(app[c])
    /\ \/ \E g \in GrantsOf(app[c]) :
            /\ req[c].confirmed
            /\ g.identity = app[c].identity
            /\ held' = [held EXCEPT ![c] = g]
            /\ pc' = [pc EXCEPT ![c] = "validate"]
            /\ UNCHANGED <<req, app>>
       \/ /\ \A g \in GrantsOf(app[c]) :
               ~req[c].confirmed \/ g.identity # app[c].identity
          /\ Answer(c)
    /\ UNCHANGED <<procVars, snapVars, runtimeVars, woken, view, seq, history>>

Signalable(a) == a.conf = "high" /\ ~a.stale

(* Mutant: stale and ambiguous applications are validated like others.     *)
ValidateProcessOnly(c) ==
    /\ pc[c] = "validate"
    /\ \/ /\ table[app[c].identity.pid] = app[c].identity
          /\ Goto(c, "signal")
       \/ Answer(c)
    /\ UNCHANGED <<procVars, snapVars, runtimeVars, woken, force, view, seq,
                   history>>

(* validateSignalTarget; the lookup itself may fail.                       *)
Validate(c) ==
    /\ pc[c] = "validate"
    /\ \/ /\ Signalable(app[c])
          /\ table[app[c].identity.pid] = app[c].identity
          /\ Goto(c, "signal")
       \/ Answer(c)
    /\ UNCHANGED <<procVars, snapVars, runtimeVars, woken, force, view, seq,
                   history>>

(* A group leader is signalled with its group, any other process alone.    *)
Reached(i) ==
    IF i.pid = i.pgid THEN {p \in Live : table[p].pgid = i.pgid}
                      ELSE {i.pid} \cap Live

SignalTerm(c) ==
    /\ pc[c] = "signal"
    /\ req[c].action = "terminate"
    /\ IF Reached(app[c].identity) = {} THEN Answer(c) ELSE Goto(c, "wait")
    /\ UNCHANGED <<procVars, snapVars, runtimeVars, woken, force, view, seq,
                   history>>

(* Mutant: a KILL that reached nobody gives its grant back.                *)
SignalKillRefunds(c) ==
    /\ pc[c] = "signal"
    /\ req[c].action = "kill"
    /\ IF Reached(app[c].identity) = {}
       THEN force' = force \cup {held[c]} /\ UNCHANGED kills
       ELSE /\ kills' = kills \cup {[grant |-> held[c],
                                     identity |-> app[c].identity,
                                     client |-> c, seq |-> seq[c]]}
            /\ UNCHANGED force
    /\ Answer(c)
    /\ UNCHANGED <<procVars, snapVars, runtimeVars, woken, view, seq, expired>>

(* What a KILL does to its target is left to Exit.                         *)
SignalKill(c) ==
    /\ pc[c] = "signal"
    /\ req[c].action = "kill"
    /\ kills' = IF Reached(app[c].identity) = {} THEN kills
                ELSE kills \cup {[grant |-> held[c],
                                  identity |-> app[c].identity,
                                  client |-> c, seq |-> seq[c]]}
    /\ Answer(c)
    /\ UNCHANGED <<procVars, snapVars, runtimeVars, woken, force, view, seq,
                   expired>>

(* Wait returns nil when the incarnation is gone or changed.              *)
WaitSeesExit(c) ==
    /\ pc[c] = "wait"
    /\ table[app[c].identity.pid] # app[c].identity
    /\ Answer(c)
    /\ UNCHANGED <<procVars, snapVars, runtimeVars, woken, force, view, seq,
                   history>>

(* Wait also returns nil when a lookup fails, unless the context ended it. *)
WaitLookupFails(c) ==
    /\ pc[c] = "wait"
    /\ Answer(c)
    /\ UNCHANGED <<procVars, snapVars, runtimeVars, woken, force, view, seq,
                   history>>

(* Mutant: Wait does not look at its context while it sleeps.              *)
GraceElapsesUnseen(c) ==
    /\ pc[c] = "wait"
    /\ table[app[c].identity.pid] # app[c].identity
    /\ Goto(c, "record")
    /\ UNCHANGED <<procVars, snapVars, runtimeVars, woken, force, view, seq,
                   history>>

(* The grace ends while Wait sleeps or looks the process up.               *)
GraceElapses(c) ==
    /\ pc[c] = "wait"
    /\ Goto(c, "record")
    /\ UNCHANGED <<procVars, snapVars, runtimeVars, woken, force, view, seq,
                   history>>

RecordForce(c) ==
    /\ pc[c] = "record"
    /\ LET g == [identity |-> app[c].identity, client |-> c, seq |-> seq[c]]
       IN  /\ force' = (force \ GrantsOf(app[c])) \cup {g}
           /\ expired' = expired \cup {g}
    /\ Answer(c)
    /\ UNCHANGED <<procVars, snapVars, runtimeVars, woken, view, seq, kills>>

-----------------------------------------------------------------------------
(* What a handler does by itself: it runs when it can, the grace and the   *)
(* lookups end by their timeouts.                                          *)
Advance(c) ==
    \/ Admit(c) \/ ClearForce(c) \/ ConsumeForce(c) \/ Validate(c)
    \/ SignalTerm(c) \/ SignalKill(c) \/ WaitSeesExit(c) \/ GraceElapses(c)
    \/ RecordForce(c)

Handle(c) == Advance(c) \/ Navigate(c) \/ WaitLookupFails(c)

Runtime == Rebuild \/ RequestLock \/ Replace \/ MarkStale

Next ==
    \/ Environment
    \/ Runtime
    \/ \E c \in Clients : Send(c) \/ Handle(c)

(* Goroutines that can run do run.  Nobody has to ask, no process has to   *)
(* exit, no lookup has to fail, and Navigate need not end: a copy waits    *)
(* for the output of its helper without a bound (system.go:108).           *)
Fairness ==
    /\ WF_vars(RequestLock \/ Replace \/ MarkStale)
    /\ \A c \in Clients : WF_vars(Advance(c))

Spec == Init /\ [][Next]_vars /\ Fairness

-----------------------------------------------------------------------------
(* Properties.                                                             *)

(* The types of the variables: every application that is listed, asked     *)
(* for, signalled or granted names a process that a rebuild looked up.     *)
TypeOK ==
    /\ table \in [Pids -> Identities \cup {NoProcess}]
    /\ born \in Nat
    /\ rev \in Nat
    /\ apps \subseteq Applications
    /\ phase \in {"idle", "rebuilt", "failed", "replace", "mark"}
    /\ candidate \subseteq Applications
    /\ woken \subseteq Clients
    /\ force \subseteq Grants
    /\ pc \in [Clients -> {"idle", "requested"} \cup Dispatching]
    /\ req \in [Clients -> Requests \cup {ListRequest, NoRequest}]
    /\ app \in [Clients -> Applications \cup {NoApp}]
    /\ held \in [Clients -> Grants \cup {NoGrant}]
    /\ view \in [Clients -> [rev : Nat, apps : SUBSET Applications]]
    /\ seq \in [Clients -> Sequence]
    /\ expired \subseteq Grants
    /\ kills \subseteq [grant : Grants, identity : Identities,
                       client : Clients, seq : Sequence]

(* A KILL is sent only on a grant that a confirmed TERM of the very same   *)
(* process identity earned when its grace ran out ("force kill requires a  *)
(* confirmed TERM grace expiry for this process", bridge.go).              *)
KillsAreEarned ==
    \A k \in kills : k.grant \in expired /\ k.grant.identity = k.identity

(* One expired grace never pays for two KILLs, however TERM and KILL       *)
(* requests of several connections interleave.                             *)
OneKillPerGrant ==
    \A k, l \in kills : k.grant = l.grant => k = l

(* From its validation to its signal and its answer an action sees the     *)
(* snapshot it was validated against: its application is still published,  *)
(* unchanged, at the revision the client observed (service.go: publication *)
(* waits for the action).                                                  *)
DispatchedAgainstCurrent ==
    \A c \in Readers : app[c] \in apps /\ req[c].rev = rev

(* What is about to be signalled is, in the snapshot published right now,  *)
(* owned by exactly one pane and not stale.                                *)
SignalsOnlyOwned ==
    \A c \in Clients : pc[c] = "signal" =>
        \E a \in apps : a.identity = app[c].identity /\ Signalable(a)

(* A revision names one list of applications: clients that saw the same    *)
(* revision saw the same list, so a request made against the current       *)
(* revision was made against the current list.                             *)
RevisionNamesOneList ==
    \A c \in Clients :
        /\ view[c].rev <= rev
        /\ view[c].rev = rev => view[c].apps = apps
        /\ \A d \in Clients :
             view[c].rev = view[d].rev => view[c].apps = view[d].apps

(* No copy waits for a process that its helper left behind.                *)
NavigationsEnd == \A c \in Clients : []<>(pc[c] # "open")

(* Every request is answered, with one exception: behind a copy that never *)
(* ends.  A list never waits for ever behind the publications, nor an      *)
(* action behind a process that ignores TERM.                              *)
RequestsAnswered ==
    NavigationsEnd => \A c \in Clients : pc[c] # "idle" ~> pc[c] = "idle"

(* A rebuild that is ready is published, whatever clients keep asking,     *)
(* with one exception: a copy that never ends keeps the read lock.         *)
PublicationCompletes == NavigationsEnd => (WriterPending ~> phase = "idle")

(* The executor implements ForceGrants: armed grants are the map's entries *)
(* and a grant is taken while a KILL's handler holds it.                   *)
Taken == {held[c] : c \in Clients} \ {NoGrant}
Spent == {k.grant : k \in kills}
Promise == INSTANCE ForceGrants WITH
    earned <- expired, armed <- force, taken <- Taken, spent <- Spent
KeepsPromise == Promise!Spec
=============================================================================
