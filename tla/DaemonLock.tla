----------------------------- MODULE DaemonLock -----------------------------
(***************************************************************************)
(* Which daemon owns the state directory: AcquireLock and Release of       *)
(* internal/daemon/lock.go and the socket's life in Serve (runtime.go).    *)
(*                                                                         *)
(* The lock is a file that names its owner.  It is examined, judged,       *)
(* removed, created and written in separate system calls, and other        *)
(* daemons, started by other popups, run between any two of them.  A       *)
(* daemon may end at any moment: killed, or because its runtime ended and  *)
(* main returned (main.go); what it leaves behind stays on disk.           *)
(***************************************************************************)
CONSTANT Daemons        \* daemon processes, each with its start time

VARIABLES
    lock,      \* the lock file: who created it, whether it names its owner
    socket,    \* whose socket is at the socket path
    pc,        \* where Serve is in each process
    seen,      \* the lock file it last read
    raced      \* history: an acquisition began during another one

vars == <<lock, socket, pc, seen, raced>>

-----------------------------------------------------------------------------
NoFile == [by |-> "nobody"]
NoSocket == "none"
LockFiles == [by : Daemons, written : BOOLEAN]

Acquiring == {"look", "read", "judge", "remove", "create", "write"}
Owning == {"own", "bind", "serve", "close", "unlink"}
Releasing == {"release", "unlock"}
Over == {"refused", "failed", "done", "dead"}

(* Identity finds the process, with the start time in the record.          *)
Alive(d) == pc[d] \in Acquiring \cup Owning \cup Releasing

Init ==
    /\ lock = NoFile
    /\ socket = NoSocket
    /\ pc = [d \in Daemons |-> "new"]
    /\ seen = [d \in Daemons |-> NoFile]
    /\ raced = FALSE

Goto(d, where) == pc' = [pc EXCEPT ![d] = where]

Start(d) ==
    /\ pc[d] = "new"
    /\ Goto(d, "look")
    /\ raced' = (raced \/ \E e \in Daemons : pc[e] \in Acquiring)
    /\ UNCHANGED <<lock, socket, seen>>

(* The process ends without its deferred calls.                            *)
Die(d) ==
    /\ Alive(d)
    /\ Goto(d, "dead")
    /\ UNCHANGED <<lock, socket, seen, raced>>

-----------------------------------------------------------------------------
(* AcquireLock.                                                            *)

(* Mutant: the socket is cleared before the lock is acquired.              *)
LookClearing(d) ==
    /\ pc[d] = "look"
    /\ Goto(d, IF lock = NoFile THEN "create" ELSE "read")
    /\ socket' = NoSocket
    /\ UNCHANGED <<lock, seen, raced>>

Look(d) ==
    /\ pc[d] = "look"
    /\ Goto(d, IF lock = NoFile THEN "create" ELSE "read")
    /\ UNCHANGED <<lock, socket, seen, raced>>

(* A file that does not name an owner yet reads like a corrupt one.        *)
Read(d) ==
    /\ pc[d] = "read"
    /\ seen' = [seen EXCEPT ![d] = lock]
    /\ Goto(d, IF lock = NoFile THEN "refused"
               ELSE IF lock.written THEN "judge" ELSE "remove")
    /\ UNCHANGED <<lock, socket, raced>>

(* Mutant: a lock that names an owner is taken for a dead one's.           *)
JudgeUnchecked(d) ==
    /\ pc[d] = "judge"
    /\ Goto(d, "remove")
    /\ UNCHANGED <<lock, socket, seen, raced>>

Judge(d) ==
    /\ pc[d] = "judge"
    /\ Goto(d, IF Alive(seen[d].by) THEN "refused" ELSE "remove")
    /\ UNCHANGED <<lock, socket, seen, raced>>

(* os.Remove takes whatever file has the name by now.                      *)
Remove(d) ==
    /\ pc[d] = "remove"
    /\ lock' = NoFile
    /\ Goto(d, IF lock = NoFile THEN "refused" ELSE "create")
    /\ UNCHANGED <<socket, seen, raced>>

Create(d) ==
    /\ pc[d] = "create"
    /\ IF lock = NoFile
       THEN lock' = [by |-> d, written |-> FALSE] /\ Goto(d, "write")
       ELSE UNCHANGED lock /\ Goto(d, "refused")
    /\ UNCHANGED <<socket, seen, raced>>

(* The record goes to the file d created, which may have lost its name.  A *)
(* write that fails removes the file that has the name.                    *)
Write(d) ==
    /\ pc[d] = "write"
    /\ \/ /\ lock' = IF lock = NoFile \/ lock.by # d THEN lock
                     ELSE [lock EXCEPT !.written = TRUE]
          /\ Goto(d, "own")
       \/ lock' = NoFile /\ Goto(d, "failed")
    /\ UNCHANGED <<socket, seen, raced>>

-----------------------------------------------------------------------------
(* Serve, for the owner of the lock.                                       *)

ClearSocket(d) ==
    /\ pc[d] = "own"
    /\ socket' = NoSocket
    /\ Goto(d, "bind")
    /\ UNCHANGED <<lock, seen, raced>>

Bind(d) ==
    /\ pc[d] = "bind"
    /\ IF socket = NoSocket
       THEN socket' = d /\ Goto(d, "serve")
       ELSE UNCHANGED socket /\ Goto(d, "release")
    /\ UNCHANGED <<lock, seen, raced>>

(* The context is done, or the listener failed.                            *)
Stop(d) ==
    /\ pc[d] = "serve"
    /\ Goto(d, "close")
    /\ UNCHANGED <<lock, socket, seen, raced>>

(* Closing the listener unlinks the path, then Serve removes it again.     *)
Close(d) ==
    /\ \/ pc[d] = "close" /\ Goto(d, "unlink")
       \/ pc[d] = "unlink" /\ Goto(d, "release")
    /\ socket' = NoSocket
    /\ UNCHANGED <<lock, seen, raced>>

Release(d) ==
    /\ pc[d] = "release"
    /\ Goto(d, IF lock # NoFile /\ lock.by = d /\ lock.written
               THEN "unlock" ELSE "done")
    /\ UNCHANGED <<lock, socket, seen, raced>>

Unlock(d) ==
    /\ pc[d] = "unlock"
    /\ lock' = NoFile
    /\ Goto(d, "done")
    /\ UNCHANGED <<socket, seen, raced>>

-----------------------------------------------------------------------------
Acquire(d) ==
    Look(d) \/ Read(d) \/ Judge(d) \/ Remove(d) \/ Create(d) \/ Write(d)
Serve(d) == ClearSocket(d) \/ Bind(d) \/ Close(d) \/ Release(d) \/ Unlock(d)

Next == \E d \in Daemons :
    Start(d) \/ Die(d) \/ Acquire(d) \/ Serve(d) \/ Stop(d)

(* A process that is not ended goes on.  Nobody has to stop it.            *)
Fairness == \A d \in Daemons : WF_vars(Acquire(d) \/ Serve(d))

Spec == Init /\ [][Next]_vars /\ Fairness

-----------------------------------------------------------------------------
(* Properties.                                                             *)

TypeOK ==
    /\ lock \in LockFiles \cup {NoFile}
    /\ socket \in Daemons \cup {NoSocket}
    /\ pc \in [Daemons -> {"new"} \cup Acquiring \cup Owning \cup Releasing
                             \cup Over]
    /\ seen \in [Daemons -> LockFiles \cup {NoFile}]
    /\ raced \in BOOLEAN

Owners == {d \in Daemons : pc[d] \in Owning}
OneOwner == \A d, e \in Owners : d = e

(* As long as no two acquisitions overlapped there is one owner, whatever  *)
(* was killed at whatever moment before: the owner's record is in the lock *)
(* and a daemon that serves can be reached at the socket path.             *)
ExclusiveWhenSequential ==
    ~raced =>
        /\ OneOwner
        /\ \A d \in Owners :
             /\ lock = [by |-> d, written |-> TRUE]
             /\ pc[d] = "serve" => socket = d

(* "AcquireLock creates ownership only after proving any prior regular     *)
(* lock is stale" (lock.go): an acquisition leaves nobody else owning.     *)
AcquiredFromTheStale ==
    [][\A d \in Daemons :
        pc[d] = "write" /\ pc'[d] = "own" => Owners \ {d} = {}]_vars
=============================================================================
