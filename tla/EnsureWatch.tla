----------------------------- MODULE EnsureWatch -----------------------------
(***************************************************************************)
(* Making a daemon ready: WatchEnsurer.Ensure of internal/daemon/ensure.go *)
(* over the lock and the socket of DaemonLock.                             *)
(*                                                                         *)
(* Herdr's hooks, the popup and the command line each run an ensurer: it   *)
(* asks for a list, starts a daemon of its own when no list comes within a *)
(* tenth of a second, and asks again until it gives up.  Several do so at  *)
(* once, and a daemon that serves may be too busy to answer in time, while *)
(* a publication waits for an action and the list waits behind both.       *)
(* No caller gives a context that ends.                                    *)
(***************************************************************************)
EXTENDS Naturals, DaemonLock

CONSTANTS
    Ensurers,      \* those that ensure; each names the daemon it may start
    Attempts       \* how often the daemon is asked after it was started

ASSUME EnsureAssumption == Ensurers \subseteq Daemons /\ Attempts \in Nat \ {0}

VARIABLES
    at,          \* where Ensure is in each ensurer
    tries,       \* how often it has asked since it started its daemon
    busy,        \* daemons whose lists wait
    disturbed,   \* history: ensurers whose call met a daemon that was not well
    sole         \* history: daemons that were once the only one, and serve

ensuring == <<at, tries, busy>>
history == <<disturbed, sole>>
allVars == <<vars, ensuring, history>>

-----------------------------------------------------------------------------
Calling == {"check", "launch", "probe", "wait"}
Returned == {"ready", "failed"}
Stopping == {"close", "unlink", "release", "unlock"}
StartingUp == Acquiring \cup {"own", "bind"}

Serving == {d \in Daemons : pc[d] = "serve"}

(* What healthyDaemon finds: a list, in time, from whoever has the socket. *)
Answers == socket \in Serving \ busy

(* Retry times Attempts are two seconds, longer than any start.            *)
Settled == \A d \in Daemons : pc[d] \notin StartingUp

(* No daemon is about to leave, is slow, or serves unreachably, and no     *)
(* starts that overlapped are still under way.                             *)
AllWell ==
    /\ busy = {}
    /\ raced => Settled
    /\ \A d \in Daemons : pc[d] \notin Stopping
    /\ \A d \in Serving : socket = d

EnsureInit ==
    /\ Init
    /\ at = [e \in Ensurers |-> "idle"]
    /\ tries = [e \in Ensurers |-> 0]
    /\ busy = {}
    /\ disturbed = {}
    /\ sole = {}

Move(e, where) == at' = [at EXCEPT ![e] = where]

-----------------------------------------------------------------------------
(* History.                                                                *)

Callers == {e \in Ensurers : at[e] \in Calling}

Disturb == disturbed' = disturbed \cup Callers

(* A daemon that serves, alone and with both files its own, is the one to  *)
(* keep.                                                                   *)
NoteSole ==
    sole' = {d \in Daemons :
        /\ pc'[d] = "serve"
        /\ \/ d \in sole
           \/ /\ socket' = d
              /\ lock' = [by |-> d, written |-> TRUE]
              /\ \A x \in Daemons \ {d} : ~Alive(x)'}

-----------------------------------------------------------------------------
(* Ensure.                                                                 *)

Call(e) ==
    /\ at[e] = "idle"
    /\ Move(e, "check")
    /\ disturbed' = IF AllWell THEN disturbed ELSE disturbed \cup {e}
    /\ UNCHANGED <<vars, tries, busy, sole>>

Check(e) ==
    /\ at[e] = "check"
    /\ Move(e, IF Answers THEN "ready" ELSE "launch")
    /\ UNCHANGED <<vars, tries, busy, history>>

(* Executable or Start may fail, and Ensure with them.                     *)
Launch(e) ==
    /\ at[e] = "launch"
    /\ \/ Start(e) /\ Move(e, "probe") /\ NoteSole /\ UNCHANGED disturbed
       \/ Move(e, "unlaunched") /\ UNCHANGED <<vars, history>>
    /\ UNCHANGED <<tries, busy>>

(* One more request.  The last one comes when the start is long over.      *)
Probe(e) ==
    /\ at[e] = "probe"
    /\ tries[e] + 1 = Attempts => Settled
    /\ IF Answers
       THEN Move(e, "ready") /\ tries' = [tries EXCEPT ![e] = 0]
       ELSE Move(e, "wait") /\ tries' = [tries EXCEPT ![e] = @ + 1]
    /\ UNCHANGED <<vars, busy, history>>

(* Mutant: a daemon that exits ends the wait for readiness.                *)
RetryUnlessExited(e) ==
    /\ at[e] = "wait"
    /\ Move(e, IF tries[e] < Attempts /\ pc[e] \notin Over
               THEN "probe" ELSE "failed")
    /\ UNCHANGED <<vars, tries, busy, history>>

(* The timer, or the exit of the daemon that was started: it is remembered *)
(* for the error, and the asking goes on, as another may be starting.      *)
Retry(e) ==
    /\ at[e] = "wait"
    /\ Move(e, IF tries[e] < Attempts THEN "probe" ELSE "failed")
    /\ UNCHANGED <<vars, tries, busy, history>>

-----------------------------------------------------------------------------
(* The daemons, with those that are started by hand.                       *)

(* An action holds the read lock and a publication waits for it.           *)
Engage(d) ==
    /\ pc[d] = "serve" /\ d \notin busy
    /\ busy' = busy \cup {d}
    /\ Disturb
    /\ UNCHANGED <<vars, at, tries, sole>>

Disengage(d) ==
    /\ d \in busy
    /\ busy' = busy \ {d}
    /\ UNCHANGED <<vars, at, tries, history>>

GoOn(d) ==
    /\ Acquire(d) \/ Serve(d)
    /\ IF pc'[d] = "failed" THEN Disturb ELSE UNCHANGED disturbed
    /\ NoteSole
    /\ UNCHANGED ensuring

StartByHand(d) ==
    /\ d \notin Ensurers
    /\ Start(d)
    /\ NoteSole
    /\ UNCHANGED <<ensuring, disturbed>>

Leave(d) ==
    /\ Stop(d) \/ Die(d)
    /\ busy' = busy \ {d}
    /\ Disturb
    /\ NoteSole
    /\ UNCHANGED <<at, tries>>

-----------------------------------------------------------------------------
Ensure(e) == Check(e) \/ Launch(e) \/ Probe(e) \/ Retry(e)

EnsureNext ==
    \/ \E e \in Ensurers : Call(e) \/ Ensure(e)
    \/ \E d \in Daemons :
          Engage(d) \/ Disengage(d) \/ GoOn(d) \/ StartByHand(d) \/ Leave(d)

EnsureSpec == EnsureInit /\ [][EnsureNext]_allVars

-----------------------------------------------------------------------------
(* Properties.                                                             *)

EnsureTypeOK ==
    /\ at \in [Ensurers -> {"idle", "unlaunched"} \cup Calling \cup Returned]
    /\ tries \in [Ensurers -> 0..Attempts]
    /\ busy \subseteq Serving
    /\ disturbed \subseteq Ensurers
    /\ sole \subseteq Serving

(* A daemon that once served as the only one keeps its lock and its socket *)
(* until it ends, however many daemons are started next to it meanwhile,   *)
(* at once or while it is too busy to answer.                              *)
SoleIsKept ==
    \A d \in sole : socket = d /\ lock = [by |-> d, written |-> TRUE]

(* Ensure fails only if a daemon was stopped, was killed, was busy or      *)
(* could not write its lock during the call, or was so when it began.      *)
(* Daemons that other ensurers start at the same time, their race for the  *)
(* lock and the refusal of its own do not make it fail, nor does anything  *)
(* that daemons killed before have left behind.                            *)
ReadyUnlessDisturbed ==
    \A e \in Ensurers : at[e] = "failed" => e \in disturbed
=============================================================================
