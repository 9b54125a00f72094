------------------------- MODULE EnsureWatch_proofs -------------------------
(***************************************************************************)
(* Proofs about DaemonLock and EnsureWatch, for any number of daemons and  *)
(* of ensurers.                                                            *)
(*                                                                         *)
(* The lock by itself: a daemon holds the directory exactly while the lock *)
(* file names it.  That is inductive as long as no two acquisitions        *)
(* overlap, together with what the only acquisition in progress knows      *)
(* about the file at each step.                                            *)
(*                                                                         *)
(* With ensurers: every step is a step of DaemonLock, so what is proved of *)
(* the lock holds.  On top of it, a daemon that once served as the only    *)
(* one keeps all others out, and a call that meets nothing but daemons     *)
(* that start is answered in the end, because one of them prevails.        *)
(***************************************************************************)
EXTENDS EnsureWatch, TLAPS

-----------------------------------------------------------------------------
(* The lock by itself.                                                     *)

Holding == Owning \cup Releasing

OneAcquires ==
    \A d, e \in Daemons : pc[d] \in Acquiring /\ pc[e] \in Acquiring => d = e
HoldersAreNamed ==
    \A d \in Daemons :
        pc[d] \in Holding => lock = [by |-> d, written |-> TRUE]
ServersAreBound == \A d \in Daemons : pc[d] = "serve" => socket = d

(* A written file is only judged by its owner; what is removed is nobody's *)
(* who is alive; nothing comes between the removal and the creation.       *)
Knows(d) ==
    /\ pc[d] = "judge" =>
         /\ seen[d] \in LockFiles
         /\ lock = seen[d] \/ (lock = NoFile /\ ~Alive(seen[d].by))
    /\ pc[d] = "remove" =>
         \/ lock = NoFile
         \/ lock \in LockFiles /\ (~lock.written \/ ~Alive(lock.by))
    /\ pc[d] = "create" => lock = NoFile
    /\ pc[d] = "write" => lock = [by |-> d, written |-> FALSE]

LockInv ==
    /\ OneAcquires
    /\ HoldersAreNamed
    /\ ServersAreBound
    /\ \A d \in Daemons : Knows(d)

-----------------------------------------------------------------------------
(* A file that exists is not the missing one.                              *)
LEMMA FilesExist ==
    ASSUME NEW f \in LockFiles
    PROVE  f # NoFile
  <1>1. DOMAIN f = {"by", "written"}
    BY DEF LockFiles
  <1>2. DOMAIN NoFile = {"by"}
    BY DEF NoFile
  <1>3. "written" # "by"
    OBVIOUS
  <1> QED
    BY <1>1, <1>2, <1>3

(* The daemons begin with the types that TypeOK gives them.                *)
LEMMA LockTypingInit == Init => TypeOK
  BY DEF Init, TypeOK, LockFiles

(* Every step keeps the types.                                             *)
LEMMA LockTypingStep == TypeOK /\ [Next]_vars => TypeOK'
  <1> SUFFICES ASSUME TypeOK, [Next]_vars
               PROVE  TypeOK'
    OBVIOUS
  <1> USE DEF TypeOK, LockFiles, Acquiring, Owning, Releasing, Over, Goto
  <1>1. CASE UNCHANGED vars
    BY <1>1 DEF vars
  <1>2. ASSUME NEW d \in Daemons, Start(d) \/ Die(d) \/ Stop(d)
        PROVE  TypeOK'
    BY <1>2 DEF Start, Die, Stop
  <1>3. ASSUME NEW d \in Daemons, Look(d) \/ Judge(d) \/ Remove(d)
        PROVE  TypeOK'
    BY <1>3 DEF Look, Judge, Remove
  <1>4. ASSUME NEW d \in Daemons, Read(d)
        PROVE  TypeOK'
    BY <1>4 DEF Read
  <1>5. ASSUME NEW d \in Daemons, Create(d)
        PROVE  TypeOK'
    <2>1. [by |-> d, written |-> FALSE] \in LockFiles
      BY DEF LockFiles
    <2> QED
      BY <1>5, <2>1 DEF Create
  <1>6. ASSUME NEW d \in Daemons, Write(d)
        PROVE  TypeOK'
    <2>1. lock # NoFile => [lock EXCEPT !.written = TRUE] \in LockFiles
      BY DEF LockFiles
    <2> QED
      BY <1>6, <2>1 DEF Write
  <1>7. ASSUME NEW d \in Daemons, Serve(d)
        PROVE  TypeOK'
    BY <1>7 DEF Serve, ClearSocket, Bind, Close, Release, Unlock
  <1> QED
    BY <1>1, <1>2, <1>3, <1>4, <1>5, <1>6, <1>7 DEF Next, Acquire

(* The variables keep their types (TypeOK).                                *)
THEOREM Typing == Spec => []TypeOK
  BY LockTypingInit, LockTypingStep, PTL DEF Spec

-----------------------------------------------------------------------------
LEMMA LockInvInit == Init => LockInv
  BY DEF Init, LockInv, OneAcquires, HoldersAreNamed, ServersAreBound, Knows,
         Acquiring, Holding, Owning, Releasing

(* As long as acquisitions do not overlap every step keeps the invariant.  *)
LEMMA LockInvStep ==
    ASSUME TypeOK, ~raced => LockInv, [Next]_vars, ~raced'
    PROVE  LockInv'
  <1> USE DEF LockInv, OneAcquires, HoldersAreNamed, ServersAreBound, Knows,
              Alive, Acquiring, Holding, Owning, Releasing, Goto
  <1>1. CASE UNCHANGED vars
    BY <1>1 DEF vars
  <1>2. ASSUME NEW d \in Daemons, Start(d)
        PROVE  LockInv'
    <2>1. /\ ~raced /\ pc[d] = "new" /\ UNCHANGED <<lock, socket, seen>>
          /\ \A e \in Daemons : pc[e] \notin Acquiring
          /\ \A e \in Daemons : pc'[e] = IF e = d THEN "look" ELSE pc[e]
      BY <1>2 DEF Start, TypeOK
    <2>2. OneAcquires'
      BY <2>1
    <2>3. HoldersAreNamed'
      BY <2>1
    <2>4. ServersAreBound'
      BY <2>1
    <2>5. \A e \in Daemons : Knows(e)'
      BY <2>1
    <2> QED
      BY <2>2, <2>3, <2>4, <2>5
  <1>3. ASSUME NEW d \in Daemons, Die(d) \/ Stop(d)
        PROVE  LockInv'
    <2>1. /\ ~raced /\ UNCHANGED <<lock, socket, seen>>
          /\ \/ \A e \in Daemons : pc'[e] = IF e = d THEN "dead" ELSE pc[e]
             \/ /\ pc[d] = "serve"
                /\ \A e \in Daemons :
                     pc'[e] = IF e = d THEN "close" ELSE pc[e]
      BY <1>3 DEF Die, Stop, TypeOK
    <2>2. OneAcquires'
      BY <2>1
    <2>3. HoldersAreNamed'
      BY <2>1
    <2>4. ServersAreBound'
      BY <2>1
    <2>5. \A e \in Daemons : Knows(e)'
      <3> SUFFICES ASSUME NEW e \in Daemons, pc'[e] \in Acquiring
                   PROVE  Knows(e)'
        OBVIOUS
      <3>1. pc'[e] = pc[e] /\ Knows(e)
        BY <2>1
      <3>2. \A f \in LockFiles : ~Alive(f.by) => ~Alive(f.by)'
        <4>1. \A f \in LockFiles : f.by \in Daemons
          BY DEF LockFiles
        <4> QED
          BY <2>1, <4>1
      <3> QED
        BY <2>1, <3>1, <3>2
    <2> QED
      BY <2>2, <2>3, <2>4, <2>5
  <1>4. ASSUME NEW d \in Daemons, Look(d) \/ Judge(d)
        PROVE  LockInv'
    <2>1. /\ ~raced /\ pc[d] \in Acquiring /\ UNCHANGED <<lock, socket, seen>>
          /\ \E p \in {"create", "read", "refused", "remove"} :
               /\ \A e \in Daemons : pc'[e] = IF e = d THEN p ELSE pc[e]
               /\ p = "create" => lock = NoFile
               /\ p = "remove" => pc[d] = "judge" /\ ~Alive(seen[d].by)
      BY <1>4 DEF Look, Judge, TypeOK
    <2>2. OneAcquires'
      BY <2>1
    <2>3. HoldersAreNamed'
      BY <2>1
    <2>4. ServersAreBound'
      BY <2>1
    <2>5. \A e \in Daemons : Knows(e)'
      <3> SUFFICES ASSUME NEW e \in Daemons, pc'[e] \in Acquiring
                   PROVE  Knows(e)'
        OBVIOUS
      <3>1. e = d /\ pc[d] \in Acquiring
        BY <2>1
      <3>2. \A f \in LockFiles : ~Alive(f.by) => ~Alive(f.by)'
        <4>1. \A f \in LockFiles : f.by \in Daemons
          BY DEF LockFiles
        <4> QED
          BY <2>1, <4>1
      <3> QED
        BY <2>1, <3>1, <3>2
    <2> QED
      BY <2>2, <2>3, <2>4, <2>5
  <1>5. ASSUME NEW d \in Daemons, Read(d)
        PROVE  LockInv'
    BY <1>5 DEF Read, TypeOK
  <1>6. ASSUME NEW d \in Daemons, Remove(d)
        PROVE  LockInv'
    BY <1>6, FilesExist DEF Remove, TypeOK, LockFiles
  <1>7. ASSUME NEW d \in Daemons, Create(d)
        PROVE  LockInv'
    <2>1. /\ ~raced /\ pc[d] = "create" /\ UNCHANGED <<socket, seen>>
          /\ lock = NoFile
          /\ lock' = [by |-> d, written |-> FALSE]
          /\ \A e \in Daemons : pc'[e] = IF e = d THEN "write" ELSE pc[e]
      BY <1>7 DEF Create, TypeOK
    <2>2. \A e \in Daemons : pc[e] \notin Holding
      <3> SUFFICES ASSUME NEW e \in Daemons, pc[e] \in Holding
                   PROVE  FALSE
        OBVIOUS
      <3>1. lock = [by |-> e, written |-> TRUE]
        BY <2>1
      <3>2. lock \in LockFiles
        BY <3>1 DEF LockFiles
      <3> QED
        BY <2>1, <3>2, FilesExist
    <2>3. \A e \in Daemons : pc[e] \in Acquiring => e = d
      BY <2>1
    <2>4. OneAcquires'
      BY <2>1
    <2>5. HoldersAreNamed'
      BY <2>1, <2>2
    <2>6. ServersAreBound'
      BY <2>1, <2>2
    <2>7. \A e \in Daemons : Knows(e)'
      BY <2>1, <2>3
    <2> QED
      BY <2>4, <2>5, <2>6, <2>7
  <1>8. ASSUME NEW d \in Daemons, Write(d)
        PROVE  LockInv'
    <2>1. /\ ~raced /\ pc[d] = "write" /\ UNCHANGED <<socket, seen>>
          /\ lock = [by |-> d, written |-> FALSE]
          /\ \/ /\ lock' = [by |-> d, written |-> TRUE]
                /\ \A e \in Daemons :
                     pc'[e] = IF e = d THEN "own" ELSE pc[e]
             \/ /\ lock' = NoFile
                /\ \A e \in Daemons :
                     pc'[e] = IF e = d THEN "failed" ELSE pc[e]
      <3>1. ~raced /\ pc[d] = "write" /\ UNCHANGED <<socket, seen>>
        BY <1>8 DEF Write
      <3>2. lock = [by |-> d, written |-> FALSE]
        BY <3>1
      <3>3. lock # NoFile
        BY <3>2, FilesExist DEF LockFiles
      <3> QED
        BY <1>8, <3>1, <3>2, <3>3 DEF Write, TypeOK
    <2>2. \A e \in Daemons : pc[e] \notin Holding
      BY <2>1
    <2>3. \A e \in Daemons : pc[e] \in Acquiring => e = d
      BY <2>1
    <2>4. OneAcquires'
      BY <2>1
    <2>5. HoldersAreNamed'
      BY <2>1, <2>2, <2>3
    <2>6. ServersAreBound'
      BY <2>1, <2>2, <2>3
    <2>7. \A e \in Daemons : Knows(e)'
      BY <2>1, <2>2, <2>3
    <2> QED
      BY <2>4, <2>5, <2>6, <2>7
  <1>9. ASSUME NEW d \in Daemons, ClearSocket(d) \/ Bind(d) \/ Close(d)
        PROVE  LockInv'
    <2>1. /\ ~raced /\ pc[d] \in Holding /\ UNCHANGED <<lock, seen>>
          /\ \E p \in Holding :
               /\ \A e \in Daemons : pc'[e] = IF e = d THEN p ELSE pc[e]
               /\ p = "serve" => socket' = d
      <3>1. CASE ClearSocket(d)
        <4>1. \A e \in Daemons : pc'[e] = IF e = d THEN "bind" ELSE pc[e]
          BY <3>1 DEF ClearSocket, TypeOK
        <4> QED
          BY <3>1, <4>1 DEF ClearSocket
      <3>2. CASE Bind(d)
        <4>1. CASE socket = NoSocket
          <5>1. \A e \in Daemons : pc'[e] = IF e = d THEN "serve" ELSE pc[e]
            BY <3>2, <4>1 DEF Bind, TypeOK
          <5> QED
            BY <3>2, <4>1, <5>1 DEF Bind
        <4>2. CASE socket # NoSocket
          <5>1. \A e \in Daemons :
                  pc'[e] = IF e = d THEN "release" ELSE pc[e]
            BY <3>2, <4>2 DEF Bind, TypeOK
          <5> QED
            BY <3>2, <4>2, <5>1 DEF Bind
        <4> QED
          BY <4>1, <4>2
      <3>3. CASE Close(d)
        <4>1. \E p \in {"unlink", "release"} : \A e \in Daemons :
                pc'[e] = IF e = d THEN p ELSE pc[e]
          BY <3>3 DEF Close, TypeOK
        <4> QED
          BY <3>3, <4>1 DEF Close
      <3> QED
        BY <1>9, <3>1, <3>2, <3>3
    <2>2. \A e \in Daemons : pc[e] \in Holding => e = d
      <3>1. lock = [by |-> d, written |-> TRUE]
        BY <2>1
      <3> QED
        BY <2>1, <3>1
    <2>3. OneAcquires'
      BY <2>1
    <2>4. HoldersAreNamed'
      BY <2>1
    <2>5. ServersAreBound'
      BY <2>1, <2>2
    <2>6. \A e \in Daemons : Knows(e)'
      <3> SUFFICES ASSUME NEW e \in Daemons, pc'[e] \in Acquiring
                   PROVE  Knows(e)'
        OBVIOUS
      <3>1. pc'[e] = pc[e] /\ Knows(e)
        BY <2>1
      <3>2. \A f \in LockFiles : ~Alive(f.by) => ~Alive(f.by)'
        <4>1. \A f \in LockFiles : f.by \in Daemons
          BY DEF LockFiles
        <4> QED
          BY <2>1, <4>1
      <3> QED
        BY <2>1, <3>1, <3>2
    <2> QED
      BY <2>3, <2>4, <2>5, <2>6
  <1>10. ASSUME NEW d \in Daemons, Release(d) \/ Unlock(d)
         PROVE  LockInv'
    BY <1>10, FilesExist DEF Release, Unlock, TypeOK, LockFiles
  <1> QED
    BY <1>1, <1>2, <1>3, <1>4, <1>5, <1>6, <1>7, <1>8, <1>9, <1>10
       DEF Next, Acquire, Serve

(* The invariant says who owns what.                                       *)
LEMMA LockInvExcludes ==
    ASSUME TypeOK, ~raced => LockInv
    PROVE  ExclusiveWhenSequential
  BY FilesExist DEF LockInv, HoldersAreNamed, ServersAreBound, Holding,
     ExclusiveWhenSequential, OneOwner, Owners

(* Without overlapping acquisitions there is one owner, named by the lock, *)
(* and it can be reached while it serves (ExclusiveWhenSequential).        *)
THEOREM SequentialOwnership == Spec => []ExclusiveWhenSequential
  <1> DEFINE Inv == TypeOK /\ (~raced => LockInv)
  <1>1. Init => Inv
    BY LockTypingInit, LockInvInit
  <1>2. Inv /\ TypeOK' /\ [Next]_vars => Inv'
    BY LockInvStep
  <1>3. Inv => ExclusiveWhenSequential
    BY LockInvExcludes
  <1> QED
    BY <1>1, <1>2, <1>3, Typing, PTL DEF Spec

-----------------------------------------------------------------------------
(* Ensurers and daemons.                                                   *)

(* Safety of DaemonLock.                                                   *)
LockSpec == Init /\ [][Next]_vars

-----------------------------------------------------------------------------
(* The daemon to keep: those started next to it get no further than the    *)
(* judgement of its lock.                                                  *)
Outside == {"new", "look", "read", "judge"} \cup Over

Kept(d) ==
    /\ pc[d] = "serve" /\ socket = d
    /\ lock = [by |-> d, written |-> TRUE]
    /\ \A x \in Daemons \ {d} :
         /\ pc[x] \in Outside
         /\ pc[x] = "judge" => seen[x] = lock

SoleInv == \A d \in sole : Kept(d)

-----------------------------------------------------------------------------
(* Who wrote a lock file is beyond its creation; one that judges has read  *)
(* one.                                                                    *)
Before == {"new", "look", "read", "judge", "remove", "create"}

AuthorsWentOn ==
    /\ lock # NoFile => pc[lock.by] \notin Before
    /\ \A d \in Daemons :
         /\ seen[d] # NoFile => pc[seen[d].by] \notin Before
         /\ pc[d] = "judge" => seen[d] # NoFile

(* As long as no acquisitions overlapped nobody takes the path from the    *)
(* daemon that has cleared it.                                             *)
PathStaysClear == \A d \in Daemons : pc[d] = "bind" => socket = NoSocket

(* One that has created its lock either gets the socket or is beaten to it *)
(* by another that has, and serves.                                        *)
Prevailing ==
    \/ socket \in Serving
    \/ \E d \in Daemons : pc[d] \in {"write", "own", "bind"}

(* Before that, one of those that examine the lock will create it.         *)
Examining ==
    \E d \in Daemons :
        pc[d] \in IF lock = NoFile THEN {"look", "create"}
                  ELSE {"look", "read", "judge", "remove"}

(* What an ensurer that nothing disturbed may count on.                    *)
Calm ==
    /\ busy = {}
    /\ \A d \in Daemons :
         /\ pc[d] \notin {"close", "unlink"}
         /\ pc[d] \in {"serve", "release", "unlock"} => Prevailing
         /\ pc[d] = "bind" => socket \in Serving \cup {NoSocket}

Promised(e) ==
    /\ Calm
    /\ at[e] \in {"probe", "wait"} => Prevailing \/ Examining
    /\ at[e] = "wait" => tries[e] < Attempts

ReadyInv ==
    /\ AuthorsWentOn
    /\ ~raced => LockInv /\ PathStaysClear
    /\ \A e \in Callers \ disturbed : Promised(e)

-----------------------------------------------------------------------------
(* What an ensurer or its daemon does is a step of DaemonLock, or nothing  *)
(* that the lock and the socket could show.                                *)
LEMMA EnsureStepIsLockStep == [EnsureNext]_allVars => [Next]_vars
  <1> SUFFICES ASSUME [EnsureNext]_allVars
               PROVE  [Next]_vars
    OBVIOUS
  <1>1. CASE UNCHANGED allVars
    BY <1>1 DEF allVars
  <1>2. ASSUME NEW e \in Ensurers, Call(e) \/ Ensure(e)
        PROVE  [Next]_vars
    BY <1>2, EnsureAssumption
       DEF Call, Ensure, Check, Launch, Probe, Retry, Next
  <1>3. ASSUME NEW d \in Daemons,
               Engage(d) \/ Disengage(d) \/ GoOn(d) \/ StartByHand(d)
                 \/ Leave(d)
        PROVE  [Next]_vars
    BY <1>3 DEF Engage, Disengage, GoOn, StartByHand, Leave, Next
  <1> QED
    BY <1>1, <1>2, <1>3 DEF EnsureNext

(* The daemons of EnsureWatch behave as those of DaemonLock, in whatever   *)
(* order ensurers start them and whatever keeps them from answering.       *)
THEOREM DaemonsShareTheLock == EnsureSpec => LockSpec
  <1>1. EnsureInit => Init
    BY DEF EnsureInit
  <1> QED
    BY <1>1, EnsureStepIsLockStep, PTL DEF EnsureSpec, LockSpec

(* The types of DaemonLock hold here too (TypeOK).                         *)
THEOREM EnsureTyping == EnsureSpec => []TypeOK
  BY DaemonsShareTheLock, LockTypingInit, LockTypingStep, PTL DEF LockSpec

(* And so does its exclusive ownership (ExclusiveWhenSequential): ensurers *)
(* that come one after the other never make two daemons.                   *)
THEOREM EnsureOwnership == EnsureSpec => []ExclusiveWhenSequential
  BY DaemonsShareTheLock, LockTypingInit, LockTypingStep, LockInvInit,
     LockInvStep, LockInvExcludes, PTL DEF LockSpec

-----------------------------------------------------------------------------
(* No step of another daemon takes the lock or the socket from one that is *)
(* kept: it reads a lock that names a living owner and is refused.         *)
LEMMA KeptStep ==
    ASSUME TypeOK, NEW d \in Daemons, Kept(d), [Next]_vars, pc'[d] = "serve"
    PROVE  Kept(d)'
  <1> USE DEF Kept, Outside, Goto
  <1>1. lock # NoFile /\ lock.written /\ lock.by = d /\ Alive(d)
    BY FilesExist DEF LockFiles, Alive, Owning
  <1>2. CASE UNCHANGED vars
    BY <1>2 DEF vars
  <1>3. ASSUME NEW x \in Daemons,
               Start(x) \/ Die(x) \/ Acquire(x) \/ Serve(x) \/ Stop(x)
        PROVE  Kept(d)'
    <2>1. CASE x = d
      <3>1. Die(d) \/ Stop(d)
        BY <1>3, <2>1 DEF Start, Acquire, Look, Read, Judge, Remove, Create,
           Write, Serve, ClearSocket, Bind, Close, Release, Unlock
      <3>2. pc'[d] \in {"dead", "close"}
        BY <3>1 DEF Die, Stop, TypeOK
      <3> QED
        BY <3>2
    <2>2. CASE x # d /\ (Start(x) \/ Die(x))
      <3>1. /\ UNCHANGED <<lock, socket, seen>>
            /\ \E p \in {"look", "dead"} :
                 \A y \in Daemons : pc'[y] = IF y = x THEN p ELSE pc[y]
        BY <2>2 DEF Start, Die, TypeOK
      <3> QED
        BY <3>1, <2>2 DEF Over
    <2>3. CASE x # d /\ (Look(x) \/ Judge(x))
      <3>1. /\ UNCHANGED <<lock, socket, seen>>
            /\ \E p \in {"read", "refused"} :
                 \A y \in Daemons : pc'[y] = IF y = x THEN p ELSE pc[y]
        BY <1>1, <2>3 DEF Look, Judge, TypeOK
      <3> QED
        BY <3>1, <2>3 DEF Over
    <2>4. CASE x # d /\ Read(x)
      <3>1. /\ UNCHANGED <<lock, socket>>
            /\ \A y \in Daemons : pc'[y] = IF y = x THEN "judge" ELSE pc[y]
            /\ \A y \in Daemons : seen'[y] = IF y = x THEN lock ELSE seen[y]
        BY <1>1, <2>4 DEF Read, TypeOK
      <3> QED
        BY <3>1, <2>4 DEF Over
    <2>5. x # d => pc[x] \in Outside
      OBVIOUS
    <2> QED
      BY <1>3, <2>1, <2>2, <2>3, <2>4, <2>5 DEF Acquire, Remove, Create,
         Write, Serve, ClearSocket, Bind, Close, Release, Unlock, Stop, Over
  <1> QED
    BY <1>2, <1>3 DEF Next

(* A daemon that is found alone, with both files its own, is kept.         *)
LEMMA KeptStart ==
    ASSUME TypeOK', NEW d \in Daemons,
           pc'[d] = "serve", socket' = d,
           lock' = [by |-> d, written |-> TRUE],
           \A x \in Daemons \ {d} : ~Alive(x)'
    PROVE  Kept(d)'
  <1>1. \A x \in Daemons \ {d} : pc'[x] \in {"new"} \cup Over
    BY DEF TypeOK, Alive
  <1> QED
    BY <1>1 DEF Kept, Outside, Over

LEMMA SoleInvStep ==
    ASSUME TypeOK, TypeOK', sole \subseteq Serving, SoleInv,
           [EnsureNext]_allVars
    PROVE  SoleInv' /\ (sole \subseteq Serving)'
  <1>1. [Next]_vars
    BY EnsureStepIsLockStep
  <1>2. CASE NoteSole
    <2>1. (sole \subseteq Serving)'
      BY <1>2 DEF NoteSole, Serving
    <2>2. ASSUME NEW d \in sole'
          PROVE  Kept(d)'
      <3>1. d \in Daemons /\ pc'[d] = "serve"
        BY <1>2, <2>2 DEF NoteSole
      <3>2. CASE d \in sole
        BY <1>1, <3>1, <3>2, KeptStep DEF SoleInv
      <3>3. CASE d \notin sole
        BY <1>2, <2>2, <3>1, <3>3, KeptStart DEF NoteSole
      <3> QED
        BY <3>2, <3>3
    <2> QED
      BY <2>1, <2>2 DEF SoleInv
  <1>3. CASE UNCHANGED <<vars, sole>>
    BY <1>3 DEF vars, SoleInv, Serving, Kept
  <1>4. NoteSole \/ UNCHANGED <<vars, sole>>
    <2> USE DEF history
    <2>1. CASE UNCHANGED allVars
      BY <2>1 DEF allVars
    <2>2. ASSUME NEW e \in Ensurers, Call(e) \/ Ensure(e)
          PROVE  NoteSole \/ UNCHANGED <<vars, sole>>
      BY <2>2 DEF Call, Ensure, Check, Launch, Probe, Retry
    <2>3. ASSUME NEW d \in Daemons,
                 Engage(d) \/ Disengage(d) \/ GoOn(d) \/ StartByHand(d)
                   \/ Leave(d)
          PROVE  NoteSole \/ UNCHANGED <<vars, sole>>
      BY <2>3 DEF Engage, Disengage, GoOn, StartByHand, Leave
    <2> QED
      BY <2>1, <2>2, <2>3 DEF EnsureNext
  <1> QED
    BY <1>2, <1>3, <1>4

(* A daemon that once served as the only one keeps its lock and its socket *)
(* until it ends (SoleIsKept), with any number of daemons started beside   *)
(* it at any time, overlapping or not.                                     *)
THEOREM TheOnlyOneStays == EnsureSpec => []SoleIsKept
  <1> DEFINE Inv == sole \subseteq Serving /\ SoleInv
  <1>1. EnsureInit => Inv
    BY DEF EnsureInit, SoleInv
  <1>2. TypeOK /\ TypeOK' /\ Inv /\ [EnsureNext]_allVars => Inv'
    BY SoleInvStep
  <1>3. Inv => SoleIsKept
    BY DEF SoleInv, Kept, SoleIsKept
  <1> QED
    BY <1>1, <1>2, <1>3, EnsureTyping, PTL DEF EnsureSpec

-----------------------------------------------------------------------------
(* Types, and how the tries are counted.                                   *)
ReadyTyping ==
    /\ at \in [Ensurers -> {"idle", "unlaunched"} \cup Calling \cup Returned]
    /\ tries \in [Ensurers -> 0..Attempts]
    /\ busy \subseteq Serving
    /\ disturbed \subseteq Ensurers
    /\ \A e \in Ensurers :
         /\ at[e] \in {"idle", "check", "launch"} => tries[e] = 0
         /\ at[e] = "probe" => tries[e] < Attempts

(* How one step of DaemonLock moves the daemon that takes it.              *)
LEMMA OneMoves ==
    ASSUME TypeOK, NEW d \in Daemons,
           Start(d) \/ Die(d) \/ Acquire(d) \/ Serve(d) \/ Stop(d)
    PROVE  \A x \in Daemons : x # d => pc'[x] = pc[x]
  BY DEF TypeOK, Goto, Start, Die, Stop, Acquire, Look, Read, Judge, Remove,
     Create, Write, Serve, ClearSocket, Bind, Close, Release, Unlock

(* Only Stop and Die move a daemon that serves.                            *)
LEMMA ServersStay ==
    ASSUME TypeOK, NEW d \in Daemons, Start(d) \/ Acquire(d) \/ Serve(d)
    PROVE  pc[d] # "serve" /\ Serving \subseteq Serving'
  <1>1. pc[d] # "serve"
    BY DEF Start, Acquire, Look, Read, Judge, Remove, Create, Write, Serve,
       ClearSocket, Bind, Close, Release, Unlock
  <1> QED
    BY <1>1, OneMoves DEF Serving

LEMMA ReadyTypingStep ==
    ASSUME TypeOK, TypeOK', ReadyTyping, [EnsureNext]_allVars
    PROVE  ReadyTyping'
  <1> USE EnsureAssumption DEF ReadyTyping
  <1>1. CASE UNCHANGED allVars
    BY <1>1 DEF allVars, vars, ensuring, history, Serving
  <1>2. ASSUME NEW e \in Ensurers, Call(e) \/ Check(e) \/ Probe(e) \/ Retry(e)
        PROVE  ReadyTyping'
    <2>1. UNCHANGED <<pc, busy>>
      BY <1>2 DEF Call, Check, Probe, Retry, vars
    <2>2. (busy \subseteq Serving)'
      BY <2>1 DEF Serving
    <2>3. CASE Call(e)
      <3>1. \A x \in Ensurers : at'[x] = IF x = e THEN "check" ELSE at[x]
        BY <2>3 DEF Call, Move
      <3> QED
        BY <2>2, <2>3, <3>1 DEF Call, Move, Calling
    <2>4. CASE Check(e)
      <3>1. \A x \in Ensurers :
               at'[x] = IF x = e THEN IF Answers THEN "ready" ELSE "launch"
                        ELSE at[x]
        BY <2>4 DEF Check, Move
      <3> QED
        BY <2>2, <2>4, <3>1 DEF Check, Move, Calling, Returned, history
    <2>5. CASE Probe(e) /\ Answers
      <3>1. \A x \in Ensurers : at'[x] = IF x = e THEN "ready" ELSE at[x]
        BY <2>5 DEF Probe, Move
      <3>2. 0 \in 0..Attempts
        BY DEF EnsureAssumption
      <3> QED
        BY <2>2, <2>5, <3>1, <3>2 DEF Probe, Move, Returned, history
    <2>6. CASE Probe(e) /\ ~Answers
      <3>1. \A x \in Ensurers : at'[x] = IF x = e THEN "wait" ELSE at[x]
        BY <2>6 DEF Probe, Move
      <3>2. tries[e] + 1 \in 0..Attempts
        BY <2>6 DEF EnsureAssumption, Probe
      <3> QED
        BY <2>2, <2>6, <3>1, <3>2 DEF Probe, Move, Calling, history
    <2>7. CASE Retry(e)
      <3>1. \A x \in Ensurers :
               at'[x] = IF x = e
                        THEN IF tries[e] < Attempts THEN "probe" ELSE "failed"
                        ELSE at[x]
        BY <2>7 DEF Retry, Move
      <3> QED
        BY <2>2, <2>7, <3>1 DEF Retry, Move, Calling, Returned, history
    <2> QED
      BY <1>2, <2>3, <2>4, <2>5, <2>6, <2>7
  <1>3. ASSUME NEW e \in Ensurers, Launch(e)
        PROVE  ReadyTyping'
    <2>1. \E p \in {"probe", "unlaunched"} :
            /\ at' = [at EXCEPT ![e] = p]
            /\ \A x \in Ensurers : at'[x] = IF x = e THEN p ELSE at[x]
      BY <1>3 DEF Launch, Move
    <2>2. tries[e] = 0 /\ UNCHANGED <<tries, busy, disturbed>>
      BY <1>3 DEF Launch, history
    <2>3. (busy \subseteq Serving)'
      BY <1>3, <2>2, ServersStay, EnsureAssumption
         DEF Launch, vars, Serving
    <2> QED
      BY <2>1, <2>2, <2>3 DEF Calling, EnsureAssumption
  <1>4. ASSUME NEW d \in Daemons,
               Engage(d) \/ Disengage(d) \/ GoOn(d) \/ StartByHand(d)
                 \/ Leave(d)
        PROVE  ReadyTyping'
    <2>1. UNCHANGED <<at, tries>> /\ (disturbed \subseteq Ensurers)'
      BY <1>4 DEF Engage, Disengage, GoOn, StartByHand, Leave, Disturb,
         Callers, ensuring, history
    <2>2. (busy \subseteq Serving)'
      <3>1. CASE Engage(d) \/ Disengage(d)
        BY <3>1 DEF Engage, Disengage, Serving, vars
      <3>2. CASE GoOn(d) \/ StartByHand(d)
        BY <3>2, ServersStay DEF GoOn, StartByHand, ensuring
      <3>3. CASE Leave(d)
        BY <3>3, OneMoves DEF Leave, Serving
      <3> QED
        BY <1>4, <3>1, <3>2, <3>3
    <2> QED
      BY <2>1, <2>2
  <1> QED
    BY <1>1, <1>2, <1>3, <1>4 DEF EnsureNext, Ensure

-----------------------------------------------------------------------------
LEMMA AuthorsStep ==
    ASSUME TypeOK, AuthorsWentOn, [Next]_vars
    PROVE  AuthorsWentOn'
  <1> USE DEF AuthorsWentOn
  <1>1. CASE UNCHANGED vars
    BY <1>1 DEF vars
  <1>2. ASSUME NEW d \in Daemons,
               Start(d) \/ Die(d) \/ Acquire(d) \/ Serve(d) \/ Stop(d)
        PROVE  AuthorsWentOn'
    <2>1. \A f \in LockFiles : f.by \in Daemons /\ f # NoFile
      BY FilesExist DEF LockFiles
    <2>2. \A x \in Daemons : pc[x] \notin Before => pc'[x] \notin Before
      <3>1. pc[d] \notin Before => pc'[d] \notin Before
        BY <1>2 DEF TypeOK, Before, Goto, Start, Die, Stop, Acquire, Look,
           Read, Judge, Remove, Create, Write, Serve, ClearSocket, Bind,
           Close, Release, Unlock
      <3> QED
        BY <1>2, <3>1, OneMoves
    <2>3. \/ lock' \in {lock, NoFile}
          \/ lock' = [by |-> d, written |-> FALSE] /\ pc'[d] = "write"
          \/ lock \in LockFiles /\ lock' = [lock EXCEPT !.written = TRUE]
      BY <1>2, <2>1 DEF TypeOK, Goto, Start, Die, Stop, Acquire, Look, Read,
         Judge, Remove, Create, Write, Serve, ClearSocket, Bind, Close,
         Release, Unlock
    <2>4. \A x \in Daemons : seen'[x] \in {seen[x], lock}
      BY <1>2 DEF TypeOK, Start, Die, Stop, Acquire, Look, Read, Judge,
         Remove, Create, Write, Serve, ClearSocket, Bind, Close, Release,
         Unlock
    <2>5. lock' # NoFile => pc'[lock'.by] \notin Before
      <3>1. CASE lock' = [by |-> d, written |-> FALSE] /\ pc'[d] = "write"
        BY <3>1 DEF Before
      <3>2. CASE lock \in LockFiles /\ lock' = [lock EXCEPT !.written = TRUE]
        <4>1. lock'.by = lock.by
          BY <3>2 DEF LockFiles
        <4> QED
          BY <2>1, <2>2, <3>2, <4>1
      <3> QED
        BY <2>1, <2>2, <2>3, <3>1, <3>2 DEF TypeOK
    <2>6. ASSUME NEW x \in Daemons, seen'[x] # NoFile
          PROVE  pc'[seen'[x].by] \notin Before
      BY <2>1, <2>2, <2>4, <2>6 DEF TypeOK
    <2>7. ASSUME NEW x \in Daemons, pc'[x] = "judge"
          PROVE  seen'[x] # NoFile
      <3>1. CASE Read(d)
        BY <2>7, <3>1, OneMoves DEF Read, Goto, TypeOK, Acquire
      <3>2. CASE ~Read(d)
        <4>1. UNCHANGED seen /\ pc'[d] # "judge"
          BY <1>2, <3>2 DEF TypeOK, Goto, Start, Die, Stop, Acquire, Look,
             Judge, Remove, Create, Write, Serve, ClearSocket, Bind, Close,
             Release, Unlock
        <4> QED
          BY <1>2, <2>7, <4>1, OneMoves
      <3> QED
        BY <3>1, <3>2
    <2> QED
      BY <2>5, <2>6, <2>7
  <1> QED
    BY <1>1, <1>2 DEF Next

(* A daemon between ClearSocket and Bind holds the lock alone.             *)
LEMMA PathStep ==
    ASSUME TypeOK, ~raced => LockInv /\ PathStaysClear, [Next]_vars, ~raced'
    PROVE  PathStaysClear'
  <1> USE DEF PathStaysClear
  <1>1. CASE UNCHANGED vars
    BY <1>1 DEF vars
  <1>2. ASSUME NEW d \in Daemons,
               Start(d) \/ Die(d) \/ Acquire(d) \/ Serve(d) \/ Stop(d),
               NEW x \in Daemons, pc'[x] = "bind"
        PROVE  socket' = NoSocket
    <2>1. ~raced
      BY <1>2 DEF Start, Die, Stop, Acquire, Look, Read, Judge, Remove,
         Create, Write, Serve, ClearSocket, Bind, Close, Release, Unlock
    <2>2. CASE ClearSocket(d)
      BY <2>2 DEF ClearSocket
    <2>3. CASE ~ClearSocket(d)
      <3>1. pc'[d] # "bind"
        BY <1>2, <2>3 DEF TypeOK, Goto, Start, Die, Stop, Acquire, Look,
           Read, Judge, Remove, Create, Write, Serve, Bind, Close, Release,
           Unlock
      <3>2. x # d /\ pc[x] = "bind" /\ socket = NoSocket
        BY <1>2, <2>1, <3>1, OneMoves
      <3>3. pc[d] \notin Holding
        BY <2>1, <3>2 DEF LockInv, HoldersAreNamed, Holding, Owning
      <3>4. ~Serve(d)
        BY <3>3 DEF Serve, ClearSocket, Bind, Close, Release, Unlock,
           Holding, Owning, Releasing
      <3> QED
        BY <1>2, <3>2, <3>4 DEF Start, Die, Stop, Acquire, Look, Read,
           Judge, Remove, Create, Write
    <2> QED
      BY <2>2, <2>3
  <1> QED
    BY <1>1, <1>2 DEF Next

-----------------------------------------------------------------------------
(* Steps that disturb nobody.                                              *)
Gentle(d) ==
    /\ Start(d) \/ Acquire(d) \/ Serve(d)
    /\ pc'[d] # "failed"

(* Who prevails is not stopped by the others, who only take the socket     *)
(* to serve at it themselves.                                              *)
LEMMA PrevailingStays ==
    ASSUME TypeOK, Calm, Prevailing, NEW d \in Daemons, Gentle(d)
    PROVE  Prevailing'
  <1>1. pc[d] \notin {"serve", "close", "unlink"}
    BY ServersStay DEF Calm, Gentle
  <1>2. CASE pc[d] = "own"
    <2>1. pc'[d] = "bind"
      BY <1>2 DEF Gentle, Start, Acquire, Look, Read, Judge, Remove, Create,
         Write, Serve, ClearSocket, Bind, Close, Release, Unlock, Goto, TypeOK
    <2> QED
      BY <2>1 DEF Prevailing
  <1>3. CASE pc[d] = "bind"
    <2>1. Bind(d)
      BY <1>3 DEF Gentle, Start, Acquire, Look, Read, Judge, Remove, Create,
         Write, Serve, ClearSocket, Close, Release, Unlock
    <2>2. CASE socket = NoSocket
      BY <2>1, <2>2 DEF Bind, Goto, TypeOK, Prevailing, Serving
    <2>3. CASE socket # NoSocket
      <3>1. socket \in Serving /\ socket' = socket
        BY <1>3, <2>1, <2>3 DEF Calm, Bind
      <3> QED
        BY <3>1, ServersStay DEF Gentle, Prevailing
    <2> QED
      BY <2>2, <2>3
  <1>4. CASE pc[d] = "write"
    <2>1. pc'[d] = "own"
      BY <1>4 DEF Gentle, Start, Acquire, Look, Read, Judge, Remove, Create,
         Write, Serve, ClearSocket, Bind, Close, Release, Unlock, Goto, TypeOK
    <2> QED
      BY <2>1 DEF Prevailing
  <1>5. CASE pc[d] \notin {"own", "bind", "write"}
    <2>1. socket' = socket
      BY <1>1, <1>5 DEF Gentle, Start, Acquire, Look, Read, Judge, Remove,
         Create, Write, Serve, ClearSocket, Bind, Close, Release, Unlock
    <2>2. CASE socket \in Serving
      BY <2>1, <2>2, ServersStay DEF Gentle, Prevailing
    <2>3. ASSUME NEW x \in Daemons, pc[x] \in {"write", "own", "bind"}
          PROVE  Prevailing'
      BY <1>5, <2>3, OneMoves DEF Gentle, Prevailing
    <2> QED
      BY <2>2, <2>3 DEF Prevailing
  <1> QED
    BY <1>2, <1>3, <1>4, <1>5

(* Until somebody prevails the lock belongs to nobody alive: of those that *)
(* examine it one removes what is there, and one creates what is not.      *)
LEMMA ExaminingLeadsOn ==
    ASSUME TypeOK, AuthorsWentOn, Calm, ~Prevailing, Examining,
           NEW d \in Daemons, Gentle(d)
    PROVE  Prevailing' \/ Examining'
  <1>1. \A x \in Daemons : pc[x] \in Before \cup Over
    BY DEF TypeOK, Calm, Prevailing, Before, Acquiring, Owning, Releasing,
           Over
  <1>2. \A x \in Daemons : seen[x] # NoFile => ~Alive(seen[x].by)
    <2>1. \A f \in LockFiles : f.by \in Daemons
      BY DEF LockFiles
    <2> QED
      BY <1>1, <2>1 DEF AuthorsWentOn, TypeOK, Alive, Before, Acquiring,
         Owning, Releasing, Over
  <1>3. ASSUME lock' = lock,
               pc[d] \notin IF lock = NoFile THEN {"look", "create"}
                           ELSE {"look", "read", "judge", "remove"}
        PROVE  Examining'
    BY <1>3, OneMoves DEF Examining, Gentle
  <1>4. CASE Start(d)
    <2>1. pc'[d] = "look"
      BY <1>4 DEF Start, Goto, TypeOK
    <2> QED
      BY <2>1 DEF Examining
  <1>5. CASE Look(d)
    <2>1. lock' = lock /\ pc'[d] = IF lock = NoFile THEN "create" ELSE "read"
      BY <1>5 DEF Look, Goto, TypeOK
    <2> QED
      BY <2>1 DEF Examining
  <1>6. CASE Read(d)
    <2>1. /\ pc[d] = "read" /\ lock' = lock
          /\ lock # NoFile => pc'[d] \in {"judge", "remove"}
      BY <1>6 DEF Read, Goto, TypeOK
    <2>2. CASE lock = NoFile
      BY <1>3, <2>1, <2>2 DEF Examining
    <2>3. CASE lock # NoFile
      BY <2>1, <2>3 DEF Examining
    <2> QED
      BY <2>2, <2>3
  <1>7. CASE Judge(d)
    <2>1. lock' = lock /\ pc[d] = "judge" /\ pc'[d] = "remove"
      BY <1>2, <1>7 DEF Judge, Goto, TypeOK, AuthorsWentOn
    <2> QED
      BY <1>3, <2>1 DEF Examining
  <1>8. CASE Remove(d)
    <2>1. /\ lock' = NoFile /\ pc[d] = "remove"
          /\ lock # NoFile => pc'[d] = "create"
      BY <1>8 DEF Remove, Goto, TypeOK
    <2> QED
      BY <1>3, <2>1 DEF Examining
  <1>9. CASE Create(d)
    <2>1. /\ pc[d] = "create"
          /\ lock = NoFile => pc'[d] = "write"
          /\ lock # NoFile => lock' = lock
      BY <1>9 DEF Create, Goto, TypeOK
    <2> QED
      BY <1>3, <2>1 DEF Examining, Prevailing
  <1>10. ~Write(d) /\ ~Serve(d)
    BY <1>1 DEF Write, Serve, ClearSocket, Bind, Close, Release, Unlock,
       Before, Over
  <1> QED
    BY <1>4, <1>5, <1>6, <1>7, <1>8, <1>9, <1>10 DEF Gentle, Acquire

LEMMA CalmStep ==
    ASSUME TypeOK, TypeOK', Calm, NEW d \in Daemons, Gentle(d), busy' = {}
    PROVE  Calm'
  <1>1. pc'[d] \notin {"close", "unlink"}
    BY DEF Calm, Gentle, Start, Acquire, Look, Read, Judge, Remove, Create,
       Write, Serve, ClearSocket, Bind, Close, Release, Unlock, Goto, TypeOK
  <1>2. ASSUME NEW x \in Daemons, pc'[x] \in {"serve", "release", "unlock"}
        PROVE  Prevailing'
    <2>1. CASE Prevailing
      BY <2>1, PrevailingStays
    <2>2. CASE ~Prevailing
      <3>1. x = d /\ pc[d] \notin {"write", "own", "bind", "serve",
                                   "release", "unlock", "close", "unlink"}
        BY <1>2, <2>2, OneMoves DEF Calm, Prevailing, Gentle
      <3>2. pc'[d] \notin {"serve", "release", "unlock"}
        BY <3>1 DEF Gentle, Start, Acquire, Look, Read, Judge, Remove,
           Create, Write, Serve, ClearSocket, Bind, Close, Release, Unlock,
           Goto, TypeOK
      <3> QED
        BY <1>2, <3>1, <3>2
    <2> QED
      BY <2>1, <2>2
  <1>3. ASSUME NEW x \in Daemons, pc'[x] = "bind"
        PROVE  socket' \in Serving' \cup {NoSocket}
    <2>1. CASE ClearSocket(d)
      BY <2>1 DEF ClearSocket
    <2>2. CASE Bind(d)
      <3>1. CASE socket = NoSocket
        BY <2>2, <3>1 DEF Bind, Goto, TypeOK, Serving
      <3>2. CASE socket # NoSocket
        BY <2>2, <3>2, ServersStay DEF Bind, Calm, Gentle
      <3> QED
        BY <3>1, <3>2
    <2>3. CASE ~ClearSocket(d) /\ ~Bind(d)
      <3>1. pc'[d] # "bind" /\ socket' \in {socket, NoSocket}
        BY <2>3 DEF Gentle, Start, Acquire, Look, Read, Judge, Remove,
           Create, Write, Serve, Close, Release, Unlock, Goto, TypeOK
      <3> QED
        BY <1>3, <3>1, OneMoves, ServersStay DEF Calm, Gentle
    <2> QED
      BY <2>1, <2>2, <2>3
  <1> QED
    BY <1>1, <1>2, <1>3, OneMoves DEF Calm, Gentle

(* When all is well an ensurer may count on it.                            *)
LEMMA CalmAtFirst ==
    ASSUME ~raced => PathStaysClear, AllWell
    PROVE  Calm
  <1>1. ASSUME NEW d \in Daemons, pc[d] = "bind"
        PROVE  socket \in Serving \cup {NoSocket}
    <2>1. ~raced
      BY <1>1 DEF AllWell, Settled, StartingUp
    <2> QED
      BY <1>1, <2>1 DEF PathStaysClear
  <1>2. ASSUME NEW d \in Daemons, pc[d] \in {"serve", "release", "unlock"}
        PROVE  Prevailing
    BY <1>2 DEF AllWell, Stopping, Prevailing, Serving
  <1> QED
    BY <1>1, <1>2 DEF Calm, AllWell, Stopping

(* Promises to ensurers that do not move survive every gentle step.        *)
LEMMA PromisesAreKept ==
    ASSUME TypeOK, TypeOK', AuthorsWentOn, NEW d \in Daemons, Gentle(d),
           UNCHANGED busy, NEW e \in Ensurers, Promised(e),
           UNCHANGED <<at[e], tries[e]>>
    PROVE  Promised(e)'
  <1>1. Calm'
    BY CalmStep DEF Promised, Calm
  <1>2. Prevailing \/ Examining => Prevailing' \/ Examining'
    BY PrevailingStays, ExaminingLeadsOn DEF Promised
  <1> QED
    BY <1>1, <1>2 DEF Promised

LEMMA PromisesStep ==
    ASSUME TypeOK, TypeOK', ReadyTyping, ReadyInv, [EnsureNext]_allVars
    PROVE  \A e \in Callers' \ disturbed' : Promised(e)'
  <1> USE DEF ReadyInv
  <1>1. UNCHANGED <<vars, busy>> => (Calm' <=> Calm)
                    /\ (Prevailing' <=> Prevailing)
                    /\ (Examining' <=> Examining)
    BY DEF vars, Calm, Prevailing, Examining, Serving
  <1>2. CASE UNCHANGED allVars
    BY <1>1, <1>2 DEF allVars, ensuring, history, Callers, Promised
  <1>3. ASSUME NEW e \in Ensurers, Call(e)
        PROVE  \A x \in Callers' \ disturbed' : Promised(x)'
    <2>1. /\ UNCHANGED <<vars, tries, busy>>
          /\ \A x \in Ensurers : at'[x] = IF x = e THEN "check" ELSE at[x]
      BY <1>3 DEF Call, Move, ReadyTyping
    <2>2. ASSUME NEW x \in Callers' \ disturbed', x # e
          PROVE  Promised(x)'
      <3>1. x \in Callers \ disturbed /\ at'[x] = at[x]
        BY <1>3, <2>1, <2>2 DEF Call, Callers
      <3> QED
        BY <1>1, <2>1, <3>1 DEF Promised
    <2>3. ASSUME e \notin disturbed'
          PROVE  Promised(e)'
      <3>1. AllWell
        BY <1>3, <2>3 DEF Call
      <3> QED
        BY <1>1, <2>1, <3>1, CalmAtFirst DEF Promised
    <2> QED
      BY <2>2, <2>3
  <1>4. ASSUME NEW e \in Ensurers, Check(e) \/ Retry(e)
        PROVE  \A x \in Callers' \ disturbed' : Promised(x)'
    <2>1. /\ UNCHANGED <<vars, tries, busy, disturbed>>
          /\ \A x \in Ensurers : x # e => at'[x] = at[x]
          /\ \/ at[e] = "check" /\ at'[e] \in {"ready", "launch"}
             \/ at[e] = "wait" /\ at'[e] \in {"probe", "failed"}
      BY <1>4 DEF Check, Retry, Move, ReadyTyping, history
    <2>2. ASSUME NEW x \in Callers' \ disturbed'
          PROVE  Promised(x)'
      <3>1. x \in Callers \ disturbed
        BY <2>1, <2>2 DEF Callers, Calling
      <3> QED
        BY <1>1, <2>1, <3>1 DEF Promised, Callers
    <2> QED
      BY <2>2
  <1>5. ASSUME NEW e \in Ensurers, Probe(e)
        PROVE  \A x \in Callers' \ disturbed' : Promised(x)'
    <2>1. /\ UNCHANGED <<vars, busy, disturbed>> /\ at[e] = "probe"
          /\ \A x \in Ensurers :
                x # e => at'[x] = at[x] /\ tries'[x] = tries[x]
          /\ \/ at'[e] = "ready"
             \/ ~Answers /\ at'[e] = "wait" /\ tries'[e] = tries[e] + 1
      BY <1>5 DEF Probe, Move, ReadyTyping, history
    <2>2. ASSUME NEW x \in Callers' \ disturbed', x # e
          PROVE  Promised(x)'
      <3>1. x \in Callers \ disturbed
        BY <2>1, <2>2 DEF Callers
      <3> QED
        BY <1>1, <2>1, <2>2, <3>1 DEF Promised, Callers
    <2>3. ASSUME e \in Callers' \ disturbed'
          PROVE  Promised(e)'
      <3>1. Promised(e)
        BY <2>1, <2>3 DEF Callers, Calling
      <3>2. ~Answers /\ at'[e] = "wait" /\ tries'[e] = tries[e] + 1
        BY <2>1, <2>3 DEF Callers, Calling
      <3>3. ~Settled
        <4>1. socket \notin Serving
          BY <3>1, <3>2 DEF Promised, Calm, Answers
        <4> QED
          BY <2>1, <3>1, <4>1 DEF Promised, Prevailing, Examining, Settled,
             StartingUp, Acquiring
      <3>4. tries[e] + 1 # Attempts
        BY <1>5, <3>3 DEF Probe
      <3>5. tries'[e] < Attempts
        BY <2>1, <3>2, <3>4, EnsureAssumption DEF ReadyTyping
      <3> QED
        BY <1>1, <2>1, <3>1, <3>2, <3>5 DEF Promised
    <2> QED
      BY <2>2, <2>3
  <1>6. ASSUME NEW e \in Ensurers, Launch(e)
        PROVE  \A x \in Callers' \ disturbed' : Promised(x)'
    <2>1. /\ UNCHANGED <<tries, busy, disturbed>> /\ at[e] = "launch"
          /\ \A x \in Ensurers : x # e => at'[x] = at[x]
          /\ \/ Start(e) /\ at'[e] = "probe"
             \/ UNCHANGED vars /\ at'[e] = "unlaunched"
      BY <1>6 DEF Launch, Move, ReadyTyping, history
    <2>2. CASE UNCHANGED vars /\ at'[e] = "unlaunched"
      <3>1. ASSUME NEW x \in Callers' \ disturbed'
            PROVE  x \in Callers \ disturbed /\ x # e
        BY <2>1, <2>2, <3>1 DEF Callers, Calling, Returned
      <3> QED
        BY <1>1, <2>1, <2>2, <3>1 DEF Promised, Callers
    <2>3. CASE Start(e) /\ at'[e] = "probe"
      <3>1. Gentle(e) /\ pc'[e] = "look"
        BY <2>3, EnsureAssumption DEF Gentle, Start, Goto, TypeOK
      <3>2. ASSUME NEW x \in Callers' \ disturbed'
            PROVE  x \in Callers \ disturbed
        BY <2>1, <3>2 DEF Callers, Calling
      <3>3. ASSUME NEW x \in Callers' \ disturbed', x # e
            PROVE  Promised(x)'
        BY <2>1, <3>1, <3>2, <3>3, PromisesAreKept, EnsureAssumption
           DEF Callers
      <3>4. ASSUME e \in Callers' \ disturbed'
            PROVE  Promised(e)'
        <4>1. Calm /\ busy' = {}
          BY <2>1, <3>2, <3>4 DEF Promised, Calm
        <4>2. Calm'
          BY <3>1, <4>1, CalmStep, EnsureAssumption
        <4>3. Examining'
          BY <3>1, EnsureAssumption DEF Examining
        <4> QED
          BY <2>3, <4>2, <4>3 DEF Promised
      <3> QED
        BY <3>3, <3>4
    <2> QED
      BY <2>1, <2>2, <2>3
  <1>7. ASSUME NEW d \in Daemons, Engage(d) \/ Leave(d)
        PROVE  \A x \in Callers' \ disturbed' : Promised(x)'
    BY <1>7 DEF Engage, Leave, Disturb, Callers
  <1>8. ASSUME NEW d \in Daemons, Disengage(d)
        PROVE  \A x \in Callers' \ disturbed' : Promised(x)'
    <2>1. Callers' = Callers /\ disturbed' = disturbed /\ busy # {}
      BY <1>8 DEF Disengage, Callers, history
    <2> QED
      BY <2>1 DEF Promised, Calm
  <1>9. ASSUME NEW d \in Daemons, GoOn(d) \/ StartByHand(d)
        PROVE  \A x \in Callers' \ disturbed' : Promised(x)'
    <2>1. UNCHANGED ensuring
      BY <1>9 DEF GoOn, StartByHand
    <2>2. CASE disturbed' = disturbed \cup Callers
      BY <2>1, <2>2 DEF Callers, ensuring
    <2>3. CASE disturbed' # disturbed \cup Callers
      <3>1. Gentle(d) /\ disturbed' = disturbed
        BY <1>9, <2>3 DEF GoOn, StartByHand, Disturb, Gentle, Start, Goto,
           TypeOK
      <3> QED
        BY <2>1, <3>1, PromisesAreKept DEF ensuring, Callers
    <2> QED
      BY <2>2, <2>3
  <1> QED
    BY <1>2, <1>3, <1>4, <1>5, <1>6, <1>7, <1>8, <1>9
       DEF EnsureNext, Ensure

-----------------------------------------------------------------------------
(* Where an ensurer fails, it was disturbed.                               *)
LEMMA FailureStep ==
    ASSUME ReadyTyping, ReadyInv, ReadyUnlessDisturbed, [EnsureNext]_allVars
    PROVE  ReadyUnlessDisturbed'
  <1> USE DEF ReadyUnlessDisturbed, ReadyTyping, Move
  <1>1. CASE UNCHANGED allVars
    BY <1>1 DEF allVars, ensuring, history
  <1>2. ASSUME NEW e \in Ensurers, Call(e) \/ Check(e) \/ Launch(e) \/ Probe(e)
        PROVE  ReadyUnlessDisturbed'
    <2>1. /\ disturbed \subseteq disturbed' /\ at'[e] # "failed"
          /\ \A x \in Ensurers : x # e => at'[x] = at[x]
      BY <1>2 DEF Call, Check, Launch, Probe, history
    <2> QED
      BY <2>1
  <1>3. ASSUME NEW e \in Ensurers, Retry(e)
        PROVE  ReadyUnlessDisturbed'
    <2>1. /\ disturbed' = disturbed /\ at[e] = "wait"
          /\ \A x \in Ensurers : x # e => at'[x] = at[x]
          /\ at'[e] = "failed" => ~(tries[e] < Attempts)
      BY <1>3 DEF Retry, history
    <2>2. at'[e] = "failed" => e \in disturbed
      BY <2>1 DEF ReadyInv, Promised, Callers, Calling
    <2> QED
      BY <2>1, <2>2
  <1>4. ASSUME NEW d \in Daemons,
               Engage(d) \/ Disengage(d) \/ GoOn(d) \/ StartByHand(d)
                 \/ Leave(d)
        PROVE  ReadyUnlessDisturbed'
    BY <1>4 DEF Engage, Disengage, GoOn, StartByHand, Leave, Disturb,
       ensuring, history
  <1> QED
    BY <1>1, <1>2, <1>3, <1>4 DEF EnsureNext, Ensure

LEMMA ReadyInvStep ==
    ASSUME TypeOK, TypeOK', ReadyTyping, ReadyInv, [EnsureNext]_allVars
    PROVE  ReadyInv'
  <1>1. [Next]_vars
    BY EnsureStepIsLockStep
  <1>2. ~raced' => ~raced
    BY <1>1 DEF Next, vars, Start, Die, Stop, Acquire, Look, Read, Judge,
       Remove, Create, Write, Serve, ClearSocket, Bind, Close, Release, Unlock
  <1>3. AuthorsWentOn'
    BY <1>1, AuthorsStep DEF ReadyInv
  <1>4. ~raced' => LockInv' /\ PathStaysClear'
    BY <1>1, <1>2, LockInvStep, PathStep DEF ReadyInv
  <1> QED
    BY <1>3, <1>4, PromisesStep DEF ReadyInv

(* Ensure fails only for an ensurer that a daemon's end, slowness or       *)
(* failure to write disturbed (ReadyUnlessDisturbed): whatever else starts *)
(* at the same time and whatever the dead left behind, a daemon answers    *)
(* before the last try.                                                    *)
THEOREM EnsureSucceedsUndisturbed == EnsureSpec => []ReadyUnlessDisturbed
  <1> DEFINE Inv == ReadyTyping /\ ReadyInv /\ ReadyUnlessDisturbed
  <1>1. EnsureInit => Inv
    <2> SUFFICES ASSUME EnsureInit
                 PROVE  Inv
      OBVIOUS
    <2>1. ReadyTyping
      BY EnsureAssumption DEF EnsureInit, ReadyTyping
    <2>2. AuthorsWentOn /\ PathStaysClear /\ LockInv
      BY LockInvInit DEF EnsureInit, Init, AuthorsWentOn, PathStaysClear
    <2>3. ReadyUnlessDisturbed /\ Callers = {}
      BY DEF EnsureInit, ReadyUnlessDisturbed, Callers, Calling
    <2> QED
      BY <2>1, <2>2, <2>3 DEF ReadyInv
  <1>2. TypeOK /\ TypeOK' /\ Inv /\ [EnsureNext]_allVars => Inv'
    BY ReadyTypingStep, ReadyInvStep, FailureStep
  <1> QED
    BY <1>1, <1>2, EnsureTyping, PTL DEF EnsureSpec

(* The state of the ensurers keeps its types: no more tries than Attempts, *)
(* and only a daemon that serves is busy or counted as the only one.       *)
THEOREM EnsurersTyping == EnsureSpec => []EnsureTypeOK
  <1> DEFINE Inv == ReadyTyping /\ sole \subseteq Serving /\ SoleInv
  <1>1. EnsureInit => Inv
    BY EnsureAssumption DEF EnsureInit, ReadyTyping, SoleInv
  <1>2. TypeOK /\ TypeOK' /\ Inv /\ [EnsureNext]_allVars => Inv'
    BY ReadyTypingStep, SoleInvStep
  <1>3. Inv => EnsureTypeOK
    BY DEF ReadyTyping, EnsureTypeOK
  <1> QED
    BY <1>1, <1>2, <1>3, EnsureTyping, PTL DEF EnsureSpec

=============================================================================
