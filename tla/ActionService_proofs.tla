------------------------ MODULE ActionService_proofs ------------------------
(***************************************************************************)
(* Proofs about ActionService, for any number of connections, pids,        *)
(* incarnations, requests and revisions.                                   *)
(***************************************************************************)
EXTENDS ActionService, TLAPS

(* A KILL's handler holds its grant from ConsumeForce to its signal.       *)
InHand(c) == pc[c] \in {"validate", "signal"} /\ req[c].action = "kill"

(* A handler that is past RLock holds a request and an application.        *)
HandlerOK(c) ==
    /\ pc[c] = "requested" => req[c] \in Requests \cup {ListRequest}
    /\ pc[c] \in Dispatching =>
         /\ req[c] \in Requests
         /\ app[c] \in Applications
    /\ pc[c] \in {"clear", "wait", "record"} => req[c].action = "terminate"
    /\ pc[c] = "consume" => req[c].action = "kill"
    /\ InHand(c) => held[c] \in Grants

HandlersOK == \A c \in Clients : HandlerOK(c)

TypeInv == TypeOK /\ HandlersOK

-----------------------------------------------------------------------------
(* Type correctness.                                                       *)

LEMMA StaleType ==
    ASSUME NEW a \in Applications
    PROVE  Stale(a) \in Applications
BY DEF Stale, Applications

LEMMA DegradedType ==
    ASSUME NEW a \in Applications
    PROVE  Degraded(a) \in Applications
BY StaleType DEF Degraded, Applications

LEMMA MarkedType ==
    ASSUME NEW a \in Applications
    PROVE  Marked(a) \in Applications
BY StaleType DEF Marked, Applications

Kills == [grant : Grants, identity : Identities, client : Clients,
          seq : Sequence]

LEMMA KillType ==
    ASSUME NEW g \in Grants, NEW i \in Identities, NEW c \in Clients,
           NEW n \in Sequence
    PROVE  [grant |-> g, identity |-> i, client |-> c, seq |-> n] \in Kills
BY DEF Kills

LEMMA InitType == Init => TypeInv
BY BoundsAssumption
   DEF Init, TypeInv, TypeOK, HandlersOK, HandlerOK, InHand, Sequence,
       Dispatching

(* Answering leaves a well-formed idle handler.                            *)
LEMMA AnswerType ==
    ASSUME TypeInv, NEW c \in Clients, Answer(c)
    PROVE  /\ pc' \in [Clients -> {"idle", "requested"} \cup Dispatching]
           /\ req' \in [Clients -> Requests \cup {ListRequest, NoRequest}]
           /\ app' \in [Clients -> Applications \cup {NoApp}]
           /\ held' \in [Clients -> Grants \cup {NoGrant}]
           /\ HandlersOK'
BY DEF TypeInv, TypeOK, HandlersOK, HandlerOK, InHand, Answer, Dispatching

LEMMA GotoType ==
    ASSUME TypeInv, NEW c \in Clients, NEW where \in Dispatching,
           Goto(c, where), pc[c] \in Dispatching,
           where \in {"wait", "record"} => req[c].action = "terminate",
           where \notin {"clear", "consume"},
           pc[c] = "validate" \/ req[c].action = "terminate"
    PROVE  /\ pc' \in [Clients -> {"idle", "requested"} \cup Dispatching]
           /\ req' \in [Clients -> Requests \cup {ListRequest, NoRequest}]
           /\ app' \in [Clients -> Applications \cup {NoApp}]
           /\ held' \in [Clients -> Grants \cup {NoGrant}]
           /\ HandlersOK'
BY DEF TypeInv, TypeOK, HandlersOK, HandlerOK, InHand, Goto, Dispatching

LEMMA NextType == TypeInv /\ [Next]_vars => TypeInv'
<1> SUFFICES ASSUME TypeInv, [Next]_vars
             PROVE  TypeInv'
  OBVIOUS
<1> USE BoundsAssumption, NamesAssumption
<1>1. CASE Environment
  <2>1. table' \in [Pids -> Identities \cup {NoProcess}] /\ born' \in Nat
    <3>1. ASSUME NEW p \in Pids, Exit(p)
          PROVE  /\ table' \in [Pids -> Identities \cup {NoProcess}]
                 /\ born' \in Nat
      BY <3>1 DEF TypeInv, TypeOK, Exit
    <3>2. ASSUME NEW p \in Pids, NEW g \in Pids, Spawn(p, g)
          PROVE  /\ table' \in [Pids -> Identities \cup {NoProcess}]
                 /\ born' \in Nat
      BY <3>2 DEF TypeInv, TypeOK, Spawn, Identities, Incarnations
    <3>3. ASSUME NEW p \in Pids, NEW g \in Pids, Regroup(p, g)
          PROVE  /\ table' \in [Pids -> Identities \cup {NoProcess}]
                 /\ born' \in Nat
      <4>1. table[p] \in Identities
        BY <3>3 DEF TypeInv, TypeOK, Regroup, Live
      <4>2. [table[p] EXCEPT !.pgid = g] \in Identities
        BY <4>1 DEF Identities
      <4> QED
        BY <3>3, <4>2 DEF TypeInv, TypeOK, Regroup
    <3> QED
      BY <1>1, <3>1, <3>2, <3>3 DEF Environment
  <2> QED
    BY <1>1, <2>1 DEF TypeInv, TypeOK, HandlersOK, InHand, HandlerOK,
        Environment,
                      snapVars, runtimeVars, history
<1>2. CASE Rebuild
  <2>1. candidate' \subseteq Applications
    <3>1. ASSUME NEW p \in Live, NEW conf \in Confidences
          PROVE  Found(table[p], conf) \in Applications
      BY <3>1 DEF Found, Applications, Live, TypeInv, TypeOK
    <3>2. ASSUME NEW a \in apps
          PROVE  Degraded(a) \in Applications
      BY <3>2, DegradedType DEF TypeInv, TypeOK
    <3> QED
      BY <1>2, <3>1, <3>2 DEF Rebuild, TypeInv, TypeOK
  <2> QED
    BY <1>2, <2>1 DEF Rebuild, TypeInv, TypeOK, HandlersOK, InHand, HandlerOK,
                      procVars, snapVars, history
<1>3. CASE RequestLock
  BY <1>3 DEF RequestLock, TypeInv, TypeOK, HandlersOK, InHand, HandlerOK,
      procVars,
              snapVars, history
<1>4. CASE Replace
  BY <1>4 DEF Replace, Install, Unlock, Queued, TypeInv, TypeOK, HandlersOK,
      InHand,
              HandlerOK, procVars, history
<1>5. CASE MarkStale
  <2>1. ASSUME NEW a \in apps
        PROVE  Marked(a) \in Applications
    BY <2>1, MarkedType DEF TypeInv, TypeOK
  <2> QED
    BY <1>5, <2>1 DEF MarkStale, Install, Unlock, Queued, TypeInv, TypeOK,
                      HandlersOK, InHand, HandlerOK, procVars, history
<1>6. ASSUME NEW c \in Clients, Send(c)
      PROVE  TypeInv'
  <2>1. req' \in [Clients -> Requests \cup {ListRequest, NoRequest}]
        /\ req'[c] \in Requests \cup {ListRequest}
        /\ \A d \in Clients \ {c} : req'[d] = req[d]
    BY <1>6 DEF Send, TypeInv, TypeOK, Requests, Applications
  <2>2. seq' \in [Clients -> Sequence]
    BY <1>6 DEF Send, TypeInv, TypeOK, Sequence
  <2> QED
    BY <1>6, <2>1, <2>2 DEF Send, TypeInv, TypeOK, HandlersOK, InHand,
        HandlerOK,
                  Dispatching, procVars, snapVars, runtimeVars, history
<1>7. ASSUME NEW c \in Clients, Admit(c)
      PROVE  TypeInv'
  <2>1. CASE List(c)
    BY <1>7, <2>1 DEF Admit, List, TypeInv, TypeOK, HandlersOK, InHand,
        HandlerOK,
                  Dispatching, procVars, snapVars, runtimeVars, history
  <2>2. CASE Refuse(c)
    BY <1>7, <2>2 DEF Admit, Refuse, TypeInv, TypeOK, HandlersOK, InHand,
        HandlerOK,
                  Dispatching, procVars, snapVars, runtimeVars, history
  <2>3. CASE Dispatch(c)
    <3>1. req[c] \in Requests
          /\ req[c].action \in {"open", "terminate", "kill"}
      BY <1>7, <2>3 DEF Admit, Dispatch, Accepted, TypeInv, HandlersOK, InHand,
                        HandlerOK, ListRequest
    <3>2. app' \in [Clients -> Applications \cup {NoApp}]
          /\ app'[c] \in Applications
          /\ \A d \in Clients \ {c} : app'[d] = app[d]
      BY <2>3 DEF Dispatch, TypeInv, TypeOK
    <3> QED
      BY <1>7, <2>3, <3>1, <3>2 DEF Admit, Dispatch, FirstStep, TypeInv,
            TypeOK, HandlersOK, InHand, HandlerOK, Dispatching, procVars,
                snapVars,
            runtimeVars, history
  <2> QED
    BY <1>7, <2>1, <2>2, <2>3 DEF Admit
<1>8. ASSUME NEW c \in Clients, Navigate(c)
      PROVE  TypeInv'
  BY <1>8, AnswerType DEF Navigate, TypeInv, TypeOK, procVars, snapVars,
                          runtimeVars, history
<1>9. ASSUME NEW c \in Clients, ClearForce(c)
      PROVE  TypeInv'
  BY <1>9, AnswerType, GotoType DEF ClearForce, Dispatching, TypeInv, TypeOK,
                          HandlersOK, InHand, HandlerOK,
                          procVars, snapVars, runtimeVars, history
<1>10. ASSUME NEW c \in Clients, ConsumeForce(c)
       PROVE  TypeInv'
  <2>1. CASE Answer(c)
    BY <1>10, <2>1, AnswerType DEF ConsumeForce, TypeInv, TypeOK, procVars,
                          snapVars, runtimeVars, history
  <2>2. CASE ~Answer(c)
    <3>1. PICK g \in GrantsOf(app[c]) :
                /\ held' = [held EXCEPT ![c] = g]
                /\ pc' = [pc EXCEPT ![c] = "validate"]
                /\ UNCHANGED <<req, app>>
      BY <1>10, <2>2 DEF ConsumeForce
    <3>2. g \in Grants
      BY DEF GrantsOf, TypeInv, TypeOK
    <3> QED
      BY <1>10, <3>1, <3>2 DEF ConsumeForce, TypeInv, TypeOK, HandlersOK,
          InHand,
            HandlerOK, Dispatching, procVars, snapVars, runtimeVars, history
  <2> QED
    BY <2>1, <2>2
<1>11. ASSUME NEW c \in Clients, Validate(c)
       PROVE  TypeInv'
  BY <1>11, AnswerType, GotoType DEF Validate, Dispatching, TypeInv, TypeOK,
                          procVars, snapVars, runtimeVars, history
<1>12. ASSUME NEW c \in Clients, SignalTerm(c)
       PROVE  TypeInv'
  BY <1>12, AnswerType, GotoType DEF SignalTerm, Dispatching, TypeInv, TypeOK,
                          procVars, snapVars, runtimeVars, history
<1>13. ASSUME NEW c \in Clients, SignalKill(c)
       PROVE  TypeInv'
  <2>1. /\ app[c].identity \in Identities
        /\ seq[c] \in Sequence
        /\ held[c] \in Grants
    BY <1>13 DEF SignalKill, TypeInv, TypeOK, HandlersOK, InHand, HandlerOK,
                 Dispatching, Applications
  <2>2. kills' \subseteq [grant : Grants, identity : Identities,
                          client : Clients, seq : Sequence]
    <3>1. CASE kills' = kills
      BY <3>1 DEF TypeInv, TypeOK
    <3>2. CASE kills' # kills
      <4>1. [grant |-> held[c], identity |-> app[c].identity, client |-> c,
             seq |-> seq[c]] \in Kills
        BY <2>1, KillType
      <4> QED
        BY <1>13, <3>2, <4>1 DEF SignalKill, TypeInv, TypeOK, Kills
    <3> QED
      BY <3>1, <3>2
  <2> QED
    BY <1>13, <2>2, AnswerType DEF SignalKill, TypeInv, TypeOK,
                          procVars, snapVars, runtimeVars
<1>14. ASSUME NEW c \in Clients, WaitSeesExit(c) \/ WaitLookupFails(c)
       PROVE  TypeInv'
  BY <1>14, AnswerType DEF WaitSeesExit, WaitLookupFails, TypeInv, TypeOK,
                          procVars, snapVars, runtimeVars, history
<1>15. ASSUME NEW c \in Clients, GraceElapses(c)
       PROVE  TypeInv'
  BY <1>15, GotoType DEF GraceElapses, Dispatching, TypeInv, TypeOK,
        HandlersOK, InHand, HandlerOK, procVars, snapVars, runtimeVars, history
<1>16. ASSUME NEW c \in Clients, RecordForce(c)
       PROVE  TypeInv'
  <2>1. [identity |-> app[c].identity, client |-> c, seq |-> seq[c]] \in Grants
    BY <1>16 DEF RecordForce, Grants, TypeInv, TypeOK, HandlersOK, InHand,
        HandlerOK,
                 Dispatching, Applications
  <2> QED
    BY <1>16, <2>1, AnswerType DEF RecordForce, TypeInv, TypeOK,
                          procVars, snapVars, runtimeVars
<1>17. CASE UNCHANGED vars
  BY <1>17 DEF vars, TypeInv, TypeOK, HandlersOK, InHand, HandlerOK
<1> QED
  BY <1>1, <1>2, <1>3, <1>4, <1>5, <1>6, <1>7, <1>8, <1>9, <1>10, <1>11,
     <1>12, <1>13, <1>14, <1>15, <1>16, <1>17
     DEF Next, Runtime, Handle, Advance

(* Every reachable state has its type: the handlers, the executor and the  *)
(* snapshot keep the shapes service.go and bridge.go give them.            *)
THEOREM Typing == Spec => []TypeOK
<1>1. Spec => []TypeInv
  BY InitType, NextType, PTL DEF Spec
<1> QED
  BY <1>1, PTL DEF TypeInv

-----------------------------------------------------------------------------
(* Force-KILL.  Grants are armed (in force), in a KILL's hand, or spent,   *)
(* never two of these; a request that may still earn a grant has a number  *)
(* no earned grant carries.                                                *)

Earning(c) == pc[c] # "idle" /\ req[c].action = "terminate"

ArmedOK == force \subseteq expired

HandOK ==
    \A c \in Clients :
        IF InHand(c)
        THEN /\ held[c] \in expired \ force
             /\ held[c].identity = app[c].identity
             /\ \A d \in Clients : held[d] = held[c] => d = c
             /\ \A k \in kills : k.grant # held[c]
        ELSE held[c] = NoGrant

SpentOK ==
    /\ \A k \in kills : k.grant \notin force
    /\ KillsAreEarned
    /\ OneKillPerGrant

FreshOK ==
    \A g \in expired :
        /\ g.seq <= seq[g.client]
        /\ Earning(g.client) => g.seq < seq[g.client]

GrantInv == ArmedOK /\ HandOK /\ SpentOK /\ FreshOK

LEMMA NoGrantIsNone == NoGrant \notin Grants
<1>1. ASSUME NEW i \in Identities PROVE i # NoProcess
  BY DEF Identities, NoProcess
<1> QED
  BY <1>1 DEF NoGrant, Grants

(* An answered request gives up what it held; grants can only be lost.     *)
LEMMA AnswerGrants ==
    ASSUME TypeInv, GrantInv, NEW c \in Clients, Answer(c),
           force' \subseteq force,
           UNCHANGED <<expired, kills, seq>>
    PROVE  GrantInv'
<1>1. ArmedOK' /\ SpentOK'
  BY DEF GrantInv, ArmedOK, SpentOK, KillsAreEarned, OneKillPerGrant
<1>2. HandOK'
  <2>1. \A d \in Clients \ {c} : InHand(d)' = InHand(d) /\ held'[d] = held[d]
                                 /\ app'[d] = app[d]
    BY DEF Answer, InHand, TypeInv, TypeOK
  <2>2. ~InHand(c)' /\ held'[c] = NoGrant
    BY DEF Answer, InHand, TypeInv, TypeOK
  <2>3. \A d \in Clients : InHand(d) => held[d] # NoGrant
    BY NoGrantIsNone DEF GrantInv, HandOK, TypeInv, TypeOK
  <2> QED
    BY <2>1, <2>2, <2>3 DEF GrantInv, HandOK
<1>3. FreshOK'
  BY DEF GrantInv, FreshOK, Earning, Answer, TypeInv, TypeOK, Grants
<1> QED
  BY <1>1, <1>2, <1>3 DEF GrantInv

(* A handler that moves on without taking or using a grant.                *)
LEMMA GotoGrants ==
    ASSUME TypeInv, GrantInv, NEW c \in Clients, NEW where, Goto(c, where),
           pc[c] # "idle", InHand(c)' = InHand(c), force' \subseteq force,
           UNCHANGED <<expired, kills, seq>>
    PROVE  GrantInv'
<1>1. ArmedOK' /\ SpentOK'
  BY DEF GrantInv, ArmedOK, SpentOK, KillsAreEarned, OneKillPerGrant
<1>2. HandOK'
  <2>1. \A d \in Clients \ {c} : InHand(d)' = InHand(d)
    BY DEF Goto, InHand, TypeInv, TypeOK
  <2> QED
    BY <2>1 DEF GrantInv, HandOK, Goto
<1>3. FreshOK'
  BY DEF GrantInv, FreshOK, Earning, Goto, TypeInv, TypeOK, Grants
<1> QED
  BY <1>1, <1>2, <1>3 DEF GrantInv

LEMMA InitGrants == Init => GrantInv
BY DEF Init, GrantInv, ArmedOK, HandOK, SpentOK, FreshOK, KillsAreEarned,
       OneKillPerGrant, InHand

LEMMA NextGrants == TypeInv /\ GrantInv /\ [Next]_vars => GrantInv'
<1> SUFFICES ASSUME TypeInv, GrantInv, [Next]_vars
             PROVE  GrantInv'
  OBVIOUS
<1>1. CASE UNCHANGED <<force, pc, req, app, held, seq, expired, kills>>
  BY <1>1 DEF GrantInv, ArmedOK, HandOK, SpentOK, FreshOK, KillsAreEarned,
              OneKillPerGrant, InHand, Earning
<1>2. CASE Environment
  BY <1>1, <1>2 DEF Environment, history
<1>3. CASE Runtime
  BY <1>1, <1>3 DEF Runtime, Rebuild, RequestLock, Replace, MarkStale, history
<1>4. ASSUME NEW c \in Clients, Send(c)
      PROVE  GrantInv'
  <2>1. ArmedOK' /\ SpentOK'
    BY <1>4 DEF Send, GrantInv, ArmedOK, SpentOK, KillsAreEarned,
                OneKillPerGrant, history
  <2>2. HandOK'
    <3>1. \A d \in Clients : InHand(d)' = InHand(d)
      BY <1>4 DEF Send, InHand, TypeInv, TypeOK
    <3> QED
      BY <1>4, <3>1 DEF Send, GrantInv, HandOK, history
  <2>3. FreshOK'
    <3> SUFFICES ASSUME NEW g \in expired
                 PROVE  /\ g.seq <= seq'[g.client]
                        /\ Earning(g.client)' => g.seq < seq'[g.client]
      BY <1>4 DEF Send, FreshOK, history
    <3>1. g.client \in Clients /\ g.seq \in Nat /\ seq[g.client] \in Nat
      BY BoundsAssumption DEF TypeInv, TypeOK, Grants, Sequence
    <3>2. CASE g.client # c
      BY <1>4, <3>1, <3>2 DEF Send, GrantInv, FreshOK, Earning, TypeInv, TypeOK
    <3>3. CASE g.client = c /\ seq' = seq
      <4>1. req'[c] = ListRequest
        <5>1. seq[c] + 1 # seq[c]
          BY <3>1, <3>3
        <5> QED
          BY <1>4, <3>3, <5>1 DEF Send, TypeInv, TypeOK
      <4> QED
        BY <3>1, <3>3, <4>1 DEF GrantInv, FreshOK, Earning, ListRequest
    <3>4. CASE g.client = c /\ seq' = [seq EXCEPT ![c] = @ + 1]
      BY <3>1, <3>4 DEF GrantInv, FreshOK, TypeInv, TypeOK
    <3> QED
      BY <1>4, <3>2, <3>3, <3>4 DEF Send
  <2> QED
    BY <2>1, <2>2, <2>3 DEF GrantInv
<1>5. ASSUME NEW c \in Clients, Admit(c)
      PROVE  GrantInv'
  <2>1. ArmedOK' /\ SpentOK'
    BY <1>5 DEF Admit, GrantInv, ArmedOK, SpentOK, KillsAreEarned,
                OneKillPerGrant, history
  <2>2. /\ pc[c] = "requested"
        /\ pc'[c] \in {"idle", "clear", "consume", "open"}
        /\ \A d \in Clients \ {c} : pc'[d] = pc[d] /\ req'[d] = req[d]
                                    /\ app'[d] = app[d]
        /\ req'[c] = req[c] \/ pc'[c] = "idle"
    BY <1>5 DEF Admit, List, Refuse, Dispatch, FirstStep, TypeInv, TypeOK
  <2>3. HandOK'
    <3>1. ~InHand(c) /\ ~InHand(c)'
      BY <2>2 DEF InHand
    <3>2. \A d \in Clients \ {c} : InHand(d)' = InHand(d)
      BY <2>2 DEF InHand
    <3> QED
      BY <1>5, <2>2, <3>1, <3>2 DEF Admit, GrantInv, HandOK, history
  <2>4. FreshOK'
    <3>1. \A d \in Clients : Earning(d)' => Earning(d)
      BY <2>2 DEF Earning
    <3>2. \A g \in expired : g.client \in Clients
      BY DEF TypeInv, TypeOK, Grants
    <3> QED
      BY <1>5, <3>1, <3>2 DEF Admit, GrantInv, FreshOK, history
  <2> QED
    BY <2>1, <2>3, <2>4 DEF GrantInv
<1>6. ASSUME NEW c \in Clients, Navigate(c)
      PROVE  GrantInv'
  BY <1>6, AnswerGrants DEF Navigate, history
<1>7. ASSUME NEW c \in Clients, ClearForce(c)
      PROVE  GrantInv'
  <2>1. CASE Answer(c)
    BY <1>7, <2>1, AnswerGrants DEF ClearForce, history
  <2>2. CASE Goto(c, "validate")
    <3>1. req[c].action = "terminate" /\ req' = req
      BY <1>7, <2>2 DEF ClearForce, Goto, TypeInv, HandlersOK, HandlerOK
    <3>2. InHand(c)' = InHand(c)
      BY <3>1 DEF InHand
    <3>3. pc[c] = "clear" /\ force' \subseteq force
          /\ UNCHANGED <<expired, kills, seq>>
      BY <1>7 DEF ClearForce, history
    <3> QED
      BY <2>2, <3>2, <3>3, GotoGrants
  <2> QED
    BY <1>7, <2>1, <2>2 DEF ClearForce
<1>8. ASSUME NEW c \in Clients, ConsumeForce(c)
      PROVE  GrantInv'
  <2>1. CASE Answer(c)
    BY <1>8, <2>1, AnswerGrants DEF ConsumeForce, history
  <2>2. CASE ~Answer(c)
    <3>1. PICK g \in GrantsOf(app[c]) :
                /\ g.identity = app[c].identity
                /\ held' = [held EXCEPT ![c] = g]
                /\ pc' = [pc EXCEPT ![c] = "validate"]
                /\ UNCHANGED <<req, app>>
      BY <1>8, <2>2 DEF ConsumeForce
    <3>2. /\ g \in force /\ g \in Grants /\ g # NoGrant
          /\ force' = force \ GrantsOf(app[c])
          /\ UNCHANGED <<seq, expired, kills>>
          /\ pc[c] = "consume" /\ req[c].action = "kill"
      BY <1>8, NoGrantIsNone DEF ConsumeForce, GrantsOf, TypeInv, TypeOK,
                      HandlersOK, HandlerOK, history
    <3>3. ArmedOK' /\ SpentOK'
      BY <3>2 DEF GrantInv, ArmedOK, SpentOK, KillsAreEarned, OneKillPerGrant
    <3>4. HandOK'
      <4>1. /\ InHand(c)' /\ ~InHand(c)
            /\ held'[c] = g
            /\ \A d \in Clients \ {c} :
                 InHand(d)' = InHand(d) /\ held'[d] = held[d]
        BY <3>1, <3>2 DEF InHand, TypeInv, TypeOK
      <4>2. \A d \in Clients : held[d] # g
        BY <3>2 DEF GrantInv, HandOK
      <4>3. g \in expired \ force' /\ \A k \in kills : k.grant # g
        BY <3>2 DEF GrantInv, ArmedOK, SpentOK
      <4>4. ASSUME NEW d \in Clients, InHand(d)'
            PROVE  /\ held'[d] \in expired' \ force'
                   /\ held'[d].identity = app'[d].identity
                   /\ \A e \in Clients : held'[e] = held'[d] => e = d
                   /\ \A k \in kills' : k.grant # held'[d]
        <5>1. CASE d = c
          BY <3>1, <3>2, <4>1, <4>2, <4>3, <5>1
        <5>2. CASE d # c
          BY <3>1, <3>2, <4>1, <4>2, <4>4, <5>2 DEF GrantInv, HandOK
        <5> QED
          BY <5>1, <5>2
      <4>5. ASSUME NEW d \in Clients, ~InHand(d)'
            PROVE  held'[d] = NoGrant
        BY <4>1, <4>5 DEF GrantInv, HandOK
      <4> QED
        BY <4>4, <4>5 DEF HandOK
    <3>5. FreshOK'
      BY <3>1, <3>2 DEF GrantInv, FreshOK, Earning, TypeInv, TypeOK, Grants
    <3> QED
      BY <3>3, <3>4, <3>5 DEF GrantInv
  <2> QED
    BY <2>1, <2>2
<1>9. ASSUME NEW c \in Clients, Validate(c)
      PROVE  GrantInv'
  <2>1. CASE Answer(c)
    BY <1>9, <2>1, AnswerGrants DEF Validate, history
  <2>2. CASE Goto(c, "signal")
    <3>1. InHand(c)' = InHand(c)
      BY <1>9, <2>2 DEF Validate, Goto, InHand, TypeInv, TypeOK
    <3> QED
      BY <1>9, <2>2, <3>1, GotoGrants DEF Validate, history
  <2> QED
    BY <1>9, <2>1, <2>2 DEF Validate
<1>10. ASSUME NEW c \in Clients, SignalTerm(c)
       PROVE  GrantInv'
  <2>1. CASE Answer(c)
    BY <1>10, <2>1, AnswerGrants DEF SignalTerm, history
  <2>2. CASE Goto(c, "wait")
    <3>1. InHand(c)' = InHand(c)
      BY <1>10, <2>2 DEF SignalTerm, Goto, InHand, TypeInv, TypeOK
    <3> QED
      BY <1>10, <2>2, <3>1, GotoGrants DEF SignalTerm, history
  <2> QED
    BY <1>10, <2>1, <2>2 DEF SignalTerm
<1>11. ASSUME NEW c \in Clients, SignalKill(c)
       PROVE  GrantInv'
  <2> DEFINE k == [grant |-> held[c], identity |-> app[c].identity,
                   client |-> c, seq |-> seq[c]]
  <2>1. InHand(c)
    BY <1>11 DEF SignalKill, InHand
  <2>2. CASE kills' = kills
    BY <1>11, <2>2, AnswerGrants DEF SignalKill
  <2>3. CASE kills' = kills \cup {k}
    <3>1. /\ Answer(c) /\ UNCHANGED <<force, seq, expired>>
          /\ k.grant = held[c] /\ k.identity = app[c].identity
      BY <1>11 DEF SignalKill
    <3> HIDE DEF k
    <3>2. ArmedOK' /\ SpentOK'
      <4>1. /\ k.grant \in expired \ force
            /\ k.grant.identity = k.identity
            /\ \A l \in kills : l.grant # k.grant
        BY <2>1, <3>1 DEF GrantInv, HandOK
      <4> QED
        BY <2>3, <3>1, <4>1 DEF GrantInv, ArmedOK, SpentOK, KillsAreEarned,
                                OneKillPerGrant
    <3>3. HandOK'
      <4>1. \A d \in Clients \ {c} : InHand(d)' = InHand(d)
                                     /\ held'[d] = held[d]
                                     /\ app'[d] = app[d]
        BY <3>1 DEF Answer, InHand, TypeInv, TypeOK
      <4>2. ~InHand(c)' /\ held'[c] = NoGrant
        BY <3>1 DEF Answer, InHand, TypeInv, TypeOK
      <4>3. \A d \in Clients : InHand(d) => held[d] # NoGrant
        BY NoGrantIsNone DEF GrantInv, HandOK, TypeInv, TypeOK
      <4>4. \A d \in Clients \ {c} : InHand(d) => held[d] # k.grant
        BY <2>1, <3>1 DEF GrantInv, HandOK
      <4> QED
        BY <2>3, <3>1, <4>1, <4>2, <4>3, <4>4 DEF GrantInv, HandOK
    <3>4. FreshOK'
      BY <3>1 DEF GrantInv, FreshOK, Earning, Answer, TypeInv, TypeOK, Grants
    <3> QED
      BY <3>2, <3>3, <3>4 DEF GrantInv
  <2> QED
    BY <1>11, <2>2, <2>3 DEF SignalKill
<1>12. ASSUME NEW c \in Clients, WaitSeesExit(c) \/ WaitLookupFails(c)
       PROVE  GrantInv'
  BY <1>12, AnswerGrants DEF WaitSeesExit, WaitLookupFails, history
<1>13. ASSUME NEW c \in Clients, GraceElapses(c)
       PROVE  GrantInv'
  <2>1. InHand(c)' = InHand(c)
    BY <1>13 DEF GraceElapses, Goto, InHand, TypeInv, TypeOK
  <2> QED
    BY <1>13, <2>1, GotoGrants DEF GraceElapses, history
<1>14. ASSUME NEW c \in Clients, RecordForce(c)
       PROVE  GrantInv'
  <2> DEFINE g == [identity |-> app[c].identity, client |-> c, seq |-> seq[c]]
  <2>1. /\ g.client = c /\ g.seq = seq[c]
        /\ Answer(c) /\ UNCHANGED <<seq, kills>>
        /\ force' = (force \ GrantsOf(app[c])) \cup {g}
        /\ expired' = expired \cup {g}
        /\ Earning(c)
    BY <1>14 DEF RecordForce, Earning, TypeInv, HandlersOK, HandlerOK
  <2> HIDE DEF g
  <2>2. g \notin expired
    BY <2>1, BoundsAssumption DEF GrantInv, FreshOK, TypeInv, TypeOK, Sequence
  <2>3. ArmedOK' /\ SpentOK'
    BY <2>1, <2>2 DEF GrantInv, ArmedOK, SpentOK, KillsAreEarned,
                      OneKillPerGrant
  <2>4. HandOK'
    <3>1. \A d \in Clients \ {c} : InHand(d)' = InHand(d) /\ held'[d] = held[d]
                                   /\ app'[d] = app[d]
      BY <2>1 DEF Answer, InHand, TypeInv, TypeOK
    <3>2. ~InHand(c)' /\ held'[c] = NoGrant
      BY <2>1 DEF Answer, InHand, TypeInv, TypeOK
    <3>3. \A d \in Clients : InHand(d) => held[d] # NoGrant
      BY NoGrantIsNone DEF GrantInv, HandOK, TypeInv, TypeOK
    <3> QED
      BY <2>1, <2>2, <3>1, <3>2, <3>3 DEF GrantInv, HandOK
  <2>5. FreshOK'
    <3> SUFFICES ASSUME NEW h \in expired'
                 PROVE  /\ h.seq <= seq'[h.client]
                        /\ Earning(h.client)' => h.seq < seq'[h.client]
      BY DEF FreshOK
    <3>1. CASE h = g
      BY <2>1, <3>1, BoundsAssumption
         DEF Earning, Answer, TypeInv, TypeOK, Sequence
    <3>2. CASE h \in expired
      BY <2>1, <3>2 DEF GrantInv, FreshOK, Earning, Answer, TypeInv, TypeOK,
                        Grants
    <3> QED
      BY <2>1, <3>1, <3>2
  <2> QED
    BY <2>3, <2>4, <2>5 DEF GrantInv
<1>15. CASE UNCHANGED vars
  BY <1>1, <1>15 DEF vars
<1> QED
  BY <1>2, <1>3, <1>4, <1>5, <1>6, <1>7, <1>8, <1>9, <1>10, <1>11, <1>12,
     <1>13, <1>14, <1>15 DEF Next, Handle, Advance

LEMMA Invariance == Spec => [](TypeInv /\ GrantInv)
BY InitType, NextType, InitGrants, NextGrants, PTL DEF Spec

(* Every KILL was earned by the expired grace of a confirmed TERM of the   *)
(* same process identity (bridge.go, consumeForce).                        *)
THEOREM ForceKillIsEarned == Spec => []KillsAreEarned
BY Invariance, PTL DEF GrantInv, SpentOK

(* An expired grace pays for one KILL at most, under every interleaving of *)
(* TERM and KILL requests (bridge.go, consumeForce deletes what it finds). *)
THEOREM ForceKillIsSingleUse == Spec => []OneKillPerGrant
BY Invariance, PTL DEF GrantInv, SpentOK

-----------------------------------------------------------------------------
(* The read lock.  A dispatched application is still published, at the     *)
(* revision the client observed, until the handler answers.                *)

LEMMA AnswerReaders ==
    ASSUME TypeInv, DispatchedAgainstCurrent, NEW c \in Clients, Answer(c),
           UNCHANGED snapVars
    PROVE  DispatchedAgainstCurrent'
BY DEF DispatchedAgainstCurrent, Readers, Dispatching, Answer, snapVars,
       TypeInv, TypeOK

LEMMA GotoReaders ==
    ASSUME TypeInv, DispatchedAgainstCurrent, NEW c \in Clients, NEW where,
           Goto(c, where), c \in Readers, UNCHANGED snapVars
    PROVE  DispatchedAgainstCurrent'
BY DEF DispatchedAgainstCurrent, Readers, Dispatching, Goto, snapVars,
       TypeInv, TypeOK

LEMMA NextReaders ==
    TypeInv /\ DispatchedAgainstCurrent /\ [Next]_vars
        => DispatchedAgainstCurrent'
<1> SUFFICES ASSUME TypeInv, DispatchedAgainstCurrent, [Next]_vars
             PROVE  DispatchedAgainstCurrent'
  OBVIOUS
<1>1. CASE UNCHANGED <<rev, apps, pc, req, app>>
  BY <1>1 DEF DispatchedAgainstCurrent, Readers
<1>2. CASE Environment \/ Rebuild \/ RequestLock
  BY <1>1, <1>2 DEF Environment, Rebuild, RequestLock, snapVars
<1>3. CASE Replace \/ MarkStale
  BY <1>3 DEF Replace, MarkStale, WriterMayEnter, DispatchedAgainstCurrent,
              Readers
<1>4. ASSUME NEW c \in Clients, Send(c)
      PROVE  DispatchedAgainstCurrent'
  BY <1>4 DEF Send, DispatchedAgainstCurrent, Readers, Dispatching, snapVars,
              TypeInv, TypeOK
<1>5. ASSUME NEW c \in Clients, Admit(c)
      PROVE  DispatchedAgainstCurrent'
  <2>1. CASE List(c) \/ Refuse(c)
    BY <1>5, <2>1 DEF Admit, List, Refuse, DispatchedAgainstCurrent, Readers,
                      Dispatching, snapVars, TypeInv, TypeOK
  <2>2. CASE Dispatch(c)
    BY <1>5, <2>2 DEF Admit, Dispatch, Accepted, DispatchedAgainstCurrent,
                      Readers, snapVars, TypeInv, TypeOK
  <2> QED
    BY <1>5, <2>1, <2>2 DEF Admit
<1>6. ASSUME NEW c \in Clients,
             \/ Navigate(c) \/ ClearForce(c) \/ Validate(c) \/ SignalTerm(c)
             \/ SignalKill(c) \/ WaitSeesExit(c) \/ WaitLookupFails(c)
             \/ GraceElapses(c) \/ RecordForce(c)
      PROVE  DispatchedAgainstCurrent'
  <2>1. c \in Readers /\ UNCHANGED snapVars
    BY <1>6 DEF Navigate, ClearForce, Validate, SignalTerm, SignalKill,
                WaitSeesExit, WaitLookupFails, GraceElapses, RecordForce,
                Readers, Dispatching
  <2>2. Answer(c) \/ \E where \in Dispatching : Goto(c, where)
    BY <1>6 DEF Navigate, ClearForce, Validate, SignalTerm, SignalKill,
                WaitSeesExit, WaitLookupFails, GraceElapses, RecordForce,
                Dispatching
  <2> QED
    BY <2>1, <2>2, AnswerReaders, GotoReaders
<1>7. ASSUME NEW c \in Clients, ConsumeForce(c)
      PROVE  DispatchedAgainstCurrent'
  <2>1. CASE Answer(c)
    BY <1>7, <2>1, AnswerReaders DEF ConsumeForce
  <2>2. CASE ~Answer(c)
    BY <1>7, <2>2 DEF ConsumeForce, DispatchedAgainstCurrent, Readers,
                      Dispatching, snapVars, TypeInv, TypeOK
  <2> QED
    BY <2>1, <2>2
<1>8. CASE UNCHANGED vars
  BY <1>1, <1>8 DEF vars
<1> QED
  BY <1>2, <1>3, <1>4, <1>5, <1>6, <1>7, <1>8
     DEF Next, Runtime, Handle, Advance

(* Publication waits for the actions in progress (service.go,              *)
(* ExecuteAction holds the read lock until it answers).                    *)
THEOREM PublicationWaits == Spec => []DispatchedAgainstCurrent
<1>1. Init => DispatchedAgainstCurrent
  BY DEF Init, DispatchedAgainstCurrent, Readers, Dispatching
<1> QED
  BY <1>1, NextReaders, Invariance, PTL DEF Spec

(* What validateSignalTarget accepted stays accepted until the signal.     *)
SignalOK ==
    \A c \in Clients : pc[c] = "signal" => Signalable(app[c])

LEMMA NextSignal == TypeInv /\ SignalOK /\ [Next]_vars => SignalOK'
<1> SUFFICES ASSUME TypeInv, SignalOK, [Next]_vars
             PROVE  SignalOK'
  OBVIOUS
<1>1. CASE UNCHANGED <<pc, app>>
  BY <1>1 DEF SignalOK
<1>2. CASE Environment \/ Runtime
  BY <1>1, <1>2 DEF Environment, Runtime, Rebuild, RequestLock, Replace,
                    MarkStale
<1>3. ASSUME NEW c \in Clients, Send(c) \/ Handle(c)
      PROVE  SignalOK'
  <2>1. \A d \in Clients \ {c} : pc'[d] = pc[d] /\ app'[d] = app[d]
    BY <1>3 DEF Send, Handle, Advance, Admit, List, Refuse, Dispatch, Navigate,
         ClearForce, ConsumeForce, Validate, SignalTerm, SignalKill,
         WaitSeesExit, WaitLookupFails, GraceElapses, RecordForce, Answer,
         Goto, TypeInv, TypeOK
  <2>2. CASE Validate(c)
    BY <2>1, <2>2 DEF Validate, Answer, Goto, SignalOK, TypeInv, TypeOK
  <2>3. CASE ~Validate(c)
    <3>1. pc'[c] # "signal"
      BY <1>3, <2>3 DEF Send, Handle, Advance, Admit, List, Refuse, Dispatch,
         FirstStep, Navigate, ClearForce, ConsumeForce, SignalTerm, SignalKill,
         WaitSeesExit, WaitLookupFails, GraceElapses, RecordForce, Answer,
         Goto, TypeInv, TypeOK
    <3> QED
      BY <2>1, <3>1 DEF SignalOK
  <2> QED
    BY <2>2, <2>3
<1>4. CASE UNCHANGED vars
  BY <1>1, <1>4 DEF vars
<1> QED
  BY <1>2, <1>3, <1>4 DEF Next

(* A signal is only ever sent for an application that the snapshot         *)
(* published at that moment calls high confidence and current              *)
(* (destructive.go, validateSignalTarget).                                 *)
THEOREM OwnedTargets == Spec => []SignalsOnlyOwned
<1>1. Init => SignalOK
  BY DEF Init, SignalOK
<1>2. SignalOK /\ DispatchedAgainstCurrent /\ TypeInv => SignalsOnlyOwned
  BY DEF SignalOK, DispatchedAgainstCurrent, SignalsOnlyOwned, Readers,
         Dispatching
<1> QED
  BY <1>1, <1>2, NextSignal, PublicationWaits, Invariance, PTL DEF Spec

-----------------------------------------------------------------------------
(* Revisions.                                                              *)

LEMMA NextRevision ==
    TypeInv /\ RevisionNamesOneList /\ [Next]_vars => RevisionNamesOneList'
<1> SUFFICES ASSUME TypeInv, RevisionNamesOneList, [Next]_vars
             PROVE  RevisionNamesOneList'
  OBVIOUS
<1>1. CASE UNCHANGED <<rev, apps, view>>
  BY <1>1 DEF RevisionNamesOneList
<1>2. ASSUME NEW next, Install(next), UNCHANGED view
      PROVE  RevisionNamesOneList'
  <2>1. \A c \in Clients : view[c].rev \in Nat /\ view[c].rev <= rev
    BY DEF RevisionNamesOneList, TypeInv, TypeOK
  <2>2. CASE next = apps
    BY <1>1, <1>2, <2>2 DEF Install
  <2>3. CASE next # apps
    <3>1. rev' = rev + 1 /\ rev \in Nat
      BY <1>2, <2>3 DEF Install, TypeInv, TypeOK
    <3>2. \A c \in Clients : view'[c].rev <= rev' /\ view'[c].rev # rev'
      BY <1>2, <2>1, <3>1
    <3> QED
      BY <1>2, <3>2 DEF RevisionNamesOneList
  <2> QED
    BY <2>2, <2>3
<1>3. CASE Runtime
  BY <1>1, <1>2, <1>3 DEF Runtime, Rebuild, RequestLock, Replace, MarkStale,
                          snapVars
<1>4. CASE Environment
  BY <1>1, <1>4 DEF Environment, snapVars
<1>5. ASSUME NEW c \in Clients, Send(c)
      PROVE  RevisionNamesOneList'
  BY <1>1, <1>5 DEF Send, snapVars
<1>6. ASSUME NEW c \in Clients, Handle(c)
      PROVE  RevisionNamesOneList'
  <2>1. CASE Admit(c) /\ List(c)
    <3>1. view' = [view EXCEPT ![c] = [rev |-> rev, apps |-> apps]]
          /\ rev' = rev /\ apps' = apps /\ rev \in Nat
      BY <2>1 DEF Admit, List, snapVars, TypeInv, TypeOK
    <3>2. /\ view'[c].rev = rev /\ view'[c].apps = apps
          /\ \A d \in Clients \ {c} : view'[d] = view[d]
      BY <3>1 DEF TypeInv, TypeOK
    <3> QED
      BY <3>1, <3>2 DEF RevisionNamesOneList
  <2>2. CASE ~(Admit(c) /\ List(c))
    BY <1>1, <1>6, <2>2 DEF Handle, Advance, Admit, Refuse, Dispatch, Navigate,
         ClearForce, ConsumeForce, Validate, SignalTerm, SignalKill,
         WaitSeesExit, WaitLookupFails, GraceElapses, RecordForce, snapVars
  <2> QED
    BY <2>1, <2>2
<1>7. CASE UNCHANGED vars
  BY <1>1, <1>7 DEF vars
<1> QED
  BY <1>3, <1>4, <1>5, <1>6, <1>7 DEF Next

(* Two clients that saw one revision saw one list (service.go, Replace and *)
(* MarkStale advance the revision with every change and only then).        *)
THEOREM OneListPerRevision == Spec => []RevisionNamesOneList
<1>1. Init => RevisionNamesOneList
  <2> SUFFICES ASSUME Init
               PROVE  RevisionNamesOneList
    OBVIOUS
  <2>1. \A c \in Clients : view[c].rev = 0 /\ view[c].apps = {}
    BY DEF Init
  <2>2. rev = 0 /\ apps = {}
    BY DEF Init
  <2>3. \A m, n \in Nat : m = n => m <= n
    OBVIOUS
  <2>4. \A c \in Clients : view[c].rev <= rev
    BY <2>1, <2>2, <2>3
  <2> QED
    BY <2>1, <2>2, <2>4 DEF RevisionNamesOneList
<1> QED
  BY <1>1, NextRevision, Invariance, PTL DEF Spec

-----------------------------------------------------------------------------
(* Refinement: the executor implements ForceGrants.                        *)

LEMMA InitPromise == Init => Promise!Init
BY DEF Init, Promise!Init, Taken, Spent

(* A step that takes, uses and earns nothing withdraws grants at most.     *)
LEMMA StepWithdraws ==
    ASSUME force' \subseteq force, UNCHANGED <<expired, kills, held>>
    PROVE  Promise!Withdraw
BY DEF Promise!Withdraw, Taken, Spent

(* Answering gives the grant in hand back: a Drop, or nothing.             *)
LEMMA AnswerDrops ==
    ASSUME TypeInv, GrantInv, NEW c \in Clients, Answer(c)
    PROVE  IF InHand(c)
           THEN held[c] \in Taken /\ held[c] \in Grants
                /\ Taken' = Taken \ {held[c]}
           ELSE Taken' = Taken
<1>1. /\ held'[c] = NoGrant
      /\ \A d \in Clients \ {c} : held'[d] = held[d]
  BY DEF Answer, TypeInv, TypeOK
<1>2. CASE InHand(c)
  <2>1. /\ held[c] \in Grants /\ held[c] # NoGrant
        /\ \A d \in Clients \ {c} : held[d] # held[c]
    BY <1>2, NoGrantIsNone DEF GrantInv, HandOK, TypeInv, TypeOK
  <2> QED
    BY <1>1, <1>2, <2>1 DEF Taken
<1>3. CASE ~InHand(c)
  <2>1. held[c] = NoGrant
    BY <1>3 DEF GrantInv, HandOK
  <2> QED
    BY <1>1, <1>3, <2>1 DEF Taken
<1> QED
  BY <1>2, <1>3

LEMMA AnswerStep ==
    ASSUME TypeInv, GrantInv, NEW c \in Clients, Answer(c),
           UNCHANGED <<expired, kills>>,
           force' = force \/ (force' \subseteq force /\ ~InHand(c))
    PROVE  [Promise!Next]_<<expired, force, Taken, Spent>>
<1>1. Spent' = Spent
  BY DEF Spent
<1>2. CASE InHand(c)
  BY <1>1, <1>2, AnswerDrops DEF Promise!Next, Promise!Drop
<1>3. CASE ~InHand(c)
  BY <1>1, <1>3, AnswerDrops DEF Promise!Next, Promise!Withdraw
<1> QED
  BY <1>2, <1>3

LEMMA NextPromise ==
    ASSUME TypeInv, GrantInv, [Next]_vars
    PROVE  [Promise!Next]_<<expired, force, Taken, Spent>>
<1>1. CASE force' \subseteq force /\ UNCHANGED <<expired, kills, held>>
  BY <1>1, StepWithdraws DEF Promise!Next
<1>2. CASE Environment \/ Runtime
  BY <1>1, <1>2 DEF Environment, Runtime, Rebuild, RequestLock, Replace,
                    MarkStale, history
<1>3. ASSUME NEW c \in Clients,
             \/ Send(c) \/ Admit(c) \/ GraceElapses(c)
             \/ ClearForce(c) /\ ~Answer(c)
             \/ Validate(c) /\ ~Answer(c)
             \/ SignalTerm(c) /\ ~Answer(c)
      PROVE  [Promise!Next]_<<expired, force, Taken, Spent>>
  BY <1>1, <1>3 DEF Send, Admit, GraceElapses, ClearForce, Validate,
                    SignalTerm, Goto, history
<1>4. ASSUME NEW c \in Clients,
             Navigate(c) \/ WaitSeesExit(c) \/ WaitLookupFails(c)
      PROVE  [Promise!Next]_<<expired, force, Taken, Spent>>
  BY <1>4, AnswerStep DEF Navigate, WaitSeesExit, WaitLookupFails, history
<1>5. ASSUME NEW c \in Clients, Answer(c),
             ClearForce(c) \/ Validate(c) \/ SignalTerm(c)
      PROVE  [Promise!Next]_<<expired, force, Taken, Spent>>
  <2>1. UNCHANGED <<expired, kills>>
    BY <1>5 DEF ClearForce, Validate, SignalTerm, history
  <2>2. force' = force \/ (force' \subseteq force /\ ~InHand(c))
    BY <1>5 DEF ClearForce, Validate, SignalTerm, InHand
  <2> QED
    BY <1>5, <2>1, <2>2, AnswerStep
<1>6. ASSUME NEW c \in Clients, ConsumeForce(c)
      PROVE  [Promise!Next]_<<expired, force, Taken, Spent>>
  <2>1. CASE Answer(c)
    <3>1. ~InHand(c) /\ force' \subseteq force /\ UNCHANGED <<expired, kills>>
      BY <1>6 DEF ConsumeForce, InHand, history
    <3> QED
      BY <2>1, <3>1, AnswerStep
  <2>2. CASE ~Answer(c)
    <3>1. PICK g \in GrantsOf(app[c]) : held' = [held EXCEPT ![c] = g]
      BY <1>6, <2>2 DEF ConsumeForce
    <3>2. /\ g \in force /\ g \in Grants /\ g # NoGrant
          /\ force' \subseteq force \ {g}
          /\ UNCHANGED <<expired, kills>>
          /\ ~InHand(c)
      BY <1>6, NoGrantIsNone DEF ConsumeForce, GrantsOf, InHand, TypeInv,
                                 TypeOK, history
    <3>3. Taken' = Taken \cup {g}
      <4>1. held[c] = NoGrant
        BY <3>2 DEF GrantInv, HandOK
      <4>2. held'[c] = g /\ \A d \in Clients \ {c} : held'[d] = held[d]
        BY <3>1 DEF TypeInv, TypeOK
      <4> QED
        BY <3>2, <4>1, <4>2 DEF Taken
    <3>4. Promise!Take(g)
      BY <3>2, <3>3 DEF Promise!Take, Spent
    <3> QED
      BY <3>2, <3>4 DEF Promise!Next
  <2> QED
    BY <2>1, <2>2
<1>7. ASSUME NEW c \in Clients, SignalKill(c)
      PROVE  [Promise!Next]_<<expired, force, Taken, Spent>>
  <2>1. InHand(c) /\ Answer(c) /\ UNCHANGED <<force, expired>>
    BY <1>7 DEF SignalKill, InHand
  <2>2. CASE kills' = kills
    BY <2>1, <2>2, AnswerStep
  <2>3. CASE kills' # kills
    <3>1. Spent' = Spent \cup {held[c]}
      BY <1>7, <2>3 DEF SignalKill, Spent
    <3>2. Promise!Spend(held[c])
      BY <2>1, <3>1, AnswerDrops DEF Promise!Spend
    <3> QED
      BY <2>1, <3>2, AnswerDrops DEF Promise!Next
  <2> QED
    BY <2>2, <2>3
<1>8. ASSUME NEW c \in Clients, RecordForce(c)
      PROVE  [Promise!Next]_<<expired, force, Taken, Spent>>
  <2> DEFINE g == [identity |-> app[c].identity, client |-> c, seq |-> seq[c]]
  <2>1. /\ Answer(c) /\ UNCHANGED kills /\ ~InHand(c)
        /\ force' = (force \ GrantsOf(app[c])) \cup {g}
        /\ expired' = expired \cup {g}
        /\ Earning(c)
        /\ g.client = c /\ g.seq = seq[c]
    BY <1>8 DEF RecordForce, InHand, Earning, TypeInv, HandlersOK, HandlerOK
  <2>2. g \in Grants
    BY <1>8 DEF RecordForce, Grants, TypeInv, TypeOK, HandlersOK, HandlerOK,
                Dispatching, Applications
  <2> HIDE DEF g
  <2>3. g \notin expired
    BY <2>1, BoundsAssumption DEF GrantInv, FreshOK, TypeInv, TypeOK, Sequence
  <2>4. Taken' = Taken /\ Spent' = Spent
    BY <2>1, AnswerDrops DEF Spent
  <2>5. Promise!Earn(g)
    BY <2>1, <2>3, <2>4 DEF Promise!Earn
  <2> QED
    BY <2>2, <2>5 DEF Promise!Next
<1>9. CASE UNCHANGED vars
  BY <1>1, <1>9 DEF vars
<1> QED
  BY <1>2, <1>3, <1>4, <1>5, <1>6, <1>7, <1>8, <1>9 DEF Next, Handle, Advance

(* The executor, with its map, its two critical sections and the grace     *)
(* between them, keeps the promise of ForceGrants.                         *)
THEOREM ExecutorKeepsPromise == Spec => KeepsPromise
<1>1. TypeInv /\ GrantInv /\ [Next]_vars
        => [Promise!Next]_<<expired, force, Taken, Spent>>
  BY NextPromise
<1>2. Init => Promise!Init
  BY InitPromise
<1>3. <<expired, force, Taken, Spent>> = Promise!grantVars
  BY DEF Promise!grantVars
<1> QED
  BY <1>1, <1>2, <1>3, Invariance, PTL
     DEF Spec, KeepsPromise, Promise!Spec, Promise!grantVars
=============================================================================
