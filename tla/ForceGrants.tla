----------------------------- MODULE ForceGrants -----------------------------
(***************************************************************************)
(* What the daemon promises about force-KILL (README.md, "Force-kill       *)
(* requires a separate confirmation after the TERM grace period"), without *)
(* locks, handlers or processes.  A grant is earned once, by one TERM; it  *)
(* is armed until a later request takes or withdraws it; one that was      *)
(* taken is spent on one KILL or dropped; none of them ever comes back.    *)
(***************************************************************************)
CONSTANT Grants         \* every grant a TERM could earn

VARIABLES
    earned,    \* grants earned so far
    armed,     \* those a KILL request could take now
    taken,     \* those a KILL request holds
    spent      \* those a KILL was sent on

grantVars == <<earned, armed, taken, spent>>

Init ==
    /\ earned = {}
    /\ armed = {}
    /\ taken = {}
    /\ spent = {}

(* A new grant may replace grants for the same application.                *)
Earn(g) ==
    /\ g \notin earned
    /\ earned' = earned \cup {g}
    /\ g \in armed'
    /\ armed' \subseteq armed \cup {g}
    /\ UNCHANGED <<taken, spent>>

Withdraw ==
    /\ armed' \subseteq armed
    /\ UNCHANGED <<earned, taken, spent>>

Take(g) ==
    /\ g \in armed
    /\ armed' \subseteq armed \ {g}
    /\ taken' = taken \cup {g}
    /\ UNCHANGED <<earned, spent>>

Drop(g) ==
    /\ g \in taken
    /\ taken' = taken \ {g}
    /\ UNCHANGED <<earned, armed, spent>>

Spend(g) ==
    /\ g \in taken
    /\ taken' = taken \ {g}
    /\ spent' = spent \cup {g}
    /\ UNCHANGED <<earned, armed>>

Next ==
    \/ Withdraw
    \/ \E g \in Grants : Earn(g) \/ Take(g) \/ Drop(g) \/ Spend(g)

Spec == Init /\ [][Next]_grantVars
=============================================================================
