---------------------------- MODULE ProviderUse -----------------------------
(***************************************************************************)
(* What the provider runtime promises to its users, without snapshots,     *)
(* leases counted, generations or drains.  At any time some provider sets  *)
(* are on offer (two while one replaces the other).  A request uses one    *)
(* offered set from its start to its end.  An instance is closed only      *)
(* while no offer contains it and no request uses it, and is never offered *)
(* again.                                                                  *)
(***************************************************************************)
CONSTANTS Request, Instance

VARIABLES
    offered,   \* the provider sets new requests may get
    using,     \* the provider set each running request holds
    shut       \* instances that have been closed

useVars == <<offered, using, shut>>

Init ==
    /\ offered = {{}}
    /\ using = [r \in Request |-> {}]
    /\ shut = {}

Offer(s) ==
    /\ s \cap shut = {}
    /\ offered' = offered \cup {s}
    /\ UNCHANGED <<using, shut>>

Withdraw(s) ==
    /\ offered' = offered \ {s}
    /\ UNCHANGED <<using, shut>>

Start(r, s) ==
    /\ using[r] = {}
    /\ s \in offered
    /\ using' = [using EXCEPT ![r] = s]
    /\ UNCHANGED <<offered, shut>>

End(r) ==
    /\ using' = [using EXCEPT ![r] = {}]
    /\ UNCHANGED <<offered, shut>>

Shut(insts) ==
    /\ \A s \in offered : s \cap insts = {}
    /\ \A r \in Request : using[r] \cap insts = {}
    /\ shut' = shut \cup insts
    /\ UNCHANGED <<offered, using>>

Next ==
    \/ \E s \in SUBSET Instance : Offer(s) \/ Withdraw(s) \/ Shut(s)
    \/ \E r \in Request : End(r) \/ \E s \in SUBSET Instance : Start(r, s)

Spec == Init /\ [][Next]_useVars

=============================================================================
