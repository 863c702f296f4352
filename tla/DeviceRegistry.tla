--------------------------- MODULE DeviceRegistry ---------------------------
(***************************************************************************)
(* What the fleet database promises, whatever the handlers do between two  *)
(* statements: a device belongs to the user who registered it from its     *)
(* registration to its removal, an identifier that was used is never used  *)
(* again, and what is attached to a device (DDNS configurations, reports)  *)
(* exists only while the device does and goes with it.                     *)
(*                                                                         *)
(* SchemaStore implements this specification (SchemaStore!Registry).       *)
(***************************************************************************)
CONSTANTS User, Device, Item, Nobody

VARIABLES
    owner,    \* [Device -> User \cup {Nobody}], the owner while registered
    used,     \* identifiers that were ever registered
    items     \* [Device -> SUBSET Item], what is attached to the device

rvars == <<owner, used, items>>

Init ==
    /\ owner = [d \in Device |-> Nobody]
    /\ used = {}
    /\ items = [d \in Device |-> {}]

Register(u, d) ==
    /\ d \notin used
    /\ owner' = [owner EXCEPT ![d] = u]
    /\ used' = used \cup {d}
    /\ UNCHANGED items

\* The removal takes the attachments with it, in the same step.
Remove(d) ==
    /\ owner[d] # Nobody
    /\ owner' = [owner EXCEPT ![d] = Nobody]
    /\ items' = [items EXCEPT ![d] = {}]
    /\ UNCHANGED used

Attach(d, i) ==
    /\ owner[d] # Nobody
    /\ items' = [items EXCEPT ![d] = @ \cup {i}]
    /\ UNCHANGED <<owner, used>>

Detach(d, i) ==
    /\ items' = [items EXCEPT ![d] = @ \ {i}]
    /\ UNCHANGED <<owner, used>>

Next ==
    \E d \in Device :
        \/ \E u \in User : Register(u, d)
        \/ Remove(d)
        \/ \E i \in Item : Attach(d, i) \/ Detach(d, i)

Spec == Init /\ [][Next]_rvars
=============================================================================
