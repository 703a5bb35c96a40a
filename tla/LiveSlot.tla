------------------------------ MODULE LiveSlot ------------------------------
(***************************************************************************)
(* What the live-stream registry promises, without its locks and threads:  *)
(* a channel is a slot with at most one tenant, a generation is a tenant   *)
(* at most once, only the tenant publishes, the tenant's objects are wiped *)
(* while it still holds the slot, and nothing is published after that.     *)
(***************************************************************************)
EXTENDS FiniteSets

CONSTANTS Channel, Gen, None

VARIABLES
    tenant,     \* the generation that holds a channel
    closed,     \* the channels whose tenant has been wiped and must leave
    used,       \* the generations that have held a channel
    content     \* the generations that have an object in a channel

vars == <<tenant, closed, used, content>>

Init ==
    /\ tenant = [c \in Channel |-> None]
    /\ closed = {}
    /\ used = {}
    /\ content = [c \in Channel |-> {}]

MoveIn(g, c) ==
    /\ tenant[c] = None
    /\ g \notin used
    /\ tenant' = [tenant EXCEPT ![c] = g]
    /\ used' = used \cup {g}
    /\ content' = [content EXCEPT ![c] = {}]
    /\ UNCHANGED closed

\* The tenant stores or drops objects of its own.
Publish(c) ==
    /\ tenant[c] # None
    /\ c \notin closed
    /\ \E objects \in SUBSET {tenant[c]} :
           content' = [content EXCEPT ![c] = objects]
    /\ UNCHANGED <<tenant, closed, used>>

Wipe(c) ==
    /\ tenant[c] # None
    /\ closed' = closed \cup {c}
    /\ content' = [content EXCEPT ![c] = {}]
    /\ UNCHANGED <<tenant, used>>

MoveOut(c) ==
    /\ c \in closed
    /\ tenant' = [tenant EXCEPT ![c] = None]
    /\ closed' = closed \ {c}
    /\ UNCHANGED <<used, content>>

Next ==
    \/ \E g \in Gen, c \in Channel : MoveIn(g, c)
    \/ \E c \in Channel : Publish(c) \/ Wipe(c) \/ MoveOut(c)

Spec == Init /\ [][Next]_vars
=============================================================================
