----------------------------- MODULE EagerStore -----------------------------
(***************************************************************************)
(* What a reader of the live store is promised: a map from names to        *)
(* objects, in which an object that was put stays until it is deleted or   *)
(* its channel is cleared.  A segment that is deleted is there for Grace   *)
(* from its first deletion on, and goes at that very moment; nothing has   *)
(* to be purged, and a store that is refused changes nothing.              *)
(***************************************************************************)
EXTENDS Naturals, Functions

CONSTANTS
    Channel, Name,
    Segment,        \* the names whose deletion is put off
    Sizes,          \* what an object is
    Grace

VARIABLES
    shown,      \* shown[c]: the objects of c
    ends,       \* ends[c]: when the deleted segments of c go
    now

vars == <<shown, ends, now>>

Nothing == [n \in {} |-> 0]
Without(f, S) == Restrict(f, DOMAIN f \ S)
Over(c, time) == {n \in DOMAIN ends[c] : time >= ends[c][n]}

Init ==
    /\ shown = [c \in Channel |-> Nothing]
    /\ ends = [c \in Channel |-> Nothing]
    /\ now = 0

Put(c, n, size) ==
    /\ shown' = [shown EXCEPT ![c] = [m \in DOMAIN @ \cup {n} |->
                                        IF m = n THEN size ELSE @[m]]]
    /\ ends' = [ends EXCEPT ![c] = Without(@, {n})]
    /\ UNCHANGED now

Schedule(c, n) ==
    /\ n \in DOMAIN shown[c] \ DOMAIN ends[c]
    /\ ends' = [ends EXCEPT ![c] = [m \in DOMAIN @ \cup {n} |->
                                      IF m = n THEN now + Grace ELSE @[m]]]
    /\ UNCHANGED <<shown, now>>

Remove(c, n) ==
    /\ shown' = [shown EXCEPT ![c] = Without(@, {n})]
    /\ UNCHANGED <<ends, now>>

Clear(c) ==
    /\ shown' = [shown EXCEPT ![c] = Nothing]
    /\ ends' = [ends EXCEPT ![c] = Nothing]
    /\ UNCHANGED now

\* Time passes, and takes what is over.
Tick ==
    /\ now' = now + 1
    /\ shown' = [c \in Channel |-> Without(shown[c], Over(c, now'))]
    /\ ends' = [c \in Channel |-> Without(ends[c], Over(c, now'))]

Next ==
    \/ \E c \in Channel, n \in Name, size \in Sizes : Put(c, n, size)
    \/ \E c \in Channel, n \in Segment : Schedule(c, n)
    \/ \E c \in Channel, n \in Name \ Segment : Remove(c, n)
    \/ \E c \in Channel : Clear(c)
    \/ Tick

Spec == Init /\ [][Next]_vars
=============================================================================
