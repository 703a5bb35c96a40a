------------------------------ MODULE LiveStore ------------------------------
(***************************************************************************)
(* The in-memory store of live media (LiveStore in stream/live.go, the     *)
(* isolated store with tracked sizes).  Every operation runs under the     *)
(* store's lock and is one action; an object is its size.                  *)
(*                                                                         *)
(* A deleted segment stays readable for a grace period, because players    *)
(* still hold playlists that name it: the deadline is only noted, and the  *)
(* next store or delete on the channel purges what is due.                 *)
(***************************************************************************)
EXTENDS Integers, FiniteSets, Functions

CONSTANTS
    Channel,
    Name,               \* object names of a channel
    Segment,            \* those that are media segments
    Sizes,              \* object sizes
    MaxChannelBytes, MaxTotalBytes,
    Grace,              \* deleteGrace
    MaxNow              \* bounds the clock

ASSUME SegmentAssumption == Segment \subseteq Name
ASSUME SizeAssumption == Sizes \subseteq Nat
ASSUME LimitAssumption == MaxChannelBytes \in Nat \ {0} /\ MaxTotalBytes \in Nat \ {0}
ASSUME TimeAssumption == Grace \in Nat \ {0} /\ MaxNow \in Nat

VARIABLES
    items,          \* items[c]: the sizes of the objects of c
    deadline,       \* deleteAfter[c]: when the deleted segments of c go
    channelBytes, totalBytes,
    now,
    wanted          \* bookkeeping: the objects put and not deleted since

vars == <<items, deadline, channelBytes, totalBytes, now, wanted>>

Held(c) == DOMAIN items[c]
Pending(c) == DOMAIN deadline[c]

TypeOK ==
    /\ items \in [Channel -> UNION {[S -> Sizes] : S \in SUBSET Name}]
    /\ deadline \in [Channel -> UNION {[S -> 1..(MaxNow + Grace)] : S \in SUBSET Segment}]
    /\ channelBytes \in [Channel -> 0..MaxChannelBytes]
    /\ totalBytes \in 0..MaxTotalBytes
    /\ now \in 0..MaxNow
    /\ wanted \subseteq Channel \X Name

Nothing == [n \in {} |-> 0]

Init ==
    /\ items = [c \in Channel |-> Nothing]
    /\ deadline = [c \in Channel |-> Nothing]
    /\ channelBytes = [c \in Channel |-> 0]
    /\ totalBytes = 0
    /\ now = 0
    /\ wanted = {}

Without(f, S) == Restrict(f, DOMAIN f \ S)

\* The sum of the sizes f[x] of the x in S: the number of their bytes, of which the
\* i-th of x is <<x, i>>.
Bytes(f, S) == UNION {{x} \X (1..f[x]) : x \in S}

Total(f, S) == Cardinality(Bytes(f, S))

\* purgeDeletedLocked: the segments of c whose grace is over.
Due(c) == {n \in Pending(c) : now >= deadline[c][n]}

Kept(c) == Held(c) \ Due(c)

DueBytes(c) == Total(items[c], Due(c))

PreviousSize(c, n) == IF n \in Kept(c) THEN items[c][n] ELSE 0

\* capacityAfterStoreLocked, after the purge.
Growth(c, n, size) == size - PreviousSize(c, n) - DueBytes(c)

\* Mutant: only the capacity of the channel is looked at.
FitsChannel(c, n, size) == channelBytes[c] + Growth(c, n, size) <= MaxChannelBytes

Fits(c, n, size) ==
    /\ channelBytes[c] + Growth(c, n, size) <= MaxChannelBytes
    /\ totalBytes + Growth(c, n, size) <= MaxTotalBytes

-----------------------------------------------------------------------------
\* Mutant: the purge forgets the total.
DropFromChannel(c, S) ==
    /\ items' = [items EXCEPT ![c] = Without(@, S)]
    /\ channelBytes' = [channelBytes EXCEPT ![c] = @ - Total(items[c], S)]
    /\ UNCHANGED totalBytes

\* Mutant: the purge removes the deadlines and leaves the objects.
DropDeadlines(c, S) == UNCHANGED <<items, channelBytes, totalBytes>>

\* deleteObjectLocked for every name of S.
Drop(c, S) ==
    /\ items' = [items EXCEPT ![c] = Without(@, S)]
    /\ channelBytes' = [channelBytes EXCEPT ![c] = @ - Total(items[c], S)]
    /\ totalBytes' = totalBytes - Total(items[c], S)

\* Mutant: a name that is put again stays scheduled for deletion.
StoreObjectStillDue(c, n, size) ==
    /\ Fits(c, n, size)
    /\ items' = [items EXCEPT ![c] = [m \in Kept(c) \cup {n} |->
                                        IF m = n THEN size ELSE items[c][m]]]
    /\ deadline' = [deadline EXCEPT ![c] = Without(@, Due(c))]
    /\ channelBytes' = [channelBytes EXCEPT ![c] = @ + Growth(c, n, size)]
    /\ totalBytes' = totalBytes + Growth(c, n, size)
    /\ wanted' = wanted \cup {<<c, n>>}
    /\ UNCHANGED now

StoreObject(c, n, size) ==
    /\ Fits(c, n, size)
    /\ items' = [items EXCEPT ![c] = [m \in Kept(c) \cup {n} |->
                                        IF m = n THEN size ELSE items[c][m]]]
    /\ deadline' = [deadline EXCEPT ![c] = Without(@, Due(c) \cup {n})]
    /\ channelBytes' = [channelBytes EXCEPT ![c] = @ + Growth(c, n, size)]
    /\ totalBytes' = totalBytes + Growth(c, n, size)
    /\ wanted' = wanted \cup {<<c, n>>}
    /\ UNCHANGED now

\* A store beyond the capacity only purges.
RefuseObject(c, n, size) ==
    /\ ~Fits(c, n, size)
    /\ Drop(c, Due(c))
    /\ deadline' = [deadline EXCEPT ![c] = Without(@, Due(c))]
    /\ UNCHANGED <<now, wanted>>

\* Mutant: a second delete of a segment starts the grace period again.
DeleteSegmentAgain(c, n) ==
    /\ n \in Segment \cap Kept(c)
    /\ Drop(c, Due(c))
    /\ deadline' = [deadline EXCEPT ![c] = [m \in (Pending(c) \ Due(c)) \cup {n} |->
                                        IF m = n THEN now + Grace ELSE deadline[c][m]]]
    /\ wanted' = wanted \ {<<c, n>>}
    /\ UNCHANGED now

\* DeleteObject of a segment: it is scheduled, once.
DeleteSegment(c, n) ==
    /\ n \in Segment \cap Kept(c)
    /\ Drop(c, Due(c))
    /\ deadline' = [deadline EXCEPT ![c] = [m \in (Pending(c) \ Due(c)) \cup {n} |->
                                        IF m \in Pending(c) THEN deadline[c][m]
                                        ELSE now + Grace]]
    /\ wanted' = wanted \ {<<c, n>>}
    /\ UNCHANGED now

\* DeleteObject of anything else, or of a name the store does not hold.
DeleteOther(c, n) ==
    /\ n \notin Segment \cap Kept(c)
    /\ Drop(c, Due(c) \cup (Held(c) \cap {n}))
    /\ deadline' = [deadline EXCEPT ![c] = Without(@, Due(c))]
    /\ wanted' = wanted \ {<<c, n>>}
    /\ UNCHANGED now

\* ResetChannel and ClearChannel, when a stream starts and when it has ended.
EmptyChannel(c) ==
    /\ items' = [items EXCEPT ![c] = Nothing]
    /\ deadline' = [deadline EXCEPT ![c] = Nothing]
    /\ channelBytes' = [channelBytes EXCEPT ![c] = 0]
    /\ totalBytes' = totalBytes - channelBytes[c]
    /\ wanted' = wanted \ ({c} \X Name)
    /\ UNCHANGED now

Tick ==
    /\ now < MaxNow
    /\ now' = now + 1
    /\ UNCHANGED <<items, deadline, channelBytes, totalBytes, wanted>>

Next ==
    \/ \E c \in Channel, n \in Name, size \in Sizes :
           StoreObject(c, n, size) \/ RefuseObject(c, n, size)
    \/ \E c \in Channel, n \in Name : DeleteSegment(c, n) \/ DeleteOther(c, n)
    \/ \E c \in Channel : EmptyChannel(c)
    \/ Tick

Spec == Init /\ [][Next]_vars

-----------------------------------------------------------------------------
(* Properties.                                                             *)

\* GetObject returns the object: it hides what is due before anything purges it.
Served(c, n) ==
    /\ n \in Held(c)
    /\ n \in Pending(c) => now < deadline[c][n]

\* The counters, which are only ever adjusted, are what a scan would find: no store,
\* replacement, purge or clear makes them drift, so capacity is neither lost nor
\* overdrawn however long a stream runs.
AccountingIsExact ==
    /\ \A c \in Channel : channelBytes[c] = Total(items[c], Held(c))
    /\ totalBytes = Total(channelBytes, Channel)

\* An object that was put, and not deleted since, is served: a deletion scheduled
\* before it was put again does not take it, nor does a refused store.
PutIsServed == \A cn \in wanted : Served(cn[1], cn[2])

\* A segment that is deleted is served for its grace period, no less and no more: it
\* goes after the period or with its channel, not before, and deleting it again does
\* not prolong its life.
GraceIsExact ==
    [][\A c \in Channel :
        /\ \A n \in Segment : Served(c, n) /\ ~Served(c, n)' =>
               \/ n \in Pending(c) /\ now' >= deadline[c][n]
               \/ items'[c] = Nothing
        /\ \A n \in Pending(c) \cap Pending(c)' :
               deadline'[c][n] = deadline[c][n]]_vars

\* A deleted segment does not come back when its grace period is over: it is served
\* again only if it is put again.
DeletedIsGone ==
    [][\A c \in Channel : \A n \in Name :
           ~Served(c, n) /\ Served(c, n)' => <<c, n>> \in wanted']_vars

\* A reader cannot tell this store, which purges with the next store or delete, from one
\* that loses a deleted segment at the end of its grace period.
Shown == [c \in Channel |-> Without(items[c], Due(c))]
Ends == [c \in Channel |-> Without(deadline[c], Due(c))]
Eager == INSTANCE EagerStore WITH shown <- Shown, ends <- Ends

ImplementsEagerStore == Eager!Spec
=============================================================================
