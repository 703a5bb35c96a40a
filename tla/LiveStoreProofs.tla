--------------------------- MODULE LiveStoreProofs ---------------------------
(***************************************************************************)
(* What a reader of the live store sees, and what its byte counters count, *)
(* for any number of channels, names and sizes and any grace period.       *)
(***************************************************************************)
EXTENDS LiveStore, FiniteSetTheorems, TLAPS

Sized == UNION {[S -> Sizes] : S \in SUBSET Name}
Dated == UNION {[S -> Nat] : S \in SUBSET Segment}

Shape ==
    /\ items \in [Channel -> Sized]
    /\ deadline \in [Channel -> Dated]
    /\ now \in Nat
    /\ wanted \subseteq Channel \X Name

\* A deadline belongs to an object that is still there.
PendingIsHeld == \A c \in Channel : Pending(c) \subseteq Held(c)

\* What was put and not deleted is there and has no deadline.
WantedIsHeld ==
    \A c \in Channel, n \in Name : <<c, n>> \in wanted => n \in Held(c) \ Pending(c)

StoreInv == Shape /\ PendingIsHeld /\ WantedIsHeld

-----------------------------------------------------------------------------
\* Removing names from a function keeps the others and their values.
LEMMA WithoutSome ==
    ASSUME NEW f, NEW S
    PROVE  /\ Without(f, S) = [n \in DOMAIN f \ S |-> f[n]]
           /\ DOMAIN Without(f, S) = DOMAIN f \ S
           /\ \A n \in DOMAIN f \ S : Without(f, S)[n] = f[n]
  BY DEF Without, Restrict

LEMMA WithoutLeft ==
    ASSUME NEW f, NEW S, NEW n \in DOMAIN Without(f, S)
    PROVE  n \in DOMAIN f \ S /\ Without(f, S)[n] = f[n]
  BY DEF Without, Restrict

LEMMA WithoutSized ==
    ASSUME NEW f \in Sized, NEW S
    PROVE  Without(f, S) \in Sized
<1>1. PICK T \in SUBSET Name : f \in [T -> Sizes]
  BY DEF Sized
<1>2. Without(f, S) \in [T \ S -> Sizes]
  <2>1. DOMAIN f = T /\ \A n \in T : f[n] \in Sizes
    BY <1>1
  <2>2. Without(f, S) = [n \in T \ S |-> f[n]]
    BY <2>1, WithoutSome
  <2>3. QED
    BY <2>1, <2>2
<1>3. QED
  BY <1>2 DEF Sized

LEMMA WithoutDated ==
    ASSUME NEW f \in Dated, NEW S
    PROVE  Without(f, S) \in Dated
<1>1. PICK T \in SUBSET Segment : f \in [T -> Nat]
  BY DEF Dated
<1>2. Without(f, S) \in [T \ S -> Nat]
  <2>1. DOMAIN f = T /\ \A n \in T : f[n] \in Nat
    BY <1>1
  <2>2. Without(f, S) = [n \in T \ S |-> f[n]]
    BY <2>1, WithoutSome
  <2>3. QED
    BY <2>1, <2>2
<1>3. QED
  BY <1>2 DEF Dated

\* What is due is pending, and so held.
LEMMA DueIsPending ==
    ASSUME NEW c \in Channel
    PROVE  Due(c) \subseteq Pending(c) /\ Kept(c) \subseteq Held(c)
  BY DEF Due, Kept

\* The two maps of a channel as functions.
LEMMA ChannelMaps ==
    ASSUME Shape, NEW c \in Channel
    PROVE  /\ items[c] \in [Held(c) -> Sizes] /\ Held(c) \subseteq Name
           /\ deadline[c] \in [Pending(c) -> Nat] /\ Pending(c) \subseteq Segment
<1>1. items[c] \in Sized /\ deadline[c] \in Dated
  BY DEF Shape
<1>2. PICK S \in SUBSET Name : items[c] \in [S -> Sizes]
  BY <1>1 DEF Sized
<1>3. PICK T \in SUBSET Segment : deadline[c] \in [T -> Nat]
  BY <1>1 DEF Dated
<1>4. QED
  BY <1>2, <1>3 DEF Held, Pending

-----------------------------------------------------------------------------
LEMMA InitStore == Init => StoreInv
<1>1. Nothing \in Sized /\ Nothing \in Dated
  <2>1. Nothing \in [{} -> Sizes] /\ Nothing \in [{} -> Nat]
    BY DEF Nothing
  <2>2. QED
    BY <2>1 DEF Sized, Dated
<1>2. DOMAIN Nothing = {}
  BY DEF Nothing
<1>3. QED
  BY <1>1, <1>2 DEF Init, StoreInv, Shape, PendingIsHeld, WantedIsHeld, Held, Pending

\* A store takes what is due and leaves the rest, with the object put.
LEMMA StoreKeeps ==
    ASSUME StoreInv, NEW c \in Channel, NEW n \in Name, NEW size \in Sizes,
           StoreObject(c, n, size)
    PROVE  StoreInv'
<1>1. items[c] \in [Held(c) -> Sizes] /\ Held(c) \subseteq Name
  BY ChannelMaps DEF StoreInv
<1> DEFINE it == [m \in Kept(c) \cup {n} |-> IF m = n THEN size ELSE items[c][m]]
           de == Without(deadline[c], Due(c) \cup {n})
<1>2. /\ items' = [items EXCEPT ![c] = it]
      /\ deadline' = [deadline EXCEPT ![c] = de]
      /\ wanted' = wanted \cup {<<c, n>>}
      /\ now' = now
  BY DEF StoreObject
<1>3. it \in Sized
  <2>1. it \in [Kept(c) \cup {n} -> Sizes]
    BY <1>1, DueIsPending
  <2>2. Kept(c) \cup {n} \in SUBSET Name
    BY <1>1, DueIsPending
  <2>3. QED
    BY <2>1, <2>2 DEF Sized
<1>4. de \in Dated
  BY WithoutDated DEF StoreInv, Shape
<1>5. DOMAIN it = Kept(c) \cup {n} /\ DOMAIN de = Pending(c) \ (Due(c) \cup {n})
  BY WithoutSome DEF Pending
<1> HIDE DEF it, de
<1>6. Shape'
  BY <1>2, <1>3, <1>4 DEF StoreInv, Shape
<1>7. /\ Held(c)' = Kept(c) \cup {n}
      /\ Pending(c)' = Pending(c) \ (Due(c) \cup {n})
      /\ \A d \in Channel \ {c} : Held(d)' = Held(d) /\ Pending(d)' = Pending(d)
  BY <1>2, <1>5 DEF Held, Pending, StoreInv, Shape
<1>8. QED
  BY <1>2, <1>6, <1>7, DueIsPending DEF StoreInv, PendingIsHeld, WantedIsHeld, Kept

\* What Drop and the deadlines of an action leave, for the actions that only take.
LEMMA TakeKeeps ==
    ASSUME StoreInv, NEW c \in Channel, NEW S, NEW f \in Dated,
           Due(c) \subseteq S, S \subseteq Held(c),
           S = Due(c) \/ (S \ Due(c)) \cap DOMAIN f = {},
           DOMAIN f \subseteq Kept(c),
           items' = [items EXCEPT ![c] = Without(@, S)],
           deadline' = [deadline EXCEPT ![c] = f],
           wanted' \subseteq wanted,
           \A n \in Name : <<c, n>> \in wanted' => n \notin S \cup DOMAIN f,
           now' = now
    PROVE  StoreInv'
<1>1. Without(items[c], S) \in Sized
  BY WithoutSized DEF StoreInv, Shape
<1>2. Shape'
  BY <1>1 DEF StoreInv, Shape
<1>3. /\ Held(c)' = Held(c) \ S
      /\ Pending(c)' = DOMAIN f
      /\ \A d \in Channel \ {c} : Held(d)' = Held(d) /\ Pending(d)' = Pending(d)
  BY WithoutSome DEF Held, Pending, StoreInv, Shape
<1>4. QED
  BY <1>2, <1>3 DEF StoreInv, PendingIsHeld, WantedIsHeld, Kept

LEMMA RefuseKeeps ==
    ASSUME StoreInv, NEW c \in Channel, NEW n \in Name, NEW size \in Sizes,
           RefuseObject(c, n, size)
    PROVE  StoreInv'
<1> DEFINE f == Without(deadline[c], Due(c))
<1>1. f \in Dated /\ DOMAIN f = Pending(c) \ Due(c)
  BY WithoutDated, WithoutSome DEF StoreInv, Shape, Pending
<1>2. Due(c) \subseteq Held(c) /\ DOMAIN f \subseteq Kept(c)
  BY <1>1, DueIsPending DEF StoreInv, PendingIsHeld, Kept
<1>3. \A m \in Name : <<c, m>> \in wanted => m \notin Due(c) \cup DOMAIN f
  BY <1>1, DueIsPending DEF StoreInv, WantedIsHeld
<1>4. /\ items' = [items EXCEPT ![c] = Without(@, Due(c))]
      /\ deadline' = [deadline EXCEPT ![c] = f]
      /\ wanted' = wanted /\ now' = now
  BY DEF RefuseObject, Drop
<1> HIDE DEF f
<1>5. QED
  BY <1>1, <1>2, <1>3, <1>4, TakeKeeps

LEMMA DeleteSegmentKeeps ==
    ASSUME StoreInv, NEW c \in Channel, NEW n \in Name, DeleteSegment(c, n)
    PROVE  StoreInv'
<1> DEFINE f == [m \in (Pending(c) \ Due(c)) \cup {n} |->
                    IF m \in Pending(c) THEN deadline[c][m] ELSE now + Grace]
<1>1. f \in Dated
  <2>1. deadline[c] \in [Pending(c) -> Nat] /\ Pending(c) \subseteq Segment
    BY ChannelMaps DEF StoreInv
  <2>2. now + Grace \in Nat
    BY TimeAssumption DEF StoreInv, Shape
  <2>3. f \in [(Pending(c) \ Due(c)) \cup {n} -> Nat]
    BY <2>1, <2>2
  <2>4. (Pending(c) \ Due(c)) \cup {n} \in SUBSET Segment
    BY <2>1 DEF DeleteSegment
  <2>5. QED
    BY <2>3, <2>4 DEF Dated
<1>2. DOMAIN f = (Pending(c) \ Due(c)) \cup {n}
  OBVIOUS
<1>3. /\ items' = [items EXCEPT ![c] = Without(@, Due(c))]
      /\ deadline' = [deadline EXCEPT ![c] = f]
      /\ wanted' = wanted \ {<<c, n>>} /\ now' = now
      /\ n \in Kept(c)
  BY DEF DeleteSegment, Drop
<1> HIDE DEF f
<1>4. Due(c) \subseteq Held(c) /\ DOMAIN f \subseteq Kept(c)
  BY <1>2, <1>3, DueIsPending DEF StoreInv, PendingIsHeld, Kept
<1>5. \A m \in Name : <<c, m>> \in wanted' => m \notin Due(c) \cup DOMAIN f
  BY <1>2, <1>3, DueIsPending DEF StoreInv, WantedIsHeld
<1>6. QED
  BY <1>1, <1>3, <1>4, <1>5, TakeKeeps

LEMMA DeleteOtherKeeps ==
    ASSUME StoreInv, NEW c \in Channel, NEW n \in Name, DeleteOther(c, n)
    PROVE  StoreInv'
<1> DEFINE f == Without(deadline[c], Due(c))
           S == Due(c) \cup (Held(c) \cap {n})
<1>1. f \in Dated /\ DOMAIN f = Pending(c) \ Due(c)
  BY WithoutDated, WithoutSome DEF StoreInv, Shape, Pending
<1>2. S \subseteq Held(c) /\ DOMAIN f \subseteq Kept(c) /\ Due(c) \subseteq S
  BY <1>1, DueIsPending DEF StoreInv, PendingIsHeld, Kept
<1>3. (S \ Due(c)) \cap DOMAIN f = {}
  <2>1. Pending(c) \subseteq Segment /\ Pending(c) \subseteq Held(c)
    BY ChannelMaps DEF StoreInv, PendingIsHeld
  <2>2. QED
    BY <1>1, <2>1 DEF DeleteOther, Kept
<1>4. /\ items' = [items EXCEPT ![c] = Without(@, S)]
      /\ deadline' = [deadline EXCEPT ![c] = f]
      /\ wanted' = wanted \ {<<c, n>>} /\ now' = now
  BY DEF DeleteOther, Drop
<1>5. \A m \in Name : <<c, m>> \in wanted' => m \notin S \cup DOMAIN f
  BY <1>1, <1>4, DueIsPending DEF StoreInv, WantedIsHeld
<1> HIDE DEF f, S
<1>6. QED
  BY <1>1, <1>2, <1>3, <1>4, <1>5, TakeKeeps

LEMMA EmptyKeeps ==
    ASSUME StoreInv, NEW c \in Channel, EmptyChannel(c)
    PROVE  StoreInv'
<1>1. Nothing \in Sized /\ Nothing \in Dated /\ DOMAIN Nothing = {}
  <2>1. Nothing \in [{} -> Sizes] /\ Nothing \in [{} -> Nat]
    BY DEF Nothing
  <2>2. QED
    BY <2>1 DEF Sized, Dated
<1>2. Shape'
  BY <1>1 DEF EmptyChannel, StoreInv, Shape
<1>3. /\ Held(c)' = {} /\ Pending(c)' = {}
      /\ \A d \in Channel \ {c} : Held(d)' = Held(d) /\ Pending(d)' = Pending(d)
  BY <1>1 DEF EmptyChannel, Held, Pending, StoreInv, Shape
<1>4. QED
  BY <1>2, <1>3 DEF EmptyChannel, StoreInv, PendingIsHeld, WantedIsHeld

LEMMA StoreStep == StoreInv /\ [Next]_vars => StoreInv'
<1> SUFFICES ASSUME StoreInv, [Next]_vars PROVE StoreInv'
  OBVIOUS
<1>1. ASSUME NEW c \in Channel, NEW n \in Name, NEW size \in Sizes, StoreObject(c, n, size)
      PROVE  StoreInv'
  BY <1>1, StoreKeeps
<1>2. ASSUME NEW c \in Channel, NEW n \in Name, NEW size \in Sizes, RefuseObject(c, n, size)
      PROVE  StoreInv'
  BY <1>2, RefuseKeeps
<1>3. ASSUME NEW c \in Channel, NEW n \in Name, DeleteSegment(c, n) PROVE StoreInv'
  BY <1>3, DeleteSegmentKeeps
<1>4. ASSUME NEW c \in Channel, NEW n \in Name, DeleteOther(c, n) PROVE StoreInv'
  BY <1>4, DeleteOtherKeeps
<1>5. ASSUME NEW c \in Channel, EmptyChannel(c) PROVE StoreInv'
  BY <1>5, EmptyKeeps
<1>6. CASE Tick
  BY <1>6 DEF Tick, StoreInv, Shape, PendingIsHeld, WantedIsHeld, Held, Pending
<1>7. CASE UNCHANGED vars
  BY <1>7 DEF vars, StoreInv, Shape, PendingIsHeld, WantedIsHeld, Held, Pending
<1>8. QED
  BY <1>1, <1>2, <1>3, <1>4, <1>5, <1>6, <1>7 DEF Next

\* The maps keep their shape, a pending deletion is of an object that is held, and an
\* object that was put and not deleted has no pending deletion.
THEOREM Invariance == Spec => []StoreInv
<1>1. QED
  BY InitStore, StoreStep, PTL DEF Spec

\* A put object is served until it is deleted (LiveStore.StoreObject cancels the
\* deletion that was pending for its name).
THEOREM PutServed == Spec => []PutIsServed
<1>1. StoreInv => PutIsServed
  BY DEF StoreInv, Shape, WantedIsHeld, PutIsServed, Served
<1>2. QED
  BY <1>1, Invariance, PTL

-----------------------------------------------------------------------------
\* The deadline of a name that stays pending is not moved by any operation.
LEMMA DeadlineStays ==
    ASSUME StoreInv, [Next]_vars, NEW c \in Channel, NEW n \in Pending(c) \cap Pending(c)'
    PROVE  deadline'[c][n] = deadline[c][n]
<1>0. deadline[c] \in [Pending(c) -> Nat] /\ deadline \in [Channel -> Dated]
  BY ChannelMaps DEF StoreInv, Shape
<1>1. ASSUME NEW d \in Channel, NEW S,
             deadline' = [deadline EXCEPT ![d] = Without(@, S)]
      PROVE  deadline'[c][n] = deadline[c][n]
  <2>1. CASE d # c
    BY <1>0, <1>1, <2>1
  <2>2. CASE d = c
    <3>1. deadline'[c] = Without(deadline[c], S)
      BY <1>0, <1>1, <2>2
    <3>2. n \in DOMAIN Without(deadline[c], S)
      BY <3>1 DEF Pending
    <3>3. Without(deadline[c], S)[n] = deadline[c][n]
      BY <3>2, WithoutLeft
    <3>4. QED
      BY <3>1, <3>3
  <2>3. QED
    BY <2>1, <2>2
<1>2. ASSUME NEW d \in Channel, NEW m \in Name, NEW size \in Sizes,
             StoreObject(d, m, size) \/ RefuseObject(d, m, size)
      PROVE  deadline'[c][n] = deadline[c][n]
  <2>1. \/ deadline' = [deadline EXCEPT ![d] = Without(@, Due(d) \cup {m})]
        \/ deadline' = [deadline EXCEPT ![d] = Without(@, Due(d))]
    BY <1>2 DEF StoreObject, RefuseObject
  <2>2. QED
    BY <2>1, <1>1
<1>3. ASSUME NEW d \in Channel, NEW m \in Name, DeleteSegment(d, m)
      PROVE  deadline'[c][n] = deadline[c][n]
  BY <1>0, <1>3 DEF DeleteSegment, Pending
<1>4. ASSUME NEW d \in Channel, NEW m \in Name, DeleteOther(d, m)
      PROVE  deadline'[c][n] = deadline[c][n]
  <2>1. deadline' = [deadline EXCEPT ![d] = Without(@, Due(d))]
    BY <1>4 DEF DeleteOther
  <2>2. QED
    BY <2>1, <1>1
<1>5. ASSUME NEW d \in Channel, EmptyChannel(d)
      PROVE  deadline'[c][n] = deadline[c][n]
  <2>1. DOMAIN Nothing = {}
    BY DEF Nothing
  <2>2. QED
    BY <1>0, <1>5, <2>1 DEF EmptyChannel, Pending
<1>6. CASE Tick \/ UNCHANGED vars
  BY <1>6 DEF Tick, vars
<1>7. QED
  BY <1>2, <1>3, <1>4, <1>5, <1>6 DEF Next

\* What is not due stays, and so does what is not pending: the common shape of a step
\* that purges channel d, where m is the object the step is about.
LEMMA PurgeSpares ==
    ASSUME StoreInv, NEW d \in Channel, NEW S, NEW c \in Channel, NEW n \in Held(c),
           items' = [items EXCEPT ![d] = Without(@, S)], c = d => n \notin S
    PROVE  n \in Held(c)'
<1>1. CASE c # d
  BY <1>1 DEF StoreInv, Shape, Held
<1>2. CASE c = d
  <2>1. items'[c] = Without(items[c], S)
    BY <1>2 DEF StoreInv, Shape
  <2>2. DOMAIN Without(items[c], S) = DOMAIN items[c] \ S
    BY WithoutSome
  <2>3. QED
    BY <1>2, <2>1, <2>2 DEF Held
<1>3. QED
  BY <1>1, <1>2

\* Purging makes nothing pending.
LEMMA PendingShrinks ==
    ASSUME StoreInv, NEW d \in Channel, NEW S, NEW c \in Channel, NEW n \in Pending(c)',
           deadline' = [deadline EXCEPT ![d] = Without(@, S)]
    PROVE  n \in Pending(c)
<1>1. CASE c # d
  BY <1>1 DEF StoreInv, Shape, Pending
<1>2. CASE c = d
  <2>1. deadline'[c] = Without(deadline[c], S)
    BY <1>2 DEF StoreInv, Shape
  <2>2. n \in DOMAIN Without(deadline[c], S)
    BY <2>1 DEF Pending
  <2>3. QED
    BY <2>2, WithoutLeft DEF Pending
<1>3. QED
  BY <1>1, <1>2

\* No operation takes a served segment before its time: a store or a delete purges only
\* what is due, and only a clear of the channel takes the rest.
LEMMA ServedStays ==
    ASSUME StoreInv, [Next]_vars, NEW c \in Channel, NEW n \in Segment,
           Served(c, n), ~Served(c, n)'
    PROVE  \/ n \in Pending(c) /\ now' >= deadline[c][n]
           \/ items'[c] = Nothing
<1>0. /\ n \in Name /\ n \in Held(c) /\ now \in Nat
      /\ items \in [Channel -> Sized] /\ deadline \in [Channel -> Dated]
      /\ deadline[c] \in [Pending(c) -> Nat]
      /\ n \in Pending(c) => now < deadline[c][n]
  BY SegmentAssumption, ChannelMaps DEF StoreInv, Shape, Served
<1>1. n \notin Due(c) /\ n \in Kept(c)
  BY <1>0 DEF Due, Kept
<1>2. n \in Pending(c) /\ n \in Pending(c)' /\ now' = now => ~(n \in Held(c)')
  BY <1>0, DeadlineStays DEF Served
<1>3. ASSUME NEW d \in Channel, NEW m \in Name, NEW size \in Sizes, StoreObject(d, m, size)
      PROVE  FALSE
  <2>1. n \in Held(c)' /\ now' = now
    BY <1>0, <1>1, <1>3 DEF StoreObject, Held
  <2>2. n \in Pending(c)'
    BY <2>1 DEF Served
  <2>3. n \in Pending(c)
    <3>1. deadline' = [deadline EXCEPT ![d] = Without(@, Due(d) \cup {m})]
      BY <1>3 DEF StoreObject
    <3>2. QED
      BY <2>2, <3>1, PendingShrinks
  <2>4. QED
    BY <1>2, <2>1, <2>2, <2>3
<1>4. ASSUME NEW d \in Channel, NEW m \in Name, NEW size \in Sizes, RefuseObject(d, m, size)
      PROVE  FALSE
  <2>1. /\ items' = [items EXCEPT ![d] = Without(@, Due(d))]
        /\ deadline' = [deadline EXCEPT ![d] = Without(@, Due(d))]
        /\ now' = now
    BY <1>4 DEF RefuseObject, Drop
  <2>2. n \in Held(c)'
    BY <1>0, <1>1, <2>1, PurgeSpares
  <2>3. n \in Pending(c)'
    BY <2>1, <2>2 DEF Served
  <2>4. n \in Pending(c)
    BY <2>1, <2>3, PendingShrinks
  <2>5. QED
    BY <1>2, <2>1, <2>2, <2>3, <2>4
<1>5. ASSUME NEW d \in Channel, NEW m \in Name, DeleteOther(d, m)
      PROVE  FALSE
  <2>1. /\ items' = [items EXCEPT ![d] = Without(@, Due(d) \cup (Held(d) \cap {m}))]
        /\ deadline' = [deadline EXCEPT ![d] = Without(@, Due(d))]
        /\ now' = now
        /\ m \notin Segment \cap Kept(d)
    BY <1>5 DEF DeleteOther, Drop
  <2>2. n \in Held(c)'
    <3>1. c = d => n \notin Due(d) \cup (Held(d) \cap {m})
      BY <1>1, <2>1
    <3>2. QED
      BY <1>0, <2>1, <3>1, PurgeSpares
  <2>3. n \in Pending(c)'
    BY <2>1, <2>2 DEF Served
  <2>4. n \in Pending(c)
    BY <2>1, <2>3, PendingShrinks
  <2>5. QED
    BY <1>2, <2>1, <2>2, <2>3, <2>4
<1>6. ASSUME NEW d \in Channel, NEW m \in Name, DeleteSegment(d, m)
      PROVE  FALSE
  <2>1. /\ items' = [items EXCEPT ![d] = Without(@, Due(d))]
        /\ now' = now
    BY <1>6 DEF DeleteSegment, Drop
  <2>2. n \in Held(c)'
    BY <1>0, <1>1, <2>1, PurgeSpares
  <2>3. n \in Pending(c)' /\ ~(now < deadline'[c][n])
    BY <2>1, <2>2 DEF Served
  <2>4. CASE c = d
    <3>1. deadline'[c][n] = (IF n \in Pending(c) THEN deadline[c][n] ELSE now + Grace)
      BY <1>0, <1>6, <2>3, <2>4 DEF DeleteSegment, Pending
    <3>2. CASE n \in Pending(c)
      BY <1>0, <2>3, <3>1, <3>2
    <3>3. CASE n \notin Pending(c)
      BY <1>0, <2>3, <3>1, <3>3, TimeAssumption
    <3>4. QED
      BY <3>2, <3>3
  <2>5. CASE c # d
    <3>1. deadline'[c] = deadline[c]
      BY <1>0, <1>6, <2>5 DEF DeleteSegment
    <3>2. QED
      BY <1>0, <2>3, <3>1 DEF Pending
  <2>6. QED
    BY <2>4, <2>5
<1>7. ASSUME NEW d \in Channel, EmptyChannel(d)
      PROVE  items'[c] = Nothing
  <2>1. CASE c = d
    BY <1>0, <1>7, <2>1 DEF EmptyChannel
  <2>2. CASE c # d
    <3>1. items'[c] = items[c] /\ deadline'[c] = deadline[c] /\ now' = now
      BY <1>0, <1>7, <2>2 DEF EmptyChannel
    <3>2. QED
      BY <3>1 DEF Served, Held, Pending
  <2>3. QED
    BY <2>1, <2>2
<1>8. CASE Tick \/ UNCHANGED vars
  <2>1. items' = items /\ deadline' = deadline /\ now' \in Nat
    BY <1>0, <1>8 DEF Tick, vars
  <2>2. n \in Pending(c) /\ ~(now' < deadline[c][n])
    BY <1>0, <2>1 DEF Served, Held, Pending
  <2>3. QED
    BY <1>0, <2>1, <2>2
<1>9. QED
  BY <1>3, <1>4, <1>5, <1>6, <1>7, <1>8 DEF Next

\* A playlist that was served keeps the segments it names for the grace period:
\* nothing but the end of the channel takes them earlier, and a second delete does
\* not prolong it (DeleteObject, purgeDeletedLocked, GetObject).
THEOREM GraceExact == Spec => GraceIsExact
<1>1. StoreInv /\ [Next]_vars =>
          [\A c \in Channel :
            /\ \A n \in Segment : Served(c, n) /\ ~Served(c, n)' =>
                   \/ n \in Pending(c) /\ now' >= deadline[c][n]
                   \/ items'[c] = Nothing
            /\ \A n \in Pending(c) \cap Pending(c)' :
                   deadline'[c][n] = deadline[c][n]]_vars
  BY ServedStays, DeadlineStays
<1>2. QED
  BY <1>1, Invariance, PTL DEF Spec, GraceIsExact

\* A purge brings nothing back.
LEMMA PurgeTakes ==
    ASSUME StoreInv, NEW d \in Channel, NEW S, NEW c \in Channel, NEW n \in Held(c)',
           items' = [items EXCEPT ![d] = Without(@, S)]
    PROVE  n \in Held(c) /\ (c = d => n \notin S)
<1>1. CASE c # d
  BY <1>1 DEF StoreInv, Shape, Held
<1>2. CASE c = d
  <2>1. items'[c] = Without(items[c], S)
    BY <1>2 DEF StoreInv, Shape
  <2>2. n \in DOMAIN Without(items[c], S)
    BY <2>1 DEF Held
  <2>3. QED
    BY <2>2, WithoutLeft DEF Held
<1>3. QED
  BY <1>1, <1>2

\* A name that is hidden stays hidden until it is put: the operations on its channel purge
\* it, those on other channels leave it and its deadline.
LEMMA HiddenStays ==
    ASSUME StoreInv, [Next]_vars, NEW c \in Channel, NEW n \in Name,
           ~Served(c, n), Served(c, n)'
    PROVE  <<c, n>> \in wanted'
<1>0. /\ now \in Nat /\ n \in Held(c)'
      /\ items \in [Channel -> Sized] /\ deadline \in [Channel -> Dated]
      /\ deadline[c] \in [Pending(c) -> Nat]
  BY ChannelMaps DEF StoreInv, Shape, Served
<1>1. n \in Held(c) => n \in Due(c)
  BY <1>0 DEF Served, Due
<1>2. items'[c] = items[c] /\ deadline'[c] = deadline[c] /\ now' = now => FALSE
  BY DEF Served, Held, Pending
<1>3. ASSUME NEW d \in Channel, NEW S, items' = [items EXCEPT ![d] = Without(@, S)],
             Due(d) \subseteq S,
             c # d => deadline'[c] = deadline[c] /\ now' = now
      PROVE  FALSE
  <2>1. n \in Held(c) /\ (c = d => n \notin S)
    BY <1>0, <1>3, PurgeTakes
  <2>2. c # d
    BY <1>1, <1>3, <2>1
  <2>3. items'[c] = items[c]
    BY <1>0, <1>3, <2>2
  <2>4. QED
    BY <1>2, <1>3, <2>2, <2>3
<1>4. ASSUME NEW d \in Channel, NEW m \in Name, NEW size \in Sizes, StoreObject(d, m, size)
      PROVE  <<c, n>> \in wanted'
  <2>1. CASE c # d
    BY <1>0, <1>2, <1>4, <2>1 DEF StoreObject
  <2>2. CASE c = d /\ n # m
    <3>1. n \in Kept(c)
      BY <1>0, <1>4, <2>2 DEF StoreObject, Held
    <3>2. QED
      BY <1>1, <3>1 DEF Kept
  <2>3. CASE c = d /\ n = m
    BY <1>4, <2>3 DEF StoreObject
  <2>4. QED
    BY <2>1, <2>2, <2>3
<1>5. ASSUME NEW d \in Channel, NEW m \in Name, NEW size \in Sizes, RefuseObject(d, m, size)
      PROVE  FALSE
  <2>1. c # d => deadline'[c] = deadline[c] /\ now' = now
    BY <1>0, <1>5 DEF RefuseObject
  <2>2. QED
    BY <1>3, <1>5, <2>1 DEF RefuseObject, Drop
<1>6. ASSUME NEW d \in Channel, NEW m \in Name, DeleteSegment(d, m)
      PROVE  FALSE
  <2>1. c # d => deadline'[c] = deadline[c] /\ now' = now
    BY <1>0, <1>6 DEF DeleteSegment
  <2>2. QED
    BY <1>3, <1>6, <2>1 DEF DeleteSegment, Drop
<1>7. ASSUME NEW d \in Channel, NEW m \in Name, DeleteOther(d, m)
      PROVE  FALSE
  <2>1. c # d => deadline'[c] = deadline[c] /\ now' = now
    BY <1>0, <1>7 DEF DeleteOther
  <2>2. items' = [items EXCEPT ![d] = Without(@, Due(d) \cup (Held(d) \cap {m}))]
    BY <1>7 DEF DeleteOther, Drop
  <2>3. QED
    BY <1>3, <2>1, <2>2
<1>8. ASSUME NEW d \in Channel, EmptyChannel(d)
      PROVE  FALSE
  <2>1. DOMAIN Nothing = {}
    BY DEF Nothing
  <2>2. c # d
    BY <1>0, <1>8, <2>1 DEF EmptyChannel, Held
  <2>3. QED
    BY <1>0, <1>2, <1>8, <2>2 DEF EmptyChannel
<1>9. CASE Tick \/ UNCHANGED vars
  <2>1. items' = items /\ deadline' = deadline /\ now' \in Nat /\ now' >= now
    BY <1>0, <1>9 DEF Tick, vars
  <2>2. n \in Pending(c) /\ now >= deadline[c][n]
    BY <1>0, <1>1, <2>1 DEF Held, Due
  <2>3. QED
    BY <1>0, <2>1, <2>2 DEF Served, Pending
<1>10. QED
  BY <1>4, <1>5, <1>6, <1>7, <1>8, <1>9 DEF Next

\* A deleted segment whose grace period is over is not seen again, although it is still in
\* the map until something purges its channel (GetObject checks the deadline itself).
THEOREM GoneForGood == Spec => DeletedIsGone
<1>1. StoreInv /\ [Next]_vars =>
          [\A c \in Channel : \A n \in Name :
               ~Served(c, n) /\ Served(c, n)' => <<c, n>> \in wanted']_vars
  BY HiddenStays
<1>2. QED
  BY <1>1, Invariance, PTL DEF Spec, DeletedIsGone

-----------------------------------------------------------------------------
(* The byte counters.  A sum is the cardinality of a set of bytes, so its  *)
(* laws are those of disjoint unions.                                      *)

\* The two parts of a sum do not depend on each other.
LEMMA BytesSplit ==
    ASSUME NEW f, NEW S, NEW T, S \cap T = {}
    PROVE  /\ Bytes(f, S \cup T) = Bytes(f, S) \cup Bytes(f, T)
           /\ Bytes(f, S) \cap Bytes(f, T) = {}
  BY DEF Bytes

LEMMA TotalSplit ==
    ASSUME NEW f, NEW S, NEW T, S \cap T = {},
           IsFiniteSet(Bytes(f, S)), IsFiniteSet(Bytes(f, T))
    PROVE  /\ IsFiniteSet(Bytes(f, S \cup T))
           /\ Total(f, S) \in Nat /\ Total(f, T) \in Nat
           /\ Total(f, S \cup T) = Total(f, S) + Total(f, T)
<1>1. /\ Cardinality(Bytes(f, S)) \in Nat
      /\ Cardinality(Bytes(f, T)) \in Nat
  BY FS_CardinalityType
<1>2. Cardinality(Bytes(f, S) \cap Bytes(f, T)) = 0
  BY BytesSplit, FS_EmptySet
<1>3. /\ IsFiniteSet(Bytes(f, S) \cup Bytes(f, T))
      /\ Cardinality(Bytes(f, S) \cup Bytes(f, T))
           = Cardinality(Bytes(f, S)) + Cardinality(Bytes(f, T))
             - Cardinality(Bytes(f, S) \cap Bytes(f, T))
  BY FS_Union
<1>4. Cardinality(Bytes(f, S) \cup Bytes(f, T))
        = Cardinality(Bytes(f, S)) + Cardinality(Bytes(f, T))
  BY <1>1, <1>2, <1>3
<1>5. Bytes(f, S \cup T) = Bytes(f, S) \cup Bytes(f, T)
  BY BytesSplit
<1>6. IsFiniteSet(Bytes(f, S \cup T))
  BY <1>3, <1>5
<1>7. Cardinality(Bytes(f, S \cup T)) = Cardinality(Bytes(f, S)) + Cardinality(Bytes(f, T))
  BY <1>4, <1>5
<1>8. QED
  BY <1>1, <1>6, <1>7 DEF Total

LEMMA PartIsFinite ==
    ASSUME NEW f, NEW S, NEW T \in SUBSET S, IsFiniteSet(Bytes(f, S))
    PROVE  IsFiniteSet(Bytes(f, T)) /\ Total(f, T) \in Nat
<1>1. Bytes(f, T) \in SUBSET Bytes(f, S)
  BY DEF Bytes
<1>2. QED
  BY <1>1, FS_Subset, FS_CardinalityType DEF Total

LEMMA TotalOfPart ==
    ASSUME NEW f, NEW S, NEW T \in SUBSET S, IsFiniteSet(Bytes(f, S))
    PROVE  /\ Total(f, S) \in Nat /\ Total(f, T) \in Nat /\ Total(f, S \ T) \in Nat
           /\ Total(f, S \ T) = Total(f, S) - Total(f, T)
<1>1. S = (S \ T) \cup T /\ (S \ T) \cap T = {} /\ S \ T \in SUBSET S
  OBVIOUS
<1>2. IsFiniteSet(Bytes(f, S \ T)) /\ IsFiniteSet(Bytes(f, T))
  BY <1>1, PartIsFinite
<1>3. /\ Total(f, S \ T) \in Nat /\ Total(f, T) \in Nat
      /\ Total(f, (S \ T) \cup T) = Total(f, S \ T) + Total(f, T)
  BY <1>1, <1>2, TotalSplit
<1>4. Total(f, S) = Total(f, S \ T) + Total(f, T)
  BY <1>1, <1>3
<1>5. Total(f, S) \in Nat
  BY PartIsFinite
<1>6. QED
  BY <1>3, <1>4, <1>5

LEMMA TotalOfOne ==
    ASSUME NEW f, NEW x, f[x] \in Nat
    PROVE  IsFiniteSet(Bytes(f, {x})) /\ Total(f, {x}) = f[x]
<1>1. Bytes(f, {x}) = {x} \X (1..f[x])
  BY DEF Bytes
<1>2. IsFiniteSet({x}) /\ Cardinality({x}) = 1
  BY FS_Singleton
<1>3. IsFiniteSet(1..f[x]) /\ Cardinality(1..f[x]) = f[x]
  BY FS_Interval
<1>4. /\ IsFiniteSet({x} \X (1..f[x]))
      /\ Cardinality({x} \X (1..f[x])) = Cardinality({x}) * Cardinality(1..f[x])
  BY <1>2, <1>3, FS_Product
<1>5. Cardinality({x} \X (1..f[x])) = f[x]
  BY <1>2, <1>3, <1>4
<1>6. QED
  BY <1>1, <1>4, <1>5 DEF Total

LEMMA TotalOfNone ==
    ASSUME NEW f
    PROVE  IsFiniteSet(Bytes(f, {})) /\ Total(f, {}) = 0
  BY FS_EmptySet DEF Bytes, Total

\* Functions that agree have the same bytes.
LEMMA SameBytes ==
    ASSUME NEW f, NEW g, NEW S, \A x \in S : f[x] = g[x]
    PROVE  Bytes(f, S) = Bytes(g, S) /\ Total(f, S) = Total(g, S)
  BY DEF Bytes, Total

\* A sum in which one value changes.
LEMMA TotalChanged ==
    ASSUME NEW f, NEW g, NEW S, NEW x \in S, IsFiniteSet(Bytes(f, S)),
           f[x] \in Nat, g[x] \in Nat, \A y \in S \ {x} : g[y] = f[y]
    PROVE  /\ IsFiniteSet(Bytes(g, S))
           /\ Total(f, S) \in Nat /\ Total(g, S) \in Nat
           /\ Total(g, S) = Total(f, S) - f[x] + g[x]
<1> DEFINE R == S \ {x}
<1>1. S = R \cup {x} /\ R \cap {x} = {} /\ R \in SUBSET S
  OBVIOUS
<1>2. \A y \in R : g[y] = f[y]
  OBVIOUS
<1> HIDE DEF R
<1>3. IsFiniteSet(Bytes(f, R)) /\ Total(f, R) \in Nat
  BY <1>1, PartIsFinite
<1>4. Bytes(g, R) = Bytes(f, R) /\ Total(g, R) = Total(f, R)
  BY <1>2, SameBytes
<1>5. IsFiniteSet(Bytes(f, {x})) /\ Total(f, {x}) = f[x]
  BY TotalOfOne
<1>6. IsFiniteSet(Bytes(g, {x})) /\ Total(g, {x}) = g[x]
  BY TotalOfOne
<1>7. Total(f, R \cup {x}) = Total(f, R) + Total(f, {x})
  BY <1>1, <1>3, <1>5, TotalSplit
<1>8. IsFiniteSet(Bytes(g, R))
  BY <1>3, <1>4
<1>9. /\ IsFiniteSet(Bytes(g, R \cup {x}))
      /\ Total(g, R \cup {x}) = Total(g, R) + Total(g, {x})
  BY <1>1, <1>8, <1>6, TotalSplit
<1>10. Total(f, S) = Total(f, R) + f[x] /\ Total(g, S) = Total(f, R) + g[x]
  BY <1>1, <1>4, <1>5, <1>6, <1>7, <1>9
<1>11. IsFiniteSet(Bytes(g, S))
  BY <1>1, <1>9
<1>12. QED
  BY <1>3, <1>10, <1>11

\* The counters are exact, and count finitely many bytes.
CountInv ==
    /\ channelBytes \in [Channel -> Nat]
    /\ \A c \in Channel : IsFiniteSet(Bytes(items[c], Held(c)))
    /\ IsFiniteSet(Bytes(channelBytes, Channel))
    /\ AccountingIsExact

LEMMA CountInit == Init => CountInv
<1> SUFFICES ASSUME Init PROVE CountInv
  OBVIOUS
<1>1. DOMAIN Nothing = {}
  BY DEF Nothing
<1>2. \A c \in Channel : Held(c) = {}
  BY <1>1 DEF Init, Held
<1>3. \A c \in Channel :
          IsFiniteSet(Bytes(items[c], Held(c))) /\ Total(items[c], Held(c)) = 0
  BY <1>2, TotalOfNone
<1>4. Bytes(channelBytes, Channel) = {}
  BY DEF Init, Bytes
<1>5. IsFiniteSet(Bytes(channelBytes, Channel)) /\ Total(channelBytes, Channel) = 0
  BY <1>4, FS_EmptySet DEF Total
<1>6. QED
  BY <1>3, <1>5 DEF Init, CountInv, AccountingIsExact

\* The objects of a channel become "it", of b bytes, and the counters follow.
LEMMA CountersFollow ==
    ASSUME StoreInv, CountInv, NEW c \in Channel, NEW it, NEW b \in Nat,
           items' = [items EXCEPT ![c] = it],
           IsFiniteSet(Bytes(it, DOMAIN it)), Total(it, DOMAIN it) = b,
           channelBytes' = [channelBytes EXCEPT ![c] = b],
           totalBytes' = totalBytes - channelBytes[c] + b
    PROVE  CountInv' /\ totalBytes' \in Nat
<1>1. /\ channelBytes' \in [Channel -> Nat]
      /\ channelBytes'[c] = b
      /\ \A d \in Channel \ {c} : channelBytes'[d] = channelBytes[d]
  BY DEF CountInv
<1>2. /\ items'[c] = it /\ Held(c)' = DOMAIN it
      /\ \A d \in Channel \ {c} : items'[d] = items[d] /\ Held(d)' = Held(d)
  BY DEF StoreInv, Shape, Held
<1>3. ASSUME NEW d \in Channel
      PROVE  /\ IsFiniteSet(Bytes(items'[d], Held(d)'))
             /\ channelBytes'[d] = Total(items'[d], Held(d)')
  <2>1. CASE d = c
    BY <1>1, <1>2, <2>1
  <2>2. CASE d # c
    BY <1>1, <1>2, <2>2 DEF CountInv, AccountingIsExact
  <2>3. QED
    BY <2>1, <2>2
<1>4. channelBytes[c] \in Nat /\ IsFiniteSet(Bytes(channelBytes, Channel))
      /\ totalBytes = Total(channelBytes, Channel)
  BY DEF CountInv, AccountingIsExact
<1>5. /\ IsFiniteSet(Bytes(channelBytes', Channel))
      /\ Total(channelBytes', Channel) \in Nat
      /\ Total(channelBytes', Channel)
            = Total(channelBytes, Channel) - channelBytes[c] + channelBytes'[c]
  <2> DEFINE f == channelBytes
             g == channelBytes'
  <2>1. /\ IsFiniteSet(Bytes(f, Channel)) /\ f[c] \in Nat /\ g[c] \in Nat
        /\ \A d \in Channel \ {c} : g[d] = f[d]
    BY <1>1, <1>4
  <2> HIDE DEF f, g
  <2>2. /\ IsFiniteSet(Bytes(g, Channel))
        /\ Total(g, Channel) \in Nat
        /\ Total(g, Channel) = Total(f, Channel) - f[c] + g[c]
    BY <2>1, TotalChanged
  <2>3. QED
    BY <2>2 DEF f, g
<1>6. totalBytes' = Total(channelBytes', Channel)
  BY <1>1, <1>4, <1>5
<1>7. QED
  BY <1>1, <1>3, <1>5, <1>6 DEF CountInv, AccountingIsExact, Bytes, Total, Held

\* deleteObjectLocked takes its bytes off both counters.
LEMMA DropCounts ==
    ASSUME StoreInv, CountInv, NEW c \in Channel, NEW S \in SUBSET Held(c), Drop(c, S)
    PROVE  /\ CountInv' /\ totalBytes' \in Nat
           /\ totalBytes' <= totalBytes
           /\ \A d \in Channel : channelBytes'[d] <= channelBytes[d]
<1> DEFINE it == Without(items[c], S)
           b == Total(items[c], Held(c) \ S)
<1>1. IsFiniteSet(Bytes(items[c], Held(c)))
  BY DEF CountInv
<1>2. /\ Total(items[c], S) \in Nat /\ b \in Nat
      /\ b = Total(items[c], Held(c)) - Total(items[c], S)
  BY <1>1, TotalOfPart
<1>3. DOMAIN it = Held(c) \ S /\ \A n \in Held(c) \ S : it[n] = items[c][n]
  BY WithoutSome DEF Held
<1>4. /\ Bytes(it, DOMAIN it) = Bytes(items[c], Held(c) \ S)
      /\ Total(it, DOMAIN it) = b
  BY <1>3, SameBytes
<1>5. IsFiniteSet(Bytes(items[c], Held(c) \ S))
  BY <1>1, PartIsFinite
<1>6. channelBytes \in [Channel -> Nat] /\ channelBytes[c] = Total(items[c], Held(c))
      /\ totalBytes = Total(channelBytes, Channel)
      /\ IsFiniteSet(Bytes(channelBytes, Channel))
  BY DEF CountInv, AccountingIsExact
<1>7. totalBytes \in Nat
  BY <1>6, PartIsFinite
<1>8. items' = [items EXCEPT ![c] = it]
  BY DEF Drop
<1> HIDE DEF it, b
<1>9. /\ channelBytes' = [channelBytes EXCEPT ![c] = b]
      /\ totalBytes' = totalBytes - channelBytes[c] + b
  BY <1>2, <1>6, <1>7 DEF Drop
<1>10. CountInv' /\ totalBytes' \in Nat
  BY <1>2, <1>4, <1>5, <1>8, <1>9, CountersFollow
<1>11. b <= channelBytes[c]
  BY <1>2, <1>6
<1>12. totalBytes' <= totalBytes
  BY <1>2, <1>6, <1>7, <1>9, <1>11
<1>13. \A d \in Channel : channelBytes'[d] <= channelBytes[d]
  BY <1>6, <1>9, <1>11
<1>14. QED
  BY <1>10, <1>12, <1>13

\* StoreObject adds what the channel grows by: the new object, less the one it replaces
\* and those that are purged.
LEMMA StoreCounts ==
    ASSUME StoreInv, CountInv, NEW c \in Channel, NEW n \in Name, NEW size \in Sizes,
           StoreObject(c, n, size)
    PROVE  CountInv' /\ totalBytes' \in Nat
<1> DEFINE it == [m \in Kept(c) \cup {n} |-> IF m = n THEN size ELSE items[c][m]]
           R == Kept(c) \ {n}
           b == channelBytes[c] + Growth(c, n, size)
<1>1. /\ IsFiniteSet(Bytes(items[c], Held(c)))
      /\ channelBytes \in [Channel -> Nat]
      /\ channelBytes[c] = Total(items[c], Held(c))
      /\ totalBytes = Total(channelBytes, Channel)
      /\ IsFiniteSet(Bytes(channelBytes, Channel))
  BY DEF CountInv, AccountingIsExact
<1>2. totalBytes \in Nat
  BY <1>1, PartIsFinite
<1>3. items[c] \in [Held(c) -> Sizes] /\ Due(c) \in SUBSET Held(c) /\ size \in Nat
  BY ChannelMaps, DueIsPending, SizeAssumption DEF StoreInv, PendingIsHeld
<1>4. /\ DueBytes(c) \in Nat /\ Total(items[c], Kept(c)) \in Nat
      /\ Total(items[c], Kept(c)) = channelBytes[c] - DueBytes(c)
  BY <1>1, <1>3, TotalOfPart DEF Kept, DueBytes
<1>5. IsFiniteSet(Bytes(items[c], Kept(c)))
  BY <1>1, PartIsFinite DEF Kept
<1>6. /\ IsFiniteSet(Bytes(items[c], R)) /\ Total(items[c], R) \in Nat
      /\ Total(items[c], R) = Total(items[c], Kept(c)) - PreviousSize(c, n)
      /\ PreviousSize(c, n) \in Nat
  <2>1. CASE n \in Kept(c)
    <3>1. items[c][n] \in Nat /\ PreviousSize(c, n) = items[c][n]
      BY <1>3, <2>1, SizeAssumption DEF Kept, PreviousSize
    <3>2. Total(items[c], {n}) = items[c][n]
      BY <3>1, TotalOfOne
    <3>3. /\ Total(items[c], R) \in Nat
          /\ Total(items[c], R) = Total(items[c], Kept(c)) - Total(items[c], {n})
      BY <1>5, <2>1, TotalOfPart
    <3>4. IsFiniteSet(Bytes(items[c], R))
      BY <1>5, PartIsFinite
    <3>5. QED
      BY <3>1, <3>2, <3>3, <3>4
  <2>2. CASE n \notin Kept(c)
    <3>1. R = Kept(c) /\ PreviousSize(c, n) = 0
      BY <2>2 DEF PreviousSize
    <3>2. Total(items[c], R) \in Nat /\ IsFiniteSet(Bytes(items[c], R))
      BY <1>4, <1>5, <3>1
    <3>3. Total(items[c], R) = Total(items[c], Kept(c))
      BY <3>1
    <3>4. QED
      BY <3>1, <3>2, <3>3
  <2>3. QED
    BY <2>1, <2>2
<1>7. /\ DOMAIN it = R \cup {n} /\ R \cap {n} = {} /\ it[n] = size
      /\ \A m \in R : it[m] = items[c][m]
  OBVIOUS
<1>8. /\ items' = [items EXCEPT ![c] = it]
      /\ channelBytes' = [channelBytes EXCEPT ![c] = b]
      /\ totalBytes' = totalBytes + Growth(c, n, size)
  BY DEF StoreObject
<1> HIDE DEF it, R
<1>9. /\ Bytes(it, R) = Bytes(items[c], R) /\ Total(it, R) = Total(items[c], R)
  BY <1>7, SameBytes
<1>10. IsFiniteSet(Bytes(it, {n})) /\ Total(it, {n}) = size
  <2>1. it[n] \in Nat
    BY <1>3, <1>7
  <2>2. QED
    BY <1>7, <2>1, TotalOfOne
<1>11. IsFiniteSet(Bytes(it, R))
  BY <1>6, <1>9
<1>12. /\ IsFiniteSet(Bytes(it, R \cup {n}))
       /\ Total(it, R \cup {n}) = Total(it, R) + Total(it, {n})
  BY <1>7, <1>10, <1>11, TotalSplit
<1>13. channelBytes[c] \in Nat /\ Growth(c, n, size) \in Int
  BY <1>1, <1>3, <1>4, <1>6 DEF Growth
<1>14. Total(it, DOMAIN it) = b /\ b \in Nat
  BY <1>3, <1>4, <1>6, <1>7, <1>9, <1>10, <1>12, <1>13 DEF Growth
<1>15. IsFiniteSet(Bytes(it, DOMAIN it))
  BY <1>7, <1>12
<1>16. totalBytes' = totalBytes - channelBytes[c] + b
  BY <1>2, <1>8, <1>13
<1> HIDE DEF b
<1>17. QED
  BY <1>8, <1>14, <1>15, <1>16, CountersFollow

\* releaseChannelBytesLocked takes the whole channel off the total.
LEMMA EmptyCounts ==
    ASSUME StoreInv, CountInv, NEW c \in Channel, EmptyChannel(c)
    PROVE  /\ CountInv' /\ totalBytes' \in Nat
           /\ totalBytes' <= totalBytes
           /\ \A d \in Channel : channelBytes'[d] <= channelBytes[d]
<1>1. DOMAIN Nothing = {}
  BY DEF Nothing
<1>2. IsFiniteSet(Bytes(Nothing, DOMAIN Nothing)) /\ Total(Nothing, DOMAIN Nothing) = 0
  BY <1>1, TotalOfNone
<1>3. /\ channelBytes \in [Channel -> Nat]
      /\ totalBytes = Total(channelBytes, Channel)
      /\ IsFiniteSet(Bytes(channelBytes, Channel))
  BY DEF CountInv, AccountingIsExact
<1>4. totalBytes \in Nat
  BY <1>3, PartIsFinite
<1>5. /\ items' = [items EXCEPT ![c] = Nothing]
      /\ channelBytes' = [channelBytes EXCEPT ![c] = 0]
      /\ totalBytes' = totalBytes - channelBytes[c] + 0
  BY <1>3, <1>4 DEF EmptyChannel
<1>6. CountInv' /\ totalBytes' \in Nat
  <2>1. 0 \in Nat
    OBVIOUS
  <2> DEFINE z == 0
             it == Nothing
  <2>2. /\ items' = [items EXCEPT ![c] = it]
        /\ channelBytes' = [channelBytes EXCEPT ![c] = z]
        /\ totalBytes' = totalBytes - channelBytes[c] + z
        /\ IsFiniteSet(Bytes(it, DOMAIN it)) /\ Total(it, DOMAIN it) = z
        /\ z \in Nat
    BY <1>2, <1>5, <2>1
  <2> HIDE DEF z, it
  <2>3. QED
    BY <2>2, CountersFollow
<1>7. QED
  BY <1>3, <1>4, <1>5, <1>6

\* What a refusal or a delete takes is held.
LEMMA Taken ==
    ASSUME StoreInv, NEW c \in Channel, NEW n \in Name
    PROVE  /\ \A size \in Sizes : RefuseObject(c, n, size) =>
                   \E S \in SUBSET Held(c) : Drop(c, S)
           /\ DeleteSegment(c, n) \/ DeleteOther(c, n) =>
                   \E S \in SUBSET Held(c) : Drop(c, S)
<1>1. Due(c) \in SUBSET Held(c) /\ Due(c) \cup (Held(c) \cap {n}) \in SUBSET Held(c)
  BY DueIsPending DEF StoreInv, PendingIsHeld
<1>2. QED
  BY <1>1 DEF RefuseObject, DeleteSegment, DeleteOther

\* The limits of the store, the clock and the deadlines.
LimitInv ==
    /\ \A c \in Channel : channelBytes[c] <= MaxChannelBytes
    /\ totalBytes \in 0..MaxTotalBytes
    /\ now <= MaxNow
    /\ \A c \in Channel : \A n \in Pending(c) : deadline[c][n] \in 1..(MaxNow + Grace)

LEMMA LimitInit == Init => LimitInv
<1>1. DOMAIN Nothing = {}
  BY DEF Nothing
<1>2. QED
  BY <1>1, LimitAssumption, TimeAssumption DEF Init, LimitInv, Pending

LEMMA CountStep == StoreInv /\ CountInv /\ [Next]_vars => CountInv'
<1> SUFFICES ASSUME StoreInv, CountInv, [Next]_vars PROVE CountInv'
  OBVIOUS
<1>1. ASSUME NEW c \in Channel, NEW n \in Name, NEW size \in Sizes, StoreObject(c, n, size)
      PROVE  CountInv'
  BY <1>1, StoreCounts
<1>2. ASSUME NEW c \in Channel, NEW S \in SUBSET Held(c), Drop(c, S) PROVE CountInv'
  BY <1>2, DropCounts
<1>3. ASSUME NEW c \in Channel, EmptyChannel(c) PROVE CountInv'
  BY <1>3, EmptyCounts
<1>4. CASE Tick
  BY <1>4 DEF Tick, CountInv, AccountingIsExact, Held
<1>5. CASE UNCHANGED vars
  BY <1>5 DEF vars, CountInv, AccountingIsExact, Held
<1>6. QED
  BY <1>1, <1>2, <1>3, <1>4, <1>5, Taken DEF Next

\* A deadline that is new is a grace period away.
LEMMA NewDeadline ==
    ASSUME StoreInv, [Next]_vars, NEW c \in Channel, NEW n \in Pending(c)',
           n \notin Pending(c)
    PROVE  deadline'[c][n] = now + Grace
<1>1. ASSUME NEW d \in Channel, NEW S, deadline' = [deadline EXCEPT ![d] = Without(@, S)]
      PROVE  FALSE
  BY <1>1, PendingShrinks
<1>2. ASSUME NEW d \in Channel, NEW m \in Name, NEW size \in Sizes,
             StoreObject(d, m, size) \/ RefuseObject(d, m, size)
      PROVE  FALSE
  <2>1. \/ deadline' = [deadline EXCEPT ![d] = Without(@, Due(d) \cup {m})]
        \/ deadline' = [deadline EXCEPT ![d] = Without(@, Due(d))]
    BY <1>2 DEF StoreObject, RefuseObject
  <2>2. QED
    BY <2>1, <1>1
<1>3. ASSUME NEW d \in Channel, NEW m \in Name, DeleteSegment(d, m)
      PROVE  deadline'[c][n] = now + Grace
  <2>1. deadline \in [Channel -> Dated]
    BY DEF StoreInv, Shape
  <2>2. CASE c = d
    BY <1>3, <2>1, <2>2 DEF DeleteSegment, Pending
  <2>3. CASE c # d
    BY <1>3, <2>1, <2>3 DEF DeleteSegment, Pending
  <2>4. QED
    BY <2>2, <2>3
<1>4. ASSUME NEW d \in Channel, NEW m \in Name, DeleteOther(d, m)
      PROVE  FALSE
  <2>1. deadline' = [deadline EXCEPT ![d] = Without(@, Due(d))]
    BY <1>4 DEF DeleteOther
  <2>2. QED
    BY <2>1, <1>1
<1>5. ASSUME NEW d \in Channel, EmptyChannel(d)
      PROVE  FALSE
  <2>1. DOMAIN Nothing = {} /\ deadline \in [Channel -> Dated]
    BY DEF Nothing, StoreInv, Shape
  <2>2. QED
    BY <1>5, <2>1 DEF EmptyChannel, Pending
<1>6. CASE Tick \/ UNCHANGED vars
  BY <1>6 DEF Tick, vars, Pending
<1>7. QED
  BY <1>2, <1>3, <1>4, <1>5, <1>6 DEF Next

\* A store that fits keeps to the limits; whatever else happens only takes.
LEMMA LimitStep == StoreInv /\ CountInv /\ LimitInv /\ [Next]_vars => LimitInv'
<1> SUFFICES ASSUME StoreInv, CountInv, LimitInv, [Next]_vars PROVE LimitInv'
  OBVIOUS
<1> DEFINE Limited == /\ \A c \in Channel : channelBytes'[c] <= MaxChannelBytes
                      /\ totalBytes' \in 0..MaxTotalBytes
<1>0. /\ channelBytes \in [Channel -> Nat] /\ now \in Nat
      /\ MaxChannelBytes \in Nat /\ MaxTotalBytes \in Nat
      /\ totalBytes \in Nat /\ totalBytes <= MaxTotalBytes
      /\ \A c \in Channel : channelBytes[c] <= MaxChannelBytes
  BY LimitAssumption DEF StoreInv, Shape, CountInv, LimitInv
<1>1. ASSUME NEW c \in Channel, NEW n \in Name, NEW size \in Sizes, StoreObject(c, n, size)
      PROVE  Limited
  <2>1. totalBytes' \in Nat
    BY <1>1, StoreCounts
  <2>2. /\ channelBytes' = [channelBytes EXCEPT ![c] = channelBytes[c] + Growth(c, n, size)]
        /\ totalBytes' = totalBytes + Growth(c, n, size)
        /\ channelBytes[c] + Growth(c, n, size) <= MaxChannelBytes
        /\ totalBytes + Growth(c, n, size) <= MaxTotalBytes
    BY <1>1 DEF StoreObject, Fits
  <2>3. QED
    BY <1>0, <2>1, <2>2
<1>2. ASSUME CountInv', totalBytes' \in Nat, totalBytes' <= totalBytes,
             \A d \in Channel : channelBytes'[d] <= channelBytes[d]
      PROVE  Limited
  BY <1>0, <1>2 DEF CountInv
<1>3. ASSUME NEW c \in Channel, NEW S \in SUBSET Held(c), Drop(c, S) PROVE Limited
  BY <1>2, <1>3, DropCounts
<1>4. ASSUME NEW c \in Channel, EmptyChannel(c) PROVE Limited
  BY <1>2, <1>4, EmptyCounts
<1>5. ASSUME Tick \/ UNCHANGED vars PROVE Limited
  <2>1. channelBytes' = channelBytes /\ totalBytes' = totalBytes
    BY <1>5 DEF Tick, vars
  <2>2. totalBytes' \in 0..MaxTotalBytes
    BY <1>0, <2>1
  <2>3. \A c \in Channel : channelBytes'[c] <= MaxChannelBytes
    BY <1>0, <2>1
  <2>4. QED
    BY <2>2, <2>3
<1>6. Limited
  <2> HIDE DEF Limited
  <2>1. ASSUME NEW c \in Channel, NEW n \in Name, NEW size \in Sizes,
               RefuseObject(c, n, size)
        PROVE  Limited
    BY <1>3, <2>1, Taken
  <2>2. ASSUME NEW c \in Channel, NEW n \in Name, DeleteSegment(c, n) \/ DeleteOther(c, n)
        PROVE  Limited
    BY <1>3, <2>2, Taken
  <2>3. QED
    BY <1>1, <1>4, <1>5, <2>1, <2>2 DEF Next
<1>7. now' <= MaxNow
  <2>1. now' = now \/ (now < MaxNow /\ now' = now + 1)
    BY DEF Next, vars, StoreObject, RefuseObject, DeleteSegment, DeleteOther, EmptyChannel,
       Tick
  <2>2. now <= MaxNow /\ MaxNow \in Nat
    BY TimeAssumption DEF LimitInv
  <2>3. QED
    BY <1>0, <2>1, <2>2
<1>8. ASSUME NEW c \in Channel, NEW n \in Pending(c)'
      PROVE  deadline'[c][n] \in 1..(MaxNow + Grace)
  <2>1. CASE n \in Pending(c)
    <3>1. deadline'[c][n] = deadline[c][n]
      BY <1>8, <2>1, DeadlineStays
    <3>2. QED
      BY <2>1, <3>1 DEF LimitInv
  <2>2. CASE n \notin Pending(c)
    <3>1. deadline'[c][n] = now + Grace
      BY <1>8, <2>2, NewDeadline
    <3>2. QED
      BY <1>0, <3>1, TimeAssumption DEF LimitInv
  <2>3. QED
    BY <2>1, <2>2
<1>9. QED
  BY <1>6, <1>7, <1>8 DEF LimitInv

LEMMA StoreTypes == StoreInv /\ CountInv /\ LimitInv => TypeOK
<1> SUFFICES ASSUME StoreInv, CountInv, LimitInv PROVE TypeOK
  OBVIOUS
<1> DEFINE Limit == 1..(MaxNow + Grace)
           Bounded == UNION {[S -> Limit] : S \in SUBSET Segment}
<1>1. ASSUME NEW c \in Channel PROVE deadline[c] \in Bounded
  <2>1. deadline[c] \in [Pending(c) -> Nat] /\ Pending(c) \in SUBSET Segment
    BY ChannelMaps DEF StoreInv
  <2>2. \A n \in Pending(c) : deadline[c][n] \in Limit
    BY DEF LimitInv
  <2>3. deadline[c] \in [Pending(c) -> Limit]
    BY <2>1, <2>2
  <2>4. QED
    BY <2>1, <2>3
<1>2. deadline \in [Channel -> Bounded]
  BY <1>1 DEF StoreInv, Shape
<1>3. channelBytes \in [Channel -> 0..MaxChannelBytes]
  <2>1. \A c \in Channel : channelBytes[c] \in 0..MaxChannelBytes
    BY LimitAssumption DEF CountInv, LimitInv
  <2>2. QED
    BY <2>1 DEF CountInv
<1>4. totalBytes \in 0..MaxTotalBytes /\ now \in 0..MaxNow
  BY TimeAssumption DEF StoreInv, Shape, LimitInv
<1>5. items \in [Channel -> Sized] /\ wanted \subseteq Channel \X Name
  BY DEF StoreInv, Shape
<1>6. QED
  BY <1>2, <1>3, <1>4, <1>5 DEF TypeOK, Sized

\* The counters never drift from what is stored (capacityAfterStoreLocked,
\* deleteObjectLocked and releaseChannelBytesLocked only ever adjust them).
THEOREM CountersExact == Spec => []AccountingIsExact
<1>1. CountInv => AccountingIsExact
  BY DEF CountInv
<1>2. QED
  BY <1>1, CountInit, CountStep, Invariance, PTL DEF Spec

\* No store exceeds the capacity of a channel or of the whole, and no deadline is
\* further away than a grace period (StoreObject, DeleteObject).
THEOREM WithinLimits == Spec => []TypeOK
<1>1. Spec => []CountInv
  BY CountInit, CountStep, Invariance, PTL DEF Spec
<1>2. QED
  BY <1>1, LimitInit, LimitStep, StoreTypes, Invariance, PTL DEF Spec

-----------------------------------------------------------------------------
(* The store behaves as one that loses what is due at once (EagerStore).   *)

LEMMA SameWithout ==
    ASSUME NEW f, NEW S
    PROVE  Eager!Without(f, S) = Without(f, S)
  BY DEF Eager!Without, Without, Eager!Restrict, Restrict

LEMMA WithoutNone ==
    ASSUME NEW f, f = [n \in DOMAIN f |-> f[n]]
    PROVE  Without(f, {}) = f
  BY DEF Without, Restrict

LEMMA WithoutTwice ==
    ASSUME NEW f, NEW S, NEW T
    PROVE  Without(Without(f, S), T) = Without(f, S \cup T)
<1>1. DOMAIN Without(f, S) \ T = DOMAIN f \ (S \cup T)
  BY DEF Without, Restrict
<1>2. \A n \in DOMAIN f \ (S \cup T) : Without(f, S)[n] = f[n]
  BY DEF Without, Restrict
<1>3. QED
  BY <1>1, <1>2 DEF Without, Restrict

\* Names that are not there do not count.
LEMMA WithoutSame ==
    ASSUME NEW f, NEW S, NEW T, DOMAIN f \ S = DOMAIN f \ T
    PROVE  Without(f, S) = Without(f, T)
  BY DEF Without, Restrict

\* What a reader sees of a channel.
LEMMA ShownIs ==
    ASSUME NEW c \in Channel
    PROVE  /\ Shown[c] = Without(items[c], Due(c)) /\ Ends[c] = Without(deadline[c], Due(c))
           /\ DOMAIN Shown[c] = Kept(c) /\ DOMAIN Ends[c] = Pending(c) \ Due(c)
           /\ \A n \in Kept(c) : Shown[c][n] = items[c][n]
           /\ \A n \in Pending(c) \ Due(c) : Ends[c][n] = deadline[c][n]
<1>1. Shown[c] = Without(items[c], Due(c)) /\ Ends[c] = Without(deadline[c], Due(c))
  BY DEF Shown, Ends
<1>2. QED
  BY <1>1 DEF Without, Restrict, Kept, Held, Pending

\* A step within one channel after which nothing there is due.
LEMMA OneChannel ==
    ASSUME StoreInv, NEW c \in Channel, NEW it, NEW de,
           items' = [items EXCEPT ![c] = it], deadline' = [deadline EXCEPT ![c] = de],
           now' = now, \A n \in DOMAIN de : ~(now >= de[n]),
           it = [n \in DOMAIN it |-> it[n]], de = [n \in DOMAIN de |-> de[n]]
    PROVE  Shown' = [Shown EXCEPT ![c] = it] /\ Ends' = [Ends EXCEPT ![c] = de]
<1>1. /\ items'[c] = it /\ deadline'[c] = de
      /\ \A d \in Channel \ {c} : items'[d] = items[d] /\ deadline'[d] = deadline[d]
  BY DEF StoreInv, Shape
<1>2. Due(c)' = {}
  BY <1>1 DEF Due, Pending
<1>3. Without(items'[c], Due(c)') = it /\ Without(deadline'[c], Due(c)') = de
  BY <1>1, <1>2, WithoutNone
<1>4. \A d \in Channel \ {c} : Due(d)' = Due(d)
  BY <1>1 DEF Due, Pending
<1>5. \A d \in Channel : /\ Shown'[d] = IF d = c THEN it ELSE Shown[d]
                         /\ Ends'[d] = IF d = c THEN de ELSE Ends[d]
  BY <1>1, <1>3, <1>4 DEF Shown, Ends
<1>6. QED
  BY <1>5 DEF Shown, Ends

\* What is left of the deadlines after a purge is not due.
LEMMA NotDue ==
    ASSUME StoreInv, NEW c \in Channel, NEW S, Due(c) \subseteq S
    PROVE  \A n \in DOMAIN Without(deadline[c], S) : ~(now >= Without(deadline[c], S)[n])
<1>1. SUFFICES ASSUME NEW n \in DOMAIN Without(deadline[c], S)
               PROVE  ~(now >= Without(deadline[c], S)[n])
  OBVIOUS
<1>2. n \in Pending(c) \ S /\ Without(deadline[c], S)[n] = deadline[c][n]
  BY WithoutLeft DEF Pending
<1>3. QED
  BY <1>2 DEF Due

EagerStep == Eager!Next \/ UNCHANGED Eager!vars

LEMMA StoreShows ==
    ASSUME StoreInv, NEW c \in Channel, NEW n \in Name, NEW size \in Sizes,
           StoreObject(c, n, size)
    PROVE  EagerStep
<1> DEFINE it == [m \in Kept(c) \cup {n} |-> IF m = n THEN size ELSE items[c][m]]
           de == Without(deadline[c], Due(c) \cup {n})
<1>1. /\ items' = [items EXCEPT ![c] = it] /\ deadline' = [deadline EXCEPT ![c] = de]
      /\ now' = now
  BY DEF StoreObject
<1>2. it = [m \in DOMAIN it |-> it[m]] /\ de = [m \in DOMAIN de |-> de[m]]
  BY DEF Without, Restrict
<1>3. \A m \in DOMAIN de : ~(now >= de[m])
  BY NotDue
<1>4. it = [m \in DOMAIN Shown[c] \cup {n} |-> IF m = n THEN size ELSE Shown[c][m]]
  BY ShownIs
<1>5. de = Eager!Without(Ends[c], {n})
  BY ShownIs, SameWithout, WithoutTwice
<1> HIDE DEF it, de
<1>6. Shown' = [Shown EXCEPT ![c] = it] /\ Ends' = [Ends EXCEPT ![c] = de]
  BY <1>1, <1>2, <1>3, OneChannel
<1>7. Eager!Put(c, n, size)
  BY <1>1, <1>4, <1>5, <1>6 DEF Eager!Put
<1>8. QED
  BY <1>7 DEF EagerStep, Eager!Next

\* A purge shows nothing by itself.
LEMMA PurgeShows ==
    ASSUME StoreInv, NEW c \in Channel, now' = now,
           items' = [items EXCEPT ![c] = Without(@, Due(c))],
           deadline' = [deadline EXCEPT ![c] = Without(@, Due(c))]
    PROVE  EagerStep
<1> DEFINE it == Without(items[c], Due(c))
           de == Without(deadline[c], Due(c))
<1>1. /\ items' = [items EXCEPT ![c] = it] /\ deadline' = [deadline EXCEPT ![c] = de]
      /\ now' = now
  OBVIOUS
<1>2. it = [m \in DOMAIN it |-> it[m]] /\ de = [m \in DOMAIN de |-> de[m]]
  BY DEF Without, Restrict
<1>3. \A m \in DOMAIN de : ~(now >= de[m])
  BY NotDue
<1>4. it = Shown[c] /\ de = Ends[c]
  BY ShownIs
<1> HIDE DEF it, de
<1>5. Shown' = [Shown EXCEPT ![c] = it] /\ Ends' = [Ends EXCEPT ![c] = de]
  BY ONLY StoreInv, c \in Channel, <1>1, <1>2, <1>3, OneChannel
<1>6. Shown' = Shown /\ Ends' = Ends
  BY <1>4, <1>5 DEF Shown, Ends
<1>7. QED
  BY <1>6 DEF EagerStep, Eager!vars

LEMMA DeleteSegmentShows ==
    ASSUME StoreInv, NEW c \in Channel, NEW n \in Name, DeleteSegment(c, n)
    PROVE  EagerStep
<1> DEFINE it == Without(items[c], Due(c))
           de == [m \in (Pending(c) \ Due(c)) \cup {n} |->
                     IF m \in Pending(c) THEN deadline[c][m] ELSE now + Grace]
<1>1. /\ items' = [items EXCEPT ![c] = it] /\ deadline' = [deadline EXCEPT ![c] = de]
      /\ now' = now /\ n \in Segment \cap Kept(c)
  BY DEF DeleteSegment, Drop
<1>2. it = [m \in DOMAIN it |-> it[m]] /\ de = [m \in DOMAIN de |-> de[m]]
  BY DEF Without, Restrict
<1>3. \A m \in DOMAIN de : ~(now >= de[m])
  <2>1. \A m \in Pending(c) \ Due(c) : ~(now >= deadline[c][m])
    BY DEF Due
  <2>2. ~(now >= now + Grace)
    BY TimeAssumption DEF StoreInv, Shape
  <2>3. n \notin Due(c)
    BY <1>1 DEF Kept
  <2>4. QED
    BY <2>1, <2>2, <2>3
<1>4. it = Shown[c]
  BY ShownIs
<1>5. CASE n \in Pending(c)
  <2>1. de = Ends[c]
    <3>1. (Pending(c) \ Due(c)) \cup {n} = Pending(c) \ Due(c)
      BY <1>1, <1>5 DEF Kept
    <3>2. de = [m \in Pending(c) \ Due(c) |-> deadline[c][m]]
      BY <3>1
    <3>3. Ends[c] = [m \in Pending(c) \ Due(c) |-> deadline[c][m]]
      BY ShownIs DEF Without, Restrict, Pending
    <3>4. QED
      BY <3>2, <3>3
  <2> HIDE DEF it, de
  <2>2. Shown' = [Shown EXCEPT ![c] = it] /\ Ends' = [Ends EXCEPT ![c] = de]
    BY <1>1, <1>2, <1>3, OneChannel
  <2>3. Shown' = Shown /\ Ends' = Ends
    BY <1>4, <2>1, <2>2 DEF Shown, Ends
  <2>4. QED
    BY <1>1, <2>3 DEF EagerStep, Eager!vars
<1>6. CASE n \notin Pending(c)
  <2>1. de = [m \in DOMAIN Ends[c] \cup {n} |-> IF m = n THEN now + Grace ELSE Ends[c][m]]
    BY <1>6, ShownIs
  <2>2. n \in DOMAIN Shown[c] \ DOMAIN Ends[c]
    BY <1>1, <1>6, ShownIs
  <2> HIDE DEF it, de
  <2>3. Shown' = [Shown EXCEPT ![c] = it] /\ Ends' = [Ends EXCEPT ![c] = de]
    BY <1>1, <1>2, <1>3, OneChannel
  <2>4. Shown' = Shown
    BY <1>4, <2>3 DEF Shown
  <2>5. Eager!Schedule(c, n)
    BY <1>1, <2>1, <2>2, <2>3, <2>4 DEF Eager!Schedule
  <2>6. QED
    BY <1>1, <2>5 DEF EagerStep, Eager!Next
<1>7. QED
  BY <1>5, <1>6

LEMMA DeleteOtherShows ==
    ASSUME StoreInv, NEW c \in Channel, NEW n \in Name, DeleteOther(c, n)
    PROVE  EagerStep
<1> DEFINE it == Without(items[c], Due(c) \cup (Held(c) \cap {n}))
           de == Without(deadline[c], Due(c))
<1>1. /\ items' = [items EXCEPT ![c] = it] /\ deadline' = [deadline EXCEPT ![c] = de]
      /\ now' = now /\ n \notin Segment \cap Kept(c)
  BY DEF DeleteOther, Drop
<1>2. it = [m \in DOMAIN it |-> it[m]] /\ de = [m \in DOMAIN de |-> de[m]]
  BY DEF Without, Restrict
<1>3. \A m \in DOMAIN de : ~(now >= de[m])
  BY NotDue
<1>4. CASE n \in Segment
  <2>1. Due(c) \cup (Held(c) \cap {n}) = Due(c)
    BY <1>1, <1>4 DEF Kept
  <2>2. it = Without(items[c], Due(c))
    BY <2>1
  <2> HIDE DEF it
  <2>3. QED
    BY <1>1, <2>2, PurgeShows
<1>5. CASE n \notin Segment
  <2>1. it = Eager!Without(Shown[c], {n})
    <3>1. Eager!Without(Shown[c], {n}) = Without(items[c], Due(c) \cup {n})
      BY ShownIs, SameWithout, WithoutTwice
    <3>2. DOMAIN items[c] \ (Due(c) \cup (Held(c) \cap {n})) =
              DOMAIN items[c] \ (Due(c) \cup {n})
      BY DEF Held
    <3>3. QED
      BY <3>1, <3>2, WithoutSame
  <2>2. de = Ends[c]
    BY ShownIs
  <2> HIDE DEF it, de
  <2>3. Shown' = [Shown EXCEPT ![c] = it] /\ Ends' = [Ends EXCEPT ![c] = de]
    BY <1>1, <1>2, <1>3, OneChannel
  <2>4. Ends' = Ends
    BY <2>2, <2>3 DEF Ends
  <2>5. Eager!Remove(c, n)
    BY <1>1, <2>1, <2>3, <2>4 DEF Eager!Remove
  <2>6. QED
    BY <1>5, <2>5 DEF EagerStep, Eager!Next
<1>6. QED
  BY <1>4, <1>5

LEMMA EmptyShows ==
    ASSUME StoreInv, NEW c \in Channel, EmptyChannel(c)
    PROVE  EagerStep
<1>1. /\ items' = [items EXCEPT ![c] = Nothing] /\ deadline' = [deadline EXCEPT ![c] = Nothing]
      /\ now' = now
  BY DEF EmptyChannel
<1>2. Nothing = [n \in DOMAIN Nothing |-> Nothing[n]] /\ DOMAIN Nothing = {}
  BY DEF Nothing
<1>3. Shown' = [Shown EXCEPT ![c] = Nothing] /\ Ends' = [Ends EXCEPT ![c] = Nothing]
  BY <1>1, <1>2, OneChannel
<1>4. Eager!Nothing = Nothing
  BY DEF Eager!Nothing, Nothing
<1>5. Eager!Clear(c)
  BY <1>1, <1>3, <1>4 DEF Eager!Clear
<1>6. QED
  BY <1>5 DEF EagerStep, Eager!Next

\* What becomes due is gone, although it is still held.
LEMMA TickShows ==
    ASSUME StoreInv, Tick
    PROVE  EagerStep
<1>1. now' = now + 1 /\ items' = items /\ deadline' = deadline /\ now \in Nat
  BY DEF Tick, StoreInv, Shape
<1>2. ASSUME NEW c \in Channel
      PROVE  Due(c)' = Due(c) \cup Eager!Over(c, now')
  <2>1. Due(c)' = {n \in Pending(c) : now + 1 >= deadline[c][n]}
    BY <1>1 DEF Due, Pending
  <2>2. Eager!Over(c, now') = {n \in Pending(c) \ Due(c) : now + 1 >= deadline[c][n]}
    BY <1>1, ShownIs DEF Eager!Over
  <2>3. \A n \in Pending(c) : deadline[c][n] \in Nat
    BY ChannelMaps DEF StoreInv
  <2>4. Due(c) \subseteq {n \in Pending(c) : now + 1 >= deadline[c][n]}
    BY <1>1, <2>3 DEF Due
  <2>5. QED
    BY <2>1, <2>2, <2>4
<1>3. ASSUME NEW c \in Channel
      PROVE  /\ Shown'[c] = Eager!Without(Shown[c], Eager!Over(c, now'))
             /\ Ends'[c] = Eager!Without(Ends[c], Eager!Over(c, now'))
  <2>1. Shown'[c] = Without(items[c], Due(c)') /\ Ends'[c] = Without(deadline[c], Due(c)')
    BY <1>1 DEF Shown, Ends
  <2> DEFINE over == Eager!Over(c, now')
  <2>2. Due(c)' = Due(c) \cup over
    BY <1>2
  <2> HIDE DEF over
  <2>3. /\ Without(items[c], Due(c) \cup over) = Without(Shown[c], over)
        /\ Without(deadline[c], Due(c) \cup over) = Without(Ends[c], over)
    BY ShownIs, WithoutTwice
  <2>4. QED
    BY <2>1, <2>2, <2>3, SameWithout DEF over
<1>4. /\ Shown' = [c \in Channel |-> Eager!Without(Shown[c], Eager!Over(c, now'))]
      /\ Ends' = [c \in Channel |-> Eager!Without(Ends[c], Eager!Over(c, now'))]
  BY <1>3 DEF Shown, Ends
<1>5. Eager!Tick
  BY <1>1, <1>4 DEF Eager!Tick
<1>6. QED
  BY <1>5 DEF EagerStep, Eager!Next

LEMMA EagerNext ==
    ASSUME StoreInv, [Next]_vars
    PROVE  EagerStep
<1>1. ASSUME NEW c \in Channel, NEW n \in Name, NEW size \in Sizes, RefuseObject(c, n, size)
      PROVE  EagerStep
  BY <1>1, PurgeShows DEF RefuseObject, Drop
<1>2. CASE UNCHANGED vars
  BY <1>2 DEF vars, Shown, Ends, Due, Pending, EagerStep, Eager!vars
<1>3. QED
  BY <1>1, <1>2, StoreShows, DeleteSegmentShows, DeleteOtherShows, EmptyShows, TickShows
     DEF Next

\* Every behaviour of the store, over any stores, deletions and clears, is for its readers
\* a behaviour of EagerStore: the purge that waits for the next store or delete and the
\* check of GetObject amount to a deletion in time (LiveStore in stream/live.go).
THEOREM Implements == Spec => ImplementsEagerStore
<1>1. Init => Eager!Init
  <2> SUFFICES ASSUME Init PROVE Eager!Init
    OBVIOUS
  <2>1. Nothing = [n \in DOMAIN Nothing |-> Nothing[n]] /\ DOMAIN Nothing = {}
    BY DEF Nothing
  <2>2. \A c \in Channel : Due(c) = {}
    BY <2>1 DEF Init, Due, Pending
  <2>3. Without(Nothing, {}) = Nothing
    BY <2>1, WithoutNone
  <2>4. Shown = [c \in Channel |-> Nothing] /\ Ends = [c \in Channel |-> Nothing]
    BY <2>2, <2>3 DEF Init, Shown, Ends
  <2>5. Eager!Nothing = Nothing
    BY DEF Eager!Nothing, Nothing
  <2>6. QED
    BY <2>4, <2>5 DEF Init, Eager!Init
<1>2. StoreInv /\ [Next]_vars => [Eager!Next]_(Eager!vars)
  BY EagerNext DEF EagerStep
<1>3. QED
  BY <1>1, <1>2, Invariance, PTL DEF Spec, ImplementsEagerStore, Eager!Spec
=============================================================================
