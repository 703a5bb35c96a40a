-------------------------- MODULE MediaProxyProofs --------------------------
(***************************************************************************)
(* The proxied playlists, for any keys, callers, URLs and tokens, any      *)
(* limits and any of the two times.                                        *)
(***************************************************************************)
EXTENDS MediaProxy, FiniteSetTheorems, TLAPS

\* The goroutines are those of the calls in flight, one for a key.
Flights ==
    \A k \in Key, s \in Caller : <<k, s>> \in running <=> flight[k] = s

\* Who waits, waits for the call in flight of its key.
Waits ==
    \A c \in Caller : pc[c] = "wait" => call[c] \in Caller /\ flight[key[c]] = call[c]

\* While a key is being resolved it is not in the cache.
Uncached == \A k \in Key : flight[k] # None => cached[k] = None

CacheLimit == Cardinality({k \in Key : cached[k] # None}) <= MaxEntries

Maps ==
    /\ \A t \in Token : Known(t) => byURL[byToken[t]] = t
    /\ \A p \in Place : byURL[p] # None => byToken[byURL[p]] = p

TokenLimit == Cardinality({t \in Token : Known(t)}) <= MaxTokens

\* A rewrite holds tokens that are new: the clock does not advance meanwhile.
HeldIsNew ==
    \A c \in Caller : \A t \in held[c] :
        pc[c] = "register" /\ Known(t) /\ tokenAge[t] = 0

\* The registry used a token no earlier than the viewers did.
InUse ==
    \A t \in Token : given[t] # None =>
        /\ byToken[t] = given[t]
        /\ tokenAge[t] <= givenAge[t]
        /\ givenAge[t] < TokenTTL

IInv ==
    /\ TypeOK
    /\ Flights /\ Waits /\ Uncached /\ CacheLimit
    /\ Maps /\ TokenLimit /\ HeldIsNew /\ InUse

-----------------------------------------------------------------------------
(* Cardinalities. *)

LEMMA NoMoreThan ==
    ASSUME NEW S, IsFiniteSet(S), NEW T \in SUBSET S, NEW n \in Nat, Cardinality(S) <= n
    PROVE  IsFiniteSet(T) /\ Cardinality(T) <= n
<1>1. Cardinality(S) \in Nat /\ IsFiniteSet(T) /\ Cardinality(T) \in Nat
  BY FS_Subset, FS_CardinalityType
<1>2. Cardinality(T) <= Cardinality(S)
  BY FS_Subset
<1>3. QED
  BY <1>1, <1>2

LEMMA OneMore ==
    ASSUME NEW S, IsFiniteSet(S), NEW x, NEW n \in Nat, Cardinality(S) < n
    PROVE  IsFiniteSet(S \cup {x}) /\ Cardinality(S \cup {x}) <= n
<1>1. Cardinality(S) \in Nat
  BY FS_CardinalityType
<1>2. IsFiniteSet(S \cup {x}) /\ Cardinality(S \cup {x}) <= Cardinality(S) + 1
  BY <1>1, FS_AddElement
<1>3. Cardinality(S \cup {x}) \in Nat
  BY <1>2, FS_CardinalityType
<1>4. QED
  BY <1>1, <1>2, <1>3

LEMMA OneLess ==
    ASSUME NEW S, IsFiniteSet(S), NEW T \in SUBSET S, Cardinality(T) = 1,
           NEW n \in Nat, Cardinality(S) <= n
    PROVE  Cardinality(S \ T) < n
<1>1. IsFiniteSet(T)
  BY FS_Subset
<1>2. PICK x : T = {x}
  BY <1>1, FS_Singleton
<1>3. Cardinality(S) \in Nat /\ Cardinality(S \ {x}) = Cardinality(S) - 1
  BY <1>2, FS_RemoveElement, FS_CardinalityType
<1>4. QED
  BY <1>2, <1>3

\* What is stored fits into the cache.
LEMMA StoreFits ==
    ASSUME TypeOK, CacheLimit, NEW k \in Key, NEW u \in Upstream, Store(k, u)
    PROVE  CacheLimit'
<1> DEFINE All == {x \in Key : cached[x] # None}
           E == Entries(Key)
<1>1. IsFiniteSet(All) /\ IsFiniteSet(E) /\ E \subseteq All
  <2>1. All \in SUBSET Key /\ E \in SUBSET Key /\ E \subseteq All
    BY DEF Entries, Fresh
  <2>2. QED
    BY <2>1, FiniteAssumption, FS_Subset
<1>2. MaxEntries \in Nat
  BY LimitAssumption
<1>3. Cardinality(E) <= MaxEntries
  BY <1>1, <1>2, NoMoreThan DEF CacheLimit
<1>4. PICK victims \in SUBSET E :
        /\ Cardinality(victims) = IF Cardinality(E) < MaxEntries THEN 0 ELSE 1
        /\ cached' = [x \in Key |-> IF x = k THEN u
                                    ELSE IF x \in E \ victims THEN cached[x] ELSE None]
  BY DEF Store
<1>5. IsFiniteSet(E \ victims) /\ Cardinality(E \ victims) < MaxEntries
  <2>1. CASE Cardinality(E) < MaxEntries
    <3>1. IsFiniteSet(E \ victims) /\ Cardinality(E \ victims) <= Cardinality(E)
      BY <1>1, FS_Subset
    <3>2. Cardinality(E \ victims) \in Nat /\ Cardinality(E) \in Nat
      BY <1>1, <3>1, FS_CardinalityType
    <3>3. QED
      BY <2>1, <3>1, <3>2, <1>2
  <2>2. CASE ~(Cardinality(E) < MaxEntries)
    <3>1. Cardinality(victims) = 1
      BY <1>4, <2>2
    <3>2. IsFiniteSet(E \ victims)
      BY <1>1, FS_Subset
    <3>3. QED
      BY <1>1, <1>2, <1>3, <3>1, <3>2, OneLess
  <2>3. QED
    BY <2>1, <2>2
<1>6. /\ IsFiniteSet((E \ victims) \cup {k})
      /\ Cardinality((E \ victims) \cup {k}) <= MaxEntries
  BY <1>2, <1>5, OneMore
<1>7. {x \in Key : cached'[x] # None} \in SUBSET ((E \ victims) \cup {k})
  BY <1>4 DEF Entries
<1>8. QED
  <2>1. Cardinality({x \in Key : cached'[x] # None}) <= MaxEntries
    BY <1>2, <1>6, <1>7, NoMoreThan
  <2>2. QED
    BY <2>1 DEF CacheLimit
-----------------------------------------------------------------------------
(* The steps. *)

LEMMA TypeStep ==
    ASSUME TypeOK, [Next]_vars
    PROVE  TypeOK'
<1>0. 0 \in 0..CacheTTL /\ 0 \in 0..TokenTTL
  BY LimitAssumption
<1>1. ASSUME NEW c \in Caller, NEW k \in Key, RequestLive(c, k)
      PROVE  TypeOK'
  BY <1>1, <1>0 DEF TypeOK, RequestLive, Hit, Miss, Fresh, Goto, flights, registry, viewers
<1>2. ASSUME NEW c \in Caller, NEW k \in Key, RequestVOD(c, k)
      PROVE  TypeOK'
  BY <1>2, <1>0 DEF TypeOK, RequestVOD, Goto, cache, flights, registry, viewers
<1>3. ASSUME NEW c \in Caller, Fetched(c)
      PROVE  TypeOK'
  BY <1>3, <1>0 DEF TypeOK, Fetched, Goto, cache, flights, registry, viewers
<1>4. ASSUME NEW c \in Caller, FetchFailed(c)
      PROVE  TypeOK'
  BY <1>4, <1>0 DEF TypeOK, FetchFailed, Goto, Evict, cache, flights, registry, viewers
<1>5. ASSUME NEW c \in Caller, FetchCancelled(c)
      PROVE  TypeOK'
  BY <1>5, <1>0 DEF TypeOK, FetchCancelled, Goto, cache, flights, registry, viewers
<1>6. ASSUME NEW c \in Caller, Resolve(c)
      PROVE  TypeOK'
  BY <1>6, <1>0 DEF TypeOK, Resolve, Hit, Miss, Fresh, Goto, Deliver, flights, registry, viewers
<1>7. ASSUME NEW c \in Caller, WaitCancelled(c)
      PROVE  TypeOK'
  BY <1>7, <1>0 DEF TypeOK, WaitCancelled, Goto, cache, flights, registry, viewers
<1>8. ASSUME NEW c \in Caller, BeginRewrite(c)
      PROVE  TypeOK'
  BY <1>8, <1>0 DEF TypeOK, BeginRewrite, Delete, Expired, Goto, cache, flights, viewers
<1>9. ASSUME NEW c \in Caller, EndRewrite(c)
      PROVE  TypeOK'
  BY <1>9, <1>0 DEF TypeOK, EndRewrite, Hand, Goto, cache, flights, registry
<1>10. ASSUME NEW c \in Caller, NEW u \in Media, Register(c, u)
      PROVE  TypeOK'
  <2>1. <<key[c], u>> \in Place
    BY DEF TypeOK, Place
  <2>2. held' \in [Caller -> SUBSET Token] /\ todo' \in [Caller -> SUBSET Media]
    BY <1>10 DEF TypeOK, Register
  <2> DEFINE RegistryType == /\ byToken \in [Token -> Place \cup {None}]
                             /\ tokenAge \in [Token -> 0..TokenTTL]
                             /\ byURL \in [Place -> Token \cup {None}]
  <2>3. RegistryType'
    <3>1. ASSUME NEW t \in Token, Renew(t)
          PROVE  RegistryType'
      BY <3>1, <1>0 DEF TypeOK, Renew
    <3>2. ASSUME NEW t \in Token, New(t, <<key[c], u>>)
          PROVE  RegistryType'
      BY <3>2, <1>0, <2>1 DEF TypeOK, New
    <3>3. QED
      BY <1>10, <3>1, <3>2 DEF Register
  <2>4. QED
    BY <1>10, <2>2, <2>3 DEF TypeOK, Register, cache, flights, viewers
<1>11. ASSUME NEW c \in Caller, NEW u \in Media, Refuse(c, u)
      PROVE  TypeOK'
  BY <1>11, <1>0 DEF TypeOK, Refuse, Goto, cache, flights, registry, viewers
<1>12. ASSUME NEW c \in Caller, NEW k \in Key, NEW t \in Token, Lookup(c, k, t)
      PROVE  TypeOK'
  <2>1. /\ pc' \in [Caller -> {"idle", "first", "resolve", "wait", "second", "rewrite", "register"}]
        /\ key' \in [Caller -> Key]
    BY <1>12 DEF TypeOK, Lookup, Goto
  <2>2. /\ byToken' \in [Token -> Place \cup {None}]
        /\ tokenAge' \in [Token -> 0..TokenTTL]
        /\ byURL' \in [Place -> Token \cup {None}]
    <3>1. ASSUME Delete({t})
          PROVE  <2>2!:
      BY <3>1, <1>0 DEF TypeOK, Delete
    <3>2. ASSUME Renew(t)
          PROVE  <2>2!:
      BY <3>2, <1>0 DEF TypeOK, Renew
    <3>3. QED
      BY <1>12, <3>1, <3>2 DEF Lookup
  <2>3. /\ given' \in [Token -> Place \cup {None}]
        /\ givenAge' \in [Token -> 0..TokenTTL]
    BY <1>12, <1>0 DEF TypeOK, Lookup, viewers
  <2>4. UNCHANGED <<live, cache, flights, url, call, todo, held>>
    BY <1>12 DEF Lookup
  <2>5. QED
    BY <2>1, <2>2, <2>3, <2>4 DEF TypeOK, cache, flights
<1>13. ASSUME NEW k \in Key, NEW s \in Caller, NEW u \in Upstream, Resolved(k, s, u)
      PROVE  TypeOK'
  BY <1>13, <1>0 DEF TypeOK, Resolved, Finish, Store, Deliver, Waiting, registry, viewers
<1>14. ASSUME NEW k \in Key, NEW s \in Caller, Unresolved(k, s)
      PROVE  TypeOK'
  BY <1>14, <1>0 DEF TypeOK, Unresolved, Finish, Waiting, cache, registry, viewers
<1>15. CASE Tick
  BY <1>15, LimitAssumption DEF TypeOK, Tick, Older, Known, flights, callers
<1>16. CASE UNCHANGED vars
  BY <1>16 DEF TypeOK, vars, cache, flights, callers, registry, viewers
<1>17. QED
  BY <1>1, <1>2, <1>3, <1>4, <1>5, <1>6, <1>7, <1>8, <1>9, <1>10, <1>11, <1>12, <1>13, <1>14, <1>15, <1>16 DEF Next

LEMMA FlightsStep ==
    ASSUME TypeOK, Flights, [Next]_vars
    PROVE  Flights'
<1>1. ASSUME NEW c \in Caller, NEW k \in Key, RequestLive(c, k)
      PROVE  Flights'
  BY <1>1 DEF TypeOK, Flights, RequestLive, Hit, Miss, Fresh, Goto, flights, registry, viewers
<1>2. ASSUME NEW c \in Caller, NEW k \in Key, RequestVOD(c, k)
      PROVE  Flights'
  BY <1>2 DEF TypeOK, Flights, RequestVOD, Goto, cache, flights, registry, viewers
<1>3. ASSUME NEW c \in Caller, Fetched(c)
      PROVE  Flights'
  BY <1>3 DEF TypeOK, Flights, Fetched, Goto, cache, flights, registry, viewers
<1>4. ASSUME NEW c \in Caller, FetchFailed(c)
      PROVE  Flights'
  BY <1>4 DEF TypeOK, Flights, FetchFailed, Goto, Evict, cache, flights, registry, viewers
<1>5. ASSUME NEW c \in Caller, FetchCancelled(c)
      PROVE  Flights'
  BY <1>5 DEF TypeOK, Flights, FetchCancelled, Goto, cache, flights, registry, viewers
<1>6. ASSUME NEW c \in Caller, Resolve(c)
      PROVE  Flights'
  <2> DEFINE k == key[c]
  <2>1. CASE flight' = flight /\ running' = running
    BY <2>1 DEF Flights
  <2>2. CASE flight[k] = None /\ flight' = [flight EXCEPT ![k] = c] /\ running' = running \cup {<<k, c>>}
    <3> SUFFICES ASSUME NEW x \in Key, NEW s \in Caller
                 PROVE  <<x, s>> \in running' <=> flight'[x] = s
      BY DEF Flights
    <3>1. k \in Key /\ flight'[x] = IF x = k THEN c ELSE flight[x]
      BY <2>2 DEF TypeOK
    <3>2. <<x, s>> \in running <=> flight[x] = s
      BY DEF Flights
    <3>3. <<x, s>> \in running' <=> <<x, s>> \in running \/ (x = k /\ s = c)
      BY <2>2
    <3>4. QED
      BY <2>2, <3>1, <3>2, <3>3, NoneAssumption
  <2>3. QED
    BY <1>6, <2>1, <2>2 DEF Resolve, flights
<1>7. ASSUME NEW c \in Caller, WaitCancelled(c)
      PROVE  Flights'
  BY <1>7 DEF TypeOK, Flights, WaitCancelled, Goto, cache, flights, registry, viewers
<1>8. ASSUME NEW c \in Caller, BeginRewrite(c)
      PROVE  Flights'
  BY <1>8 DEF TypeOK, Flights, BeginRewrite, Delete, Expired, Goto, cache, flights, viewers
<1>9. ASSUME NEW c \in Caller, EndRewrite(c)
      PROVE  Flights'
  BY <1>9 DEF TypeOK, Flights, EndRewrite, Hand, Goto, cache, flights, registry
<1>10. ASSUME NEW c \in Caller, NEW u \in Media, Register(c, u)
      PROVE  Flights'
  BY <1>10 DEF TypeOK, Flights, Register, Renew, New, Known, Expired, cache, flights, viewers
<1>11. ASSUME NEW c \in Caller, NEW u \in Media, Refuse(c, u)
      PROVE  Flights'
  BY <1>11 DEF TypeOK, Flights, Refuse, Goto, cache, flights, registry, viewers
<1>12. ASSUME NEW c \in Caller, NEW k \in Key, NEW t \in Token, Lookup(c, k, t)
      PROVE  Flights'
  BY <1>12 DEF TypeOK, Flights, Lookup, Expired, Known, Delete, Answers, Renew, Goto, cache, flights, viewers
<1>13. ASSUME NEW k \in Key, NEW s \in Caller, NEW u \in Upstream, Resolved(k, s, u)
      PROVE  Flights'
  <2>1. <<k, s>> \in running /\ running' = running \ {<<k, s>>} /\ flight' = [flight EXCEPT ![k] = None]
    BY <1>13 DEF Resolved, Finish
  <2> SUFFICES ASSUME NEW x \in Key, NEW r \in Caller
               PROVE  <<x, r>> \in running' <=> flight'[x] = r
    BY DEF Flights
  <2>2. flight'[x] = IF x = k THEN None ELSE flight[x]
    BY <2>1 DEF TypeOK
  <2>3. /\ <<x, r>> \in running <=> flight[x] = r
        /\ flight[k] = s
    BY <2>1 DEF Flights
  <2>4. <<x, r>> \in running' <=> <<x, r>> \in running /\ ~(x = k /\ r = s)
    BY <2>1
  <2>5. QED
    BY <2>2, <2>3, <2>4, NoneAssumption
<1>14. ASSUME NEW k \in Key, NEW s \in Caller, Unresolved(k, s)
      PROVE  Flights'
  <2>1. <<k, s>> \in running /\ running' = running \ {<<k, s>>} /\ flight' = [flight EXCEPT ![k] = None]
    BY <1>14 DEF Unresolved, Finish
  <2> SUFFICES ASSUME NEW x \in Key, NEW r \in Caller
               PROVE  <<x, r>> \in running' <=> flight'[x] = r
    BY DEF Flights
  <2>2. flight'[x] = IF x = k THEN None ELSE flight[x]
    BY <2>1 DEF TypeOK
  <2>3. /\ <<x, r>> \in running <=> flight[x] = r
        /\ flight[k] = s
    BY <2>1 DEF Flights
  <2>4. <<x, r>> \in running' <=> <<x, r>> \in running /\ ~(x = k /\ r = s)
    BY <2>1
  <2>5. QED
    BY <2>2, <2>3, <2>4, NoneAssumption
<1>15. CASE Tick
  BY <1>15 DEF TypeOK, Flights, Tick, Known, flights, callers
<1>16. CASE UNCHANGED vars
  BY <1>16 DEF TypeOK, Flights, vars, cache, flights, callers, registry, viewers
<1>17. QED
  BY <1>1, <1>2, <1>3, <1>4, <1>5, <1>6, <1>7, <1>8, <1>9, <1>10, <1>11, <1>12, <1>13, <1>14, <1>15, <1>16 DEF Next

LEMMA WaitsStep ==
    ASSUME TypeOK, Flights, Waits, [Next]_vars
    PROVE  Waits'
<1>1. ASSUME NEW c \in Caller, NEW k \in Key, RequestLive(c, k)
      PROVE  Waits'
  BY <1>1, NoneAssumption DEF TypeOK, Flights, Waits, RequestLive, Hit, Miss, Fresh, Goto, flights, registry, viewers
<1>2. ASSUME NEW c \in Caller, NEW k \in Key, RequestVOD(c, k)
      PROVE  Waits'
  BY <1>2, NoneAssumption DEF TypeOK, Flights, Waits, RequestVOD, Goto, cache, flights, registry, viewers
<1>3. ASSUME NEW c \in Caller, Fetched(c)
      PROVE  Waits'
  BY <1>3, NoneAssumption DEF TypeOK, Flights, Waits, Fetched, Goto, cache, flights, registry, viewers
<1>4. ASSUME NEW c \in Caller, FetchFailed(c)
      PROVE  Waits'
  BY <1>4, NoneAssumption DEF TypeOK, Flights, Waits, FetchFailed, Goto, Evict, cache, flights, registry, viewers
<1>5. ASSUME NEW c \in Caller, FetchCancelled(c)
      PROVE  Waits'
  BY <1>5, NoneAssumption DEF TypeOK, Flights, Waits, FetchCancelled, Goto, cache, flights, registry, viewers
<1>6. ASSUME NEW c \in Caller, Resolve(c)
      PROVE  Waits'
  BY <1>6, NoneAssumption DEF TypeOK, Flights, Waits, Resolve, Hit, Miss, Fresh, Goto, Deliver, flights, registry, viewers
<1>7. ASSUME NEW c \in Caller, WaitCancelled(c)
      PROVE  Waits'
  BY <1>7, NoneAssumption DEF TypeOK, Flights, Waits, WaitCancelled, Goto, cache, flights, registry, viewers
<1>8. ASSUME NEW c \in Caller, BeginRewrite(c)
      PROVE  Waits'
  BY <1>8, NoneAssumption DEF TypeOK, Flights, Waits, BeginRewrite, Delete, Expired, Goto, cache, flights, viewers
<1>9. ASSUME NEW c \in Caller, EndRewrite(c)
      PROVE  Waits'
  BY <1>9, NoneAssumption DEF TypeOK, Flights, Waits, EndRewrite, Hand, Goto, cache, flights, registry
<1>10. ASSUME NEW c \in Caller, NEW u \in Media, Register(c, u)
      PROVE  Waits'
  BY <1>10, NoneAssumption DEF TypeOK, Flights, Waits, Register, Renew, New, Known, Expired, cache, flights, viewers
<1>11. ASSUME NEW c \in Caller, NEW u \in Media, Refuse(c, u)
      PROVE  Waits'
  BY <1>11, NoneAssumption DEF TypeOK, Flights, Waits, Refuse, Goto, cache, flights, registry, viewers
<1>12. ASSUME NEW c \in Caller, NEW k \in Key, NEW t \in Token, Lookup(c, k, t)
      PROVE  Waits'
  BY <1>12, NoneAssumption DEF TypeOK, Flights, Waits, Lookup, Expired, Known, Delete, Answers, Renew, Goto, cache, flights, viewers
<1>13. ASSUME NEW k \in Key, NEW s \in Caller, NEW u \in Upstream, Resolved(k, s, u)
      PROVE  Waits'
  BY <1>13, NoneAssumption DEF TypeOK, Flights, Waits, Resolved, Finish, Store, Deliver, Waiting, registry, viewers
<1>14. ASSUME NEW k \in Key, NEW s \in Caller, Unresolved(k, s)
      PROVE  Waits'
  BY <1>14, NoneAssumption DEF TypeOK, Flights, Waits, Unresolved, Finish, Waiting, cache, registry, viewers
<1>15. CASE Tick
  BY <1>15, NoneAssumption DEF TypeOK, Flights, Waits, Tick, Known, flights, callers
<1>16. CASE UNCHANGED vars
  BY <1>16 DEF TypeOK, Flights, Waits, vars, cache, flights, callers, registry, viewers
<1>17. QED
  BY <1>1, <1>2, <1>3, <1>4, <1>5, <1>6, <1>7, <1>8, <1>9, <1>10, <1>11, <1>12, <1>13, <1>14, <1>15, <1>16 DEF Next

LEMMA UncachedStep ==
    ASSUME TypeOK, Flights, Uncached, [Next]_vars
    PROVE  Uncached'
<1>1. ASSUME NEW c \in Caller, NEW k \in Key, RequestLive(c, k)
      PROVE  Uncached'
  BY <1>1, NoneAssumption DEF TypeOK, Flights, Uncached, RequestLive, Hit, Miss, Fresh, Goto, flights, registry, viewers
<1>2. ASSUME NEW c \in Caller, NEW k \in Key, RequestVOD(c, k)
      PROVE  Uncached'
  BY <1>2, NoneAssumption DEF TypeOK, Flights, Uncached, RequestVOD, Goto, cache, flights, registry, viewers
<1>3. ASSUME NEW c \in Caller, Fetched(c)
      PROVE  Uncached'
  BY <1>3, NoneAssumption DEF TypeOK, Flights, Uncached, Fetched, Goto, cache, flights, registry, viewers
<1>4. ASSUME NEW c \in Caller, FetchFailed(c)
      PROVE  Uncached'
  BY <1>4, NoneAssumption DEF TypeOK, Flights, Uncached, FetchFailed, Goto, Evict, cache, flights, registry, viewers
<1>5. ASSUME NEW c \in Caller, FetchCancelled(c)
      PROVE  Uncached'
  BY <1>5, NoneAssumption DEF TypeOK, Flights, Uncached, FetchCancelled, Goto, cache, flights, registry, viewers
<1>6. ASSUME NEW c \in Caller, Resolve(c)
      PROVE  Uncached'
  BY <1>6, NoneAssumption DEF TypeOK, Flights, Uncached, Resolve, Hit, Miss, Fresh, Goto, Deliver, flights, registry, viewers
<1>7. ASSUME NEW c \in Caller, WaitCancelled(c)
      PROVE  Uncached'
  BY <1>7, NoneAssumption DEF TypeOK, Flights, Uncached, WaitCancelled, Goto, cache, flights, registry, viewers
<1>8. ASSUME NEW c \in Caller, BeginRewrite(c)
      PROVE  Uncached'
  BY <1>8, NoneAssumption DEF TypeOK, Flights, Uncached, BeginRewrite, Delete, Expired, Goto, cache, flights, viewers
<1>9. ASSUME NEW c \in Caller, EndRewrite(c)
      PROVE  Uncached'
  BY <1>9, NoneAssumption DEF TypeOK, Flights, Uncached, EndRewrite, Hand, Goto, cache, flights, registry
<1>10. ASSUME NEW c \in Caller, NEW u \in Media, Register(c, u)
      PROVE  Uncached'
  BY <1>10, NoneAssumption DEF TypeOK, Flights, Uncached, Register, Renew, New, Known, Expired, cache, flights, viewers
<1>11. ASSUME NEW c \in Caller, NEW u \in Media, Refuse(c, u)
      PROVE  Uncached'
  BY <1>11, NoneAssumption DEF TypeOK, Flights, Uncached, Refuse, Goto, cache, flights, registry, viewers
<1>12. ASSUME NEW c \in Caller, NEW k \in Key, NEW t \in Token, Lookup(c, k, t)
      PROVE  Uncached'
  BY <1>12, NoneAssumption DEF TypeOK, Flights, Uncached, Lookup, Expired, Known, Delete, Answers, Renew, Goto, cache, flights, viewers
<1>13. ASSUME NEW k \in Key, NEW s \in Caller, NEW u \in Upstream, Resolved(k, s, u)
      PROVE  Uncached'
  BY <1>13, NoneAssumption DEF TypeOK, Flights, Uncached, Resolved, Finish, Store, Deliver, Waiting, registry, viewers
<1>14. ASSUME NEW k \in Key, NEW s \in Caller, Unresolved(k, s)
      PROVE  Uncached'
  BY <1>14, NoneAssumption DEF TypeOK, Flights, Uncached, Unresolved, Finish, Waiting, cache, registry, viewers
<1>15. CASE Tick
  BY <1>15, NoneAssumption DEF TypeOK, Flights, Uncached, Tick, Known, flights, callers
<1>16. CASE UNCHANGED vars
  BY <1>16 DEF TypeOK, Flights, Uncached, vars, cache, flights, callers, registry, viewers
<1>17. QED
  BY <1>1, <1>2, <1>3, <1>4, <1>5, <1>6, <1>7, <1>8, <1>9, <1>10, <1>11, <1>12, <1>13, <1>14, <1>15, <1>16 DEF Next

LEMMA CacheLimitStep ==
    ASSUME TypeOK, CacheLimit, [Next]_vars
    PROVE  CacheLimit'
<1>0. MaxEntries \in Nat /\ IsFiniteSet({x \in Key : cached[x] # None})
  <2>1. {x \in Key : cached[x] # None} \in SUBSET Key
    OBVIOUS
  <2>2. QED
    BY <2>1, LimitAssumption, FiniteAssumption, FS_Subset
<1>1. ASSUME NEW c \in Caller, NEW k \in Key, RequestLive(c, k)
      PROVE  CacheLimit'
  <2>1. {x \in Key : cached'[x] # None} \in SUBSET {x \in Key : cached[x] # None}
    BY <1>1 DEF TypeOK, RequestLive, Hit, Miss, Fresh, Goto, cache
  <2>2. QED
    BY <1>0, <2>1, NoMoreThan DEF CacheLimit
<1>2. ASSUME NEW c \in Caller, NEW k \in Key, RequestVOD(c, k)
      PROVE  CacheLimit'
  BY <1>2 DEF CacheLimit, RequestVOD, Goto, cache, flights, registry, viewers
<1>3. ASSUME NEW c \in Caller, Fetched(c)
      PROVE  CacheLimit'
  BY <1>3 DEF CacheLimit, Fetched, Goto, cache, flights, registry, viewers
<1>4. ASSUME NEW c \in Caller, FetchFailed(c)
      PROVE  CacheLimit'
  <2>1. {x \in Key : cached'[x] # None} \in SUBSET {x \in Key : cached[x] # None}
    BY <1>4 DEF TypeOK, FetchFailed, Goto, Evict, cache
  <2>2. QED
    BY <1>0, <2>1, NoMoreThan DEF CacheLimit
<1>5. ASSUME NEW c \in Caller, FetchCancelled(c)
      PROVE  CacheLimit'
  BY <1>5 DEF CacheLimit, FetchCancelled, Goto, cache, flights, registry, viewers
<1>6. ASSUME NEW c \in Caller, Resolve(c)
      PROVE  CacheLimit'
  <2>1. {x \in Key : cached'[x] # None} \in SUBSET {x \in Key : cached[x] # None}
    BY <1>6 DEF TypeOK, Resolve, Hit, Miss, Fresh, Goto, Deliver, cache
  <2>2. QED
    BY <1>0, <2>1, NoMoreThan DEF CacheLimit
<1>7. ASSUME NEW c \in Caller, WaitCancelled(c)
      PROVE  CacheLimit'
  BY <1>7 DEF CacheLimit, WaitCancelled, Goto, cache, flights, registry, viewers
<1>8. ASSUME NEW c \in Caller, BeginRewrite(c)
      PROVE  CacheLimit'
  BY <1>8 DEF CacheLimit, BeginRewrite, Delete, Expired, Goto, cache, flights, viewers
<1>9. ASSUME NEW c \in Caller, EndRewrite(c)
      PROVE  CacheLimit'
  BY <1>9 DEF CacheLimit, EndRewrite, Hand, Goto, cache, flights, registry
<1>10. ASSUME NEW c \in Caller, NEW u \in Media, Register(c, u)
      PROVE  CacheLimit'
  BY <1>10 DEF CacheLimit, Register, Renew, New, Known, Expired, cache, flights, viewers
<1>11. ASSUME NEW c \in Caller, NEW u \in Media, Refuse(c, u)
      PROVE  CacheLimit'
  BY <1>11 DEF CacheLimit, Refuse, Goto, cache, flights, registry, viewers
<1>12. ASSUME NEW c \in Caller, NEW k \in Key, NEW t \in Token, Lookup(c, k, t)
      PROVE  CacheLimit'
  BY <1>12 DEF CacheLimit, Lookup, Expired, Known, Delete, Answers, Renew, Goto, cache, flights, viewers
<1>13. ASSUME NEW k \in Key, NEW s \in Caller, NEW u \in Upstream, Resolved(k, s, u)
      PROVE  CacheLimit'
  BY <1>13, StoreFits DEF Resolved
<1>14. ASSUME NEW k \in Key, NEW s \in Caller, Unresolved(k, s)
      PROVE  CacheLimit'
  BY <1>14 DEF CacheLimit, Unresolved, Finish, Waiting, cache, registry, viewers
<1>15. CASE Tick
  BY <1>15 DEF CacheLimit, Tick, Known, flights, callers
<1>16. CASE UNCHANGED vars
  BY <1>16 DEF CacheLimit, vars, cache, flights, callers, registry, viewers
<1>17. QED
  BY <1>1, <1>2, <1>3, <1>4, <1>5, <1>6, <1>7, <1>8, <1>9, <1>10, <1>11, <1>12, <1>13, <1>14, <1>15, <1>16 DEF Next

LEMMA MapsStep ==
    ASSUME TypeOK, Maps, [Next]_vars
    PROVE  Maps'
<1>1. ASSUME NEW c \in Caller, NEW k \in Key, RequestLive(c, k)
      PROVE  Maps'
  BY <1>1 DEF Maps, Known, RequestLive, Hit, Miss, Fresh, Goto, flights, registry, viewers
<1>2. ASSUME NEW c \in Caller, NEW k \in Key, RequestVOD(c, k)
      PROVE  Maps'
  BY <1>2 DEF Maps, Known, RequestVOD, Goto, cache, flights, registry, viewers
<1>3. ASSUME NEW c \in Caller, Fetched(c)
      PROVE  Maps'
  BY <1>3 DEF Maps, Known, Fetched, Goto, cache, flights, registry, viewers
<1>4. ASSUME NEW c \in Caller, FetchFailed(c)
      PROVE  Maps'
  BY <1>4 DEF Maps, Known, FetchFailed, Goto, Evict, cache, flights, registry, viewers
<1>5. ASSUME NEW c \in Caller, FetchCancelled(c)
      PROVE  Maps'
  BY <1>5 DEF Maps, Known, FetchCancelled, Goto, cache, flights, registry, viewers
<1>6. ASSUME NEW c \in Caller, Resolve(c)
      PROVE  Maps'
  BY <1>6 DEF Maps, Known, Resolve, Hit, Miss, Fresh, Goto, Deliver, flights, registry, viewers
<1>7. ASSUME NEW c \in Caller, WaitCancelled(c)
      PROVE  Maps'
  BY <1>7 DEF Maps, Known, WaitCancelled, Goto, cache, flights, registry, viewers
<1>8. ASSUME NEW c \in Caller, BeginRewrite(c)
      PROVE  Maps'
  <2>1. Delete({t \in Token : Expired(t)})
    BY <1>8 DEF BeginRewrite
  <2>2. QED
    BY <2>1, NoneAssumption DEF TypeOK, Maps, Delete, Known
<1>9. ASSUME NEW c \in Caller, EndRewrite(c)
      PROVE  Maps'
  BY <1>9 DEF Maps, Known, EndRewrite, Hand, Goto, cache, flights, registry
<1>10. ASSUME NEW c \in Caller, NEW u \in Media, Register(c, u)
      PROVE  Maps'
  <2> DEFINE p == <<key[c], u>>
  <2>1. p \in Place
    BY DEF TypeOK, Place
  <2>2. ASSUME NEW t \in Token, Renew(t)
        PROVE  Maps'
    BY <2>2 DEF Maps, Renew, Known
  <2>3. ASSUME NEW t \in Token, byURL[p] = None, ~Known(t), New(t, p)
        PROVE  Maps'
    <3>1. /\ byToken' = [byToken EXCEPT ![t] = p]
          /\ byURL' = [byURL EXCEPT ![p] = t]
      BY <2>3 DEF New
    <3> HIDE DEF p
    <3>0. None \notin Place /\ None \notin Token
      BY NoneAssumption DEF Place
    <3>2. \A x \in Token : byToken[x] # p
      BY <2>1, <2>3, <3>0 DEF Maps, Known
    <3>3. \A q \in Place : byURL[q] # t
      BY <2>3, <3>0 DEF Maps, Known
    <3>4. QED
      BY <2>1, <3>0, <3>1, <3>2, <3>3 DEF Maps, Known, TypeOK
  <2>4. QED
    BY <1>10, <2>2, <2>3 DEF Register
<1>11. ASSUME NEW c \in Caller, NEW u \in Media, Refuse(c, u)
      PROVE  Maps'
  BY <1>11 DEF Maps, Known, Refuse, Goto, cache, flights, registry, viewers
<1>12. ASSUME NEW c \in Caller, NEW k \in Key, NEW t \in Token, Lookup(c, k, t)
      PROVE  Maps'
  <2>1. CASE Delete({t})
    BY <1>12, <2>1, NoneAssumption DEF TypeOK, Maps, Delete, Known
  <2>2. CASE Renew(t)
    BY <2>2 DEF Maps, Renew, Known
  <2>3. QED
    BY <1>12, <2>1, <2>2 DEF Lookup
<1>13. ASSUME NEW k \in Key, NEW s \in Caller, NEW u \in Upstream, Resolved(k, s, u)
      PROVE  Maps'
  BY <1>13 DEF Maps, Known, Resolved, Finish, Store, Deliver, Waiting, registry, viewers
<1>14. ASSUME NEW k \in Key, NEW s \in Caller, Unresolved(k, s)
      PROVE  Maps'
  BY <1>14 DEF Maps, Known, Unresolved, Finish, Waiting, cache, registry, viewers
<1>15. CASE Tick
  BY <1>15 DEF Maps, Known, Tick, flights, callers
<1>16. CASE UNCHANGED vars
  BY <1>16 DEF Maps, Known, vars, cache, flights, callers, registry, viewers
<1>17. QED
  BY <1>1, <1>2, <1>3, <1>4, <1>5, <1>6, <1>7, <1>8, <1>9, <1>10, <1>11, <1>12, <1>13, <1>14, <1>15, <1>16 DEF Next

LEMMA TokenLimitStep ==
    ASSUME TypeOK, TokenLimit, [Next]_vars
    PROVE  TokenLimit'
<1>0. MaxTokens \in Nat /\ IsFiniteSet({t \in Token : Known(t)})
  <2>1. {t \in Token : Known(t)} \in SUBSET Token
    OBVIOUS
  <2>2. QED
    BY <2>1, LimitAssumption, FiniteAssumption, FS_Subset
<1>1. ASSUME NEW c \in Caller, NEW k \in Key, RequestLive(c, k)
      PROVE  TokenLimit'
  BY <1>1 DEF TokenLimit, Known, RequestLive, Hit, Miss, Fresh, Goto, flights, registry, viewers
<1>2. ASSUME NEW c \in Caller, NEW k \in Key, RequestVOD(c, k)
      PROVE  TokenLimit'
  BY <1>2 DEF TokenLimit, Known, RequestVOD, Goto, cache, flights, registry, viewers
<1>3. ASSUME NEW c \in Caller, Fetched(c)
      PROVE  TokenLimit'
  BY <1>3 DEF TokenLimit, Known, Fetched, Goto, cache, flights, registry, viewers
<1>4. ASSUME NEW c \in Caller, FetchFailed(c)
      PROVE  TokenLimit'
  BY <1>4 DEF TokenLimit, Known, FetchFailed, Goto, Evict, cache, flights, registry, viewers
<1>5. ASSUME NEW c \in Caller, FetchCancelled(c)
      PROVE  TokenLimit'
  BY <1>5 DEF TokenLimit, Known, FetchCancelled, Goto, cache, flights, registry, viewers
<1>6. ASSUME NEW c \in Caller, Resolve(c)
      PROVE  TokenLimit'
  BY <1>6 DEF TokenLimit, Known, Resolve, Hit, Miss, Fresh, Goto, Deliver, flights, registry, viewers
<1>7. ASSUME NEW c \in Caller, WaitCancelled(c)
      PROVE  TokenLimit'
  BY <1>7 DEF TokenLimit, Known, WaitCancelled, Goto, cache, flights, registry, viewers
<1>8. ASSUME NEW c \in Caller, BeginRewrite(c)
      PROVE  TokenLimit'
  <2>1. {t \in Token : Known(t)'} \in SUBSET {t \in Token : Known(t)}
    BY <1>8 DEF TypeOK, Known, BeginRewrite, Delete, Expired, Goto
  <2>2. QED
    BY <1>0, <2>1, NoMoreThan DEF TokenLimit
<1>9. ASSUME NEW c \in Caller, EndRewrite(c)
      PROVE  TokenLimit'
  BY <1>9 DEF TokenLimit, Known, EndRewrite, Hand, Goto, cache, flights, registry
<1>10. ASSUME NEW c \in Caller, NEW u \in Media, Register(c, u)
      PROVE  TokenLimit'
  <2>1. CASE UNCHANGED byToken
    BY <2>1 DEF TokenLimit, Known
  <2>2. ASSUME NEW t \in Token, New(t, <<key[c], u>>),
               Cardinality({x \in Token : Known(x)}) < MaxTokens
        PROVE  TokenLimit'
    <3> DEFINE S == {x \in Token : Known(x)}
    <3>1. IsFiniteSet(S \cup {t}) /\ Cardinality(S \cup {t}) <= MaxTokens
      BY <1>0, <2>2, OneMore
    <3>2. {x \in Token : Known(x)'} \in SUBSET (S \cup {t})
      BY <2>2 DEF TypeOK, New, Known
    <3>3. QED
      BY <1>0, <3>1, <3>2, NoMoreThan DEF TokenLimit
  <2>3. QED
    BY <1>10, <2>1, <2>2 DEF Register, Renew
<1>11. ASSUME NEW c \in Caller, NEW u \in Media, Refuse(c, u)
      PROVE  TokenLimit'
  BY <1>11 DEF TokenLimit, Known, Refuse, Goto, cache, flights, registry, viewers
<1>12. ASSUME NEW c \in Caller, NEW k \in Key, NEW t \in Token, Lookup(c, k, t)
      PROVE  TokenLimit'
  <2>1. {x \in Token : Known(x)'} \in SUBSET {x \in Token : Known(x)}
    BY <1>12 DEF TypeOK, Known, Lookup, Expired, Known, Delete, Answers, Renew, Goto
  <2>2. QED
    BY <1>0, <2>1, NoMoreThan DEF TokenLimit
<1>13. ASSUME NEW k \in Key, NEW s \in Caller, NEW u \in Upstream, Resolved(k, s, u)
      PROVE  TokenLimit'
  BY <1>13 DEF TokenLimit, Known, Resolved, Finish, Store, Deliver, Waiting, registry, viewers
<1>14. ASSUME NEW k \in Key, NEW s \in Caller, Unresolved(k, s)
      PROVE  TokenLimit'
  BY <1>14 DEF TokenLimit, Known, Unresolved, Finish, Waiting, cache, registry, viewers
<1>15. CASE Tick
  BY <1>15 DEF TokenLimit, Known, Tick, flights, callers
<1>16. CASE UNCHANGED vars
  BY <1>16 DEF TokenLimit, Known, vars, cache, flights, callers, registry, viewers
<1>17. QED
  BY <1>1, <1>2, <1>3, <1>4, <1>5, <1>6, <1>7, <1>8, <1>9, <1>10, <1>11, <1>12, <1>13, <1>14, <1>15, <1>16 DEF Next

LEMMA HeldIsNewStep ==
    ASSUME TypeOK, Maps, HeldIsNew, [Next]_vars
    PROVE  HeldIsNew'
<1>1. ASSUME NEW c \in Caller, NEW k \in Key, RequestLive(c, k)
      PROVE  HeldIsNew'
  BY <1>1, LimitAssumption DEF TypeOK, HeldIsNew, Known, RequestLive, Hit, Miss, Fresh, Goto, flights, registry, viewers
<1>2. ASSUME NEW c \in Caller, NEW k \in Key, RequestVOD(c, k)
      PROVE  HeldIsNew'
  BY <1>2, LimitAssumption DEF TypeOK, HeldIsNew, Known, RequestVOD, Goto, cache, flights, registry, viewers
<1>3. ASSUME NEW c \in Caller, Fetched(c)
      PROVE  HeldIsNew'
  BY <1>3, LimitAssumption DEF TypeOK, HeldIsNew, Known, Fetched, Goto, cache, flights, registry, viewers
<1>4. ASSUME NEW c \in Caller, FetchFailed(c)
      PROVE  HeldIsNew'
  BY <1>4, LimitAssumption DEF TypeOK, HeldIsNew, Known, FetchFailed, Goto, Evict, cache, flights, registry, viewers
<1>5. ASSUME NEW c \in Caller, FetchCancelled(c)
      PROVE  HeldIsNew'
  BY <1>5, LimitAssumption DEF TypeOK, HeldIsNew, Known, FetchCancelled, Goto, cache, flights, registry, viewers
<1>6. ASSUME NEW c \in Caller, Resolve(c)
      PROVE  HeldIsNew'
  BY <1>6, LimitAssumption DEF TypeOK, HeldIsNew, Known, Resolve, Hit, Miss, Fresh, Goto, Deliver, flights, registry, viewers
<1>7. ASSUME NEW c \in Caller, WaitCancelled(c)
      PROVE  HeldIsNew'
  BY <1>7, LimitAssumption DEF TypeOK, HeldIsNew, Known, WaitCancelled, Goto, cache, flights, registry, viewers
<1>8. ASSUME NEW c \in Caller, BeginRewrite(c)
      PROVE  HeldIsNew'
  BY <1>8, LimitAssumption DEF TypeOK, HeldIsNew, Known, BeginRewrite, Delete, Expired, Goto, cache, flights, viewers
<1>9. ASSUME NEW c \in Caller, EndRewrite(c)
      PROVE  HeldIsNew'
  BY <1>9, LimitAssumption DEF TypeOK, HeldIsNew, Known, EndRewrite, Hand, Goto, cache, flights, registry
<1>10. ASSUME NEW c \in Caller, NEW u \in Media, Register(c, u)
      PROVE  HeldIsNew'
  <2> SUFFICES ASSUME NEW x \in Caller, NEW y \in held'[x]
               PROVE  pc[x] = "register" /\ Known(y)' /\ tokenAge'[y] = 0
    BY <1>10 DEF HeldIsNew, Register
  <2>1. PICK t \in Token :
          /\ held' = [held EXCEPT ![c] = @ \cup {t}]
          /\ \/ byURL[<<key[c], u>>] = t /\ Renew(t)
             \/ ~Known(t) /\ New(t, <<key[c], u>>)
    BY <1>10 DEF Register
  <2>2. /\ y \in Token
        /\ y \in held[x] \/ (x = c /\ y = t)
        /\ y \in held[x] => pc[x] = "register" /\ Known(y) /\ tokenAge[y] = 0
    BY <2>1 DEF TypeOK, HeldIsNew
  <2>3. <<key[c], u>> \in Place /\ None \notin Place /\ None \notin Token
    BY NoneAssumption DEF TypeOK, Place
  <2>4. CASE byURL[<<key[c], u>>] = t /\ Renew(t)
    <3>1. Known(t)
      BY <2>3, <2>4 DEF Maps, Known
    <3>2. byToken' = byToken /\ tokenAge' = [tokenAge EXCEPT ![t] = 0]
      BY <2>4 DEF Renew
    <3>3. QED
      BY <1>10, <2>2, <3>1, <3>2 DEF TypeOK, Known, Register
  <2>5. CASE ~Known(t) /\ New(t, <<key[c], u>>)
    <3>1. /\ byToken' = [byToken EXCEPT ![t] = <<key[c], u>>]
          /\ tokenAge' = [tokenAge EXCEPT ![t] = 0]
      BY <2>5 DEF New
    <3>2. <<key[c], u>> # None
      BY <2>3
    <3>3. QED
      BY <1>10, <2>2, <3>1, <3>2 DEF TypeOK, Known, Register
  <2>6. QED
    BY <2>1, <2>4, <2>5
<1>11. ASSUME NEW c \in Caller, NEW u \in Media, Refuse(c, u)
      PROVE  HeldIsNew'
  BY <1>11, LimitAssumption DEF TypeOK, HeldIsNew, Known, Refuse, Goto, cache, flights, registry, viewers
<1>12. ASSUME NEW c \in Caller, NEW k \in Key, NEW t \in Token, Lookup(c, k, t)
      PROVE  HeldIsNew'
  BY <1>12, LimitAssumption DEF TypeOK, HeldIsNew, Known, Lookup, Expired, Delete, Answers, Renew, Goto, cache, flights, viewers
<1>13. ASSUME NEW k \in Key, NEW s \in Caller, NEW u \in Upstream, Resolved(k, s, u)
      PROVE  HeldIsNew'
  BY <1>13, LimitAssumption DEF TypeOK, HeldIsNew, Known, Resolved, Finish, Store, Deliver, Waiting, registry, viewers
<1>14. ASSUME NEW k \in Key, NEW s \in Caller, Unresolved(k, s)
      PROVE  HeldIsNew'
  BY <1>14, LimitAssumption DEF TypeOK, HeldIsNew, Known, Unresolved, Finish, Waiting, cache, registry, viewers
<1>15. CASE Tick
  BY <1>15, LimitAssumption DEF TypeOK, HeldIsNew, Known, Tick, flights, callers
<1>16. CASE UNCHANGED vars
  BY <1>16 DEF TypeOK, HeldIsNew, Known, vars, cache, flights, callers, registry, viewers
<1>17. QED
  BY <1>1, <1>2, <1>3, <1>4, <1>5, <1>6, <1>7, <1>8, <1>9, <1>10, <1>11, <1>12, <1>13, <1>14, <1>15, <1>16 DEF Next

LEMMA InUseStep ==
    ASSUME TypeOK, HeldIsNew, InUse, [Next]_vars
    PROVE  InUse'
<1>1. ASSUME NEW c \in Caller, NEW k \in Key, RequestLive(c, k)
      PROVE  InUse'
  BY <1>1, LimitAssumption DEF TypeOK, HeldIsNew, InUse, Known, RequestLive, Hit, Miss, Fresh, Goto, flights, registry, viewers
<1>2. ASSUME NEW c \in Caller, NEW k \in Key, RequestVOD(c, k)
      PROVE  InUse'
  BY <1>2, LimitAssumption DEF TypeOK, HeldIsNew, InUse, Known, RequestVOD, Goto, cache, flights, registry, viewers
<1>3. ASSUME NEW c \in Caller, Fetched(c)
      PROVE  InUse'
  BY <1>3, LimitAssumption DEF TypeOK, HeldIsNew, InUse, Known, Fetched, Goto, cache, flights, registry, viewers
<1>4. ASSUME NEW c \in Caller, FetchFailed(c)
      PROVE  InUse'
  BY <1>4, LimitAssumption DEF TypeOK, HeldIsNew, InUse, Known, FetchFailed, Goto, Evict, cache, flights, registry, viewers
<1>5. ASSUME NEW c \in Caller, FetchCancelled(c)
      PROVE  InUse'
  BY <1>5, LimitAssumption DEF TypeOK, HeldIsNew, InUse, Known, FetchCancelled, Goto, cache, flights, registry, viewers
<1>6. ASSUME NEW c \in Caller, Resolve(c)
      PROVE  InUse'
  BY <1>6, LimitAssumption DEF TypeOK, HeldIsNew, InUse, Known, Resolve, Hit, Miss, Fresh, Goto, Deliver, flights, registry, viewers
<1>7. ASSUME NEW c \in Caller, WaitCancelled(c)
      PROVE  InUse'
  BY <1>7, LimitAssumption DEF TypeOK, HeldIsNew, InUse, Known, WaitCancelled, Goto, cache, flights, registry, viewers
<1>8. ASSUME NEW c \in Caller, BeginRewrite(c)
      PROVE  InUse'
  <2> SUFFICES ASSUME NEW t \in Token, given[t] # None
               PROVE  /\ byToken'[t] = given[t]
                      /\ tokenAge'[t] <= givenAge[t]
                      /\ givenAge[t] < TokenTTL
    BY <1>8 DEF InUse, BeginRewrite, viewers
  <2>1. /\ byToken[t] = given[t] /\ tokenAge[t] <= givenAge[t] /\ givenAge[t] < TokenTTL
        /\ tokenAge[t] \in Nat /\ givenAge[t] \in Nat /\ TokenTTL \in Nat
    BY LimitAssumption DEF InUse, TypeOK
  <2>2. ~Expired(t)
    BY <2>1 DEF Expired
  <2>3. byToken'[t] = byToken[t] /\ tokenAge'[t] = tokenAge[t]
    BY <1>8, <2>2 DEF BeginRewrite, Delete
  <2>4. QED
    BY <2>1, <2>3
<1>9. ASSUME NEW c \in Caller, EndRewrite(c)
      PROVE  InUse'
  BY <1>9, LimitAssumption DEF TypeOK, HeldIsNew, InUse, Known, EndRewrite, Hand, Goto, cache, flights, registry
<1>10. ASSUME NEW c \in Caller, NEW u \in Media, Register(c, u)
      PROVE  InUse'
  BY <1>10, LimitAssumption DEF TypeOK, HeldIsNew, InUse, Known, Register, Renew, New, Expired, cache, flights, viewers
<1>11. ASSUME NEW c \in Caller, NEW u \in Media, Refuse(c, u)
      PROVE  InUse'
  BY <1>11, LimitAssumption DEF TypeOK, HeldIsNew, InUse, Known, Refuse, Goto, cache, flights, registry, viewers
<1>12. ASSUME NEW c \in Caller, NEW k \in Key, NEW t \in Token, Lookup(c, k, t)
      PROVE  InUse'
  BY <1>12, LimitAssumption DEF TypeOK, HeldIsNew, InUse, Known, Lookup, Expired, Delete, Answers, Renew, Goto, cache, flights, viewers
<1>13. ASSUME NEW k \in Key, NEW s \in Caller, NEW u \in Upstream, Resolved(k, s, u)
      PROVE  InUse'
  BY <1>13, LimitAssumption DEF TypeOK, HeldIsNew, InUse, Known, Resolved, Finish, Store, Deliver, Waiting, registry, viewers
<1>14. ASSUME NEW k \in Key, NEW s \in Caller, Unresolved(k, s)
      PROVE  InUse'
  BY <1>14, LimitAssumption DEF TypeOK, HeldIsNew, InUse, Known, Unresolved, Finish, Waiting, cache, registry, viewers
<1>15. CASE Tick
  <2> SUFFICES ASSUME NEW t \in Token, given'[t] # None
               PROVE  /\ byToken'[t] = given'[t]
                      /\ tokenAge'[t] <= givenAge'[t]
                      /\ givenAge'[t] < TokenTTL
    BY DEF InUse
  <2> DEFINE lost == {x \in Token : given[x] # None /\ givenAge[x] + 1 >= TokenTTL}
  <2>1. /\ byToken' = byToken
        /\ given'[t] = IF t \in lost THEN None ELSE given[t]
        /\ givenAge'[t] = IF given[t] = None \/ t \in lost THEN 0 ELSE givenAge[t] + 1
        /\ tokenAge'[t] = IF Known(t) THEN Older(tokenAge[t], TokenTTL) ELSE 0
    BY <1>15 DEF Tick
  <2>2. given[t] # None /\ t \notin lost /\ given'[t] = given[t]
    BY <2>1
  <2>3. /\ byToken[t] = given[t] /\ tokenAge[t] <= givenAge[t] /\ givenAge[t] < TokenTTL
        /\ tokenAge[t] \in Nat /\ givenAge[t] \in Nat /\ TokenTTL \in Nat
    BY <2>2, LimitAssumption DEF InUse, TypeOK
  <2>4. givenAge[t] + 1 < TokenTTL
    BY <2>2, <2>3
  <2>5. givenAge'[t] = givenAge[t] + 1 /\ tokenAge'[t] = tokenAge[t] + 1
    BY <2>1, <2>2, <2>3 DEF Known, Older
  <2>6. QED
    BY <2>1, <2>2, <2>3, <2>4, <2>5
<1>16. CASE UNCHANGED vars
  BY <1>16 DEF TypeOK, HeldIsNew, InUse, Known, vars, cache, flights, callers, registry, viewers
<1>17. QED
  BY <1>1, <1>2, <1>3, <1>4, <1>5, <1>6, <1>7, <1>8, <1>9, <1>10, <1>11, <1>12, <1>13, <1>14, <1>15, <1>16 DEF Next

-----------------------------------------------------------------------------
(* The theorems. *)

LEMMA InitIInv == Init => IInv
<1> SUFFICES ASSUME Init PROVE IInv
  OBVIOUS
<1>1. TypeOK /\ Flights /\ Waits /\ Uncached /\ Maps /\ HeldIsNew /\ InUse
  BY LimitAssumption, NoneAssumption
  DEF Init, TypeOK, Flights, Waits, Uncached, Maps, HeldIsNew, InUse, Known
<1>2. {k \in Key : cached[k] # None} = {} /\ {t \in Token : Known(t)} = {}
  BY DEF Init, Known
<1>3. CacheLimit /\ TokenLimit
  BY <1>2, FS_EmptySet, LimitAssumption DEF CacheLimit, TokenLimit
<1>4. QED
  BY <1>1, <1>3 DEF IInv

\* The cache, the calls in flight, the goroutines, the two maps and what the
\* viewers have agree in every reachable state.
THEOREM Invariance == Spec => []IInv
<1>1. IInv /\ [Next]_vars => IInv'
  BY TypeStep, FlightsStep, WaitsStep, UncachedStep, CacheLimitStep, MapsStep,
     TokenLimitStep, HeldIsNewStep, InUseStep DEF IInv
<1>2. QED
  BY InitIInv, <1>1, PTL DEF Spec

\* Every variable keeps its type.
THEOREM TypeCorrect == Spec => []TypeOK
<1>1. IInv => TypeOK
  BY DEF IInv
<1>2. QED
  BY <1>1, Invariance, PTL

\* A key has one goroutine, and no caller waits for a call that none will end.
THEOREM Resolution == Spec => []OneResolution
<1>1. IInv => OneResolution
  <2> SUFFICES ASSUME IInv PROVE OneResolution
    OBVIOUS
  <2>1. ASSUME NEW r \in running
        PROVE  r \in {<<k, flight[k]>> : k \in {x \in Key : flight[x] # None}}
    <3>1. PICK k \in Key, s \in Caller : r = <<k, s>>
      BY DEF IInv, TypeOK
    <3>2. flight[k] = s /\ s # None
      BY <2>1, <3>1, NoneAssumption DEF IInv, Flights
    <3>3. QED
      BY <3>1, <3>2
  <2>2. ASSUME NEW k \in Key, flight[k] # None
        PROVE  <<k, flight[k]>> \in running
    BY <2>2 DEF IInv, TypeOK, Flights
  <2>3. ASSUME NEW c \in Caller, pc[c] = "wait"
        PROVE  <<key[c], call[c]>> \in running
    BY <2>3 DEF IInv, TypeOK, Waits, Flights
  <2>4. QED
    BY <2>1, <2>2, <2>3 DEF OneResolution
<1>2. QED
  BY <1>1, Invariance, PTL

\* The maps of the registry agree, and the maps and the cache keep to their limits.
THEOREM Agreement == Spec => []TokensAgree
<1>1. IInv => TokensAgree
  BY DEF IInv, Maps, TokenLimit, CacheLimit, TokensAgree
<1>2. QED
  BY <1>1, Invariance, PTL

\* A token that a viewer got or used within its life stands for what it stood for.
THEOREM UsedTokens == Spec => []TokenInUseStays
<1>1. IInv => TokenInUseStays
  <2> SUFFICES ASSUME IInv, NEW t \in Token, given[t] # None
               PROVE  byToken[t] = given[t] /\ ~Expired(t)
    BY DEF TokenInUseStays
  <2>1. /\ byToken[t] = given[t] /\ tokenAge[t] <= givenAge[t] /\ givenAge[t] < TokenTTL
        /\ tokenAge[t] \in Nat /\ givenAge[t] \in Nat /\ TokenTTL \in Nat
    BY LimitAssumption DEF IInv, InUse, TypeOK
  <2>2. QED
    BY <2>1 DEF Expired
<1>2. QED
  BY <1>1, Invariance, PTL

\* What the property says of a step.
Spared ==
    \A k \in Key : Fresh(k) /\ cached'[k] # cached[k] =>
        \/ \E c \in Caller : /\ pc[c] \in {"first", "second"}
                             /\ key[c] = k /\ url[c] = cached[k]
                             /\ pc'[c] # pc[c]
        \/ /\ Cardinality({x \in Key : cached[x] # None}) >= MaxEntries
           /\ \E x \in Key : cached[x] = None /\ cached'[x] # None

LEMMA StoreSpares ==
    ASSUME TypeOK, Flights, Uncached, NEW j \in Key, NEW s \in Caller, NEW u \in Upstream,
           Resolved(j, s, u)
    PROVE  Spared
<1> SUFFICES ASSUME NEW k \in Key, Fresh(k), cached'[k] # cached[k]
             PROVE  /\ Cardinality({x \in Key : cached[x] # None}) >= MaxEntries
                    /\ \E x \in Key : cached[x] = None /\ cached'[x] # None
  BY DEF Spared
<1> DEFINE All == {x \in Key : cached[x] # None}
           E == Entries(Key)
<1>1. cached[j] = None
  BY NoneAssumption DEF Resolved, Finish, Flights, Uncached
<1>2. PICK victims \in SUBSET E :
        /\ Cardinality(victims) = IF Cardinality(E) < MaxEntries THEN 0 ELSE 1
        /\ cached' = [x \in Key |-> IF x = j THEN u
                                    ELSE IF x \in E \ victims THEN cached[x] ELSE None]
  BY DEF Resolved, Store
<1>3. cached'[j] # None
  BY <1>2, NoneAssumption
<1>4. k # j /\ k \in E /\ k \in victims
  BY <1>1, <1>2 DEF Entries, Fresh
<1>5. IsFiniteSet(All) /\ IsFiniteSet(E) /\ IsFiniteSet(victims)
  <2>1. All \in SUBSET Key /\ E \in SUBSET Key /\ victims \in SUBSET Key
    BY DEF Entries
  <2>2. QED
    BY <2>1, FiniteAssumption, FS_Subset
<1>6. Cardinality(victims) # 0
  BY <1>4, <1>5, FS_EmptySet
<1>7. Cardinality(E) >= MaxEntries
  <2>1. ~(Cardinality(E) < MaxEntries)
    BY <1>2, <1>6
  <2>2. Cardinality(E) \in Nat /\ MaxEntries \in Nat
    BY <1>5, FS_CardinalityType, LimitAssumption
  <2>3. QED
    BY <2>1, <2>2
<1>8. Cardinality(All) >= Cardinality(E)
  <2>1. E \in SUBSET All
    BY DEF Entries, Fresh
  <2>2. Cardinality(E) <= Cardinality(All)
    BY <1>5, <2>1, FS_Subset
  <2>3. QED
    BY <2>2, <1>5, FS_CardinalityType
<1>9. Cardinality(All) >= MaxEntries
  BY <1>5, <1>7, <1>8, FS_CardinalityType, LimitAssumption
<1>10. QED
  BY <1>1, <1>3, <1>9

\* A caller whose URL failed does not take a newer one out of the cache.
THEOREM NewerIsSpared == Spec => FreshIsSpared
<1>1. IInv /\ [Next]_vars => Spared
  <2> SUFFICES ASSUME IInv, [Next]_vars, NEW k \in Key, Fresh(k), cached'[k] # cached[k]
               PROVE  \/ \E c \in Caller : /\ pc[c] \in {"first", "second"}
                                           /\ key[c] = k /\ url[c] = cached[k]
                                           /\ pc'[c] # pc[c]
                      \/ /\ Cardinality({x \in Key : cached[x] # None}) >= MaxEntries
                         /\ \E x \in Key : cached[x] = None /\ cached'[x] # None
    BY DEF Spared
  <2>1. ASSUME NEW c \in Caller, FetchFailed(c)
        PROVE  /\ pc[c] \in {"first", "second"}
               /\ key[c] = k /\ url[c] = cached[k]
               /\ pc'[c] # pc[c]
    BY <2>1 DEF IInv, TypeOK, FetchFailed, Evict, Goto, cache
  <2>2. ASSUME NEW j \in Key, NEW s \in Caller, NEW u \in Upstream, Resolved(j, s, u)
        PROVE  Spared
    BY <2>2, StoreSpares DEF IInv
  <2>3. ASSUME NEW c \in Caller, NEW j \in Key, RequestLive(c, j)
        PROVE  FALSE
    BY <2>3 DEF IInv, TypeOK, RequestLive, Hit, Miss, Fresh
  <2>4. ASSUME NEW c \in Caller, Resolve(c)
        PROVE  FALSE
    BY <2>4 DEF IInv, TypeOK, Resolve, Hit, Miss, Fresh
  <2>5. cached' # cached
    OBVIOUS
  <2>6. ASSUME NEW c \in Caller
        PROVE  /\ \A j \in Key : ~RequestVOD(c, j)
               /\ ~Fetched(c) /\ ~FetchCancelled(c) /\ ~WaitCancelled(c)
               /\ ~BeginRewrite(c) /\ ~EndRewrite(c)
               /\ \A u \in Media : ~Register(c, u) /\ ~Refuse(c, u)
               /\ \A j \in Key, t \in Token : ~Lookup(c, j, t)
    BY <2>5 DEF RequestVOD, Fetched, FetchCancelled, WaitCancelled, BeginRewrite,
                EndRewrite, Register, Refuse, Lookup, cache
  <2>7. ASSUME NEW j \in Key, NEW s \in Caller
        PROVE  ~Unresolved(j, s)
    BY <2>5 DEF Unresolved, cache
  <2>8. ~Tick /\ ~UNCHANGED vars
    BY <2>5 DEF Tick, vars, cache
  <2>9. QED
    BY <2>1, <2>2, <2>3, <2>4, <2>6, <2>7, <2>8 DEF Next, Spared
<1>2. QED
  BY <1>1, Invariance, PTL DEF Spec, FreshIsSpared, Spared

=============================================================================
