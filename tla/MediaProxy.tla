----------------------------- MODULE MediaProxy -----------------------------
(***************************************************************************)
(* The proxied playlists: the cache of resolved playlists and its shared   *)
(* resolution (stream/live_proxy.go, stream/vod.go), and the tokens that   *)
(* stand for the media URLs of a playlist (server/api/vod_proxy.go).       *)
(*                                                                         *)
(* The live proxy and the VOD proxy are the same parts twice: each has its *)
(* own cache and its own token registry.  "live", fixed at the start, says *)
(* which of the two a behaviour is about.  A live request caches the URL,  *)
(* renews it with every hit and fetches the playlist itself; a VOD request *)
(* caches the playlist, whose age only grows.                              *)
(*                                                                         *)
(* One action per stretch of code that holds a lock, and one per way a     *)
(* fetch ends.  Times are ages in ticks up to the age that is expired.  The*)
(* requests of one rewrite share one reading of the clock, so the clock    *)
(* stands still while a rewrite registers its URLs.  Tokens are 128 random *)
(* bits: a new one is one that neither the registry nor a viewer has.      *)
(***************************************************************************)
EXTENDS Integers, FiniteSets

CONSTANTS
    Key,            \* channels, or VODs
    Caller,         \* the HTTP requests in flight at once
    Upstream,       \* resolved playlist URLs (for a VOD: playlists)
    Media,          \* the absolute URLs in the playlists
    Token,
    None,
    MaxEntries,     \* maxLiveProxyURLCacheEntries, maxVODPlaylistCacheEntries
    MaxTokens,      \* maxVODMediaTokens
    CacheTTL,       \* liveProxyURLCacheTTL, vodPlaylistCacheTTL
    TokenTTL        \* vodMediaTokenTTL

ASSUME NoneAssumption ==
    /\ None \notin Caller
    /\ None \notin Upstream
    /\ None \notin Token
    /\ None \notin Key \X Media
ASSUME FiniteAssumption == IsFiniteSet(Key) /\ IsFiniteSet(Token)
ASSUME LimitAssumption ==
    /\ MaxEntries \in Nat \ {0}
    /\ MaxTokens \in Nat
    /\ CacheTTL \in Nat \ {0}
    /\ TokenTTL \in Nat \ {0}

Place == Key \X Media       \* what a token stands for, the key of byURL

VARIABLES
    live,
    cached, cachedAge,  \* entries: the URL of a key, and its age
    flight,             \* inflight: who started the call of a key
    running,            \* the goroutines that resolve, by key and starter
    pc, key, url,       \* of a caller; url is what it fetches
    call,               \* the starter of the call it waits for
    todo, held,         \* the URLs it still has to register, its tokens
    byToken, tokenAge,  \* what a token stands for, and its age
    byURL,
    given, givenAge     \* bookkeeping: the tokens viewers have, and how long
                        \* ago each was last handed out or answered

cache == <<cached, cachedAge>>
flights == <<flight, running>>
callers == <<pc, key, url, call, todo, held>>
registry == <<byToken, tokenAge, byURL>>
viewers == <<given, givenAge>>
vars == <<live, cache, flights, callers, registry, viewers>>

TypeOK ==
    /\ live \in BOOLEAN
    /\ cached \in [Key -> Upstream \cup {None}]
    /\ cachedAge \in [Key -> 0..CacheTTL]
    /\ flight \in [Key -> Caller \cup {None}]
    /\ running \in SUBSET (Key \X Caller)
    /\ pc \in [Caller -> {"idle", "first", "resolve", "wait", "second",
                          "rewrite", "register"}]
    /\ key \in [Caller -> Key]
    /\ url \in [Caller -> Upstream \cup {None}]
    /\ call \in [Caller -> Caller \cup {None}]
    /\ todo \in [Caller -> SUBSET Media]
    /\ held \in [Caller -> SUBSET Token]
    /\ byToken \in [Token -> Place \cup {None}]
    /\ tokenAge \in [Token -> 0..TokenTTL]
    /\ byURL \in [Place -> Token \cup {None}]
    /\ given \in [Token -> Place \cup {None}]
    /\ givenAge \in [Token -> 0..TokenTTL]

Init ==
    /\ live \in BOOLEAN
    /\ cached = [k \in Key |-> None]
    /\ cachedAge = [k \in Key |-> 0]
    /\ flight = [k \in Key |-> None]
    /\ running = {}
    /\ pc = [c \in Caller |-> "idle"]
    /\ key \in [Caller -> Key]
    /\ url = [c \in Caller |-> None]
    /\ call = [c \in Caller |-> None]
    /\ todo = [c \in Caller |-> {}]
    /\ held = [c \in Caller |-> {}]
    /\ byToken = [t \in Token |-> None]
    /\ tokenAge = [t \in Token |-> 0]
    /\ byURL = [p \in Place |-> None]
    /\ given = [t \in Token |-> None]
    /\ givenAge = [t \in Token |-> 0]
-----------------------------------------------------------------------------
(* The cache of playlists. *)

Fresh(k) == cached[k] # None /\ cachedAge[k] < CacheTTL

\* A hit of the live cache renews the entry, a hit of the VOD cache does not;
\* an expired entry is removed by the request that finds it.
Hit(k) ==
    /\ Fresh(k)
    /\ cachedAge' = IF live THEN [cachedAge EXCEPT ![k] = 0] ELSE cachedAge
    /\ UNCHANGED cached

Miss(k) ==
    /\ ~Fresh(k)
    /\ cached' = [cached EXCEPT ![k] = None]
    /\ cachedAge' = [cachedAge EXCEPT ![k] = 0]

Goto(c, label) == pc' = [pc EXCEPT ![c] = label]

\* ResolveLiveProxyPlaylist asks the cache first; a VOD request goes on to
\* ResolveVODPlaylist, whose look at the cache is Resolve.
RequestLive(c, k) ==
    /\ live
    /\ pc[c] = "idle"
    /\ key' = [key EXCEPT ![c] = k]
    /\ \/ /\ Hit(k)
          /\ url' = [url EXCEPT ![c] = cached[k]]
          /\ Goto(c, "first")
       \/ /\ Miss(k)
          /\ Goto(c, "resolve")
          /\ UNCHANGED url
    /\ UNCHANGED <<live, flights, call, todo, held, registry, viewers>>

RequestVOD(c, k) ==
    /\ ~live
    /\ pc[c] = "idle"
    /\ key' = [key EXCEPT ![c] = k]
    /\ Goto(c, "resolve")
    /\ UNCHANGED <<live, cache, flights, url, call, todo, held, registry, viewers>>

\* Fetching the playlist from a URL: it succeeds,
Fetched(c) ==
    /\ pc[c] \in {"first", "second"}
    /\ url' = [url EXCEPT ![c] = None]
    /\ Goto(c, "rewrite")
    /\ UNCHANGED <<live, cache, flights, key, call, todo, held, registry, viewers>>

\* Mutant: whatever the cache holds by now is evicted.
EvictAny(k, u) ==
    /\ cached' = [cached EXCEPT ![k] = None]
    /\ cachedAge' = [cachedAge EXCEPT ![k] = 0]

\* evictCachedLiveProxyURL
Evict(k, u) ==
    IF cached[k] = u
    THEN /\ cached' = [cached EXCEPT ![k] = None]
         /\ cachedAge' = [cachedAge EXCEPT ![k] = 0]
    ELSE UNCHANGED cache

\* it fails while the caller still waits for it - the first time another URL is
\* resolved, the second time, whatever the reason, the request fails -
FetchFailed(c) ==
    /\ pc[c] \in {"first", "second"}
    /\ Evict(key[c], url[c])
    /\ url' = [url EXCEPT ![c] = None]
    /\ Goto(c, IF pc[c] = "first" THEN "resolve" ELSE "idle")
    /\ UNCHANGED <<live, flights, key, call, todo, held, registry, viewers>>

\* or the caller's context ends during the first fetch, which proves nothing
\* of the URL.
FetchCancelled(c) ==
    /\ pc[c] = "first"
    /\ url' = [url EXCEPT ![c] = None]
    /\ Goto(c, "idle")
    /\ UNCHANGED <<live, cache, flights, key, call, todo, held, registry, viewers>>
-----------------------------------------------------------------------------
(* The shared resolution. *)

\* What a caller does with a resolved URL, or with a VOD's playlist.
Deliver(C, u) ==
    /\ pc' = [c \in Caller |-> IF c \notin C THEN pc[c]
                               ELSE IF live THEN "second" ELSE "rewrite"]
    /\ url' = [c \in Caller |-> IF c \in C /\ live THEN u ELSE url[c]]

\* resolveCachedLiveProxyURL, ResolveVODPlaylist: a hit, the call in flight, or
\* a new call, whose goroutine does not depend on its starter.
Resolve(c) ==
    LET k == key[c] IN
    /\ pc[c] = "resolve"
    /\ \/ /\ Hit(k)
          /\ Deliver({c}, cached[k])
          /\ UNCHANGED <<flights, call>>
       \/ /\ Miss(k)
          /\ flight[k] # None
          /\ Goto(c, "wait")
          /\ call' = [call EXCEPT ![c] = flight[k]]
          /\ UNCHANGED <<flights, url>>
       \/ /\ Miss(k)
          /\ flight[k] = None
          /\ flight' = [flight EXCEPT ![k] = c]
          /\ running' = running \cup {<<k, c>>}
          /\ Goto(c, "wait")
          /\ call' = [call EXCEPT ![c] = c]
          /\ UNCHANGED url
    /\ UNCHANGED <<live, key, todo, held, registry, viewers>>

\* Mutant: the call is forgotten with the caller that gives up.
WaitCancelledWithCall(c) ==
    /\ pc[c] = "wait"
    /\ Goto(c, "idle")
    /\ flight' = [flight EXCEPT ![key[c]] = None]
    /\ call' = [call EXCEPT ![c] = None]
    /\ UNCHANGED <<live, cache, running, key, url, todo, held, registry, viewers>>

\* The caller goes; the call goes on.
WaitCancelled(c) ==
    /\ pc[c] = "wait"
    /\ Goto(c, "idle")
    /\ call' = [call EXCEPT ![c] = None]
    /\ UNCHANGED <<live, cache, flights, key, url, todo, held, registry, viewers>>

Waiting(k, s) == {c \in Caller : pc[c] = "wait" /\ key[c] = k /\ call[c] = s}

\* The end of a goroutine: one lock sets the result, stores it in the cache,
\* forgets the call and wakes those who wait for it.
Finish(k, s) ==
    /\ <<k, s>> \in running
    /\ running' = running \ {<<k, s>>}
    /\ flight' = [flight EXCEPT ![k] = None]
    /\ call' = [c \in Caller |-> IF c \in Waiting(k, s) THEN None ELSE call[c]]
    /\ UNCHANGED <<live, key, todo, held, registry, viewers>>

Entries(K) == {k \in K : Fresh(k)}

\* Expired entries go, then one of those left if the cache is full.
Store(k, u) ==
    \E victims \in SUBSET Entries(Key) :
        /\ Cardinality(victims) = IF Cardinality(Entries(Key)) < MaxEntries THEN 0 ELSE 1
        /\ LET kept == Entries(Key) \ victims IN
           /\ cached' = [x \in Key |-> IF x = k THEN u
                                       ELSE IF x \in kept THEN cached[x] ELSE None]
           /\ cachedAge' = [x \in Key |-> IF x \in kept \ {k} THEN cachedAge[x] ELSE 0]

Resolved(k, s, u) ==
    /\ Finish(k, s)
    /\ Store(k, u)
    /\ Deliver(Waiting(k, s), u)

Unresolved(k, s) ==
    /\ Finish(k, s)
    /\ pc' = [c \in Caller |-> IF c \in Waiting(k, s) THEN "idle" ELSE pc[c]]
    /\ UNCHANGED <<cache, url>>
-----------------------------------------------------------------------------
(* The tokens of the media URLs. *)

Known(t) == byToken[t] # None
Expired(t) == Known(t) /\ tokenAge[t] = TokenTTL

\* Mutant: the URL keeps its token.
DeleteHalf(T) ==
    /\ byToken' = [t \in Token |-> IF t \in T THEN None ELSE byToken[t]]
    /\ tokenAge' = [t \in Token |-> IF t \in T THEN 0 ELSE tokenAge[t]]
    /\ UNCHANGED byURL

\* deleteTokenLocked
Delete(T) ==
    /\ byToken' = [t \in Token |-> IF t \in T THEN None ELSE byToken[t]]
    /\ tokenAge' = [t \in Token |-> IF t \in T THEN 0 ELSE tokenAge[t]]
    /\ byURL' = [p \in Place |-> IF \E t \in T : byToken[t] = p THEN None ELSE byURL[p]]

\* rewriteVODPlaylist, rewriteLiveProxyPlaylist: prune, then register the URLs
\* of the playlist one by one.
BeginRewrite(c) ==
    /\ pc[c] = "rewrite"
    /\ Delete({t \in Token : Expired(t)})
    /\ \E urls \in SUBSET Media : todo' = [todo EXCEPT ![c] = urls]
    /\ Goto(c, "register")
    /\ UNCHANGED <<live, cache, flights, key, url, call, held, viewers>>

\* Mutant: the time of a token is never renewed.
RenewNothing(t) == UNCHANGED registry

Renew(t) ==
    /\ tokenAge' = [tokenAge EXCEPT ![t] = 0]
    /\ UNCHANGED <<byToken, byURL>>

New(t, p) ==
    /\ byToken' = [byToken EXCEPT ![t] = p]
    /\ tokenAge' = [tokenAge EXCEPT ![t] = 0]
    /\ byURL' = [byURL EXCEPT ![p] = t]

\* register.  The prune before it leaves no expired token, so the branch of
\* register that replaces one is not taken here.
Register(c, u) ==
    LET p == <<key[c], u>> IN
    /\ pc[c] = "register"
    /\ u \in todo[c]
    /\ todo' = [todo EXCEPT ![c] = @ \ {u}]
    /\ \E t \in Token :
        /\ held' = [held EXCEPT ![c] = @ \cup {t}]
        /\ \/ byURL[p] = t /\ ~Expired(t) /\ Renew(t)
           \/ /\ byURL[p] = None
              /\ Cardinality({x \in Token : Known(x)}) < MaxTokens
              /\ ~Known(t) /\ given[t] = None
              /\ New(t, p)
    /\ UNCHANGED <<live, cache, flights, pc, key, url, call, viewers>>

\* The registry is full: the playlist fails, its earlier tokens stay.
Refuse(c, u) ==
    /\ pc[c] = "register"
    /\ u \in todo[c]
    /\ byURL[<<key[c], u>>] = None
    /\ Cardinality({x \in Token : Known(x)}) >= MaxTokens
    /\ todo' = [todo EXCEPT ![c] = {}]
    /\ held' = [held EXCEPT ![c] = {}]
    /\ Goto(c, "idle")
    /\ UNCHANGED <<live, cache, flights, key, url, call, registry, viewers>>

Hand(T) ==
    /\ given' = [t \in Token |-> IF t \in T THEN byToken[t] ELSE given[t]]
    /\ givenAge' = [t \in Token |-> IF t \in T THEN 0 ELSE givenAge[t]]

\* The playlist is sent.
EndRewrite(c) ==
    /\ pc[c] = "register"
    /\ todo[c] = {}
    /\ Hand(held[c])
    /\ held' = [held EXCEPT ![c] = {}]
    /\ Goto(c, "idle")
    /\ UNCHANGED <<live, cache, flights, key, url, call, todo, registry>>

\* lookup: a token that is missing, expired or of another key is not found.
Answers(k, t) == Known(t) /\ ~Expired(t) /\ byToken[t][1] = k

\* A media request.  What it fetches may be a playlist again, which is
\* rewritten in turn.
Lookup(c, k, t) ==
    /\ pc[c] = "idle"
    /\ \/ /\ Expired(t)
          /\ Delete({t})
          /\ UNCHANGED <<pc, key, viewers>>
       \/ /\ Answers(k, t)
          /\ Renew(t)
          /\ given' = [given EXCEPT ![t] = byToken[t]]
          /\ givenAge' = [givenAge EXCEPT ![t] = 0]
          /\ \/ UNCHANGED <<pc, key>>
             \/ Goto(c, "rewrite") /\ key' = [key EXCEPT ![c] = k]
    /\ UNCHANGED <<live, cache, flights, url, call, todo, held>>
-----------------------------------------------------------------------------
Older(age, limit) == IF age < limit THEN age + 1 ELSE age

\* Time passes.  A token that a viewer did not use for TokenTTL is forgotten.
Tick ==
    /\ \A c \in Caller : pc[c] # "register"
    /\ cachedAge' = [k \in Key |-> IF cached[k] = None THEN 0
                                   ELSE Older(cachedAge[k], CacheTTL)]
    /\ tokenAge' = [t \in Token |-> IF Known(t) THEN Older(tokenAge[t], TokenTTL) ELSE 0]
    /\ LET lost == {t \in Token : given[t] # None /\ givenAge[t] + 1 >= TokenTTL} IN
       /\ given' = [t \in Token |-> IF t \in lost THEN None ELSE given[t]]
       /\ givenAge' = [t \in Token |-> IF given[t] = None \/ t \in lost THEN 0
                                       ELSE givenAge[t] + 1]
    /\ UNCHANGED <<live, cached, flights, callers, byToken, byURL>>

Next ==
    \/ \E c \in Caller :
        \/ \E k \in Key : RequestLive(c, k) \/ RequestVOD(c, k)
        \/ Fetched(c) \/ FetchFailed(c) \/ FetchCancelled(c)
        \/ Resolve(c) \/ WaitCancelled(c)
        \/ BeginRewrite(c) \/ EndRewrite(c)
        \/ \E u \in Media : Register(c, u) \/ Refuse(c, u)
        \/ \E k \in Key, t \in Token : Lookup(c, k, t)
    \/ \E k \in Key, s \in Caller :
        \/ \E u \in Upstream : Resolved(k, s, u)
        \/ Unresolved(k, s)
    \/ Tick

Spec == Init /\ [][Next]_vars
-----------------------------------------------------------------------------
(* Properties. *)

\* A key is resolved by one goroutine at a time, the one its call in flight
\* belongs to, and whoever waits, waits for a call that a goroutine will end,
\* although the caller who started it may have gone.
OneResolution ==
    /\ running = {<<k, flight[k]>> : k \in {x \in Key : flight[x] # None}}
    /\ \A c \in Caller : pc[c] = "wait" => <<key[c], call[c]>> \in running

\* A fresh entry leaves the cache, or is replaced, only when a fetch of that
\* very URL failed or to make room for another key: a caller that fails with an
\* older URL does not take away the newer one.
FreshIsSpared ==
    [][\A k \in Key : Fresh(k) /\ cached'[k] # cached[k] =>
        \/ \E c \in Caller : /\ pc[c] \in {"first", "second"}
                             /\ key[c] = k /\ url[c] = cached[k]
                             /\ pc'[c] # pc[c]
        \/ /\ Cardinality({x \in Key : cached[x] # None}) >= MaxEntries
           /\ \E x \in Key : cached[x] = None /\ cached'[x] # None]_vars

\* The two maps agree, so that no URL has two tokens and no entry outlives its
\* counterpart, and both maps and the cache keep to their limits.
TokensAgree ==
    /\ \A t \in Token : Known(t) => byURL[byToken[t]] = t
    /\ \A p \in Place : byURL[p] # None => byToken[byURL[p]] = p
    /\ Cardinality({t \in Token : Known(t)}) <= MaxTokens
    /\ Cardinality({k \in Key : cached[k] # None}) <= MaxEntries

\* A token that was handed out, or answered, less than TokenTTL ago still stands
\* for what it stood for then, whatever was pruned, refused or looked up since.
TokenInUseStays ==
    \A t \in Token : given[t] # None => byToken[t] = given[t] /\ ~Expired(t)
=============================================================================
