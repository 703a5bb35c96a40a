--------------------------- MODULE PlaybackProofs ---------------------------
(***************************************************************************)
(* The playback tracker and its monitor, for any channels and sessions,    *)
(* any limit and any of the three times.                                   *)
(***************************************************************************)
EXTENDS Playback, FiniteSetTheorems, TLAPS

\* What a map of ages is, without the union over its domains.
LEMMA AgedIs ==
    ASSUME NEW S, NEW limit, NEW f
    PROVE  f \in Aged(S, limit) <=> /\ f = [k \in DOMAIN f |-> f[k]]
                                    /\ DOMAIN f \subseteq S
                                    /\ \A k \in DOMAIN f : f[k] \in 0..limit
<1>1. ASSUME f \in Aged(S, limit)
      PROVE  /\ f = [k \in DOMAIN f |-> f[k]]
             /\ DOMAIN f \subseteq S
             /\ \A k \in DOMAIN f : f[k] \in 0..limit
  <2>1. PICK T \in SUBSET S : f \in [T -> 0..limit]
    BY <1>1 DEF Aged
  <2>2. QED
    BY <2>1
<1>2. ASSUME f = [k \in DOMAIN f |-> f[k]], DOMAIN f \subseteq S,
             \A k \in DOMAIN f : f[k] \in 0..limit
      PROVE  f \in Aged(S, limit)
  <2>1. f \in [DOMAIN f -> 0..limit]
    BY <1>2
  <2>2. QED
    BY <1>2, <2>1 DEF Aged
<1>3. QED
  BY <1>1, <1>2

LEMMA NothingAged ==
    ASSUME NEW S, NEW limit
    PROVE  Nothing \in Aged(S, limit) /\ DOMAIN Nothing = {}
<1>1. DOMAIN Nothing = {} /\ Nothing = [k \in DOMAIN Nothing |-> Nothing[k]]
  BY DEF Nothing
<1>2. QED
  BY <1>1, AgedIs

\* Pruning keeps the ages of what is left.
LEMMA RestrictAged ==
    ASSUME NEW S, NEW limit, NEW f \in Aged(S, limit), NEW T \in SUBSET DOMAIN f
    PROVE  /\ Restrict(f, T) \in Aged(S, limit)
           /\ DOMAIN Restrict(f, T) = T
           /\ \A k \in T : Restrict(f, T)[k] = f[k]
<1>1. Restrict(f, T) = [k \in T |-> f[k]]
  BY DEF Restrict
<1>2. DOMAIN f \subseteq S /\ \A k \in DOMAIN f : f[k] \in 0..limit
  BY AgedIs
<1>3. DOMAIN Restrict(f, T) = T /\ \A k \in T : Restrict(f, T)[k] = f[k]
  BY <1>1
<1>4. /\ Restrict(f, T) = [k \in DOMAIN Restrict(f, T) |-> Restrict(f, T)[k]]
      /\ DOMAIN Restrict(f, T) \subseteq S
      /\ \A k \in DOMAIN Restrict(f, T) : Restrict(f, T)[k] \in 0..limit
  BY <1>1, <1>2, <1>3
<1>5. QED
  BY <1>3, <1>4, AgedIs

\* A put adds its key, with age 0.
LEMMA PutAged ==
    ASSUME NEW S, NEW limit \in Nat, NEW f \in Aged(S, limit), NEW T \in SUBSET DOMAIN f,
           NEW k \in S
    PROVE  /\ Put(f, k, T) \in Aged(S, limit)
           /\ DOMAIN Put(f, k, T) = T \cup {k}
           /\ Put(f, k, T)[k] = 0
           /\ \A j \in T \ {k} : Put(f, k, T)[j] = f[j]
<1> DEFINE g == Put(f, k, T)
<1>1. g = [j \in T \cup {k} |-> IF j = k THEN 0 ELSE f[j]]
  BY DEF Put
<1>2. DOMAIN f \subseteq S /\ \A j \in DOMAIN f : f[j] \in 0..limit
  BY AgedIs
<1>3. DOMAIN g = T \cup {k} /\ g[k] = 0 /\ \A j \in T \ {k} : g[j] = f[j]
  BY <1>1
<1>4. g = [j \in DOMAIN g |-> g[j]]
  BY <1>1
<1>5. \A j \in DOMAIN g : g[j] \in 0..limit
  BY <1>2, <1>3
<1>6. g \in Aged(S, limit)
  <2> HIDE DEF g
  <2>1. QED
    BY <1>2, <1>3, <1>4, <1>5, AgedIs
<1>7. QED
  BY <1>3, <1>6

\* Time adds one, up to the limit.
LEMMA OlderAged ==
    ASSUME NEW S, NEW limit \in Nat, NEW f \in Aged(S, limit)
    PROVE  /\ Older(f, limit) \in Aged(S, limit)
           /\ DOMAIN Older(f, limit) = DOMAIN f
           /\ \A k \in DOMAIN f :
                  Older(f, limit)[k] = IF f[k] < limit THEN f[k] + 1 ELSE limit
<1> DEFINE g == Older(f, limit)
<1>1. g = [k \in DOMAIN f |-> IF f[k] < limit THEN f[k] + 1 ELSE limit]
  BY DEF Older
<1>2. DOMAIN f \subseteq S /\ \A k \in DOMAIN f : f[k] \in 0..limit
  BY AgedIs
<1>3. /\ DOMAIN g = DOMAIN f
      /\ \A k \in DOMAIN f : g[k] = IF f[k] < limit THEN f[k] + 1 ELSE limit
  BY <1>1
<1>4. g = [k \in DOMAIN g |-> g[k]]
  BY <1>1
<1>5. \A k \in DOMAIN g : g[k] \in 0..limit
  <2> SUFFICES ASSUME NEW k \in DOMAIN f PROVE g[k] \in 0..limit
    BY <1>3
  <2>1. f[k] \in 0..limit /\ g[k] = IF f[k] < limit THEN f[k] + 1 ELSE limit
    BY <1>2, <1>3
  <2> HIDE DEF g
  <2>2. QED
    BY <2>1
<1>6. g \in Aged(S, limit)
  <2> HIDE DEF g
  <2>1. QED
    BY <1>2, <1>3, <1>4, <1>5, AgedIs
<1>7. QED
  BY <1>3, <1>6

-----------------------------------------------------------------------------
Recorded == \E k \in Key : RecordPlaying(k)
Pruned == PruneSeen /\ PruneMarks /\ (SweepCount \/ joined' = joined)
MarkPut == joined' = joined /\ \E k \in Key : MarkJellyfinSession(k)
Stopped ==
    /\ joined' = joined
    /\ \E k \in Key :
           /\ StopPlaying(k)
           /\ Leave(k) \/ \E w \in Webhook : wkey[w] = k /\ WebhookUndo(w)
Unmoved == UNCHANGED sessions /\ joined' = joined

\* What a step does to the two maps is one of the tracker's operations, or time passes.
LEMMA SessionSteps ==
    ASSUME wkey \in [Webhook -> Key], [Next]_vars
    PROVE  Recorded \/ Pruned \/ MarkPut \/ Stopped \/ Unmoved \/ Tick
<1>1. ASSUME NEW k \in Key, Ping(k)
      PROVE  Recorded \/ Pruned
  BY <1>1 DEF Ping, RefusePlaying, Recorded, Pruned
<1>2. ASSUME NEW k \in Key, Leave(k)
      PROVE  Stopped
  BY <1>2 DEF Leave, Stopped
<1>3. CASE ReadCounts
  BY <1>3 DEF ReadCounts, Pruned
<1>4. ASSUME NEW c \in Channel, StartStream(c) \/ StopStream(c) \/ StreamEnds(c)
      PROVE  Unmoved
  BY <1>4 DEF StartStream, StopStream, StreamEnds, Unmoved
<1>5. ASSUME NEW w \in Webhook, NEW k \in Key, WebhookStart(w, k)
      PROVE  Unmoved
  BY <1>5 DEF WebhookStart, Unmoved
<1>6. ASSUME NEW w \in Webhook, WebhookRecord(w)
      PROVE  Recorded \/ Pruned
  BY <1>6 DEF WebhookRecord, RefusePlaying, Recorded, Pruned
<1>7. ASSUME NEW w \in Webhook, WebhookMark(w)
      PROVE  MarkPut \/ Pruned
  BY <1>7 DEF WebhookMark, RefuseMark, MarkPut, Pruned
<1>8. ASSUME NEW w \in Webhook, WebhookUndo(w)
      PROVE  Stopped
  BY <1>8 DEF WebhookUndo, Stopped
<1>9. CASE Sweep
  <2>1. CASE SweepCount
    BY <2>1 DEF SweepCount, Pruned
  <2>2. CASE SweepLook \/ SweepTimers \/ SweepRest
    BY <2>2 DEF SweepLook, SweepTimers, SweepRest, Unmoved
  <2>3. ASSUME NEW c \in Channel, SweepStop(c)
        PROVE  Unmoved
    BY <2>3 DEF SweepStop, Unmoved
  <2>4. QED
    BY <1>9, <2>1, <2>2, <2>3 DEF Sweep
<1>10. CASE UNCHANGED vars
  BY <1>10 DEF vars, Unmoved
<1>11. QED
  BY <1>1, <1>2, <1>3, <1>4, <1>5, <1>6, <1>7, <1>8, <1>9, <1>10 DEF Next

MapsTyped ==
    /\ seen \in Aged(Key, SessionTTL + 1)
    /\ marked \in Aged(Key, MaxAge)
    /\ joined \subseteq Key

\* What prune leaves is part of what was there.
LEMMA PruneLeaves ==
    Counted \subseteq DOMAIN seen /\ LiveMarks \subseteq DOMAIN marked
  BY DEF Counted, LiveMarks

LEMMA MapsTypedKept ==
    ASSUME MapsTyped, wkey \in [Webhook -> Key], [Next]_vars
    PROVE  MapsTyped'
<1>1. SessionTTL + 1 \in Nat /\ MaxAge \in Nat
  BY TimeAssumption
<1>2. CASE Recorded
  <2>1. PICK k \in Key : RecordPlaying(k)
    BY <1>2 DEF Recorded
  <2>2. /\ Put(seen, k, Counted) \in Aged(Key, SessionTTL + 1)
        /\ Restrict(marked, LiveMarks) \in Aged(Key, MaxAge)
    BY <1>1, PruneLeaves, PutAged, RestrictAged DEF MapsTyped
  <2>3. QED
    BY <2>1, <2>2 DEF RecordPlaying, PruneMarks, MapsTyped
<1>3. CASE Pruned
  <2>1. /\ Restrict(seen, Counted) \in Aged(Key, SessionTTL + 1)
        /\ Restrict(marked, LiveMarks) \in Aged(Key, MaxAge)
    BY PruneLeaves, RestrictAged DEF MapsTyped
  <2>2. joined' \subseteq Key
    BY <1>3 DEF Pruned, SweepCount, MapsTyped
  <2>3. QED
    BY <1>3, <2>1, <2>2 DEF Pruned, PruneSeen, PruneMarks, MapsTyped
<1>4. CASE MarkPut
  <2>1. PICK k \in Key : MarkJellyfinSession(k)
    BY <1>4 DEF MarkPut
  <2>2. /\ Restrict(seen, Counted) \in Aged(Key, SessionTTL + 1)
        /\ Put(marked, k, LiveMarks) \in Aged(Key, MaxAge)
    BY <1>1, PruneLeaves, PutAged, RestrictAged DEF MapsTyped
  <2>3. QED
    BY <1>4, <2>1, <2>2 DEF MarkPut, MarkJellyfinSession, PruneSeen, MapsTyped
<1>5. CASE Stopped
  <2>1. PICK k \in Key : StopPlaying(k)
    BY <1>5 DEF Stopped
  <2>2. /\ Restrict(seen, DOMAIN seen \ {k}) \in Aged(Key, SessionTTL + 1)
        /\ Restrict(marked, DOMAIN marked \ {k}) \in Aged(Key, MaxAge)
    BY RestrictAged DEF MapsTyped
  <2>3. QED
    BY <1>5, <2>1, <2>2 DEF Stopped, StopPlaying, MapsTyped
<1>6. CASE Unmoved
  BY <1>6 DEF Unmoved, sessions, MapsTyped
<1>7. CASE Tick
  BY <1>1, <1>7, OlderAged DEF Tick, MapsTyped
<1>8. QED
  BY <1>2, <1>3, <1>4, <1>5, <1>6, <1>7, SessionSteps

-----------------------------------------------------------------------------
\* The monitor's variables and the webhook requests.
RestTyped ==
    /\ idle \in Aged(Channel, IdleTTL)
    /\ stream \in [Channel -> {"off", "on", "stopping"}]
    /\ pc \in {"rest", "look", "timers", "stop"}
    /\ due \in BOOLEAN
    /\ counted \subseteq Channel
    /\ active \subseteq Channel
    /\ stopList \subseteq Channel
    /\ wpc \in [Webhook -> {"none", "record", "mark", "undo"}]
    /\ wkey \in [Webhook -> Key]
    /\ sinceCount \in [Channel -> 0..IdleTTL]
    /\ overtaken \subseteq Webhook

\* The timers after a sweep: what was running runs on, what is new starts at 0.
LEMMA TimersAged ==
    ASSUME idle \in Aged(Channel, IdleTTL), active \subseteq Channel, Timers
    PROVE  /\ idle' \in Aged(Channel, IdleTTL)
           /\ DOMAIN idle' = (active \ counted) \ TimeIsUp
           /\ \A c \in DOMAIN idle' :
                  idle'[c] = IF c \in DOMAIN idle THEN idle[c] ELSE 0
<1>1. IdleTTL \in Nat
  BY TimeAssumption
<1>2. \A c \in DOMAIN idle : idle[c] \in 0..IdleTTL
  BY AgedIs
<1>3. /\ DOMAIN idle' = (active \ counted) \ TimeIsUp
      /\ \A c \in DOMAIN idle' :
             idle'[c] = IF c \in DOMAIN idle THEN idle[c] ELSE 0
      /\ idle' = [c \in DOMAIN idle' |-> idle'[c]]
  BY DEF Timers
<1>4. \A c \in DOMAIN idle' : idle'[c] \in 0..IdleTTL
  BY <1>1, <1>2, <1>3
<1>5. idle' \in Aged(Channel, IdleTTL)
  BY <1>3, <1>4, AgedIs
<1>6. QED
  BY <1>3, <1>5

LEMMA RestTypedKept ==
    ASSUME RestTyped, [Next]_vars
    PROVE  RestTyped'
<1>0. IdleTTL \in Nat
  BY TimeAssumption
<1>1. ASSUME NEW k \in Key, Ping(k) \/ Leave(k)
      PROVE  RestTyped'
  BY <1>1 DEF Ping, Leave, monitor, webhooks, RestTyped
<1>2. CASE ReadCounts
  BY <1>2 DEF ReadCounts, monitor, webhooks, RestTyped
<1>3. ASSUME NEW c \in Channel, StartStream(c) \/ StopStream(c) \/ StreamEnds(c)
      PROVE  RestTyped'
  BY <1>3 DEF StartStream, StopStream, StreamEnds, monitor, webhooks, RestTyped
<1>4. ASSUME NEW w \in Webhook, NEW k \in Key, WebhookStart(w, k)
      PROVE  RestTyped'
  <2>1. k[1] \in Channel
    BY DEF Key
  <2>2. stream' \in [Channel -> {"off", "on", "stopping"}]
    BY <1>4, <2>1 DEF WebhookStart, RestTyped
  <2>3. QED
    BY <1>4, <2>2 DEF WebhookStart, monitor, RestTyped
<1>5. ASSUME NEW w \in Webhook, WebhookRecord(w) \/ WebhookMark(w) \/ WebhookUndo(w)
      PROVE  RestTyped'
  BY <1>5 DEF WebhookRecord, WebhookMark, WebhookUndo, GoWebhook, monitor, RestTyped
<1>6. CASE SweepCount
  <2>1. sinceCount' \in [Channel -> 0..IdleTTL]
    BY <1>0, <1>6 DEF SweepCount, RestTyped
  <2>2. QED
    BY <1>6, <2>1 DEF SweepCount, GoMonitor, webhooks, RestTyped
<1>7. CASE SweepLook
  BY <1>7 DEF SweepLook, GoMonitor, webhooks, RestTyped
<1>8. CASE SweepTimers
  <2>1. idle' \in Aged(Channel, IdleTTL) /\ stopList' \subseteq Channel
    BY <1>8, TimersAged DEF SweepTimers, TimeIsUp, RestTyped
  <2>2. QED
    BY <1>8, <2>1 DEF SweepTimers, GoMonitor, webhooks, RestTyped
<1>9. ASSUME NEW c \in Channel, SweepStop(c)
      PROVE  RestTyped'
  BY <1>9 DEF SweepStop, webhooks, RestTyped
<1>10. CASE SweepRest
  BY <1>10 DEF SweepRest, GoMonitor, webhooks, RestTyped
<1>11. CASE Tick
  <2>1. idle' \in Aged(Channel, IdleTTL)
    BY <1>0, <1>11, OlderAged DEF Tick, RestTyped
  <2>2. sinceCount' \in [Channel -> 0..IdleTTL]
    BY <1>0, <1>11 DEF Tick, Older, RestTyped
  <2>3. QED
    BY <1>11, <2>1, <2>2 DEF Tick, webhooks, RestTyped
<1>12. CASE UNCHANGED vars
  BY <1>12 DEF vars, monitor, webhooks, RestTyped
<1>13. QED
  BY <1>1, <1>2, <1>3, <1>4, <1>5, <1>6, <1>7, <1>8, <1>9, <1>10, <1>11, <1>12
     DEF Next, Sweep

LEMMA TypeIs == TypeOK <=> MapsTyped /\ RestTyped
  BY DEF TypeOK, MapsTyped, RestTyped

LEMMA InitTyped == Init => TypeOK
<1>1. SessionTTL + 1 \in Nat /\ MaxAge \in Nat /\ IdleTTL \in Nat
  BY TimeAssumption
<1>2. /\ Nothing \in Aged(Key, SessionTTL + 1) /\ Nothing \in Aged(Key, MaxAge)
      /\ Nothing \in Aged(Channel, IdleTTL)
  BY NothingAged
<1>3. [c \in Channel |-> 0] \in [Channel -> 0..IdleTTL]
  BY <1>1
<1>4. QED
  BY <1>2, <1>3 DEF Init, TypeOK

\* Every variable keeps its type: no age, timer or phase leaves its range.
THEOREM TypeCorrect == Spec => []TypeOK
<1>1. TypeOK /\ [Next]_vars => TypeOK'
  <2>1. MapsTyped /\ RestTyped /\ [Next]_vars => MapsTyped'
    BY MapsTypedKept DEF RestTyped
  <2>2. MapsTyped /\ RestTyped /\ [Next]_vars => RestTyped'
    BY RestTypedKept
  <2>3. QED
    BY <2>1, <2>2, TypeIs DEF TypeOK, MapsTyped, RestTyped
<1>2. QED
  BY <1>1, InitTyped, PTL DEF Spec

-----------------------------------------------------------------------------
\* The stop list exists during the stops only, the count only before them.
Phases ==
    /\ pc \in {"rest", "stop"} => counted = {}
    /\ pc # "stop" => stopList = {}

\* A timer runs from a sweep that found the channel idle, so it is no older than the last
\* count that found viewers; a channel this sweep has counted is about to lose its timer.
IdleFollows == \A c \in DOMAIN idle \ counted : idle[c] <= sinceCount[c]

IdleInv == Phases /\ IdleFollows

LEMMA IdleInvKept ==
    ASSUME TypeOK, IdleInv, [Next]_vars
    PROVE  IdleInv' /\ \A c \in stopList' \ stopList : sinceCount[c] >= IdleTTL
<1>0. /\ IdleTTL \in Nat \ {0}
      /\ idle \in Aged(Channel, IdleTTL)
      /\ DOMAIN idle \subseteq Channel /\ \A c \in DOMAIN idle : idle[c] \in 0..IdleTTL
      /\ sinceCount \in [Channel -> 0..IdleTTL]
      /\ pc \in {"rest", "look", "timers", "stop"}
      /\ active \subseteq Channel
  BY TimeAssumption, AgedIs DEF TypeOK
<1>1. CASE UNCHANGED monitor
  BY <1>1 DEF monitor, IdleInv, Phases, IdleFollows
<1>2. CASE SweepCount
  <2>1. \A c \in DOMAIN idle \ counted' : sinceCount'[c] = sinceCount[c]
    BY <1>0, <1>2 DEF SweepCount
  <2>2. QED
    BY <1>0, <1>2, <2>1 DEF SweepCount, GoMonitor, IdleInv, Phases, IdleFollows
<1>3. CASE SweepLook
  BY <1>3 DEF SweepLook, GoMonitor, IdleInv, Phases, IdleFollows
<1>4. CASE SweepTimers
  <2>1. /\ DOMAIN idle' = (active \ counted) \ TimeIsUp
        /\ \A c \in DOMAIN idle' : idle'[c] = IF c \in DOMAIN idle THEN idle[c] ELSE 0
    BY <1>0, <1>4, TimersAged DEF SweepTimers
  <2>2. IdleFollows'
    <3> SUFFICES ASSUME NEW c \in DOMAIN idle' PROVE idle'[c] <= sinceCount'[c]
      BY DEF IdleFollows
    <3>1. c \in Channel /\ c \notin counted /\ sinceCount'[c] = sinceCount[c]
      BY <1>0, <1>4, <2>1 DEF SweepTimers
    <3>2. CASE c \in DOMAIN idle
      BY <2>1, <3>1, <3>2 DEF IdleInv, IdleFollows
    <3>3. CASE c \notin DOMAIN idle
      BY <1>0, <2>1, <3>1, <3>3
    <3>4. QED
      BY <3>2, <3>3
  <2>3. Phases'
    BY <1>4 DEF SweepTimers, GoMonitor, Phases
  <2>4. \A c \in stopList' : sinceCount[c] >= IdleTTL
    BY <1>0, <1>4 DEF SweepTimers, TimeIsUp, IdleInv, IdleFollows
  <2>5. QED
    BY <2>2, <2>3, <2>4 DEF IdleInv
<1>5. ASSUME NEW c \in Channel, SweepStop(c)
      PROVE  IdleInv' /\ stopList' \subseteq stopList
  BY <1>5 DEF SweepStop, IdleInv, Phases, IdleFollows
<1>6. CASE SweepRest
  BY <1>6 DEF SweepRest, GoMonitor, IdleInv, Phases, IdleFollows
<1>7. CASE Tick
  <2>1. /\ DOMAIN idle' = DOMAIN idle
        /\ \A c \in DOMAIN idle :
               idle'[c] = IF idle[c] < IdleTTL THEN idle[c] + 1 ELSE IdleTTL
    BY <1>0, <1>7, OlderAged DEF Tick
  <2>2. \A c \in Channel :
            sinceCount'[c] = IF sinceCount[c] < IdleTTL THEN sinceCount[c] + 1 ELSE IdleTTL
    BY <1>0, <1>7 DEF Tick, Older
  <2>3. counted' = counted /\ stopList' = stopList /\ pc' = pc
    BY <1>7 DEF Tick
  <2>4. IdleFollows'
    <3> SUFFICES ASSUME NEW c \in DOMAIN idle \ counted PROVE idle'[c] <= sinceCount'[c]
      BY <2>1, <2>3 DEF IdleFollows
    <3>1. idle[c] <= sinceCount[c]
      BY DEF IdleInv, IdleFollows
    <3>2. idle[c] \in 0..IdleTTL /\ sinceCount[c] \in 0..IdleTTL
      BY <1>0
    <3>3. QED
      BY <1>0, <2>1, <2>2, <3>1, <3>2
  <2>5. QED
    BY <2>3, <2>4 DEF IdleInv, Phases
<1>8. QED
  <2>1. [Next]_vars => \/ UNCHANGED monitor
                       \/ SweepCount \/ SweepLook \/ SweepTimers \/ SweepRest
                       \/ \E c \in Channel : SweepStop(c)
                       \/ Tick
    BY DEF Next, Sweep, vars, Ping, Leave, ReadCounts, StartStream, StopStream, StreamEnds,
           WebhookStart, WebhookRecord, WebhookMark, WebhookUndo
  <2>2. UNCHANGED monitor \/ SweepLook \/ SweepRest \/ SweepCount \/ Tick => stopList' = stopList
    BY DEF monitor, SweepLook, SweepRest, SweepCount, Tick
  <2>3. QED
    BY <1>1, <1>2, <1>3, <1>4, <1>5, <1>6, <1>7, <2>1, <2>2

LEMMA InitIdle == Init => IdleInv
  BY NothingAged DEF Init, IdleInv, Phases, IdleFollows

\* The idle period starts after the last viewer was counted, whatever the channel did
\* between two sweeps: reconcileIdleStreams drops the timer of a channel that has viewers,
\* that it stops or that has no stream.
THEOREM GracePeriod == Spec => GraceAfterViewers
<1>1. TypeOK /\ IdleInv /\ [Next]_vars => IdleInv'
  BY IdleInvKept
<1>2. TypeOK /\ IdleInv /\ [Next]_vars =>
          [\A c \in stopList' \ stopList : sinceCount[c] >= IdleTTL]_vars
  BY IdleInvKept
<1>3. QED
  BY <1>1, <1>2, InitIdle, TypeCorrect, PTL DEF Spec, GraceAfterViewers

-----------------------------------------------------------------------------
\* A session counts from a start or a ping on, and nothing else makes it count: a mark is
\* put on what counts already or on nothing.
LEMMA OnlyRecordedCount ==
    ASSUME TypeOK, [Next]_vars, NEW k \in Counted', k \notin Counted
    PROVE  k \in joined'
<1>0. /\ SessionTTL \in Nat /\ MaxAge \in Nat \ {0}
      /\ seen \in Aged(Key, SessionTTL + 1) /\ marked \in Aged(Key, MaxAge)
      /\ \A j \in DOMAIN seen : seen[j] \in 0..(SessionTTL + 1)
      /\ \A j \in DOMAIN marked : marked[j] \in 0..MaxAge
      /\ wkey \in [Webhook -> Key]
  BY TimeAssumption, AgedIs DEF TypeOK
<1>1. CASE Recorded
  <2>1. PICK j \in Key : RecordPlaying(j)
    BY <1>1 DEF Recorded
  <2>2. DOMAIN seen' = Counted \cup {j}
    BY <2>1 DEF RecordPlaying, Put
  <2>3. k = j
    BY <2>2 DEF Counted
  <2>4. QED
    BY <2>1, <2>3 DEF RecordPlaying
<1>2. CASE Pruned \/ MarkPut
  <2>1. DOMAIN seen' = Counted
    BY <1>2 DEF Pruned, MarkPut, MarkJellyfinSession, PruneSeen, Restrict
  <2>2. QED
    BY <2>1 DEF Counted
<1>3. CASE Stopped
  <2>1. PICK j \in Key : StopPlaying(j)
    BY <1>3 DEF Stopped
  <2>2. /\ DOMAIN seen' = DOMAIN seen \ {j}
        /\ \A i \in DOMAIN seen \ {j} : seen'[i] = seen[i]
    BY <2>1, <1>0, RestrictAged DEF StopPlaying
  <2>3. /\ DOMAIN marked' = DOMAIN marked \ {j}
        /\ \A i \in DOMAIN marked \ {j} : marked'[i] = marked[i]
    BY <2>1, <1>0, RestrictAged DEF StopPlaying
  <2>4. QED
    BY <2>2, <2>3 DEF Counted, LiveMarks
<1>4. CASE Unmoved
  BY <1>4 DEF Unmoved, sessions, Counted, LiveMarks
<1>5. CASE Tick
  <2>1. /\ DOMAIN seen' = DOMAIN seen
        /\ \A j \in DOMAIN seen :
               seen'[j] = IF seen[j] < SessionTTL + 1 THEN seen[j] + 1 ELSE SessionTTL + 1
    BY <1>0, <1>5, OlderAged DEF Tick
  <2>2. /\ DOMAIN marked' = DOMAIN marked
        /\ \A j \in DOMAIN marked :
               marked'[j] = IF marked[j] < MaxAge THEN marked[j] + 1 ELSE MaxAge
    BY <1>0, <1>5, OlderAged DEF Tick
  <2>3. k \in DOMAIN seen /\ (k \in LiveMarks' \/ seen'[k] <= SessionTTL)
    BY <2>1 DEF Counted
  <2>4. k \in LiveMarks' => k \in LiveMarks
    BY <1>0, <2>2 DEF LiveMarks
  <2>5. seen'[k] <= SessionTTL => seen[k] <= SessionTTL
    BY <1>0, <2>1, <2>3
  <2>6. QED
    BY <2>3, <2>4, <2>5 DEF Counted
<1>6. QED
  BY <1>0, <1>1, <1>2, <1>3, <1>4, <1>5, SessionSteps

\* The sessions that began since the last count are remembered until the next one.
LEMMA JoinedStays ==
    ASSUME TypeOK, [Next]_vars, ~SweepCount
    PROVE  joined \subseteq joined'
<1>1. wkey \in [Webhook -> Key]
  BY DEF TypeOK
<1>2. QED
  BY <1>1, SessionSteps DEF Recorded, RecordPlaying, Pruned, MarkPut, Stopped, Unmoved, Tick

\* The channels that the sweep under way may stop, or is stopping.
Doomed == IF pc = "stop" THEN stopList ELSE IF pc = "rest" THEN {} ELSE Channel \ counted

\* The viewers of such a channel came after the count.
LateInv == Phases /\ \A c \in Doomed : Of(Counted, c) \subseteq joined

LEMMA LateInvKept ==
    ASSUME TypeOK, IdleInv, LateInv, [Next]_vars
    PROVE  LateInv'
<1>0. /\ pc \in {"rest", "look", "timers", "stop"} /\ active \subseteq Channel
      /\ stopList \subseteq Channel /\ wkey \in [Webhook -> Key]
  BY DEF TypeOK
<1>1. Phases'
  BY IdleInvKept DEF IdleInv
<1>2. CASE SweepCount
  <2>1. DOMAIN seen' = Counted
    BY <1>2 DEF SweepCount, PruneSeen, Restrict
  <2>2. Counted' \subseteq Counted
    BY <2>1 DEF Counted
  <2>3. \A c \in Doomed' : Of(Counted, c) = {}
    BY <1>2 DEF SweepCount, GoMonitor, Doomed
  <2>4. QED
    BY <1>1, <2>2, <2>3 DEF LateInv, Of
<1>3. CASE ~SweepCount
  <2>1. Doomed' \subseteq Doomed
    <3>1. CASE UNCHANGED monitor \/ Tick
      BY <3>1 DEF monitor, Tick, Doomed
    <3>2. CASE SweepLook
      BY <3>2 DEF SweepLook, GoMonitor, Doomed
    <3>3. CASE SweepTimers
      BY <1>0, <3>3 DEF SweepTimers, GoMonitor, TimeIsUp, Doomed
    <3>4. CASE SweepRest
      BY <3>4 DEF SweepRest, GoMonitor, Doomed
    <3>5. ASSUME NEW c \in Channel, SweepStop(c)
          PROVE  Doomed' \subseteq Doomed
      BY <3>5 DEF SweepStop, Doomed
    <3>6. [Next]_vars => \/ UNCHANGED monitor \/ Tick
                         \/ SweepLook \/ SweepTimers \/ SweepRest
                         \/ \E c \in Channel : SweepStop(c)
      BY <1>3 DEF Next, Sweep, vars, Ping, Leave, ReadCounts, StartStream, StopStream,
                  StreamEnds, WebhookStart, WebhookRecord, WebhookMark, WebhookUndo
    <3>7. QED
      BY <3>1, <3>2, <3>3, <3>4, <3>5, <3>6
  <2>2. joined \subseteq joined'
    BY <1>3, JoinedStays
  <2>3. \A c \in Doomed' : Of(Counted', c) \subseteq joined'
    <3> SUFFICES ASSUME NEW c \in Doomed', NEW k \in Of(Counted', c) PROVE k \in joined'
      OBVIOUS
    <3>1. CASE k \in Counted
      BY <2>1, <2>2, <3>1 DEF LateInv, Of
    <3>2. CASE k \notin Counted
      BY <3>2, OnlyRecordedCount DEF Of
    <3>3. QED
      BY <3>1, <3>2
  <2>4. QED
    BY <1>1, <2>3 DEF LateInv, Of
<1>4. QED
  BY <1>2, <1>3

LEMMA InitLate == Init => LateInv
  BY DEF Init, LateInv, Phases, Doomed

\* The stops of a sweep are called without a lock, each as late as the ones before it let
\* it: they still hit only viewers that came after the count.
THEOREM Latecomers == Spec => OnlyLatecomersLoseTheStream
<1>1. TypeOK /\ IdleInv /\ LateInv /\ [Next]_vars =>
          [\A c \in stopList \ stopList' : Of(Counted, c) \subseteq joined]_vars
  BY DEF LateInv, Phases, Doomed
<1>2. TypeOK /\ IdleInv /\ [Next]_vars => IdleInv'
  BY IdleInvKept
<1>3. TypeOK /\ IdleInv /\ LateInv /\ [Next]_vars => LateInv'
  BY LateInvKept
<1>4. QED
  BY <1>1, <1>2, <1>3, InitIdle, InitLate, TypeCorrect, PTL
     DEF Spec, OnlyLatecomersLoseTheStream

-----------------------------------------------------------------------------
\* A prune, a refusal, a mark or the time leaves every session that counts.
LEMMA CountedStays ==
    ASSUME TypeOK, [Next]_vars, NEW k \in Counted, k \notin DOMAIN seen'
    PROVE  \/ <<Leave(k)>>_vars
           \/ \E w \in Webhook : wkey[w] = k /\ WebhookUndo(w)
<1>0. seen \in Aged(Key, SessionTTL + 1) /\ wkey \in [Webhook -> Key] /\ k \in DOMAIN seen
  BY DEF TypeOK, Counted
<1>1. vars' # vars
  BY <1>0 DEF vars, sessions
<1>2. ~Recorded
  BY DEF Recorded, RecordPlaying, Put
<1>3. ~Pruned /\ ~MarkPut
  BY DEF Pruned, MarkPut, MarkJellyfinSession, PruneSeen, Restrict
<1>4. ~Unmoved /\ ~Tick
  BY <1>0 DEF Unmoved, sessions, Tick, Older
<1>5. CASE Stopped
  <2>1. PICK j \in Key :
            /\ StopPlaying(j)
            /\ Leave(j) \/ \E w \in Webhook : wkey[w] = j /\ WebhookUndo(w)
    BY <1>5 DEF Stopped
  <2>2. DOMAIN seen' = DOMAIN seen \ {j}
    BY <2>1 DEF StopPlaying, Restrict
  <2>3. j = k
    BY <1>0, <2>2
  <2>4. QED
    BY <1>1, <2>1, <2>3
<1>6. QED
  BY <1>0, <1>2, <1>3, <1>4, <1>5, SessionSteps

\* A viewer is not forgotten because somebody else was pruned, refused or marked
\* (pruneExpiredLocked drops only what no count would include).
THEOREM CountedKept == Spec => CountedIsKept
<1>1. TypeOK /\ [Next]_vars =>
          [\A k \in Counted : k \notin DOMAIN seen' =>
               \/ <<Leave(k)>>_vars
               \/ \E w \in Webhook : wkey[w] = k /\ WebhookUndo(w)]_vars
  BY CountedStays
<1>2. QED
  BY <1>1, TypeCorrect, PTL DEF Spec, CountedIsKept

-----------------------------------------------------------------------------
\* The keys of a channel, counted.
AtMost(S, c) == Cardinality(Of(S, c)) <= MaxSessions

LEMMA OfIsFinite ==
    ASSUME NEW c, NEW S
    PROVE  IsFiniteSet(Of(S, c))
<1>1. IsFiniteSet({c} \X Session)
  BY SessionAssumption, FS_Singleton, FS_Product
<1>2. QED
  BY <1>1, FS_Subset DEF Of

\* Fewer keys are within the limit too.
LEMMA FewerFit ==
    ASSUME NEW c, NEW S, NEW T \in SUBSET S, AtMost(S, c)
    PROVE  AtMost(T, c)
<1>1. Of(T, c) \subseteq Of(S, c)
  BY DEF Of
<1>2. /\ Cardinality(Of(T, c)) <= Cardinality(Of(S, c))
      /\ Cardinality(Of(T, c)) \in Nat /\ Cardinality(Of(S, c)) \in Nat
  BY <1>1, OfIsFinite, FS_Subset, FS_CardinalityType
<1>3. QED
  BY <1>2, LimitAssumption DEF AtMost

\* A key that there is room for is within the limit.
LEMMA OneMoreFits ==
    ASSUME NEW c \in Channel, NEW S \in SUBSET Key, NEW k \in Key, HasRoom(k, S), AtMost(S, c)
    PROVE  AtMost(S \cup {k}, c)
<1>1. CASE k \in S
  <2>1. S \cup {k} = S
    BY <1>1
  <2>2. QED
    BY <2>1
<1>2. CASE k \notin S /\ k[1] = c
  <2>1. Of(S \cup {k}, c) = Of(S, c) \cup {k} /\ k \notin Of(S, c)
    BY <1>2 DEF Of, Key
  <2>2. Cardinality(Of(S, c) \cup {k}) = Cardinality(Of(S, c)) + 1
    BY <2>1, OfIsFinite, FS_AddElement
  <2>3. Cardinality(Of(S, c)) < MaxSessions /\ Cardinality(Of(S, c)) \in Nat
    BY <1>2, OfIsFinite, FS_CardinalityType DEF HasRoom
  <2>4. QED
    BY <2>1, <2>2, <2>3, LimitAssumption DEF AtMost
<1>3. CASE k[1] # c
  <2>1. Of(S \cup {k}, c) = Of(S, c)
    BY <1>3 DEF Of
  <2>2. QED
    BY <2>1 DEF AtMost
<1>4. QED
  BY <1>1, <1>2, <1>3

LEMMA LimitKept ==
    ASSUME TypeOK, SessionsAreLimited, [Next]_vars
    PROVE  SessionsAreLimited'
<1> SUFFICES ASSUME NEW c \in Channel
             PROVE  AtMost(DOMAIN seen', c) /\ AtMost(DOMAIN marked', c)
  BY DEF SessionsAreLimited, AtMost
<1>0. /\ wkey \in [Webhook -> Key]
      /\ DOMAIN seen \subseteq Key /\ DOMAIN marked \subseteq Key
      /\ AtMost(DOMAIN seen, c) /\ AtMost(DOMAIN marked, c)
  BY AgedIs DEF TypeOK, SessionsAreLimited, AtMost
<1>1. AtMost(Counted, c) /\ AtMost(LiveMarks, c)
  BY <1>0, PruneLeaves, FewerFit
<1>2. Counted \in SUBSET Key /\ LiveMarks \in SUBSET Key
  BY <1>0, PruneLeaves
<1>3. CASE Recorded
  <2>1. PICK k \in Key : RecordPlaying(k)
    BY <1>3 DEF Recorded
  <2>2. DOMAIN seen' = Counted \cup {k} /\ DOMAIN marked' = LiveMarks
    BY <2>1 DEF RecordPlaying, Put, PruneMarks, Restrict
  <2>3. AtMost(Counted \cup {k}, c)
    BY <1>1, <1>2, <2>1, OneMoreFits DEF RecordPlaying
  <2>4. QED
    BY <1>1, <2>2, <2>3
<1>4. CASE Pruned
  BY <1>1, <1>4 DEF Pruned, PruneSeen, PruneMarks, Restrict
<1>5. CASE MarkPut
  <2>1. PICK k \in Key : MarkJellyfinSession(k)
    BY <1>5 DEF MarkPut
  <2>2. DOMAIN seen' = Counted /\ DOMAIN marked' = LiveMarks \cup {k}
    BY <2>1 DEF MarkJellyfinSession, Put, PruneSeen, Restrict
  <2>3. AtMost(LiveMarks \cup {k}, c)
    BY <1>1, <1>2, <2>1, OneMoreFits DEF MarkJellyfinSession
  <2>4. QED
    BY <1>1, <2>2, <2>3
<1>6. CASE Stopped
  <2>1. PICK k \in Key : StopPlaying(k)
    BY <1>6 DEF Stopped
  <2>2. DOMAIN seen' \subseteq DOMAIN seen /\ DOMAIN marked' \subseteq DOMAIN marked
    BY <2>1 DEF StopPlaying, Restrict
  <2>3. QED
    BY <1>0, <2>2, FewerFit
<1>7. CASE Unmoved
  BY <1>0, <1>7 DEF Unmoved, sessions
<1>8. CASE Tick
  BY <1>0, <1>8 DEF Tick, Older
<1>9. QED
  BY <1>0, <1>3, <1>4, <1>5, <1>6, <1>7, <1>8, SessionSteps

\* The limit holds for both maps of every channel, whatever the maps held when the two
\* checks of one start were made.
THEOREM Limited == Spec => []SessionsAreLimited
<1>1. Init => SessionsAreLimited
  <2> SUFFICES ASSUME Init, NEW c \in Channel
               PROVE  AtMost(DOMAIN seen, c) /\ AtMost(DOMAIN marked, c)
    BY DEF SessionsAreLimited, AtMost
  <2>1. Of({}, c) = {}
    BY DEF Of
  <2>2. Cardinality({}) = 0
    BY FS_EmptySet
  <2>3. DOMAIN seen = {} /\ DOMAIN marked = {}
    BY DEF Init, Nothing
  <2>4. AtMost({}, c)
    BY <2>1, <2>2, LimitAssumption DEF AtMost
  <2>5. QED
    BY <2>3, <2>4
<1>2. TypeOK /\ SessionsAreLimited /\ [Next]_vars => SessionsAreLimited'
  BY LimitKept
<1>3. QED
  BY <1>1, <1>2, TypeCorrect, PTL DEF Spec
=============================================================================
