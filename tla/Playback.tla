------------------------------ MODULE Playback ------------------------------
(***************************************************************************)
(* Who is watching what, and the monitor that stops the streams nobody     *)
(* watches (PlaybackTracker and the idle monitor of server/api/playback.go,*)
(* with the handlers that call them).                                      *)
(*                                                                         *)
(* A key is a channel and a session of it.  A web player keeps its session *)
(* alive with pings; a webhook start also marks it, and a marked session   *)
(* needs no ping until MaxAge.  Times are ages in sweep intervals, up to   *)
(* the value from which they make no more difference, so the clock has no  *)
(* bound.  The clock does not advance between the three short steps of a   *)
(* sweep that use the same reading of it.                                  *)
(***************************************************************************)
EXTENDS Integers, FiniteSets, Functions

CONSTANTS
    Channel, Session,
    Webhook,        \* the webhook start requests in flight at once
    MaxSessions,    \* maxPlaybackSessionsPerChannel
    SessionTTL,     \* playSessionTTL
    IdleTTL,        \* idleStopTTL
    MaxAge          \* jellyfinSessionMaxAge

ASSUME SessionAssumption == IsFiniteSet(Session)
ASSUME LimitAssumption == MaxSessions \in Nat
ASSUME TimeAssumption ==
    /\ SessionTTL \in Nat
    /\ IdleTTL \in Nat \ {0}
    /\ MaxAge \in Nat \ {0}

Key == Channel \X Session

VARIABLES
    seen,       \* playSessions: the age of the last sign of life of a key
    marked,     \* jellyfinSessions: the age of the mark of a key
    idle,       \* idleTimers: how long a channel has been found idle
    stream,     \* the registry: the manager of a channel
    pc,         \* of the monitor
    due,        \* its ticker has fired
    counted,    \* the channels with viewers, as this sweep counted them
    active,     \* the channels with a manager, as this sweep found them
    stopList,
    wpc, wkey,  \* the webhook requests and the key each is for
    joined,     \* bookkeeping: the keys that began after the last count
    sinceCount, \* bookkeeping: the age of the last count that found viewers
    overtaken   \* bookkeeping: the requests whose key was stopped meanwhile

sessions == <<seen, marked>>
monitor == <<idle, pc, due, counted, active, stopList, sinceCount>>
webhooks == <<wpc, wkey, overtaken>>
vars == <<sessions, monitor, webhooks, stream, joined>>

Aged(S, limit) == UNION {[T -> 0..limit] : T \in SUBSET S}

TypeOK ==
    /\ seen \in Aged(Key, SessionTTL + 1)
    /\ marked \in Aged(Key, MaxAge)
    /\ idle \in Aged(Channel, IdleTTL)
    /\ stream \in [Channel -> {"off", "on", "stopping"}]
    /\ pc \in {"rest", "look", "timers", "stop"}
    /\ due \in BOOLEAN
    /\ counted \subseteq Channel
    /\ active \subseteq Channel
    /\ stopList \subseteq Channel
    /\ wpc \in [Webhook -> {"none", "record", "mark", "undo"}]
    /\ wkey \in [Webhook -> Key]
    /\ joined \subseteq Key
    /\ sinceCount \in [Channel -> 0..IdleTTL]
    /\ overtaken \subseteq Webhook

Nothing == [k \in {} |-> 0]

Init ==
    /\ seen = Nothing
    /\ marked = Nothing
    /\ idle = Nothing
    /\ stream = [c \in Channel |-> "off"]
    /\ pc = "rest"
    /\ due = FALSE
    /\ counted = {}
    /\ active = {}
    /\ stopList = {}
    /\ wpc = [w \in Webhook |-> "none"]
    /\ wkey \in [Webhook -> Key]
    /\ joined = {}
    /\ sinceCount = [c \in Channel |-> 0]
    /\ overtaken = {}

Put(f, k, S) == [j \in S \cup {k} |-> IF j = k THEN 0 ELSE f[j]]

Of(S, c) == S \cap ({c} \X Session)

-----------------------------------------------------------------------------
(* PlaybackTracker, each operation under playMu.                           *)

\* pruneExpiredLocked: what is left of the marks and of the sessions.
LiveMarks == {k \in DOMAIN marked : marked[k] < MaxAge}

Counted == {k \in DOMAIN seen : k \in LiveMarks \/ seen[k] <= SessionTTL}

\* Mutant: a mark does not keep a session alive.
PruneUnseen == seen' = Restrict(seen, {k \in DOMAIN seen : seen[k] <= SessionTTL})

PruneSeen == seen' = Restrict(seen, Counted)
PruneMarks == marked' = Restrict(marked, LiveMarks)

\* Mutant: the limit is passed by one.
HasRoomForOneMore(k, S) == k \in S \/ Cardinality(Of(S, k[1])) <= MaxSessions

\* A known key is always accepted.
HasRoom(k, S) == k \in S \/ Cardinality(Of(S, k[1])) < MaxSessions

RecordPlaying(k) ==
    /\ HasRoom(k, Counted)
    /\ seen' = Put(seen, k, Counted)
    /\ PruneMarks
    /\ joined' = IF k \in Counted THEN joined ELSE joined \cup {k}

RefusePlaying(k) ==
    /\ ~HasRoom(k, Counted)
    /\ PruneSeen
    /\ PruneMarks
    /\ UNCHANGED joined

MarkJellyfinSession(k) ==
    /\ HasRoom(k, LiveMarks)
    /\ PruneSeen
    /\ marked' = Put(marked, k, LiveMarks)

RefuseMark(k) ==
    /\ ~HasRoom(k, LiveMarks)
    /\ PruneSeen
    /\ PruneMarks

StopPlaying(k) ==
    /\ seen' = Restrict(seen, DOMAIN seen \ {k})
    /\ marked' = Restrict(marked, DOMAIN marked \ {k})

-----------------------------------------------------------------------------
(* The handlers.                                                           *)

\* handleRecordPlaying with "start" or "ping".
Ping(k) ==
    /\ RecordPlaying(k) \/ RefusePlaying(k)
    /\ UNCHANGED <<monitor, webhooks, stream>>

\* handleRecordPlaying or the webhook with "stop".
Leave(k) ==
    /\ StopPlaying(k)
    /\ overtaken' = overtaken \cup {w \in Webhook : wpc[w] # "none" /\ wkey[w] = k}
    /\ UNCHANGED <<monitor, wpc, wkey, stream, joined>>

\* handleGetPlayingCounts and handleGetChannelStatus.
ReadCounts ==
    /\ PruneSeen
    /\ PruneMarks
    /\ UNCHANGED <<monitor, webhooks, stream, joined>>

\* handleStartStream, and the playlist requests that start a stream.
StartStream(c) ==
    /\ stream[c] = "off"
    /\ stream' = [stream EXCEPT ![c] = "on"]
    /\ UNCHANGED <<sessions, monitor, webhooks, joined>>

\* handleStopChannel: the manager is marked as stopping.
StopStream(c) ==
    /\ stream[c] = "on"
    /\ stream' = [stream EXCEPT ![c] = "stopping"]
    /\ UNCHANGED <<sessions, monitor, webhooks, joined>>

\* The manager leaves the registry, whatever ended the stream.
StreamEnds(c) ==
    /\ stream[c] # "off"
    /\ stream' = [stream EXCEPT ![c] = "off"]
    /\ UNCHANGED <<sessions, monitor, webhooks, joined>>

\* handleJellyfinWebhook with "start": a stream that has a manager, even one that is
\* stopping, counts as started.
WebhookStart(w, k) ==
    /\ wpc[w] = "none"
    /\ wpc' = [wpc EXCEPT ![w] = "record"]
    /\ wkey' = [wkey EXCEPT ![w] = k]
    /\ overtaken' = overtaken \ {w}
    /\ stream' = [stream EXCEPT ![k[1]] = IF @ = "off" THEN "on" ELSE @]
    /\ UNCHANGED <<sessions, monitor, joined>>

GoWebhook(w, from, to) == wpc[w] = from /\ wpc' = [wpc EXCEPT ![w] = to]

WebhookRecord(w) ==
    /\ \/ RecordPlaying(wkey[w]) /\ GoWebhook(w, "record", "mark")
       \/ RefusePlaying(wkey[w]) /\ GoWebhook(w, "record", "undo")
    /\ UNCHANGED <<monitor, wkey, overtaken, stream>>

WebhookMark(w) ==
    /\ \/ MarkJellyfinSession(wkey[w]) /\ GoWebhook(w, "mark", "none")
       \/ RefuseMark(wkey[w]) /\ GoWebhook(w, "mark", "undo")
    /\ UNCHANGED <<monitor, wkey, overtaken, stream, joined>>

\* The request is refused and the session is forgotten.
WebhookUndo(w) ==
    /\ GoWebhook(w, "undo", "none")
    /\ StopPlaying(wkey[w])
    /\ UNCHANGED <<monitor, wkey, overtaken, stream, joined>>

-----------------------------------------------------------------------------
(* reconcileIdleStreams, when the ticker fires.                            *)

GoMonitor(from, to) == pc = from /\ pc' = to

SweepCount ==
    /\ GoMonitor("rest", "look")
    /\ due
    /\ due' = FALSE
    /\ counted' = {c \in Channel : Of(Counted, c) # {}}
    /\ sinceCount' = [c \in Channel |-> IF Of(Counted, c) # {} THEN 0 ELSE sinceCount[c]]
    /\ joined' = {}
    /\ PruneSeen
    /\ PruneMarks
    /\ UNCHANGED <<idle, active, stopList, webhooks, stream>>

SweepLook ==
    /\ GoMonitor("look", "timers")
    /\ active' = {c \in Channel : stream[c] # "off"}
    /\ UNCHANGED <<sessions, idle, due, counted, stopList, sinceCount, webhooks,
                   stream, joined>>

\* Mutant: a timer that is up is acted upon even if there are viewers again.
TimeIsUpRegardless == {c \in active : c \in DOMAIN idle /\ idle[c] >= IdleTTL}

TimeIsUp == {c \in active \ counted : c \in DOMAIN idle /\ idle[c] >= IdleTTL}

\* Mutant: the timer of a channel with viewers runs on.
TimersUnlessStopped ==
    idle' = [c \in active \ TimeIsUp |-> IF c \in DOMAIN idle THEN idle[c] ELSE 0]

\* Mutant: every sweep starts the timers again.
TimersRestarted == idle' = [c \in (active \ counted) \ TimeIsUp |-> 0]

\* A channel that has viewers, is stopped now or has no stream loses its timer.
Timers ==
    idle' = [c \in (active \ counted) \ TimeIsUp |->
                IF c \in DOMAIN idle THEN idle[c] ELSE 0]

SweepTimers ==
    /\ GoMonitor("timers", "stop")
    /\ Timers
    /\ stopList' = TimeIsUp
    /\ counted' = {}
    /\ active' = {}
    /\ UNCHANGED <<sessions, due, sinceCount, webhooks, stream, joined>>

\* StopChannel waits for the stream to end or gives up: the next one may be called
\* much later.
SweepStop(c) ==
    /\ pc = "stop"
    /\ c \in stopList
    /\ stopList' = stopList \ {c}
    /\ stream' = [stream EXCEPT ![c] = IF @ = "off" THEN "off" ELSE "stopping"]
    /\ UNCHANGED <<sessions, idle, pc, due, counted, active, sinceCount, webhooks, joined>>

SweepRest ==
    /\ GoMonitor("stop", "rest")
    /\ stopList = {}
    /\ UNCHANGED <<sessions, idle, due, counted, active, stopList, sinceCount, webhooks,
                   stream, joined>>

-----------------------------------------------------------------------------
Older(f, limit) == [k \in DOMAIN f |-> IF f[k] < limit THEN f[k] + 1 ELSE limit]

Tick ==
    /\ pc \in {"rest", "stop"}
    /\ due' = TRUE
    /\ seen' = Older(seen, SessionTTL + 1)
    /\ marked' = Older(marked, MaxAge)
    /\ idle' = Older(idle, IdleTTL)
    /\ sinceCount' = Older(sinceCount, IdleTTL)
    /\ UNCHANGED <<pc, counted, active, stopList, webhooks, stream, joined>>

Sweep == SweepCount \/ SweepLook \/ SweepTimers \/ SweepRest
             \/ \E c \in Channel : SweepStop(c)

Next ==
    \/ \E k \in Key : Ping(k) \/ Leave(k)
    \/ ReadCounts
    \/ \E c \in Channel : StartStream(c) \/ StopStream(c) \/ StreamEnds(c)
    \/ \E w \in Webhook, k \in Key : WebhookStart(w, k)
    \/ \E w \in Webhook : WebhookRecord(w) \/ WebhookMark(w) \/ WebhookUndo(w)
    \/ Sweep
    \/ Tick

Spec == Init /\ [][Next]_vars

\* Time passes and the monitor's goroutine runs; nothing is expected of the viewers.
FairSpec == Spec /\ WF_vars(Tick) /\ WF_vars(Sweep)

-----------------------------------------------------------------------------
(* Properties.                                                             *)

\* However starts, pings, marks, refusals and expiries interleave, neither map of a
\* channel grows beyond the limit (both are checked, by two locked calls).
SessionsAreLimited ==
    \A c \in Channel :
        /\ Cardinality(Of(DOMAIN seen, c)) <= MaxSessions
        /\ Cardinality(Of(DOMAIN marked, c)) <= MaxSessions

\* A channel is put on the stop list only when no sweep has counted a viewer of it for
\* the whole idle period: a timer never survives a count that found viewers, not even
\* one of a sweep that did not find the channel active.
GraceAfterViewers ==
    [][\A c \in stopList' \ stopList : sinceCount[c] >= IdleTTL]_vars

\* The stops come after the count, without a lock: a viewer may be there by then, but
\* only one that came after the count.
OnlyLatecomersLoseTheStream ==
    [][\A c \in stopList \ stopList' : Of(Counted, c) \subseteq joined]_vars

\* Nobody's session is pruned early: a session that still counts is dropped only when
\* it is stopped by name.
CountedIsKept ==
    [][\A k \in Counted : k \notin DOMAIN seen' =>
           \/ <<Leave(k)>>_vars
           \/ \E w \in Webhook : wkey[w] = k /\ WebhookUndo(w)]_vars

\* A stream does not run for ever without a viewer: expired sessions are dropped even
\* if nobody reads the counts, and the monitor comes round.
IdleIsStopped ==
    \A c \in Channel : []<>(stream[c] # "on" \/ Of(Counted, c) # {})

\* A stop removes the mark too, "so it won't be kept alive": the key of a start that
\* was stopped while it was in flight is not marked afterwards.
StopRemovesMark ==
    [][\A w \in Webhook :
           wpc[w] = "mark" /\ wpc'[w] = "none" => w \notin overtaken]_vars
=============================================================================
