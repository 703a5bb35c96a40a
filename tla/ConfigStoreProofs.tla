-------------------------- MODULE ConfigStoreProofs --------------------------
(***************************************************************************)
(* The configuration in the database, in the manager and in the API agree, *)
(* for any channels, VODs and requests and any number of restarts.         *)
(***************************************************************************)
EXTENDS ConfigStore, TLAPS

\* A thread that has no change.
Passive == {"idle", "list", "answer", "prune"}

\* A change is of channels or of VODs, and says what it stores.
Shaped(o) ==
    /\ o.on \subseteq IF OfChannel(o) THEN Channel ELSE Vod
    /\ o.kind \in {"addVOD", "import", "durations"} => o.on \subseteq DOMAIN o.vods

Op == [kind : Kind, on : SUBSET (Channel \cup Vod), vods : Record]

-----------------------------------------------------------------------------
LEMMA RecordIs ==
    ASSUME NEW f
    PROVE  f \in Record <=> /\ f = [v \in DOMAIN f |-> f[v]]
                            /\ DOMAIN f \subseteq Vod
                            /\ \A v \in DOMAIN f : f[v] \in Duration
<1>1. ASSUME f \in Record
      PROVE  /\ f = [v \in DOMAIN f |-> f[v]]
             /\ DOMAIN f \subseteq Vod
             /\ \A v \in DOMAIN f : f[v] \in Duration
  <2>1. PICK S \in SUBSET Vod : f \in [S -> Duration]
    BY <1>1 DEF Record
  <2>2. QED
    BY <2>1
<1>2. ASSUME f = [v \in DOMAIN f |-> f[v]], DOMAIN f \subseteq Vod,
             \A v \in DOMAIN f : f[v] \in Duration
      PROVE  f \in Record
  <2>1. f \in [DOMAIN f -> Duration]
    BY <1>2
  <2>2. QED
    BY <1>2, <2>1 DEF Record
<1>3. QED
  BY <1>1, <1>2

LEMMA NoVodsIs == NoVods \in Record /\ DOMAIN NoVods = {}
<1>1. DOMAIN NoVods = {} /\ NoVods = [v \in DOMAIN NoVods |-> NoVods[v]]
  BY DEF NoVods
<1>2. QED
  BY <1>1, RecordIs

LEMMA NoChangeIs == NoChange \in Op /\ Shaped(NoChange) /\ ~OfChannel(NoChange)
  BY NoVodsIs DEF NoChange, Op, Kind, Shaped, OfChannel

\* What each kind of change does to the three parts of a configuration.
LEMMA ChangedIs ==
    ASSUME NEW conf \in Config, NEW o \in Op, Shaped(o)
    PROVE  /\ Changed(conf, o) \in Config
           /\ Changed(conf, o).channels =
                  IF o.kind = "addChannel" THEN conf.channels \cup o.on
                  ELSE IF o.kind = "removeChannel" THEN conf.channels \ o.on
                  ELSE conf.channels
           /\ DOMAIN Changed(conf, o).vods =
                  IF o.kind \in {"addVOD", "import"} THEN DOMAIN conf.vods \cup o.on
                  ELSE IF o.kind = "removeVOD" THEN DOMAIN conf.vods \ o.on
                  ELSE DOMAIN conf.vods
           /\ Changed(conf, o).blacklist =
                  IF o.kind = "addVOD" THEN conf.blacklist \ o.on
                  ELSE IF o.kind = "removeVOD" THEN conf.blacklist \cup o.on
                  ELSE conf.blacklist
<1>0. /\ conf.channels \subseteq Channel /\ conf.vods \in Record /\ conf.blacklist \subseteq Vod
      /\ o.kind \in Kind /\ o.vods \in Record
      /\ DOMAIN conf.vods \subseteq Vod /\ \A v \in DOMAIN conf.vods : conf.vods[v] \in Duration
      /\ DOMAIN o.vods \subseteq Vod /\ \A v \in DOMAIN o.vods : o.vods[v] \in Duration
  BY RecordIs DEF Config, Op
<1>1. CASE o.kind = "addChannel"
  <2>1. Changed(conf, o) = [conf EXCEPT !.channels = @ \cup o.on]
    BY <1>1 DEF Changed, AddChannel
  <2>2. o.on \subseteq Channel
    BY <1>1 DEF Shaped, OfChannel
  <2>3. QED
    BY <1>0, <1>1, <2>1, <2>2 DEF Config
<1>2. CASE o.kind = "removeChannel"
  <2>1. Changed(conf, o) = [conf EXCEPT !.channels = @ \ o.on]
    BY <1>2 DEF Changed, RemoveChannel
  <2>2. QED
    BY <1>0, <1>2, <2>1 DEF Config
<1>3. CASE o.kind \in {"addVOD", "import"}
  <2> DEFINE f == [v \in DOMAIN conf.vods \cup o.on |->
                      IF v \in o.on THEN o.vods[v] ELSE conf.vods[v]]
  <2>1. o.on \subseteq Vod /\ o.on \subseteq DOMAIN o.vods
    BY <1>3 DEF Shaped, OfChannel
  <2>2. f \in Record /\ DOMAIN f = DOMAIN conf.vods \cup o.on
    <3>1. /\ DOMAIN f = DOMAIN conf.vods \cup o.on
          /\ f = [v \in DOMAIN f |-> f[v]]
          /\ \A v \in DOMAIN f : f[v] \in Duration
      BY <1>0, <2>1
    <3> HIDE DEF f
    <3>2. QED
      BY <1>0, <2>1, <3>1, RecordIs
  <2>3. AddVODs(conf, o) = [conf EXCEPT !.vods = f]
    BY DEF AddVODs
  <2> HIDE DEF f
  <2>4. /\ AddVODs(conf, o) \in Config
        /\ AddVODs(conf, o).channels = conf.channels
        /\ AddVODs(conf, o).vods = f
        /\ AddVODs(conf, o).blacklist = conf.blacklist
    BY <1>0, <2>2, <2>3 DEF Config
  <2>5. CASE o.kind = "import"
    BY <2>2, <2>4, <2>5 DEF Changed
  <2>6. CASE o.kind = "addVOD"
    <3>1. Changed(conf, o) = [AddVODs(conf, o) EXCEPT !.blacklist = @ \ o.on]
      BY <2>6 DEF Changed, AddVOD
    <3>2. QED
      BY <1>0, <2>2, <2>4, <2>6, <3>1 DEF Config
  <2>7. QED
    BY <1>3, <2>5, <2>6
<1>4. CASE o.kind = "removeVOD"
  <2> DEFINE f == Restrict(conf.vods, DOMAIN conf.vods \ o.on)
  <2>1. o.on \subseteq Vod
    BY <1>4 DEF Shaped, OfChannel
  <2>2. f \in Record /\ DOMAIN f = DOMAIN conf.vods \ o.on
    <3>1. /\ DOMAIN f = DOMAIN conf.vods \ o.on
          /\ f = [v \in DOMAIN f |-> f[v]]
          /\ \A v \in DOMAIN f : f[v] \in Duration
      BY <1>0 DEF Restrict
    <3> HIDE DEF f
    <3>2. QED
      BY <1>0, <3>1, RecordIs
  <2>3. Changed(conf, o) = [conf EXCEPT !.vods = f, !.blacklist = @ \cup o.on]
    BY <1>4 DEF Changed, RemoveVOD
  <2> HIDE DEF f
  <2>4. QED
    BY <1>0, <1>4, <2>1, <2>2, <2>3 DEF Config
<1>5. CASE o.kind = "durations"
  <2> DEFINE f == [v \in DOMAIN conf.vods |->
                      IF v \in o.on THEN o.vods[v] ELSE conf.vods[v]]
  <2>1. o.on \subseteq DOMAIN o.vods
    BY <1>5 DEF Shaped
  <2>2. f \in Record /\ DOMAIN f = DOMAIN conf.vods
    <3>1. /\ DOMAIN f = DOMAIN conf.vods
          /\ f = [v \in DOMAIN f |-> f[v]]
          /\ \A v \in DOMAIN f : f[v] \in Duration
      BY <1>0, <2>1
    <3> HIDE DEF f
    <3>2. QED
      BY <1>0, <3>1, RecordIs
  <2>3. Changed(conf, o) = [conf EXCEPT !.vods = f]
    BY <1>5 DEF Changed, UpdateDurations
  <2> HIDE DEF f
  <2>4. QED
    BY <1>0, <1>5, <2>2, <2>3 DEF Config
<1>6. QED
  BY <1>0, <1>1, <1>2, <1>3, <1>4, <1>5 DEF Kind

-----------------------------------------------------------------------------
(* The inductive invariant.                                                *)

\* The change of a thread fits what the thread does.
ThreadShape(t) ==
    /\ Shaped(op[t])
    /\ pc[t] \in Passive => ~OfChannel(op[t])
    /\ pc[t] \in {"end", "undo"} => OfChannel(op[t])

\* mutationMu.
Mutex == \A t \in Thread : pc[t] \in {"commit", "publish"} <=> lock = t

\* The memory is behind the database by the change that is about to be published.
Memory ==
    /\ (\A t \in Thread : pc[t] # "publish") => mem = db
    /\ \A t \in Thread : pc[t] = "publish" => db = Changed(mem, op[t])

\* What the look at the memory allowed is still right when the change is committed and
\* published: nothing gets onto the blacklist, say, between an import's look at it and
\* its commit.
Looked ==
    \A t \in Thread : pc[t] \in {"commit", "publish"} =>
        Valid(mem, op[t]) /\ Wanted(mem, op[t]) = op[t].on

\* Two changes of channels are of different channels, and each has reserved its own.
Reserved ==
    \A t \in Thread : OfChannel(op[t]) =>
        /\ op[t].on \subseteq ops
        /\ \A u \in Thread \ {t} : OfChannel(op[u]) => op[u].on \cap op[t].on = {}

\* The list of names is behind the manager by the changes that have to be ended.
Follows(t) ==
    /\ pc[t] # "end" => \A n \in op[t].on : n \in names <=> n \in mem.channels
    /\ pc[t] = "end" /\ op[t].kind = "addChannel" =>
           op[t].on \subseteq mem.channels \cap db.channels
    /\ pc[t] = "end" /\ op[t].kind = "removeChannel" =>
           op[t].on \cap (mem.channels \cup db.channels) = {}

Agreed == NamesAreTheChannels /\ \A t \in Thread : OfChannel(op[t]) => Follows(t)

\* What was removed is on the blacklist, so an import can see it.
Stored == KeptIsStored /\ GoneStaysGone /\ gone \cap Vod \subseteq db.blacklist

ThreadsInv == (\A t \in Thread : ThreadShape(t)) /\ Mutex /\ Memory /\ Looked /\ Reserved

ConfigInv == TypeOK /\ ThreadsInv /\ Agreed /\ Stored

-----------------------------------------------------------------------------
PCs == {"idle", "lock", "commit", "publish", "end", "undo", "list", "answer", "prune"}

OthersSame(t) == \A u \in Thread \ {t} : pc'[u] = pc[u] /\ op'[u] = op[u]

LEMMA TypeIs ==
    ASSUME TypeOK
    PROVE  /\ pc \in [Thread -> PCs] /\ op \in [Thread -> Op]
           /\ db \in Config /\ mem \in Config
           /\ db.channels \subseteq Channel /\ DOMAIN db.vods \subseteq Vod
           /\ db.blacklist \subseteq Vod
           /\ mem.channels \subseteq Channel /\ DOMAIN mem.vods \subseteq Vod
           /\ mem.blacklist \subseteq Vod
  BY RecordIs DEF TypeOK, Op, PCs, Config

\* A thread whose change has ended, or failed, has none; the API still has to be told of
\* a change of a channel.
LEMMA ReturnIs ==
    ASSUME TypeOK, NEW t \in Thread, NEW from, NEW ok \in BOOLEAN, Return(t, from, ok)
    PROVE  /\ pc[t] = from /\ OthersSame(t)
           /\ pc' \in [Thread -> PCs] /\ op' \in [Thread -> Op]
           /\ OfChannel(op[t]) => /\ pc'[t] = IF ok THEN "end" ELSE "undo"
                                  /\ op'[t] = op[t]
           /\ ~OfChannel(op[t]) => pc'[t] \in Passive /\ op'[t] = NoChange
<1>1. CASE OfChannel(op[t])
  BY <1>1, TypeIs DEF Return, Go, OthersSame, PCs
<1>2. CASE ~OfChannel(op[t])
  <2>1. PICK p \in Passive : Go(t, from, p)
    BY <1>2 DEF Return, Passive
  <2>2. op' = [op EXCEPT ![t] = NoChange]
    BY <1>2 DEF Return
  <2>3. QED
    BY <1>2, <2>1, <2>2, TypeIs, NoChangeIs DEF Go, OthersSame, PCs, Passive
<1>3. QED
  BY <1>1, <1>2

LEMMA InitConfig == Init => ConfigInv
<1> SUFFICES ASSUME Init PROVE ConfigInv
  OBVIOUS
<1>1. Empty \in Config /\ DOMAIN Empty.vods = {}
  BY NoVodsIs DEF Empty, Config
<1>2. TypeOK
  BY <1>1, NoChangeIs, CrashAssumption DEF Init, TypeOK, Op
<1>3. \A t \in Thread : pc[t] = "idle" /\ op[t] = NoChange
  BY DEF Init
<1>4. ThreadsInv
  <2>1. (\A t \in Thread : ThreadShape(t)) /\ Looked /\ Reserved
    BY <1>3, NoChangeIs DEF ThreadShape, Looked, Reserved
  <2>2. Mutex /\ Memory
    BY <1>3, ThreadAssumption DEF Init, Thread, Mutex, Memory
  <2>3. QED
    BY <2>1, <2>2 DEF ThreadsInv
<1>5. Agreed
  BY <1>3, NoChangeIs DEF Init, Empty, Agreed, NamesAreTheChannels
<1>6. Stored
  BY DEF Init, Empty, Stored, KeptIsStored, GoneStaysGone
<1>7. QED
  BY <1>2, <1>4, <1>5, <1>6 DEF ConfigInv

-----------------------------------------------------------------------------
(* The steps of the manager.                                               *)

\* The look at the memory only makes a change smaller, and a second look finds nothing
\* more to leave out.
LEMMA WantedIs ==
    ASSUME NEW conf, NEW o \in Op
    PROVE  LET narrowed == [o EXCEPT !.on = Wanted(conf, o)]
           IN  /\ Wanted(conf, o) \subseteq o.on
               /\ OfChannel(o) => Wanted(conf, o) = o.on
               /\ Wanted(conf, narrowed) = narrowed.on
               /\ Valid(conf, o) => Valid(conf, narrowed)
<1> DEFINE narrowed == [o EXCEPT !.on = Wanted(conf, o)]
<1>1. o.kind \in Kind
  BY DEF Op
<1>2. narrowed.kind = o.kind /\ narrowed.vods = o.vods /\ narrowed.on = Wanted(conf, o)
  BY DEF Op
<1>3. Wanted(conf, o) \subseteq o.on /\ (OfChannel(o) => Wanted(conf, o) = o.on)
  BY <1>1 DEF Wanted, OfChannel, Kind
<1> HIDE DEF narrowed
<1>4. Wanted(conf, narrowed) = narrowed.on
  BY <1>1, <1>2 DEF Wanted, Kind
<1>5. Valid(conf, o) => Valid(conf, narrowed)
  <2>1. CASE o.kind \in {"import", "durations"}
    BY <1>2, <1>4, <2>1 DEF Valid
  <2>2. CASE o.kind \notin {"import", "durations"}
    <3>1. Wanted(conf, o) = o.on
      BY <1>1, <2>2 DEF Wanted, Kind
    <3>2. QED
      BY <1>1, <1>2, <2>2, <3>1 DEF Valid, Kind
  <2>3. QED
    BY <2>1, <2>2
<1>6. QED
  BY <1>3, <1>4, <1>5 DEF narrowed

LEMMA LockKeeps ==
    ASSUME ConfigInv, NEW t \in Thread, Lock(t)
    PROVE  ConfigInv'
<1> USE DEF ConfigInv, ThreadsInv
<1> DEFINE o == [op[t] EXCEPT !.on = Wanted(mem, op[t])]
<1>1. /\ lock = None /\ Valid(mem, op[t]) /\ lock' = t /\ pc[t] = "lock"
      /\ pc' = [pc EXCEPT ![t] = "commit"]
      /\ op' = [op EXCEPT ![t] = o]
      /\ UNCHANGED <<db, mem, api, ids, crashes, kept, gone>>
  BY DEF Lock, Go
<1>2. pc \in [Thread -> PCs] /\ op \in [Thread -> Op]
  BY TypeIs
<1>3. /\ o \in Op /\ o.kind = op[t].kind /\ o.vods = op[t].vods
      /\ o.on \subseteq op[t].on
      /\ OfChannel(op[t]) => o.on = op[t].on
      /\ Valid(mem, o) /\ Wanted(mem, o) = o.on
  <2>1. op[t] \in Op
    BY <1>2
  <2>2. /\ Wanted(mem, op[t]) \subseteq op[t].on
        /\ OfChannel(op[t]) => Wanted(mem, op[t]) = op[t].on
        /\ Valid(mem, o) /\ Wanted(mem, o) = o.on
    BY <1>1, <2>1, WantedIs
  <2>3. QED
    BY <2>1, <2>2 DEF Op
<1>4. OfChannel(o) <=> OfChannel(op[t])
  BY <1>3 DEF OfChannel
<1>5. Shaped(o)
  BY <1>3, <1>4 DEF ThreadShape, Shaped
<1> HIDE DEF o
<1>6. /\ pc'[t] = "commit" /\ op'[t] = o /\ OthersSame(t)
      /\ pc' \in [Thread -> PCs] /\ op' \in [Thread -> Op]
  BY <1>1, <1>2, <1>3 DEF OthersSame, PCs
<1>7. TypeOK'
  BY <1>1, <1>6 DEF TypeOK, api, Op, PCs
<1>8. \A u \in Thread : ThreadShape(u)'
  BY <1>1, <1>4, <1>5, <1>6 DEF ThreadShape, OthersSame, Passive
<1>9. Mutex'
  BY <1>1, <1>6, ThreadAssumption DEF Mutex, OthersSame, Thread
<1>10. Memory' /\ Looked'
  <2>1. \A u \in Thread : pc[u] # "publish" /\ pc'[u] # "publish"
    BY <1>1, <1>6, ThreadAssumption DEF Mutex, OthersSame, Thread
  <2>2. \A u \in Thread \ {t} : pc'[u] \notin {"commit", "publish"}
    BY <1>1, <1>6, ThreadAssumption DEF Mutex, OthersSame, Thread
  <2>3. QED
    BY <1>1, <1>3, <1>6, <2>1, <2>2 DEF Memory, Looked
<1>11. Reserved'
  BY <1>1, <1>3, <1>4, <1>6 DEF Reserved, OthersSame, api
<1>12. Agreed'
  BY <1>1, <1>3, <1>4, <1>6 DEF Agreed, Follows, NamesAreTheChannels, OthersSame, api
<1>13. Stored'
  BY <1>1 DEF Stored, KeptIsStored, GoneStaysGone
<1>14. QED
  BY <1>7, <1>8, <1>9, <1>10, <1>11, <1>12, <1>13

LEMMA RefuseKeeps ==
    ASSUME ConfigInv, NEW t \in Thread, Reject(t) \/ CommitFails(t)
    PROVE  ConfigInv'
<1> USE DEF ConfigInv, ThreadsInv
<1>1. PICK from \in {"lock", "commit"} :
          /\ Return(t, from, FALSE)
          /\ from = "lock" => lock = None
          /\ lock' = None
          /\ UNCHANGED <<db, mem, api, ids, crashes, kept, gone>>
  BY DEF Reject, CommitFails, store
<1>2. /\ pc[t] = from /\ OthersSame(t)
      /\ pc' \in [Thread -> PCs] /\ op' \in [Thread -> Op]
      /\ OfChannel(op[t]) => pc'[t] = "undo" /\ op'[t] = op[t]
      /\ ~OfChannel(op[t]) => pc'[t] \in Passive /\ op'[t] = NoChange
  BY <1>1, ReturnIs
<1>3. TypeOK'
  BY <1>1, <1>2 DEF TypeOK, api, Op, PCs
<1>4. \A u \in Thread : ThreadShape(u)'
  BY <1>2, NoChangeIs DEF ThreadShape, OthersSame, Passive
<1>5. \A u \in Thread : pc[u] # "publish" /\ pc'[u] \notin {"commit", "publish"}
  <2>1. lock \in {None, t}
    BY <1>1, <1>2 DEF Mutex
  <2>2. \A u \in Thread \ {t} : pc[u] \notin {"commit", "publish"}
    BY <2>1, ThreadAssumption DEF Mutex, Thread
  <2>3. QED
    BY <1>2, <2>2 DEF OthersSame, Passive
<1>6. Mutex' /\ Memory' /\ Looked'
  BY <1>1, <1>5, ThreadAssumption DEF Mutex, Memory, Looked, Thread
<1>7. \A u \in Thread : OfChannel(op'[u]) => op'[u] = op[u]
  BY <1>2, NoChangeIs DEF OthersSame
<1>8. Reserved'
  BY <1>1, <1>7 DEF Reserved, api
<1>9. Agreed'
  <2>1. \A u \in Thread : OfChannel(op'[u]) => (pc'[u] = "end" <=> pc[u] = "end")
    BY <1>2, NoChangeIs DEF OthersSame
  <2>2. QED
    BY <1>1, <1>7, <2>1 DEF Agreed, Follows, NamesAreTheChannels, api
<1>10. Stored'
  BY <1>1 DEF Stored, KeptIsStored, GoneStaysGone
<1>11. QED
  BY <1>3, <1>4, <1>6, <1>8, <1>9, <1>10

LEMMA CommitKeeps ==
    ASSUME ConfigInv, NEW t \in Thread, Commit(t)
    PROVE  ConfigInv'
<1> USE DEF ConfigInv, ThreadsInv
<1>1. /\ pc[t] = "commit" /\ pc' = [pc EXCEPT ![t] = "publish"]
      /\ db' = Changed(db, op[t])
      /\ UNCHANGED <<mem, lock, api, op, ids, crashes>>
  BY DEF Commit, Go
<1>2. /\ pc \in [Thread -> PCs] /\ op[t] \in Op /\ Shaped(op[t]) /\ db \in Config
      /\ DOMAIN db.vods \subseteq Vod /\ db.channels \subseteq Channel
  BY TypeIs DEF ThreadShape
<1>3. /\ pc' \in [Thread -> PCs] /\ pc'[t] = "publish"
      /\ \A u \in Thread \ {t} : pc'[u] = pc[u]
  BY <1>1, <1>2 DEF PCs
<1>4. lock = t /\ \A u \in Thread : u # t => pc[u] \notin {"commit", "publish"}
  BY <1>1 DEF Mutex
<1>5. mem = db
  BY <1>1, <1>4 DEF Memory
<1>6. TypeOK'
  <2>1. db' \in Config
    BY <1>1, <1>2, ChangedIs
  <2>2. kept' \subseteq Channel \cup Vod /\ gone' \subseteq Channel \cup Vod
    BY DEF Commit, TypeOK
  <2>3. QED
    BY <1>1, <1>3, <2>1, <2>2 DEF TypeOK, api, PCs
<1>7. \A u \in Thread : ThreadShape(u)'
  BY <1>1, <1>3 DEF ThreadShape, Passive
<1>8. Mutex' /\ Memory' /\ Looked'
  BY <1>1, <1>3, <1>4, <1>5 DEF Mutex, Memory, Looked
<1>9. Reserved'
  BY <1>1 DEF Reserved, api
<1>10. Agreed'
  <2>1. NamesAreTheChannels'
    BY <1>1 DEF Agreed, NamesAreTheChannels, api
  <2>2. ASSUME NEW u \in Thread, OfChannel(op[u])
        PROVE  Follows(u)'
    <3>1. CASE u = t
      BY <1>1, <1>3, <2>2, <3>1 DEF Agreed, Follows, api
    <3>2. CASE u # t
      <4>1. OfChannel(op[t]) => op[t].on \cap op[u].on = {}
        BY <2>2, <3>2 DEF Reserved
      <4>2. /\ op[u].on \subseteq db.channels => op[u].on \subseteq db'.channels
            /\ op[u].on \cap db.channels = {} => op[u].on \cap db'.channels = {}
        BY <1>1, <1>2, <4>1, ChangedIs DEF OfChannel
      <4>3. QED
        BY <1>1, <1>3, <2>2, <3>2, <4>2 DEF Agreed, Follows, api
    <3>3. QED
      BY <3>1, <3>2
  <2>3. QED
    BY <1>1, <2>1, <2>2 DEF Agreed
<1>11. Stored'
  <2> DEFINE o == op[t]
  <2>1. /\ db'.channels = IF o.kind = "addChannel" THEN db.channels \cup o.on
                          ELSE IF o.kind = "removeChannel" THEN db.channels \ o.on
                          ELSE db.channels
        /\ DOMAIN db'.vods = IF o.kind \in {"addVOD", "import"} THEN DOMAIN db.vods \cup o.on
                             ELSE IF o.kind = "removeVOD" THEN DOMAIN db.vods \ o.on
                             ELSE DOMAIN db.vods
        /\ db'.blacklist = IF o.kind = "addVOD" THEN db.blacklist \ o.on
                           ELSE IF o.kind = "removeVOD" THEN db.blacklist \cup o.on
                           ELSE db.blacklist
    BY <1>1, <1>2, ChangedIs
  <2>2. /\ kept' = IF o.kind \in {"removeChannel", "removeVOD"} THEN kept \ o.on ELSE kept
        /\ gone' = IF o.kind \in {"addChannel", "addVOD"} THEN gone \ o.on ELSE gone
    BY DEF Commit
  <2>3. /\ o.kind \in Kind
        /\ o.on \subseteq IF OfChannel(o) THEN Channel ELSE Vod
    BY <1>2 DEF Shaped, Op
  <2>4. o.kind = "import" => o.on \cap db.blacklist = {}
    <3>1. Wanted(mem, o) = o.on
      BY <1>1 DEF Looked
    <3>2. QED
      BY <1>5, <3>1 DEF Wanted
  <2>5. /\ kept \subseteq db.channels \cup DOMAIN db.vods
        /\ gone \cap (db.channels \cup DOMAIN db.vods) = {}
        /\ gone \cap Vod \subseteq db.blacklist
    BY DEF Stored, KeptIsStored, GoneStaysGone
  <2> HIDE DEF o
  <2>6. kept' \subseteq db'.channels \cup DOMAIN db'.vods
    BY <2>1, <2>2, <2>5
  <2>7. gone' \cap (db'.channels \cup DOMAIN db'.vods) = {}
    <3>1. CASE o.kind = "import"
      <4>1. o.on \subseteq Vod
        BY <2>3, <3>1 DEF OfChannel
      <4>2. gone \cap o.on = {}
        BY <2>4, <2>5, <3>1, <4>1
      <4>3. QED
        BY <2>1, <2>2, <2>5, <3>1, <4>2
    <3>2. CASE o.kind # "import"
      BY <2>1, <2>2, <2>5, <3>2
    <3>3. QED
      BY <3>1, <3>2
  <2>8. gone' \cap Vod \subseteq db'.blacklist
    BY <2>1, <2>2, <2>5
  <2>9. QED
    BY <2>6, <2>7, <2>8 DEF Stored, KeptIsStored, GoneStaysGone
<1>12. QED
  BY <1>6, <1>7, <1>8, <1>9, <1>10, <1>11

LEMMA PublishKeeps ==
    ASSUME ConfigInv, NEW t \in Thread, Publish(t)
    PROVE  ConfigInv'
<1> USE DEF ConfigInv, ThreadsInv
<1>1. /\ Return(t, "publish", TRUE)
      /\ mem' = Changed(mem, op[t]) /\ lock' = None
      /\ UNCHANGED <<db, api, ids, crashes>>
  BY DEF Publish
<1>2. /\ pc[t] = "publish" /\ OthersSame(t)
      /\ pc' \in [Thread -> PCs] /\ op' \in [Thread -> Op]
      /\ OfChannel(op[t]) => pc'[t] = "end" /\ op'[t] = op[t]
      /\ ~OfChannel(op[t]) => pc'[t] \in Passive /\ op'[t] = NoChange
  BY <1>1, ReturnIs
<1>3. op[t] \in Op /\ Shaped(op[t]) /\ mem \in Config /\ db \in Config
  BY TypeIs DEF ThreadShape
<1>4. lock = t /\ \A u \in Thread : u # t => pc[u] \notin {"commit", "publish"}
  BY <1>2 DEF Mutex
<1>5. mem' = db /\ mem' \in Config
  BY <1>1, <1>2, <1>3 DEF Memory
<1> DEFINE o == op[t]
<1>6. /\ db.channels = IF o.kind = "addChannel" THEN mem.channels \cup o.on
                       ELSE IF o.kind = "removeChannel" THEN mem.channels \ o.on
                       ELSE mem.channels
      /\ DOMAIN db.vods = IF o.kind \in {"addVOD", "import"} THEN DOMAIN mem.vods \cup o.on
                          ELSE IF o.kind = "removeVOD" THEN DOMAIN mem.vods \ o.on
                          ELSE DOMAIN mem.vods
      /\ db.blacklist = IF o.kind = "addVOD" THEN mem.blacklist \ o.on
                        ELSE IF o.kind = "removeVOD" THEN mem.blacklist \cup o.on
                        ELSE mem.blacklist
  <2>1. db = Changed(mem, o)
    BY <1>1, <1>5
  <2>2. QED
    BY <1>3, <2>1, ChangedIs
<1>7. /\ o.kind \in Kind /\ o.on \subseteq Channel \cup Vod
      /\ o.on \subseteq IF OfChannel(o) THEN Channel ELSE Vod
  BY <1>3 DEF Shaped, Op
<1>8. /\ kept' = IF o.kind \in {"addVOD", "import"} THEN kept \cup o.on ELSE kept
      /\ gone' = IF o.kind = "removeVOD" THEN gone \cup o.on ELSE gone
  BY DEF Publish, OfChannel, Acknowledge
<1> HIDE DEF o
<1>9. TypeOK'
  <2>1. kept' \subseteq Channel \cup Vod /\ gone' \subseteq Channel \cup Vod
    BY <1>7, <1>8 DEF TypeOK
  <2>2. QED
    BY <1>1, <1>2, <1>5, <2>1 DEF TypeOK, api, Op, PCs
<1>10. \A u \in Thread : ThreadShape(u)'
  BY <1>2, NoChangeIs DEF ThreadShape, OthersSame, Passive
<1>11. \A u \in Thread : pc'[u] \notin {"commit", "publish"}
  BY <1>2, <1>4 DEF OthersSame, Passive
<1>12. Mutex' /\ Memory' /\ Looked'
  BY <1>1, <1>5, <1>11, ThreadAssumption DEF Mutex, Memory, Looked, Thread
<1>13. \A u \in Thread : OfChannel(op'[u]) => op'[u] = op[u]
  BY <1>2, NoChangeIs DEF OthersSame
<1>14. Reserved'
  BY <1>1, <1>13 DEF Reserved, api
<1>15. Agreed'
  <2>1. NamesAreTheChannels'
    <3> SUFFICES ASSUME NEW n \in Channel \ ops PROVE n \in names <=> n \in db.channels
      BY <1>1, <1>5 DEF NamesAreTheChannels, api
    <3>1. n \in names <=> n \in mem.channels
      BY DEF Agreed, NamesAreTheChannels
    <3>2. OfChannel(o) => n \notin o.on
      BY DEF Reserved, o
    <3>3. QED
      BY <1>6, <3>1, <3>2 DEF OfChannel
  <2>2. ASSUME NEW u \in Thread, OfChannel(op'[u])
        PROVE  Follows(u)'
    <3>0. op'[u] = op[u] /\ OfChannel(op[u])
      BY <1>13, <2>2
    <3>1. CASE u = t
      BY <1>1, <1>2, <1>5, <1>6, <3>0, <3>1 DEF Follows, OfChannel, o
    <3>2. CASE u # t
      <4>1. OfChannel(o) => o.on \cap op[u].on = {}
        BY <3>0, <3>2 DEF Reserved, o
      <4>2. \A n \in op[u].on : n \in db.channels <=> n \in mem.channels
        BY <1>6, <4>1 DEF OfChannel
      <4>3. pc'[u] = pc[u]
        BY <1>2, <3>2 DEF OthersSame
      <4>4. Follows(u)
        BY <3>0 DEF Agreed
      <4>5. QED
        BY <1>1, <1>5, <3>0, <4>2, <4>3, <4>4 DEF Follows, api
    <3>3. QED
      BY <3>1, <3>2
  <2>3. QED
    BY <2>1, <2>2 DEF Agreed
<1>16. Stored'
  <2>1. /\ kept \subseteq db.channels \cup DOMAIN db.vods
        /\ gone \cap (db.channels \cup DOMAIN db.vods) = {}
        /\ gone \cap Vod \subseteq db.blacklist
    BY DEF Stored, KeptIsStored, GoneStaysGone
  <2>2. kept' \subseteq db.channels \cup DOMAIN db.vods
    BY <1>6, <1>8, <2>1
  <2>3. o.kind = "removeVOD" =>
            /\ o.on \cap db.channels = {} /\ o.on \cap DOMAIN db.vods = {}
            /\ o.on \subseteq db.blacklist
    BY <1>3, <1>6, <1>7, NameAssumption DEF OfChannel, Config
  <2>4. gone' \cap (db.channels \cup DOMAIN db.vods) = {}
    BY <1>8, <2>1, <2>3
  <2>5. gone' \cap Vod \subseteq db.blacklist
    BY <1>8, <2>1, <2>3
  <2>6. QED
    BY <1>1, <2>2, <2>4, <2>5 DEF Stored, KeptIsStored, GoneStaysGone
<1>17. QED
  BY <1>9, <1>10, <1>12, <1>14, <1>15, <1>16

-----------------------------------------------------------------------------
(* The steps of the requests.                                              *)

LEMMA ChangeChannelKeeps ==
    ASSUME ConfigInv, NEW t \in Request, NEW n \in Channel,
           NEW kind \in {"addChannel", "removeChannel"}, ChangeChannel(t, n, kind)
    PROVE  ConfigInv'
<1> USE DEF ConfigInv, ThreadsInv
<1> DEFINE o == Change(kind, {n}, NoVods)
<1>1. /\ t \in Thread /\ n \notin ops /\ pc[t] = "idle"
      /\ pc' = [pc EXCEPT ![t] = "lock"] /\ op' = [op EXCEPT ![t] = o]
      /\ ops' = ops \cup {n}
      /\ UNCHANGED <<db, mem, lock, names, ids, crashes, kept, gone>>
  BY DEF ChangeChannel, Free, Go, Thread, store
<1>2. o \in Op /\ OfChannel(o) /\ Shaped(o) /\ o.on = {n} /\ o.kind = kind
  BY NoVodsIs DEF Change, Op, Kind, OfChannel, Shaped
<1> HIDE DEF o
<1>3. /\ pc' \in [Thread -> PCs] /\ op' \in [Thread -> Op]
      /\ pc'[t] = "lock" /\ op'[t] = o /\ OthersSame(t)
  BY <1>1, <1>2, TypeIs DEF OthersSame, PCs
<1>4. TypeOK'
  BY <1>1, <1>3 DEF TypeOK, Op, PCs
<1>5. \A u \in Thread : ThreadShape(u)'
  BY <1>2, <1>3 DEF ThreadShape, OthersSame, Passive
<1>6. Mutex' /\ Memory' /\ Looked'
  BY <1>1, <1>3 DEF Mutex, Memory, Looked, OthersSame
<1>7. Reserved'
  <2>1. \A u \in Thread \ {t} : OfChannel(op[u]) => n \notin op[u].on
    BY <1>1 DEF Reserved
  <2>2. QED
    BY <1>1, <1>2, <1>3, <2>1 DEF Reserved, OthersSame
<1>8. Agreed'
  <2>1. NamesAreTheChannels'
    BY <1>1 DEF Agreed, NamesAreTheChannels
  <2>2. Follows(t)'
    BY <1>1, <1>2, <1>3 DEF Agreed, NamesAreTheChannels, Follows
  <2>3. \A u \in Thread \ {t} : OfChannel(op'[u]) => Follows(u)'
    BY <1>1, <1>3 DEF Agreed, Follows, OthersSame
  <2>4. QED
    BY <2>1, <2>2, <2>3 DEF Agreed
<1>9. Stored'
  BY <1>1 DEF Stored, KeptIsStored, GoneStaysGone
<1>10. QED
  BY <1>4, <1>5, <1>6, <1>7, <1>8, <1>9

LEMMA EndKeeps ==
    ASSUME ConfigInv, NEW t \in Request, RequestStep(t)
    PROVE  ConfigInv'
<1> USE DEF ConfigInv, ThreadsInv
<1> DEFINE o == op[t]
<1>1. /\ t \in Thread /\ pc[t] \in {"end", "undo"}
      /\ pc' = [pc EXCEPT ![t] = "idle"] /\ op' = [op EXCEPT ![t] = NoChange]
      /\ ops' = ops \ o.on
      /\ UNCHANGED <<db, mem, lock, ids, crashes>>
  BY DEF RequestStep, EndChange, UndoChange, Go, Thread, store
<1>2. o \in Op /\ OfChannel(o) /\ o.on \subseteq Channel /\ db \in Config
  BY <1>1, TypeIs DEF ThreadShape, Shaped
<1>3. /\ pc' \in [Thread -> PCs] /\ op' \in [Thread -> Op]
      /\ pc'[t] = "idle" /\ op'[t] = NoChange /\ OthersSame(t)
  BY <1>1, TypeIs, NoChangeIs DEF OthersSame, PCs
<1>4. \/ /\ pc[t] = "end"
         /\ names' = IF o.kind = "addChannel" THEN names \cup o.on ELSE names \ o.on
         /\ kept' = IF o.kind = "addChannel" THEN kept \cup o.on ELSE kept
         /\ gone' = IF o.kind = "removeChannel" THEN gone \cup o.on ELSE gone
      \/ pc[t] = "undo" /\ UNCHANGED <<names, kept, gone>>
  BY <1>2 DEF RequestStep, EndChange, UndoChange, Go, Acknowledge, OfChannel
<1>5. Follows(t)
  BY <1>1, <1>2 DEF Agreed
<1>6. \A u \in Thread \ {t} : OfChannel(op[u]) => o.on \cap op[u].on = {}
  BY <1>1, <1>2 DEF Reserved
<1>7. TypeOK'
  <2>1. /\ names' \subseteq Channel /\ ops' \subseteq Channel
        /\ kept' \subseteq Channel \cup Vod /\ gone' \subseteq Channel \cup Vod
    BY <1>1, <1>2, <1>4 DEF TypeOK
  <2>2. QED
    BY <1>1, <1>3, <2>1 DEF TypeOK, Op, PCs
<1>8. \A u \in Thread : ThreadShape(u)'
  BY <1>3, NoChangeIs DEF ThreadShape, OthersSame, Passive
<1>9. Mutex' /\ Memory' /\ Looked'
  BY <1>1, <1>3 DEF Mutex, Memory, Looked, OthersSame
<1>10. Reserved'
  <2>1. \A u \in Thread : OfChannel(op'[u]) => u # t /\ op'[u] = op[u]
    BY <1>3, NoChangeIs DEF OthersSame
  <2>2. QED
    BY <1>1, <1>6, <2>1 DEF Reserved
<1>11. Agreed'
  <2>1. \A n \in o.on : n \in names' <=> n \in mem.channels
    BY <1>2, <1>4, <1>5 DEF Follows, OfChannel
  <2>2. \A n \in Channel \ o.on : n \in names' <=> n \in names
    BY <1>4
  <2>3. NamesAreTheChannels'
    BY <1>1, <2>1, <2>2 DEF Agreed, NamesAreTheChannels
  <2>4. ASSUME NEW u \in Thread, OfChannel(op'[u])
        PROVE  Follows(u)'
    <3>1. u # t /\ op'[u] = op[u] /\ pc'[u] = pc[u]
      BY <1>3, <2>4, NoChangeIs DEF OthersSame
    <3>2. \A n \in op[u].on : n \in names' <=> n \in names
      BY <1>4, <1>6, <2>4, <3>1
    <3>3. Follows(u)
      BY <2>4, <3>1 DEF Agreed
    <3>4. QED
      BY <1>1, <3>1, <3>2, <3>3 DEF Follows
  <2>5. QED
    BY <2>3, <2>4 DEF Agreed
<1>12. Stored'
  <2>1. /\ pc[t] = "end" /\ o.kind = "addChannel" => o.on \subseteq db.channels
        /\ pc[t] = "end" /\ o.kind = "removeChannel" => o.on \cap db.channels = {}
    BY <1>5 DEF Follows
  <2>2. o.on \cap Vod = {} /\ DOMAIN db.vods \subseteq Vod
    BY <1>2, TypeIs, NameAssumption
  <2>3. QED
    BY <1>1, <1>4, <2>1, <2>2 DEF Stored, KeptIsStored, GoneStaysGone
<1>13. QED
  BY <1>7, <1>8, <1>9, <1>10, <1>11, <1>12

-----------------------------------------------------------------------------
(* The other steps, which begin a change of VODs or change nothing at all. *)

Begins(t, o) ==
    /\ pc[t] \in Passive
    /\ pc' = [pc EXCEPT ![t] = "lock"]
    /\ op' = [op EXCEPT ![t] = o]
    /\ ids' \subseteq Vod
    /\ UNCHANGED <<store, api, crashes, kept, gone>>

Waits(t) ==
    /\ pc[t] \in Passive
    /\ \E p \in Passive : pc' = [pc EXCEPT ![t] = p]
    /\ ids' \subseteq Vod
    /\ UNCHANGED <<store, api, op, crashes, kept, gone>>

LEMMA BeginsKeeps ==
    ASSUME ConfigInv, NEW t \in Thread, NEW o \in Op, Shaped(o), ~OfChannel(o), Begins(t, o)
    PROVE  ConfigInv'
<1> USE DEF ConfigInv, ThreadsInv
<1>1. /\ pc' \in [Thread -> PCs] /\ op' \in [Thread -> Op]
      /\ pc'[t] = "lock" /\ op'[t] = o /\ OthersSame(t)
  BY TypeIs DEF Begins, OthersSame, PCs
<1>2. /\ pc[t] \notin {"commit", "publish"}
      /\ UNCHANGED <<db, mem, lock, names, ops, crashes, kept, gone>> /\ ids' \subseteq Vod
  BY DEF Begins, Passive, store, api
<1>3. TypeOK'
  BY <1>1, <1>2 DEF TypeOK, Op, PCs
<1>4. \A u \in Thread : ThreadShape(u)'
  BY <1>1 DEF ThreadShape, OthersSame, Passive
<1>5. Mutex' /\ Memory' /\ Looked'
  BY <1>1, <1>2 DEF Mutex, Memory, Looked, OthersSame
<1>6. \A u \in Thread : OfChannel(op'[u]) => op'[u] = op[u] /\ pc'[u] = pc[u]
  BY <1>1 DEF OthersSame
<1>7. Reserved'
  BY <1>2, <1>6 DEF Reserved
<1>8. Agreed'
  BY <1>2, <1>6 DEF Agreed, Follows, NamesAreTheChannels
<1>9. Stored'
  BY <1>2 DEF Stored, KeptIsStored, GoneStaysGone
<1>10. QED
  BY <1>3, <1>4, <1>5, <1>7, <1>8, <1>9

LEMMA WaitsKeeps ==
    ASSUME ConfigInv, NEW t \in Thread, Waits(t)
    PROVE  ConfigInv'
<1> USE DEF ConfigInv, ThreadsInv
<1>1. /\ pc' \in [Thread -> PCs] /\ pc'[t] \in Passive
      /\ \A u \in Thread \ {t} : pc'[u] = pc[u]
  BY TypeIs DEF Waits, PCs, Passive
<1>2. /\ pc[t] \in Passive
      /\ UNCHANGED <<db, mem, lock, names, ops, op, crashes, kept, gone>> /\ ids' \subseteq Vod
  BY DEF Waits, store, api
<1>3. ~OfChannel(op[t]) /\ op \in [Thread -> Op]
  BY <1>2, TypeIs DEF ThreadShape
<1>4. TypeOK'
  BY <1>1, <1>2 DEF TypeOK, PCs
<1>5. \A u \in Thread : ThreadShape(u)'
  BY <1>1, <1>2, <1>3 DEF ThreadShape, Passive
<1>6. Mutex' /\ Memory' /\ Looked'
  BY <1>1, <1>2 DEF Mutex, Memory, Looked, Passive
<1>7. Reserved'
  BY <1>2 DEF Reserved
<1>8. Agreed'
  BY <1>1, <1>2, <1>3 DEF Agreed, Follows, NamesAreTheChannels
<1>9. Stored'
  BY <1>2 DEF Stored, KeptIsStored, GoneStaysGone
<1>10. QED
  BY <1>4, <1>5, <1>6, <1>7, <1>8, <1>9

\* A restart finds what was committed, and no change under way.
LEMMA CrashKeeps ==
    ASSUME ConfigInv, Crash
    PROVE  ConfigInv'
<1> USE DEF ConfigInv, ThreadsInv
<1>1. /\ \A t \in Thread : pc'[t] = "idle" /\ op'[t] = NoChange
      /\ mem' = db /\ names' = db.channels /\ ops' = {} /\ lock' = None
      /\ UNCHANGED <<db, kept, gone>>
  BY DEF Crash
<1>2. TypeOK'
  <2>1. pc' \in [Thread -> PCs] /\ op' \in [Thread -> Op]
    BY NoChangeIs DEF Crash, PCs
  <2>2. crashes' \in 0..MaxCrashes
    BY CrashAssumption DEF Crash, TypeOK
  <2>3. QED
    BY <2>1, <2>2, TypeIs DEF Crash, TypeOK, Op, PCs
<1>3. (\A t \in Thread : ThreadShape(t)') /\ Looked' /\ Reserved'
  BY <1>1, NoChangeIs DEF ThreadShape, Looked, Reserved
<1>4. Mutex' /\ Memory'
  BY <1>1, ThreadAssumption DEF Mutex, Memory, Thread
<1>5. Agreed'
  BY <1>1, NoChangeIs DEF Agreed, NamesAreTheChannels
<1>6. Stored'
  BY <1>1 DEF Stored, KeptIsStored, GoneStaysGone
<1>7. QED
  BY <1>2, <1>3, <1>4, <1>5, <1>6

\* Every step is one of the manager, one that ends or begins a change of a channel, one that
\* begins a change of VODs, one that goes on without a change, or a crash.
StartsVods(t) == \E o \in Op : Shaped(o) /\ ~OfChannel(o) /\ Begins(t, o)

StartsChannel ==
    \E r \in Request, n \in Channel, kind \in {"addChannel", "removeChannel"} :
        ChangeChannel(r, n, kind)

LEMMA StepIs ==
    ASSUME ConfigInv, Next
    PROVE  \/ \E t \in Thread : ManagerStep(t) \/ StartsVods(t) \/ Waits(t)
           \/ \E r \in Request : RequestStep(r)
           \/ StartsChannel
           \/ Crash
<1>0. ids \subseteq Vod /\ DOMAIN mem.vods \subseteq Vod /\ Sync \in Thread
  BY TypeIs DEF ConfigInv, TypeOK, Thread
<1>1. ASSUME NEW kind \in Kind \ {"addChannel", "removeChannel"}, NEW on \in SUBSET Vod,
             NEW vods \in Record, on \subseteq DOMAIN vods \/ kind = "removeVOD"
      PROVE  LET o == Change(kind, on, vods)
             IN  o \in Op /\ Shaped(o) /\ ~OfChannel(o)
  BY <1>1 DEF Change, Op, Shaped, OfChannel
<1>2. ASSUME NEW r \in Request, NEW v \in Vod, NEW d \in Duration, RequestVOD(r, v, d)
      PROVE  r \in Thread /\ StartsVods(r)
  <2> DEFINE f == [x \in {v} |-> d]
  <2>1. f \in Record /\ DOMAIN f = {v}
    <3>1. f = [x \in DOMAIN f |-> f[x]] /\ DOMAIN f = {v} /\ f[v] = d
      OBVIOUS
    <3> HIDE DEF f
    <3>2. QED
      BY <3>1, RecordIs
  <2>2. Begins(r, Change("addVOD", {v}, f))
    BY <1>0, <1>2 DEF RequestVOD, Begins, Go, Passive
  <2> HIDE DEF f
  <2>3. QED
    BY <1>1, <2>1, <2>2 DEF StartsVods, Kind, Thread
<1>3. ASSUME NEW r \in Request, NEW v \in Vod, RequestRemoval(r, v)
      PROVE  r \in Thread /\ StartsVods(r)
  <2>1. Begins(r, Change("removeVOD", {v}, NoVods))
    BY <1>0, <1>3 DEF RequestRemoval, Begins, Go, Passive
  <2>2. QED
    BY <1>1, <2>1, NoVodsIs DEF StartsVods, Kind, Thread
<1>4. ASSUME NEW vods \in Record, Import(vods)
      PROVE  StartsVods(Sync)
  <2>1. Begins(Sync, Change("import", DOMAIN vods, vods))
    BY <1>0, <1>4 DEF Import, Begins, Go, Passive
  <2>2. DOMAIN vods \subseteq Vod
    BY RecordIs
  <2>3. QED
    BY <1>1, <2>1, <2>2 DEF StartsVods, Kind
<1>5. ASSUME NEW known \in SUBSET Vod, NEW vods \in Record, RefreshAnswered(known, vods)
      PROVE  StartsVods(Sync)
  <2>1. Begins(Sync, Change("durations", DOMAIN vods, vods))
    BY <1>0, <1>5 DEF RefreshAnswered, Begins, Go, Passive
  <2>2. DOMAIN vods \subseteq Vod
    BY RecordIs
  <2>3. QED
    BY <1>1, <2>1, <2>2 DEF StartsVods, Kind
<1>6. ASSUME NEW v \in Vod, Prune(v)
      PROVE  StartsVods(Sync)
  <2>1. Begins(Sync, Change("removeVOD", {v}, NoVods))
    BY <1>0, <1>6 DEF Prune, Begins, Go, Passive
  <2>2. QED
    BY <1>1, <2>1, NoVodsIs DEF StartsVods, Kind
<1>7. ASSUME NEW known \in SUBSET Vod, RefreshWithoutDurations(known)
      PROVE  Waits(Sync)
  BY <1>0, <1>7 DEF RefreshWithoutDurations, Waits, Go, Passive
<1>8. ASSUME NothingToImport \/ ListSaved \/ RefreshFails \/ EndSync
      PROVE  Waits(Sync)
  BY <1>0, <1>8 DEF NothingToImport, ListSaved, RefreshFails, EndSync, Waits, Go, Passive
<1>9. QED
  BY <1>0, <1>2, <1>3, <1>4, <1>5, <1>6, <1>7, <1>8 DEF Next, SyncStep, StartsChannel

LEMMA NextKeeps ==
    ASSUME ConfigInv, [Next]_vars
    PROVE  ConfigInv'
<1>1. CASE Next
  <2>1. ASSUME NEW t \in Thread, ManagerStep(t) \/ StartsVods(t) \/ Waits(t)
        PROVE  ConfigInv'
    BY <2>1, LockKeeps, RefuseKeeps, CommitKeeps, PublishKeeps, BeginsKeeps, WaitsKeeps
       DEF ManagerStep, StartsVods
  <2>2. ASSUME NEW r \in Request, RequestStep(r)
        PROVE  ConfigInv'
    BY <2>2, EndKeeps
  <2>3. CASE StartsChannel
    BY <2>3, ChangeChannelKeeps DEF StartsChannel
  <2>4. CASE Crash
    BY <2>4, CrashKeeps
  <2>5. QED
    BY <1>1, <2>1, <2>2, <2>3, <2>4, StepIs
<1>2. CASE UNCHANGED vars
  BY <1>2 DEF vars, store, api, ConfigInv, TypeOK, ThreadsInv, ThreadShape, Mutex, Memory,
              Looked, Reserved, Agreed, NamesAreTheChannels, Follows, Stored, KeptIsStored,
              GoneStaysGone
<1>3. QED
  BY <1>1, <1>2

-----------------------------------------------------------------------------
\* The database, the memory, the names and the changes under way agree with each other at
\* every step of every request, of the synchronisation and of a restart.
THEOREM Invariance == Spec => []ConfigInv
<1>1. ConfigInv /\ [Next]_vars => ConfigInv'
  BY NextKeeps
<1>2. QED
  BY <1>1, InitConfig, PTL DEF Spec

\* Every variable keeps its type, with every VOD's record complete.
THEOREM TypeCorrect == Spec => []TypeOK
<1>1. ConfigInv => TypeOK
  BY DEF ConfigInv
<1>2. QED
  BY <1>1, Invariance, PTL

\* A change that fails leaves no trace in the memory: whenever mutationMu is free a restart
\* would load what the manager has.
THEOREM MemoryIsRight == Spec => []MemoryIsTheDatabase
<1>1. ConfigInv => MemoryIsTheDatabase
  BY ThreadAssumption DEF ConfigInv, ThreadsInv, Mutex, Memory, MemoryIsTheDatabase, Thread
<1>2. QED
  BY <1>1, Invariance, PTL

\* The names that the API answers with are the manager's channels, although neither lock
\* covers both (APIState reserves a name for the time of its change).
THEOREM NamesAgree == Spec => []NamesAreTheChannels
<1>1. ConfigInv => NamesAreTheChannels
  BY DEF ConfigInv, Agreed
<1>2. QED
  BY <1>1, Invariance, PTL

\* What was acknowledged as added survives every failure, restart and change of others; what
\* was acknowledged as removed is not imported again, since it is on the blacklist, in the
\* database and in the memory that the import looks at.
THEOREM AcknowledgementsStand == Spec => []AcknowledgedStands
<1>1. ConfigInv => AcknowledgedStands
  BY DEF ConfigInv, Stored, AcknowledgedStands
<1>2. QED
  BY <1>1, Invariance, PTL

-----------------------------------------------------------------------------
(* The configuration is one object (AtomicConfig).                         *)

LEMMA SameData ==
    ASSUME NEW conf, NEW o
    PROVE  /\ Atomic!Wanted(conf, o) = Wanted(conf, o)
           /\ Atomic!Valid(conf, o) = Valid(conf, o)
           /\ Atomic!Changed(conf, o) = Changed(conf, o)
<1>1. Atomic!Wanted(conf, o) = Wanted(conf, o)
  BY DEF Atomic!Wanted, Wanted
<1>2. Atomic!Valid(conf, o) = Valid(conf, o)
  BY <1>1 DEF Atomic!Valid, Valid
<1>3. Atomic!AddVODs(conf, o) = AddVODs(conf, o)
  BY DEF Atomic!AddVODs, AddVODs
<1>4. Atomic!Changed(conf, o) = Changed(conf, o)
  BY <1>3 DEF Atomic!Changed, Changed, Atomic!AddChannel, AddChannel, Atomic!RemoveChannel,
              RemoveChannel, Atomic!AddVOD, AddVOD, Atomic!RemoveVOD, RemoveVOD,
              Atomic!UpdateDurations, UpdateDurations, Atomic!Restrict, Restrict
<1>5. QED
  BY <1>1, <1>2, <1>4

Calling == {"lock", "commit", "publish"}

LEMMA AskedIs ==
    ASSUME TypeOK, NEW t \in Thread
    PROVE  /\ pc[t] \in Calling => Asked[t] = op[t] /\ Asked[t] # None
           /\ pc[t] \notin Calling => Asked[t] = None
<1>1. op[t] \in Op
  BY TypeIs
<1>2. QED
  BY <1>1, ChangeAssumption DEF Asked, Calling, Op

\* A step of one thread changes what that thread has asked for.
LEMMA AskedChanges ==
    ASSUME NEW t \in Thread, OthersSame(t), NEW a,
           a = IF pc'[t] \in Calling THEN op'[t] ELSE None
    PROVE  Asked' = [Asked EXCEPT ![t] = a]
  BY DEF Asked, OthersSame, Calling

AtomicStep == Atomic!Next \/ UNCHANGED Atomic!vars

\* The look at the memory leaves out what has become pointless.
LEMMA LockShows ==
    ASSUME ConfigInv, NEW t \in Thread, Lock(t)
    PROVE  AtomicStep
<1>1. /\ pc[t] = "lock" /\ mem' = mem
      /\ pc' = [pc EXCEPT ![t] = "commit"]
      /\ op' = [op EXCEPT ![t].on = Wanted(mem, op[t])]
  BY DEF Lock, Go
<1>2. TypeOK /\ pc \in [Thread -> PCs] /\ op \in [Thread -> Op]
  BY TypeIs DEF ConfigInv
<1>3. OthersSame(t) /\ pc'[t] = "commit" /\ op'[t] = [op[t] EXCEPT !.on = Wanted(mem, op[t])]
  BY <1>1, <1>2 DEF OthersSame
<1>4. Asked[t] = op[t] /\ Asked[t] # None
  BY <1>1, <1>2, AskedIs DEF Calling
<1>5. Asked' = [Asked EXCEPT ![t] = op'[t]]
  BY <1>3, AskedChanges DEF Calling
<1>6. Asked' = [Asked EXCEPT ![t].on = Atomic!Wanted(mem, Asked[t])]
  <2>1. Atomic!Wanted(mem, Asked[t]) = Wanted(mem, Asked[t])
    BY SameData
  <2> DEFINE w == Wanted(mem, Asked[t])
  <2>2. op'[t] = [Asked[t] EXCEPT !.on = w]
    BY <1>3, <1>4
  <2> HIDE DEF w
  <2>3. Asked' = [Asked EXCEPT ![t].on = w]
    BY <1>5, <2>2
  <2>4. QED
    BY <2>1, <2>3 DEF w
<1>7. Atomic!Narrow(t)
  BY <1>1, <1>4, <1>6 DEF Atomic!Narrow
<1>8. QED
  BY <1>7 DEF AtomicStep, Atomic!Next

LEMMA RefuseShows ==
    ASSUME ConfigInv, NEW t \in Thread, Reject(t) \/ CommitFails(t)
    PROVE  AtomicStep
<1>1. PICK from \in {"lock", "commit"} : Return(t, from, FALSE)
  BY DEF Reject, CommitFails
<1>2. mem' = mem
  BY DEF Reject, CommitFails, store
<1>3. TypeOK
  BY DEF ConfigInv
<1>4. pc[t] \in Calling /\ pc'[t] \notin Calling /\ OthersSame(t)
  BY <1>1, <1>3, ReturnIs DEF Calling, Passive
<1>5. Asked[t] # None
  BY <1>3, <1>4, AskedIs
<1>6. Asked' = [Asked EXCEPT ![t] = None]
  BY <1>4, AskedChanges
<1>7. Atomic!Refuse(t)
  BY <1>2, <1>5, <1>6 DEF Atomic!Refuse
<1>8. QED
  BY <1>7 DEF AtomicStep, Atomic!Next

\* Readers do not see what is only in the database.
LEMMA CommitShows ==
    ASSUME ConfigInv, NEW t \in Thread, Commit(t)
    PROVE  AtomicStep
<1>1. /\ pc[t] = "commit" /\ pc' = [pc EXCEPT ![t] = "publish"]
      /\ UNCHANGED <<mem, op>>
  BY DEF Commit, Go
<1>2. pc \in [Thread -> PCs]
  BY TypeIs DEF ConfigInv
<1>3. \A u \in Thread : pc'[u] \in Calling <=> pc[u] \in Calling
  BY <1>1, <1>2 DEF Calling
<1>4. Asked' = Asked
  BY <1>1, <1>3 DEF Asked, Calling
<1>5. QED
  BY <1>1, <1>4 DEF AtomicStep, Atomic!vars

\* A change that is about to be committed or published is right on the memory.
LEMMA LookedIsApt ==
    ASSUME ConfigInv, NEW t \in Thread, pc[t] \in {"commit", "publish"}
    PROVE  Atomic!Apt(t)
<1>1. Valid(mem, op[t]) /\ Wanted(mem, op[t]) = op[t].on
  BY DEF ConfigInv, ThreadsInv, Looked
<1>2. Asked[t] = op[t] /\ Asked[t] # None
  BY AskedIs DEF ConfigInv, Calling
<1>3. QED
  BY <1>1, <1>2, SameData DEF Atomic!Apt

LEMMA PublishShows ==
    ASSUME ConfigInv, NEW t \in Thread, Publish(t)
    PROVE  AtomicStep
<1>1. Return(t, "publish", TRUE) /\ mem' = Changed(mem, op[t])
  BY DEF Publish
<1>2. TypeOK
  BY DEF ConfigInv
<1>3. pc[t] = "publish" /\ pc'[t] \notin Calling /\ OthersSame(t)
  BY <1>1, <1>2, ReturnIs DEF Calling, Passive
<1>4. Atomic!Apt(t)
  BY <1>3, LookedIsApt
<1>5. Asked[t] = op[t]
  BY <1>2, <1>3, AskedIs DEF Calling
<1>6. Asked' = [Asked EXCEPT ![t] = None]
  BY <1>3, AskedChanges
<1>7. mem' = Atomic!Changed(mem, Asked[t])
  BY <1>1, <1>5, SameData
<1>8. Atomic!Make(t)
  BY <1>4, <1>6, <1>7 DEF Atomic!Make
<1>9. QED
  BY <1>8 DEF AtomicStep, Atomic!Next

\* A thread asks for a change.
LEMMA AskShows ==
    ASSUME ConfigInv, NEW t \in Thread, NEW o \in Op, pc[t] \in Passive,
           pc' = [pc EXCEPT ![t] = "lock"], op' = [op EXCEPT ![t] = o], mem' = mem
    PROVE  AtomicStep
<1>1. TypeOK /\ pc \in [Thread -> PCs] /\ op \in [Thread -> Op]
  BY TypeIs DEF ConfigInv
<1>2. pc'[t] = "lock" /\ op'[t] = o /\ OthersSame(t)
  BY <1>1 DEF OthersSame
<1>3. Asked[t] = None
  BY <1>1, AskedIs DEF Passive, Calling
<1>4. Asked' = [Asked EXCEPT ![t] = o]
  BY <1>2, AskedChanges DEF Calling
<1>5. o \in Atomic!Calls
  BY DEF Op, Atomic!Calls, Kind, Atomic!Kind, Record, Atomic!Record
<1>6. Atomic!Ask(t)
  BY <1>3, <1>4, <1>5 DEF Atomic!Ask
<1>7. QED
  BY <1>6 DEF AtomicStep, Atomic!Next

\* A thread goes on without a change.
LEMMA IdleShows ==
    ASSUME ConfigInv, NEW t \in Thread, pc[t] \notin Calling, NEW p, p \notin Calling,
           pc' = [pc EXCEPT ![t] = p], \A u \in Thread \ {t} : op'[u] = op[u], mem' = mem
    PROVE  AtomicStep
<1>1. pc \in [Thread -> PCs]
  BY TypeIs DEF ConfigInv
<1>2. \A u \in Thread : /\ pc'[u] \in Calling <=> pc[u] \in Calling
                        /\ pc'[u] \in Calling => op'[u] = op[u]
  BY <1>1
<1>3. Asked' = Asked
  BY <1>2 DEF Asked, Calling
<1>4. QED
  BY <1>3 DEF AtomicStep, Atomic!vars

\* A restart takes the database, which is at most one change ahead.
LEMMA CrashShows ==
    ASSUME ConfigInv, Crash
    PROVE  AtomicStep
<1>1. mem' = db /\ pc' = [t \in Thread |-> "idle"]
  BY DEF Crash
<1>2. Asked' = [t \in Thread |-> None]
  BY <1>1 DEF Asked
<1>3. \/ mem' = mem
      \/ \E t \in Thread : Atomic!Apt(t) /\ mem' = Atomic!Changed(mem, Asked[t])
  <2>1. CASE \A t \in Thread : pc[t] # "publish"
    BY <1>1, <2>1 DEF ConfigInv, ThreadsInv, Memory
  <2>2. ASSUME NEW t \in Thread, pc[t] = "publish"
        PROVE  Atomic!Apt(t) /\ mem' = Atomic!Changed(mem, Asked[t])
    <3>1. Asked[t] = op[t]
      BY <2>2, AskedIs DEF ConfigInv, Calling
    <3>2. db = Changed(mem, op[t])
      BY <2>2 DEF ConfigInv, ThreadsInv, Memory
    <3>3. QED
      BY <1>1, <2>2, <3>1, <3>2, LookedIsApt, SameData
  <2>3. QED
    BY <2>1, <2>2
<1>4. Atomic!Crash
  BY <1>2, <1>3 DEF Atomic!Crash
<1>5. QED
  BY <1>4 DEF AtomicStep, Atomic!Next

LEMMA BeginsShows ==
    ASSUME ConfigInv, NEW t \in Thread, NEW o \in Op, Begins(t, o)
    PROVE  AtomicStep
  BY AskShows DEF Begins, store

LEMMA WaitsShows ==
    ASSUME ConfigInv, NEW t \in Thread, Waits(t)
    PROVE  AtomicStep
<1>1. PICK p \in Passive : pc' = [pc EXCEPT ![t] = p]
  BY DEF Waits
<1>2. pc[t] \notin Calling /\ p \notin Calling /\ op' = op /\ mem' = mem
  BY DEF Waits, store, Passive, Calling
<1>3. QED
  BY <1>1, <1>2, IdleShows

LEMMA AtomicNext ==
    ASSUME ConfigInv, [Next]_vars
    PROVE  AtomicStep
<1>1. CASE Next
  <2>1. ASSUME NEW t \in Thread, ManagerStep(t) \/ StartsVods(t) \/ Waits(t)
        PROVE  AtomicStep
    BY <2>1, LockShows, RefuseShows, CommitShows, PublishShows, BeginsShows, WaitsShows
       DEF ManagerStep, StartsVods
  <2>2. ASSUME NEW r \in Request, RequestStep(r)
        PROVE  AtomicStep
    <3>1. /\ r \in Thread /\ pc[r] \in {"end", "undo"} /\ pc' = [pc EXCEPT ![r] = "idle"]
          /\ op' = [op EXCEPT ![r] = NoChange] /\ mem' = mem
      BY <2>2 DEF RequestStep, EndChange, UndoChange, Go, Thread, store
    <3>2. \A u \in Thread \ {r} : op'[u] = op[u]
      BY <3>1, TypeIs DEF ConfigInv
    <3>3. QED
      BY <3>1, <3>2, IdleShows DEF Calling
  <2>3. ASSUME NEW r \in Request, NEW n \in Channel,
               NEW kind \in {"addChannel", "removeChannel"}, ChangeChannel(r, n, kind)
        PROVE  AtomicStep
    <3>1. Change(kind, {n}, NoVods) \in Op
      BY NoVodsIs DEF Change, Op, Kind
    <3>2. QED
      BY <2>3, <3>1, AskShows DEF ChangeChannel, Go, Passive, Thread, store
  <2>4. CASE Crash
    BY <2>4, CrashShows
  <2>5. QED
    BY <1>1, <2>1, <2>2, <2>3, <2>4, StepIs DEF StartsChannel
<1>2. CASE UNCHANGED vars
  BY <1>2 DEF vars, store, Asked, AtomicStep, Atomic!vars
<1>3. QED
  BY <1>1, <1>2

\* Every behaviour of the manager, over any requests, failing transactions and restarts, is
\* a behaviour of AtomicConfig: the second look under mutationMu and the order of commit and
\* publication make of its two copies one configuration (twitch/manager).
THEOREM Implements == Spec => ImplementsAtomicConfig
<1>1. Init => Atomic!Init
  <2> SUFFICES ASSUME Init PROVE Atomic!Init
    OBVIOUS
  <2>1. Asked = [t \in Thread |-> None]
    BY DEF Init, Asked
  <2>2. QED
    BY <2>1 DEF Init, Atomic!Init, Empty, Atomic!Empty, NoVods, Atomic!NoVods
<1>2. ConfigInv /\ [Next]_vars => [Atomic!Next]_(Atomic!vars)
  BY AtomicNext DEF AtomicStep
<1>3. QED
  BY <1>1, <1>2, Invariance, PTL DEF Spec, ImplementsAtomicConfig, Atomic!Spec
=============================================================================
