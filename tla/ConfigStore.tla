----------------------------- MODULE ConfigStore -----------------------------
(***************************************************************************)
(* The configured channels and the saved VODs: the SQLite database and the *)
(* manager's memory (twitch/manager), the list of channel names that the   *)
(* API keeps in front of them (server/api/api.go), the requests that       *)
(* change them and the synchronisation with Twitch.                        *)
(*                                                                         *)
(* A change is checked against the memory, committed to the database and   *)
(* published in the memory, under mutationMu; readers take the memory or   *)
(* the list of names at any moment, and a restart takes the database.      *)
(* Of a channel only its name is kept, of a VOD its id and its duration,   *)
(* which Twitch goes on to change; positions are left out.                 *)
(***************************************************************************)
EXTENDS ConfigData, Integers, FiniteSets

CONSTANTS
    Request,        \* the API requests under way at once
    Sync,           \* the goroutine of SyncVODs
    MaxCrashes      \* bounds the restarts

ASSUME ThreadAssumption == Sync \notin Request /\ None \notin Request \cup {Sync}
ASSUME NameAssumption == Channel \cap Vod = {}
ASSUME ChangeAssumption ==
    None \notin [kind : Kind, on : SUBSET (Channel \cup Vod), vods : Record]
ASSUME CrashAssumption == MaxCrashes \in Nat

Thread == Request \cup {Sync}

VARIABLES
    db, mem,        \* the configuration in the database and in the manager
    names, ops,     \* channelNames, and channelOps: those with a change under way
    lock,           \* mutationMu
    pc, op,         \* what each thread does, and its change
    ids,            \* the VODs that Sync still has to look at
    crashes,
    kept,           \* bookkeeping: what was acknowledged as added
    gone            \* bookkeeping: what was acknowledged as removed

store == <<db, mem, lock>>
api == <<names, ops>>
vars == <<store, api, pc, op, ids, crashes, kept, gone>>

TypeOK ==
    /\ db \in Config
    /\ mem \in Config
    /\ names \subseteq Channel
    /\ ops \subseteq Channel
    /\ lock \in Thread \cup {None}
    /\ pc \in [Thread -> {"idle", "lock", "commit", "publish", "end", "undo",
                          "list", "answer", "prune"}]
    /\ op \in [Thread -> [kind : Kind, on : SUBSET (Channel \cup Vod), vods : Record]]
    /\ ids \subseteq Vod
    /\ crashes \in 0..MaxCrashes
    /\ kept \subseteq Channel \cup Vod
    /\ gone \subseteq Channel \cup Vod

Init ==
    /\ db = Empty
    /\ mem = Empty
    /\ names = {}
    /\ ops = {}
    /\ lock = None
    /\ pc = [t \in Thread |-> "idle"]
    /\ op = [t \in Thread |-> NoChange]
    /\ ids = {}
    /\ crashes = 0
    /\ kept = {}
    /\ gone = {}

-----------------------------------------------------------------------------
(* The manager.                                                            *)

Go(t, from, to) == pc[t] = from /\ pc' = [pc EXCEPT ![t] = to]

\* The manager returns, and the thread goes on.
Return(t, from, ok) ==
    IF OfChannel(op[t])
    THEN /\ Go(t, from, IF ok THEN "end" ELSE "undo")
         /\ UNCHANGED op
    ELSE /\ Go(t, from, IF t # Sync THEN "idle"
                        ELSE IF op[t].kind = "import" THEN "list" ELSE "prune")
         /\ op' = [op EXCEPT ![t] = NoChange]

\* Mutant: what the request saw before it waited for the lock is not looked at again.
LockUnchecked(t) ==
    /\ lock = None
    /\ Go(t, "lock", "commit")
    /\ lock' = t
    /\ op' = [op EXCEPT ![t].on = Wanted(mem, op[t])]
    /\ UNCHANGED <<db, mem, api, ids, crashes, kept, gone>>

Lock(t) ==
    /\ lock = None
    /\ Valid(mem, op[t])
    /\ Go(t, "lock", "commit")
    /\ lock' = t
    /\ op' = [op EXCEPT ![t].on = Wanted(mem, op[t])]
    /\ UNCHANGED <<db, mem, api, ids, crashes, kept, gone>>

Reject(t) ==
    /\ lock = None
    /\ ~Valid(mem, op[t])
    /\ Return(t, "lock", FALSE)
    /\ UNCHANGED <<store, api, ids, crashes, kept, gone>>

\* The transaction is committed.
Commit(t) ==
    /\ Go(t, "commit", "publish")
    /\ db' = Changed(db, op[t])
    /\ kept' = IF op[t].kind \in {"removeChannel", "removeVOD"} THEN kept \ op[t].on ELSE kept
    /\ gone' = IF op[t].kind \in {"addChannel", "addVOD"} THEN gone \ op[t].on ELSE gone
    /\ UNCHANGED <<mem, lock, api, op, ids, crashes>>

\* Mutant: the error is not returned.
CommitFailsUnnoticed(t) ==
    /\ Go(t, "commit", "publish")
    /\ UNCHANGED <<store, api, op, ids, crashes, kept, gone>>

\* Mutant: the lock is kept on the error path.
CommitFailsLocked(t) ==
    /\ Return(t, "commit", FALSE)
    /\ UNCHANGED <<store, api, ids, crashes, kept, gone>>

\* Any statement of the transaction fails, or the request is cancelled: nothing is stored.
CommitFails(t) ==
    /\ Return(t, "commit", FALSE)
    /\ lock' = None
    /\ UNCHANGED <<db, mem, api, ids, crashes, kept, gone>>

Acknowledge(o) ==
    /\ kept' = IF o.kind \in {"addChannel", "addVOD", "import"} THEN kept \cup o.on ELSE kept
    /\ gone' = IF o.kind \in {"removeChannel", "removeVOD"} THEN gone \cup o.on ELSE gone

\* Mutant: a VOD that is added again stays on the blacklist in memory.
PublishBlacklisted(t) ==
    /\ Return(t, "publish", TRUE)
    /\ mem' = [Changed(mem, op[t]) EXCEPT !.blacklist = @ \cup mem.blacklist]
    /\ lock' = None
    /\ IF OfChannel(op[t]) THEN UNCHANGED <<kept, gone>> ELSE Acknowledge(op[t])
    /\ UNCHANGED <<db, api, ids, crashes>>

Publish(t) ==
    /\ Return(t, "publish", TRUE)
    /\ mem' = Changed(mem, op[t])
    /\ lock' = None
    /\ IF OfChannel(op[t]) THEN UNCHANGED <<kept, gone>> ELSE Acknowledge(op[t])
    /\ UNCHANGED <<db, api, ids, crashes>>

-----------------------------------------------------------------------------
(* The API state and the requests.                                         *)

\* Mutant: two changes of a channel may be under way.
FreeAnyway(n, kind) == (n \in names) = (kind = "removeChannel")

\* A change of a channel reserves its name.
Free(n, kind) == (n \in names) = (kind = "removeChannel") /\ n \notin ops

ChangeChannel(r, n, kind) ==
    /\ Free(n, kind)
    /\ Go(r, "idle", "lock")
    /\ ops' = ops \cup {n}
    /\ op' = [op EXCEPT ![r] = Change(kind, {n}, NoVods)]
    /\ UNCHANGED <<store, names, ids, crashes, kept, gone>>

EndChange(r) ==
    /\ Go(r, "end", "idle")
    /\ ops' = ops \ op[r].on
    /\ names' = IF op[r].kind = "addChannel" THEN names \cup op[r].on ELSE names \ op[r].on
    /\ op' = [op EXCEPT ![r] = NoChange]
    /\ Acknowledge(op[r])
    /\ UNCHANGED <<store, ids, crashes>>

UndoChange(r) ==
    /\ Go(r, "undo", "idle")
    /\ ops' = ops \ op[r].on
    /\ op' = [op EXCEPT ![r] = NoChange]
    /\ UNCHANGED <<store, names, ids, crashes, kept, gone>>

\* The VOD as Twitch describes it when the request looks it up.
RequestVOD(r, v, d) ==
    /\ Go(r, "idle", "lock")
    /\ op' = [op EXCEPT ![r] = Change("addVOD", {v}, [x \in {v} |-> d])]
    /\ UNCHANGED <<store, api, ids, crashes, kept, gone>>

\* The downloader lets one removal of a VOD through at a time.
Removing(v) == \E t \in Thread : /\ pc[t] \in {"lock", "commit", "publish"}
                                 /\ op[t].kind = "removeVOD"
                                 /\ v \in op[t].on

RequestRemoval(r, v) ==
    /\ ~Removing(v)
    /\ Go(r, "idle", "lock")
    /\ op' = [op EXCEPT ![r] = Change("removeVOD", {v}, NoVods)]
    /\ UNCHANGED <<store, api, ids, crashes, kept, gone>>

-----------------------------------------------------------------------------
(* SyncVODs: an import, then a refresh of what is saved.                   *)

\* importLatestVODsOnce: whatever Twitch lists for the channels.
Import(vods) ==
    /\ DOMAIN vods # {}
    /\ Go(Sync, "idle", "lock")
    /\ op' = [op EXCEPT ![Sync] = Change("import", DOMAIN vods, vods)]
    /\ UNCHANGED <<store, api, ids, crashes, kept, gone>>

NothingToImport ==
    /\ Go(Sync, "idle", "list")
    /\ UNCHANGED <<store, api, op, ids, crashes, kept, gone>>

\* refreshSavedVODs asks for the VODs that are saved now.
ListSaved ==
    /\ Go(Sync, "list", IF DOMAIN mem.vods = {} THEN "idle" ELSE "answer")
    /\ ids' = DOMAIN mem.vods
    /\ UNCHANGED <<store, api, op, crashes, kept, gone>>

\* Twitch knows some of them, and the duration of some of these.
RefreshAnswered(known, vods) ==
    /\ known \subseteq ids
    /\ DOMAIN vods \subseteq known
    /\ DOMAIN vods # {}
    /\ Go(Sync, "answer", "lock")
    /\ ids' = ids \ known
    /\ op' = [op EXCEPT ![Sync] = Change("durations", DOMAIN vods, vods)]
    /\ UNCHANGED <<store, api, crashes, kept, gone>>

RefreshWithoutDurations(known) ==
    /\ known \subseteq ids
    /\ Go(Sync, "answer", "prune")
    /\ ids' = ids \ known
    /\ UNCHANGED <<store, api, op, crashes, kept, gone>>

RefreshFails ==
    /\ Go(Sync, "answer", "idle")
    /\ ids' = {}
    /\ UNCHANGED <<store, api, op, crashes, kept, gone>>

Prune(v) ==
    /\ v \in ids
    /\ ~Removing(v)
    /\ Go(Sync, "prune", "lock")
    /\ ids' = ids \ {v}
    /\ op' = [op EXCEPT ![Sync] = Change("removeVOD", {v}, NoVods)]
    /\ UNCHANGED <<store, api, crashes, kept, gone>>

\* The rest is downloaded, or it is not this sync's turn to prune.
EndSync ==
    /\ Go(Sync, "prune", "idle")
    /\ ids' = {}
    /\ UNCHANGED <<store, api, op, crashes, kept, gone>>

-----------------------------------------------------------------------------
\* The process dies at any point and starts again: loadConfig.
Crash ==
    /\ crashes < MaxCrashes
    /\ crashes' = crashes + 1
    /\ mem' = db
    /\ names' = db.channels
    /\ ops' = {}
    /\ lock' = None
    /\ pc' = [t \in Thread |-> "idle"]
    /\ op' = [t \in Thread |-> NoChange]
    /\ ids' = {}
    /\ UNCHANGED <<db, kept, gone>>

ManagerStep(t) == Lock(t) \/ Reject(t) \/ Commit(t) \/ CommitFails(t) \/ Publish(t)

RequestStep(r) == EndChange(r) \/ UndoChange(r)

SyncStep ==
    \/ ListSaved
    \/ \E known \in SUBSET Vod :
           \/ \E vods \in Record : RefreshAnswered(known, vods)
           \/ RefreshWithoutDurations(known)
    \/ RefreshFails
    \/ \E v \in Vod : Prune(v)
    \/ EndSync

Next ==
    \/ \E t \in Thread : ManagerStep(t)
    \/ \E r \in Request : RequestStep(r)
    \/ \E r \in Request, n \in Channel, kind \in {"addChannel", "removeChannel"} :
           ChangeChannel(r, n, kind)
    \/ \E r \in Request, v \in Vod, d \in Duration : RequestVOD(r, v, d)
    \/ \E r \in Request, v \in Vod : RequestRemoval(r, v)
    \/ \E vods \in Record : Import(vods)
    \/ NothingToImport
    \/ SyncStep
    \/ Crash

Spec == Init /\ [][Next]_vars

\* Every call returns, and the lock is fair to those who wait for it.
FairSpec ==
    /\ Spec
    /\ \A t \in Thread : SF_vars(Lock(t) \/ Reject(t)) /\ WF_vars(ManagerStep(t))
    /\ \A r \in Request : WF_vars(RequestStep(r))
    /\ WF_vars(SyncStep)

-----------------------------------------------------------------------------
(* Properties.                                                             *)

\* Whenever no change is under way the memory is what a restart would load, whichever
\* step of whichever change failed.
MemoryIsTheDatabase == lock = None => mem = db

\* The names that the API answers with are the channels of the manager, but for those
\* whose change is under way, although the two lists have locks of their own.
NamesAreTheChannels == \A n \in Channel \ ops : n \in names <=> n \in mem.channels

\* What was acknowledged as added is still stored, through restarts, failures and the
\* changes of others, unless a removal of it was committed.
KeptIsStored == kept \subseteq db.channels \cup DOMAIN db.vods

\* What was acknowledged as removed does not come back unless it is added by request:
\* not by an import that asked Twitch before the removal, nor after a restart.
GoneStaysGone == gone \cap (db.channels \cup DOMAIN db.vods) = {}

\* The promises of an acknowledgement: what was added is there, what was removed is not.
AcknowledgedStands == KeptIsStored /\ GoneStaysGone

\* The changes that the manager has been asked for and that are not decided.
Asked == [t \in Thread |-> IF pc[t] \in {"lock", "commit", "publish"} THEN op[t] ELSE None]

\* The configuration is one object for its readers: a change is checked and made in one
\* step, on the configuration that is there at that moment, or not at all; a change that
\* a crash interrupts is made or not, and no other is lost.
Atomic == INSTANCE AtomicConfig WITH conf <- mem, call <- Asked

ImplementsAtomicConfig == Atomic!Spec

\* Every request and every sync ends.
ChangeEnds == \A t \in Thread : pc[t] # "idle" ~> pc[t] = "idle"
=============================================================================
