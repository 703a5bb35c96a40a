--------------------------- MODULE StreamRegistry ---------------------------
(***************************************************************************)
(* The live-stream registry of stream/stream.go: Start, StopChannel, Stop, *)
(* the ffmpeg goroutine, finishManager, and the PUT/DELETE requests that   *)
(* ffmpeg sends to the live store (stream/live.go).                        *)
(*                                                                         *)
(* A generation is one accepted call of Start: the manager it registers,   *)
(* the write token of its ffmpeg and the goroutine that finishes it all    *)
(* carry the same identity.  A critical section of the registry's mutex mu *)
(* is one action (no other lock is taken inside one); the per-manager      *)
(* writeMu is held across several actions and has a holder.  Timers may    *)
(* fire whenever their wait is not over.                                   *)
(***************************************************************************)
EXTENDS Naturals, FiniteSets

CONSTANTS
    Channel,    \* channel names
    Gen,        \* the Start calls that get past the registration check
    Stopper,    \* goroutines that call StopChannel
    StopAll,    \* goroutines that call Stop
    Writer,     \* goroutines that serve a live write request
    None        \* no generation, no holder

StopThread == Stopper \cup (StopAll \X Channel)   \* Stop forks one per channel

ASSUME NoneAssumption ==
    /\ None \notin Gen
    /\ None \notin Channel
    /\ None \notin Writer
ASSUME ThreadAssumption == Stopper \cap (StopAll \X Channel) = {}
ASSUME WriterAssumption == Writer \cap Gen = {}

VARIABLES
    slot,       \* managers: the generation registered for a channel
    stops,      \* the Stop calls that stopsInProgress counts
    chan,       \* the channel a generation was started for
    state,      \* manager.state
    cmd,        \* manager.cmd is set
    stopInProgress,
    done,       \* manager.done is closed
    writeMu,    \* the holder of manager.writeMu
    proc,       \* the ffmpeg process of a generation
    gpc,        \* where the goroutine of a generation is
    live,       \* the generations with an object in a channel's live store
    spc,        \* where a StopChannel call is
    target,     \* the manager a StopChannel call looked up
    result,     \* what the latest StopChannel call of a thread returned
    forked,     \* the channels a Stop call took its snapshot of
    wpc,        \* where a live write request is
    token,      \* the generation header of a request
    captured    \* the manager a request captured

mgrVars   == <<chan, state, cmd, stopInProgress, done, proc, gpc>>
stopVars  == <<spc, target, result>>
allVars   == <<forked, stops>>
writeVars == <<wpc, token, captured>>
vars == <<slot, live, writeMu, mgrVars, stopVars, allVars, writeVars>>

State == {"starting", "running", "stopping"}
Proc  == {"none", "alive", "killed", "exited"}
GenPc == {"new", "resolving", "launching", "waiting", "finish", "lock",
          "lockIdle", "clear", "unregister", "unlock", "close", "ended"}
StopPc == {"idle", "call", "follow", "awaitStart", "signal", "awaitInt", "kill",
           "awaitKill", "giveUp"}
WritePc == {"idle", "body", "lock", "validate", "commit", "unlock"}

TypeOK ==
    /\ slot \in [Channel -> Gen \cup {None}]
    /\ chan \in [Gen -> Channel \cup {None}]
    /\ state \in [Gen -> State]
    /\ cmd \in [Gen -> BOOLEAN]
    /\ stopInProgress \in [Gen -> BOOLEAN]
    /\ done \in [Gen -> BOOLEAN]
    /\ writeMu \in [Gen -> Gen \cup Writer \cup {None}]
    /\ proc \in [Gen -> Proc]
    /\ gpc \in [Gen -> GenPc]
    /\ live \in [Channel -> SUBSET Gen]
    /\ spc \in [StopThread -> StopPc]
    /\ target \in [StopThread -> Gen \cup {None}]
    /\ result \in [StopThread -> {"none", "nil", "error"}]
    /\ forked \in [StopAll -> SUBSET Channel]
    /\ stops \in SUBSET StopAll
    /\ wpc \in [Writer -> WritePc]
    /\ token \in [Writer -> Gen \cup {None}]
    /\ captured \in [Writer -> Gen \cup {None}]
    /\ \A w \in Writer : wpc[w] \notin {"idle", "body"} => captured[w] \in Gen

Init ==
    /\ slot = [c \in Channel |-> None]
    /\ chan = [g \in Gen |-> None]
    /\ state = [g \in Gen |-> "starting"]
    /\ cmd = [g \in Gen |-> FALSE]
    /\ stopInProgress = [g \in Gen |-> FALSE]
    /\ done = [g \in Gen |-> FALSE]
    /\ writeMu = [g \in Gen |-> None]
    /\ proc = [g \in Gen |-> "none"]
    /\ gpc = [g \in Gen |-> "new"]
    /\ live = [c \in Channel |-> {}]
    /\ spc = [t \in StopThread |-> "idle"]
    /\ target = [t \in StopThread |-> None]
    /\ result = [t \in StopThread |-> "none"]
    /\ forked = [a \in StopAll |-> {}]
    /\ stops = {}
    /\ wpc = [w \in Writer |-> "idle"]
    /\ token = [w \in Writer |-> None]
    /\ captured = [w \in Writer |-> None]

-----------------------------------------------------------------------------
(* Start and the goroutine that waits for ffmpeg.                          *)

GoGen(g, from, to) == gpc[g] = from /\ gpc' = [gpc EXCEPT ![g] = to]

\* A Start that does not look at stopsInProgress.
RegisterDuringStop(g, c) ==
    /\ slot[c] = None
    /\ GoGen(g, "new", "resolving")
    /\ chan' = [chan EXCEPT ![g] = c]
    /\ slot' = [slot EXCEPT ![c] = g]
    /\ live' = [live EXCEPT ![c] = {}]
    /\ UNCHANGED <<state, cmd, stopInProgress, done, proc, writeMu,
                   stopVars, allVars, writeVars>>

\* A Start that replaces the manager it finds.
RegisterOver(g, c) ==
    /\ stops = {}
    /\ GoGen(g, "new", "resolving")
    /\ chan' = [chan EXCEPT ![g] = c]
    /\ slot' = [slot EXCEPT ![c] = g]
    /\ live' = [live EXCEPT ![c] = {}]
    /\ UNCHANGED <<state, cmd, stopInProgress, done, proc, writeMu,
                   stopVars, allVars, writeVars>>

\* The first critical section: refused while a Stop is under way or the channel
\* has a manager, otherwise the manager is registered and the store reset.
Register(g, c) ==
    /\ stops = {}
    /\ slot[c] = None
    /\ GoGen(g, "new", "resolving")
    /\ chan' = [chan EXCEPT ![g] = c]
    /\ slot' = [slot EXCEPT ![c] = g]
    /\ live' = [live EXCEPT ![c] = {}]
    /\ UNCHANGED <<state, cmd, stopInProgress, done, proc, writeMu,
                   stopVars, allVars, writeVars>>

\* resolve(m.ctx) and StderrPipe, outside the mutex: either may fail, and the
\* stop of the manager cancels ctx, which makes resolve return.
Resolve(g) ==
    /\ \/ GoGen(g, "resolving", "launching")
       \/ GoGen(g, "resolving", "finish")
    /\ UNCHANGED <<slot, live, writeMu, chan, state, cmd, stopInProgress, done,
                   proc, stopVars, allVars, writeVars>>

\* Start does not look at the state again after resolving.
LaunchableUnlessReplaced(g) == slot[chan[g]] = g

Launchable(g) == slot[chan[g]] = g /\ state[g] # "stopping"

\* The second critical section of Start: cmd.Start runs inside it.
Launch(g) ==
    /\ \/ /\ GoGen(g, "launching", "waiting")
          /\ Launchable(g)
          /\ cmd' = [cmd EXCEPT ![g] = TRUE]
          /\ proc' = [proc EXCEPT ![g] = "alive"]
          /\ state' = [state EXCEPT ![g] = "running"]
       \/ /\ GoGen(g, "launching", "finish")   \* stopped meanwhile, or Start failed
          /\ UNCHANGED <<cmd, proc, state>>
    /\ UNCHANGED <<slot, live, writeMu, chan, stopInProgress, done,
                   stopVars, allVars, writeVars>>

\* ffmpeg ends by itself, on the interrupt, or because it was killed.
ProcessExit(g) ==
    /\ proc[g] \in {"alive", "killed"}
    /\ proc' = [proc EXCEPT ![g] = "exited"]
    /\ UNCHANGED <<slot, live, writeMu, chan, state, cmd, stopInProgress, done,
                   gpc, stopVars, allVars, writeVars>>

\* cmd.Wait returns.
Reap(g) ==
    /\ proc[g] = "exited"
    /\ GoGen(g, "waiting", "finish")
    /\ UNCHANGED <<slot, live, writeMu, chan, state, cmd, stopInProgress, done,
                   proc, stopVars, allVars, writeVars>>

\* done is closed before the manager is unregistered.
FinishMarkCloseFirst(g) ==
    /\ GoGen(g, "finish", "lock")
    /\ state' = [state EXCEPT ![g] = "stopping"]
    /\ done' = [done EXCEPT ![g] = TRUE]
    /\ UNCHANGED <<slot, live, writeMu, chan, cmd, stopInProgress, proc,
                   stopVars, allVars, writeVars>>

\* finishManager, one action per lock operation.
FinishMark(g) ==
    /\ gpc[g] = "finish"
    /\ IF slot[chan[g]] = g
       THEN /\ GoGen(g, "finish", "lock")
            /\ state' = [state EXCEPT ![g] = "stopping"]
       ELSE /\ GoGen(g, "finish", "lockIdle")   \* not current: nothing to clear
            /\ UNCHANGED state
    /\ UNCHANGED <<slot, live, writeMu, chan, cmd, stopInProgress, done, proc,
                   stopVars, allVars, writeVars>>

\* The store is cleared without waiting for the commit in flight.
FinishLockIgnored(g) ==
    /\ gpc[g] \in {"lock", "lockIdle"}
    /\ gpc' = [gpc EXCEPT ![g] = IF @ = "lock" THEN "clear" ELSE "unlock"]
    /\ UNCHANGED <<slot, live, writeMu, chan, state, cmd, stopInProgress, done,
                   proc, stopVars, allVars, writeVars>>

FinishLock(g) ==
    /\ gpc[g] \in {"lock", "lockIdle"}
    /\ gpc' = [gpc EXCEPT ![g] = IF @ = "lock" THEN "clear" ELSE "unlock"]
    /\ writeMu[g] = None
    /\ writeMu' = [writeMu EXCEPT ![g] = g]
    /\ UNCHANGED <<slot, live, chan, state, cmd, stopInProgress, done, proc,
                   stopVars, allVars, writeVars>>

FinishClear(g) ==
    /\ GoGen(g, "clear", "unregister")
    /\ live' = [live EXCEPT ![chan[g]] = {}]
    /\ UNCHANGED <<slot, writeMu, chan, state, cmd, stopInProgress, done, proc,
                   stopVars, allVars, writeVars>>

FinishUnregister(g) ==
    /\ GoGen(g, "unregister", "unlock")
    /\ slot' = [slot EXCEPT ![chan[g]] = IF @ = g THEN None ELSE @]
    /\ UNCHANGED <<live, writeMu, chan, state, cmd, stopInProgress, done, proc,
                   stopVars, allVars, writeVars>>

FinishUnlock(g) ==
    /\ GoGen(g, "unlock", "close")
    /\ writeMu' = [writeMu EXCEPT ![g] = None]
    /\ UNCHANGED <<slot, live, chan, state, cmd, stopInProgress, done, proc,
                   stopVars, allVars, writeVars>>

FinishClose(g) ==
    /\ GoGen(g, "close", "ended")
    /\ done' = [done EXCEPT ![g] = TRUE]
    /\ UNCHANGED <<slot, live, writeMu, chan, state, cmd, stopInProgress, proc,
                   stopVars, allVars, writeVars>>

-----------------------------------------------------------------------------
(* StopChannel, on its own or forked by Stop.                              *)

GoStop(t, from, to) == spc[t] \in from /\ spc' = [spc EXCEPT ![t] = to]

Return(t, from, r) ==
    /\ GoStop(t, from, "idle")
    /\ result' = [result EXCEPT ![t] = r]

\* A thread calls StopChannel(c) when it likes, a fork of Stop calls it once.
Calls(t, c) ==
    \/ t \in Stopper /\ spc[t] = "idle"
    \/ spc[t] = "call" /\ \E a \in StopAll : t = <<a, c>>

StopUnknown(t, c) ==
    /\ Calls(t, c)
    /\ slot[c] = None
    /\ Return(t, {"idle", "call"}, "nil")
    /\ target' = [target EXCEPT ![t] = None]
    /\ UNCHANGED <<slot, live, writeMu, mgrVars, allVars, writeVars>>

\* The critical section: mark the manager, and decide who initiates the stop
\* and whether there is a command to signal.
StopLookup(t, c) ==
    LET m == slot[c] IN
    /\ Calls(t, c)
    /\ m # None
    /\ GoStop(t, {"idle", "call"},
              IF stopInProgress[m] THEN "follow"
              ELSE IF cmd[m] THEN "signal" ELSE "awaitStart")
    /\ target' = [target EXCEPT ![t] = m]
    /\ result' = [result EXCEPT ![t] = "none"]
    /\ state' = [state EXCEPT ![m] = "stopping"]
    /\ stopInProgress' = [stopInProgress EXCEPT ![m] = TRUE]
    /\ UNCHANGED <<slot, live, writeMu, chan, cmd, done, proc, gpc,
                   allVars, writeVars>>

\* waitForManagerDone sees the closed channel.
DoneSeen(t) ==
    /\ Return(t, {"follow", "awaitStart", "awaitInt"}, "nil")
    /\ done[target[t]]
    /\ UNCHANGED <<slot, live, writeMu, mgrVars, target, allVars, writeVars>>

\* A follower waits for the initiator however long that takes.
TimeOutNotFollower(t) ==
    /\ \/ GoStop(t, {"awaitStart", "awaitKill"}, "giveUp")
       \/ GoStop(t, {"awaitInt"}, "kill")
    /\ ~done[target[t]]
    /\ UNCHANGED <<slot, live, writeMu, mgrVars, target, result, allVars, writeVars>>

\* Its timer fires first.  Whoever initiated the stop gives the flag back.
TimeOut(t) ==
    /\ \/ Return(t, {"follow"}, "error")
       \/ GoStop(t, {"awaitStart", "awaitKill"}, "giveUp") /\ UNCHANGED result
       \/ GoStop(t, {"awaitInt"}, "kill") /\ UNCHANGED result
    /\ ~done[target[t]]
    /\ UNCHANGED <<slot, live, writeMu, mgrVars, target, allVars, writeVars>>

\* os.Interrupt: delivered, ErrProcessDone, or another error.
Interrupt(t) ==
    /\ \/ GoStop(t, {"signal"}, "awaitInt")
       \/ GoStop(t, {"signal"}, "kill")
    /\ UNCHANGED <<slot, live, writeMu, mgrVars, target, result, allVars, writeVars>>

\* Kill succeeds, finds the process gone, or fails.
Kill(t) ==
    /\ \/ /\ GoStop(t, {"kill"}, "awaitKill")
          /\ proc' = [proc EXCEPT ![target[t]] = IF @ = "alive" THEN "killed" ELSE @]
       \/ /\ GoStop(t, {"kill"}, "giveUp")
          /\ proc[target[t]] # "exited"
          /\ UNCHANGED proc
    /\ UNCHANGED <<slot, live, writeMu, chan, state, cmd, stopInProgress, done, gpc,
                   target, result, allVars, writeVars>>

\* A forced kill is reported as ErrStopTimeout even though the stream has ended.
KillSeen(t) ==
    /\ GoStop(t, {"awaitKill"}, "giveUp")
    /\ done[target[t]]
    /\ UNCHANGED <<slot, live, writeMu, mgrVars, target, result, allVars, writeVars>>

\* The flag stays set after a failed stop.
GiveUpSilently(t) ==
    /\ Return(t, {"giveUp"}, "error")
    /\ UNCHANGED <<slot, live, writeMu, mgrVars, target, allVars, writeVars>>

\* The error path: the flag of a manager that is still registered is reset.
GiveUp(t) ==
    LET m == target[t] IN
    /\ Return(t, {"giveUp"}, "error")
    /\ stopInProgress' = [stopInProgress EXCEPT ![m] = @ /\ slot[chan[m]] # m]
    /\ UNCHANGED <<slot, live, writeMu, chan, state, cmd, done, proc, gpc,
                   target, allVars, writeVars>>

-----------------------------------------------------------------------------
(* Stop: no registration from its snapshot to its return.                  *)

StopAllBegin(a) ==
    LET known == {c \in Channel : slot[c] # None} IN
    /\ a \notin stops
    /\ stops' = stops \cup {a}
    /\ forked' = [forked EXCEPT ![a] = known]
    /\ spc' = [t \in StopThread |->
                 IF \E c \in known : t = <<a, c>> THEN "call" ELSE spc[t]]
    /\ UNCHANGED <<slot, live, writeMu, mgrVars, target, result, writeVars>>

StopAllEnd(a) ==
    /\ a \in stops
    /\ \A c \in forked[a] : spc[<<a, c>>] = "idle"
    /\ stops' = stops \ {a}
    /\ forked' = [forked EXCEPT ![a] = {}]
    /\ UNCHANGED <<slot, live, writeMu, mgrVars, stopVars, writeVars>>

-----------------------------------------------------------------------------
(* A live write: handleLiveWrite and commitLiveWrite.                      *)

GoWrite(w, from, to) == wpc[w] = from /\ wpc' = [wpc EXCEPT ![w] = to]

CurrentWriter(g) ==
    /\ chan[g] # None
    /\ slot[chan[g]] = g
    /\ state[g] = "running"

WriteArrive(w, g) ==
    /\ CurrentWriter(g)
    /\ GoWrite(w, "idle", "body")
    /\ token' = [token EXCEPT ![w] = g]
    /\ UNCHANGED <<slot, live, writeMu, mgrVars, stopVars, allVars, captured>>

\* The nil check after the lookup is missing.
WriteCaptureUnchecked(w) ==
    /\ GoWrite(w, "body", "lock")
    /\ captured' = [captured EXCEPT ![w] = slot[chan[token[w]]]]
    /\ UNCHANGED <<slot, live, writeMu, mgrVars, stopVars, allVars, token>>

\* The body has been read (or could not be); the manager is captured under mu.
WriteCapture(w) ==
    LET m == slot[chan[token[w]]] IN
    /\ \/ /\ GoWrite(w, "body", "lock")
          /\ m # None
          /\ captured' = [captured EXCEPT ![w] = m]
          /\ UNCHANGED token
       \/ /\ GoWrite(w, "body", "idle")
          /\ token' = [token EXCEPT ![w] = None]
          /\ UNCHANGED captured
    /\ UNCHANGED <<slot, live, writeMu, mgrVars, stopVars, allVars>>

WriteLock(w) ==
    /\ GoWrite(w, "lock", "validate")
    /\ writeMu[captured[w]] = None
    /\ writeMu' = [writeMu EXCEPT ![captured[w]] = w]
    /\ UNCHANGED <<slot, live, mgrVars, stopVars, allVars, token, captured>>

\* The write is not checked again once it holds writeMu.
WriteValidateSkipped(w) ==
    /\ GoWrite(w, "validate", "commit")
    /\ UNCHANGED <<slot, live, writeMu, mgrVars, stopVars, allVars, token, captured>>

\* A rejected write returns without releasing writeMu.
WriteValidateLeak(w) ==
    /\ GoWrite(w, "validate",
               IF CurrentWriter(token[w]) /\ slot[chan[token[w]]] = captured[w]
               THEN "commit" ELSE "idle")
    /\ UNCHANGED <<slot, live, writeMu, mgrVars, stopVars, allVars, token, captured>>

WriteValidate(w) ==
    /\ GoWrite(w, "validate",
               IF CurrentWriter(token[w]) /\ slot[chan[token[w]]] = captured[w]
               THEN "commit" ELSE "unlock")
    /\ UNCHANGED <<slot, live, writeMu, mgrVars, stopVars, allVars, token, captured>>

\* StoreObject or DeleteObject, by what they do to the ownership of the store: a
\* PUT may purge or be refused, a DELETE may take effect later.
WriteCommit(w) ==
    /\ GoWrite(w, "commit", "unlock")
    /\ \E kept \in SUBSET live[chan[token[w]]], new \in SUBSET {token[w]} :
           live' = [live EXCEPT ![chan[token[w]]] = kept \cup new]
    /\ UNCHANGED <<slot, writeMu, mgrVars, stopVars, allVars, token, captured>>

WriteUnlock(w) ==
    /\ GoWrite(w, "unlock", "idle")
    /\ writeMu' = [writeMu EXCEPT ![captured[w]] = None]
    /\ token' = [token EXCEPT ![w] = None]
    /\ captured' = [captured EXCEPT ![w] = None]
    /\ UNCHANGED <<slot, live, mgrVars, stopVars, allVars>>

-----------------------------------------------------------------------------
GenStep(g) ==
    \/ \E c \in Channel : Register(g, c)
    \/ Resolve(g) \/ Launch(g) \/ ProcessExit(g) \/ Reap(g)
    \/ FinishMark(g) \/ FinishLock(g) \/ FinishClear(g)
    \/ FinishUnregister(g) \/ FinishUnlock(g) \/ FinishClose(g)

StopStep(t) ==
    \/ \E c \in Channel : StopUnknown(t, c) \/ StopLookup(t, c)
    \/ DoneSeen(t) \/ TimeOut(t) \/ Interrupt(t) \/ Kill(t) \/ KillSeen(t)
    \/ GiveUp(t)

WriteStep(w) ==
    \/ \E g \in Gen : WriteArrive(w, g)
    \/ WriteCapture(w) \/ WriteLock(w) \/ WriteValidate(w) \/ WriteCommit(w)
    \/ WriteUnlock(w)

Next ==
    \/ \E g \in Gen : GenStep(g)
    \/ \E t \in StopThread : StopStep(t)
    \/ \E a \in StopAll : StopAllBegin(a) \/ StopAllEnd(a)
    \/ \E w \in Writer : WriteStep(w)

Spec == Init /\ [][Next]_vars

\* Go schedules every runnable goroutine, timers fire, a killed process exits,
\* resolve returns (its context is cancelled or its HTTP client times out), and
\* a sync.Mutex does not starve a waiter: strong fairness for the two writeMu
\* acquisitions.  Nobody has to call Start, StopChannel or Stop or send a write,
\* and ffmpeg need not exit unless it is killed.
GenFairness(g) ==
    /\ WF_vars(Resolve(g)) /\ WF_vars(Launch(g)) /\ WF_vars(Reap(g))
    /\ WF_vars(ProcessExit(g) /\ proc[g] = "killed")
    /\ WF_vars(FinishMark(g)) /\ SF_vars(FinishLock(g)) /\ WF_vars(FinishClear(g))
    /\ WF_vars(FinishUnregister(g)) /\ WF_vars(FinishUnlock(g))
    /\ WF_vars(FinishClose(g))

StopFairness(t) ==
    WF_vars(/\ spc[t] # "idle"
            /\ \/ \E c \in Channel : StopUnknown(t, c) \/ StopLookup(t, c)
               \/ DoneSeen(t) \/ TimeOut(t) \/ Interrupt(t) \/ Kill(t)
               \/ KillSeen(t) \/ GiveUp(t))

WriteFairness(w) ==
    /\ SF_vars(WriteLock(w))
    /\ WF_vars(WriteCapture(w) \/ WriteValidate(w) \/ WriteCommit(w) \/ WriteUnlock(w))

FairSpec ==
    /\ Spec
    /\ \A g \in Gen : GenFairness(g)
    /\ \A t \in StopThread : StopFairness(t)
    /\ \A a \in StopAll : WF_vars(StopAllEnd(a))
    /\ \A w \in Writer : WriteFairness(w)

-----------------------------------------------------------------------------
(* Safety.                                                                 *)

\* A channel's live store never holds an object of any generation but the one
\* registered for the channel: no late PUT of an old ffmpeg survives its stop or
\* shows up in the stream that replaces it (stream.go:447-474, 416-440).
OnlyTheOwnerIsServed == \A c \in Channel : live[c] \subseteq {slot[c]} \ {None}

Running(g) == proc[g] \in {"alive", "killed"}

\* A running ffmpeg belongs to the registered manager of its channel, so a channel
\* never has two of them and none is beyond the reach of StopChannel.
ProcessIsRegistered == \A g \in Gen : Running(g) => slot[chan[g]] = g

\* A StopChannel that found no command to signal (stream.go:363, 390) is never
\* waiting for a process: the Start it raced with does not launch one any more.
UnsignalledStartHasNoProcess ==
    \A t \in StopThread : spc[t] = "awaitStart" => ~Running(target[t])

\* When StopChannel returns nil the manager it looked up is gone: unregistered,
\* its process dead, its objects wiped.
NilMeansReleased ==
    \A t \in StopThread : result[t] = "nil" /\ target[t] # None =>
        LET m == target[t] IN
        slot[chan[m]] # m /\ ~Running(m) /\ m \notin live[chan[m]]

Initiating == {"awaitStart", "signal", "awaitInt", "kill", "awaitKill", "giveUp"}

\* stopInProgress of a registered manager is held by exactly one StopChannel call
\* (stream.go:360-386): two calls never signal one process, and after a failed stop
\* the next call initiates again instead of waiting for nobody.
StopFlagIsHeld ==
    \A g \in Gen :
        LET holders == {t \in StopThread : target[t] = g /\ spc[t] \in Initiating} IN
        /\ \A t1, t2 \in holders : t1 = t2
        /\ chan[g] # None /\ slot[chan[g]] = g =>
               (stopInProgress[g] <=> holders # {})

\* A Stop whose every StopChannel returned nil leaves no stream behind: none was
\* missed by the snapshot and none was started while it waited (stream.go:222, 313).
StopLeavesNothing ==
    [][\A a \in StopAll :
         /\ a \in stops /\ a \notin stops'
         /\ \A c \in forked[a] : result[<<a, c>>] = "nil"
         => \A c \in Channel : slot[c] = None]_vars

-----------------------------------------------------------------------------
(* Liveness, under FairSpec.                                               *)

\* Every StopChannel call returns, whatever ffmpeg does and whoever else is
\* stopping the channel: each wait has a timer.
StopReturns == \A t \in StopThread : spc[t] # "idle" ~> spc[t] = "idle"

\* An ended ffmpeg frees its channel even under a stream of its own late writes.
ExitFreesTheChannel == \A g \in Gen : proc[g] = "exited" ~> done[g]

\* A start that is told to stop before its ffmpeg runs always winds up.
CancelledStartEnds ==
    \A g \in Gen : state[g] = "stopping" /\ proc[g] = "none" ~> done[g]

-----------------------------------------------------------------------------
(* The registry implements LiveSlot.                                       *)

Slot == INSTANCE LiveSlot WITH
    tenant  <- slot,
    closed  <- {c \in Channel : slot[c] # None /\ gpc[slot[c]] = "unregister"},
    used    <- {g \in Gen : gpc[g] # "new"},
    content <- live

\* Every step of the registry is a step of LiveSlot or changes nothing it shows.
ImplementsLiveSlot == Slot!Spec
=============================================================================
