------------------------ MODULE StreamRegistryProofs ------------------------
(***************************************************************************)
(* Safety of StreamRegistry for any channels, generations, callers and     *)
(* requests, by one inductive invariant.                                   *)
(***************************************************************************)
EXTENDS StreamRegistry, TLAPS

-----------------------------------------------------------------------------
(* The inductive invariant.                                                *)

Holding == {"resolving", "launching", "waiting", "finish", "lock", "clear", "unregister"}
Locking == {"validate", "commit", "unlock"}

\* The managers map and the goroutines agree on who holds a channel.
SlotInv ==
    /\ \A c \in Channel : slot[c] # None =>
           gpc[slot[c]] \in Holding /\ chan[slot[c]] = c
    /\ \A g \in Gen :
           /\ gpc[g] # "new" => chan[g] \in Channel
           /\ gpc[g] \in Holding => slot[chan[g]] = g
           /\ gpc[g] # "lockIdle"

\* What the state, command, process and done of a manager say of its goroutine.
LifeInv ==
    \A g \in Gen :
        /\ Running(g) => gpc[g] = "waiting" /\ cmd[g]
        /\ state[g] = "running" => gpc[g] \in {"waiting", "finish"}
        /\ done[g] => gpc[g] = "ended"

\* writeMu excludes: its holder is the finisher or the one request that locked it.
LockInv ==
    /\ \A g \in Gen :
           /\ writeMu[g] \in {None, g} \cup Writer
           /\ writeMu[g] = g <=> gpc[g] \in {"clear", "unregister", "unlock"}
    /\ \A w \in Writer : wpc[w] \in Locking => writeMu[captured[w]] = w

\* A validated request commits for a manager that has not begun to clear.
CommitInv ==
    \A w \in Writer :
        /\ wpc[w] # "idle" => token[w] \in Gen /\ gpc[token[w]] # "new"
        /\ wpc[w] = "commit" =>
               captured[w] = token[w] /\ gpc[token[w]] \in {"waiting", "finish", "lock"}

\* The store shows the owner's objects only, and none once it has been cleared.
StoreInv ==
    /\ OnlyTheOwnerIsServed
    /\ \A g \in Gen : gpc[g] = "unregister" => live[chan[g]] = {}

\* What a StopChannel call knows of the manager it looked up.
StopInv ==
    \A t \in StopThread :
        /\ spc[t] \notin {"idle", "call"} => target[t] \in Gen /\ gpc[target[t]] # "new"
        /\ spc[t] = "awaitStart" =>
               state[target[t]] = "stopping" /\ ~Running(target[t])
        /\ result[t] = "nil" /\ target[t] # None => done[target[t]]

\* stopInProgress is held by one initiating call as long as the manager can still
\* be looked up.
FlagInv ==
    /\ \A g \in Gen :
           /\ gpc[g] = "new" => ~stopInProgress[g]
           /\ stopInProgress[g] /\ gpc[g] \in Holding =>
                  \E t \in StopThread : target[t] = g /\ spc[t] \in Initiating
    /\ \A t \in StopThread : spc[t] \in Initiating => stopInProgress[target[t]]
    /\ \A t1, t2 \in StopThread :
           /\ spc[t1] \in Initiating /\ spc[t2] \in Initiating
           /\ target[t1] = target[t2]
           => t1 = t2

\* While a Stop is under way every registered channel is in its snapshot, and a fork
\* that returned nil has seen its channel without a manager.
ForkInv ==
    /\ \A a \in stops, c \in Channel : slot[c] # None => c \in forked[a]
    /\ \A a \in StopAll, c \in Channel :
           /\ spc[<<a, c>>] # "idle" => a \in stops /\ c \in forked[a]
           /\ spc[<<a, c>>] \notin {"idle", "call"} =>
                  chan[target[<<a, c>>]] = c /\ slot[c] \in {None, target[<<a, c>>]}
           /\ /\ a \in stops /\ c \in forked[a]
              /\ spc[<<a, c>>] = "idle" /\ result[<<a, c>>] = "nil"
              => slot[c] = None

IInv ==
    /\ TypeOK /\ SlotInv /\ LifeInv /\ LockInv /\ CommitInv /\ StoreInv /\ StopInv
    /\ FlagInv /\ ForkInv


-----------------------------------------------------------------------------
(* Each part of the invariant is kept by every step. *)

LEMMA TypeStep == IInv /\ [Next]_vars => TypeOK'
<1> SUFFICES ASSUME TypeOK, SlotInv, CommitInv, [Next]_vars PROVE TypeOK'
  BY DEF IInv
<1>1. ASSUME NEW g \in Gen, NEW c \in Channel, Register(g, c) PROVE TypeOK'
  BY <1>1 DEF Register, GoGen, stopVars, allVars, writeVars, GenPc, TypeOK
<1>2. ASSUME NEW g \in Gen, Resolve(g) PROVE TypeOK'
  BY <1>2 DEF Resolve, GoGen, stopVars, allVars, writeVars, GenPc, TypeOK
<1>3. ASSUME NEW g \in Gen, Launch(g) PROVE TypeOK'
  <2>1. CASE /\ gpc' = [gpc EXCEPT ![g] = "finish"]
             /\ UNCHANGED <<cmd, proc, state>>
    BY <1>3, <2>1 DEF Launch, TypeOK, GenPc, stopVars, allVars, writeVars
  <2>2. CASE /\ gpc' = [gpc EXCEPT ![g] = "waiting"]
             /\ cmd' = [cmd EXCEPT ![g] = TRUE]
             /\ proc' = [proc EXCEPT ![g] = "alive"]
             /\ state' = [state EXCEPT ![g] = "running"]
    BY <1>3, <2>2 DEF Launch, TypeOK, GenPc, State, Proc, stopVars, allVars,
         writeVars
  <2>3. QED
    BY <1>3, <2>1, <2>2 DEF Launch, GoGen
<1>4. ASSUME NEW g \in Gen, ProcessExit(g) PROVE TypeOK'
  BY <1>4 DEF ProcessExit, GoGen, stopVars, allVars, writeVars, Proc, TypeOK
<1>5. ASSUME NEW g \in Gen, Reap(g) PROVE TypeOK'
  BY <1>5 DEF Reap, GoGen, stopVars, allVars, writeVars, GenPc, TypeOK
<1>6. ASSUME NEW g \in Gen, FinishMark(g) PROVE TypeOK'
  BY <1>6 DEF FinishMark, GoGen, stopVars, allVars, writeVars, State, GenPc, TypeOK
<1>7. ASSUME NEW g \in Gen, FinishLock(g) PROVE TypeOK'
  BY <1>7 DEF FinishLock, GoGen, stopVars, allVars, writeVars, GenPc, TypeOK
<1>8. ASSUME NEW g \in Gen, FinishClear(g) PROVE TypeOK'
  BY <1>8 DEF FinishClear, GoGen, stopVars, allVars, writeVars, GenPc, TypeOK
<1>9. ASSUME NEW g \in Gen, FinishUnregister(g) PROVE TypeOK'
  BY <1>9 DEF FinishUnregister, GoGen, stopVars, allVars, writeVars, GenPc, TypeOK
<1>10. ASSUME NEW g \in Gen, FinishUnlock(g) PROVE TypeOK'
  BY <1>10 DEF FinishUnlock, GoGen, stopVars, allVars, writeVars, GenPc, TypeOK
<1>11. ASSUME NEW g \in Gen, FinishClose(g) PROVE TypeOK'
  BY <1>11 DEF FinishClose, GoGen, stopVars, allVars, writeVars, GenPc, TypeOK
<1>12. ASSUME NEW t \in StopThread, NEW c \in Channel, StopUnknown(t, c) PROVE
     TypeOK'
  BY <1>12 DEF StopUnknown, Calls, Return, GoStop, mgrVars, allVars, writeVars,
       StopPc, TypeOK
<1>13. ASSUME NEW t \in StopThread, NEW c \in Channel, StopLookup(t, c) PROVE
     TypeOK'
  BY <1>13 DEF StopLookup, Calls, GoStop, allVars, writeVars, State, StopPc, TypeOK
<1>14. ASSUME NEW t \in StopThread, DoneSeen(t) PROVE TypeOK'
  BY <1>14 DEF DoneSeen, Return, GoStop, mgrVars, allVars, writeVars, StopPc, TypeOK
<1>15. ASSUME NEW t \in StopThread, TimeOut(t) PROVE TypeOK'
  BY <1>15 DEF TimeOut, Return, GoStop, mgrVars, allVars, writeVars, StopPc, TypeOK
<1>16. ASSUME NEW t \in StopThread, Interrupt(t) PROVE TypeOK'
  BY <1>16 DEF Interrupt, GoStop, mgrVars, allVars, writeVars, StopPc, TypeOK
<1>17. ASSUME NEW t \in StopThread, Kill(t) PROVE TypeOK'
  BY <1>17 DEF Kill, GoStop, allVars, writeVars, Proc, StopPc, TypeOK
<1>18. ASSUME NEW t \in StopThread, KillSeen(t) PROVE TypeOK'
  BY <1>18 DEF KillSeen, GoStop, mgrVars, allVars, writeVars, StopPc, TypeOK
<1>19. ASSUME NEW t \in StopThread, GiveUp(t) PROVE TypeOK'
  BY <1>19 DEF GiveUp, Return, GoStop, allVars, writeVars, StopPc, TypeOK
<1>20. ASSUME NEW a \in StopAll, StopAllBegin(a) PROVE TypeOK'
  BY <1>20 DEF StopAllBegin, mgrVars, writeVars, StopPc, TypeOK
<1>21. ASSUME NEW a \in StopAll, StopAllEnd(a) PROVE TypeOK'
  BY <1>21 DEF StopAllEnd, mgrVars, stopVars, writeVars, TypeOK
<1>22. ASSUME NEW w \in Writer, NEW g \in Gen, WriteArrive(w, g) PROVE TypeOK'
  BY <1>22 DEF WriteArrive, GoWrite, CurrentWriter, mgrVars, stopVars, allVars,
       WritePc, TypeOK
<1>23. ASSUME NEW w \in Writer, WriteCapture(w) PROVE TypeOK'
  <2>0. wpc[w] = "body" /\ chan[token[w]] \in Channel
    BY <1>23 DEF WriteCapture, GoWrite, CommitInv, SlotInv
  <2>1. CASE /\ wpc' = [wpc EXCEPT ![w] = "lock"]
             /\ slot[chan[token[w]]] # None
             /\ captured' = [captured EXCEPT ![w] = slot[chan[token[w]]]]
             /\ UNCHANGED token
    BY <1>23, <2>0, <2>1 DEF WriteCapture, TypeOK, WritePc, mgrVars, stopVars,
         allVars
  <2>2. CASE /\ wpc' = [wpc EXCEPT ![w] = "idle"]
             /\ token' = [token EXCEPT ![w] = None]
             /\ UNCHANGED captured
    BY <1>23, <2>2 DEF WriteCapture, TypeOK, WritePc, mgrVars, stopVars, allVars
  <2>3. QED
    BY <1>23, <2>1, <2>2 DEF WriteCapture, GoWrite
<1>24. ASSUME NEW w \in Writer, WriteLock(w) PROVE TypeOK'
  BY <1>24 DEF WriteLock, GoWrite, mgrVars, stopVars, allVars, WritePc, TypeOK
<1>25. ASSUME NEW w \in Writer, WriteValidate(w) PROVE TypeOK'
  BY <1>25 DEF WriteValidate, GoWrite, CurrentWriter, mgrVars, stopVars, allVars,
       WritePc, TypeOK
<1>26. ASSUME NEW w \in Writer, WriteCommit(w) PROVE TypeOK'
  <2>1. PICK kept \in SUBSET live[chan[token[w]]], new \in SUBSET {token[w]} :
          live' = [live EXCEPT ![chan[token[w]]] = kept \cup new]
    BY <1>26 DEF WriteCommit
  <2>2. wpc[w] = "commit" /\ wpc' = [wpc EXCEPT ![w] = "unlock"]
    BY <1>26 DEF WriteCommit, GoWrite
  <2>3. live' \in [Channel -> SUBSET Gen]
    BY <2>1, <2>2 DEF TypeOK, CommitInv
  <2>4. QED
    BY <1>26, <2>2, <2>3 DEF WriteCommit, TypeOK, WritePc, mgrVars, stopVars,
         allVars
<1>27. ASSUME NEW w \in Writer, WriteUnlock(w) PROVE TypeOK'
  BY <1>27 DEF WriteUnlock, GoWrite, mgrVars, stopVars, allVars, WritePc, TypeOK
<1>28. CASE UNCHANGED vars
  BY <1>28 DEF TypeOK, vars, mgrVars, stopVars, allVars, writeVars
<1>29. QED
  BY <1>1, <1>2, <1>3, <1>4, <1>5, <1>6, <1>7, <1>8, <1>9, <1>10, <1>11, <1>12,
       <1>13, <1>14, <1>15, <1>16, <1>17, <1>18, <1>19, <1>20, <1>21, <1>22, <1>23,
       <1>24, <1>25, <1>26, <1>27, <1>28 DEF Next, GenStep, StopStep, WriteStep

LEMMA SlotStep == IInv /\ [Next]_vars => SlotInv'
<1> SUFFICES ASSUME TypeOK, SlotInv, [Next]_vars PROVE SlotInv'
  BY DEF IInv
<1>1. ASSUME NEW g \in Gen, NEW c \in Channel, Register(g, c) PROVE SlotInv'
  BY <1>1, NoneAssumption DEF Register, GoGen, stopVars, allVars, writeVars, TypeOK,
       SlotInv, Holding
<1>2. ASSUME NEW g \in Gen, Resolve(g) PROVE SlotInv'
  BY <1>2, NoneAssumption DEF Resolve, GoGen, stopVars, allVars, writeVars, TypeOK,
       SlotInv, Holding
<1>3. ASSUME NEW g \in Gen, Launch(g) PROVE SlotInv'
  BY <1>3, NoneAssumption DEF Launch, GoGen, Launchable, stopVars, allVars,
       writeVars, TypeOK, SlotInv, Holding
<1>4. ASSUME NEW g \in Gen, ProcessExit(g) PROVE SlotInv'
  BY <1>4, NoneAssumption DEF ProcessExit, GoGen, stopVars, allVars, writeVars,
       TypeOK, SlotInv, Holding
<1>5. ASSUME NEW g \in Gen, Reap(g) PROVE SlotInv'
  BY <1>5, NoneAssumption DEF Reap, GoGen, stopVars, allVars, writeVars, TypeOK,
       SlotInv, Holding
<1>6. ASSUME NEW g \in Gen, FinishMark(g) PROVE SlotInv'
  BY <1>6, NoneAssumption DEF FinishMark, GoGen, stopVars, allVars, writeVars,
       TypeOK, SlotInv, Holding
<1>7. ASSUME NEW g \in Gen, FinishLock(g) PROVE SlotInv'
  BY <1>7, NoneAssumption DEF FinishLock, GoGen, stopVars, allVars, writeVars,
       TypeOK, SlotInv, Holding
<1>8. ASSUME NEW g \in Gen, FinishClear(g) PROVE SlotInv'
  BY <1>8, NoneAssumption DEF FinishClear, GoGen, stopVars, allVars, writeVars,
       TypeOK, SlotInv, Holding
<1>9. ASSUME NEW g \in Gen, FinishUnregister(g) PROVE SlotInv'
  BY <1>9, NoneAssumption DEF FinishUnregister, GoGen, stopVars, allVars, writeVars,
       TypeOK, SlotInv, Holding
<1>10. ASSUME NEW g \in Gen, FinishUnlock(g) PROVE SlotInv'
  BY <1>10, NoneAssumption DEF FinishUnlock, GoGen, stopVars, allVars, writeVars,
       TypeOK, SlotInv, Holding
<1>11. ASSUME NEW g \in Gen, FinishClose(g) PROVE SlotInv'
  BY <1>11, NoneAssumption DEF FinishClose, GoGen, stopVars, allVars, writeVars,
       TypeOK, SlotInv, Holding
<1>12. ASSUME NEW t \in StopThread, NEW c \in Channel, StopUnknown(t, c) PROVE
     SlotInv'
  BY <1>12, NoneAssumption DEF StopUnknown, Calls, Return, GoStop, mgrVars, allVars,
       writeVars, TypeOK, SlotInv, Holding
<1>13. ASSUME NEW t \in StopThread, NEW c \in Channel, StopLookup(t, c) PROVE
     SlotInv'
  BY <1>13, NoneAssumption DEF StopLookup, Calls, GoStop, allVars, writeVars,
       TypeOK, SlotInv, Holding
<1>14. ASSUME NEW t \in StopThread, DoneSeen(t) PROVE SlotInv'
  BY <1>14, NoneAssumption DEF DoneSeen, Return, GoStop, mgrVars, allVars,
       writeVars, TypeOK, SlotInv, Holding
<1>15. ASSUME NEW t \in StopThread, TimeOut(t) PROVE SlotInv'
  BY <1>15, NoneAssumption DEF TimeOut, Return, GoStop, mgrVars, allVars, writeVars,
       TypeOK, SlotInv, Holding
<1>16. ASSUME NEW t \in StopThread, Interrupt(t) PROVE SlotInv'
  BY <1>16, NoneAssumption DEF Interrupt, GoStop, mgrVars, allVars, writeVars,
       TypeOK, SlotInv, Holding
<1>17. ASSUME NEW t \in StopThread, Kill(t) PROVE SlotInv'
  BY <1>17, NoneAssumption DEF Kill, GoStop, allVars, writeVars, TypeOK, SlotInv,
       Holding
<1>18. ASSUME NEW t \in StopThread, KillSeen(t) PROVE SlotInv'
  BY <1>18, NoneAssumption DEF KillSeen, GoStop, mgrVars, allVars, writeVars,
       TypeOK, SlotInv, Holding
<1>19. ASSUME NEW t \in StopThread, GiveUp(t) PROVE SlotInv'
  BY <1>19, NoneAssumption DEF GiveUp, Return, GoStop, allVars, writeVars, TypeOK,
       SlotInv, Holding
<1>20. ASSUME NEW a \in StopAll, StopAllBegin(a) PROVE SlotInv'
  BY <1>20, NoneAssumption DEF StopAllBegin, mgrVars, writeVars, TypeOK, SlotInv,
       Holding
<1>21. ASSUME NEW a \in StopAll, StopAllEnd(a) PROVE SlotInv'
  BY <1>21, NoneAssumption DEF StopAllEnd, mgrVars, stopVars, writeVars, TypeOK,
       SlotInv, Holding
<1>22. ASSUME NEW w \in Writer, NEW g \in Gen, WriteArrive(w, g) PROVE SlotInv'
  BY <1>22, NoneAssumption DEF WriteArrive, GoWrite, CurrentWriter, mgrVars,
       stopVars, allVars, TypeOK, SlotInv, Holding
<1>23. ASSUME NEW w \in Writer, WriteCapture(w) PROVE SlotInv'
  BY <1>23, NoneAssumption DEF WriteCapture, GoWrite, mgrVars, stopVars, allVars,
       TypeOK, SlotInv, Holding
<1>24. ASSUME NEW w \in Writer, WriteLock(w) PROVE SlotInv'
  BY <1>24, NoneAssumption DEF WriteLock, GoWrite, mgrVars, stopVars, allVars,
       TypeOK, SlotInv, Holding
<1>25. ASSUME NEW w \in Writer, WriteValidate(w) PROVE SlotInv'
  BY <1>25, NoneAssumption DEF WriteValidate, GoWrite, CurrentWriter, mgrVars,
       stopVars, allVars, TypeOK, SlotInv, Holding
<1>26. ASSUME NEW w \in Writer, WriteCommit(w) PROVE SlotInv'
  BY <1>26, NoneAssumption DEF WriteCommit, GoWrite, mgrVars, stopVars, allVars,
       TypeOK, SlotInv, Holding
<1>27. ASSUME NEW w \in Writer, WriteUnlock(w) PROVE SlotInv'
  BY <1>27, NoneAssumption DEF WriteUnlock, GoWrite, mgrVars, stopVars, allVars,
       TypeOK, SlotInv, Holding
<1>28. CASE UNCHANGED vars
  BY <1>28, NoneAssumption DEF TypeOK, SlotInv, Holding, vars, mgrVars, stopVars,
       allVars, writeVars
<1>29. QED
  BY <1>1, <1>2, <1>3, <1>4, <1>5, <1>6, <1>7, <1>8, <1>9, <1>10, <1>11, <1>12,
       <1>13, <1>14, <1>15, <1>16, <1>17, <1>18, <1>19, <1>20, <1>21, <1>22, <1>23,
       <1>24, <1>25, <1>26, <1>27, <1>28 DEF Next, GenStep, StopStep, WriteStep

LEMMA LifeStep == IInv /\ [Next]_vars => LifeInv'
<1> SUFFICES ASSUME TypeOK, SlotInv, LifeInv, [Next]_vars PROVE LifeInv'
  BY DEF IInv
<1>1. ASSUME NEW g \in Gen, NEW c \in Channel, Register(g, c) PROVE LifeInv'
  BY <1>1 DEF Register, GoGen, stopVars, allVars, writeVars, TypeOK, SlotInv,
       LifeInv, Running, Holding
<1>2. ASSUME NEW g \in Gen, Resolve(g) PROVE LifeInv'
  BY <1>2 DEF Resolve, GoGen, stopVars, allVars, writeVars, TypeOK, SlotInv,
       LifeInv, Running, Holding
<1>3. ASSUME NEW g \in Gen, Launch(g) PROVE LifeInv'
  BY <1>3 DEF Launch, GoGen, Launchable, stopVars, allVars, writeVars, TypeOK,
       SlotInv, LifeInv, Running, Holding
<1>4. ASSUME NEW g \in Gen, ProcessExit(g) PROVE LifeInv'
  BY <1>4 DEF ProcessExit, GoGen, stopVars, allVars, writeVars, TypeOK, SlotInv,
       LifeInv, Running, Holding
<1>5. ASSUME NEW g \in Gen, Reap(g) PROVE LifeInv'
  BY <1>5 DEF Reap, GoGen, stopVars, allVars, writeVars, TypeOK, SlotInv, LifeInv,
       Running, Holding
<1>6. ASSUME NEW g \in Gen, FinishMark(g) PROVE LifeInv'
  BY <1>6 DEF FinishMark, GoGen, stopVars, allVars, writeVars, TypeOK, SlotInv,
       LifeInv, Running, Holding
<1>7. ASSUME NEW g \in Gen, FinishLock(g) PROVE LifeInv'
  BY <1>7 DEF FinishLock, GoGen, stopVars, allVars, writeVars, TypeOK, SlotInv,
       LifeInv, Running, Holding
<1>8. ASSUME NEW g \in Gen, FinishClear(g) PROVE LifeInv'
  BY <1>8 DEF FinishClear, GoGen, stopVars, allVars, writeVars, TypeOK, SlotInv,
       LifeInv, Running, Holding
<1>9. ASSUME NEW g \in Gen, FinishUnregister(g) PROVE LifeInv'
  BY <1>9 DEF FinishUnregister, GoGen, stopVars, allVars, writeVars, TypeOK,
       SlotInv, LifeInv, Running, Holding
<1>10. ASSUME NEW g \in Gen, FinishUnlock(g) PROVE LifeInv'
  BY <1>10 DEF FinishUnlock, GoGen, stopVars, allVars, writeVars, TypeOK, SlotInv,
       LifeInv, Running, Holding
<1>11. ASSUME NEW g \in Gen, FinishClose(g) PROVE LifeInv'
  BY <1>11 DEF FinishClose, GoGen, stopVars, allVars, writeVars, TypeOK, SlotInv,
       LifeInv, Running, Holding
<1>12. ASSUME NEW t \in StopThread, NEW c \in Channel, StopUnknown(t, c) PROVE
     LifeInv'
  BY <1>12 DEF StopUnknown, Calls, Return, GoStop, mgrVars, allVars, writeVars,
       TypeOK, SlotInv, LifeInv, Running, Holding
<1>13. ASSUME NEW t \in StopThread, NEW c \in Channel, StopLookup(t, c) PROVE
     LifeInv'
  BY <1>13 DEF StopLookup, Calls, GoStop, allVars, writeVars, TypeOK, SlotInv,
       LifeInv, Running, Holding
<1>14. ASSUME NEW t \in StopThread, DoneSeen(t) PROVE LifeInv'
  BY <1>14 DEF DoneSeen, Return, GoStop, mgrVars, allVars, writeVars, TypeOK,
       SlotInv, LifeInv, Running, Holding
<1>15. ASSUME NEW t \in StopThread, TimeOut(t) PROVE LifeInv'
  BY <1>15 DEF TimeOut, Return, GoStop, mgrVars, allVars, writeVars, TypeOK,
       SlotInv, LifeInv, Running, Holding
<1>16. ASSUME NEW t \in StopThread, Interrupt(t) PROVE LifeInv'
  BY <1>16 DEF Interrupt, GoStop, mgrVars, allVars, writeVars, TypeOK, SlotInv,
       LifeInv, Running, Holding
<1>17. ASSUME NEW t \in StopThread, Kill(t) PROVE LifeInv'
  BY <1>17 DEF Kill, GoStop, allVars, writeVars, TypeOK, SlotInv, LifeInv, Running,
       Holding
<1>18. ASSUME NEW t \in StopThread, KillSeen(t) PROVE LifeInv'
  BY <1>18 DEF KillSeen, GoStop, mgrVars, allVars, writeVars, TypeOK, SlotInv,
       LifeInv, Running, Holding
<1>19. ASSUME NEW t \in StopThread, GiveUp(t) PROVE LifeInv'
  BY <1>19 DEF GiveUp, Return, GoStop, allVars, writeVars, TypeOK, SlotInv, LifeInv,
       Running, Holding
<1>20. ASSUME NEW a \in StopAll, StopAllBegin(a) PROVE LifeInv'
  BY <1>20 DEF StopAllBegin, mgrVars, writeVars, TypeOK, SlotInv, LifeInv, Running,
       Holding
<1>21. ASSUME NEW a \in StopAll, StopAllEnd(a) PROVE LifeInv'
  BY <1>21 DEF StopAllEnd, mgrVars, stopVars, writeVars, TypeOK, SlotInv, LifeInv,
       Running, Holding
<1>22. ASSUME NEW w \in Writer, NEW g \in Gen, WriteArrive(w, g) PROVE LifeInv'
  BY <1>22 DEF WriteArrive, GoWrite, CurrentWriter, mgrVars, stopVars, allVars,
       TypeOK, SlotInv, LifeInv, Running, Holding
<1>23. ASSUME NEW w \in Writer, WriteCapture(w) PROVE LifeInv'
  BY <1>23 DEF WriteCapture, GoWrite, mgrVars, stopVars, allVars, TypeOK, SlotInv,
       LifeInv, Running, Holding
<1>24. ASSUME NEW w \in Writer, WriteLock(w) PROVE LifeInv'
  BY <1>24 DEF WriteLock, GoWrite, mgrVars, stopVars, allVars, TypeOK, SlotInv,
       LifeInv, Running, Holding
<1>25. ASSUME NEW w \in Writer, WriteValidate(w) PROVE LifeInv'
  BY <1>25 DEF WriteValidate, GoWrite, CurrentWriter, mgrVars, stopVars, allVars,
       TypeOK, SlotInv, LifeInv, Running, Holding
<1>26. ASSUME NEW w \in Writer, WriteCommit(w) PROVE LifeInv'
  BY <1>26 DEF WriteCommit, GoWrite, mgrVars, stopVars, allVars, TypeOK, SlotInv,
       LifeInv, Running, Holding
<1>27. ASSUME NEW w \in Writer, WriteUnlock(w) PROVE LifeInv'
  BY <1>27 DEF WriteUnlock, GoWrite, mgrVars, stopVars, allVars, TypeOK, SlotInv,
       LifeInv, Running, Holding
<1>28. CASE UNCHANGED vars
  BY <1>28 DEF TypeOK, SlotInv, LifeInv, Running, Holding, vars, mgrVars, stopVars,
       allVars, writeVars
<1>29. QED
  BY <1>1, <1>2, <1>3, <1>4, <1>5, <1>6, <1>7, <1>8, <1>9, <1>10, <1>11, <1>12,
       <1>13, <1>14, <1>15, <1>16, <1>17, <1>18, <1>19, <1>20, <1>21, <1>22, <1>23,
       <1>24, <1>25, <1>26, <1>27, <1>28 DEF Next, GenStep, StopStep, WriteStep

LEMMA LockStep == IInv /\ [Next]_vars => LockInv'
<1> SUFFICES ASSUME TypeOK, SlotInv, LockInv, [Next]_vars PROVE LockInv'
  BY DEF IInv
<1>1. ASSUME NEW g \in Gen, NEW c \in Channel, Register(g, c) PROVE LockInv'
  BY <1>1, NoneAssumption, WriterAssumption DEF Register, GoGen, stopVars, allVars,
       writeVars, TypeOK, LockInv, Locking
<1>2. ASSUME NEW g \in Gen, Resolve(g) PROVE LockInv'
  BY <1>2, NoneAssumption, WriterAssumption DEF Resolve, GoGen, stopVars, allVars,
       writeVars, TypeOK, LockInv, Locking
<1>3. ASSUME NEW g \in Gen, Launch(g) PROVE LockInv'
  BY <1>3, NoneAssumption, WriterAssumption DEF Launch, GoGen, Launchable, stopVars,
       allVars, writeVars, TypeOK, LockInv, Locking
<1>4. ASSUME NEW g \in Gen, ProcessExit(g) PROVE LockInv'
  BY <1>4, NoneAssumption, WriterAssumption DEF ProcessExit, GoGen, stopVars,
       allVars, writeVars, TypeOK, LockInv, Locking
<1>5. ASSUME NEW g \in Gen, Reap(g) PROVE LockInv'
  BY <1>5, NoneAssumption, WriterAssumption DEF Reap, GoGen, stopVars, allVars,
       writeVars, TypeOK, LockInv, Locking
<1>6. ASSUME NEW g \in Gen, FinishMark(g) PROVE LockInv'
  BY <1>6, NoneAssumption, WriterAssumption DEF FinishMark, GoGen, stopVars,
       allVars, writeVars, TypeOK, LockInv, Locking
<1>7. ASSUME NEW g \in Gen, FinishLock(g) PROVE LockInv'
  BY <1>7, NoneAssumption, WriterAssumption DEF FinishLock, GoGen, stopVars,
       allVars, writeVars, TypeOK, LockInv, Locking
<1>8. ASSUME NEW g \in Gen, FinishClear(g) PROVE LockInv'
  BY <1>8, NoneAssumption, WriterAssumption DEF FinishClear, GoGen, stopVars,
       allVars, writeVars, TypeOK, LockInv, Locking
<1>9. ASSUME NEW g \in Gen, FinishUnregister(g) PROVE LockInv'
  BY <1>9, NoneAssumption, WriterAssumption DEF FinishUnregister, GoGen, stopVars,
       allVars, writeVars, TypeOK, LockInv, Locking
<1>10. ASSUME NEW g \in Gen, FinishUnlock(g) PROVE LockInv'
  BY <1>10, NoneAssumption, WriterAssumption DEF FinishUnlock, GoGen, stopVars,
       allVars, writeVars, TypeOK, LockInv, Locking
<1>11. ASSUME NEW g \in Gen, FinishClose(g) PROVE LockInv'
  BY <1>11, NoneAssumption, WriterAssumption DEF FinishClose, GoGen, stopVars,
       allVars, writeVars, TypeOK, LockInv, Locking
<1>12. ASSUME NEW t \in StopThread, NEW c \in Channel, StopUnknown(t, c) PROVE
     LockInv'
  BY <1>12, NoneAssumption, WriterAssumption DEF StopUnknown, Calls, Return, GoStop,
       mgrVars, allVars, writeVars, TypeOK, LockInv, Locking
<1>13. ASSUME NEW t \in StopThread, NEW c \in Channel, StopLookup(t, c) PROVE
     LockInv'
  BY <1>13, NoneAssumption, WriterAssumption DEF StopLookup, Calls, GoStop, allVars,
       writeVars, TypeOK, LockInv, Locking
<1>14. ASSUME NEW t \in StopThread, DoneSeen(t) PROVE LockInv'
  BY <1>14, NoneAssumption, WriterAssumption DEF DoneSeen, Return, GoStop, mgrVars,
       allVars, writeVars, TypeOK, LockInv, Locking
<1>15. ASSUME NEW t \in StopThread, TimeOut(t) PROVE LockInv'
  BY <1>15, NoneAssumption, WriterAssumption DEF TimeOut, Return, GoStop, mgrVars,
       allVars, writeVars, TypeOK, LockInv, Locking
<1>16. ASSUME NEW t \in StopThread, Interrupt(t) PROVE LockInv'
  BY <1>16, NoneAssumption, WriterAssumption DEF Interrupt, GoStop, mgrVars,
       allVars, writeVars, TypeOK, LockInv, Locking
<1>17. ASSUME NEW t \in StopThread, Kill(t) PROVE LockInv'
  BY <1>17, NoneAssumption, WriterAssumption DEF Kill, GoStop, allVars, writeVars,
       TypeOK, LockInv, Locking
<1>18. ASSUME NEW t \in StopThread, KillSeen(t) PROVE LockInv'
  BY <1>18, NoneAssumption, WriterAssumption DEF KillSeen, GoStop, mgrVars, allVars,
       writeVars, TypeOK, LockInv, Locking
<1>19. ASSUME NEW t \in StopThread, GiveUp(t) PROVE LockInv'
  BY <1>19, NoneAssumption, WriterAssumption DEF GiveUp, Return, GoStop, allVars,
       writeVars, TypeOK, LockInv, Locking
<1>20. ASSUME NEW a \in StopAll, StopAllBegin(a) PROVE LockInv'
  BY <1>20, NoneAssumption, WriterAssumption DEF StopAllBegin, mgrVars, writeVars,
       TypeOK, LockInv, Locking
<1>21. ASSUME NEW a \in StopAll, StopAllEnd(a) PROVE LockInv'
  BY <1>21, NoneAssumption, WriterAssumption DEF StopAllEnd, mgrVars, stopVars,
       writeVars, TypeOK, LockInv, Locking
<1>22. ASSUME NEW w \in Writer, NEW g \in Gen, WriteArrive(w, g) PROVE LockInv'
  BY <1>22, NoneAssumption, WriterAssumption DEF WriteArrive, GoWrite,
       CurrentWriter, mgrVars, stopVars, allVars, TypeOK, LockInv, Locking
<1>23. ASSUME NEW w \in Writer, WriteCapture(w) PROVE LockInv'
  BY <1>23, NoneAssumption, WriterAssumption DEF WriteCapture, GoWrite, mgrVars,
       stopVars, allVars, TypeOK, LockInv, Locking
<1>24. ASSUME NEW w \in Writer, WriteLock(w) PROVE LockInv'
  BY <1>24, NoneAssumption, WriterAssumption DEF WriteLock, GoWrite, mgrVars,
       stopVars, allVars, TypeOK, LockInv, Locking
<1>25. ASSUME NEW w \in Writer, WriteValidate(w) PROVE LockInv'
  BY <1>25, NoneAssumption, WriterAssumption DEF WriteValidate, GoWrite,
       CurrentWriter, mgrVars, stopVars, allVars, TypeOK, LockInv, Locking
<1>26. ASSUME NEW w \in Writer, WriteCommit(w) PROVE LockInv'
  BY <1>26, NoneAssumption, WriterAssumption DEF WriteCommit, GoWrite, mgrVars,
       stopVars, allVars, TypeOK, LockInv, Locking
<1>27. ASSUME NEW w \in Writer, WriteUnlock(w) PROVE LockInv'
  BY <1>27, NoneAssumption, WriterAssumption DEF WriteUnlock, GoWrite, mgrVars,
       stopVars, allVars, TypeOK, LockInv, Locking
<1>28. CASE UNCHANGED vars
  BY <1>28, NoneAssumption, WriterAssumption DEF TypeOK, LockInv, Locking, vars,
       mgrVars, stopVars, allVars, writeVars
<1>29. QED
  BY <1>1, <1>2, <1>3, <1>4, <1>5, <1>6, <1>7, <1>8, <1>9, <1>10, <1>11, <1>12,
       <1>13, <1>14, <1>15, <1>16, <1>17, <1>18, <1>19, <1>20, <1>21, <1>22, <1>23,
       <1>24, <1>25, <1>26, <1>27, <1>28 DEF Next, GenStep, StopStep, WriteStep

LEMMA CommitStep == IInv /\ [Next]_vars => CommitInv'
<1> SUFFICES ASSUME TypeOK, SlotInv, LifeInv, LockInv, CommitInv, [Next]_vars PROVE CommitInv'
  BY DEF IInv
<1>1. ASSUME NEW g \in Gen, NEW c \in Channel, Register(g, c) PROVE CommitInv'
  BY <1>1, NoneAssumption, WriterAssumption DEF Register, GoGen, stopVars, allVars,
       writeVars, TypeOK, SlotInv, LifeInv, LockInv, CommitInv, Locking, Holding
<1>2. ASSUME NEW g \in Gen, Resolve(g) PROVE CommitInv'
  BY <1>2, NoneAssumption, WriterAssumption DEF Resolve, GoGen, stopVars, allVars,
       writeVars, TypeOK, SlotInv, LifeInv, LockInv, CommitInv, Locking, Holding
<1>3. ASSUME NEW g \in Gen, Launch(g) PROVE CommitInv'
  BY <1>3, NoneAssumption, WriterAssumption DEF Launch, GoGen, Launchable, stopVars,
       allVars, writeVars, TypeOK, SlotInv, LifeInv, LockInv, CommitInv, Locking, Holding
<1>4. ASSUME NEW g \in Gen, ProcessExit(g) PROVE CommitInv'
  BY <1>4, NoneAssumption, WriterAssumption DEF ProcessExit, GoGen, stopVars,
       allVars, writeVars, TypeOK, SlotInv, LifeInv, LockInv, CommitInv, Locking, Holding
<1>5. ASSUME NEW g \in Gen, Reap(g) PROVE CommitInv'
  BY <1>5, NoneAssumption, WriterAssumption DEF Reap, GoGen, stopVars, allVars,
       writeVars, TypeOK, SlotInv, LifeInv, LockInv, CommitInv, Locking, Holding
<1>6. ASSUME NEW g \in Gen, FinishMark(g) PROVE CommitInv'
  BY <1>6, NoneAssumption, WriterAssumption DEF FinishMark, GoGen, stopVars,
       allVars, writeVars, TypeOK, SlotInv, LifeInv, LockInv, CommitInv, Locking, Holding
<1>7. ASSUME NEW g \in Gen, FinishLock(g) PROVE CommitInv'
  BY <1>7, NoneAssumption, WriterAssumption DEF FinishLock, GoGen, stopVars,
       allVars, writeVars, TypeOK, SlotInv, LifeInv, LockInv, CommitInv, Locking, Holding
<1>8. ASSUME NEW g \in Gen, FinishClear(g) PROVE CommitInv'
  BY <1>8, NoneAssumption, WriterAssumption DEF FinishClear, GoGen, stopVars,
       allVars, writeVars, TypeOK, SlotInv, LifeInv, LockInv, CommitInv, Locking, Holding
<1>9. ASSUME NEW g \in Gen, FinishUnregister(g) PROVE CommitInv'
  BY <1>9, NoneAssumption, WriterAssumption DEF FinishUnregister, GoGen, stopVars,
       allVars, writeVars, TypeOK, SlotInv, LifeInv, LockInv, CommitInv, Locking, Holding
<1>10. ASSUME NEW g \in Gen, FinishUnlock(g) PROVE CommitInv'
  BY <1>10, NoneAssumption, WriterAssumption DEF FinishUnlock, GoGen, stopVars,
       allVars, writeVars, TypeOK, SlotInv, LifeInv, LockInv, CommitInv, Locking, Holding
<1>11. ASSUME NEW g \in Gen, FinishClose(g) PROVE CommitInv'
  BY <1>11, NoneAssumption, WriterAssumption DEF FinishClose, GoGen, stopVars,
       allVars, writeVars, TypeOK, SlotInv, LifeInv, LockInv, CommitInv, Locking, Holding
<1>12. ASSUME NEW t \in StopThread, NEW c \in Channel, StopUnknown(t, c) PROVE
     CommitInv'
  BY <1>12, NoneAssumption, WriterAssumption DEF StopUnknown, Calls, Return, GoStop,
       mgrVars, allVars, writeVars, TypeOK, SlotInv, LifeInv, LockInv, CommitInv,
       Locking, Holding
<1>13. ASSUME NEW t \in StopThread, NEW c \in Channel, StopLookup(t, c) PROVE
     CommitInv'
  BY <1>13, NoneAssumption, WriterAssumption DEF StopLookup, Calls, GoStop, allVars,
       writeVars, TypeOK, SlotInv, LifeInv, LockInv, CommitInv, Locking, Holding
<1>14. ASSUME NEW t \in StopThread, DoneSeen(t) PROVE CommitInv'
  BY <1>14, NoneAssumption, WriterAssumption DEF DoneSeen, Return, GoStop, mgrVars,
       allVars, writeVars, TypeOK, SlotInv, LifeInv, LockInv, CommitInv, Locking, Holding
<1>15. ASSUME NEW t \in StopThread, TimeOut(t) PROVE CommitInv'
  BY <1>15, NoneAssumption, WriterAssumption DEF TimeOut, Return, GoStop, mgrVars,
       allVars, writeVars, TypeOK, SlotInv, LifeInv, LockInv, CommitInv, Locking, Holding
<1>16. ASSUME NEW t \in StopThread, Interrupt(t) PROVE CommitInv'
  BY <1>16, NoneAssumption, WriterAssumption DEF Interrupt, GoStop, mgrVars,
       allVars, writeVars, TypeOK, SlotInv, LifeInv, LockInv, CommitInv, Locking, Holding
<1>17. ASSUME NEW t \in StopThread, Kill(t) PROVE CommitInv'
  BY <1>17, NoneAssumption, WriterAssumption DEF Kill, GoStop, allVars, writeVars,
       TypeOK, SlotInv, LifeInv, LockInv, CommitInv, Locking, Holding
<1>18. ASSUME NEW t \in StopThread, KillSeen(t) PROVE CommitInv'
  BY <1>18, NoneAssumption, WriterAssumption DEF KillSeen, GoStop, mgrVars, allVars,
       writeVars, TypeOK, SlotInv, LifeInv, LockInv, CommitInv, Locking, Holding
<1>19. ASSUME NEW t \in StopThread, GiveUp(t) PROVE CommitInv'
  BY <1>19, NoneAssumption, WriterAssumption DEF GiveUp, Return, GoStop, allVars,
       writeVars, TypeOK, SlotInv, LifeInv, LockInv, CommitInv, Locking, Holding
<1>20. ASSUME NEW a \in StopAll, StopAllBegin(a) PROVE CommitInv'
  BY <1>20, NoneAssumption, WriterAssumption DEF StopAllBegin, mgrVars, writeVars,
       TypeOK, SlotInv, LifeInv, LockInv, CommitInv, Locking, Holding
<1>21. ASSUME NEW a \in StopAll, StopAllEnd(a) PROVE CommitInv'
  BY <1>21, NoneAssumption, WriterAssumption DEF StopAllEnd, mgrVars, stopVars,
       writeVars, TypeOK, SlotInv, LifeInv, LockInv, CommitInv, Locking, Holding
<1>22. ASSUME NEW w \in Writer, NEW g \in Gen, WriteArrive(w, g) PROVE CommitInv'
  BY <1>22, NoneAssumption, WriterAssumption DEF WriteArrive, GoWrite,
       CurrentWriter, mgrVars, stopVars, allVars, TypeOK, SlotInv, LifeInv, LockInv,
       CommitInv, Locking, Holding
<1>23. ASSUME NEW w \in Writer, WriteCapture(w) PROVE CommitInv'
  BY <1>23, NoneAssumption, WriterAssumption DEF WriteCapture, GoWrite, mgrVars,
       stopVars, allVars, TypeOK, SlotInv, LifeInv, LockInv, CommitInv, Locking, Holding
<1>24. ASSUME NEW w \in Writer, WriteLock(w) PROVE CommitInv'
  BY <1>24, NoneAssumption, WriterAssumption DEF WriteLock, GoWrite, mgrVars,
       stopVars, allVars, TypeOK, SlotInv, LifeInv, LockInv, CommitInv, Locking, Holding
<1>25. ASSUME NEW w \in Writer, WriteValidate(w) PROVE CommitInv'
  BY <1>25, NoneAssumption, WriterAssumption DEF WriteValidate, GoWrite,
       CurrentWriter, mgrVars, stopVars, allVars, TypeOK, SlotInv, LifeInv, LockInv,
       CommitInv, Locking, Holding
<1>26. ASSUME NEW w \in Writer, WriteCommit(w) PROVE CommitInv'
  BY <1>26, NoneAssumption, WriterAssumption DEF WriteCommit, GoWrite, mgrVars,
       stopVars, allVars, TypeOK, SlotInv, LifeInv, LockInv, CommitInv, Locking, Holding
<1>27. ASSUME NEW w \in Writer, WriteUnlock(w) PROVE CommitInv'
  BY <1>27, NoneAssumption, WriterAssumption DEF WriteUnlock, GoWrite, mgrVars,
       stopVars, allVars, TypeOK, SlotInv, LifeInv, LockInv, CommitInv, Locking, Holding
<1>28. CASE UNCHANGED vars
  BY <1>28, NoneAssumption, WriterAssumption DEF TypeOK, SlotInv, LifeInv, LockInv,
       CommitInv, Locking, Holding, vars, mgrVars, stopVars, allVars, writeVars
<1>29. QED
  BY <1>1, <1>2, <1>3, <1>4, <1>5, <1>6, <1>7, <1>8, <1>9, <1>10, <1>11, <1>12,
       <1>13, <1>14, <1>15, <1>16, <1>17, <1>18, <1>19, <1>20, <1>21, <1>22, <1>23,
       <1>24, <1>25, <1>26, <1>27, <1>28 DEF Next, GenStep, StopStep, WriteStep

LEMMA StoreStep == IInv /\ [Next]_vars => StoreInv'
<1> SUFFICES ASSUME TypeOK, SlotInv, CommitInv, StoreInv, [Next]_vars PROVE StoreInv'
  BY DEF IInv
<1>1. ASSUME NEW g \in Gen, NEW c \in Channel, Register(g, c) PROVE StoreInv'
  BY <1>1, NoneAssumption DEF Register, GoGen, stopVars, allVars, writeVars, TypeOK,
       SlotInv, CommitInv, StoreInv, OnlyTheOwnerIsServed, Holding
<1>2. ASSUME NEW g \in Gen, Resolve(g) PROVE StoreInv'
  BY <1>2, NoneAssumption DEF Resolve, GoGen, stopVars, allVars, writeVars, TypeOK,
       SlotInv, CommitInv, StoreInv, OnlyTheOwnerIsServed, Holding
<1>3. ASSUME NEW g \in Gen, Launch(g) PROVE StoreInv'
  BY <1>3, NoneAssumption DEF Launch, GoGen, Launchable, stopVars, allVars,
       writeVars, TypeOK, SlotInv, CommitInv, StoreInv, OnlyTheOwnerIsServed, Holding
<1>4. ASSUME NEW g \in Gen, ProcessExit(g) PROVE StoreInv'
  BY <1>4, NoneAssumption DEF ProcessExit, GoGen, stopVars, allVars, writeVars,
       TypeOK, SlotInv, CommitInv, StoreInv, OnlyTheOwnerIsServed, Holding
<1>5. ASSUME NEW g \in Gen, Reap(g) PROVE StoreInv'
  BY <1>5, NoneAssumption DEF Reap, GoGen, stopVars, allVars, writeVars, TypeOK,
       SlotInv, CommitInv, StoreInv, OnlyTheOwnerIsServed, Holding
<1>6. ASSUME NEW g \in Gen, FinishMark(g) PROVE StoreInv'
  BY <1>6, NoneAssumption DEF FinishMark, GoGen, stopVars, allVars, writeVars,
       TypeOK, SlotInv, CommitInv, StoreInv, OnlyTheOwnerIsServed, Holding
<1>7. ASSUME NEW g \in Gen, FinishLock(g) PROVE StoreInv'
  BY <1>7, NoneAssumption DEF FinishLock, GoGen, stopVars, allVars, writeVars,
       TypeOK, SlotInv, CommitInv, StoreInv, OnlyTheOwnerIsServed, Holding
<1>8. ASSUME NEW g \in Gen, FinishClear(g) PROVE StoreInv'
  BY <1>8, NoneAssumption DEF FinishClear, GoGen, stopVars, allVars, writeVars,
       TypeOK, SlotInv, CommitInv, StoreInv, OnlyTheOwnerIsServed, Holding
<1>9. ASSUME NEW g \in Gen, FinishUnregister(g) PROVE StoreInv'
  BY <1>9, NoneAssumption DEF FinishUnregister, GoGen, stopVars, allVars, writeVars,
       TypeOK, SlotInv, CommitInv, StoreInv, OnlyTheOwnerIsServed, Holding
<1>10. ASSUME NEW g \in Gen, FinishUnlock(g) PROVE StoreInv'
  BY <1>10, NoneAssumption DEF FinishUnlock, GoGen, stopVars, allVars, writeVars,
       TypeOK, SlotInv, CommitInv, StoreInv, OnlyTheOwnerIsServed, Holding
<1>11. ASSUME NEW g \in Gen, FinishClose(g) PROVE StoreInv'
  BY <1>11, NoneAssumption DEF FinishClose, GoGen, stopVars, allVars, writeVars,
       TypeOK, SlotInv, CommitInv, StoreInv, OnlyTheOwnerIsServed, Holding
<1>12. ASSUME NEW t \in StopThread, NEW c \in Channel, StopUnknown(t, c) PROVE
     StoreInv'
  BY <1>12, NoneAssumption DEF StopUnknown, Calls, Return, GoStop, mgrVars, allVars,
       writeVars, TypeOK, SlotInv, CommitInv, StoreInv, OnlyTheOwnerIsServed, Holding
<1>13. ASSUME NEW t \in StopThread, NEW c \in Channel, StopLookup(t, c) PROVE
     StoreInv'
  BY <1>13, NoneAssumption DEF StopLookup, Calls, GoStop, allVars, writeVars,
       TypeOK, SlotInv, CommitInv, StoreInv, OnlyTheOwnerIsServed, Holding
<1>14. ASSUME NEW t \in StopThread, DoneSeen(t) PROVE StoreInv'
  BY <1>14, NoneAssumption DEF DoneSeen, Return, GoStop, mgrVars, allVars,
       writeVars, TypeOK, SlotInv, CommitInv, StoreInv, OnlyTheOwnerIsServed, Holding
<1>15. ASSUME NEW t \in StopThread, TimeOut(t) PROVE StoreInv'
  BY <1>15, NoneAssumption DEF TimeOut, Return, GoStop, mgrVars, allVars, writeVars,
       TypeOK, SlotInv, CommitInv, StoreInv, OnlyTheOwnerIsServed, Holding
<1>16. ASSUME NEW t \in StopThread, Interrupt(t) PROVE StoreInv'
  BY <1>16, NoneAssumption DEF Interrupt, GoStop, mgrVars, allVars, writeVars,
       TypeOK, SlotInv, CommitInv, StoreInv, OnlyTheOwnerIsServed, Holding
<1>17. ASSUME NEW t \in StopThread, Kill(t) PROVE StoreInv'
  BY <1>17, NoneAssumption DEF Kill, GoStop, allVars, writeVars, TypeOK, SlotInv,
       CommitInv, StoreInv, OnlyTheOwnerIsServed, Holding
<1>18. ASSUME NEW t \in StopThread, KillSeen(t) PROVE StoreInv'
  BY <1>18, NoneAssumption DEF KillSeen, GoStop, mgrVars, allVars, writeVars,
       TypeOK, SlotInv, CommitInv, StoreInv, OnlyTheOwnerIsServed, Holding
<1>19. ASSUME NEW t \in StopThread, GiveUp(t) PROVE StoreInv'
  BY <1>19, NoneAssumption DEF GiveUp, Return, GoStop, allVars, writeVars, TypeOK,
       SlotInv, CommitInv, StoreInv, OnlyTheOwnerIsServed, Holding
<1>20. ASSUME NEW a \in StopAll, StopAllBegin(a) PROVE StoreInv'
  BY <1>20, NoneAssumption DEF StopAllBegin, mgrVars, writeVars, TypeOK, SlotInv,
       CommitInv, StoreInv, OnlyTheOwnerIsServed, Holding
<1>21. ASSUME NEW a \in StopAll, StopAllEnd(a) PROVE StoreInv'
  BY <1>21, NoneAssumption DEF StopAllEnd, mgrVars, stopVars, writeVars, TypeOK,
       SlotInv, CommitInv, StoreInv, OnlyTheOwnerIsServed, Holding
<1>22. ASSUME NEW w \in Writer, NEW g \in Gen, WriteArrive(w, g) PROVE StoreInv'
  BY <1>22, NoneAssumption DEF WriteArrive, GoWrite, CurrentWriter, mgrVars,
       stopVars, allVars, TypeOK, SlotInv, CommitInv, StoreInv, OnlyTheOwnerIsServed,
       Holding
<1>23. ASSUME NEW w \in Writer, WriteCapture(w) PROVE StoreInv'
  BY <1>23, NoneAssumption DEF WriteCapture, GoWrite, mgrVars, stopVars, allVars,
       TypeOK, SlotInv, CommitInv, StoreInv, OnlyTheOwnerIsServed, Holding
<1>24. ASSUME NEW w \in Writer, WriteLock(w) PROVE StoreInv'
  BY <1>24, NoneAssumption DEF WriteLock, GoWrite, mgrVars, stopVars, allVars,
       TypeOK, SlotInv, CommitInv, StoreInv, OnlyTheOwnerIsServed, Holding
<1>25. ASSUME NEW w \in Writer, WriteValidate(w) PROVE StoreInv'
  BY <1>25, NoneAssumption DEF WriteValidate, GoWrite, CurrentWriter, mgrVars,
       stopVars, allVars, TypeOK, SlotInv, CommitInv, StoreInv, OnlyTheOwnerIsServed,
       Holding
<1>26. ASSUME NEW w \in Writer, WriteCommit(w) PROVE StoreInv'
  BY <1>26, NoneAssumption DEF WriteCommit, GoWrite, mgrVars, stopVars, allVars,
       TypeOK, SlotInv, CommitInv, StoreInv, OnlyTheOwnerIsServed, Holding
<1>27. ASSUME NEW w \in Writer, WriteUnlock(w) PROVE StoreInv'
  BY <1>27, NoneAssumption DEF WriteUnlock, GoWrite, mgrVars, stopVars, allVars,
       TypeOK, SlotInv, CommitInv, StoreInv, OnlyTheOwnerIsServed, Holding
<1>28. CASE UNCHANGED vars
  BY <1>28, NoneAssumption DEF TypeOK, SlotInv, CommitInv, StoreInv,
       OnlyTheOwnerIsServed, Holding, vars, mgrVars, stopVars, allVars, writeVars
<1>29. QED
  BY <1>1, <1>2, <1>3, <1>4, <1>5, <1>6, <1>7, <1>8, <1>9, <1>10, <1>11, <1>12,
       <1>13, <1>14, <1>15, <1>16, <1>17, <1>18, <1>19, <1>20, <1>21, <1>22, <1>23,
       <1>24, <1>25, <1>26, <1>27, <1>28 DEF Next, GenStep, StopStep, WriteStep

LEMMA StopStepInv == IInv /\ [Next]_vars => StopInv'
<1> SUFFICES ASSUME TypeOK, SlotInv, LifeInv, StopInv, [Next]_vars PROVE StopInv'
  BY DEF IInv
<1>1. ASSUME NEW g \in Gen, NEW c \in Channel, Register(g, c) PROVE StopInv'
  BY <1>1, NoneAssumption DEF Register, GoGen, stopVars, allVars, writeVars, TypeOK,
       SlotInv, LifeInv, StopInv, Holding, Running
<1>2. ASSUME NEW g \in Gen, Resolve(g) PROVE StopInv'
  BY <1>2, NoneAssumption DEF Resolve, GoGen, stopVars, allVars, writeVars, TypeOK,
       SlotInv, LifeInv, StopInv, Holding, Running
<1>3. ASSUME NEW g \in Gen, Launch(g) PROVE StopInv'
  BY <1>3, NoneAssumption DEF Launch, GoGen, Launchable, stopVars, allVars,
       writeVars, TypeOK, SlotInv, LifeInv, StopInv, Holding, Running
<1>4. ASSUME NEW g \in Gen, ProcessExit(g) PROVE StopInv'
  BY <1>4, NoneAssumption DEF ProcessExit, GoGen, stopVars, allVars, writeVars,
       TypeOK, SlotInv, LifeInv, StopInv, Holding, Running
<1>5. ASSUME NEW g \in Gen, Reap(g) PROVE StopInv'
  BY <1>5, NoneAssumption DEF Reap, GoGen, stopVars, allVars, writeVars, TypeOK,
       SlotInv, LifeInv, StopInv, Holding, Running
<1>6. ASSUME NEW g \in Gen, FinishMark(g) PROVE StopInv'
  BY <1>6, NoneAssumption DEF FinishMark, GoGen, stopVars, allVars, writeVars,
       TypeOK, SlotInv, LifeInv, StopInv, Holding, Running
<1>7. ASSUME NEW g \in Gen, FinishLock(g) PROVE StopInv'
  BY <1>7, NoneAssumption DEF FinishLock, GoGen, stopVars, allVars, writeVars,
       TypeOK, SlotInv, LifeInv, StopInv, Holding, Running
<1>8. ASSUME NEW g \in Gen, FinishClear(g) PROVE StopInv'
  BY <1>8, NoneAssumption DEF FinishClear, GoGen, stopVars, allVars, writeVars,
       TypeOK, SlotInv, LifeInv, StopInv, Holding, Running
<1>9. ASSUME NEW g \in Gen, FinishUnregister(g) PROVE StopInv'
  BY <1>9, NoneAssumption DEF FinishUnregister, GoGen, stopVars, allVars, writeVars,
       TypeOK, SlotInv, LifeInv, StopInv, Holding, Running
<1>10. ASSUME NEW g \in Gen, FinishUnlock(g) PROVE StopInv'
  BY <1>10, NoneAssumption DEF FinishUnlock, GoGen, stopVars, allVars, writeVars,
       TypeOK, SlotInv, LifeInv, StopInv, Holding, Running
<1>11. ASSUME NEW g \in Gen, FinishClose(g) PROVE StopInv'
  BY <1>11, NoneAssumption DEF FinishClose, GoGen, stopVars, allVars, writeVars,
       TypeOK, SlotInv, LifeInv, StopInv, Holding, Running
<1>12. ASSUME NEW t \in StopThread, NEW c \in Channel, StopUnknown(t, c) PROVE
     StopInv'
  BY <1>12, NoneAssumption DEF StopUnknown, Calls, Return, GoStop, mgrVars, allVars,
       writeVars, TypeOK, SlotInv, LifeInv, StopInv, Holding, Running
<1>13. ASSUME NEW t \in StopThread, NEW c \in Channel, StopLookup(t, c) PROVE
     StopInv'
  BY <1>13, NoneAssumption DEF StopLookup, Calls, GoStop, allVars, writeVars,
       TypeOK, SlotInv, LifeInv, StopInv, Holding, Running
<1>14. ASSUME NEW t \in StopThread, DoneSeen(t) PROVE StopInv'
  BY <1>14, NoneAssumption DEF DoneSeen, Return, GoStop, mgrVars, allVars,
       writeVars, TypeOK, SlotInv, LifeInv, StopInv, Holding, Running
<1>15. ASSUME NEW t \in StopThread, TimeOut(t) PROVE StopInv'
  BY <1>15, NoneAssumption DEF TimeOut, Return, GoStop, mgrVars, allVars, writeVars,
       TypeOK, SlotInv, LifeInv, StopInv, Holding, Running
<1>16. ASSUME NEW t \in StopThread, Interrupt(t) PROVE StopInv'
  BY <1>16, NoneAssumption DEF Interrupt, GoStop, mgrVars, allVars, writeVars,
       TypeOK, SlotInv, LifeInv, StopInv, Holding, Running
<1>17. ASSUME NEW t \in StopThread, Kill(t) PROVE StopInv'
  BY <1>17, NoneAssumption DEF Kill, GoStop, allVars, writeVars, TypeOK, SlotInv,
       LifeInv, StopInv, Holding, Running
<1>18. ASSUME NEW t \in StopThread, KillSeen(t) PROVE StopInv'
  BY <1>18, NoneAssumption DEF KillSeen, GoStop, mgrVars, allVars, writeVars,
       TypeOK, SlotInv, LifeInv, StopInv, Holding, Running
<1>19. ASSUME NEW t \in StopThread, GiveUp(t) PROVE StopInv'
  BY <1>19, NoneAssumption DEF GiveUp, Return, GoStop, allVars, writeVars, TypeOK,
       SlotInv, LifeInv, StopInv, Holding, Running
<1>20. ASSUME NEW a \in StopAll, StopAllBegin(a) PROVE StopInv'
  BY <1>20, NoneAssumption DEF StopAllBegin, mgrVars, writeVars, TypeOK, SlotInv,
       LifeInv, StopInv, Holding, Running
<1>21. ASSUME NEW a \in StopAll, StopAllEnd(a) PROVE StopInv'
  BY <1>21, NoneAssumption DEF StopAllEnd, mgrVars, stopVars, writeVars, TypeOK,
       SlotInv, LifeInv, StopInv, Holding, Running
<1>22. ASSUME NEW w \in Writer, NEW g \in Gen, WriteArrive(w, g) PROVE StopInv'
  BY <1>22, NoneAssumption DEF WriteArrive, GoWrite, CurrentWriter, mgrVars,
       stopVars, allVars, TypeOK, SlotInv, LifeInv, StopInv, Holding, Running
<1>23. ASSUME NEW w \in Writer, WriteCapture(w) PROVE StopInv'
  BY <1>23, NoneAssumption DEF WriteCapture, GoWrite, mgrVars, stopVars, allVars,
       TypeOK, SlotInv, LifeInv, StopInv, Holding, Running
<1>24. ASSUME NEW w \in Writer, WriteLock(w) PROVE StopInv'
  BY <1>24, NoneAssumption DEF WriteLock, GoWrite, mgrVars, stopVars, allVars,
       TypeOK, SlotInv, LifeInv, StopInv, Holding, Running
<1>25. ASSUME NEW w \in Writer, WriteValidate(w) PROVE StopInv'
  BY <1>25, NoneAssumption DEF WriteValidate, GoWrite, CurrentWriter, mgrVars,
       stopVars, allVars, TypeOK, SlotInv, LifeInv, StopInv, Holding, Running
<1>26. ASSUME NEW w \in Writer, WriteCommit(w) PROVE StopInv'
  BY <1>26, NoneAssumption DEF WriteCommit, GoWrite, mgrVars, stopVars, allVars,
       TypeOK, SlotInv, LifeInv, StopInv, Holding, Running
<1>27. ASSUME NEW w \in Writer, WriteUnlock(w) PROVE StopInv'
  BY <1>27, NoneAssumption DEF WriteUnlock, GoWrite, mgrVars, stopVars, allVars,
       TypeOK, SlotInv, LifeInv, StopInv, Holding, Running
<1>28. CASE UNCHANGED vars
  BY <1>28, NoneAssumption DEF TypeOK, SlotInv, LifeInv, StopInv, Holding, Running,
       vars, mgrVars, stopVars, allVars, writeVars
<1>29. QED
  BY <1>1, <1>2, <1>3, <1>4, <1>5, <1>6, <1>7, <1>8, <1>9, <1>10, <1>11, <1>12,
       <1>13, <1>14, <1>15, <1>16, <1>17, <1>18, <1>19, <1>20, <1>21, <1>22, <1>23,
       <1>24, <1>25, <1>26, <1>27, <1>28 DEF Next, GenStep, StopStep, WriteStep

LEMMA FlagStep == IInv /\ [Next]_vars => FlagInv'
<1> SUFFICES ASSUME TypeOK, SlotInv, LifeInv, StopInv, FlagInv, ForkInv, [Next]_vars PROVE FlagInv'
  BY DEF IInv
<1>1. ASSUME NEW g \in Gen, NEW c \in Channel, Register(g, c) PROVE FlagInv'
  BY <1>1, NoneAssumption DEF Register, GoGen, stopVars, allVars, writeVars, TypeOK,
       SlotInv, LifeInv, StopInv, FlagInv, Initiating, Holding
<1>2. ASSUME NEW g \in Gen, Resolve(g) PROVE FlagInv'
  BY <1>2, NoneAssumption DEF Resolve, GoGen, stopVars, allVars, writeVars, TypeOK,
       SlotInv, LifeInv, StopInv, FlagInv, Initiating, Holding
<1>3. ASSUME NEW g \in Gen, Launch(g) PROVE FlagInv'
  BY <1>3, NoneAssumption DEF Launch, GoGen, Launchable, stopVars, allVars,
       writeVars, TypeOK, SlotInv, LifeInv, StopInv, FlagInv, Initiating, Holding
<1>4. ASSUME NEW g \in Gen, ProcessExit(g) PROVE FlagInv'
  BY <1>4, NoneAssumption DEF ProcessExit, GoGen, stopVars, allVars, writeVars,
       TypeOK, SlotInv, LifeInv, StopInv, FlagInv, Initiating, Holding
<1>5. ASSUME NEW g \in Gen, Reap(g) PROVE FlagInv'
  BY <1>5, NoneAssumption DEF Reap, GoGen, stopVars, allVars, writeVars, TypeOK,
       SlotInv, LifeInv, StopInv, FlagInv, Initiating, Holding
<1>6. ASSUME NEW g \in Gen, FinishMark(g) PROVE FlagInv'
  BY <1>6, NoneAssumption DEF FinishMark, GoGen, stopVars, allVars, writeVars,
       TypeOK, SlotInv, LifeInv, StopInv, FlagInv, Initiating, Holding
<1>7. ASSUME NEW g \in Gen, FinishLock(g) PROVE FlagInv'
  BY <1>7, NoneAssumption DEF FinishLock, GoGen, stopVars, allVars, writeVars,
       TypeOK, SlotInv, LifeInv, StopInv, FlagInv, Initiating, Holding
<1>8. ASSUME NEW g \in Gen, FinishClear(g) PROVE FlagInv'
  BY <1>8, NoneAssumption DEF FinishClear, GoGen, stopVars, allVars, writeVars,
       TypeOK, SlotInv, LifeInv, StopInv, FlagInv, Initiating, Holding
<1>9. ASSUME NEW g \in Gen, FinishUnregister(g) PROVE FlagInv'
  BY <1>9, NoneAssumption DEF FinishUnregister, GoGen, stopVars, allVars, writeVars,
       TypeOK, SlotInv, LifeInv, StopInv, FlagInv, Initiating, Holding
<1>10. ASSUME NEW g \in Gen, FinishUnlock(g) PROVE FlagInv'
  BY <1>10, NoneAssumption DEF FinishUnlock, GoGen, stopVars, allVars, writeVars,
       TypeOK, SlotInv, LifeInv, StopInv, FlagInv, Initiating, Holding
<1>11. ASSUME NEW g \in Gen, FinishClose(g) PROVE FlagInv'
  BY <1>11, NoneAssumption DEF FinishClose, GoGen, stopVars, allVars, writeVars,
       TypeOK, SlotInv, LifeInv, StopInv, FlagInv, Initiating, Holding
<1>12. ASSUME NEW t \in StopThread, NEW c \in Channel, StopUnknown(t, c) PROVE
     FlagInv'
  BY <1>12, NoneAssumption DEF StopUnknown, Calls, Return, GoStop, mgrVars, allVars,
       writeVars, TypeOK, SlotInv, LifeInv, StopInv, FlagInv, Initiating, Holding
<1>13. ASSUME NEW t \in StopThread, NEW c \in Channel, StopLookup(t, c) PROVE
     FlagInv'
  BY <1>13, NoneAssumption DEF StopLookup, Calls, GoStop, allVars, writeVars,
       TypeOK, SlotInv, LifeInv, StopInv, FlagInv, Initiating, Holding
<1>14. ASSUME NEW t \in StopThread, DoneSeen(t) PROVE FlagInv'
  BY <1>14, NoneAssumption DEF DoneSeen, Return, GoStop, mgrVars, allVars,
       writeVars, TypeOK, SlotInv, LifeInv, StopInv, FlagInv, Initiating, Holding
<1>15. ASSUME NEW t \in StopThread, TimeOut(t) PROVE FlagInv'
  BY <1>15, NoneAssumption DEF TimeOut, Return, GoStop, mgrVars, allVars, writeVars,
       TypeOK, SlotInv, LifeInv, StopInv, FlagInv, Initiating, Holding
<1>16. ASSUME NEW t \in StopThread, Interrupt(t) PROVE FlagInv'
  BY <1>16, NoneAssumption DEF Interrupt, GoStop, mgrVars, allVars, writeVars,
       TypeOK, SlotInv, LifeInv, StopInv, FlagInv, Initiating, Holding
<1>17. ASSUME NEW t \in StopThread, Kill(t) PROVE FlagInv'
  BY <1>17, NoneAssumption DEF Kill, GoStop, allVars, writeVars, TypeOK, SlotInv,
       LifeInv, StopInv, FlagInv, Initiating, Holding
<1>18. ASSUME NEW t \in StopThread, KillSeen(t) PROVE FlagInv'
  BY <1>18, NoneAssumption DEF KillSeen, GoStop, mgrVars, allVars, writeVars,
       TypeOK, SlotInv, LifeInv, StopInv, FlagInv, Initiating, Holding
<1>19. ASSUME NEW t \in StopThread, GiveUp(t) PROVE FlagInv'
  BY <1>19, NoneAssumption DEF GiveUp, Return, GoStop, allVars, writeVars, TypeOK,
       SlotInv, LifeInv, StopInv, FlagInv, Initiating, Holding
<1>20. ASSUME NEW a \in StopAll, StopAllBegin(a) PROVE FlagInv'
  <2>1. \A t \in StopThread : spc'[t] = spc[t] \/ (spc[t] = "idle" /\ spc'[t] =
       "call")
    <3> SUFFICES ASSUME NEW t \in StopThread
                 PROVE  spc'[t] = spc[t] \/ (spc[t] = "idle" /\ spc'[t] = "call")
      OBVIOUS
    <3>1. CASE \E c \in Channel : slot[c] # None /\ t = <<a, c>>
      <4>1. PICK c \in Channel : slot[c] # None /\ t = <<a, c>>
        BY <3>1
      <4>2. spc[t] = "idle"
        BY <1>20, <4>1 DEF StopAllBegin, ForkInv
      <4>3. spc'[t] = "call"
        BY <1>20, <4>1 DEF StopAllBegin
      <4>4. QED
        BY <4>2, <4>3
    <3>2. CASE ~ \E c \in Channel : slot[c] # None /\ t = <<a, c>>
      <4>1. ~ \E c \in {d \in Channel : slot[d] # None} : t = <<a, c>>
        BY <3>2
      <4>2. spc'[t] = IF \E c \in {d \in Channel : slot[d] # None} : t = <<a, c>>
                      THEN "call" ELSE spc[t]
        BY <1>20 DEF StopAllBegin
      <4>3. QED
        BY <4>1, <4>2
    <3>3. QED
      BY <3>1, <3>2
  <2>2. \A t \in StopThread : spc'[t] \in Initiating <=> spc[t] \in Initiating
    BY <2>1 DEF Initiating
  <2>3. QED
    BY <1>20, <2>2 DEF StopAllBegin, mgrVars, FlagInv
<1>21. ASSUME NEW a \in StopAll, StopAllEnd(a) PROVE FlagInv'
  BY <1>21, NoneAssumption DEF StopAllEnd, mgrVars, stopVars, writeVars, TypeOK,
       SlotInv, LifeInv, StopInv, FlagInv, Initiating, Holding
<1>22. ASSUME NEW w \in Writer, NEW g \in Gen, WriteArrive(w, g) PROVE FlagInv'
  BY <1>22, NoneAssumption DEF WriteArrive, GoWrite, CurrentWriter, mgrVars,
       stopVars, allVars, TypeOK, SlotInv, LifeInv, StopInv, FlagInv, Initiating, Holding
<1>23. ASSUME NEW w \in Writer, WriteCapture(w) PROVE FlagInv'
  BY <1>23, NoneAssumption DEF WriteCapture, GoWrite, mgrVars, stopVars, allVars,
       TypeOK, SlotInv, LifeInv, StopInv, FlagInv, Initiating, Holding
<1>24. ASSUME NEW w \in Writer, WriteLock(w) PROVE FlagInv'
  BY <1>24, NoneAssumption DEF WriteLock, GoWrite, mgrVars, stopVars, allVars,
       TypeOK, SlotInv, LifeInv, StopInv, FlagInv, Initiating, Holding
<1>25. ASSUME NEW w \in Writer, WriteValidate(w) PROVE FlagInv'
  BY <1>25, NoneAssumption DEF WriteValidate, GoWrite, CurrentWriter, mgrVars,
       stopVars, allVars, TypeOK, SlotInv, LifeInv, StopInv, FlagInv, Initiating, Holding
<1>26. ASSUME NEW w \in Writer, WriteCommit(w) PROVE FlagInv'
  BY <1>26, NoneAssumption DEF WriteCommit, GoWrite, mgrVars, stopVars, allVars,
       TypeOK, SlotInv, LifeInv, StopInv, FlagInv, Initiating, Holding
<1>27. ASSUME NEW w \in Writer, WriteUnlock(w) PROVE FlagInv'
  BY <1>27, NoneAssumption DEF WriteUnlock, GoWrite, mgrVars, stopVars, allVars,
       TypeOK, SlotInv, LifeInv, StopInv, FlagInv, Initiating, Holding
<1>28. CASE UNCHANGED vars
  BY <1>28, NoneAssumption DEF TypeOK, SlotInv, LifeInv, StopInv, FlagInv,
       Initiating, Holding, vars, mgrVars, stopVars, allVars, writeVars
<1>29. QED
  BY <1>1, <1>2, <1>3, <1>4, <1>5, <1>6, <1>7, <1>8, <1>9, <1>10, <1>11, <1>12,
       <1>13, <1>14, <1>15, <1>16, <1>17, <1>18, <1>19, <1>20, <1>21, <1>22, <1>23,
       <1>24, <1>25, <1>26, <1>27, <1>28 DEF Next, GenStep, StopStep, WriteStep

LEMMA ForkStep == IInv /\ [Next]_vars => ForkInv'
<1> SUFFICES ASSUME TypeOK, SlotInv, LifeInv, StopInv, ForkInv, [Next]_vars PROVE ForkInv'
  BY DEF IInv
<1>1. ASSUME NEW g \in Gen, NEW c \in Channel, Register(g, c) PROVE ForkInv'
  BY <1>1, NoneAssumption, ThreadAssumption DEF Register, GoGen, stopVars, allVars,
       writeVars, TypeOK, SlotInv, LifeInv, StopInv, ForkInv, Holding, StopThread
<1>2. ASSUME NEW g \in Gen, Resolve(g) PROVE ForkInv'
  BY <1>2, NoneAssumption, ThreadAssumption DEF Resolve, GoGen, stopVars, allVars,
       writeVars, TypeOK, SlotInv, LifeInv, StopInv, ForkInv, Holding, StopThread
<1>3. ASSUME NEW g \in Gen, Launch(g) PROVE ForkInv'
  BY <1>3, NoneAssumption, ThreadAssumption DEF Launch, GoGen, Launchable, stopVars,
       allVars, writeVars, TypeOK, SlotInv, LifeInv, StopInv, ForkInv, Holding,
       StopThread
<1>4. ASSUME NEW g \in Gen, ProcessExit(g) PROVE ForkInv'
  BY <1>4, NoneAssumption, ThreadAssumption DEF ProcessExit, GoGen, stopVars,
       allVars, writeVars, TypeOK, SlotInv, LifeInv, StopInv, ForkInv, Holding,
       StopThread
<1>5. ASSUME NEW g \in Gen, Reap(g) PROVE ForkInv'
  BY <1>5, NoneAssumption, ThreadAssumption DEF Reap, GoGen, stopVars, allVars,
       writeVars, TypeOK, SlotInv, LifeInv, StopInv, ForkInv, Holding, StopThread
<1>6. ASSUME NEW g \in Gen, FinishMark(g) PROVE ForkInv'
  BY <1>6, NoneAssumption, ThreadAssumption DEF FinishMark, GoGen, stopVars,
       allVars, writeVars, TypeOK, SlotInv, LifeInv, StopInv, ForkInv, Holding,
       StopThread
<1>7. ASSUME NEW g \in Gen, FinishLock(g) PROVE ForkInv'
  BY <1>7, NoneAssumption, ThreadAssumption DEF FinishLock, GoGen, stopVars,
       allVars, writeVars, TypeOK, SlotInv, LifeInv, StopInv, ForkInv, Holding,
       StopThread
<1>8. ASSUME NEW g \in Gen, FinishClear(g) PROVE ForkInv'
  BY <1>8, NoneAssumption, ThreadAssumption DEF FinishClear, GoGen, stopVars,
       allVars, writeVars, TypeOK, SlotInv, LifeInv, StopInv, ForkInv, Holding,
       StopThread
<1>9. ASSUME NEW g \in Gen, FinishUnregister(g) PROVE ForkInv'
  BY <1>9, NoneAssumption, ThreadAssumption DEF FinishUnregister, GoGen, stopVars,
       allVars, writeVars, TypeOK, SlotInv, LifeInv, StopInv, ForkInv, Holding,
       StopThread
<1>10. ASSUME NEW g \in Gen, FinishUnlock(g) PROVE ForkInv'
  BY <1>10, NoneAssumption, ThreadAssumption DEF FinishUnlock, GoGen, stopVars,
       allVars, writeVars, TypeOK, SlotInv, LifeInv, StopInv, ForkInv, Holding,
       StopThread
<1>11. ASSUME NEW g \in Gen, FinishClose(g) PROVE ForkInv'
  BY <1>11, NoneAssumption, ThreadAssumption DEF FinishClose, GoGen, stopVars,
       allVars, writeVars, TypeOK, SlotInv, LifeInv, StopInv, ForkInv, Holding,
       StopThread
<1>12. ASSUME NEW t \in StopThread, NEW c \in Channel, StopUnknown(t, c) PROVE
     ForkInv'
  BY <1>12, NoneAssumption, ThreadAssumption DEF StopUnknown, Calls, Return, GoStop,
       mgrVars, allVars, writeVars, TypeOK, SlotInv, LifeInv, StopInv, ForkInv, Holding,
       StopThread
<1>13. ASSUME NEW t \in StopThread, NEW c \in Channel, StopLookup(t, c) PROVE
     ForkInv'
  BY <1>13, NoneAssumption, ThreadAssumption DEF StopLookup, Calls, GoStop, allVars,
       writeVars, TypeOK, SlotInv, LifeInv, StopInv, ForkInv, Holding, StopThread
<1>14. ASSUME NEW t \in StopThread, DoneSeen(t) PROVE ForkInv'
  BY <1>14, NoneAssumption, ThreadAssumption DEF DoneSeen, Return, GoStop, mgrVars,
       allVars, writeVars, TypeOK, SlotInv, LifeInv, StopInv, ForkInv, Holding,
       StopThread
<1>15. ASSUME NEW t \in StopThread, TimeOut(t) PROVE ForkInv'
  BY <1>15, NoneAssumption, ThreadAssumption DEF TimeOut, Return, GoStop, mgrVars,
       allVars, writeVars, TypeOK, SlotInv, LifeInv, StopInv, ForkInv, Holding,
       StopThread
<1>16. ASSUME NEW t \in StopThread, Interrupt(t) PROVE ForkInv'
  BY <1>16, NoneAssumption, ThreadAssumption DEF Interrupt, GoStop, mgrVars,
       allVars, writeVars, TypeOK, SlotInv, LifeInv, StopInv, ForkInv, Holding,
       StopThread
<1>17. ASSUME NEW t \in StopThread, Kill(t) PROVE ForkInv'
  BY <1>17, NoneAssumption, ThreadAssumption DEF Kill, GoStop, allVars, writeVars,
       TypeOK, SlotInv, LifeInv, StopInv, ForkInv, Holding, StopThread
<1>18. ASSUME NEW t \in StopThread, KillSeen(t) PROVE ForkInv'
  <2>1. /\ spc[t] = "awaitKill" /\ spc' = [spc EXCEPT ![t] = "giveUp"]
        /\ UNCHANGED <<slot, chan, target, result, forked, stops>>
    BY <1>18 DEF KillSeen, GoStop, mgrVars, allVars
  <2>2. QED
    BY <2>1 DEF TypeOK, ForkInv
<1>19. ASSUME NEW t \in StopThread, GiveUp(t) PROVE ForkInv'
  BY <1>19, NoneAssumption, ThreadAssumption DEF GiveUp, Return, GoStop, allVars,
       writeVars, TypeOK, SlotInv, LifeInv, StopInv, ForkInv, Holding, StopThread
<1>20. ASSUME NEW a \in StopAll, StopAllBegin(a) PROVE ForkInv'
  BY <1>20, NoneAssumption, ThreadAssumption DEF StopAllBegin, mgrVars, writeVars,
       TypeOK, SlotInv, LifeInv, StopInv, ForkInv, Holding, StopThread
<1>21. ASSUME NEW a \in StopAll, StopAllEnd(a) PROVE ForkInv'
  BY <1>21, NoneAssumption, ThreadAssumption DEF StopAllEnd, mgrVars, stopVars,
       writeVars, TypeOK, SlotInv, LifeInv, StopInv, ForkInv, Holding, StopThread
<1>22. ASSUME NEW w \in Writer, NEW g \in Gen, WriteArrive(w, g) PROVE ForkInv'
  BY <1>22, NoneAssumption, ThreadAssumption DEF WriteArrive, GoWrite,
       CurrentWriter, mgrVars, stopVars, allVars, TypeOK, SlotInv, LifeInv, StopInv,
       ForkInv, Holding, StopThread
<1>23. ASSUME NEW w \in Writer, WriteCapture(w) PROVE ForkInv'
  BY <1>23, NoneAssumption, ThreadAssumption DEF WriteCapture, GoWrite, mgrVars,
       stopVars, allVars, TypeOK, SlotInv, LifeInv, StopInv, ForkInv, Holding, StopThread
<1>24. ASSUME NEW w \in Writer, WriteLock(w) PROVE ForkInv'
  BY <1>24, NoneAssumption, ThreadAssumption DEF WriteLock, GoWrite, mgrVars,
       stopVars, allVars, TypeOK, SlotInv, LifeInv, StopInv, ForkInv, Holding, StopThread
<1>25. ASSUME NEW w \in Writer, WriteValidate(w) PROVE ForkInv'
  BY <1>25, NoneAssumption, ThreadAssumption DEF WriteValidate, GoWrite,
       CurrentWriter, mgrVars, stopVars, allVars, TypeOK, SlotInv, LifeInv, StopInv,
       ForkInv, Holding, StopThread
<1>26. ASSUME NEW w \in Writer, WriteCommit(w) PROVE ForkInv'
  BY <1>26, NoneAssumption, ThreadAssumption DEF WriteCommit, GoWrite, mgrVars,
       stopVars, allVars, TypeOK, SlotInv, LifeInv, StopInv, ForkInv, Holding, StopThread
<1>27. ASSUME NEW w \in Writer, WriteUnlock(w) PROVE ForkInv'
  BY <1>27, NoneAssumption, ThreadAssumption DEF WriteUnlock, GoWrite, mgrVars,
       stopVars, allVars, TypeOK, SlotInv, LifeInv, StopInv, ForkInv, Holding, StopThread
<1>28. CASE UNCHANGED vars
  BY <1>28, NoneAssumption, ThreadAssumption DEF TypeOK, SlotInv, LifeInv, StopInv,
       ForkInv, Holding, StopThread, vars, mgrVars, stopVars, allVars, writeVars
<1>29. QED
  BY <1>1, <1>2, <1>3, <1>4, <1>5, <1>6, <1>7, <1>8, <1>9, <1>10, <1>11, <1>12,
       <1>13, <1>14, <1>15, <1>16, <1>17, <1>18, <1>19, <1>20, <1>21, <1>22, <1>23,
       <1>24, <1>25, <1>26, <1>27, <1>28 DEF Next, GenStep, StopStep, WriteStep

LEMMA InitInv == Init => IInv
<1> SUFFICES ASSUME Init PROVE IInv
  OBVIOUS
<1>1. TypeOK
  BY DEF Init, TypeOK, State, Proc, GenPc, StopPc, WritePc
<1>2. SlotInv /\ LifeInv /\ LockInv /\ CommitInv
  BY NoneAssumption DEF Init, SlotInv, LifeInv, LockInv, CommitInv, Holding, Locking, Running
<1>3. StoreInv /\ StopInv /\ FlagInv
  BY DEF Init, StoreInv, OnlyTheOwnerIsServed, StopInv, FlagInv, Initiating
<1>4. ForkInv
  BY DEF Init, ForkInv, StopThread
<1>5. QED
  BY <1>1, <1>2, <1>3, <1>4 DEF IInv

\* The invariant holds in every reachable state.
THEOREM Invariance == Spec => []IInv
<1>1. IInv /\ [Next]_vars => IInv'
  BY TypeStep, SlotStep, LifeStep, LockStep, CommitStep, StoreStep, StopStepInv,
     FlagStep, ForkStep DEF IInv
<1>2. QED
  BY <1>1, InitInv, PTL DEF Spec

-----------------------------------------------------------------------------
(* What follows from the invariant.                                        *)

\* Type correctness.
THEOREM TypeCorrect == Spec => []TypeOK
<1>1. IInv => TypeOK
  BY DEF IInv
<1>2. QED
  BY <1>1, Invariance, PTL

\* A live store holds objects of the channel's registered generation only, however
\* many stops, restarts and late writes race.
THEOREM OwnerOnly == Spec => []OnlyTheOwnerIsServed
<1>1. IInv => OnlyTheOwnerIsServed
  BY DEF IInv, StoreInv
<1>2. QED
  BY <1>1, Invariance, PTL

\* Every running ffmpeg is the registered one of its channel: one at most per channel.
THEOREM OneProcess == Spec => []ProcessIsRegistered
<1>1. IInv => ProcessIsRegistered
  BY DEF IInv, LifeInv, SlotInv, Holding, ProcessIsRegistered
<1>2. QED
  BY <1>1, Invariance, PTL

\* A StopChannel that had no command to signal never waits for a running process.
THEOREM NoLateLaunch == Spec => []UnsignalledStartHasNoProcess
<1>1. IInv => UnsignalledStartHasNoProcess
  BY DEF IInv, StopInv, UnsignalledStartHasNoProcess
<1>2. QED
  BY <1>1, Invariance, PTL

\* A StopChannel that returned nil has released the channel of what it looked up.
THEOREM NilReleases == Spec => []NilMeansReleased
<1>1. ASSUME IInv, NEW t \in StopThread, result[t] = "nil", target[t] # None
      PROVE  LET m == target[t] IN
             slot[chan[m]] # m /\ ~Running(m) /\ m \notin live[chan[m]]
  <2> DEFINE m == target[t]
  <2>1. m \in Gen /\ gpc[m] = "ended"
    BY <1>1 DEF IInv, TypeOK, StopInv, LifeInv
  <2>2. chan[m] \in Channel
    BY <1>1, <2>1 DEF IInv, SlotInv
  <2>3. slot[chan[m]] # m
    BY <1>1, <2>1, <2>2, NoneAssumption DEF IInv, SlotInv, Holding
  <2>4. ~Running(m)
    BY <1>1, <2>1 DEF IInv, LifeInv
  <2>5. m \notin live[chan[m]]
    BY <1>1, <2>2, <2>3 DEF IInv, StoreInv, OnlyTheOwnerIsServed
  <2>6. QED
    BY <2>3, <2>4, <2>5
<1>2. IInv => NilMeansReleased
  BY <1>1 DEF NilMeansReleased
<1>3. QED
  BY <1>2, Invariance, PTL

\* stopInProgress of a registered manager has exactly one holder.
THEOREM FlagHeld == Spec => []StopFlagIsHeld
<1>1. ASSUME IInv, NEW g \in Gen
      PROVE  LET holders == {t \in StopThread : target[t] = g /\ spc[t] \in Initiating}
             IN  /\ \A t1, t2 \in holders : t1 = t2
                 /\ chan[g] # None /\ slot[chan[g]] = g =>
                        (stopInProgress[g] <=> holders # {})
  <2>1. \A t1, t2 \in {t \in StopThread : target[t] = g /\ spc[t] \in Initiating} : t1 = t2
    BY <1>1 DEF IInv, FlagInv
  <2>2. ASSUME chan[g] # None, slot[chan[g]] = g
        PROVE  gpc[g] \in Holding
    BY <1>1, <2>2, NoneAssumption DEF IInv, TypeOK, SlotInv
  <2>3. ASSUME chan[g] # None, slot[chan[g]] = g
        PROVE  stopInProgress[g]
               <=> \E t \in StopThread : target[t] = g /\ spc[t] \in Initiating
    BY <1>1, <2>2, <2>3 DEF IInv, FlagInv
  <2>4. QED
    BY <2>1, <2>3
<1>2. IInv => StopFlagIsHeld
  BY <1>1 DEF StopFlagIsHeld
<1>3. QED
  BY <1>2, Invariance, PTL

\* A Stop whose StopChannel calls all returned nil ends with no channel registered.
THEOREM StopIsComplete == Spec => StopLeavesNothing
<1> DEFINE Complete ==
      \A a \in StopAll :
         /\ a \in stops /\ a \notin stops'
         /\ \A c \in forked[a] : result[<<a, c>>] = "nil"
         => \A c \in Channel : slot[c] = None
<1>1. IInv /\ [Next]_vars => [Complete]_vars
  <2> SUFFICES ASSUME IInv, Next, NEW a \in StopAll, a \in stops, a \notin stops',
                      \A c \in forked[a] : result[<<a, c>>] = "nil",
                      NEW c \in Channel
               PROVE  slot[c] = None
    OBVIOUS
  <2>1. StopAllEnd(a)
    BY DEF Next, GenStep, StopStep, WriteStep, Register, Resolve, Launch, ProcessExit,
       Reap, FinishMark, FinishLock, FinishClear, FinishUnregister, FinishUnlock,
       FinishClose, StopUnknown, StopLookup, DoneSeen, TimeOut, Interrupt, Kill, KillSeen,
       GiveUp, StopAllBegin, StopAllEnd, WriteArrive, WriteCapture, WriteLock,
       WriteValidate, WriteCommit, WriteUnlock, allVars
  <2>2. CASE c \in forked[a]
    BY <2>1, <2>2 DEF StopAllEnd, IInv, ForkInv
  <2>3. CASE c \notin forked[a]
    BY <2>3 DEF IInv, ForkInv
  <2>4. QED
    BY <2>2, <2>3
<1>2. QED
  BY <1>1, Invariance, PTL DEF Spec, StopLeavesNothing

-----------------------------------------------------------------------------
(* The registry implements LiveSlot: a registration moves a tenant in, a   *)
(* commit publishes, finishManager wipes and moves out; no other step can  *)
(* be seen.                                                                *)

LEMMA SlotNext == IInv /\ [Next]_vars => [Slot!Next]_(Slot!vars)
<1> SUFFICES ASSUME TypeOK, SlotInv, CommitInv, StoreInv, [Next]_vars
             PROVE  [Slot!Next]_(Slot!vars)
  BY DEF IInv
<1>1. ASSUME NEW g \in Gen, NEW c \in Channel, Register(g, c) PROVE
     [Slot!Next]_(Slot!vars)
  <2>1. Slot!MoveIn(g, c)
    BY <1>1, NoneAssumption DEF Register, GoGen, Slot!MoveIn, TypeOK, SlotInv,
         Holding
  <2>2. QED
    BY <2>1 DEF Slot!Next
<1>2. ASSUME NEW g \in Gen, Resolve(g) PROVE [Slot!Next]_(Slot!vars)
  BY <1>2, NoneAssumption DEF Resolve, GoGen, stopVars, allVars, writeVars,
       Slot!vars, TypeOK, SlotInv, Holding
<1>3. ASSUME NEW g \in Gen, Launch(g) PROVE [Slot!Next]_(Slot!vars)
  BY <1>3, NoneAssumption DEF Launch, GoGen, Launchable, stopVars, allVars,
       writeVars, Slot!vars, TypeOK, SlotInv, Holding
<1>4. ASSUME NEW g \in Gen, ProcessExit(g) PROVE [Slot!Next]_(Slot!vars)
  BY <1>4, NoneAssumption DEF ProcessExit, GoGen, stopVars, allVars, writeVars,
       Slot!vars, TypeOK, SlotInv, Holding
<1>5. ASSUME NEW g \in Gen, Reap(g) PROVE [Slot!Next]_(Slot!vars)
  BY <1>5, NoneAssumption DEF Reap, GoGen, stopVars, allVars, writeVars, Slot!vars,
       TypeOK, SlotInv, Holding
<1>6. ASSUME NEW g \in Gen, FinishMark(g) PROVE [Slot!Next]_(Slot!vars)
  BY <1>6, NoneAssumption DEF FinishMark, GoGen, stopVars, allVars, writeVars,
       Slot!vars, TypeOK, SlotInv, Holding
<1>7. ASSUME NEW g \in Gen, FinishLock(g) PROVE [Slot!Next]_(Slot!vars)
  BY <1>7, NoneAssumption DEF FinishLock, GoGen, stopVars, allVars, writeVars,
       Slot!vars, TypeOK, SlotInv, Holding
<1>8. ASSUME NEW g \in Gen, FinishClear(g) PROVE [Slot!Next]_(Slot!vars)
  <2>1. PICK c \in Channel : c = chan[g] /\ slot[c] = g
    BY <1>8 DEF FinishClear, GoGen, SlotInv, Holding
  <2>2. Slot!Wipe(c)
    BY <1>8, <2>1, NoneAssumption DEF FinishClear, GoGen, Slot!Wipe, TypeOK, SlotInv
  <2>3. QED
    BY <2>2 DEF Slot!Next
<1>9. ASSUME NEW g \in Gen, FinishUnregister(g) PROVE [Slot!Next]_(Slot!vars)
  <2>1. PICK c \in Channel : c = chan[g] /\ slot[c] = g
    BY <1>9 DEF FinishUnregister, GoGen, SlotInv, Holding
  <2>2. Slot!MoveOut(c)
    BY <1>9, <2>1, NoneAssumption DEF FinishUnregister, GoGen, Slot!MoveOut, TypeOK,
         SlotInv
  <2>3. QED
    BY <2>2 DEF Slot!Next
<1>10. ASSUME NEW g \in Gen, FinishUnlock(g) PROVE [Slot!Next]_(Slot!vars)
  BY <1>10, NoneAssumption DEF FinishUnlock, GoGen, stopVars, allVars, writeVars,
       Slot!vars, TypeOK, SlotInv, Holding
<1>11. ASSUME NEW g \in Gen, FinishClose(g) PROVE [Slot!Next]_(Slot!vars)
  BY <1>11, NoneAssumption DEF FinishClose, GoGen, stopVars, allVars, writeVars,
       Slot!vars, TypeOK, SlotInv, Holding
<1>12. ASSUME NEW t \in StopThread, NEW c \in Channel, StopUnknown(t, c) PROVE
     [Slot!Next]_(Slot!vars)
  BY <1>12, NoneAssumption DEF StopUnknown, Calls, Return, GoStop, mgrVars, allVars,
       writeVars, Slot!vars, TypeOK, SlotInv, Holding
<1>13. ASSUME NEW t \in StopThread, NEW c \in Channel, StopLookup(t, c) PROVE
     [Slot!Next]_(Slot!vars)
  BY <1>13, NoneAssumption DEF StopLookup, Calls, GoStop, allVars, writeVars,
       Slot!vars, TypeOK, SlotInv, Holding
<1>14. ASSUME NEW t \in StopThread, DoneSeen(t) PROVE [Slot!Next]_(Slot!vars)
  BY <1>14, NoneAssumption DEF DoneSeen, Return, GoStop, mgrVars, allVars,
       writeVars, Slot!vars, TypeOK, SlotInv, Holding
<1>15. ASSUME NEW t \in StopThread, TimeOut(t) PROVE [Slot!Next]_(Slot!vars)
  BY <1>15, NoneAssumption DEF TimeOut, Return, GoStop, mgrVars, allVars, writeVars,
       Slot!vars, TypeOK, SlotInv, Holding
<1>16. ASSUME NEW t \in StopThread, Interrupt(t) PROVE [Slot!Next]_(Slot!vars)
  BY <1>16, NoneAssumption DEF Interrupt, GoStop, mgrVars, allVars, writeVars,
       Slot!vars, TypeOK, SlotInv, Holding
<1>17. ASSUME NEW t \in StopThread, Kill(t) PROVE [Slot!Next]_(Slot!vars)
  BY <1>17, NoneAssumption DEF Kill, GoStop, allVars, writeVars, Slot!vars, TypeOK,
       SlotInv, Holding
<1>18. ASSUME NEW t \in StopThread, KillSeen(t) PROVE [Slot!Next]_(Slot!vars)
  BY <1>18, NoneAssumption DEF KillSeen, GoStop, mgrVars, allVars, writeVars,
       Slot!vars, TypeOK, SlotInv, Holding
<1>19. ASSUME NEW t \in StopThread, GiveUp(t) PROVE [Slot!Next]_(Slot!vars)
  BY <1>19, NoneAssumption DEF GiveUp, Return, GoStop, allVars, writeVars,
       Slot!vars, TypeOK, SlotInv, Holding
<1>20. ASSUME NEW a \in StopAll, StopAllBegin(a) PROVE [Slot!Next]_(Slot!vars)
  BY <1>20, NoneAssumption DEF StopAllBegin, mgrVars, writeVars, Slot!vars, TypeOK,
       SlotInv, Holding
<1>21. ASSUME NEW a \in StopAll, StopAllEnd(a) PROVE [Slot!Next]_(Slot!vars)
  BY <1>21, NoneAssumption DEF StopAllEnd, mgrVars, stopVars, writeVars, Slot!vars,
       TypeOK, SlotInv, Holding
<1>22. ASSUME NEW w \in Writer, NEW g \in Gen, WriteArrive(w, g) PROVE
     [Slot!Next]_(Slot!vars)
  BY <1>22, NoneAssumption DEF WriteArrive, GoWrite, CurrentWriter, mgrVars,
       stopVars, allVars, Slot!vars, TypeOK, SlotInv, Holding
<1>23. ASSUME NEW w \in Writer, WriteCapture(w) PROVE [Slot!Next]_(Slot!vars)
  BY <1>23, NoneAssumption DEF WriteCapture, GoWrite, mgrVars, stopVars, allVars,
       Slot!vars, TypeOK, SlotInv, Holding
<1>24. ASSUME NEW w \in Writer, WriteLock(w) PROVE [Slot!Next]_(Slot!vars)
  BY <1>24, NoneAssumption DEF WriteLock, GoWrite, mgrVars, stopVars, allVars,
       Slot!vars, TypeOK, SlotInv, Holding
<1>25. ASSUME NEW w \in Writer, WriteValidate(w) PROVE [Slot!Next]_(Slot!vars)
  BY <1>25, NoneAssumption DEF WriteValidate, GoWrite, CurrentWriter, mgrVars,
       stopVars, allVars, Slot!vars, TypeOK, SlotInv, Holding
<1>26. ASSUME NEW w \in Writer, WriteCommit(w) PROVE [Slot!Next]_(Slot!vars)
  <2>1. wpc[w] = "commit" /\ UNCHANGED <<slot, gpc>>
    BY <1>26 DEF WriteCommit, GoWrite, mgrVars
  <2> DEFINE c == chan[token[w]]
  <2>2. token[w] \in Gen /\ gpc[token[w]] \in {"waiting", "finish", "lock"}
    BY <2>1 DEF CommitInv
  <2>3. c \in Channel /\ slot[c] = token[w]
    BY <2>2 DEF SlotInv, Holding
  <2>4. PICK kept \in SUBSET live[c], new \in SUBSET {token[w]} :
          live' = [live EXCEPT ![c] = kept \cup new]
    BY <1>26 DEF WriteCommit
  <2>5. kept \cup new \in SUBSET {slot[c]}
    BY <2>3, <2>4 DEF StoreInv, OnlyTheOwnerIsServed
  <2>6. slot[c] # None /\ gpc[slot[c]] # "unregister"
    BY <2>2, <2>3, NoneAssumption
  <2>7. Slot!Publish(c)
    BY <2>1, <2>3, <2>4, <2>5, <2>6 DEF Slot!Publish
  <2>8. QED
    BY <2>3, <2>7 DEF Slot!Next
<1>27. ASSUME NEW w \in Writer, WriteUnlock(w) PROVE [Slot!Next]_(Slot!vars)
  BY <1>27, NoneAssumption DEF WriteUnlock, GoWrite, mgrVars, stopVars, allVars,
       Slot!vars, TypeOK, SlotInv, Holding
<1>28. CASE UNCHANGED vars
  BY <1>28, NoneAssumption DEF Slot!vars, TypeOK, SlotInv, Holding, vars, mgrVars,
       stopVars, allVars, writeVars
<1>29. QED
  BY <1>1, <1>2, <1>3, <1>4, <1>5, <1>6, <1>7, <1>8, <1>9, <1>10, <1>11, <1>12,
       <1>13, <1>14, <1>15, <1>16, <1>17, <1>18, <1>19, <1>20, <1>21, <1>22, <1>23,
       <1>24, <1>25, <1>26, <1>27, <1>28 DEF Next, GenStep, StopStep, WriteStep

\* Every behaviour of the registry is a behaviour of LiveSlot.
THEOREM Implements == Spec => ImplementsLiveSlot
<1>1. Init => Slot!Init
  BY DEF Init, Slot!Init
<1>2. QED
  BY <1>1, SlotNext, Invariance, PTL DEF Spec, ImplementsLiveSlot, Slot!Spec

=============================================================================
