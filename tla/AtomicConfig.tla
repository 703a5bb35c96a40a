---------------------------- MODULE AtomicConfig ----------------------------
(***************************************************************************)
(* What the configuration promises to those who read and change it: one    *)
(* value, without a database, a memory and a mutex.  A call looks at it    *)
(* and changes it in one step, or is refused and changes nothing.  A crash *)
(* loses the calls under way, of which one may have been made.             *)
(***************************************************************************)
EXTENDS ConfigData

CONSTANT Thread

VARIABLES
    conf,       \* the configuration that readers see
    call        \* the change that a thread has asked for and that is not decided

vars == <<conf, call>>

Calls == [kind : Kind, on : SUBSET (Channel \cup Vod), vods : Record]

Init ==
    /\ conf = Empty
    /\ call = [t \in Thread |-> None]

Ask(t) ==
    /\ call[t] = None
    /\ \E o \in Calls : call' = [call EXCEPT ![t] = o]
    /\ UNCHANGED conf

\* A part of an import or of an update that has become pointless is left out.
Narrow(t) ==
    /\ call[t] # None
    /\ call' = [call EXCEPT ![t].on = Wanted(conf, call[t])]
    /\ UNCHANGED conf

\* The call can be made on the configuration as it is, as a whole.
Apt(t) ==
    /\ call[t] # None
    /\ Valid(conf, call[t])
    /\ Wanted(conf, call[t]) = call[t].on

Make(t) ==
    /\ Apt(t)
    /\ conf' = Changed(conf, call[t])
    /\ call' = [call EXCEPT ![t] = None]

Refuse(t) ==
    /\ call[t] # None
    /\ call' = [call EXCEPT ![t] = None]
    /\ UNCHANGED conf

Crash ==
    /\ \/ UNCHANGED conf
       \/ \E t \in Thread : Apt(t) /\ conf' = Changed(conf, call[t])
    /\ call' = [t \in Thread |-> None]

Next ==
    \/ \E t \in Thread : Narrow(t) \/ Make(t) \/ Refuse(t)
    \/ Crash
    \/ \E t \in Thread : Ask(t)

Spec == Init /\ [][Next]_vars
=============================================================================
