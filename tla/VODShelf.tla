------------------------------ MODULE VODShelf ------------------------------
(***************************************************************************)
(* What the downloader promises of one VOD, without its locks, its stages  *)
(* and its cleanup: a shelf with at most one copy of the recording and, at *)
(* times, a spare one next to it.  One call at a time works on the shelf,  *)
(* or else somebody clears it.  Until its work is delivered, all at once,  *)
(* the copy stands as it was; the copy it replaces becomes the spare, and  *)
(* only a clearing ever brings a spare forth again.  A copy is taken away  *)
(* only while nobody works, the record of the VOD is forgotten only by a   *)
(* clearing.  A crash of the server loses the calls in hand and nothing    *)
(* that is on the shelf.                                                   *)
(***************************************************************************)
EXTENDS FiniteSets

CONSTANTS
    Op,         \* the calls that download or convert
    Source,     \* the downloads a copy can come from, Op among them
    None

VARIABLES
    copy,       \* the file that plays, or the one that is going to be put back
    spare,      \* an earlier copy that has not been removed yet
    turn,       \* what each call is doing
    clearing,   \* a removal or a prune has the shelf to itself
    saved       \* the VOD is in the list

vars == <<copy, spare, turn, clearing, saved>>

Version == [src : Source, original : BOOLEAN]

Init ==
    /\ copy \in Version \cup {None}
    /\ spare = None
    /\ turn = [o \in Op |-> "waiting"]
    /\ clearing = FALSE
    /\ saved = TRUE

Busy(o) == turn[o] \in {"working", "leaving"}

Free == \A o \in Op : ~Busy(o)

Turn(o, from, to) == turn[o] = from /\ turn' = [turn EXCEPT ![o] = to]

Take(o) ==
    /\ Turn(o, "waiting", "working")
    /\ Free /\ ~clearing
    /\ UNCHANGED <<copy, spare, clearing, saved>>

\* A download is put on the shelf under its own name, in any encoding.
Deliver(o) ==
    /\ Turn(o, "working", "leaving")
    /\ \E orig \in BOOLEAN : copy' = [src |-> o, original |-> orig]
    /\ spare' = copy
    /\ UNCHANGED <<clearing, saved>>

\* A conversion is another encoding of the recording that was there.
Convert(o) ==
    /\ Turn(o, "working", "leaving")
    /\ copy # None
    /\ copy' = [src |-> copy.src, original |-> FALSE]
    /\ spare' = copy
    /\ UNCHANGED <<clearing, saved>>

Fail(o) ==
    /\ Turn(o, "working", "leaving")
    /\ UNCHANGED <<copy, spare, clearing, saved>>

Leave(o) ==
    /\ Turn(o, "leaving", "over")
    /\ UNCHANGED <<copy, spare, clearing, saved>>

DropSpare ==
    /\ spare' = None
    /\ UNCHANGED <<copy, turn, clearing, saved>>

\* A deletion, a removal or an expiry.
Lose ==
    /\ Free
    /\ copy' = None /\ spare' = None
    /\ UNCHANGED <<turn, clearing, saved>>

BeginClear ==
    /\ Free
    /\ clearing' = TRUE
    /\ UNCHANGED <<copy, spare, turn, saved>>

\* A removal takes the copy before the spare, and can fail in between.
Uncover ==
    /\ clearing
    /\ copy' = spare /\ spare' = None
    /\ UNCHANGED <<turn, clearing, saved>>

Forget ==
    /\ clearing
    /\ saved' = FALSE /\ clearing' = FALSE
    /\ UNCHANGED <<copy, spare, turn>>

EndClear ==
    /\ clearing' = FALSE
    /\ UNCHANGED <<copy, spare, turn, saved>>

Save ==
    /\ saved' = TRUE
    /\ UNCHANGED <<copy, spare, turn, clearing>>

Crash ==
    /\ \E lost \in SUBSET Op :
           /\ \A o \in Op : Busy(o) => o \in lost
           /\ turn' = [o \in Op |-> IF o \in lost THEN "over" ELSE turn[o]]
    /\ clearing' = FALSE
    /\ UNCHANGED <<copy, spare, saved>>

Next ==
    \/ DropSpare \/ Lose \/ BeginClear \/ Uncover \/ Forget \/ EndClear \/ Save
    \/ \E o \in Op : Take(o) \/ Deliver(o) \/ Convert(o) \/ Fail(o) \/ Leave(o)
    \/ Crash

Spec == Init /\ [][Next]_vars
=============================================================================
