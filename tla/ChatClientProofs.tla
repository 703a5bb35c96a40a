-------------------------- MODULE ChatClientProofs --------------------------
(***************************************************************************)
(* The chat of the player page, for any channels, logins and panes, and    *)
(* any number of closed sockets that still have events.                    *)
(*                                                                         *)
(* The first part is about one client and what each method makes of it,    *)
(* the second about the page.                                              *)
(***************************************************************************)
EXTENDS ChatClient, TLAPS

Live(s) == s.st \in {"connecting", "open"}

\* A client between two methods: its socket is the only live one, and the timer of
\* its retry is pending.  There may be more timers, which it has forgotten.
Steady(c) ==
    /\ c \in Client
    /\ \A n \in Socket : Live(c.sock[n]) => c.socket = n
    /\ c.socket # 0 => Live(c.sock[c.socket])
    /\ c.retry => c.timers > 0

\* Nothing is under way that the client knows of.
Quiet(c) ==
    /\ c \in Client
    /\ c.socket = 0
    /\ ~c.retry
    /\ \A n \in Socket : ~Live(c.sock[n])

Open(c) == c.socket # 0 /\ c.sock[c.socket].st = "open"

\* A client between two events: connected or about to retry if it shall be.  After a
\* refusal it has no socket; it may retry if a RECONNECT followed in the frame, but
\* will not connect.
Settled(c) ==
    /\ Steady(c)
    /\ c.socket # 0 => ~c.retry /\ Wanted(c) /\ ~c.authFailed
    /\ c.retry => Wanted(c)
    /\ Wanted(c) /\ ~c.authFailed => c.socket # 0 \/ c.retry
    /\ Open(c) => c.sock[c.socket].room = c.channel

\* What the methods of the connection leave alone, the second without forgetting a
\* timer.
Same(c, d) ==
    /\ d.channel = c.channel
    /\ d.enabled = c.enabled
    /\ d.destroyed = c.destroyed
    /\ d.login = c.login

Alike(c, d) ==
    /\ d.channel = c.channel
    /\ d.enabled = c.enabled
    /\ d.destroyed = c.destroyed
    /\ d.login = c.login
    /\ d.authFailed = c.authFailed
    /\ Forgotten(d) = Forgotten(c)

SpareKept(c, d) == \A n \in Socket : c.sock[n].st = "gone" => d.sock[n].st = "gone"

Label == {"idle", "connecting", "connected", "reconnecting", "unavailable"}

-----------------------------------------------------------------------------
(* The client. *)

LEMMA QuietIsSteady == \A c : Quiet(c) => Steady(c)
  BY DEF Quiet, Steady

LEMMA AlikeIsSame == \A c, d : Alike(c, d) => Same(c, d)
  BY DEF Alike, Same

LEMMA ForgottenIsNat == \A c : Steady(c) => Forgotten(c) \in Nat
  BY DEF Steady, Client, Forgotten

\* What is forgotten depends on the timers only.
LEMMA SameTimers ==
    \A c, d : d.retry = c.retry /\ d.timers = c.timers => Forgotten(d) = Forgotten(c)
  BY DEF Forgotten

LEMMA QuietUnwanted ==
    ASSUME NEW c, Quiet(c), ~(Wanted(c) /\ ~c.authFailed)
    PROVE  Settled(c)
  BY QuietIsSteady DEF Quiet, Settled, Open

LEMMA ClosingIsASocketState == NoSocket \in SocketState /\ Closing \in SocketState
                               /\ ~Live(NoSocket) /\ ~Live(Closing)
                               /\ NoSocket.st = "gone" /\ Closing.st = "closing"
  BY DEF NoSocket, Closing, SocketState, Live

\* cancelSocket.
LEMMA SocketCancelled ==
    ASSUME NEW c, Steady(c)
    PROVE  LET d == CancelSocket(c) IN
           /\ Steady(d) /\ Alike(c, d) /\ SpareKept(c, d)
           /\ d.socket = 0 /\ d.retry = c.retry /\ d.timers = c.timers /\ d.state = c.state
<1> DEFINE d == CancelSocket(c)
<1>1. CASE c.socket = 0
  <2>1. d = c
    BY <1>1 DEF CancelSocket
  <2>2. QED
    BY <1>1, <2>1 DEF Alike, SpareKept
<1>2. CASE c.socket # 0
  <2>1. d = [c EXCEPT !.socket = 0, !.sock[c.socket] = Closing]
    BY <1>2 DEF CancelSocket
  <2>2. c.socket \in Socket /\ c.sock \in [Socket -> SocketState]
    BY <1>2 DEF Steady, Client
  <2>3. /\ d.socket = 0 /\ d.retry = c.retry /\ d.timers = c.timers /\ d.state = c.state
        /\ Alike(c, d)
        /\ d.sock = [c.sock EXCEPT ![c.socket] = Closing]
    BY <2>1, SameTimers DEF Steady, Client, Alike
  <2>4. d \in Client
    <3>1. c \in Client /\ [c.sock EXCEPT ![c.socket] = Closing] \in [Socket -> SocketState]
      BY <2>2, ClosingIsASocketState DEF Steady
    <3>2. QED
      BY <2>1, <3>1 DEF Client
  <2>5. \A n \in Socket : d.sock[n] = IF n = c.socket THEN Closing ELSE c.sock[n]
    BY <2>2, <2>3
  <2> HIDE DEF d
  <2>6. SpareKept(c, d)
    BY <1>2, <2>2, <2>5 DEF SpareKept, Steady, Live
  <2>7. \A n \in Socket : ~Live(d.sock[n])
    BY <2>5, ClosingIsASocketState DEF Steady
  <2>8. QED
    BY <2>3, <2>4, <2>6, <2>7 DEF Steady, d
<1>3. QED
  BY <1>1, <1>2

\* clearRetry.
LEMMA RetryCleared ==
    ASSUME NEW c, Steady(c)
    PROVE  LET d == ClearRetry(c) IN
           /\ Steady(d) /\ Alike(c, d) /\ SpareKept(c, d)
           /\ d.socket = c.socket /\ d.sock = c.sock
           /\ ~d.retry /\ d.state = c.state
<1> DEFINE d == ClearRetry(c)
<1>1. /\ d.socket = c.socket /\ d.sock = c.sock /\ d.state = c.state
      /\ d.retry = FALSE
      /\ d.timers = IF c.retry THEN c.timers - 1 ELSE c.timers
      /\ d.channel = c.channel /\ d.enabled = c.enabled /\ d.destroyed = c.destroyed
      /\ d.login = c.login /\ d.authFailed = c.authFailed
  BY DEF ClearRetry, Steady, Client
<1>2. (IF c.retry THEN c.timers - 1 ELSE c.timers) \in Nat
  BY DEF Steady, Client
<1>3. d \in Client
  <2> DEFINE t == IF c.retry THEN c.timers - 1 ELSE c.timers
  <2>1. c \in Client /\ t \in Nat
    BY <1>2 DEF Steady
  <2>2. ClearRetry(c) = [c EXCEPT !.retry = FALSE, !.timers = t]
    BY DEF ClearRetry
  <2> HIDE DEF t
  <2>3. [c EXCEPT !.retry = FALSE, !.timers = t] \in Client
    BY <2>1 DEF Client
  <2>4. QED
    BY <2>2, <2>3
<1>4. Forgotten(d) = Forgotten(c)
  <2>1. c.timers \in Nat /\ c.retry \in BOOLEAN
    BY DEF Steady, Client
  <2> HIDE DEF d
  <2>2. Forgotten(d) = d.timers - 0
    BY <1>1 DEF Forgotten
  <2>3. QED
    BY <1>1, <2>1, <2>2 DEF Forgotten
<1>5. QED
  BY <1>1, <1>3, <1>4 DEF Steady, SpareKept, Alike

\* cancelConnection.
LEMMA Cancelled ==
    ASSUME NEW c, Steady(c)
    PROVE  LET d == CancelConnection(c) IN
           Quiet(d) /\ Alike(c, d) /\ SpareKept(c, d) /\ d.state = c.state
<1> DEFINE e == ClearRetry(c)
           d == CancelSocket(e)
<1>1. Steady(e) /\ Alike(c, e) /\ SpareKept(c, e) /\ ~e.retry /\ e.state = c.state
  BY RetryCleared
<1>2. /\ Steady(d) /\ Alike(e, d) /\ SpareKept(e, d)
      /\ d.socket = 0 /\ d.retry = e.retry /\ d.state = e.state
  BY <1>1, SocketCancelled
<1>3. Quiet(d)
  BY <1>1, <1>2 DEF Quiet, Steady, Socket
<1>4. QED
  BY <1>1, <1>2, <1>3 DEF CancelConnection, Alike, SpareKept

\* Setting the retry of a client without a socket.
LEMMA RetrySet ==
    ASSUME NEW c, Steady(c), c.socket = 0, Wanted(c)
    PROVE  LET d == SetRetry(c) IN
           /\ Settled(d) /\ Same(c, d) /\ d.socket = 0 /\ SpareKept(c, d)
           /\ ~c.retry => Alike(c, d)
<1> DEFINE d == SetRetry(c)
<1>1. /\ d.socket = 0 /\ d.sock = c.sock /\ d.retry = TRUE /\ d.timers = c.timers + 1
      /\ Same(c, d) /\ d.authFailed = c.authFailed
  BY DEF SetRetry, Steady, Client, Same
<1>2. c \in Client /\ c.timers \in Nat
  BY DEF Steady, Client
<1>3. d \in Client
  <2>1. c.timers + 1 \in Nat
    BY <1>2
  <2>2. QED
    BY <1>2, <2>1 DEF SetRetry, Client
<1> HIDE DEF d
<1>4. ~c.retry => Alike(c, d)
  <2>1. ASSUME ~c.retry
        PROVE  Forgotten(d) = Forgotten(c)
    BY <1>1, <1>2, <2>1 DEF Forgotten
  <2>2. QED
    BY <1>1, <2>1 DEF Alike, Same
<1>5. Steady(d)
  BY <1>1, <1>2, <1>3 DEF Steady
<1>6. Settled(d) /\ SpareKept(c, d)
  BY <1>1, <1>5 DEF Settled, Open, Wanted, Same, SpareKept
<1>7. QED
  BY <1>1, <1>4, <1>6 DEF d

LEMMA Rescheduled ==
    ASSUME NEW c, Quiet(c)
    PROVE  LET d == ScheduleReconnect(c) IN
           Settled(d) /\ Alike(c, d) /\ d.socket = 0 /\ SpareKept(c, d)
<1>1. CASE Wanted(c) /\ ~c.authFailed
  <2>1. Steady(c) /\ c.socket = 0 /\ ~c.retry
    BY QuietIsSteady DEF Quiet
  <2>2. ScheduleReconnect(c) = SetRetry(c)
    BY <1>1, <2>1 DEF ScheduleReconnect, Wanted
  <2>3. QED
    BY <1>1, <2>1, <2>2, RetrySet
<1>2. CASE ~(Wanted(c) /\ ~c.authFailed)
  BY <1>2, QuietUnwanted DEF ScheduleReconnect, Wanted, Quiet, Alike, SpareKept
<1>3. QED
  BY <1>1, <1>2

LEMMA QuietStays ==
    ASSUME NEW c, Quiet(c)
    PROVE  CancelSocket(ClearRetry(c)) = c
<1>1. ClearRetry(c) = c
  BY DEF ClearRetry, Quiet, Client
<1>2. QED
  BY <1>1 DEF CancelSocket, Quiet

\* connectNow.
LEMMA Connects ==
    ASSUME NEW c, Quiet(c), Unused(c) # {}, NEW label \in Label, NEW works \in BOOLEAN
    PROVE  LET d == ConnectNow(c, label, works) IN
           Settled(d) /\ Alike(c, d) /\ ~Open(d)
<1>1. CASE ~(Wanted(c) /\ ~c.authFailed)
  <2>1. ConnectNow(c, label, works) = c
    BY <1>1 DEF ConnectNow, Wanted
  <2>2. QED
    BY <1>1, <2>1, QuietUnwanted DEF Alike, Open, Quiet
<1>2. CASE Wanted(c) /\ ~c.authFailed
  <2> DEFINE e == [c EXCEPT !.state = label]
             n == CHOOSE m \in Unused(e) : TRUE
             d == [e EXCEPT !.socket = n, !.sock[n] = [NoSocket EXCEPT !.st = "connecting"]]
  <2>1. ConnectNow(c, label, works) = IF works THEN d ELSE ScheduleReconnect(e)
    <3>1. ConnectNow(c, label, works) = NewSocket(e, works)
      BY <1>2, QuietStays DEF ConnectNow, Wanted
    <3>2. QED
      BY <3>1 DEF NewSocket
  <2>2. /\ Quiet(e) /\ Alike(c, e) /\ e.sock = c.sock
        /\ e.socket = 0
    BY SameTimers DEF Quiet, Client, Alike, Label
  <2>3. n \in Unused(e) /\ n \in Socket /\ n # 0
    <3>1. Unused(e) # {}
      BY <2>2 DEF Unused
    <3>2. n \in Unused(e)
      BY <3>1
    <3>3. QED
      BY <3>2 DEF Unused, Socket
  <2> HIDE DEF n
  <2>4. CASE works
    <3> DEFINE s == [NoSocket EXCEPT !.st = "connecting"]
    <3>1. s \in SocketState /\ s.st = "connecting"
      BY DEF NoSocket, SocketState
    <3>2. /\ d.socket = n /\ Alike(e, d) /\ d.retry = e.retry
          /\ d.sock = [e.sock EXCEPT ![n] = s]
      BY <2>2, SameTimers DEF Quiet, Client, Alike
    <3>3. d \in Client
      BY <2>2, <2>3, <3>1 DEF Quiet, Client
    <3>4. \A m \in Socket : d.sock[m] = IF m = n THEN s ELSE e.sock[m]
      BY <2>2, <2>3, <3>2 DEF Quiet, Client
    <3> HIDE DEF s, d, e
    <3>5. d.sock[n].st = "connecting"
      BY <2>3, <3>1, <3>4
    <3>6. Steady(d)
      BY <2>2, <2>3, <3>2, <3>3, <3>4, <3>5 DEF Steady, Quiet, Live
    <3>7. Wanted(d) /\ ~d.authFailed
      BY <1>2, <2>2, <3>2 DEF Wanted, Alike
    <3>8. ~Open(d)
      BY <3>2, <3>5 DEF Open
    <3>9. Settled(d) /\ Alike(c, d)
      BY <2>2, <2>3, <3>2, <3>6, <3>7, <3>8 DEF Settled, Quiet, Alike
    <3>10. QED
      BY <2>1, <2>4, <3>8, <3>9
  <2>5. CASE ~works
    <3> DEFINE r == ScheduleReconnect(e)
    <3>1. Settled(r) /\ Alike(e, r) /\ r.socket = 0
      BY <2>2, Rescheduled
    <3> HIDE DEF r
    <3>2. ~Open(r) /\ Alike(c, r)
      BY <2>2, <3>1 DEF Open, Alike
    <3>3. QED
      BY <2>1, <2>5, <3>1, <3>2 DEF r
  <2>6. QED
    BY <2>4, <2>5
<1>3. QED
  BY <1>1, <1>2

LEMMA UnwantedIsQuiet ==
    ASSUME NEW c, Settled(c), ~Wanted(c)
    PROVE  Quiet(c)
  BY DEF Settled, Steady, Quiet, Socket

LEMMA SpareStays ==
    ASSUME NEW c, NEW d, SpareKept(c, d), Unused(c) # {}
    PROVE  Unused(d) # {}
  BY DEF SpareKept, Unused

\* connectNow, by a timer that finds whatever there is by then.
LEMMA Reconnects ==
    ASSUME NEW c, Steady(c), ~(Wanted(c) /\ ~c.authFailed) => Quiet(c), Unused(c) # {},
           NEW label \in Label, NEW works \in BOOLEAN
    PROVE  LET d == ConnectNow(c, label, works) IN
           Settled(d) /\ Alike(c, d) /\ ~Open(d)
<1>1. CASE ~(Wanted(c) /\ ~c.authFailed)
  BY <1>1, Connects
<1>2. CASE Wanted(c) /\ ~c.authFailed
  <2> DEFINE q == CancelConnection(c)
             d == ConnectNow(q, label, works)
  <2>1. Quiet(q) /\ Alike(c, q) /\ SpareKept(c, q)
    BY Cancelled
  <2>2. ConnectNow(c, label, works) = NewSocket([q EXCEPT !.state = label], works)
    BY <1>2 DEF ConnectNow, Wanted, CancelConnection
  <2> HIDE DEF q
  <2>3. Wanted(q) /\ ~q.authFailed
    BY <1>2, <2>1 DEF Wanted, Alike
  <2>4. d = NewSocket([q EXCEPT !.state = label], works)
    BY <2>1, <2>3, QuietStays DEF ConnectNow, Wanted
  <2>5. Settled(d) /\ Alike(q, d) /\ ~Open(d)
    BY <2>1, SpareStays, Connects
  <2> HIDE DEF d
  <2>6. QED
    BY <2>1, <2>2, <2>4, <2>5 DEF Alike
<1>3. QED
  BY <1>1, <1>2

\* What is given a client that is quiet and shall have a connection, or not.
LEMMA Follows ==
    ASSUME NEW c, Quiet(c), NEW works \in BOOLEAN,
           Wanted(c) => Unused(c) # {}
    PROVE  LET d == IF Wanted(c) THEN ConnectNow(c, "connecting", works)
                    ELSE [c EXCEPT !.state = "idle"] IN
           /\ Settled(d) /\ Alike(c, d) /\ ~Open(d)
           /\ ~Wanted(c) => SpareKept(c, d)
<1>1. CASE Wanted(c)
  BY <1>1, Connects DEF Label
<1>2. CASE ~Wanted(c)
  <2> DEFINE d == [c EXCEPT !.state = "idle"]
  <2>1. Quiet(d) /\ Alike(c, d) /\ SpareKept(c, d)
    BY SameTimers DEF Quiet, Client, Alike, SpareKept
  <2>2. ~Wanted(d)
    BY <1>2, <2>1 DEF Wanted, Alike
  <2>3. Settled(d) /\ ~Open(d)
    BY <2>1, <2>2, QuietUnwanted DEF Open, Quiet
  <2>4. QED
    BY <1>2, <2>1, <2>3
<1>3. QED
  BY <1>1, <1>2

\* setIdentity.
LEMMA IdentitySet ==
    ASSUME NEW c, Settled(c), Unused(c) # {}, NEW id \in Identity \cup {None},
           NEW works \in BOOLEAN
    PROVE  LET d == SetIdentity(c, id, works) IN
           /\ Settled(d)
           /\ d.channel = c.channel /\ d.enabled = c.enabled /\ d.destroyed = c.destroyed
           /\ d.login = id
           /\ IF id = c.login THEN d = c ELSE ~Open(d)
           /\ Forgotten(d) = Forgotten(c)
<1>1. CASE id = c.login
  BY <1>1 DEF SetIdentity
<1>2. CASE id # c.login
  <2> DEFINE e == CancelConnection(c)
             f == [e EXCEPT !.login = id, !.authFailed = FALSE]
  <2>1. Quiet(e) /\ Alike(c, e) /\ SpareKept(c, e)
    BY Cancelled DEF Settled
  <2> HIDE DEF e
  <2>2. /\ Quiet(f) /\ SpareKept(c, f)
        /\ f.channel = c.channel /\ f.enabled = c.enabled /\ f.destroyed = c.destroyed
        /\ f.login = id /\ f.authFailed = FALSE
        /\ Forgotten(f) = Forgotten(c)
    BY <2>1, SameTimers DEF Quiet, Client, Alike, SpareKept
  <2>3. Unused(f) # {}
    BY <2>2, SpareStays
  <2>4. SetIdentity(c, id, works) =
            IF f.enabled /\ f.channel # None THEN ConnectNow(f, "connecting", works)
            ELSE [f EXCEPT !.state = "idle"]
    BY <1>2 DEF SetIdentity, e
  <2> HIDE DEF f
  <2>5. CASE Wanted(f) \/ ~(f.enabled /\ f.channel # None)
    <3> DEFINE d == IF Wanted(f) THEN ConnectNow(f, "connecting", works)
                    ELSE [f EXCEPT !.state = "idle"]
    <3>1. SetIdentity(c, id, works) = d
      BY <2>4, <2>5 DEF Wanted
    <3>2. Settled(d) /\ Alike(f, d) /\ ~Open(d)
      BY <2>2, <2>3, Follows
    <3> HIDE DEF d
    <3>3. QED
      BY <1>2, <2>2, <3>1, <3>2 DEF Alike
  <2>6. CASE ~(Wanted(f) \/ ~(f.enabled /\ f.channel # None))
    <3>1. ConnectNow(f, "connecting", works) = f
      BY <2>6 DEF ConnectNow, Wanted
    <3>2. Settled(f) /\ ~Open(f)
      BY <2>2, <2>6, QuietUnwanted DEF Open, Quiet
    <3>3. QED
      BY <1>2, <2>2, <2>4, <2>6, <3>1, <3>2
  <2>7. QED
    BY <2>5, <2>6
<1>3. QED
  BY <1>1, <1>2

\* setChannel.
LEMMA ChannelSet ==
    ASSUME NEW c, Settled(c), NEW ch \in Channel \cup {None}, NEW works \in BOOLEAN,
           ch = None \/ Unused(c) # {}
    PROVE  LET d == SetChannel(c, ch, works) IN
           /\ Settled(d)
           /\ d.enabled = c.enabled /\ d.destroyed = c.destroyed /\ d.login = c.login
           /\ d.channel = ch
           /\ IF ch = c.channel THEN d = c ELSE ~Open(d)
           /\ ch = None => SpareKept(c, d)
           /\ Forgotten(d) = Forgotten(c)
<1>1. CASE ch = c.channel
  BY <1>1 DEF SetChannel, SpareKept
<1>2. CASE ch # c.channel
  <2> DEFINE e == CancelConnection(c)
             f == [e EXCEPT !.channel = ch, !.authFailed = FALSE]
  <2>1. Quiet(e) /\ Alike(c, e) /\ SpareKept(c, e)
    BY Cancelled DEF Settled
  <2> HIDE DEF e
  <2>2. /\ Quiet(f) /\ SpareKept(c, f)
        /\ f.channel = ch /\ f.enabled = c.enabled /\ f.destroyed = c.destroyed
        /\ f.login = c.login /\ f.authFailed = FALSE
        /\ Forgotten(f) = Forgotten(c)
    BY <2>1, SameTimers DEF Quiet, Client, Alike, SpareKept
  <2>3. ch = None \/ Unused(f) # {}
    BY <2>2, SpareStays
  <2>4. SetChannel(c, ch, works) =
            IF ~f.enabled \/ ch = None THEN [f EXCEPT !.state = "idle"]
            ELSE ConnectNow(f, "connecting", works)
    BY <1>2 DEF SetChannel, e
  <2> HIDE DEF f
  <2>5. CASE Wanted(f) \/ ~(f.enabled /\ ch # None)
    <3> DEFINE d == IF Wanted(f) THEN ConnectNow(f, "connecting", works)
                    ELSE [f EXCEPT !.state = "idle"]
    <3>1. SetChannel(c, ch, works) = d
      BY <2>2, <2>4, <2>5 DEF Wanted
    <3>2. /\ Settled(d) /\ Alike(f, d) /\ ~Open(d)
          /\ ~Wanted(f) => SpareKept(f, d)
      BY <2>2, <2>3, Follows DEF Wanted
    <3> HIDE DEF d
    <3>3. ch = None => SpareKept(c, d)
      BY <2>2, <3>2 DEF Wanted, SpareKept
    <3>4. QED
      BY <1>2, <2>2, <3>1, <3>2, <3>3 DEF Alike
  <2>6. CASE ~(Wanted(f) \/ ~(f.enabled /\ ch # None))
    <3>1. ConnectNow(f, "connecting", works) = f
      BY <2>2, <2>6 DEF ConnectNow, Wanted
    <3>2. Settled(f) /\ ~Open(f)
      BY <2>2, <2>6, QuietUnwanted DEF Open, Quiet
    <3>3. QED
      BY <1>2, <2>2, <2>4, <2>6, <3>1, <3>2
  <2>7. QED
    BY <2>5, <2>6
<1>3. QED
  BY <1>1, <1>2

\* setEnabled.
LEMMA EnabledSet ==
    ASSUME NEW c, Settled(c), NEW on \in BOOLEAN, NEW works \in BOOLEAN,
           c.channel = None \/ Unused(c) # {}
    PROVE  LET d == SetEnabled(c, on, works) IN
           /\ Settled(d)
           /\ d.channel = c.channel /\ d.destroyed = c.destroyed /\ d.login = c.login
           /\ ~c.destroyed => d.enabled = on
           /\ IF c.destroyed \/ on = c.enabled THEN d = c ELSE ~Open(d)
           /\ c.channel = None => SpareKept(c, d)
           /\ Forgotten(d) = Forgotten(c)
<1>1. CASE c.destroyed \/ on = c.enabled
  BY <1>1 DEF SetEnabled, SpareKept
<1>2. CASE ~c.destroyed /\ on # c.enabled /\ ~on
  <2> DEFINE e == [c EXCEPT !.enabled = on, !.authFailed = FALSE]
             f == CancelConnection(e)
             d == [f EXCEPT !.state = "idle"]
  <2>1. Steady(e)
    BY DEF Settled, Steady, Client
  <2>2. /\ e.channel = c.channel /\ e.destroyed = c.destroyed /\ e.login = c.login
        /\ e.enabled = on /\ e.sock = c.sock /\ Forgotten(e) = Forgotten(c)
    BY SameTimers DEF Settled, Steady, Client
  <2> HIDE DEF e
  <2>3. Quiet(f) /\ Alike(e, f) /\ SpareKept(e, f)
    BY <2>1, Cancelled
  <2> HIDE DEF f
  <2>4. Quiet(d) /\ Alike(f, d) /\ SpareKept(f, d)
    BY <2>3, SameTimers DEF Quiet, Client, Alike, SpareKept
  <2>5. SetEnabled(c, on, works) = d
    BY <1>2 DEF SetEnabled, e, f
  <2> HIDE DEF d
  <2>6. ~Wanted(d)
    BY <1>2, <2>2, <2>3, <2>4 DEF Wanted, Alike
  <2>7. Settled(d) /\ ~Open(d)
    BY <2>4, <2>6, QuietUnwanted DEF Open, Quiet
  <2>8. QED
    BY <1>2, <2>2, <2>3, <2>4, <2>5, <2>7 DEF Alike, SpareKept
<1>3. CASE ~c.destroyed /\ on # c.enabled /\ on
  <2>1. Quiet(c) /\ c.enabled = FALSE
    <3>1. c.enabled = FALSE
      BY <1>3 DEF Settled, Steady, Client
    <3>2. QED
      BY <3>1, UnwantedIsQuiet DEF Wanted
  <2>2. CASE c.channel = None
    <3> DEFINE d == [c EXCEPT !.enabled = on, !.state = "idle"]
    <3>1. /\ Quiet(d) /\ SpareKept(c, d)
          /\ d.channel = c.channel /\ d.destroyed = c.destroyed /\ d.login = c.login
          /\ d.enabled = on /\ Forgotten(d) = Forgotten(c)
      BY <2>1, SameTimers DEF Quiet, Client, SpareKept
    <3>2. SetEnabled(c, on, works) = d
      BY <1>3, <2>2, <2>1 DEF SetEnabled, Quiet, Client
    <3> HIDE DEF d
    <3>3. Settled(d) /\ ~Open(d)
      BY <2>2, <3>1, QuietUnwanted DEF Open, Quiet, Wanted
    <3>4. QED
      BY <1>3, <3>1, <3>2, <3>3
  <2>3. CASE c.channel # None
    <3> DEFINE e == [c EXCEPT !.enabled = on, !.authFailed = FALSE]
               d == ConnectNow(e, "connecting", works)
    <3>1. /\ Quiet(e) /\ SpareKept(c, e)
          /\ e.channel = c.channel /\ e.destroyed = c.destroyed /\ e.login = c.login
          /\ e.enabled = on /\ Forgotten(e) = Forgotten(c)
      BY <2>1, SameTimers DEF Quiet, Client, SpareKept
    <3>2. SetEnabled(c, on, works) = d
      BY <1>3, <2>3, <3>1 DEF SetEnabled
    <3> HIDE DEF e
    <3>3. Unused(e) # {}
      BY <2>3, <3>1, SpareStays
    <3>4. Settled(d) /\ Alike(e, d) /\ ~Open(d)
      BY <3>1, <3>3, Connects DEF Label
    <3> HIDE DEF d
    <3>5. QED
      BY <1>3, <2>3, <3>1, <3>2, <3>4 DEF Alike
  <2>4. QED
    BY <2>2, <2>3
<1>4. QED
  BY <1>1, <1>2, <1>3

\* restartConnection, whatever the client is about to do.
LEMMA Restarted ==
    ASSUME NEW c, Steady(c), Wanted(c)
    PROVE  LET d == RestartConnection(c) IN
           /\ Settled(d) /\ Same(c, d) /\ d.socket = 0 /\ SpareKept(c, d)
           /\ ~c.retry => Alike(c, d)
<1> DEFINE e == CancelSocket(c)
           d == SetRetry(e)
<1>1. /\ Steady(e) /\ Alike(c, e) /\ SpareKept(c, e)
      /\ e.socket = 0 /\ e.retry = c.retry
  BY SocketCancelled
<1>2. RestartConnection(c) = d
  BY DEF RestartConnection, Wanted
<1> HIDE DEF e
<1>3. Wanted(e)
  BY <1>1 DEF Wanted, Alike
<1>4. /\ Settled(d) /\ Same(e, d) /\ d.socket = 0 /\ SpareKept(e, d)
      /\ ~e.retry => Alike(e, d)
  BY <1>1, <1>3, RetrySet
<1> HIDE DEF d
<1>5. QED
  BY <1>1, <1>2, <1>4 DEF Alike, Same, SpareKept

\* A new client starts quiet, on whatever the former one of its pane left.
LEMMA Renewed ==
    ASSUME NEW c, Quiet(c), NEW id \in Identity \cup {None}
    PROVE  LET d == NewClient(c, id) IN
           /\ Settled(d) /\ Quiet(d) /\ SpareKept(c, d)
           /\ d.channel = None /\ ~d.enabled /\ ~d.destroyed /\ d.login = id
           /\ Forgotten(d) = Forgotten(c)
<1> DEFINE d == NewClient(c, id)
<1>1. /\ d.channel = None /\ d.enabled = FALSE /\ d.destroyed = FALSE /\ d.socket = 0
      /\ d.retry = FALSE /\ d.timers = c.timers /\ d.login = id /\ d.sock = c.sock
  BY DEF NewClient
<1>2. d \in Client
  BY DEF NewClient, Quiet, Client
<1>3. Quiet(d)
  BY <1>1, <1>2 DEF Quiet
<1>4. ~Wanted(d)
  BY <1>1 DEF Wanted
<1> HIDE DEF d
<1>5. Settled(d)
  BY <1>3, <1>4, QuietUnwanted
<1>6. Forgotten(d) = Forgotten(c)
  BY <1>1 DEF Forgotten, Quiet
<1>7. QED
  BY <1>1, <1>3, <1>5, <1>6 DEF SpareKept, d

\* destroy.
LEMMA Destroyed ==
    ASSUME NEW c, Settled(c)
    PROVE  LET d == Destroy(c) IN
           /\ Quiet(d) /\ Settled(d) /\ SpareKept(c, d) /\ d.destroyed
           /\ Forgotten(d) =< Forgotten(c)
<1> DEFINE e == CancelConnection(c)
           f == NewClient(e, None)
           d == [f EXCEPT !.destroyed = TRUE, !.timers = 0]
<1>1. Quiet(e) /\ SpareKept(c, e)
  BY Cancelled DEF Settled
<1>2. Destroy(c) = d
  BY DEF Destroy
<1> HIDE DEF e
<1>3. Quiet(f) /\ SpareKept(e, f)
  BY <1>1, Renewed
<1> HIDE DEF f
<1>4. Quiet(d) /\ d.destroyed = TRUE /\ d.sock = f.sock /\ d.timers = 0
  BY <1>3 DEF Quiet, Client
<1> HIDE DEF d
<1>5. ~Wanted(d)
  BY <1>4 DEF Wanted
<1>6. Forgotten(d) = 0
  <2>1. ~d.retry /\ d.timers = 0
    BY <1>4 DEF Quiet
  <2>2. Forgotten(d) = 0 - 0
    BY <2>1 DEF Forgotten
  <2>3. QED
    BY <2>2
<1>7. Forgotten(c) \in Nat
  BY ForgottenIsNat DEF Settled
<1>8. Forgotten(d) =< Forgotten(c)
  BY <1>6, <1>7
<1>9. SpareKept(c, d)
  BY <1>1, <1>3, <1>4 DEF SpareKept
<1>10. Settled(d)
  BY <1>4, <1>5, QuietUnwanted
<1>11. QED
  BY <1>2, <1>4, <1>8, <1>9, <1>10
-----------------------------------------------------------------------------
(* The page. *)

\* A connection that is signed in is signed in as the client's login.
SignedIn(c, exp) ==
    Open(c) /\ c.login # None /\ ~exp => c.sock[c.socket].nick = c.login

\* The client c of pane p, when the page has that login and visibility and the
\* channels have the panes f.
PaneInv(p, c, login, f, exp, vis) ==
    /\ Settled(c)
    /\ SignedIn(c, exp)
    /\ (p = Primary \/ \E ch \in Channel : f[ch] = p) <=> ~c.destroyed
    /\ \A ch \in Channel : f[ch] = p => c.channel = ch
    /\ (\A ch \in Channel : f[ch] # p) => c.channel = None
    /\ ~c.destroyed => c.login = login /\ c.enabled = vis

PageInv(w, exp, vis) ==
    /\ w \in Page
    /\ exp \in BOOLEAN
    /\ vis \in BOOLEAN
    /\ exp => w.login # None
    /\ \A p \in Pane : PaneInv(p, w.client[p], w.login, w.paneOf, exp, vis)

IInv == PageInv(page, expired, visible)

LEMMA SettledIsClient == \A c : Settled(c) => c \in Client
  BY DEF Settled, Steady

\* One client changes, as its methods change it.
LEMMA OnePane ==
    ASSUME NEW w, NEW exp, NEW vis, PageInv(w, exp, vis), NEW p \in Pane,
           NEW c, Settled(c), SignedIn(c, exp), Same(w.client[p], c)
    PROVE  PageInv(With(w, p, c), exp, vis)
<1> DEFINE x == With(w, p, c)
<1>1. w \in Page /\ w.client \in [Pane -> Client] /\ c \in Client
  BY SettledIsClient DEF PageInv, Page
<1>2. x \in Page /\ x.login = w.login /\ x.paneOf = w.paneOf
  BY <1>1 DEF Page, With
<1>3. \A q \in Pane : x.client[q] = IF q = p THEN c ELSE w.client[q]
  BY <1>1 DEF Page, With
<1>4. PaneInv(p, c, w.login, w.paneOf, exp, vis)
  <2>1. PaneInv(p, w.client[p], w.login, w.paneOf, exp, vis)
    BY DEF PageInv
  <2>2. QED
    BY <2>1 DEF PaneInv, Same
<1> HIDE DEF x
<1>5. PageInv(x, exp, vis)
  BY <1>2, <1>3, <1>4 DEF PageInv
<1>6. QED
  BY <1>5 DEF x

\* The panes in use are those whose client lives.
LEMMA InUse ==
    ASSUME NEW w, NEW exp, NEW vis, PageInv(w, exp, vis), NEW p \in Pane
    PROVE  (p = Primary \/ p \in Active(w)) <=> ~w.client[p].destroyed
<1>1. p \in Active(w) <=> \E ch \in Channel : w.paneOf[ch] = p
  BY NoneAssumption DEF Active, Pane
<1>2. PaneInv(p, w.client[p], w.login, w.paneOf, exp, vis)
  BY DEF PageInv
<1>3. QED
  BY <1>1, <1>2 DEF PaneInv

Spared(w) == \A p \in Pane : Unused(w.client[p]) # {}

\* The page w becomes x and the panes P forget nothing.
Keeps(w, x, P) ==
    /\ x.paneOf = w.paneOf
    /\ \A p \in P : Forgotten(x.client[p]) = Forgotten(w.client[p])

\* Nothing depends on the expiry timer.
LEMMA ExpirySet ==
    ASSUME NEW w, NEW exp, NEW vis, PageInv(w, exp, vis), NEW expiry \in BOOLEAN
    PROVE  LET x == [w EXCEPT !.expiry = expiry] IN
           PageInv(x, exp, vis) /\ x.client = w.client /\ x.login = w.login /\ x.paneOf = w.paneOf
<1> DEFINE x == [w EXCEPT !.expiry = expiry]
<1>1. w \in Page
  BY DEF PageInv
<1>2. x \in Page /\ x.login = w.login /\ x.paneOf = w.paneOf /\ x.client = w.client
  BY <1>1 DEF Page
<1> HIDE DEF x
<1>3. PageInv(x, exp, vis)
  BY <1>2 DEF PageInv
<1>4. QED
  BY <1>2, <1>3 DEF x

\* applyIdentity.
LEMMA IdentityApplied ==
    ASSUME NEW w, NEW exp, NEW vis, PageInv(w, exp, vis), Spared(w),
           NEW id \in Identity \cup {None}, NEW works \in BOOLEAN,
           NEW e2 \in BOOLEAN, e2 => id # None, id = w.login => e2 = exp \/ e2
    PROVE  /\ PageInv(ApplyIdentity(w, id, works), e2, vis)
           /\ ApplyIdentity(w, id, works).login = id
           /\ Keeps(w, ApplyIdentity(w, id, works), Pane)
<1> DEFINE C == [p \in Pane |-> IF p = Primary \/ p \in Active(w)
                                THEN SetIdentity(w.client[p], id, works)
                                ELSE w.client[p]]
<1>1. ASSUME NEW p \in Pane
      PROVE  /\ C[p] \in Client /\ PaneInv(p, C[p], id, w.paneOf, e2, vis)
             /\ Forgotten(C[p]) = Forgotten(w.client[p])
  <2> DEFINE c == w.client[p]
             d == SetIdentity(c, id, works)
  <2>1. PaneInv(p, c, w.login, w.paneOf, exp, vis) /\ Unused(c) # {}
    BY DEF PageInv, Spared
  <2>2. C[p] = IF ~c.destroyed THEN d ELSE c
    BY InUse
  <2>3. Settled(c)
    BY <2>1 DEF PaneInv
  <2>4. /\ Settled(d)
        /\ d.channel = c.channel /\ d.enabled = c.enabled /\ d.destroyed = c.destroyed
        /\ d.login = id
        /\ IF id = c.login THEN d = c ELSE ~Open(d)
        /\ Forgotten(d) = Forgotten(c)
    BY <2>1, <2>3, IdentitySet
  <2>5. Forgotten(C[p]) = Forgotten(c)
    BY <2>2, <2>4
  <2>6. w.client[p] = c
    OBVIOUS
  <2> HIDE DEF C, c, d
  <2>7. ASSUME c.destroyed
        PROVE  C[p] \in Client /\ PaneInv(p, C[p], id, w.paneOf, e2, vis)
    <3>1. ~Open(c)
      BY <2>3, <2>7 DEF Settled, Open, Wanted
    <3>2. QED
      BY <2>1, <2>2, <2>7, <3>1, SettledIsClient DEF PaneInv, SignedIn
  <2>8. ASSUME ~c.destroyed
        PROVE  C[p] \in Client /\ PaneInv(p, C[p], id, w.paneOf, e2, vis)
    <3>1. c.login = w.login
      BY <2>1, <2>8 DEF PaneInv
    <3>2. SignedIn(d, e2)
      BY <2>1, <2>4, <3>1 DEF PaneInv, SignedIn
    <3>3. PaneInv(p, d, id, w.paneOf, e2, vis)
      BY <2>1, <2>4, <2>8, <3>2 DEF PaneInv
    <3>4. QED
      BY <2>2, <2>4, <2>8, <3>3, SettledIsClient
  <2>9. QED
    BY <2>5, <2>6, <2>7, <2>8
<1>2. w \in Page /\ vis \in BOOLEAN
  BY DEF PageInv
<1>3. C \in [Pane -> Client]
  BY <1>1
<1>4. \A p \in Pane : PaneInv(p, C[p], id, w.paneOf, e2, vis)
  BY <1>1
<1> DEFINE y == ApplyIdentity(w, id, works)
<1>5. y = [w EXCEPT !.login = id, !.client = C]
  BY DEF ApplyIdentity
<1> HIDE DEF C
<1>6. y \in Page /\ y.login = id /\ y.paneOf = w.paneOf /\ y.client = C
  BY <1>2, <1>3, <1>5 DEF Page
<1> HIDE DEF y
<1>7. PageInv(y, e2, vis)
  BY <1>2, <1>4, <1>6 DEF PageInv
<1>8. Keeps(w, y, Pane)
  BY <1>1, <1>6 DEF Keeps
<1>9. QED
  BY <1>6, <1>7, <1>8 DEF y

\* logout.
LEMMA LoggedOut ==
    ASSUME NEW w, NEW exp, NEW vis, PageInv(w, exp, vis), Spared(w), NEW works \in BOOLEAN,
           NEW e2 \in BOOLEAN, ~e2
    PROVE  /\ PageInv(Logout(w, works), e2, vis) /\ Logout(w, works).login = None
           /\ Keeps(w, Logout(w, works), Pane)
<1> DEFINE x == [w EXCEPT !.expiry = FALSE]
<1>1. /\ PageInv(x, exp, vis) /\ x.client = w.client /\ x.login = w.login
      /\ x.paneOf = w.paneOf
  BY ExpirySet
<1> HIDE DEF x
<1>2. Spared(x) /\ (x.login = None => ~exp)
  BY <1>1 DEF Spared, PageInv
<1>3. exp \in BOOLEAN
  BY DEF PageInv
<1> DEFINE y == ApplyIdentity(x, None, works)
<1>4. PageInv(y, e2, vis) /\ y.login = None /\ Keeps(x, y, Pane)
  BY <1>1, <1>2, <1>3, IdentityApplied
<1>5. Logout(w, works) = y
  BY DEF Logout, x
<1> HIDE DEF y
<1>6. QED
  BY <1>1, <1>4, <1>5 DEF Keeps

LEMMA WithField ==
    ASSUME NEW w, w \in Page, NEW p \in Pane, NEW c
    PROVE  /\ \A q \in Pane : With(w, p, c).client[q] = IF q = p THEN c ELSE w.client[q]
           /\ With(w, p, c).login = w.login /\ With(w, p, c).paneOf = w.paneOf
  BY DEF With, Page

\* A login that may end has sockets to spare: a second refusal ends none.
Spares(w) == Spared(w) \/ w.login = None

\* A client's part of a line: the page is as well as before.
LEMMA ClientHandled ==
    ASSUME NEW w, PageInv(w, expired, visible), Spares(w), NEW p \in Pane,
           NEW d, Settled(d), SignedIn(d, expired), Same(w.client[p], d),
           SpareKept(w.client[p], d)
    PROVE  LET v == With(w, p, d) IN
           /\ PageInv(v, expired, visible)
           /\ Spares(v) /\ (Spared(w) => Spared(v))
           /\ v.login = w.login
           /\ v.client[p] = d
           /\ Keeps(w, v, Pane \ {p})
           /\ Forgotten(d) = Forgotten(w.client[p]) => Keeps(w, v, Pane)
<1> DEFINE v == With(w, p, d)
<1>1. w \in Page
  BY DEF PageInv
<1>2. PageInv(v, expired, visible)
  BY OnePane
<1>3. /\ \A q \in Pane : v.client[q] = IF q = p THEN d ELSE w.client[q]
      /\ v.login = w.login /\ v.paneOf = w.paneOf
  BY <1>1, WithField
<1> HIDE DEF v
<1>4. Spared(w) => Spared(v)
  BY <1>3, SpareStays DEF Spared
<1>5. Keeps(w, v, Pane \ {p})
  BY <1>3 DEF Keeps
<1>6. Forgotten(d) = Forgotten(w.client[p]) => Keeps(w, v, Pane)
  BY <1>3 DEF Keeps
<1>7. QED
  BY <1>2, <1>3, <1>4, <1>5, <1>6 DEF Spares, v

\* A refusal, of a pane in use.
LEMMA Refused ==
    ASSUME NEW w, PageInv(w, expired, visible), Spares(w), NEW p \in Pane,
           ~w.client[p].destroyed, NEW works \in BOOLEAN
    PROVE  LET v == Denied(w, p, works) IN
           PageInv(v, expired, visible) /\ Spares(v) /\ Keeps(w, v, Pane)
<1> DEFINE c == w.client[p]
           e == [c EXCEPT !.authFailed = TRUE, !.state = "unavailable"]
           d == CancelConnection(e)
           x == With(w, p, d)
<1>1. w \in Page /\ PaneInv(p, c, w.login, w.paneOf, expired, visible) /\ ~c.destroyed
  BY DEF PageInv
<1>2. /\ Steady(e) /\ e.authFailed = TRUE /\ Same(c, e) /\ e.sock = c.sock
      /\ Forgotten(e) = Forgotten(c)
  <2>1. c \in Client /\ Steady(c)
    BY <1>1 DEF PaneInv, Settled, Steady
  <2>2. QED
    BY <2>1, SameTimers DEF Steady, Client, Same
<1>3. Denied(w, p, works) = IF Authenticated(c.login) THEN Logout(x, works) ELSE x
  BY DEF Denied
<1> HIDE DEF e
<1>4. Quiet(d) /\ Alike(e, d) /\ SpareKept(e, d)
  BY <1>2, Cancelled
<1> HIDE DEF d
<1>5. /\ Settled(d) /\ ~Open(d) /\ Same(c, d) /\ SpareKept(c, d)
      /\ Forgotten(d) = Forgotten(c)
  BY <1>2, <1>4, QuietUnwanted DEF Alike, Same, SpareKept, Open, Quiet
<1>6. /\ PageInv(x, expired, visible) /\ Spares(x) /\ (Spared(w) => Spared(x))
      /\ Keeps(w, x, Pane)
  BY <1>5, ClientHandled DEF SignedIn
<1>7. c.login = w.login
  BY <1>1 DEF PaneInv
<1> HIDE DEF x, c
<1>8. CASE Authenticated(c.login)
  <2> DEFINE y == Logout(x, works)
  <2>1. expired = FALSE /\ c.login # None
    BY <1>6, <1>8 DEF Authenticated, PageInv
  <2>2. Spared(x)
    BY <1>6, <1>7, <2>1 DEF Spares
  <2>3. PageInv(y, expired, visible) /\ y.login = None /\ Keeps(x, y, Pane)
    BY <1>6, <2>1, <2>2, LoggedOut
  <2>4. Denied(w, p, works) = y
    BY <1>3, <1>8
  <2> HIDE DEF y
  <2>5. QED
    BY <1>6, <2>3, <2>4 DEF Spares, Keeps
<1>9. CASE ~Authenticated(c.login)
  BY <1>3, <1>6, <1>9
<1>10. QED
  BY <1>8, <1>9

\* A line: only a RECONNECT forgets a timer, and only if a retry is set.
LEMMA LineHandled ==
    ASSUME NEW w, PageInv(w, expired, visible), Spares(w), NEW p \in Pane,
           ~w.client[p].destroyed, NEW line \in Line, NEW works \in BOOLEAN
    PROVE  LET v == HandleLine(w, p, line, works) IN
           /\ PageInv(v, expired, visible) /\ Spares(v)
           /\ Keeps(w, v, Pane \ {p})
           /\ line # "reconnect" \/ ~w.client[p].retry => Keeps(w, v, Pane)
           /\ line = "welcome" => v.client[p].retry = w.client[p].retry
<1> DEFINE c == w.client[p]
<1>1. w \in Page /\ Settled(c) /\ SignedIn(c, expired)
  BY DEF PageInv, PaneInv
<1>2. CASE line = "welcome"
  <2> DEFINE d == [c EXCEPT !.state = "connected"]
             v == With(w, p, d)
  <2>1. HandleLine(w, p, line, works) = v
    BY <1>2 DEF HandleLine
  <2>2. c \in Client
    BY <1>1, SettledIsClient
  <2>3. /\ d \in Client
        /\ d.channel = c.channel /\ d.enabled = c.enabled /\ d.destroyed = c.destroyed
        /\ d.login = c.login /\ d.authFailed = c.authFailed /\ d.socket = c.socket
        /\ d.sock = c.sock /\ d.retry = c.retry /\ d.timers = c.timers
    BY <2>2 DEF Client
  <2> HIDE DEF d
  <2>4. /\ Settled(d) /\ SignedIn(d, expired) /\ Same(c, d) /\ SpareKept(c, d)
        /\ Forgotten(d) = Forgotten(c)
    BY <1>1, <2>3, SameTimers DEF Settled, Steady, Wanted, Open, SignedIn, Same, SpareKept
  <2>5. /\ PageInv(v, expired, visible) /\ Spares(v) /\ v.client[p] = d
        /\ Keeps(w, v, Pane \ {p}) /\ Keeps(w, v, Pane)
    BY <2>4, ClientHandled
  <2> HIDE DEF v
  <2>6. QED
    BY <1>2, <2>1, <2>3, <2>5
<1>3. CASE line = "reconnect"
  <2> DEFINE d == RestartConnection(c)
             v == With(w, p, d)
  <2>1. HandleLine(w, p, line, works) = v
    BY <1>3 DEF HandleLine
  <2>2. /\ Settled(d) /\ Same(c, d) /\ SpareKept(c, d) /\ ~Open(d)
        /\ ~c.retry => Forgotten(d) = Forgotten(c)
    <3>1. CASE Wanted(c)
      BY <1>1, <3>1, Restarted DEF Settled, Alike, Open
    <3>2. CASE ~Wanted(c)
      <4>1. d = c
        BY <3>2 DEF RestartConnection, Wanted
      <4>2. c.socket = 0
        BY <1>1, <3>2 DEF Settled
      <4> HIDE DEF d, c
      <4>3. QED
        BY <1>1, <4>1, <4>2 DEF Same, SpareKept, Open
    <3>3. QED
      BY <3>1, <3>2
  <2> HIDE DEF d
  <2>3. SignedIn(d, expired)
    BY <2>2 DEF SignedIn
  <2>4. /\ PageInv(v, expired, visible) /\ Spares(v)
        /\ Keeps(w, v, Pane \ {p})
        /\ Forgotten(d) = Forgotten(c) => Keeps(w, v, Pane)
    BY <2>2, <2>3, ClientHandled
  <2> HIDE DEF v
  <2>5. QED
    BY <1>3, <2>1, <2>2, <2>4
<1>4. CASE line = "denied"
  <2> DEFINE v == Denied(w, p, works)
  <2>1. HandleLine(w, p, line, works) = v
    BY <1>4 DEF HandleLine
  <2>2. PageInv(v, expired, visible) /\ Spares(v) /\ Keeps(w, v, Pane)
    BY Refused
  <2> HIDE DEF v
  <2>3. QED
    BY <1>4, <2>1, <2>2 DEF Keeps
<1>5. QED
  BY <1>2, <1>3, <1>4 DEF Line

\* A pane stays in use while its channel does.
LEMMA StaysInUse ==
    ASSUME NEW w, NEW v, PageInv(w, expired, visible), PageInv(v, expired, visible),
           NEW p \in Pane, ~w.client[p].destroyed, v.paneOf = w.paneOf
    PROVE  ~v.client[p].destroyed
  BY DEF PageInv, PaneInv

\* A message event, at a pane that is connected.
LEMMA FrameHandled ==
    ASSUME NEW w, PageInv(w, expired, visible), Spared(w), NEW p \in Pane,
           w.client[p].socket # 0, NEW frame \in Frame, NEW works \in BOOLEAN
    PROVE  LET x == HandleFrame(w, p, frame, works) IN
           /\ PageInv(x, expired, visible)
           /\ Keeps(w, x, Pane \ {p})
           /\ \/ Keeps(w, x, Pane)
              \/ \E line \in {"reconnect", "denied"} : frame = <<line, "reconnect">>
<1> DEFINE v == HandleLine(w, p, frame[1], works)
           x == HandleFrame(w, p, frame, works)
<1>1. ~w.client[p].destroyed /\ ~w.client[p].retry /\ Spares(w)
  BY DEF PageInv, PaneInv, Settled, Wanted, Spares
<1>2. frame[1] \in Line
  BY DEF Frame
<1>3. /\ PageInv(v, expired, visible) /\ Spares(v)
      /\ Keeps(w, v, Pane)
      /\ frame[1] = "welcome" => v.client[p].retry = w.client[p].retry
  BY <1>1, <1>2, LineHandled
<1>4. CASE Len(frame) = 1
  <2>1. x = v
    BY <1>4 DEF HandleFrame
  <2> HIDE DEF v, x
  <2>2. QED
    BY <1>3, <2>1 DEF Keeps, x
<1>5. CASE Len(frame) # 1
  <2>1. frame \in Line \X Line /\ frame[2] \in Line
    BY <1>5 DEF Frame
  <2>2. x = HandleLine(v, p, frame[2], works)
    BY <1>5 DEF HandleFrame
  <2> HIDE DEF v
  <2>3. ~v.client[p].destroyed
    BY <1>1, <1>3, StaysInUse DEF Keeps
  <2> DEFINE y == HandleLine(v, p, frame[2], works)
  <2>4. /\ PageInv(y, expired, visible)
        /\ Keeps(v, y, Pane \ {p})
        /\ frame[2] # "reconnect" \/ ~v.client[p].retry => Keeps(v, y, Pane)
    BY <1>3, <2>1, <2>3, LineHandled
  <2>5. x = y
    BY <2>2
  <2> HIDE DEF y, x
  <2>6. Keeps(w, y, Pane \ {p})
    BY <1>3, <2>4 DEF Keeps
  <2>7. CASE frame[2] # "reconnect" \/ frame[1] = "welcome"
    <3>1. Keeps(w, y, Pane)
      BY <1>1, <1>3, <2>4, <2>7 DEF Keeps
    <3>2. QED
      BY <2>4, <2>5, <2>6, <3>1 DEF x
  <2>8. CASE frame[2] = "reconnect" /\ frame[1] # "welcome"
    <3>1. frame = <<frame[1], "reconnect">> /\ frame[1] \in {"reconnect", "denied"}
      BY <1>2, <2>1, <2>8 DEF Line
    <3>2. QED
      BY <2>4, <2>5, <2>6, <3>1 DEF x
  <2>9. QED
    BY <2>7, <2>8
<1>6. QED
  BY <1>4, <1>5
-----------------------------------------------------------------------------
(* The panes of the channels. *)

\* The conditions under which the panes change.
Assigned(f) ==
    /\ f \in [Channel -> Pane \cup {None}]
    /\ \A ch, other \in Channel : f[ch] # None /\ f[ch] = f[other] => ch = other

LEMMA PaneMoved ==
    ASSUME NEW p \in Pane, NEW f, Assigned(f), NEW works \in BOOLEAN,
           PageInv(page, expired, visible), Spared(page)
    PROVE  /\ PaneInv(p, Moved(p, f, works), page.login, f, expired, visible)
           /\ Forgotten(Moved(p, f, works)) =< Forgotten(page.client[p])
<1> DEFINE c == page.client[p]
           left == \E ch \in Channel : page.paneOf[ch] = p /\ f[ch] # p
           new == {ch \in Channel : f[ch] = p /\ page.paneOf[ch] # p}
           free == IF ~left THEN c
                   ELSE IF p = Primary THEN SetChannel(c, None, TRUE) ELSE Destroy(c)
           own == IF p = Primary THEN free
                  ELSE SetEnabled(NewClient(free, page.login), visible, works)
           to == CHOOSE ch \in new : TRUE
           end == SetChannel(own, to, works)
<1>1. Moved(p, f, works) = IF new = {} THEN free ELSE end
  BY DEF Moved
<1>2. /\ PaneInv(p, c, page.login, page.paneOf, expired, visible)
      /\ Unused(c) # {}
      /\ page.login \in Identity \cup {None} /\ visible \in BOOLEAN
      /\ p # None
  BY NoneAssumption DEF PageInv, Spared, Page, Pane
<1>3. Forgotten(c) =< Forgotten(c)
  <2>1. Forgotten(c) \in Nat
    BY <1>2, ForgottenIsNat DEF PaneInv, Settled
  <2> HIDE DEF c
  <2>2. QED
    BY <2>1
<1>4. \A ch, other \in Channel : f[ch] = p /\ f[other] = p => ch = other
  BY <1>2 DEF Assigned
<1>5. CASE ~left /\ new = {}
  <2>1. ASSUME NEW ch \in Channel
        PROVE  page.paneOf[ch] = p <=> f[ch] = p
    <3>1. page.paneOf[ch] = p => f[ch] = p
      BY <1>5
    <3>2. f[ch] = p => page.paneOf[ch] = p
      BY <1>5
    <3>3. QED
      BY <3>1, <3>2
  <2>2. free = c
    BY <1>5
  <2>3. Moved(p, f, works) = c
    BY <1>1, <1>5, <2>2
  <2> HIDE DEF left, new, free, own, end
  <2>4. PaneInv(p, c, page.login, f, expired, visible)
    <3> HIDE DEF c
    <3>1. QED
      BY <1>2, <2>1 DEF PaneInv
  <2>5. QED
    BY <1>3, <2>3, <2>4
\* The pane has no channel of its own any more.
<1>6. ASSUME left \/ new # {}
      PROVE  /\ Settled(free) /\ SpareKept(c, free) /\ free.channel = None
             /\ IF p = Primary
                THEN ~free.destroyed /\ free.login = page.login /\ free.enabled = visible
                ELSE free.destroyed
             /\ Forgotten(free) =< Forgotten(c)
  <2>1. CASE left
    <3>1. /\ Settled(c) /\ ~c.destroyed /\ c.channel # None
          /\ c.login = page.login /\ c.enabled = visible
      BY <1>2, <2>1, NoneAssumption DEF PaneInv
    <3>2. CASE p = Primary
      <4>1. free = SetChannel(c, None, TRUE)
        BY <2>1, <3>2
      <4> HIDE DEF c, left, free
      <4>2. /\ Settled(free) /\ SpareKept(c, free) /\ free.channel = None
            /\ free.enabled = c.enabled /\ free.destroyed = c.destroyed /\ free.login = c.login
            /\ Forgotten(free) = Forgotten(c)
        <5> DEFINE d(b) == SetChannel(c, None, b)
        <5>1. \A b \in BOOLEAN :
                /\ Settled(d(b)) /\ SpareKept(c, d(b)) /\ d(b).channel = None
                /\ d(b).enabled = c.enabled /\ d(b).destroyed = c.destroyed
                /\ d(b).login = c.login /\ Forgotten(d(b)) = Forgotten(c)
          BY <3>1, ChannelSet
        <5>2. TRUE \in BOOLEAN
          OBVIOUS
        <5>3. QED
          BY <4>1, <5>1, <5>2, Zenon
      <4>3. Forgotten(free) =< Forgotten(c)
        <5>1. Forgotten(c) \in Nat
          BY <3>1, ForgottenIsNat DEF Settled
        <5>2. QED
          BY <4>2, <5>1
      <4>4. QED
        BY <3>1, <3>2, <4>2, <4>3
    <3>3. CASE p # Primary
      <4>1. free = Destroy(c)
        BY <2>1, <3>3
      <4>2. free.channel = None
        BY <4>1 DEF Destroy, NewClient
      <4> HIDE DEF c, left, free
      <4>3. QED
        BY <3>1, <3>3, <4>1, <4>2, Destroyed
    <3>4. QED
      BY <3>2, <3>3
  <2>2. CASE ~left
    <3>1. PICK ch \in Channel : f[ch] = p /\ page.paneOf[ch] # p
      BY <1>6, <2>2
    <3>2. \A other \in Channel : page.paneOf[other] # p
      BY <1>4, <2>2, <3>1
    <3>3. free = c
      BY <2>2
    <3>4. QED
      <4>1. Forgotten(free) =< Forgotten(c)
        BY <1>3, <3>3
      <4> HIDE DEF c, left, new, free
      <4>2. QED
        BY <1>2, <3>2, <3>3, <4>1 DEF PaneInv, SpareKept
  <2>3. QED
    BY <2>1, <2>2
<1>7. CASE left /\ new = {}
  <2>1. /\ Settled(free) /\ free.channel = None
        /\ IF p = Primary
           THEN ~free.destroyed /\ free.login = page.login /\ free.enabled = visible
           ELSE free.destroyed
        /\ Forgotten(free) =< Forgotten(c)
    BY <1>6, <1>7
  <2>2. \A ch \in Channel : f[ch] # p
    <3>1. PICK ch \in Channel : page.paneOf[ch] = p /\ f[ch] # p
      BY <1>7
    <3>2. \A other \in Channel : page.paneOf[other] = p => other = ch
      BY <1>2, <3>1 DEF PaneInv
    <3>3. QED
      BY <1>7, <3>1, <3>2
  <2>3. Moved(p, f, works) = free
    BY <1>1, <1>7
  <2> HIDE DEF left, new, free, own, end
  <2>4. ~Open(free)
    BY <2>1 DEF Settled, Wanted, Open
  <2>5. PaneInv(p, free, page.login, f, expired, visible)
    BY <2>1, <2>2, <2>4 DEF PaneInv, SignedIn
  <2>6. QED
    BY <2>1, <2>3, <2>5
<1>8. CASE new # {}
  <2>1. /\ Settled(free) /\ SpareKept(c, free) /\ free.channel = None
        /\ IF p = Primary
           THEN ~free.destroyed /\ free.login = page.login /\ free.enabled = visible
           ELSE free.destroyed
        /\ Forgotten(free) =< Forgotten(c)
    BY <1>6, <1>8
  <2>2. to \in Channel /\ f[to] = p
    <3>1. to \in new
      BY <1>8
    <3>2. QED
      BY <3>1
  <2>3. \A ch \in Channel : f[ch] = p => ch = to
    BY <1>4, <2>2
  <2>4. page.client[p] = c /\ Moved(p, f, works) = end
    BY <1>1, <1>8
  <2> HIDE DEF c, left, new, free, to
  <2>5. /\ Settled(own) /\ SpareKept(free, own) /\ own.channel = None
        /\ ~own.destroyed /\ own.login = page.login /\ own.enabled = visible
        /\ Forgotten(own) = Forgotten(free)
    <3>1. CASE p = Primary
      BY <2>1, <3>1 DEF SpareKept
    <3>2. CASE p # Primary
      <4> DEFINE n == NewClient(free, page.login)
      <4>1. Quiet(free)
        BY <2>1, <3>2, UnwantedIsQuiet DEF Wanted
      <4>2. /\ Settled(n) /\ SpareKept(free, n)
            /\ n.channel = None /\ ~n.destroyed /\ n.login = page.login
            /\ Forgotten(n) = Forgotten(free)
        BY <1>2, <4>1, Renewed
      <4>3. own = SetEnabled(n, visible, works)
        BY <3>2
      <4> HIDE DEF n, own
      <4>4. /\ Settled(own) /\ SpareKept(n, own)
            /\ own.channel = n.channel /\ own.destroyed = n.destroyed /\ own.login = n.login
            /\ own.enabled = visible /\ Forgotten(own) = Forgotten(n)
        BY <1>2, <4>2, <4>3, EnabledSet
      <4>5. QED
        BY <4>2, <4>4 DEF SpareKept
    <3>3. QED
      BY <3>1, <3>2
  <2>6. Unused(own) # {}
    BY <1>2, <2>1, <2>5, SpareStays
  <2>7. to # None
    BY <2>2, NoneAssumption
  <2> HIDE DEF own
  <2>8. /\ Settled(end)
        /\ end.enabled = own.enabled /\ end.destroyed = own.destroyed /\ end.login = own.login
        /\ end.channel = to
        /\ ~Open(end)
        /\ Forgotten(end) = Forgotten(own)
    BY <2>2, <2>5, <2>6, <2>7, ChannelSet
  <2> HIDE DEF end
  <2>9. PaneInv(p, end, page.login, f, expired, visible)
    BY <2>2, <2>3, <2>5, <2>8 DEF PaneInv, SignedIn
  <2>10. Forgotten(end) =< Forgotten(c)
    BY <2>1, <2>5, <2>8
  <2>11. QED
    BY <2>4, <2>9, <2>10
<1>9. QED
  BY <1>5, <1>7, <1>8
-----------------------------------------------------------------------------
(* The invariant. *)

LEMMA InitInv ==
    ASSUME Init
    PROVE  IInv
<1> DEFINE blank == [timers |-> 0, sock |-> [n \in Socket |-> NoSocket]]
<1>1. PICK id \in Identity \cup {None} :
        page = [client |-> [p \in Pane |->
                    [NewClient(blank, id)
                        EXCEPT !.enabled = (p = Primary /\ visible),
                               !.destroyed = (p # Primary)]],
                paneOf |-> [ch \in Channel |-> None],
                login |-> id,
                expiry |-> (id # None)]
  BY DEF Init
<1>2. expired = FALSE /\ visible \in BOOLEAN
  BY DEF Init
<1>3. ASSUME NEW p \in Pane
      PROVE  page.client[p] \in Client /\ PaneInv(p, page.client[p], page.login, page.paneOf, expired, visible)
  <2> DEFINE e == NewClient(blank, id)
             c == [e EXCEPT !.enabled = (p = Primary /\ visible), !.destroyed = (p # Primary)]
  <2>1. page.client[p] = c
    BY <1>1
  <2>2. /\ e \in Client /\ e.channel = None /\ e.socket = 0 /\ e.retry = FALSE /\ e.timers = 0
        /\ e.login = id /\ e.authFailed = FALSE /\ e.sock = [n \in Socket |-> NoSocket]
    BY ClosingIsASocketState DEF NewClient, Client
  <2> HIDE DEF e
  <2>3. c \in Client
    BY <1>2, <2>2 DEF Client
  <2>4. /\ c.channel = None /\ c.socket = 0 /\ c.retry = FALSE /\ c.timers = 0
        /\ c.login = id /\ c.sock = [n \in Socket |-> NoSocket]
        /\ c.enabled = (p = Primary /\ visible) /\ c.destroyed = (p # Primary)
    BY <2>2 DEF Client
  <2> HIDE DEF c
  <2>5. Quiet(c) /\ ~Wanted(c) /\ ~Open(c)
    BY <2>3, <2>4, ClosingIsASocketState DEF Quiet, Wanted, Open
  <2>6. Settled(c)
    BY <2>5, QuietUnwanted
  <2>7. page.login = id /\ \A ch \in Channel : page.paneOf[ch] = None
    BY <1>1
  <2>8. p # None
    BY NoneAssumption DEF Pane
  <2>9. PaneInv(p, c, page.login, page.paneOf, expired, visible)
    BY <1>2, <2>4, <2>5, <2>6, <2>7, <2>8 DEF PaneInv, SignedIn
  <2>10. QED
    BY <2>1, <2>3, <2>9
<1>4. page \in Page
  <2>1. page.client \in [Pane -> Client]
    BY <1>1, <1>3
  <2>2. page.paneOf \in [Channel -> Pane \cup {None}]
    BY <1>1
  <2>3. QED
    BY <1>1, <2>1, <2>2 DEF Page
<1>5. QED
  BY <1>2, <1>3, <1>4 DEF IInv, PageInv

LEMMA Step ==
    ASSUME IInv, [Next]_vars
    PROVE  IInv' /\ ForgetsOnRepeat
<1> USE DEF IInv
<1>1. /\ page \in Page /\ expired \in BOOLEAN /\ visible \in BOOLEAN
      /\ page.login \in Identity \cup {None}
      /\ \A p \in Pane : Settled(page.client[p]) /\ SignedIn(page.client[p], expired)
  BY DEF PageInv, PaneInv, Page
<1>2. \A p \in Pane : Forgotten(page.client[p]) \in Nat
  BY <1>1, ForgottenIsNat DEF Settled
<1>3. ASSUME \A p \in Pane : Forgotten(page'.client[p]) = Forgotten(page.client[p])
       PROVE  ForgetsOnRepeat
  <2>1. \A p \in Pane : Forgotten(page'.client[p]) =< Forgotten(page.client[p])
    BY <1>2, <1>3
  <2>2. QED
    BY <2>1 DEF ForgetsOnRepeat
<1>4. ASSUME NEW p \in Pane, NEW c, Settled(c), SignedIn(c, expired), Same(page.client[p], c),
             Forgotten(c) =< Forgotten(page.client[p]), Event(p, c)
      PROVE  IInv' /\ ForgetsOnRepeat
  <2>1. PageInv(With(page, p, c), expired, visible)
    BY <1>4, OnePane
  <2>2. page' = With(page, p, c) /\ expired' = expired /\ visible' = visible
    BY <1>4 DEF Event
  <2>3. \A q \in Pane : page'.client[q] = IF q = p THEN c ELSE page.client[q]
    BY <1>1, <2>2, WithField
  <2>4. ASSUME NEW q \in Pane
        PROVE  Forgotten(page'.client[q]) =< Forgotten(page.client[q])
    <3>1. CASE q = p
      BY <1>4, <2>3, <3>1
    <3>2. CASE q # p
      <4>1. Forgotten(page'.client[q]) = Forgotten(page.client[q])
        BY <2>3, <3>2
      <4>2. QED
        BY <1>2, <4>1
    <3>3. QED
      BY <3>1, <3>2
  <2>5. ForgetsOnRepeat
    BY <2>4 DEF ForgetsOnRepeat
  <2>6. QED
    BY <2>1, <2>2, <2>5
<1>5. CanConnect => Spared(page)
  BY DEF CanConnect, Spared
<1>6. ASSUME NEW p \in Pane, NEW n \in Socket, SocketOpens(p, n)
      PROVE  IInv' /\ ForgetsOnRepeat
  <2> DEFINE c == page.client[p]
             s == c.sock[n]
             nick == IF Authenticated(c.login) THEN c.login ELSE None
  <2>1. /\ Settled(c) /\ SignedIn(c, expired) /\ Steady(c) /\ c \in Client
        /\ s.st = "connecting" /\ s \in SocketState /\ n # 0
    <3>1. Settled(c) /\ SignedIn(c, expired) /\ c \in Client
      BY <1>1, SettledIsClient
    <3>2. s.st = "connecting"
      BY <1>6 DEF SocketOpens
    <3>3. s \in SocketState
      BY <3>1 DEF Client
    <3>4. n # 0
      BY DEF Socket
    <3>5. QED
      BY <3>1, <3>2, <3>3, <3>4 DEF Settled
  <2>2. c.socket = n
    BY <2>1 DEF Steady, Live
  <2>3. Wanted(c) /\ ~c.authFailed /\ ~c.retry
    BY <2>1, <2>2 DEF Settled
  <2>4. IsCurrentSocket(c, n)
    BY <2>2, <2>3 DEF IsCurrentSocket, Wanted
  <2>5. ASSUME NEW t \in SocketState, t.st = "open"
        PROVE  LET d == [c EXCEPT !.sock[n] = t] IN
               /\ Steady(d) /\ Alike(c, d) /\ d.retry = c.retry
               /\ d.socket = n /\ d.sock[n] = t
               /\ Forgotten(d) = Forgotten(c)
    <3> DEFINE d == [c EXCEPT !.sock[n] = t]
    <3>1. d \in Client
      BY <2>1, <2>5 DEF Client
    <3>2. /\ Alike(c, d) /\ d.retry = c.retry /\ d.timers = c.timers /\ d.socket = c.socket
          /\ d.sock = [c.sock EXCEPT ![n] = t]
      BY <2>1, SameTimers DEF Client, Alike
    <3>3. \A m \in Socket : d.sock[m] = IF m = n THEN t ELSE c.sock[m]
      BY <2>1, <3>2 DEF Client
    <3> HIDE DEF d
    <3>4. Steady(d)
      BY <2>1, <2>2, <2>5, <3>1, <3>2, <3>3 DEF Steady, Live
    <3>5. QED
      BY <2>2, <3>2, <3>3, <3>4 DEF d, Alike
  <2>6. CASE Event(p, [c EXCEPT !.sock[n] = [st |-> "open", nick |-> nick, room |-> c.channel]])
    <3> DEFINE t == [st |-> "open", nick |-> nick, room |-> c.channel]
               d == [c EXCEPT !.sock[n] = t]
    <3>1. t \in SocketState /\ t.st = "open" /\ t.nick = nick /\ t.room = c.channel
      BY <2>1 DEF SocketState, Client
    <3> HIDE DEF t
    <3>2. /\ Steady(d) /\ Alike(c, d) /\ d.retry = c.retry /\ d.socket = n /\ d.sock[n] = t
      BY <2>5, <3>1
    <3>3. Event(p, d)
      BY <2>6 DEF t
    <3> HIDE DEF d
    <3>4. Settled(d)
      BY <2>1, <2>2, <2>3, <3>1, <3>2 DEF Settled, Wanted, Alike
    <3>5. SignedIn(d, expired)
      BY <3>1, <3>2 DEF SignedIn, Authenticated, Alike
    <3>6. Forgotten(d) =< Forgotten(c)
      BY <1>2, <3>2 DEF Alike
    <3>7. QED
      BY <1>4, <3>2, <3>3, <3>4, <3>5, <3>6, AlikeIsSame
  <2>7. CASE Event(p, RestartConnection([c EXCEPT !.sock[n].st = "open"]))
    <3> DEFINE t == [s EXCEPT !.st = "open"]
               d == [c EXCEPT !.sock[n] = t]
               r == RestartConnection(d)
    <3>1. t \in SocketState /\ t.st = "open"
      BY <2>1 DEF SocketState
    <3>2. [c EXCEPT !.sock[n].st = "open"] = d
      BY <2>1 DEF Client
    <3> HIDE DEF t
    <3>3. Steady(d) /\ Alike(c, d) /\ d.retry = c.retry
      BY <2>5, <3>1
    <3>4. Event(p, r)
      BY <2>7, <3>2
    <3> HIDE DEF d
    <3>5. Wanted(d) /\ ~d.retry
      BY <2>3, <3>3 DEF Wanted, Alike
    <3>6. Settled(r) /\ Alike(d, r) /\ r.socket = 0
      BY <3>3, <3>5, Restarted
    <3> HIDE DEF r
    <3>7. SignedIn(r, expired) /\ Same(c, r) /\ Forgotten(r) = Forgotten(c)
      BY <3>3, <3>6 DEF SignedIn, Open, Alike, Same
    <3>8. Forgotten(r) =< Forgotten(c)
      BY <1>2, <3>7
    <3>9. QED
      BY <1>4, <3>4, <3>6, <3>7, <3>8
  <2>8. QED
    BY <1>6, <2>4, <2>6, <2>7 DEF SocketOpens
<1>7. ASSUME NEW p \in Pane, NEW n \in Socket, SocketCloses(p, n)
      PROVE  IInv' /\ ForgetsOnRepeat
  <2> DEFINE c == page.client[p]
             d == [c EXCEPT !.sock[n] = NoSocket]
             e == [d EXCEPT !.socket = 0]
  <2>1. Settled(c) /\ SignedIn(c, expired) /\ c \in Client /\ n # 0
    BY <1>1, SettledIsClient DEF Socket
  <2>2. d \in Client
    BY <2>1, ClosingIsASocketState DEF Client
  <2>3. /\ Alike(c, d) /\ d.retry = c.retry /\ d.timers = c.timers /\ d.socket = c.socket
        /\ d.sock = [c.sock EXCEPT ![n] = NoSocket]
    BY <2>1, SameTimers DEF Client, Alike
  <2>4. \A m \in Socket : d.sock[m] = IF m = n THEN NoSocket ELSE c.sock[m]
    BY <2>1, <2>3 DEF Client
  <2> HIDE DEF d
  <2>5. e \in Client /\ Alike(d, e) /\ e.retry = d.retry /\ e.timers = d.timers
        /\ e.socket = 0 /\ e.sock = d.sock
    BY <2>2, SameTimers DEF Client, Alike
  <2> HIDE DEF e
  <2>6. CASE IsCurrentSocket(c, n)
    <3>1. c.socket = n /\ ~c.retry
      BY <2>1, <2>6 DEF IsCurrentSocket, Settled
    <3>2. Quiet(e)
      BY <2>1, <2>3, <2>4, <2>5, <3>1, ClosingIsASocketState DEF Quiet, Settled, Steady
    <3>3. LET r == ScheduleReconnect(e) IN
          /\ Settled(r) /\ SignedIn(r, expired) /\ Same(c, r) /\ Forgotten(r) = Forgotten(c)
      BY <2>3, <2>5, <3>2, Rescheduled DEF SignedIn, Open, Alike, Same
    <3>4. Event(p, ScheduleReconnect(e))
      BY <1>7, <2>6 DEF SocketCloses, d, e
    <3>5. Forgotten(ScheduleReconnect(e)) =< Forgotten(c)
      BY <1>2, <3>3
    <3>6. QED
      BY <1>4, <3>3, <3>4, <3>5
  <2>7. CASE ~IsCurrentSocket(c, n)
    <3>1. c.socket # n
      BY <2>1, <2>7 DEF IsCurrentSocket, Settled, Wanted
    <3>2. c.socket # 0 => c.socket \in Socket
      BY <2>1 DEF Client
    <3>3. Settled(d) /\ SignedIn(d, expired) /\ Same(c, d)
      BY <2>1, <2>2, <2>3, <2>4, <3>1, <3>2, ClosingIsASocketState
         DEF Settled, Steady, SignedIn, Open, Wanted, Alike, Same
    <3>4. Event(p, d)
      BY <1>7, <2>7 DEF SocketCloses, d
    <3>5. Forgotten(d) =< Forgotten(c)
      BY <1>2, <2>3 DEF Alike
    <3>6. QED
      BY <1>4, <3>3, <3>4, <3>5
  <2>8. QED
    BY <2>6, <2>7
<1>8. ASSUME NEW p \in Pane, NEW n \in Socket, SocketErrors(p, n)
      PROVE  IInv' /\ ForgetsOnRepeat
  <2> DEFINE c == page.client[p]
             e == CancelSocket(c)
             r == ScheduleReconnect(e)
  <2>1. Settled(c) /\ c.socket # 0 /\ Event(p, r)
    BY <1>1, <1>8 DEF SocketErrors, IsCurrentSocket, Socket
  <2>2. Steady(e) /\ Alike(c, e) /\ e.socket = 0 /\ e.retry = c.retry
    BY <2>1, SocketCancelled DEF Settled
  <2> HIDE DEF e
  <2>3. Quiet(e)
    BY <2>1, <2>2 DEF Quiet, Steady, Settled, Socket
  <2>4. Settled(r) /\ Alike(e, r) /\ r.socket = 0
    BY <2>3, Rescheduled
  <2> HIDE DEF r
  <2>5. SignedIn(r, expired) /\ Same(c, r) /\ Forgotten(r) = Forgotten(c)
    BY <2>2, <2>4 DEF SignedIn, Open, Alike, Same
  <2>6. Forgotten(r) =< Forgotten(c)
    BY <1>2, <2>5
  <2>7. QED
    BY <1>4, <2>1, <2>4, <2>5, <2>6 DEF r
<1>9. ASSUME NEW p \in Pane, NEW n \in Socket, NEW frame \in Frame, SocketFrame(p, n, frame)
      PROVE  IInv' /\ ForgetsOnRepeat
  <2>1. page.client[p].socket # 0 /\ Spared(page)
    BY <1>5, <1>9 DEF SocketFrame, IsCurrentSocket, Socket
  <2>2. PICK works \in BOOLEAN : page' = HandleFrame(page, p, frame, works)
    BY <1>9 DEF SocketFrame
  <2>3. /\ PageInv(page', expired, visible)
        /\ Keeps(page, page', Pane \ {p})
        /\ \/ Keeps(page, page', Pane)
           \/ \E line \in {"reconnect", "denied"} : frame = <<line, "reconnect">>
    BY <2>1, <2>2, FrameHandled
  <2>4. expired' = expired /\ visible' = visible
    BY <1>9, <2>3 DEF SocketFrame, PageInv
  <2>5. CASE Keeps(page, page', Pane)
    BY <1>3, <2>3, <2>4, <2>5 DEF Keeps
  <2>6. CASE \E line \in {"reconnect", "denied"} : frame = <<line, "reconnect">>
    <3>1. \A q \in Pane \ {p} : Forgotten(page'.client[q]) =< Forgotten(page.client[q])
      BY <1>2, <2>3 DEF Keeps
    <3>2. \E m \in Socket, line \in {"reconnect", "denied"} :
            SocketFrame(p, m, <<line, "reconnect">>)
      BY <1>9, <2>6
    <3>3. ForgetsOnRepeat
      BY <3>1, <3>2 DEF ForgetsOnRepeat
    <3>4. QED
      BY <2>3, <2>4, <3>3
  <2>7. QED
    BY <2>3, <2>5, <2>6
<1>10. ASSUME NEW p \in Pane, RetryTimer(p)
      PROVE  IInv' /\ ForgetsOnRepeat
  <2> DEFINE c == page.client[p]
             d == [c EXCEPT !.retry = FALSE, !.timers = @ - 1]
  <2>1. /\ Settled(c) /\ c \in Client /\ c.timers > 0 /\ Unused(c) # {}
    BY <1>1, <1>10, SettledIsClient DEF RetryTimer, CanConnect
  <2>2. c.timers \in Nat /\ c.timers - 1 \in Nat
    BY <2>1 DEF Client
  <2>3. /\ d.retry = FALSE /\ d.timers = c.timers - 1 /\ d.socket = c.socket /\ d.sock = c.sock
        /\ Same(c, d) /\ d.authFailed = c.authFailed
    BY <2>1 DEF Client, Same
  <2>4. d \in Client
    BY <2>1, <2>2 DEF Client
  <2>5. PICK works \in BOOLEAN : Event(p, ConnectNow(d, "reconnecting", works))
    BY <1>10 DEF RetryTimer
  <2> HIDE DEF d
  <2>6. Steady(d) /\ Unused(d) # {}
    BY <2>1, <2>3, <2>4 DEF Settled, Steady, Unused
  <2>7. ~(Wanted(d) /\ ~d.authFailed) => Quiet(d)
    BY <2>1, <2>3, <2>4 DEF Settled, Steady, Quiet, Wanted, Same, Socket
  <2> DEFINE r == ConnectNow(d, "reconnecting", works)
  <2>8. Settled(r) /\ Alike(d, r) /\ ~Open(r)
    BY <2>6, <2>7, Reconnects DEF Label
  <2> HIDE DEF r
  <2>9. SignedIn(r, expired) /\ Same(c, r) /\ Forgotten(r) = Forgotten(d)
    BY <2>3, <2>8 DEF SignedIn, Alike, Same
  <2>10. Forgotten(d) = c.timers - 1
    <3>1. Forgotten(d) = d.timers - 0
      BY <2>3 DEF Forgotten
    <3>2. QED
      BY <2>2, <2>3, <3>1
  <2>11. c.timers - 1 =< Forgotten(c)
    BY <2>1, <2>2 DEF Forgotten
  <2>12. Forgotten(r) =< Forgotten(c)
    BY <2>9, <2>10, <2>11
  <2>13. Event(p, r)
    BY <2>5 DEF r
  <2>14. QED
    BY <1>4, <2>8, <2>9, <2>12, <2>13
<1>11. CASE Expires
  <2>1. page' = page /\ expired' = TRUE /\ visible' = visible /\ page.login # None
    BY <1>11 DEF Expires
  <2>2. \A p \in Pane : PaneInv(p, page.client[p], page.login, page.paneOf, TRUE, visible)
    BY DEF PageInv, PaneInv, SignedIn
  <2>3. PageInv(page, TRUE, visible)
    BY <2>1, <2>2 DEF PageInv
  <2>4. ForgetsOnRepeat
    BY <1>3, <2>1
  <2>5. QED
    BY <2>1, <2>3, <2>4
<1>12. CASE ExpiryTimer
  <2>1. PICK works \in BOOLEAN : page' = Logout(page, works)
    BY <1>12 DEF ExpiryTimer
  <2>2. Spared(page) /\ expired' = FALSE /\ visible' = visible
    BY <1>5, <1>12 DEF ExpiryTimer
  <2>3. PageInv(Logout(page, works), FALSE, visible) /\ Keeps(page, Logout(page, works), Pane)
    BY <2>2, LoggedOut
  <2>4. ForgetsOnRepeat
    BY <1>3, <2>1, <2>3 DEF Keeps
  <2>5. QED
    BY <2>1, <2>2, <2>3, <2>4
<1>13. CASE UserLogsOut
  <2>1. PICK works \in BOOLEAN : page' = Logout(page, works)
    BY <1>13 DEF UserLogsOut
  <2>2. Spared(page) /\ expired' = expired /\ ~expired /\ visible' = visible
    BY <1>5, <1>13 DEF UserLogsOut, Authenticated
  <2>3. PageInv(Logout(page, works), FALSE, visible) /\ Keeps(page, Logout(page, works), Pane)
    BY <2>2, LoggedOut
  <2>4. expired' = FALSE
    BY <1>1, <2>2
  <2>5. ForgetsOnRepeat
    BY <1>3, <2>1, <2>3 DEF Keeps
  <2>6. QED
    BY <2>1, <2>2, <2>3, <2>4, <2>5
<1>14. ASSUME NEW id \in Identity, UserLogsIn(id)
       PROVE  IInv' /\ ForgetsOnRepeat
  <2>1. PICK works \in BOOLEAN : page' = [ApplyIdentity(page, id, works) EXCEPT !.expiry = TRUE]
    BY <1>14 DEF UserLogsIn
  <2>2. Spared(page) /\ expired' = FALSE /\ visible' = visible /\ id # page.login
    BY <1>5, <1>14 DEF UserLogsIn
  <2> DEFINE w == ApplyIdentity(page, id, works)
  <2>3. PageInv(w, FALSE, visible) /\ Keeps(page, w, Pane)
    BY <2>2, IdentityApplied
  <2> HIDE DEF w
  <2>4. \A b \in BOOLEAN : LET x == [w EXCEPT !.expiry = b] IN
            PageInv(x, FALSE, visible) /\ x.client = w.client
    BY <2>3, ExpirySet
  <2>5. TRUE \in BOOLEAN
    OBVIOUS
  <2>6. LET x == [w EXCEPT !.expiry = TRUE] IN
            PageInv(x, FALSE, visible) /\ x.client = w.client
    BY <2>4, <2>5, Zenon
  <2>7. page' = [w EXCEPT !.expiry = TRUE]
    BY <2>1 DEF w
  <2>8. page'.client = w.client
    BY <2>6, <2>7
  <2>9. ForgetsOnRepeat
    BY <1>3, <2>3, <2>8 DEF Keeps
  <2>10. QED
    BY <2>2, <2>6, <2>7, <2>9
<1>15. CASE SetVisible
  <2>0. PICK on \in BOOLEAN : on = ~visible
    OBVIOUS
  <2> DEFINE C(b) == [p \in Pane |-> IF p = Primary \/ p \in Active(page)
                                     THEN SetEnabled(page.client[p], on, b)
                                     ELSE page.client[p]]
  <2>1. PICK works \in BOOLEAN : page' = [page EXCEPT !.client = C(works)]
    BY <1>15, <2>0, Zenon DEF SetVisible
  <2>2. Spared(page) /\ expired' = expired /\ visible' = on
    BY <1>5, <1>15, <2>0, Zenon DEF SetVisible
  <2>3. ASSUME NEW p \in Pane
        PROVE  /\ C(works)[p] \in Client
               /\ PaneInv(p, C(works)[p], page.login, page.paneOf, expired, on)
               /\ Forgotten(C(works)[p]) = Forgotten(page.client[p])
    <3> DEFINE c == page.client[p]
               d == SetEnabled(c, on, works)
               x == C(works)[p]
    <3>1. PaneInv(p, c, page.login, page.paneOf, expired, visible) /\ Unused(c) # {}
      BY <2>2 DEF PageInv, Spared
    <3>2. x = IF ~c.destroyed THEN d ELSE c
      BY InUse
    <3>3. /\ Settled(d)
          /\ d.channel = c.channel /\ d.destroyed = c.destroyed /\ d.login = c.login
          /\ ~c.destroyed => d.enabled = on
          /\ IF c.destroyed \/ on = c.enabled THEN d = c ELSE ~Open(d)
          /\ Forgotten(d) = Forgotten(c)
      BY <3>1, EnabledSet DEF PaneInv
    <3>4. page.client[p] = c
      OBVIOUS
    <3>5. Forgotten(x) = Forgotten(c)
      BY <3>2, <3>3
    <3> HIDE DEF x, c, d
    <3>6. ASSUME c.destroyed
          PROVE  x \in Client /\ PaneInv(p, x, page.login, page.paneOf, expired, on)
      BY <3>1, <3>2, <3>6, SettledIsClient DEF PaneInv
    <3>7. ASSUME ~c.destroyed
          PROVE  x \in Client /\ PaneInv(p, x, page.login, page.paneOf, expired, on)
      BY <3>1, <3>2, <3>3, <3>7, SettledIsClient DEF PaneInv, SignedIn
    <3>8. QED
      BY <3>4, <3>5, <3>6, <3>7 DEF x
  <2>4. C(works) \in [Pane -> Client]
    BY <2>3
  <2> DEFINE D == C(works)
  <2>5. /\ page' = [page EXCEPT !.client = D]
        /\ \A p \in Pane : /\ PaneInv(p, D[p], page.login, page.paneOf, expired, on)
                           /\ Forgotten(D[p]) = Forgotten(page.client[p])
    BY <2>1, <2>3
  <2> HIDE DEF D
  <2>6. page' \in Page /\ page'.client = D /\ page'.login = page.login /\ page'.paneOf = page.paneOf
    BY <1>1, <2>4, <2>5 DEF Page, D
  <2>7. PageInv(page', expired, on)
    BY <1>1, <2>5, <2>6 DEF PageInv
  <2>8. ForgetsOnRepeat
    BY <1>3, <2>5, <2>6
  <2>9. QED
    BY <2>2, <2>7, <2>8
<1>16. ASSUME NEW targets \in SUBSET Channel, SyncChatPanes(targets)
       PROVE  IInv' /\ ForgetsOnRepeat
  <2>1. PICK f \in [Channel -> Pane \cup {None}], works \in BOOLEAN :
            /\ {ch \in Channel : f[ch] # None} = targets
            /\ \A ch, other \in targets : f[ch] = f[other] => ch = other
            /\ page' = [page EXCEPT !.paneOf = f,
                                    !.client = [p \in Pane |-> Moved(p, f, works)]]
    BY <1>16 DEF SyncChatPanes
  <2>2. Spared(page) /\ expired' = expired /\ visible' = visible
    BY <1>5, <1>16 DEF SyncChatPanes
  <2>3. Assigned(f)
    BY <2>1 DEF Assigned
  <2> DEFINE D == [p \in Pane |-> Moved(p, f, works)]
  <2>4. \A p \in Pane : /\ PaneInv(p, D[p], page.login, f, expired, visible)
                       /\ Forgotten(D[p]) =< Forgotten(page.client[p])
    BY <2>2, <2>3, PaneMoved
  <2>5. D \in [Pane -> Client]
    BY <2>4, SettledIsClient DEF PaneInv
  <2>6. page' = [page EXCEPT !.paneOf = f, !.client = D]
    BY <2>1
  <2> HIDE DEF D
  <2>7. page' \in Page /\ page'.client = D /\ page'.login = page.login /\ page'.paneOf = f
    BY <1>1, <2>5, <2>6 DEF Page
  <2>8. PageInv(page', expired, visible)
    BY <1>1, <2>4, <2>7 DEF PageInv
  <2>9. ForgetsOnRepeat
    BY <2>4, <2>7 DEF ForgetsOnRepeat
  <2>10. QED
    BY <2>2, <2>8, <2>9
<1>17. CASE UNCHANGED vars
  BY <1>3, <1>17 DEF vars
<1>18. QED
  BY <1>6, <1>7, <1>8, <1>9, <1>10, <1>11, <1>12, <1>13, <1>14, <1>15, <1>16, <1>17 DEF Next
-----------------------------------------------------------------------------
(* The theorems. *)

\* The invariant holds in every behaviour of the page.
THEOREM Invariance == Spec => []IInv
<1>1. Init => IInv
  BY InitInv
<1>2. IInv /\ [Next]_vars => IInv'
  BY Step
<1>3. QED
  BY <1>1, <1>2, PTL DEF Spec

\* The clients, the panes and the login keep their types.
THEOREM TypeCorrect == Spec => []TypeOK
<1>1. IInv => TypeOK
  BY DEF IInv, PageInv, TypeOK
<1>2. QED
  BY <1>1, Invariance, PTL

\* A pane has one live socket at most and no retry beside it, and forgets a timer only
\* at a RECONNECT after another or a refusal in the same frame (connectNow,
\* restartConnection, scheduleReconnect and the socket's events).
THEOREM SingleConnection == Spec => OneConnection
<1>1. ASSUME IInv
      PROVE  Connected
  <2>1. \A p \in Pane : Settled(page.client[p])
    BY <1>1 DEF IInv, PageInv, PaneInv
  <2>2. QED
    BY <2>1 DEF Connected, Settled, Steady, Live
<1>2. IInv /\ [Next]_vars => ForgetsOnRepeat
  BY Step
<1>3. IInv /\ [Next]_vars => [ForgetsOnRepeat]_vars
  BY <1>2
<1>4. QED
  BY <1>1, <1>3, Invariance, PTL DEF OneConnection, Spec

\* A pane that wants a connection, and was not refused, has one or will retry.
THEOREM NothingStranded == Spec => []NeverStranded
<1>1. ASSUME IInv
      PROVE  NeverStranded
  <2>1. \A p \in Pane : Settled(page.client[p])
    BY <1>1 DEF IInv, PageInv, PaneInv
  <2>2. QED
    BY <2>1 DEF NeverStranded, Settled
<1>2. QED
  BY <1>1, Invariance, PTL

\* A pane that may send is signed in as the page's login and in its own room
\* (sendMessage, applyIdentity, syncChatPanes).
THEOREM RightNameAndRoom == Spec => []SpeaksAsShown
<1>1. ASSUME IInv
      PROVE  SpeaksAsShown
  <2> SUFFICES ASSUME NEW p \in Pane,
                      Authenticated(page.client[p].login), page.client[p].socket # 0,
                      page.client[p].sock[page.client[p].socket].st = "open"
               PROVE  LET c == page.client[p]
                          s == c.sock[c.socket]
                      IN  s.nick = page.login /\ s.room = c.channel /\ page.paneOf[s.room] = p
    BY DEF SpeaksAsShown
  <2> DEFINE c == page.client[p]
  <2>1. PaneInv(p, c, page.login, page.paneOf, expired, visible) /\ c.login # None /\ ~expired
    BY <1>1 DEF IInv, PageInv, Authenticated
  <2>2. Open(c)
    BY DEF Open
  <2> HIDE DEF c
  <2>3. Wanted(c) /\ c.sock[c.socket].room = c.channel
    BY <2>1, <2>2 DEF PaneInv, Settled, Open
  <2>4. c.sock[c.socket].nick = page.login
    BY <2>1, <2>2, <2>3 DEF PaneInv, SignedIn, Wanted
  <2>5. page.paneOf[c.channel] = p
    BY <2>1, <2>3 DEF PaneInv, Wanted
  <2>6. QED
    BY <2>3, <2>4, <2>5 DEF c
<1>2. QED
  BY <1>1, Invariance, PTL

\* The panes in use agree with the page, and no other pane is connected (setVisible,
\* applyIdentity, syncChatPanes).
THEOREM Agreement == Spec => []PanesAgree
<1>1. ASSUME IInv
      PROVE  PanesAgree
  <2>1. page \in Page /\ \A p \in Pane : PaneInv(p, page.client[p], page.login, page.paneOf, expired, visible)
    BY <1>1 DEF IInv, PageInv
  <2>2. ASSUME NEW ch \in Channel, page.paneOf[ch] # None
        PROVE  LET c == page.client[page.paneOf[ch]] IN
               /\ ~c.destroyed /\ c.channel = ch
               /\ c.login = page.login /\ c.enabled = visible
    <3>1. page.paneOf[ch] \in Pane
      BY <2>1, <2>2 DEF Page
    <3>2. QED
      BY <2>1, <3>1 DEF PaneInv
  <2>3. ASSUME NEW p \in Pane, p \notin Active(page)
        PROVE  ~Wanted(page.client[p])
    <3>1. \A ch \in Channel : page.paneOf[ch] # p
      BY <2>3, NoneAssumption DEF Active, Pane
    <3>2. QED
      BY <2>1, <3>1 DEF PaneInv, Wanted
  <2>4. QED
    BY <2>2, <2>3 DEF PanesAgree
<1>2. QED
  BY <1>1, Invariance, PTL
=============================================================================
