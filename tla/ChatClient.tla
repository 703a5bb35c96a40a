----------------------------- MODULE ChatClient -----------------------------
(***************************************************************************)
(* The chat of the player page (html/js/twitch_chat.js): one IRC client    *)
(* for each pane, the panes of the open channels and the login they share. *)
(*                                                                         *)
(* The page is one thread, so an action is a whole event handler.  What    *)
(* interleaves is what the page waits for: its sockets, its timers, the    *)
(* user.  A handler is a composition of functions on the page's state, as  *)
(* in the code, where one method calls another.  A closed socket still has *)
(* events to deliver; the code recognises them by the socket and by a      *)
(* generation that changes whenever the socket does, so the model needs    *)
(* the socket only.  A frame holds one line or two, whatever they are.     *)
(***************************************************************************)
EXTENDS Integers, Sequences

CONSTANTS
    Channel,
    Identity,       \* the logins, each with its token and its expiresAt
    Primary,        \* the pane of the page's markup
    Dynamic,        \* the panes created for further channels
    Sockets,        \* bound: sockets of a pane that still have events
    MaxForgotten,   \* bound: timers of a pane that its client has forgotten
    None

ASSUME PaneAssumption == Primary \notin Dynamic
ASSUME SocketAssumption == Sockets \in Nat
ASSUME ForgottenAssumption == MaxForgotten \in Nat
ASSUME NoneAssumption == None \notin Channel /\ None \notin Identity
                         /\ None \notin Dynamic /\ None # Primary

Pane == Dynamic \cup {Primary}
Socket == 1..Sockets

VARIABLES
    page,       \* the clients, the panes and the login, see Page
    expired,    \* the current login is past its expiresAt
    visible     \* the chat panel is shown

vars == <<page, expired, visible>>

Line == {"welcome", "reconnect", "denied"}
Frame == {<<l>> : l \in Line} \cup (Line \X Line)

SocketState == [st : {"gone", "connecting", "open", "closing"},
                nick : Identity \cup {None},    \* None: justinfan
                room : Channel \cup {None}]

\* TwitchIRCClient
Client == [channel : Channel \cup {None},
           enabled : BOOLEAN,
           destroyed : BOOLEAN,
           socket : Socket \cup {0},            \* 0: null
           retry : BOOLEAN,                     \* retryTimer is set
           timers : Nat,                        \* the timers that will fire
           state : {"idle", "connecting", "connected", "reconnecting", "unavailable"},
           authFailed : BOOLEAN,
           login : Identity \cup {None},
           sock : [Socket -> SocketState]]

Page == [client : [Pane -> Client],
         paneOf : [Channel -> Pane \cup {None}],    \* activePanes
         login : Identity \cup {None},              \* currentIdentity
         expiry : BOOLEAN]                          \* authExpiryTimer is set

TypeOK ==
    /\ page \in Page
    /\ expired \in BOOLEAN
    /\ visible \in BOOLEAN
-----------------------------------------------------------------------------
(* The client: each operator is what a method makes of the client c. *)

NoSocket == [st |-> "gone", nick |-> None, room |-> None]

\* Mutant: the timer is left to fire.
ClearRetryOnly(c) == [c EXCEPT !.retry = FALSE]

ClearRetry(c) ==
    [c EXCEPT !.retry = FALSE, !.timers = IF c.retry THEN c.timers - 1 ELSE c.timers]

Closing == [NoSocket EXCEPT !.st = "closing"]

CancelSocket(c) ==
    IF c.socket = 0 THEN c
    ELSE [c EXCEPT !.socket = 0, !.sock[c.socket] = Closing]

CancelConnection(c) == CancelSocket(ClearRetry(c))

SetRetry(c) == [c EXCEPT !.state = "reconnecting", !.retry = TRUE, !.timers = @ + 1]

ScheduleReconnect(c) ==
    IF c.retry \/ ~c.enabled \/ c.channel = None \/ c.destroyed \/ c.authFailed THEN c
    ELSE SetRetry(c)

\* A retry that is set is not cleared, but forgotten.
RestartConnection(c) ==
    IF ~c.enabled \/ c.channel = None \/ c.destroyed THEN c
    ELSE SetRetry(CancelSocket(c))

Unused(c) == {n \in Socket : c.sock[n].st = "gone"}

\* Mutant: a socket that cannot be created is the end of it.
NewSocketOrGiveUp(c, works) ==
    LET n == CHOOSE m \in Unused(c) : TRUE
    IN  IF works THEN [c EXCEPT !.socket = n, !.sock[n] = [NoSocket EXCEPT !.st = "connecting"]]
        ELSE c

\* works: the socket could be created
NewSocket(c, works) ==
    LET n == CHOOSE m \in Unused(c) : TRUE
    IN  IF works THEN [c EXCEPT !.socket = n, !.sock[n] = [NoSocket EXCEPT !.st = "connecting"]]
        ELSE ScheduleReconnect(c)

ConnectNow(c, label, works) ==
    IF c.destroyed \/ ~c.enabled \/ c.channel = None \/ c.authFailed THEN c
    ELSE NewSocket([CancelSocket(ClearRetry(c)) EXCEPT !.state = label], works)

\* Mutant: the connection outlives the change of the login.
SetIdentityOnly(c, id, works) ==
    IF c.socket = 0 /\ c.enabled /\ c.channel # None
    THEN ConnectNow([c EXCEPT !.login = id, !.authFailed = FALSE], "connecting", works)
    ELSE [c EXCEPT !.login = id, !.authFailed = FALSE]

SetIdentity(c, id, works) ==
    IF id = c.login THEN c
    ELSE LET d == [CancelConnection(c) EXCEPT !.login = id, !.authFailed = FALSE]
         IN  IF d.enabled /\ d.channel # None THEN ConnectNow(d, "connecting", works)
             ELSE [d EXCEPT !.state = "idle"]

SetChannel(c, ch, works) ==
    IF ch = c.channel THEN c
    ELSE LET d == [CancelConnection(c) EXCEPT !.channel = ch, !.authFailed = FALSE]
         IN  IF ~d.enabled \/ ch = None THEN [d EXCEPT !.state = "idle"]
             ELSE ConnectNow(d, "connecting", works)

SetEnabled(c, on, works) ==
    IF c.destroyed \/ on = c.enabled THEN c
    ELSE LET d == [c EXCEPT !.enabled = on, !.authFailed = FALSE]
         IN  IF ~on THEN [CancelConnection(d) EXCEPT !.state = "idle"]
             ELSE IF d.channel = None THEN [c EXCEPT !.enabled = on, !.state = "idle"]
             ELSE ConnectNow(d, "connecting", works)

IsCurrentSocket(c, n) == ~c.destroyed /\ c.socket = n

\* A new client on a pane whose former client c was destroyed; the sockets of that
\* one may have events left.
NewClient(c, id) ==
    [channel |-> None, enabled |-> FALSE, destroyed |-> FALSE, socket |-> 0,
     retry |-> FALSE, timers |-> c.timers, state |-> "idle", authFailed |-> FALSE,
     login |-> id, sock |-> c.sock]

\* The page drops the client, so that nothing else of it is read again, and a timer
\* it had forgotten finds it destroyed and does nothing.
Destroy(c) ==
    [NewClient(CancelConnection(c), None) EXCEPT !.destroyed = TRUE, !.timers = 0]
-----------------------------------------------------------------------------
(* The page: what a function makes of the page w. *)

With(w, p, c) == [w EXCEPT !.client[p] = c]

\* initTwitchChat's isAuthenticated and the client's agree: a client has the
\* page's login.
Authenticated(id) == id # None /\ ~expired

Active(w) == {w.paneOf[ch] : ch \in {x \in Channel : w.paneOf[x] # None}}

ApplyIdentity(w, id, works) ==
    [w EXCEPT !.login = id,
              !.client = [p \in Pane |-> IF p = Primary \/ p \in Active(w)
                                         THEN SetIdentity(w.client[p], id, works)
                                         ELSE w.client[p]]]

Logout(w, works) == ApplyIdentity([w EXCEPT !.expiry = FALSE], None, works)

\* A refusal ends the connection, and the login if it was still valid.
Denied(w, p, works) ==
    LET c == w.client[p]
        d == CancelConnection([c EXCEPT !.authFailed = TRUE, !.state = "unavailable"])
    IN  IF Authenticated(c.login) THEN Logout(With(w, p, d), works) ELSE With(w, p, d)

HandleLine(w, p, line, works) ==
    CASE line = "welcome"   -> With(w, p, [w.client[p] EXCEPT !.state = "connected"])
      [] line = "reconnect" -> With(w, p, RestartConnection(w.client[p]))
      [] line = "denied"    -> Denied(w, p, works)

\* Every line of a frame is handled, although the one before may have replaced
\* the socket.
HandleFrame(w, p, frame, works) ==
    LET v == HandleLine(w, p, frame[1], works)
    IN  IF Len(frame) = 1 THEN v ELSE HandleLine(v, p, frame[2], works)

-----------------------------------------------------------------------------
Init ==
    /\ visible \in BOOLEAN
    /\ expired = FALSE
    /\ \E id \in Identity \cup {None} :
        page = [client |-> [p \in Pane |->
                    [NewClient([timers |-> 0, sock |-> [n \in Socket |-> NoSocket]], id)
                        EXCEPT !.enabled = (p = Primary /\ visible),
                               !.destroyed = (p # Primary)]],
                paneOf |-> [ch \in Channel |-> None],
                login |-> id,
                expiry |-> (id # None)]

\* Bound: a step that may connect waits until each pane has a socket to spare.
CanConnect == \A p \in Pane : Unused(page.client[p]) # {}

\* The timers that retryTimer does not name: nothing can clear them.
Forgotten(c) == c.timers - (IF c.retry THEN 1 ELSE 0)

Event(p, c) == page' = With(page, p, c) /\ UNCHANGED <<expired, visible>>

\* The open event: the client signs in and joins, or a send fails.
SocketOpens(p, n) ==
    LET c == page.client[p]
        s == c.sock[n]
        nick == IF Authenticated(c.login) THEN c.login ELSE None
    IN  /\ s.st = "connecting"
        /\ \/ Event(p, [c EXCEPT !.sock[n] = IF IsCurrentSocket(c, n)
                            THEN [st |-> "open", nick |-> nick, room |-> c.channel]
                            ELSE [s EXCEPT !.st = "open"]])
           \/ /\ IsCurrentSocket(c, n)
              /\ Event(p, RestartConnection([c EXCEPT !.sock[n].st = "open"]))

\* A message event, of a closing socket too.  Bound: a frame that would make the pane
\* forget one more timer than MaxForgotten does not come.
SocketFrame(p, n, frame) ==
    /\ page.client[p].sock[n].st \in {"open", "closing"}
    /\ IsCurrentSocket(page.client[p], n)
    /\ CanConnect
    /\ \E works \in BOOLEAN : page' = HandleFrame(page, p, frame, works)
    /\ Forgotten(page'.client[p]) =< MaxForgotten
    /\ expired' = (expired /\ page'.login # None)
    /\ UNCHANGED visible

\* The close event is the last one of a socket.
SocketCloses(p, n) ==
    LET c == page.client[p]
        d == [c EXCEPT !.sock[n] = NoSocket]
    IN  /\ c.sock[n].st # "gone"
        /\ Event(p, IF IsCurrentSocket(c, n) THEN ScheduleReconnect([d EXCEPT !.socket = 0])
                    ELSE d)

\* The error event comes before the close event, or instead of it.
SocketErrors(p, n) ==
    LET c == page.client[p]
    IN  /\ c.sock[n].st # "gone"
        /\ IsCurrentSocket(c, n)
        /\ Event(p, ScheduleReconnect(CancelSocket(c)))

\* A timer of scheduleReconnect or restartConnection, the one that retryTimer names
\* or a forgotten one: either resets retryTimer and connects.
RetryTimer(p) ==
    LET c == page.client[p]
        d == [c EXCEPT !.retry = FALSE, !.timers = @ - 1]
    IN  /\ c.timers > 0
        /\ CanConnect
        /\ \E works \in BOOLEAN : Event(p, ConnectNow(d, "reconnecting", works))

\* The login passes its expiresAt.
Expires ==
    /\ page.login # None
    /\ expired' = TRUE
    /\ UNCHANGED <<page, visible>>

\* The expiry timer.  It fires early when the login lives longer than a timer
\* can run, and is then set again.
ExpiryTimer ==
    /\ page.expiry /\ expired
    /\ CanConnect
    /\ expired' = FALSE
    /\ \E works \in BOOLEAN : page' = Logout(page, works)
    /\ UNCHANGED visible

\* The Log out button.
UserLogsOut ==
    /\ Authenticated(page.login)
    /\ CanConnect
    /\ \E works \in BOOLEAN : page' = Logout(page, works)
    /\ UNCHANGED <<expired, visible>>

\* Mutant: the expiry of the new login is not scheduled.
UserLogsInForGood(id) ==
    /\ id # page.login
    /\ CanConnect
    /\ \E works \in BOOLEAN : page' = ApplyIdentity(page, id, works)
    /\ expired' = FALSE
    /\ UNCHANGED visible

\* The login window answers, whatever the login is by then.
UserLogsIn(id) ==
    /\ id # page.login
    /\ CanConnect
    /\ \E works \in BOOLEAN :
        page' = [ApplyIdentity(page, id, works) EXCEPT !.expiry = TRUE]
    /\ expired' = FALSE
    /\ UNCHANGED visible

\* Mutant: only the primary pane is told.
SetVisiblePrimary ==
    /\ CanConnect
    /\ visible' = ~visible
    /\ \E works \in BOOLEAN :
        page' = With(page, Primary, SetEnabled(page.client[Primary], ~visible, works))
    /\ UNCHANGED expired

\* setVisible: every pane in use follows.
SetVisible ==
    /\ CanConnect
    /\ visible' = ~visible
    /\ \E works \in BOOLEAN :
        page' = [page EXCEPT !.client = [p \in Pane |->
                    IF p = Primary \/ p \in Active(page)
                    THEN SetEnabled(page.client[p], ~visible, works)
                    ELSE page.client[p]]]
    /\ UNCHANGED expired

\* What becomes of the client of a pane when the panes of the channels change from
\* paneOf to f: releasePaneForChannel, then acquirePaneForChannel.
Moved(p, f, works) ==
    LET c == page.client[p]
        left == \E ch \in Channel : page.paneOf[ch] = p /\ f[ch] # p
        new == {ch \in Channel : f[ch] = p /\ page.paneOf[ch] # p}
        free == IF ~left THEN c
                ELSE IF p = Primary THEN SetChannel(c, None, TRUE) ELSE Destroy(c)
        own == IF p = Primary THEN free
               ELSE SetEnabled(NewClient(free, page.login), visible, works)
    IN  IF new = {} THEN free ELSE SetChannel(own, CHOOSE ch \in new : TRUE, works)

\* The player opens and closes channels (setChannel, setChannels,
\* setPlaybackState, setChatMultiMode) and syncChatPanes follows: a channel that
\* stays keeps its pane, the first new one gets the primary pane if that is
\* free, the others new panes.
SyncChatPanes(targets) ==
    /\ CanConnect
    /\ \E f \in [Channel -> Pane \cup {None}], works \in BOOLEAN :
        /\ {ch \in Channel : f[ch] # None} = targets
        /\ \A ch \in targets : page.paneOf[ch] # None => f[ch] = page.paneOf[ch]
        /\ \A ch, other \in targets : f[ch] = f[other] => ch = other
        /\ targets # {} /\ (\A ch \in targets : f[ch] # Primary)
           => \A ch \in targets : page.paneOf[ch] # None
        /\ page' = [page EXCEPT !.paneOf = f,
                                !.client = [p \in Pane |-> Moved(p, f, works)]]
    /\ UNCHANGED <<expired, visible>>

Next ==
    \/ \E p \in Pane :
        \/ \E n \in Socket :
            \/ SocketOpens(p, n) \/ SocketCloses(p, n) \/ SocketErrors(p, n)
            \/ \E frame \in Frame : SocketFrame(p, n, frame)
        \/ RetryTimer(p)
    \/ Expires \/ ExpiryTimer \/ UserLogsOut
    \/ \E id \in Identity : UserLogsIn(id)
    \/ SetVisible
    \/ \E targets \in SUBSET Channel : SyncChatPanes(targets)

Spec == Init /\ [][Next]_vars

\* The timer of an expired login is due, and ends it if no new login comes first.
ExpiredLoginEnds == page.expiry /\ expired /\ CanConnect /\ expired' = FALSE

\* While there are sockets that were closed, one of them says so in the end; and a
\* timer that is due fires: only the bound on the sockets can put it off, so its
\* fairness is strong.
FairSpec ==
    /\ Spec
    /\ WF_vars(\E p \in Pane, n \in Socket :
                    page.client[p].sock[n].st = "closing" /\ SocketCloses(p, n))
    /\ SF_expired(ExpiredLoginEnds)
-----------------------------------------------------------------------------
(* Properties. *)

Wanted(c) == c.enabled /\ c.channel # None /\ ~c.destroyed

\* A pane has one live socket at most, the current one; a retry that it knows of is
\* pending, and is not set beside a socket; and it has neither when it wants no
\* connection.
Connected ==
    \A p \in Pane : LET c == page.client[p] IN
        /\ \A n \in Socket : c.sock[n].st \in {"connecting", "open"} => c.socket = n
        /\ c.retry => c.timers > 0
        /\ c.socket # 0 => ~c.retry
        /\ c.socket # 0 \/ c.retry => Wanted(c)

\* No step makes a pane forget a timer that will fire, but a RECONNECT that follows
\* another or a refusal in one frame.
ForgetsOnRepeat ==
    \A p \in Pane :
        \/ Forgotten(page'.client[p]) =< Forgotten(page.client[p])
        \/ \E n \in Socket, line \in {"reconnect", "denied"} :
            SocketFrame(p, n, <<line, "reconnect">>)

\* However its socket fails, is replaced or is told to reconnect, a pane has one
\* live socket at most, and no retry but the one it knows of - with one exception:
\* the RECONNECT of ForgetsOnRepeat overwrites retryTimer (restartConnection), and
\* the timer it forgets replaces the connection once more.
OneConnection == []Connected /\ [][ForgetsOnRepeat]_vars

\* A pane that wants a connection, and was not refused, has one or a retry that
\* will make one.
NeverStranded ==
    \A p \in Pane : LET c == page.client[p] IN
        Wanted(c) /\ ~c.authFailed => c.socket # 0 \/ c.retry

\* A pane that may send - sendMessage asks for a valid login and an open socket -
\* is signed in as the login the page shows and is in the room whose pane it is.  So
\* a message goes out under the right name, and a refusal ends the login it is of.
SpeaksAsShown ==
    \A p \in Pane : LET c == page.client[p]
                          s == c.sock[c.socket]
                      IN  Authenticated(c.login) /\ c.socket # 0 /\ s.st = "open" =>
                              /\ s.nick = page.login
                              /\ s.room = c.channel
                              /\ page.paneOf[s.room] = p

\* The panes in use are those of different channels, and have the login and the
\* visibility of the page; no other pane is connected.
PanesAgree ==
    /\ \A ch \in Channel : page.paneOf[ch] # None =>
        LET c == page.client[page.paneOf[ch]] IN
        /\ ~c.destroyed /\ c.channel = ch
        /\ c.login = page.login /\ c.enabled = visible
    /\ \A p \in Pane : p \notin Active(page) => ~Wanted(page.client[p])

\* A pane that was refused because the login had expired is not left unavailable:
\* the login ends, and the pane connects again without one.
RefusedRecovers ==
    \A p \in Pane : page.client[p].authFailed /\ page.client[p].login # None
                        ~> ~page.client[p].authFailed
=============================================================================
