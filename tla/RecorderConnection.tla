------------------------ MODULE RecorderConnection ------------------------
(***************************************************************************)
(* The device connection of the task recorder in the browser               *)
(* (web/static/js/components/task-recorder.js: connect, disconnect, show,  *)
(* hide, the handlers of its WebSockets, the heartbeat and the automatic   *)
(* reconnect), with the navigation and the session expiry of app.js that   *)
(* call them.  The page is one event loop: a step is a user's event, a     *)
(* timer or the arrival of an answer, run to its next await.  One device   *)
(* is on the list.  The server side is DeviceConnections seen from here.   *)
(***************************************************************************)
EXTENDS Naturals, Sequences, FiniteSets

CONSTANTS
    MaxSockets,             \* bound: the WebSockets the page opens
    MaxDials,               \* bound: connect() calls awaiting their answers
    maxReconnectAttempts

ASSUME RecorderAssumption ==
    /\ MaxSockets \in Nat \ {0} /\ MaxDials \in Nat \ {0}
    /\ maxReconnectAttempts \in Nat

VARIABLES
    visible,            \* taskRecorder.isVisible
    loggedIn,           \* auth_token is in localStorage
    deviceSelect,       \* the device list: being loaded, listed, one chosen
    isConnected, userDisconnected, reconnectAttempts,
    websocket,          \* this.websocket: the last socket made, or None
    dialing,            \* connect() calls that await the token or the answer
    timers,             \* pending reconnect timers
    heartbeat,          \* heartbeatInterval is set
    pingTimer,          \* heartbeatTimeout is set
    unstable,           \* the status reads "connection unstable"
    sock,               \* the browser's state of each socket
    greeted,            \* the sockets whose "connected" has arrived
    inbox,              \* messages under way from the server
    heard,              \* the sockets on which the server received auth_init
    server,             \* the server's coroutine of each socket
    overlap             \* history: connect() ran beside an unfinished one

viewVars == <<visible, loggedIn, deviceSelect>>
retryVars == <<dialing, timers, reconnectAttempts, userDisconnected>>
beatVars == <<heartbeat, pingTimer, unstable>>
netVars == <<sock, greeted, inbox, heard>>
vars == <<viewVars, retryVars, beatVars, netVars, isConnected, websocket,
          server, overlap>>

Socket == 1..MaxSockets
None == 0
Message == {"connected", "auth", "workspace", "device", "close"}

Unused == {s \in Socket : sock[s] = "unused"}
Alive(s) == sock[s] \in {"connecting", "open"}
Unfinished == {s \in Socket : sock[s] \in {"connecting", "open", "closing"}}

Init ==
    /\ visible = TRUE /\ loggedIn = TRUE /\ deviceSelect = "loading"
    /\ isConnected = FALSE /\ userDisconnected = FALSE /\ reconnectAttempts = 0
    /\ websocket = None /\ dialing = 0 /\ timers = 0
    /\ heartbeat = FALSE /\ pingTimer = FALSE /\ unstable = FALSE
    /\ sock = [s \in Socket |-> "unused"] /\ greeted = {}
    /\ inbox = [s \in Socket |-> <<>>] /\ heard = {}
    /\ server = [s \in Socket |-> "none"]
    /\ overlap = FALSE

-----------------------------------------------------------------------------
(* Parts of the handlers.                                                  *)

updateConnectionState(connected) ==
    isConnected' = connected /\ unstable' = FALSE

stopHeartbeat == heartbeat' = FALSE /\ pingTimer' = FALSE

\* WebSocket.close(): the close event comes later, messages no longer do.
CloseSocket ==
    /\ sock' = [s \in Socket |->
                   IF s = websocket /\ Alive(s) THEN "closing" ELSE sock[s]]
    /\ UNCHANGED <<greeted, inbox, heard>>

\* Mutant: the socket is forgotten, not closed.
ForgetConnection ==
    /\ websocket' = None
    /\ updateConnectionState(FALSE) /\ stopHeartbeat
    /\ UNCHANGED netVars

\* What disconnect() does apart from userDisconnected.
DropConnection ==
    /\ CloseSocket /\ websocket' = None
    /\ updateConnectionState(FALSE) /\ stopHeartbeat

disconnect == userDisconnected' = TRUE /\ DropConnection

KeepConnection == UNCHANGED <<netVars, beatVars, isConnected, websocket>>

\* hide() disconnects first and clears userDisconnected last.
hide ==
    /\ visible' = FALSE
    /\ IF isConnected THEN DropConnection ELSE KeepConnection
    /\ reconnectAttempts' = 0 /\ userDisconnected' = FALSE

\* connect() up to its first await.
connect ==
    /\ dialing < MaxDials
    /\ userDisconnected' = FALSE
    /\ updateConnectionState(FALSE)
    /\ dialing' = dialing + 1
    /\ overlap' = (overlap \/ dialing > 0 \/ Unfinished # {})

handleDisconnection(disconnected) ==
    IF disconnected \/ reconnectAttempts >= maxReconnectAttempts
    THEN UNCHANGED <<timers, reconnectAttempts>>
    ELSE timers' = timers + 1 /\ reconnectAttempts' = reconnectAttempts + 1

-----------------------------------------------------------------------------
(* The user and the navigation.                                            *)

\* loadDevices has its answer; the failure only shows an error.
DevicesListed ==
    /\ deviceSelect = "loading" /\ deviceSelect' = "listed"
    /\ UNCHANGED <<visible, loggedIn, retryVars, beatVars, netVars,
                   isConnected, websocket, server, overlap>>

SelectDevice ==
    /\ visible /\ deviceSelect = "listed" /\ ~isConnected
    /\ deviceSelect' = "chosen"
    /\ UNCHANGED <<visible, loggedIn, retryVars, beatVars, netVars,
                   isConnected, websocket, server, overlap>>

ClickConnect ==
    /\ visible /\ ~isConnected /\ deviceSelect = "chosen"
    /\ connect
    /\ UNCHANGED <<viewVars, timers, reconnectAttempts, heartbeat, pingTimer,
                   netVars, websocket, server>>

ClickDisconnect ==
    /\ visible /\ isConnected
    /\ disconnect
    /\ UNCHANGED <<viewVars, dialing, timers, reconnectAttempts, server, overlap>>

\* Another page: leaveTaskRecorderIfNeeded, a running recording confirmed.
Leave ==
    /\ visible /\ hide
    /\ UNCHANGED <<loggedIn, deviceSelect, dialing, timers, server, overlap>>

\* show() renders the page anew, which resets the device list and the
\* connection state, also when the page is shown already.
Show ==
    /\ loggedIn /\ visible' = TRUE /\ deviceSelect' = "loading"
    /\ updateConnectionState(FALSE)
    /\ UNCHANGED <<loggedIn, retryVars, heartbeat, pingTimer, netVars,
                   websocket, server, overlap>>

Login ==
    /\ ~loggedIn /\ loggedIn' = TRUE
    /\ UNCHANGED <<visible, deviceSelect, retryVars, beatVars, netVars,
                   isConnected, websocket, server, overlap>>

\* api.handleAuthExpired and app.handleAuthExpired: the token goes, a
\* connected recorder is disconnected, and the login page is shown.
handleAuthExpired(disconnected) ==
    /\ loggedIn' = FALSE /\ visible' = FALSE
    /\ IF isConnected THEN DropConnection ELSE KeepConnection
    /\ reconnectAttempts' = IF visible THEN 0 ELSE reconnectAttempts
    /\ userDisconnected' = IF visible THEN FALSE ELSE isConnected \/ disconnected
    /\ UNCHANGED <<deviceSelect, dialing, timers>>

\* Any request of the page is answered with AUTH_EXPIRED.
AuthExpires ==
    /\ loggedIn /\ handleAuthExpired(userDisconnected)
    /\ UNCHANGED <<server, overlap>>

-----------------------------------------------------------------------------
(* connect() after its awaits, and the reconnect timer.                    *)

DialSucceeds ==
    /\ dialing > 0 /\ Unused # {}
    /\ dialing' = dialing - 1
    /\ LET s == CHOOSE s \in Unused : TRUE IN
         /\ websocket' = s
         /\ sock' = [sock EXCEPT ![s] = "connecting"]
    /\ UNCHANGED <<viewVars, timers, reconnectAttempts, userDisconnected,
                   beatVars, greeted, inbox, heard, isConnected, server, overlap>>

\* No token, or the pod cannot be connected: the error ends the attempts.
DialFails ==
    /\ dialing > 0 /\ dialing' = dialing - 1
    /\ updateConnectionState(FALSE)
    /\ UNCHANGED <<viewVars, timers, reconnectAttempts, userDisconnected,
                   heartbeat, pingTimer, netVars, websocket, server, overlap>>

\* The timer looks at isConnected, and connect() at the device list.
ReconnectTimer ==
    /\ timers > 0 /\ timers' = timers - 1
    /\ IF ~isConnected /\ deviceSelect = "chosen"
       THEN connect
       ELSE UNCHANGED <<dialing, userDisconnected, isConnected, unstable, overlap>>
    /\ UNCHANGED <<viewVars, reconnectAttempts, heartbeat, pingTimer, netVars,
                   websocket, server>>

-----------------------------------------------------------------------------
(* The handlers of a socket.  They speak of this.websocket, not of the     *)
(* socket they are registered on.                                          *)

\* onopen sends auth_init on this.websocket: nothing is sent when that is
\* null or still connecting (send throws) or closing.
SocketOpens(s) ==
    /\ sock[s] = "connecting"
    /\ sock' = [sock EXCEPT ![s] = "open"]
    /\ server' = [server EXCEPT ![s] = "authenticating"]
    /\ updateConnectionState(FALSE)
    /\ heard' = IF websocket # None /\ sock'[websocket] = "open"
                THEN heard \cup {websocket} ELSE heard
    /\ UNCHANGED <<viewVars, retryVars, heartbeat, pingTimer, greeted, inbox,
                   websocket, overlap>>

\* Mutant: the page goes on as connected.
onclose_connected(s) ==
    /\ sock' = [sock EXCEPT ![s] = "closed"]
    /\ inbox' = [inbox EXCEPT ![s] = <<>>]
    /\ stopHeartbeat /\ handleDisconnection(userDisconnected)
    /\ UNCHANGED <<viewVars, dialing, userDisconnected, greeted, heard,
                   isConnected, unstable, websocket, server, overlap>>

onclose(s) ==
    /\ sock' = [sock EXCEPT ![s] = "closed"]
    /\ inbox' = [inbox EXCEPT ![s] = <<>>]
    /\ stopHeartbeat /\ updateConnectionState(FALSE)
    /\ handleDisconnection(userDisconnected)
    /\ UNCHANGED <<viewVars, dialing, userDisconnected, greeted, heard,
                   websocket, server, overlap>>

\* The closing handshake of the page, the server's close, a lost connection.
SocketCloses(s) ==
    /\ \/ sock[s] = "closing"
       \/ sock[s] = "open" /\ inbox[s] # <<>> /\ Head(inbox[s]) = "close"
    /\ onclose(s)

ConnectionLost(s) == Alive(s) /\ onclose(s)

Take(s, message) ==
    /\ sock[s] = "open" /\ inbox[s] # <<>> /\ Head(inbox[s]) = message
    /\ inbox' = [inbox EXCEPT ![s] = Tail(@)]

HandleConnected(s) ==
    /\ Take(s, "connected")
    /\ greeted' = greeted \cup {s}
    /\ updateConnectionState(TRUE) /\ reconnectAttempts' = 0
    /\ heartbeat' = TRUE /\ pingTimer' = FALSE
    /\ UNCHANGED <<viewVars, dialing, timers, userDisconnected, sock, heard,
                   websocket, server, overlap>>

\* handleSessionEvent.  A message read from the socket before it is closed.
DropAfter(s) ==
    /\ inbox[s] # <<>>
    /\ sock' = [x \in Socket |->
                   IF x = websocket /\ Alive(x) THEN "closing" ELSE sock[x]]
    /\ websocket' = None /\ updateConnectionState(FALSE) /\ stopHeartbeat

HandleAuthEvent(s) ==
    /\ Take(s, "auth")
    /\ loggedIn' = FALSE /\ visible' = FALSE
    /\ IF isConnected THEN DropAfter(s)
       ELSE UNCHANGED <<sock, websocket, isConnected, beatVars>>
    /\ reconnectAttempts' = IF visible THEN 0 ELSE reconnectAttempts
    /\ userDisconnected' = ~visible
    /\ UNCHANGED <<deviceSelect, dialing, timers, greeted, heard, server, overlap>>

HandleWorkspaceEvent(s) ==
    /\ Take(s, "workspace")
    /\ userDisconnected' = TRUE
    /\ IF isConnected THEN DropAfter(s)
       ELSE UNCHANGED <<sock, websocket, isConnected, beatVars>>
    /\ UNCHANGED <<viewVars, dialing, timers, reconnectAttempts, greeted, heard,
                   server, overlap>>

HandleDeviceEvent(s) ==
    /\ Take(s, "device")
    /\ userDisconnected' = TRUE /\ DropAfter(s)
    /\ UNCHANGED <<viewVars, dialing, timers, reconnectAttempts, greeted, heard,
                   server, overlap>>

-----------------------------------------------------------------------------
(* The heartbeat.                                                          *)

SendPing ==
    /\ heartbeat /\ websocket # None /\ sock[websocket] = "open"
    /\ pingTimer' = TRUE
    /\ UNCHANGED <<viewVars, retryVars, heartbeat, unstable, netVars,
                   isConnected, websocket, server, overlap>>

PingTimesOut ==
    /\ pingTimer /\ pingTimer' = FALSE
    /\ unstable' = (unstable \/ isConnected)
    /\ UNCHANGED <<viewVars, retryVars, heartbeat, netVars, isConnected,
                   websocket, server, overlap>>

\* A pong, late or not; the server broadcasts it to the serving socket.
handlePong ==
    /\ \E s \in greeted : sock[s] = "open" /\ server[s] = "serving"
    /\ pingTimer' = FALSE /\ unstable' = (unstable /\ ~isConnected)
    /\ UNCHANGED <<viewVars, retryVars, heartbeat, netVars, isConnected,
                   websocket, server, overlap>>

-----------------------------------------------------------------------------
(* The server: connect_device_stream for each socket.                      *)

clientVars == <<viewVars, retryVars, beatVars, isConnected, websocket, overlap,
                sock, greeted, heard>>
Send(s, messages) ==
    inbox' = [inbox EXCEPT ![s] = IF sock[s] = "open" THEN @ \o messages ELSE @]
Busy == \E s \in Socket : server[s] = "serving"
Finish(s) == server' = [server EXCEPT ![s] = "done"]

Admit(s) ==
    /\ server[s] = "authenticating" /\ s \in heard /\ ~Busy
    /\ server' = [server EXCEPT ![s] = "serving"]
    /\ Send(s, <<"connected">>)
    /\ UNCHANGED clientVars

Refuse(s) ==
    /\ server[s] = "authenticating" /\ s \in heard /\ Busy
    /\ Finish(s) /\ Send(s, <<"device", "close">>)
    /\ UNCHANGED clientVars

\* Mutant: a socket that says nothing is waited for.
RejectHeard(s) ==
    /\ server[s] = "authenticating" /\ s \in heard
    /\ Finish(s)
    /\ \E scope \in {"auth", "workspace"} : Send(s, <<scope, "close">>)
    /\ UNCHANGED clientVars

\* auth_init that is not valid, or that does not come in time.
Reject(s) ==
    /\ server[s] = "authenticating"
    /\ Finish(s)
    /\ \E scope \in {"auth", "workspace"} :
         /\ scope = "workspace" => s \in heard
         /\ Send(s, <<scope, "close">>)
    /\ UNCHANGED clientVars

\* The token, the workspace or the device session of a served socket is gone.
Expire(s) ==
    /\ server[s] = "serving"
    /\ Finish(s)
    /\ \E scope \in {"auth", "workspace", "device"} : Send(s, <<scope, "close">>)
    /\ UNCHANGED clientVars

\* A socket the page has closed or lost: disconnect_client.
NoticeClosed(s) ==
    /\ server[s] \in {"authenticating", "serving"}
    /\ sock[s] \in {"closing", "closed"}
    /\ Finish(s)
    /\ UNCHANGED <<clientVars, inbox>>

-----------------------------------------------------------------------------
HandleMessage(s) ==
    \/ HandleConnected(s) \/ HandleAuthEvent(s)
    \/ HandleWorkspaceEvent(s) \/ HandleDeviceEvent(s)

Authenticate(s) == Admit(s) \/ Refuse(s) \/ Reject(s)

Next ==
    \/ DevicesListed \/ SelectDevice \/ ClickConnect \/ ClickDisconnect
    \/ Leave \/ Show \/ Login \/ AuthExpires
    \/ DialSucceeds \/ DialFails \/ ReconnectTimer
    \/ SendPing \/ PingTimesOut \/ handlePong
    \/ \E s \in Socket :
         \/ SocketOpens(s) \/ SocketCloses(s) \/ ConnectionLost(s)
         \/ HandleMessage(s)
         \/ Authenticate(s) \/ Expire(s) \/ NoticeClosed(s)

Spec == Init /\ [][Next]_vars

\* Requests have answers, timers fire, and the event loop and the server
\* get to what is there to be done; users need not do anything.
FairSpec ==
    /\ Spec
    /\ WF_vars(DialSucceeds \/ DialFails) /\ WF_vars(ReconnectTimer)
    /\ \A s \in Socket :
         /\ WF_vars(SocketOpens(s)) /\ WF_vars(SocketCloses(s))
         /\ WF_vars(HandleMessage(s))
         /\ WF_vars(Authenticate(s)) /\ WF_vars(NoticeClosed(s))
-----------------------------------------------------------------------------
TypeOK ==
    /\ visible \in BOOLEAN /\ loggedIn \in BOOLEAN
    /\ isConnected \in BOOLEAN /\ userDisconnected \in BOOLEAN
    /\ heartbeat \in BOOLEAN /\ pingTimer \in BOOLEAN
    /\ unstable \in BOOLEAN /\ overlap \in BOOLEAN
    /\ deviceSelect \in {"loading", "listed", "chosen"}
    /\ reconnectAttempts \in 0..maxReconnectAttempts
    /\ websocket \in Socket \cup {None}
    /\ dialing \in 0..MaxDials /\ timers \in Nat
    /\ sock \in [Socket -> {"unused", "connecting", "open", "closing", "closed"}]
    /\ inbox \in [Socket -> Seq(Message)]
    /\ greeted \subseteq Socket /\ heard \subseteq Socket
    /\ server \in [Socket -> {"none", "authenticating", "serving", "done"}]

\* The page never shows a connection, and never sends pings, without an open
\* socket that the server has greeted, whichever of its sockets were opened,
\* closed, lost or refused in whatever order.
ConnectedHasSocket ==
    isConnected \/ heartbeat => \E s \in greeted : sock[s] = "open"

\* As long as no connect() was started beside an unfinished connection, every
\* living socket is this.websocket: there is none that the page can no longer
\* close and that keeps the device from it and from everybody else.
NoOrphanSocket ==
    ~overlap => \A s \in Socket : Alive(s) => s = websocket

\* Every socket the page opens is served or closed in the end: an attempt to
\* connect does not hang, even one whose auth_init went to another socket.
ConnectSettles ==
    \A s \in Socket : Alive(s) ~> (server[s] = "serving" \/ sock[s] = "closed")

=============================================================================
