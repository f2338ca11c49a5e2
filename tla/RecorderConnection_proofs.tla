--------------------- MODULE RecorderConnection_proofs ---------------------
(***************************************************************************)
(* Proofs about RecorderConnection, for any number of sockets, of calls of *)
(* connect() and of reconnect attempts: what the page shows is an open     *)
(* socket, and no socket is lost while connect() is called one at a time.  *)
(***************************************************************************)
EXTENDS RecorderConnection, SequenceTheorems, TLAPS

\* Without overlap one connect() is under way at most, and while it is, no
\* earlier socket is left.
OneDial == ~overlap => dialing <= 1 /\ (dialing > 0 => Unfinished = {})

IInv == TypeOK /\ ConnectedHasSocket /\ NoOrphanSocket /\ OneDial

LEMMA InitIInv == Init => IInv
<1> SUFFICES ASSUME Init PROVE IInv
  OBVIOUS
<1> USE RecorderAssumption DEF Init, Socket, None
<1>1. TypeOK
  <2>1. <<>> \in Seq(Message)
    OBVIOUS
  <2>2. inbox \in [Socket -> Seq(Message)]
    BY <2>1
  <2>3. websocket \in Socket \cup {None} /\ dialing \in 0..MaxDials
        /\ reconnectAttempts \in 0..maxReconnectAttempts
    OBVIOUS
  <2>4. /\ sock \in [Socket -> {"unused", "connecting", "open", "closing", "closed"}]
        /\ server \in [Socket -> {"none", "authenticating", "serving", "done"}]
        /\ greeted \subseteq Socket /\ heard \subseteq Socket
    OBVIOUS
  <2>5. QED
    BY <2>2, <2>3, <2>4, Zenon DEF TypeOK
<1>2. ConnectedHasSocket /\ NoOrphanSocket /\ OneDial
  BY DEF ConnectedHasSocket, NoOrphanSocket, OneDial, Unfinished, Alive
<1>3. QED
  BY <1>1, <1>2 DEF IInv

(***************************************************************************)
(* Types.  States of sockets, of the page and of the server apart.         *)
(***************************************************************************)
SockState == {"unused", "connecting", "open", "closing", "closed"}

\* The operators of the handlers, once for all the actions that use them.
LEMMA HandlersTypeOK ==
    ASSUME TypeOK
    PROVE  /\ CloseSocket => sock' \in [Socket -> SockState]
           /\ \A s \in Socket : DropAfter(s) => sock' \in [Socket -> SockState]
           /\ \A s \in Socket, m \in Message :
                 Take(s, m) => inbox' \in [Socket -> Seq(Message)]
           /\ \A b \in BOOLEAN :
                 handleDisconnection(b) =>
                    timers' \in Nat /\ reconnectAttempts' \in 0..maxReconnectAttempts
           /\ connect => dialing' \in 0..MaxDials /\ isConnected' = FALSE
                         /\ unstable' = FALSE /\ overlap' \in BOOLEAN
<1>1. CloseSocket => sock' \in [Socket -> SockState]
  BY DEF TypeOK, CloseSocket, SockState
<1>2. \A s \in Socket : DropAfter(s) => sock' \in [Socket -> SockState]
  BY DEF TypeOK, DropAfter, SockState
<1>3. ASSUME NEW s \in Socket, NEW m \in Message, Take(s, m)
      PROVE  inbox' \in [Socket -> Seq(Message)]
  <2>1. Tail(inbox[s]) \in Seq(Message)
    BY <1>3 DEF TypeOK, Take
  <2>2. QED
    BY <1>3, <2>1 DEF TypeOK, Take
<1>4. ASSUME NEW b \in BOOLEAN, handleDisconnection(b)
      PROVE  timers' \in Nat /\ reconnectAttempts' \in 0..maxReconnectAttempts
  BY <1>4, RecorderAssumption DEF TypeOK, handleDisconnection
<1>5. connect => dialing' \in 0..MaxDials /\ isConnected' = FALSE
                 /\ unstable' = FALSE /\ overlap' \in BOOLEAN
  BY RecorderAssumption DEF TypeOK, connect, updateConnectionState
<1>6. QED
  BY <1>1, <1>2, <1>3, <1>4, <1>5

LEMMA NextTypeOK ==
    ASSUME TypeOK, [Next]_vars
    PROVE  TypeOK'
<1> USE DEF TypeOK
<1>1. CASE UNCHANGED vars
  BY <1>1 DEF vars, viewVars, retryVars, beatVars, netVars
<1>2. CASE DevicesListed \/ SelectDevice \/ Login \/ SendPing
  BY <1>2 DEF DevicesListed, SelectDevice, Login, SendPing,
              viewVars, retryVars, beatVars, netVars
<1>3. CASE PingTimesOut \/ handlePong
  <2>1. unstable' \in BOOLEAN
    BY <1>3, Zenon DEF PingTimesOut, handlePong
  <2>2. pingTimer' = FALSE
        /\ UNCHANGED <<viewVars, retryVars, heartbeat, netVars, isConnected,
                       websocket, server, overlap>>
    BY <1>3 DEF PingTimesOut, handlePong
  <2>3. QED
    BY <2>1, <2>2 DEF viewVars, retryVars, netVars
<1>4. CASE ClickConnect \/ ReconnectTimer
  <2>1. CASE connect
    <3>1. /\ dialing' \in 0..MaxDials /\ timers' \in Nat /\ overlap' \in BOOLEAN
          /\ isConnected' = FALSE /\ unstable' = FALSE /\ userDisconnected' = FALSE
      <4>1. timers' \in Nat
        BY <1>4 DEF ClickConnect, ReconnectTimer
      <4>2. userDisconnected' = FALSE
        BY <2>1 DEF connect
      <4>3. QED
        BY <2>1, <4>1, <4>2, HandlersTypeOK
    <3>2. UNCHANGED <<viewVars, reconnectAttempts, heartbeat, pingTimer, netVars,
                      websocket, server>>
      BY <1>4 DEF ClickConnect, ReconnectTimer
    <3>3. QED
      BY <3>1, <3>2 DEF viewVars, netVars
  <2>2. CASE ReconnectTimer /\ ~connect
    BY <2>2 DEF ReconnectTimer, viewVars, netVars
  <2>3. QED
    BY <1>4, <2>1, <2>2 DEF ClickConnect
<1>5. CASE DialFails \/ Show
  <2>1. dialing' \in 0..MaxDials
    <3>1. CASE DialFails
      BY <3>1, RecorderAssumption DEF DialFails
    <3>2. CASE Show
      BY <3>2 DEF Show, retryVars
    <3>3. QED
      BY <1>5, <3>1, <3>2
  <2>2. deviceSelect' \in {"loading", deviceSelect} /\ loggedIn' = loggedIn
        /\ visible' \in {TRUE, visible} /\ isConnected' = FALSE /\ unstable' = FALSE
    BY <1>5 DEF DialFails, Show, updateConnectionState, viewVars
  <2>3. UNCHANGED <<timers, reconnectAttempts, userDisconnected, heartbeat, pingTimer,
                    netVars, websocket, server, overlap>>
    BY <1>5 DEF DialFails, Show, retryVars
  <2>4. QED
    BY <2>1, <2>2, <2>3 DEF netVars
<1>6. CASE DialSucceeds
  <2> DEFINE s == CHOOSE x \in Unused : TRUE
  <2>1. s \in Socket /\ websocket' = s /\ sock' = [sock EXCEPT ![s] = "connecting"]
    BY <1>6 DEF DialSucceeds, Unused
  <2>2. dialing' \in 0..MaxDials
    BY <1>6, RecorderAssumption DEF DialSucceeds
  <2>3. QED
    BY <1>6, <2>1, <2>2 DEF DialSucceeds, viewVars, beatVars
<1>7. CASE ClickDisconnect \/ Leave \/ AuthExpires
  <2>1. /\ sock' \in [Socket -> SockState] /\ websocket' \in Socket \cup {None}
        /\ UNCHANGED <<greeted, inbox, heard>>
        /\ isConnected' \in BOOLEAN /\ heartbeat' \in BOOLEAN
        /\ pingTimer' \in BOOLEAN /\ unstable' \in BOOLEAN
    <3>1. CASE DropConnection
      BY <3>1, HandlersTypeOK
         DEF DropConnection, CloseSocket, updateConnectionState, stopHeartbeat
    <3>2. CASE KeepConnection
      BY <3>2 DEF KeepConnection, netVars, beatVars, SockState
    <3>3. QED
      BY <1>7, <3>1, <3>2
         DEF ClickDisconnect, Leave, AuthExpires, handleAuthExpired, hide, disconnect
  <2>2. /\ visible' \in {FALSE, visible} /\ loggedIn' \in {FALSE, loggedIn}
        /\ UNCHANGED <<deviceSelect, dialing, timers, server, overlap>>
        /\ reconnectAttempts' \in {0, reconnectAttempts}
    BY <1>7
       DEF ClickDisconnect, Leave, AuthExpires, handleAuthExpired, hide, disconnect, viewVars
  <2>3. userDisconnected' \in BOOLEAN
    BY <1>7 DEF ClickDisconnect, Leave, AuthExpires, handleAuthExpired, hide, disconnect
  <2>4. reconnectAttempts' \in 0..maxReconnectAttempts
    BY <2>2, RecorderAssumption
  <2>5. QED
    BY <2>1, <2>2, <2>3, <2>4 DEF SockState
<1>8. ASSUME NEW s \in Socket, SocketOpens(s)
      PROVE  TypeOK'
  <2>1. /\ sock' \in [Socket -> SockState]
        /\ server' \in [Socket -> {"none", "authenticating", "serving", "done"}]
        /\ heard' \subseteq Socket
    BY <1>8 DEF SocketOpens, SockState
  <2>2. isConnected' = FALSE /\ unstable' = FALSE
    BY <1>8 DEF SocketOpens, updateConnectionState
  <2>3. QED
    BY <1>8, <2>1, <2>2 DEF SocketOpens, viewVars, retryVars, SockState
<1>9. ASSUME NEW s \in Socket, SocketCloses(s) \/ ConnectionLost(s)
      PROVE  TypeOK'
  <2> <<>> \in Seq(Message)
    OBVIOUS
  <2>1. onclose(s)
    BY <1>9 DEF SocketCloses, ConnectionLost
  <2>2. timers' \in Nat /\ reconnectAttempts' \in 0..maxReconnectAttempts
    BY <2>1, HandlersTypeOK DEF onclose
  <2>3. sock' \in [Socket -> SockState] /\ inbox' \in [Socket -> Seq(Message)]
    BY <2>1 DEF onclose, SockState
  <2>4. QED
    BY <2>1, <2>2, <2>3 DEF onclose, stopHeartbeat, updateConnectionState, viewVars, SockState
<1>10. ASSUME NEW s \in Socket, HandleMessage(s)
       PROVE  TypeOK'
  <2>1. inbox' \in [Socket -> Seq(Message)]
    BY <1>10, HandlersTypeOK
       DEF HandleMessage, HandleConnected, HandleAuthEvent, HandleWorkspaceEvent,
           HandleDeviceEvent, Message
  <2>2. CASE HandleConnected(s)
    <3>1. reconnectAttempts' \in 0..maxReconnectAttempts /\ greeted' \subseteq Socket
      BY <2>2, RecorderAssumption DEF HandleConnected
    <3>2. isConnected' = TRUE /\ unstable' = FALSE /\ heartbeat' = TRUE /\ pingTimer' = FALSE
      BY <2>2 DEF HandleConnected, updateConnectionState
    <3>3. UNCHANGED <<viewVars, dialing, timers, userDisconnected, sock, heard,
                      websocket, server, overlap>>
      BY <2>2 DEF HandleConnected
    <3>4. QED
      BY <2>1, <3>1, <3>2, <3>3 DEF viewVars
  <2>3. CASE HandleAuthEvent(s) \/ HandleWorkspaceEvent(s) \/ HandleDeviceEvent(s)
    <3>1. /\ sock' \in [Socket -> SockState] /\ websocket' \in Socket \cup {None}
          /\ isConnected' \in BOOLEAN /\ heartbeat' \in BOOLEAN
          /\ pingTimer' \in BOOLEAN /\ unstable' \in BOOLEAN
      <4>1. CASE DropAfter(s)
        BY <4>1, HandlersTypeOK DEF DropAfter, updateConnectionState, stopHeartbeat
      <4>2. CASE UNCHANGED <<sock, websocket, isConnected, beatVars>>
        BY <4>2 DEF beatVars, SockState
      <4>3. QED
        BY <2>3, <4>1, <4>2 DEF HandleAuthEvent, HandleWorkspaceEvent, HandleDeviceEvent
    <3>2. /\ visible' \in {FALSE, visible} /\ loggedIn' \in {FALSE, loggedIn}
          /\ UNCHANGED <<deviceSelect, dialing, timers, greeted, heard, server, overlap>>
          /\ reconnectAttempts' \in {0, reconnectAttempts}
      BY <2>3 DEF HandleAuthEvent, HandleWorkspaceEvent, HandleDeviceEvent, viewVars
    <3>3. userDisconnected' \in BOOLEAN
      BY <2>3 DEF HandleAuthEvent, HandleWorkspaceEvent, HandleDeviceEvent
    <3>4. reconnectAttempts' \in 0..maxReconnectAttempts
      BY <3>2, RecorderAssumption
    <3>5. QED
      BY <2>1, <3>1, <3>2, <3>3, <3>4 DEF SockState
  <2>4. QED
    BY <1>10, <2>2, <2>3 DEF HandleMessage
<1>11. ASSUME NEW s \in Socket, Authenticate(s) \/ Expire(s) \/ NoticeClosed(s)
       PROVE  TypeOK'
  <2>1. UNCHANGED clientVars
    BY <1>11 DEF Authenticate, Admit, Refuse, Reject, Expire, NoticeClosed
  <2>2. server' \in [Socket -> {"none", "authenticating", "serving", "done"}]
    BY <1>11 DEF Authenticate, Admit, Refuse, Reject, Expire, NoticeClosed, Finish
  <2>3. inbox' \in [Socket -> Seq(Message)]
    <3>1. ASSUME NEW messages \in Seq(Message), Send(s, messages)
          PROVE  inbox' \in [Socket -> Seq(Message)]
      <4>1. inbox[s] \o messages \in Seq(Message)
        BY ConcatProperties
      <4>2. QED
        BY <3>1, <4>1 DEF Send
    <3>2. /\ <<"connected">> \in Seq(Message) /\ <<"device", "close">> \in Seq(Message)
          /\ \A scope \in {"auth", "workspace", "device"} : <<scope, "close">> \in Seq(Message)
      BY DEF Message
    <3>3. CASE UNCHANGED inbox
      BY <3>3
    <3>4. QED
      BY <1>11, <3>1, <3>2, <3>3
         DEF Authenticate, Admit, Refuse, Reject, Expire, NoticeClosed
  <2>4. QED
    BY <2>1, <2>2, <2>3 DEF clientVars, viewVars, retryVars, beatVars
<1>12. QED
  BY <1>1, <1>2, <1>3, <1>4, <1>5, <1>6, <1>7, <1>8, <1>9, <1>10, <1>11 DEF Next

(***************************************************************************)
(* The connection that is shown.                                           *)
(***************************************************************************)
\* Without a word on the connection, the open sockets stay.
LEMMA ShownStays ==
    ASSUME TypeOK, ConnectedHasSocket,
           isConnected' => isConnected, heartbeat' => heartbeat,
           greeted' = greeted,
           \A s \in Socket : sock[s] = "open" => sock'[s] = "open"
    PROVE  ConnectedHasSocket'
BY DEF ConnectedHasSocket, TypeOK

LEMMA NothingShown ==
    ASSUME isConnected' = FALSE, heartbeat' = FALSE
    PROVE  ConnectedHasSocket'
BY DEF ConnectedHasSocket

LEMMA NextConnectedHasSocket ==
    ASSUME TypeOK, ConnectedHasSocket, [Next]_vars
    PROVE  ConnectedHasSocket'
<1>1. CASE UNCHANGED vars
  BY <1>1, ShownStays DEF vars, netVars, beatVars
<1>2. CASE DevicesListed \/ SelectDevice \/ Login \/ SendPing \/ PingTimesOut \/ handlePong
  BY <1>2, ShownStays
     DEF DevicesListed, SelectDevice, Login, SendPing, PingTimesOut, handlePong, netVars, beatVars
<1>3. CASE ClickConnect \/ ReconnectTimer \/ DialFails \/ Show
  <2>1. UNCHANGED <<heartbeat, netVars>> /\ (isConnected' => isConnected)
    BY <1>3 DEF ClickConnect, ReconnectTimer, DialFails, Show, connect, updateConnectionState
  <2>2. QED
    BY <2>1, ShownStays DEF netVars
<1>4. CASE ClickDisconnect \/ Leave \/ AuthExpires
  <2>1. \/ UNCHANGED <<netVars, beatVars, isConnected, websocket>>
        \/ isConnected' = FALSE /\ heartbeat' = FALSE
    BY <1>4 DEF ClickDisconnect, Leave, AuthExpires, handleAuthExpired, hide, disconnect,
                DropConnection, KeepConnection, updateConnectionState, stopHeartbeat
  <2>2. CASE UNCHANGED <<netVars, beatVars, isConnected, websocket>>
    BY <2>2, ShownStays DEF netVars, beatVars
  <2>3. QED
    BY <2>1, <2>2, NothingShown
<1>5. CASE DialSucceeds
  <2> DEFINE s == CHOOSE x \in Unused : TRUE
  <2>1. s \in Socket /\ sock[s] = "unused"
    BY <1>5 DEF DialSucceeds, Unused
  <2>2. \A x \in Socket : sock[x] = "open" => sock'[x] = "open"
    BY <1>5, <2>1 DEF DialSucceeds, TypeOK
  <2>3. QED
    BY <1>5, <2>2, ShownStays DEF DialSucceeds, beatVars
<1>6. ASSUME NEW s \in Socket, SocketOpens(s)
      PROVE  ConnectedHasSocket'
  <2>1. \A x \in Socket : sock[x] = "open" => sock'[x] = "open"
    BY <1>6 DEF SocketOpens, TypeOK
  <2>2. QED
    BY <1>6, <2>1, ShownStays DEF SocketOpens, updateConnectionState
<1>7. ASSUME NEW s \in Socket, SocketCloses(s) \/ ConnectionLost(s)
      PROVE  ConnectedHasSocket'
  BY <1>7, NothingShown
     DEF SocketCloses, ConnectionLost, onclose, stopHeartbeat, updateConnectionState
<1>8. ASSUME NEW s \in Socket, HandleMessage(s)
      PROVE  ConnectedHasSocket'
  <2>1. CASE HandleConnected(s)
    <3>1. s \in greeted' /\ sock'[s] = "open"
      BY <2>1 DEF HandleConnected, Take
    <3>2. QED
      BY <3>1 DEF ConnectedHasSocket
  <2>2. CASE HandleAuthEvent(s) \/ HandleWorkspaceEvent(s) \/ HandleDeviceEvent(s)
    <3>1. /\ greeted' = greeted
          /\ \/ UNCHANGED <<sock, websocket, isConnected, beatVars>>
             \/ isConnected' = FALSE /\ heartbeat' = FALSE
      BY <2>2 DEF HandleAuthEvent, HandleWorkspaceEvent, HandleDeviceEvent, DropAfter,
                  updateConnectionState, stopHeartbeat
    <3>2. CASE UNCHANGED <<sock, websocket, isConnected, beatVars>>
      BY <3>1, <3>2, ShownStays DEF beatVars
    <3>3. QED
      BY <3>1, <3>2, NothingShown
  <2>3. QED
    BY <1>8, <2>1, <2>2 DEF HandleMessage
<1>9. ASSUME NEW s \in Socket, Authenticate(s) \/ Expire(s) \/ NoticeClosed(s)
      PROVE  ConnectedHasSocket'
  BY <1>9, ShownStays
     DEF Authenticate, Admit, Refuse, Reject, Expire, NoticeClosed, clientVars, beatVars
<1>10. QED
  BY <1>1, <1>2, <1>3, <1>4, <1>5, <1>6, <1>7, <1>8, <1>9 DEF Next

(***************************************************************************)
(* The sockets that live.                                                  *)
(***************************************************************************)
\* No socket is made or revived, and this.websocket is forgotten only if it
\* is closed.
LEMMA NoneRevived ==
    ASSUME TypeOK, NoOrphanSocket, OneDial,
           overlap' = overlap, dialing' \in Nat, dialing' <= dialing,
           \A s \in Socket : Alive(s)' => Alive(s),
           Unfinished' \subseteq Unfinished,
           websocket' = websocket \/ \A s \in Socket : s = websocket => ~Alive(s)'
    PROVE  NoOrphanSocket' /\ OneDial'
<1>1. NoOrphanSocket'
  BY DEF NoOrphanSocket
<1>2. OneDial'
  BY DEF OneDial, TypeOK
<1>3. QED
  BY <1>1, <1>2

LEMMA SocketsUntouched ==
    ASSUME TypeOK, NoOrphanSocket, OneDial,
           overlap' = overlap, dialing' \in Nat, dialing' <= dialing,
           UNCHANGED <<sock, websocket>>
    PROVE  NoOrphanSocket' /\ OneDial'
BY NoneRevived DEF Alive, Unfinished

\* close() on this.websocket.
LEMMA WebsocketCloses ==
    ASSUME TypeOK, NoOrphanSocket, OneDial, UNCHANGED <<overlap, dialing>>,
           sock' = [s \in Socket |-> IF s = websocket /\ Alive(s) THEN "closing" ELSE sock[s]]
    PROVE  NoOrphanSocket' /\ OneDial'
<1>1. ASSUME NEW s \in Socket
      PROVE  /\ Alive(s)' => Alive(s) /\ s # websocket
             /\ s \in Unfinished' => s \in Unfinished
  BY <1>1 DEF Alive, Unfinished
<1>2. Unfinished' \subseteq Unfinished
  BY <1>1 DEF Unfinished
<1>3. dialing' \in Nat /\ dialing' <= dialing
  BY RecorderAssumption DEF TypeOK
<1>4. QED
  BY <1>1, <1>2, <1>3, NoneRevived

\* The state of one unfinished socket goes on.
LEMMA SocketGoesOn ==
    ASSUME TypeOK, NoOrphanSocket, OneDial, UNCHANGED <<overlap, dialing, websocket>>,
           NEW s \in Socket, NEW state \in {"open", "closing", "closed"},
           s \in Unfinished, state = "open" => Alive(s), sock' = [sock EXCEPT ![s] = state]
    PROVE  NoOrphanSocket' /\ OneDial'
<1>1. ASSUME NEW x \in Socket
      PROVE  /\ Alive(x)' => Alive(x)
             /\ x \in Unfinished' => x \in Unfinished
  BY <1>1 DEF Alive, Unfinished, TypeOK
<1>2. Unfinished' \subseteq Unfinished
  BY <1>1 DEF Unfinished
<1>3. dialing' \in Nat /\ dialing' <= dialing
  BY RecorderAssumption DEF TypeOK
<1>4. QED
  BY <1>1, <1>2, <1>3, NoneRevived

LEMMA NextNoOrphanSocket ==
    ASSUME TypeOK, NoOrphanSocket, OneDial, [Next]_vars
    PROVE  NoOrphanSocket' /\ OneDial'
<1>0. dialing \in Nat
  BY RecorderAssumption DEF TypeOK
<1>1. CASE UNCHANGED vars
  BY <1>0, <1>1, SocketsUntouched DEF vars, netVars, retryVars
<1>2. CASE \/ DevicesListed \/ SelectDevice \/ Login \/ Show
           \/ SendPing \/ PingTimesOut \/ handlePong
  <2>1. UNCHANGED <<overlap, dialing, sock, websocket>>
    BY <1>2 DEF DevicesListed, SelectDevice, Login, Show, SendPing, PingTimesOut, handlePong,
                netVars, retryVars
  <2>2. QED
    BY <1>0, <2>1, SocketsUntouched
<1>3. CASE ClickConnect \/ ReconnectTimer
  <2>1. CASE connect /\ UNCHANGED <<sock, websocket>>
    <3>1. ~overlap' => ~overlap /\ ~(dialing > 0) /\ Unfinished = {}
      BY <2>1, Zenon DEF connect
    <3>2. UNCHANGED <<sock, websocket>> /\ dialing' = dialing + 1
      BY <2>1 DEF connect
    <3>3. NoOrphanSocket'
      BY <3>1, <3>2 DEF NoOrphanSocket, Alive
    <3>4. Unfinished' = Unfinished
      BY <3>2 DEF Unfinished
    <3>5. OneDial'
      BY <1>0, <3>1, <3>2, <3>4 DEF OneDial
    <3>6. QED
      BY <3>3, <3>5
  <2>2. CASE UNCHANGED <<overlap, dialing, sock, websocket>>
    BY <1>0, <2>2, SocketsUntouched
  <2>3. QED
    BY <1>3, <2>1, <2>2 DEF ClickConnect, ReconnectTimer, netVars
<1>4. CASE DialFails
  BY <1>0, <1>4, SocketsUntouched DEF DialFails, netVars
<1>5. CASE DialSucceeds
  <2> DEFINE s == CHOOSE x \in Unused : TRUE
  <2>1. s \in Socket /\ websocket' = s /\ sock' = [sock EXCEPT ![s] = "connecting"]
    BY <1>5 DEF DialSucceeds, Unused
  <2>2. CASE overlap
    BY <1>5, <2>2 DEF DialSucceeds, NoOrphanSocket, OneDial
  <2>3. CASE ~overlap
    <3>1. Unfinished = {} /\ dialing' = 0
      BY <1>0, <1>5, <2>3 DEF DialSucceeds, OneDial
    <3>2. \A x \in Socket : Alive(x)' => x = s
      BY <2>1, <3>1 DEF Unfinished, Alive, TypeOK
    <3>3. QED
      BY <2>1, <3>1, <3>2 DEF NoOrphanSocket, OneDial
  <2>4. QED
    BY <2>2, <2>3, Zenon
<1>6. CASE ClickDisconnect \/ Leave \/ AuthExpires
  <2>1. /\ UNCHANGED <<overlap, dialing>>
        /\ CloseSocket \/ UNCHANGED <<sock, websocket>>
    BY <1>6 DEF ClickDisconnect, Leave, AuthExpires, handleAuthExpired, hide, disconnect,
                DropConnection, KeepConnection, netVars
  <2>2. CASE CloseSocket
    BY <2>1, <2>2, WebsocketCloses DEF CloseSocket
  <2>3. QED
    BY <1>0, <2>1, <2>2, SocketsUntouched
<1>7. ASSUME NEW s \in Socket,
             SocketOpens(s) \/ SocketCloses(s) \/ ConnectionLost(s)
      PROVE  NoOrphanSocket' /\ OneDial'
  <2>1. CASE SocketOpens(s)
    <3>1. s \in Unfinished /\ Alive(s)
      BY <2>1 DEF SocketOpens, Unfinished, Alive
    <3>2. QED
      BY <2>1, <3>1, SocketGoesOn DEF SocketOpens, retryVars
  <2>2. CASE SocketCloses(s) \/ ConnectionLost(s)
    <3>1. s \in Unfinished
      BY <2>2 DEF SocketCloses, ConnectionLost, Unfinished, Alive
    <3>2. sock' = [sock EXCEPT ![s] = "closed"] /\ UNCHANGED <<overlap, dialing, websocket>>
      BY <2>2 DEF SocketCloses, ConnectionLost, onclose
    <3>3. QED
      BY <3>1, <3>2, SocketGoesOn
  <2>3. QED
    BY <1>7, <2>1, <2>2
<1>8. ASSUME NEW s \in Socket, HandleMessage(s)
      PROVE  NoOrphanSocket' /\ OneDial'
  <2>1. /\ UNCHANGED <<overlap, dialing>>
        /\ DropAfter(s) \/ UNCHANGED <<sock, websocket>>
    BY <1>8 DEF HandleMessage, HandleConnected, HandleAuthEvent, HandleWorkspaceEvent,
                HandleDeviceEvent
  <2>2. CASE DropAfter(s)
    BY <2>1, <2>2, WebsocketCloses DEF DropAfter
  <2>3. QED
    BY <1>0, <2>1, <2>2, SocketsUntouched
<1>9. ASSUME NEW s \in Socket, Authenticate(s) \/ Expire(s) \/ NoticeClosed(s)
      PROVE  NoOrphanSocket' /\ OneDial'
  <2>1. UNCHANGED <<overlap, dialing, sock, websocket>>
    BY <1>9 DEF Authenticate, Admit, Refuse, Reject, Expire, NoticeClosed, clientVars, retryVars
  <2>2. QED
    BY <1>0, <2>1, SocketsUntouched
<1>10. QED
  BY <1>1, <1>2, <1>3, <1>4, <1>5, <1>6, <1>7, <1>8, <1>9 DEF Next

-----------------------------------------------------------------------------
LEMMA SpecIInv == Spec => []IInv
<1>1. Init => IInv
  BY InitIInv
<1>2. IInv /\ [Next]_vars => IInv'
  BY NextTypeOK, NextConnectedHasSocket, NextNoOrphanSocket DEF IInv
<1>3. QED
  BY <1>1, <1>2, PTL DEF Spec

\* The connection, its sockets and the messages to them hold what they should.
THEOREM TypeCorrect == Spec => []TypeOK
<1>1. IInv => TypeOK
  BY DEF IInv
<1>2. QED
  BY <1>1, SpecIInv, PTL

\* isConnected and the heartbeat never outlive the last open socket that the
\* server has greeted.
THEOREM ConnectionIsReal == Spec => []ConnectedHasSocket
<1>1. IInv => ConnectedHasSocket
  BY DEF IInv
<1>2. QED
  BY <1>1, SpecIInv, PTL

\* While no connect() overlaps with an unfinished connection, this.websocket is
\* the only socket that lives.
THEOREM SocketsHaveOwner == Spec => []NoOrphanSocket
<1>1. IInv => NoOrphanSocket
  BY DEF IInv
<1>2. QED
  BY <1>1, SpecIInv, PTL

=============================================================================
