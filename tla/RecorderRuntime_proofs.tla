------------------------ MODULE RecorderRuntime_proofs ------------------------
(***************************************************************************)
(* Proofs about RecorderRuntime, for any number of recordings, starts and  *)
(* messages under way: its types; that what the page shows of a recording  *)
(* is right once every message is handled, however clicks, messages,       *)
(* expiries and failures cross; and that a thread gets its operations one  *)
(* at a time.                                                              *)
(***************************************************************************)
EXTENDS RecorderRuntime, FiniteSetTheorems, SequenceTheorems, TLAPS

-----------------------------------------------------------------------------
(* Types.                                                                  *)

Phase == {"starting", "recording", "paused"}

StartMessage == [type : {"start"}, session : {None}, fits : BOOLEAN]
OpMessage == [type : {"op"}, session : {None}]
StopMessage == [type : {"stop"}, session : Session \cup {None}]
PauseMessage == [type : {"pause"}, session : Session \cup {None}]
UpMessage ==
    StartMessage \cup OpMessage \cup StopMessage \cup PauseMessage
    \cup [type : {"resume", "keepalive"}, session : Session \cup {None}]

ReadyMessage == [type : {"recording_ready"}, session : Session]
FeedbackMessage == [type : {"operation_feedback"}, state : Phase]
Paused == [type |-> "recording_paused"]
Resumed == [type |-> "recording_resumed"]
Stopped == [type |-> "recording_stopped"]
StateMessage == ReadyMessage \cup {Paused, Resumed}   \* tells what the thread does
OverMessage == {Stopped, Error, Gone}                 \* ends the recording on the page
DownMessage == StateMessage \cup OverMessage \cup FeedbackMessage

Types ==
    /\ isConnected \in BOOLEAN /\ isRecording \in BOOLEAN /\ isPaused \in BOOLEAN
    /\ operationPending \in BOOLEAN /\ keepalive \in BOOLEAN
    /\ modeDisabled \in BOOLEAN /\ toggleDisabled \in BOOLEAN /\ pauseDisabled \in BOOLEAN
    /\ recordingSessionId \in Session \cup {None}
    /\ starts \in Seq(BOOLEAN)
    /\ up \in Seq(UpMessage) /\ Len(up) <= MaxUp /\ down \in Seq(DownMessage)
    /\ session \in [Session -> {"none", "alive", "dead", "over"}]
    /\ phase \in Phase
    /\ queue \in Seq({"op", "pause", "resume"}) /\ lease \subseteq Session

OneAlive == \A s, t \in AliveSession : s = t

\* Without a thread there is nothing in its queue.
ThreadOver == AliveSession = {} => phase = "starting" /\ queue = <<>>

-----------------------------------------------------------------------------
(* Channels.                                                               *)

Where(s, M) == {i \in DOMAIN s : s[i] \in M}
Has(s, M) == \E i \in DOMAIN s : s[i] \in M
NoneAfter(s, i, M) == \A j \in DOMAIN s : j > i => s[j] \notin M
One(S) == \A i, j \in S : i = j

-----------------------------------------------------------------------------
(* One operation.                                                          *)

\* What is clicked when nothing of an earlier recording is left meets an empty
\* channel at every step until the page has heard that the recording runs.
StartWaits ==
    starts # <<>> =>
        Len(starts) = 1 /\ up = <<>> /\ down = <<>> /\ Kept = {} /\ ~isRecording
StartTravels ==
    Has(up, StartMessage) =>
        Len(up) = 1 /\ starts = <<>> /\ down = <<>> /\ Kept = {} /\ ~isRecording
ThreadStarts ==
    AliveSession # {} /\ phase = "starting" =>
        up = <<>> /\ down = <<>> /\ queue = <<>> /\ ~isRecording
ReadyTravels ==
    AliveSession # {} /\ Has(down, ReadyMessage) =>
        Len(down) = 1 /\ up = <<>> /\ queue = <<>> /\ ~isRecording
OneKept == AliveSession # {} => Kept = AliveSession

OpsUp == Where(up, OpMessage)
OpsQueued == Where(queue, {"op"})
Feedbacks == Where(down, FeedbackMessage)
OneOnItsWay ==
    AliveSession # {} =>
        /\ One(OpsUp) /\ One(OpsQueued) /\ One(Feedbacks)
        /\ OpsUp = {} \/ OpsQueued = {}
        /\ OpsUp = {} \/ Feedbacks = {}
        /\ OpsQueued = {} \/ Feedbacks = {}
        /\ isRecording /\ ~operationPending => OpsUp = {} /\ OpsQueued = {} /\ Feedbacks = {}

Order ==
    /\ StartWaits /\ StartTravels /\ ThreadStarts /\ ReadyTravels
    /\ OneKept /\ OneOnItsWay
Orderly == ~overlap => Order

-----------------------------------------------------------------------------
(* The page and the server.                                                *)

\* The last message about the thread tells what it is doing.
StateTells(s, ph) ==
    \A i \in DOMAIN s :
        s[i] \in StateMessage /\ NoneAfter(s, i, StateMessage) => (s[i] = Paused <=> ph = "paused")
\* A feedback that is not superseded does not invent a pause.
FeedbackTells(s, ph) ==
    \A i \in DOMAIN s :
        /\ s[i] \in FeedbackMessage /\ s[i].state = "paused"
        /\ NoneAfter(s, i, StateMessage)
        => ph = "paused"
\* A recording that is told to run is kept, or its end is told behind.
ReadyTells(s, kept) ==
    \A i \in DOMAIN s :
        s[i] \in ReadyMessage /\ NoneAfter(s, i, OverMessage) => s[i].session \in kept
\* Nobody has heard of a recording before its thread is ready.
Unheard == {s \in Session : session[s] = "none" \/ (session[s] = "alive" /\ phase = "starting")}
UnheardIn(s, unheard) ==
    \A i \in DOMAIN s : s[i] \in ReadyMessage => s[i].session \notin unheard

ChannelTells ==
    /\ ReadyTells(down, Kept)
    /\ UnheardIn(down, Unheard)
    /\ AliveSession # {} /\ phase # "starting" => StateTells(down, phase) /\ FeedbackTells(down, phase)
PageKept == isRecording /\ ~Has(down, OverMessage) => recordingSessionId \in Kept
PageHeard == isRecording => recordingSessionId \in Session \ Unheard
PagePaused ==
    isRecording /\ recordingSessionId \in AliveSession /\ ~Has(down, StateMessage)
    => (isPaused <=> phase = "paused")
PageKeepsAlive ==
    /\ isRecording /\ recordingSessionId \in AliveSession
    /\ ~Has(down, StateMessage) /\ ~Has(down, OverMessage)
    /\ ~Has(up, StopMessage \cup PauseMessage) /\ ~Has(queue, {"pause"})
    => (keepalive <=> phase # "paused")
Agreement == ChannelTells /\ PageKept /\ PageHeard /\ PagePaused /\ PageKeepsAlive
-----------------------------------------------------------------------------
(* Sequences, channels and the kinds of messages.                          *)

LEMMA AppendElements ==
    ASSUME NEW S, NEW s \in Seq(S), NEW e \in S
    PROVE  /\ Append(s, e) \in Seq(S) /\ Append(s, e) # <<>>
           /\ Len(Append(s, e)) = Len(s) + 1 /\ Len(s) \in Nat
           /\ DOMAIN s = 1..Len(s) /\ DOMAIN Append(s, e) = 1..(Len(s) + 1)
           /\ \A i \in 1..Len(s) : Append(s, e)[i] = s[i]
           /\ Append(s, e)[Len(s) + 1] = e
OBVIOUS

LEMMA TailElements ==
    ASSUME NEW S, NEW s \in Seq(S), s # <<>>
    PROVE  /\ Tail(s) \in Seq(S) /\ Head(s) = s[1] /\ Head(s) \in S
           /\ Len(s) \in Nat /\ Len(s) >= 1 /\ Len(Tail(s)) = Len(s) - 1
           /\ DOMAIN s = 1..Len(s) /\ DOMAIN Tail(s) = 1..(Len(s) - 1)
           /\ \A i \in 1..(Len(s) - 1) : Tail(s)[i] = s[i + 1]
OBVIOUS

LEMMA EmptyHas == \A M : ~Has(<<>>, M) /\ Where(<<>>, M) = {}
BY DEF Has, Where

LEMMA HasWhere == \A s, M : Has(s, M) <=> Where(s, M) # {}
BY DEF Has, Where

LEMMA AppendHas ==
    ASSUME NEW S, NEW s \in Seq(S), NEW e \in S, NEW M
    PROVE  Has(Append(s, e), M) <=> Has(s, M) \/ e \in M
<1> DEFINE t == Append(s, e)
<1>1. /\ Len(s) \in Nat /\ DOMAIN s = 1..Len(s) /\ DOMAIN t = 1..(Len(s) + 1)
      /\ \A i \in 1..Len(s) : t[i] = s[i]
      /\ t[Len(s) + 1] = e
  BY AppendElements
<1> HIDE DEF t
<1>2. ASSUME Has(t, M) PROVE Has(s, M) \/ e \in M
  <2>1. PICK i \in DOMAIN t : t[i] \in M
    BY <1>2 DEF Has
  <2>2. i \in 1..Len(s) \/ i = Len(s) + 1
    BY <1>1, <2>1
  <2>3. QED
    BY <1>1, <2>1, <2>2 DEF Has
<1>3. ASSUME Has(s, M) PROVE Has(t, M)
  BY <1>1, <1>3 DEF Has
<1>4. ASSUME e \in M PROVE Has(t, M)
  BY <1>1, <1>4 DEF Has
<1>5. QED
  BY <1>2, <1>3, <1>4 DEF t

LEMMA TailHas ==
    ASSUME NEW S, NEW s \in Seq(S), s # <<>>, NEW M
    PROVE  Has(s, M) <=> Has(Tail(s), M) \/ Head(s) \in M
<1> DEFINE t == Tail(s)
<1>1. /\ Len(s) \in Nat /\ Len(s) >= 1 /\ Head(s) = s[1]
      /\ DOMAIN s = 1..Len(s) /\ DOMAIN t = 1..(Len(s) - 1)
      /\ \A i \in 1..(Len(s) - 1) : t[i] = s[i + 1]
  BY TailElements
<1> HIDE DEF t
<1>2. ASSUME Has(s, M) PROVE Has(t, M) \/ Head(s) \in M
  <2>1. PICK i \in DOMAIN s : s[i] \in M
    BY <1>2 DEF Has
  <2>2. i = 1 \/ (i - 1 \in 1..(Len(s) - 1) /\ t[i - 1] = s[i])
    BY <1>1, <2>1
  <2>3. QED
    BY <1>1, <2>1, <2>2 DEF Has
<1>3. ASSUME Has(t, M) PROVE Has(s, M)
  <2>1. PICK i \in DOMAIN t : t[i] \in M
    BY <1>3 DEF Has
  <2>2. i + 1 \in DOMAIN s /\ s[i + 1] \in M
    BY <1>1, <2>1
  <2>3. QED
    BY <2>2 DEF Has
<1>4. ASSUME Head(s) \in M PROVE Has(s, M)
  BY <1>1, <1>4 DEF Has
<1>5. QED
  BY <1>2, <1>3, <1>4 DEF t

\* Counting without numbers: what is appended is the only one if there was none.
LEMMA AppendOne ==
    ASSUME NEW S, NEW s \in Seq(S), NEW e \in S, NEW M
    PROVE  /\ One(Where(s, M)) /\ e \notin M => One(Where(Append(s, e), M))
           /\ ~Has(s, M) => One(Where(Append(s, e), M))
<1> DEFINE t == Append(s, e)
<1>1. /\ Len(s) \in Nat /\ DOMAIN s = 1..Len(s) /\ DOMAIN t = 1..(Len(s) + 1)
      /\ \A i \in 1..Len(s) : t[i] = s[i]
      /\ t[Len(s) + 1] = e
  BY AppendElements
<1> HIDE DEF t
<1>2. ASSUME One(Where(s, M)), e \notin M PROVE One(Where(t, M))
  <2>1. \A i \in Where(t, M) : i \in Where(s, M)
    BY <1>1, <1>2 DEF Where
  <2>2. QED
    BY <1>2, <2>1 DEF One
<1>3. ASSUME ~Has(s, M) PROVE One(Where(t, M))
  <2>1. \A i \in Where(t, M) : i = Len(s) + 1
    BY <1>1, <1>3 DEF Where, Has
  <2>2. QED
    BY <2>1 DEF One
<1>4. QED
  BY <1>2, <1>3 DEF t

LEMMA TailOne ==
    ASSUME NEW S, NEW s \in Seq(S), s # <<>>, NEW M, One(Where(s, M))
    PROVE  /\ One(Where(Tail(s), M))
           /\ Head(s) \in M => ~Has(Tail(s), M)
<1> DEFINE t == Tail(s)
<1>1. /\ Len(s) \in Nat /\ Len(s) >= 1 /\ Head(s) = s[1]
      /\ DOMAIN s = 1..Len(s) /\ DOMAIN t = 1..(Len(s) - 1)
      /\ \A i \in 1..(Len(s) - 1) : t[i] = s[i + 1]
  BY TailElements
<1> HIDE DEF t
<1>2. \A i \in Where(t, M) : i \in Nat /\ i >= 1 /\ i + 1 \in Where(s, M)
  BY <1>1 DEF Where
<1>3. One(Where(t, M))
  <2> SUFFICES ASSUME NEW i \in Where(t, M), NEW j \in Where(t, M) PROVE i = j
    BY DEF One
  <2>1. i + 1 = j + 1
    BY <1>2 DEF One
  <2>2. QED
    BY <1>2, <2>1
<1>4. ASSUME Head(s) \in M, Has(t, M) PROVE FALSE
  <2>1. 1 \in Where(s, M)
    BY <1>1, <1>4 DEF Where
  <2>2. PICK i \in Where(t, M) : TRUE
    BY <1>4 DEF Has, Where
  <2>3. i + 1 = 1
    BY <1>2, <2>1, <2>2 DEF One
  <2>4. QED
    BY <1>2, <2>2, <2>3
<1>5. QED
  BY <1>3, <1>4 DEF t

\* A message is of one kind, which its type tells.
LEMMA UpKinds ==
    ASSUME NEW m \in UpMessage
    PROVE  /\ m \in StartMessage <=> m.type = "start"
           /\ m \in OpMessage <=> m.type = "op"
           /\ m \in StopMessage <=> m.type = "stop"
           /\ m \in PauseMessage <=> m.type = "pause"
BY DEF UpMessage, StartMessage, OpMessage, StopMessage, PauseMessage

LEMMA DownKinds ==
    ASSUME NEW m \in DownMessage
    PROVE  /\ m \in ReadyMessage <=> m.type = "recording_ready"
           /\ m = Paused <=> m.type = "recording_paused"
           /\ m = Resumed <=> m.type = "recording_resumed"
           /\ m \in FeedbackMessage <=> m.type = "operation_feedback"
           /\ m \in OverMessage
                <=> m.type \in {"recording_stopped", "recording_error", "session_event"}
           /\ m \in StateMessage
                <=> m.type \in {"recording_ready", "recording_paused", "recording_resumed"}
BY DEF DownMessage, StateMessage, ReadyMessage, FeedbackMessage, OverMessage, Paused, Resumed,
       Stopped, Error, Gone

LEMMA Messages ==
    /\ Error \in DownMessage \cap OverMessage /\ Gone \in DownMessage \cap OverMessage
    /\ Stopped \in DownMessage \cap OverMessage
    /\ Paused \in DownMessage \cap StateMessage /\ Resumed \in DownMessage \cap StateMessage
    /\ Paused # Resumed
    /\ \A s \in Session : [type |-> "recording_ready", session |-> s] \in DownMessage
    /\ \A ph \in Phase : [type |-> "operation_feedback", state |-> ph] \in DownMessage
BY DEF DownMessage, StateMessage, ReadyMessage, FeedbackMessage, OverMessage, Paused, Resumed,
       Stopped, Error, Gone

-----------------------------------------------------------------------------
(* What the messages on a channel tell, when one is added or taken.        *)

LEMMA AppendReady ==
    ASSUME NEW s \in Seq(DownMessage), NEW e \in DownMessage, NEW K, NEW L, ReadyTells(s, K),
           e \in OverMessage \/ (K \subseteq L /\ (e \in ReadyMessage => e.session \in L))
    PROVE  ReadyTells(Append(s, e), L)
<1> DEFINE t == Append(s, e)
<1>1. /\ Len(s) \in Nat /\ DOMAIN s = 1..Len(s) /\ DOMAIN t = 1..(Len(s) + 1)
      /\ \A i \in 1..Len(s) : t[i] = s[i]
      /\ t[Len(s) + 1] = e
  BY AppendElements
<1> HIDE DEF t
<1> SUFFICES ASSUME NEW i \in DOMAIN t, t[i] \in ReadyMessage, NoneAfter(t, i, OverMessage)
             PROVE  t[i].session \in L
  BY DEF ReadyTells, t
<1>2. CASE i = Len(s) + 1
  BY <1>1, <1>2, DownKinds
<1>3. CASE i \in 1..Len(s)
  <2>1. e \notin OverMessage
    BY <1>1, <1>3 DEF NoneAfter
  <2>2. NoneAfter(s, i, OverMessage)
    BY <1>1, <1>3 DEF NoneAfter
  <2>3. s[i].session \in K
    BY <1>1, <1>3, <2>2 DEF ReadyTells
  <2>4. QED
    BY <1>1, <1>3, <2>1, <2>3
<1>4. QED
  BY <1>1, <1>2, <1>3

LEMMA TailReady ==
    ASSUME NEW s \in Seq(DownMessage), s # <<>>, NEW K, ReadyTells(s, K)
    PROVE  /\ ReadyTells(Tail(s), K)
           /\ Head(s) \in ReadyMessage /\ ~Has(Tail(s), OverMessage) => Head(s).session \in K
<1> DEFINE t == Tail(s)
<1>1. /\ Len(s) \in Nat /\ Len(s) >= 1 /\ Head(s) = s[1]
      /\ DOMAIN s = 1..Len(s) /\ DOMAIN t = 1..(Len(s) - 1)
      /\ \A i \in 1..(Len(s) - 1) : t[i] = s[i + 1]
  BY TailElements
<1> HIDE DEF t
<1>2. ASSUME NEW i \in DOMAIN t, t[i] \in ReadyMessage, NoneAfter(t, i, OverMessage)
      PROVE  t[i].session \in K
  <2>1. i + 1 \in DOMAIN s /\ s[i + 1] = t[i]
    BY <1>1
  <2>2. ASSUME NEW j \in DOMAIN s, j > i + 1 PROVE s[j] \notin OverMessage
    <3>1. j - 1 \in DOMAIN t /\ j - 1 > i /\ t[j - 1] = s[j]
      BY <1>1, <2>2
    <3>2. QED
      BY <1>2, <3>1 DEF NoneAfter
  <2>3. QED
    BY <1>2, <2>1, <2>2 DEF ReadyTells, NoneAfter
<1>3. ASSUME Head(s) \in ReadyMessage, ~Has(t, OverMessage) PROVE Head(s).session \in K
  <2>1. ASSUME NEW j \in DOMAIN s, j > 1 PROVE s[j] \notin OverMessage
    <3>1. j - 1 \in DOMAIN t /\ t[j - 1] = s[j]
      BY <1>1, <2>1
    <3>2. QED
      BY <1>3, <3>1 DEF Has
  <2>2. QED
    BY <1>1, <1>3, <2>1 DEF ReadyTells, NoneAfter
<1>4. QED
  BY <1>2, <1>3 DEF ReadyTells, t

LEMMA AppendState ==
    ASSUME NEW s \in Seq(DownMessage), NEW e \in DownMessage, e \in StateMessage, NEW ph,
           e = Paused <=> ph = "paused"
    PROVE  StateTells(Append(s, e), ph) /\ FeedbackTells(Append(s, e), ph)
<1> DEFINE t == Append(s, e)
<1>1. /\ Len(s) \in Nat /\ DOMAIN t = 1..(Len(s) + 1) /\ t[Len(s) + 1] = e
  BY AppendElements
<1> HIDE DEF t
<1>2. \A i \in DOMAIN t : NoneAfter(t, i, StateMessage) => i = Len(s) + 1
  BY <1>1 DEF NoneAfter
<1>3. e \notin FeedbackMessage
  BY DownKinds
<1>4. QED
  BY <1>1, <1>2, <1>3 DEF StateTells, FeedbackTells, t

LEMMA AppendOther ==
    ASSUME NEW s \in Seq(DownMessage), NEW e \in DownMessage, e \notin StateMessage, NEW ph,
           StateTells(s, ph), FeedbackTells(s, ph),
           e \in FeedbackMessage /\ e.state = "paused" => ph = "paused"
    PROVE  StateTells(Append(s, e), ph) /\ FeedbackTells(Append(s, e), ph)
<1> DEFINE t == Append(s, e)
<1>1. /\ Len(s) \in Nat /\ DOMAIN s = 1..Len(s) /\ DOMAIN t = 1..(Len(s) + 1)
      /\ \A i \in 1..Len(s) : t[i] = s[i]
      /\ t[Len(s) + 1] = e
  BY AppendElements
<1> HIDE DEF t
<1>2. \A i \in 1..Len(s) : NoneAfter(t, i, StateMessage) => NoneAfter(s, i, StateMessage)
  BY <1>1 DEF NoneAfter
<1>3. StateTells(t, ph)
  <2> SUFFICES ASSUME NEW i \in DOMAIN t, t[i] \in StateMessage, NoneAfter(t, i, StateMessage)
               PROVE  t[i] = Paused <=> ph = "paused"
    BY DEF StateTells
  <2>1. i \in 1..Len(s)
    BY <1>1
  <2>2. QED
    BY <1>1, <1>2, <2>1 DEF StateTells
<1>4. FeedbackTells(t, ph)
  <2> SUFFICES ASSUME NEW i \in DOMAIN t, t[i] \in FeedbackMessage, t[i].state = "paused",
                      NoneAfter(t, i, StateMessage)
               PROVE  ph = "paused"
    BY DEF FeedbackTells
  <2>1. i \in 1..Len(s) \/ t[i] = e
    BY <1>1
  <2>2. QED
    BY <1>1, <1>2, <2>1 DEF FeedbackTells
<1>5. QED
  BY <1>3, <1>4 DEF t

LEMMA TailState ==
    ASSUME NEW s \in Seq(DownMessage), s # <<>>, NEW ph, StateTells(s, ph), FeedbackTells(s, ph)
    PROVE  /\ StateTells(Tail(s), ph) /\ FeedbackTells(Tail(s), ph)
           /\ ~Has(Tail(s), StateMessage) =>
                /\ Head(s) \in StateMessage => (Head(s) = Paused <=> ph = "paused")
                /\ Head(s) \in FeedbackMessage /\ Head(s).state = "paused" => ph = "paused"
<1> DEFINE t == Tail(s)
<1>1. /\ Len(s) \in Nat /\ Len(s) >= 1 /\ Head(s) = s[1]
      /\ DOMAIN s = 1..Len(s) /\ DOMAIN t = 1..(Len(s) - 1)
      /\ \A i \in 1..(Len(s) - 1) : t[i] = s[i + 1]
  BY TailElements
<1> HIDE DEF t
<1>2. ASSUME NEW i \in DOMAIN t, NoneAfter(t, i, StateMessage)
      PROVE  i + 1 \in DOMAIN s /\ s[i + 1] = t[i] /\ NoneAfter(s, i + 1, StateMessage)
  <2>1. i + 1 \in DOMAIN s /\ s[i + 1] = t[i]
    BY <1>1
  <2>2. ASSUME NEW j \in DOMAIN s, j > i + 1 PROVE s[j] \notin StateMessage
    <3>1. j - 1 \in DOMAIN t /\ j - 1 > i /\ t[j - 1] = s[j]
      BY <1>1, <2>2
    <3>2. QED
      BY <1>2, <3>1 DEF NoneAfter
  <2>3. QED
    BY <2>1, <2>2 DEF NoneAfter
<1>3. StateTells(t, ph) /\ FeedbackTells(t, ph)
  BY <1>2 DEF StateTells, FeedbackTells
<1>4. ASSUME ~Has(t, StateMessage) PROVE NoneAfter(s, 1, StateMessage) /\ 1 \in DOMAIN s
  <2>1. ASSUME NEW j \in DOMAIN s, j > 1 PROVE s[j] \notin StateMessage
    <3>1. j - 1 \in DOMAIN t /\ t[j - 1] = s[j]
      BY <1>1, <2>1
    <3>2. QED
      BY <1>4, <3>1 DEF Has
  <2>2. QED
    BY <1>1, <2>1 DEF NoneAfter
<1>5. ASSUME ~Has(t, StateMessage)
      PROVE  /\ Head(s) \in StateMessage => (Head(s) = Paused <=> ph = "paused")
             /\ Head(s) \in FeedbackMessage /\ Head(s).state = "paused" => ph = "paused"
  BY <1>1, <1>4, <1>5 DEF StateTells, FeedbackTells
<1>6. QED
  BY <1>3, <1>5 DEF t

LEMMA AppendUnheard ==
    ASSUME NEW s \in Seq(DownMessage), NEW e \in DownMessage, NEW U, NEW V, UnheardIn(s, U),
           V \subseteq U, e \in ReadyMessage => e.session \notin V
    PROVE  UnheardIn(Append(s, e), V)
BY AppendElements DEF UnheardIn

LEMMA TailUnheard ==
    ASSUME NEW s \in Seq(DownMessage), s # <<>>, NEW U, UnheardIn(s, U)
    PROVE  /\ UnheardIn(Tail(s), U)
           /\ Head(s) \in ReadyMessage => Head(s).session \notin U
<1> DEFINE t == Tail(s)
<1>1. /\ Len(s) \in Nat /\ Len(s) >= 1 /\ Head(s) = s[1]
      /\ DOMAIN s = 1..Len(s) /\ DOMAIN t = 1..(Len(s) - 1)
      /\ \A i \in 1..(Len(s) - 1) : t[i] = s[i + 1]
  BY TailElements
<1> HIDE DEF t
<1>2. ASSUME NEW i \in DOMAIN t PROVE i + 1 \in DOMAIN s /\ s[i + 1] = t[i]
  BY <1>1
<1>3. UnheardIn(t, U)
  BY <1>2 DEF UnheardIn
<1>4. QED
  BY <1>1, <1>3 DEF UnheardIn, t

LEMMA SameTells ==
    ASSUME NEW s, NEW K, NEW L, K \subseteq L
    PROVE  /\ ReadyTells(s, K) => ReadyTells(s, L)
           /\ UnheardIn(s, L) => UnheardIn(s, K)
BY DEF ReadyTells, UnheardIn

-----------------------------------------------------------------------------
(* Types, and the thread that runs.                                        *)

Sound == Types /\ OneAlive /\ ThreadOver

LEMMA InitSound == Init => Sound
<1> SUFFICES ASSUME Init PROVE Sound
  OBVIOUS
<1>1. AliveSession = {}
  BY DEF Init, AliveSession
<1>2. session \in [Session -> {"none", "alive", "dead", "over"}]
  BY DEF Init
<1>3. /\ starts \in Seq(BOOLEAN) /\ up \in Seq(UpMessage) /\ down \in Seq(DownMessage)
      /\ queue \in Seq({"op", "pause", "resume"}) /\ Len(up) <= MaxUp
  BY RuntimeAssumption DEF Init
<1>4. Types
  BY <1>2, <1>3 DEF Init, Types, Phase
<1>5. QED
  BY <1>1, <1>4 DEF Init, Sound, OneAlive, ThreadOver

LEMMA DownType ==
    ASSUME Types
    PROVE  /\ down # <<>> => Tail(down) \in Seq(DownMessage) /\ Head(down) \in DownMessage
           /\ \A m \in DownMessage :
                down \o <<m>> = Append(down, m) /\ Append(down, m) \in Seq(DownMessage)
           /\ \A m, n \in DownMessage :
                /\ down \o Append(<<m>>, n) = Append(Append(down, m), n)
                /\ Append(Append(down, m), n) \in Seq(DownMessage)
BY DEF Types

LEMMA UpType ==
    ASSUME Types
    PROVE  /\ up # <<>> =>
                /\ Tail(up) \in Seq(UpMessage) /\ Head(up) \in UpMessage
                /\ Len(Tail(up)) <= MaxUp
           /\ \A m \in UpMessage :
                /\ Append(up, m) \in Seq(UpMessage)
                /\ Len(up) < MaxUp => Len(Append(up, m)) <= MaxUp
BY RuntimeAssumption DEF Types

\* What a step of the page, between its messages, does to the server: nothing.
PageStep ==
    \/ Connected \/ switchRecordingMode
    \/ startRecording \/ \E i \in DOMAIN starts : StartSends(i) \/ StartFails(i)
    \/ stopRecording \/ pauseRecording \/ resumeRecording
    \/ sendOperation \/ SendKeepalive

LEMMA RemoveType ==
    ASSUME NEW s \in Seq(BOOLEAN), NEW i \in DOMAIN s
    PROVE  /\ RemoveAt(s, i) \in Seq(BOOLEAN)
           /\ Len(s) = 1 => RemoveAt(s, i) = <<>>
<1>1. i \in 1..Len(s) /\ Len(s) \in Nat
  OBVIOUS
<1>2. SubSeq(s, 1, i - 1) \in Seq(BOOLEAN) /\ SubSeq(s, i + 1, Len(s)) \in Seq(BOOLEAN)
  BY <1>1
<1>3. ASSUME Len(s) = 1 PROVE RemoveAt(s, i) = <<>>
  <2>1. i = 1
    BY <1>1, <1>3
  <2>2. SubSeq(s, 1, 0) = <<>> /\ SubSeq(s, 2, 1) = <<>>
    OBVIOUS
  <2>3. QED
    BY <1>3, <2>1, <2>2 DEF RemoveAt
<1>4. QED
  BY <1>2, <1>3 DEF RemoveAt

LEMMA PageType ==
    ASSUME Types, PageStep
    PROVE  Types'
<1> USE DEF Types, clientVars, formVars, recVars, serverVars
<1>1. CASE Connected
  BY <1>1 DEF Connected, updatePauseButtonState
<1>2. CASE switchRecordingMode
  <2>1. [i \in DOMAIN starts |-> ~starts[i]] \in Seq(BOOLEAN)
    <3>1. \A i \in DOMAIN starts : (~starts[i]) \in BOOLEAN
      OBVIOUS
    <3>2. DOMAIN starts = 1..Len(starts) /\ Len(starts) \in Nat
      OBVIOUS
    <3>3. [i \in 1..Len(starts) |-> ~starts[i]] \in [1..Len(starts) -> BOOLEAN]
      BY <3>1, <3>2
    <3>4. QED
      BY <3>2, <3>3
  <2>2. QED
    BY <1>2, <2>1 DEF switchRecordingMode
<1>3. CASE startRecording
  <2>1. Append(starts, TRUE) \in Seq(BOOLEAN)
    OBVIOUS
  <2>2. QED
    BY <1>3, <2>1 DEF startRecording
<1>4. ASSUME NEW i \in DOMAIN starts, StartSends(i) PROVE Types'
  <2>1. [type |-> "start", session |-> None, fits |-> starts[i]] \in UpMessage
    BY DEF UpMessage, StartMessage
  <2>2. up' \in Seq(UpMessage) /\ Len(up') <= MaxUp
    BY <1>4, <2>1, UpType DEF StartSends, SendUp
  <2>3. starts' \in Seq(BOOLEAN)
    BY <1>4, RemoveType DEF StartSends
  <2>4. QED
    BY <1>4, <2>2, <2>3 DEF StartSends, updatePauseButtonState
<1>5. ASSUME NEW i \in DOMAIN starts, StartFails(i) PROVE Types'
  BY <1>5, RemoveType DEF StartFails, updatePauseButtonState
<1>6. CASE stopRecording \/ pauseRecording \/ resumeRecording \/ SendKeepalive
  <2>1. /\ [type |-> "stop", session |-> recordingSessionId] \in UpMessage
        /\ [type |-> "pause", session |-> recordingSessionId] \in UpMessage
        /\ [type |-> "resume", session |-> recordingSessionId] \in UpMessage
        /\ [type |-> "keepalive", session |-> recordingSessionId] \in UpMessage
    BY DEF UpMessage, StopMessage, PauseMessage
  <2>2. up' \in Seq(UpMessage) /\ Len(up') <= MaxUp
    BY <1>6, <2>1, UpType
       DEF stopRecording, pauseRecording, resumeRecording, SendKeepalive, SendUp
  <2>3. QED
    BY <1>6, <2>2 DEF stopRecording, pauseRecording, resumeRecording, SendKeepalive,
       stopRuntimeKeepalive
<1>7. CASE sendOperation
  <2>1. [type |-> "op", session |-> None] \in UpMessage
    BY DEF UpMessage, OpMessage
  <2>2. up' \in Seq(UpMessage) /\ Len(up') <= MaxUp
    BY <1>7, <2>1, UpType DEF sendOperation, SendUp
  <2>3. QED
    BY <1>7, <2>2 DEF sendOperation, setOperationPending, updatePauseButtonState
<1>8. QED
  BY <1>1, <1>2, <1>3, <1>4, <1>5, <1>6, <1>7 DEF PageStep

LEMMA HandleType ==
    ASSUME Types, Handle
    PROVE  Types'
<1>1. down # <<>> /\ down' = Tail(down)
  BY DEF Handle, handleRecordingReady, handleRecordingStopped, handleRecordingError,
     handleRecordingPaused, handleRecordingResumed, handleOperationFeedback, HandleRuntimeEvent,
     Receive
<1>2. down' \in Seq(DownMessage)
  BY <1>1, DownType
<1> USE DEF Types, serverVars
<1>3. CASE handleRecordingReady
  <2>1. Head(down) \in ReadyMessage
    BY <1>1, <1>3, DownType, DownKinds DEF handleRecordingReady, Receive
  <2>2. Head(down).session \in Session
    BY <2>1 DEF ReadyMessage
  <2>3. QED
    BY <1>2, <1>3, <2>2 DEF handleRecordingReady, startRuntimeKeepalive, updatePauseButtonState
<1>4. CASE handleRecordingStopped \/ handleRecordingError
  BY <1>2, <1>4 DEF handleRecordingStopped, handleRecordingError, RecordingIsOver,
     stopRuntimeKeepalive, updatePauseButtonState
<1>5. CASE handleRecordingPaused \/ handleRecordingResumed
  BY <1>2, <1>5 DEF handleRecordingPaused, handleRecordingResumed, stopRuntimeKeepalive,
     startRuntimeKeepalive, updatePauseButtonState
<1>6. CASE handleOperationFeedback
  BY <1>2, <1>6 DEF handleOperationFeedback, setOperationPending, updatePauseButtonState
<1>7. CASE HandleRuntimeEvent
  BY <1>2, <1>7 DEF HandleRuntimeEvent, resetRecordingRuntimeState, renderIdleRecordingState,
     setOperationPending, stopRuntimeKeepalive, updatePauseButtonState
<1>8. QED
  BY <1>3, <1>4, <1>5, <1>6, <1>7 DEF Handle

\* A recording that is stopped leaves no thread, or the thread as it was.
LEMMA StopEffect ==
    ASSUME Sound, NEW target \in SUBSET Session, NEW before \in {<<>>, <<Gone>>},
           StopTarget(target, before)
    PROVE  /\ \E m \in OverMessage : \/ down' = Append(down, m)
                                     \/ down' = Append(Append(down, Gone), m)
           /\ down' \in Seq(DownMessage)
           /\ session' = [s \in Session |-> IF s \in target THEN "over" ELSE session[s]]
           /\ lease' \subseteq lease
           /\ IF AliveSession \subseteq target THEN phase' = "starting" /\ queue' = <<>>
              ELSE UNCHANGED <<phase, queue>>
<1>1. session \in [Session -> {"none", "alive", "dead", "over"}]
  BY DEF Sound, Types
<1>2. ASSUME NEW m \in OverMessage, down' = down \o Append(before, m)
      PROVE  /\ down' = Append(down, m) \/ down' = Append(Append(down, Gone), m)
             /\ down' \in Seq(DownMessage)
  <2>1. m \in DownMessage /\ Gone \in DownMessage /\ Types
    BY Messages DEF OverMessage, Sound
  <2>2. CASE before = <<>>
    <3>1. Append(before, m) = <<m>>
      BY <2>2
    <3>2. QED
      BY <1>2, <2>1, <3>1, DownType
  <2>3. CASE before = <<Gone>>
    BY <1>2, <2>1, <2>3, DownType
  <2>4. QED
    BY <2>2, <2>3
<1>3. CASE target = {}
  <2>1. down' = down \o Append(before, Error) /\ UNCHANGED serverVars
    BY <1>3 DEF StopTarget, Tell
  <2>2. session' = [s \in Session |-> IF s \in target THEN "over" ELSE session[s]]
    BY <1>1, <1>3, <2>1 DEF serverVars
  <2>3. Error \in OverMessage
    BY Messages
  <2>4. AliveSession \subseteq target => phase = "starting" /\ queue = <<>>
    BY <1>3 DEF Sound, ThreadOver
  <2>5. QED
    BY <1>2, <2>1, <2>2, <2>3, <2>4 DEF serverVars
<1>4. CASE target # {}
  <2>1. /\ down' = down \o Append(before, Stopped)
        /\ session' = [s \in Session |-> IF s \in target THEN "over" ELSE session[s]]
        /\ lease' = lease \ target
        /\ IF AliveSession \subseteq target THEN ThreadEnds ELSE UNCHANGED <<phase, queue>>
    BY <1>4 DEF StopTarget, Tell, Stopped
  <2>2. Stopped \in OverMessage
    BY Messages
  <2>3. QED
    BY <1>2, <2>1, <2>2 DEF ThreadEnds
<1>5. QED
  BY <1>3, <1>4

LEMMA StopSound ==
    ASSUME Sound, NEW target \in SUBSET Session, NEW before \in {<<>>, <<Gone>>},
           StopTarget(target, before), UNCHANGED clientVars,
           up' \in Seq(UpMessage), Len(up') <= MaxUp
    PROVE  Sound'
<1>1. /\ down' \in Seq(DownMessage)
      /\ session' = [s \in Session |-> IF s \in target THEN "over" ELSE session[s]]
      /\ lease' \subseteq lease
      /\ IF AliveSession \subseteq target THEN phase' = "starting" /\ queue' = <<>>
         ELSE UNCHANGED <<phase, queue>>
  BY StopEffect
<1>2. Types'
  <2>1. session' \in [Session -> {"none", "alive", "dead", "over"}]
    BY <1>1 DEF Sound, Types
  <2>2. /\ queue' \in Seq({"op", "pause", "resume"}) /\ phase' \in Phase
        /\ lease' \subseteq Session
    <3>1. /\ queue \in Seq({"op", "pause", "resume"}) /\ phase \in Phase
          /\ lease \subseteq Session
      BY DEF Sound, Types
    <3>2. <<>> \in Seq({"op", "pause", "resume"}) /\ "starting" \in Phase
      BY DEF Phase
    <3>3. CASE AliveSession \subseteq target
      BY <1>1, <3>1, <3>2, <3>3
    <3>4. CASE ~(AliveSession \subseteq target)
      BY <1>1, <3>1, <3>4
    <3>5. QED
      BY <3>3, <3>4
  <2>3. QED
    BY <1>1, <2>1, <2>2 DEF Sound, Types, clientVars, formVars, recVars
<1>3. AliveSession' = AliveSession \ target
  BY <1>1 DEF AliveSession
<1>4. CASE AliveSession \subseteq target
  BY <1>1, <1>2, <1>3, <1>4 DEF Sound, OneAlive, ThreadOver
<1>5. CASE ~(AliveSession \subseteq target)
  <2>1. AliveSession' # {} /\ AliveSession' \subseteq AliveSession
    BY <1>3, <1>5
  <2>2. QED
    BY <1>1, <1>2, <2>1 DEF Sound, OneAlive, ThreadOver
<1>6. QED
  BY <1>4, <1>5

LEMMA TargetType == \A named : Target(named) \in SUBSET Session
BY DEF Target, Kept, AliveSession

\* The server's messages, one by one or as a stop tells them.
LEMMA ServeSound ==
    ASSUME Sound, Serve
    PROVE  Sound'
<1>1. /\ up # <<>> /\ up' = Tail(up) /\ UNCHANGED clientVars
  BY DEF Serve, ServeStart, ServeStop, ServeCommand, ServeOperation, ServeKeepalive, Serves
<1>2. up' \in Seq(UpMessage) /\ Len(up') <= MaxUp /\ Types
  BY <1>1, UpType DEF Sound
<1>3. ASSUME NEW m \in DownMessage, Tell(<<m>>), UNCHANGED serverVars PROVE Sound'
  <2>1. down' \in Seq(DownMessage)
    BY <1>2, <1>3, DownType DEF Tell
  <2>2. AliveSession' = AliveSession
    BY <1>3 DEF serverVars, AliveSession
  <2>3. QED
    BY <1>1, <1>2, <1>3, <2>1, <2>2
       DEF Sound, Types, OneAlive, ThreadOver, clientVars, formVars, recVars, serverVars
<1>4. ASSUME NEW q \in {"op", "pause", "resume"}, AliveSession # {}, queue' = Append(queue, q),
             UNCHANGED <<down, session, phase, lease>>
      PROVE  Sound'
  <2>1. queue' \in Seq({"op", "pause", "resume"})
    BY <1>2, <1>4 DEF Types
  <2>2. AliveSession' = AliveSession
    BY <1>4 DEF AliveSession
  <2>3. QED
    BY <1>1, <1>2, <1>4, <2>1, <2>2
       DEF Sound, Types, OneAlive, ThreadOver, clientVars, formVars, recVars
<1>5. ASSUME UNCHANGED <<down, serverVars>> PROVE Sound'
  <2>1. AliveSession' = AliveSession
    BY <1>5 DEF serverVars, AliveSession
  <2>2. QED
    BY <1>1, <1>2, <1>5, <2>1
       DEF Sound, Types, OneAlive, ThreadOver, clientVars, formVars, recVars, serverVars
<1>6. CASE ServeStart
  <2>1. ASSUME NEW s \in Session, AliveSession = {}, session[s] = "none",
               session' = [session EXCEPT ![s] = "alive"], lease' = lease \cup {s},
               UNCHANGED <<down, phase, queue>>
        PROVE  Sound'
    <3>1. session' \in [Session -> {"none", "alive", "dead", "over"}]
      BY <1>2, <2>1 DEF Types
    <3>2. AliveSession' = {s}
      BY <1>2, <2>1 DEF Types, AliveSession
    <3>3. Types'
      BY <1>1, <1>2, <2>1, <3>1 DEF Types, clientVars, formVars, recVars
    <3>4. QED
      BY <3>2, <3>3 DEF Sound, OneAlive, ThreadOver
  <2>2. ASSUME NEW failure \in {Error, Gone}, Tell(<<failure>>), UNCHANGED serverVars
        PROVE  Sound'
    BY <1>3, <2>2, Messages
  <2>3. QED
    BY <1>6, <2>1, <2>2 DEF ServeStart
<1>7. CASE ServeStop
  BY <1>1, <1>2, <1>7, StopSound, TargetType DEF ServeStop
<1>8. ASSUME NEW type \in {"pause", "resume"}, ServeCommand(type) PROVE Sound'
  <2>1. CASE AliveSession = {}
    BY <1>3, <1>8, <2>1, Messages DEF ServeCommand
  <2>2. CASE AliveSession # {} /\ AliveSession \cap lease = {}
    BY <1>1, <1>2, <1>8, <2>2, StopSound, TargetType DEF ServeCommand
  <2>3. CASE AliveSession # {} /\ AliveSession \cap lease # {}
    BY <1>4, <1>8, <2>3 DEF ServeCommand
  <2>4. QED
    BY <2>1, <2>2, <2>3
<1>9. CASE ServeOperation
  <2>1. CASE AliveSession = {}
    BY <1>5, <1>9, <2>1 DEF ServeOperation
  <2>2. CASE AliveSession # {} /\ AliveSession \cap lease = {}
    BY <1>3, <1>9, <2>2, Messages DEF ServeOperation
  <2>3. CASE AliveSession # {} /\ AliveSession \cap lease # {}
    BY <1>4, <1>9, <2>3 DEF ServeOperation
  <2>4. QED
    BY <2>1, <2>2, <2>3
<1>10. CASE ServeKeepalive
  <2>1. CASE Msg.session \in lease
    BY <1>5, <1>10, <2>1 DEF ServeKeepalive
  <2>2. CASE Msg.session \notin lease
    BY <1>1, <1>2, <1>10, <2>2, StopSound, TargetType DEF ServeKeepalive
  <2>3. QED
    BY <2>1, <2>2
<1>11. QED
  BY <1>6, <1>7, <1>8, <1>9, <1>10 DEF Serve

\* What the thread does to its session and its queue, and tells.
ThreadStep == ThreadReady \/ ThreadSteps \/ ThreadDies

LEMMA ThreadSound ==
    ASSUME Sound, ThreadStep
    PROVE  Sound'
<1>1. Types /\ UNCHANGED <<clientVars, up>>
  BY DEF Sound, ThreadStep, ThreadReady, ThreadSteps, ThreadDies
<1>2. ASSUME NEW m \in DownMessage, Tell(<<m>>) PROVE down' \in Seq(DownMessage)
  BY <1>1, <1>2, DownType DEF Tell
<1>3. ASSUME NEW s \in AliveSession, NEW m \in DownMessage, Tell(<<m>>), phase' = "recording",
             UNCHANGED <<session, queue, lease>>
      PROVE  Sound'
  <2>1. AliveSession' = AliveSession
    BY <1>3 DEF AliveSession
  <2>2. down' \in Seq(DownMessage)
    BY <1>2, <1>3
  <2>3. QED
    BY <1>1, <1>3, <2>1, <2>2
       DEF Sound, Types, OneAlive, ThreadOver, clientVars, formVars, recVars, Phase
<1>4. ASSUME NEW s \in AliveSession, NEW m \in DownMessage, Tell(<<m>>),
             session' = [session EXCEPT ![s] = "over"], ThreadEnds, lease' = lease \ {s}
      PROVE  Sound'
  <2>1. session' \in [Session -> {"none", "alive", "dead", "over"}]
    BY <1>1, <1>4 DEF Types
  <2>2. AliveSession' \subseteq AliveSession
    BY <1>1, <1>4 DEF Types, AliveSession
  <2>3. down' \in Seq(DownMessage)
    BY <1>2, <1>4
  <2>4. Types'
    BY <1>1, <1>4, <2>1, <2>3 DEF Types, ThreadEnds, clientVars, formVars, recVars, Phase
  <2>5. QED
    BY <1>4, <2>2, <2>4 DEF Sound, OneAlive, ThreadOver, ThreadEnds
<1>5. CASE ThreadReady
  <2>1. PICK s \in AliveSession :
          \/ /\ Tell(<<[type |-> "recording_ready", session |-> s]>>)
             /\ phase' = "recording" /\ UNCHANGED <<session, queue, lease>>
          \/ /\ \E failure \in {Error, Gone} : Tell(<<failure>>)
             /\ session' = [session EXCEPT ![s] = "over"] /\ ThreadEnds
             /\ lease' = lease \ {s}
    BY <1>5 DEF ThreadReady
  <2>2. s \in Session
    BY DEF AliveSession
  <2>3. QED
    BY <1>3, <1>4, <2>1, <2>2, Messages
<1>6. CASE ThreadSteps
  <2>1. /\ AliveSession # {} /\ queue # <<>> /\ queue' = Tail(queue)
        /\ UNCHANGED <<session, lease>>
    BY <1>6 DEF ThreadSteps
  <2>2. queue' \in Seq({"op", "pause", "resume"}) /\ Head(queue) \in {"op", "pause", "resume"}
    BY <1>1, <2>1 DEF Types
  <2>3. AliveSession' = AliveSession
    BY <2>1 DEF AliveSession
  <2>4. down' \in Seq(DownMessage) /\ phase' \in Phase
    <3>1. CASE Head(queue) = "op"
      <4>1. phase' = phase /\ Tell(<<[type |-> "operation_feedback", state |-> phase]>>)
        BY <1>6, <3>1 DEF ThreadSteps
      <4>2. phase \in Phase
        BY <1>1 DEF Types
      <4>3. QED
        BY <1>2, <4>1, <4>2, Messages
    <3>2. CASE Head(queue) = "pause"
      <4>1. phase' = "paused" /\ Tell(<<Paused>>)
        BY <1>6, <3>2 DEF ThreadSteps, Paused
      <4>2. QED
        BY <1>2, <4>1, Messages DEF Phase
    <3>3. CASE Head(queue) = "resume"
      <4>1. phase' = "recording" /\ Tell(<<Resumed>>)
        BY <1>6, <3>3 DEF ThreadSteps, Resumed
      <4>2. QED
        BY <1>2, <4>1, Messages DEF Phase
    <3>4. QED
      BY <2>2, <3>1, <3>2, <3>3
  <2>5. QED
    BY <1>1, <2>1, <2>2, <2>3, <2>4
       DEF Sound, Types, OneAlive, ThreadOver, clientVars, formVars, recVars
<1>7. CASE ThreadDies
  <2>1. /\ session' = [s \in Session |-> IF s \in AliveSession THEN "dead" ELSE session[s]]
        /\ Tell(<<[type |-> "operation_feedback", state |-> "recording"]>>)
        /\ phase' = "starting" /\ queue' = <<>> /\ lease' = lease
    BY <1>7 DEF ThreadDies, ThreadEnds
  <2>2. down' \in Seq(DownMessage)
    BY <1>2, <2>1, Messages DEF Phase
  <2>3. session' \in [Session -> {"none", "alive", "dead", "over"}]
    BY <1>1, <2>1 DEF Types
  <2>4. AliveSession' = {}
    BY <2>1 DEF AliveSession
  <2>5. QED
    BY <1>1, <2>1, <2>2, <2>3, <2>4
       DEF Sound, Types, OneAlive, ThreadOver, clientVars, formVars, recVars, Phase
<1>8. QED
  BY <1>5, <1>6, <1>7 DEF ThreadStep

LEMMA EndsEffect ==
    ASSUME Sound, ConnectionEnds
    PROVE  /\ up' = <<>> /\ down' = <<>> /\ queue' = <<>> /\ ~isRecording'
           /\ AliveSession' = {} /\ Kept' = {} /\ phase' = "starting"
           /\ \A s \in Session : session'[s] = "none" => session[s] = "none"
           /\ UNCHANGED <<starts, overlap>>
           /\ Sound'
<1>1. /\ up' = <<>> /\ down' = <<>> /\ queue' = <<>> /\ isRecording' = FALSE
      /\ phase' = "starting" /\ lease' = {}
      /\ session' = [s \in Session |-> IF s \in Kept THEN "over" ELSE session[s]]
      /\ UNCHANGED <<starts, overlap>>
      /\ isConnected' = FALSE /\ isPaused' = FALSE /\ recordingSessionId' = None
      /\ operationPending' = FALSE /\ keepalive' = FALSE
      /\ toggleDisabled' = FALSE /\ modeDisabled' = FALSE /\ pauseDisabled' = TRUE
  BY DEF ConnectionEnds, resetRecordingRuntimeState, renderIdleRecordingState,
     stopRuntimeKeepalive, setOperationPending, updatePauseButtonState
<1>2. session' \in [Session -> {"none", "alive", "dead", "over"}]
  BY <1>1 DEF Sound, Types
<1>3. AliveSession' = {} /\ Kept' = {}
  BY <1>1 DEF AliveSession, Kept
<1>4. Types'
  <2>1. <<>> \in Seq(UpMessage) /\ <<>> \in Seq(DownMessage)
        /\ <<>> \in Seq({"op", "pause", "resume"}) /\ Len(<<>>) = 0 /\ 0 <= MaxUp
    BY RuntimeAssumption
  <2>2. QED
    BY <1>1, <1>2, <2>1 DEF Sound, Types, Phase, None
<1>5. QED
  BY <1>1, <1>3, <1>4 DEF Sound, OneAlive, ThreadOver

LEMMA PageEffect ==
    ASSUME Sound, PageStep
    PROVE  /\ UNCHANGED <<down, serverVars, isRecording>>
           /\ AliveSession' = AliveSession /\ Kept' = Kept /\ Unheard' = Unheard
           /\ isRecording => UNCHANGED <<recordingSessionId, isPaused>>
<1>1. /\ UNCHANGED <<down, serverVars, isRecording>>
      /\ isRecording => UNCHANGED <<recordingSessionId, isPaused>>
  BY DEF PageStep, Connected, switchRecordingMode, startRecording, StartSends, StartFails,
     stopRecording, pauseRecording, resumeRecording, sendOperation, SendKeepalive,
     recVars, serverVars, clientVars
<1>2. QED
  BY <1>1 DEF serverVars, AliveSession, Kept, Unheard

LEMMA HandleEffect ==
    ASSUME Handle
    PROVE  /\ down # <<>> /\ down' = Tail(down)
           /\ UNCHANGED <<up, serverVars, starts, overlap>>
           /\ AliveSession' = AliveSession /\ Kept' = Kept /\ Unheard' = Unheard
<1>1. /\ down # <<>> /\ down' = Tail(down)
      /\ UNCHANGED <<up, serverVars, starts, overlap>>
  BY DEF Handle, handleRecordingReady, handleRecordingStopped, handleRecordingError,
     handleRecordingPaused, handleRecordingResumed, handleOperationFeedback, HandleRuntimeEvent,
     Receive, RecordingIsOver
<1>2. QED
  BY <1>1 DEF serverVars, AliveSession, Kept, Unheard

LEMMA NextSound ==
    ASSUME Sound, [Next]_vars
    PROVE  Sound'
<1>1. CASE UNCHANGED vars
  <2>1. AliveSession' = AliveSession
    BY <1>1 DEF vars, serverVars, AliveSession
  <2>2. QED
    BY <1>1, <2>1 DEF vars, clientVars, formVars, recVars, serverVars, Sound, Types, OneAlive,
       ThreadOver
<1>2. CASE PageStep
  <2>1. AliveSession' = AliveSession /\ UNCHANGED serverVars
    BY <1>2, PageEffect
  <2>2. QED
    BY <1>2, <2>1, PageType DEF Sound, OneAlive, ThreadOver, serverVars
<1>3. CASE Handle
  <2>1. AliveSession' = AliveSession /\ UNCHANGED serverVars
    BY <1>3, HandleEffect
  <2>2. QED
    BY <1>3, <2>1, HandleType DEF Sound, OneAlive, ThreadOver, serverVars
<1>4. CASE ConnectionEnds
  BY <1>4, EndsEffect
<1>5. CASE Serve
  BY <1>5, ServeSound
<1>6. CASE ThreadStep
  BY <1>6, ThreadSound
<1>7. CASE IdleCheck
  <2>1. PICK s \in Kept \ lease : StopTarget({s}, <<Gone>>)
    BY <1>7 DEF IdleCheck
  <2>2. {s} \in SUBSET Session /\ UNCHANGED clientVars /\ up' = up
    BY <1>7 DEF Kept, IdleCheck
  <2>3. up' \in Seq(UpMessage) /\ Len(up') <= MaxUp
    BY <2>2 DEF Sound, Types
  <2>4. QED
    BY <2>1, <2>2, <2>3, StopSound
<1>8. CASE RuntimeExpires
  <2>1. /\ UNCHANGED <<clientVars, up, down, session, phase, queue>>
        /\ lease' \subseteq lease
    BY <1>8 DEF RuntimeExpires
  <2>2. AliveSession' = AliveSession
    BY <2>1 DEF AliveSession
  <2>3. QED
    BY <2>1, <2>2 DEF Sound, Types, OneAlive, ThreadOver, clientVars, formVars, recVars
<1>9. QED
  BY <1>1, <1>2, <1>3, <1>4, <1>5, <1>6, <1>7, <1>8 DEF Next, PageStep, ThreadStep

LEMMA SpecSound == Spec => []Sound
<1>1. QED
  BY InitSound, NextSound, PTL DEF Spec

\* The page, both channels and the server keep their types, and at most one
\* thread runs, for any number of recordings and messages.
THEOREM TypesCorrect == Spec => []TypeOK
<1>1. Sound => TypeOK
  <2> SUFFICES ASSUME Sound PROVE Cardinality(AliveSession) <= 1
    BY DEF Sound, Types, TypeOK, Phase
  <2>1. CASE AliveSession = {}
    BY <2>1, FS_EmptySet
  <2>2. ASSUME NEW s \in AliveSession PROVE Cardinality(AliveSession) <= 1
    <3>1. AliveSession = {s}
      BY <2>2 DEF Sound, OneAlive
    <3>2. Cardinality({s}) = 1
      BY FS_Singleton
    <3>3. QED
      BY <3>1, <3>2
  <2>3. QED
    BY <2>1, <2>2
<1>2. QED
  BY <1>1, SpecSound, PTL

-----------------------------------------------------------------------------
(* Page and server agree.                                                  *)

LEMMA InitAgreement == Init => Agreement
<1> SUFFICES ASSUME Init PROVE Agreement
  OBVIOUS
<1>1. down = <<>> /\ ~isRecording /\ AliveSession = {}
  BY DEF Init, AliveSession
<1>2. ReadyTells(<<>>, Kept) /\ UnheardIn(<<>>, Unheard)
  BY DEF ReadyTells, UnheardIn
<1>3. QED
  BY <1>1, <1>2 DEF Agreement, ChannelTells, PageKept, PageHeard, PagePaused, PageKeepsAlive

\* A step of the page does not change what it shows of a recording that runs;
\* a keepalive it stops has a stop or a pause behind it.
LEMMA PageAgreement ==
    ASSUME Sound, Agreement, PageStep
    PROVE  Agreement'
<1>1. /\ UNCHANGED <<down, serverVars, isRecording>>
      /\ AliveSession' = AliveSession /\ Kept' = Kept /\ Unheard' = Unheard
      /\ isRecording => UNCHANGED <<recordingSessionId, isPaused>>
  BY PageEffect
<1>2. Types
  BY DEF Sound
<1>3. ChannelTells'
  BY <1>1 DEF Agreement, ChannelTells, serverVars
<1>4. PageKept' /\ PageHeard' /\ PagePaused'
  BY <1>1 DEF Agreement, PageKept, PageHeard, PagePaused, serverVars
<1> DEFINE SP == StopMessage \cup PauseMessage
<1>5. Has(up, SP) => Has(up', SP)
  <2>1. up' = up \/ \E m \in UpMessage : up' = Append(up, m)
    <3>1. ASSUME NEW i \in DOMAIN starts, StartSends(i) \/ StartFails(i)
          PROVE  up' = up \/ \E m \in UpMessage : up' = Append(up, m)
      <4>1. starts[i] \in BOOLEAN
        BY <1>2 DEF Types
      <4>2. [type |-> "start", session |-> None, fits |-> starts[i]] \in UpMessage
        BY <4>1 DEF UpMessage, StartMessage
      <4>3. QED
        BY <3>1, <4>2 DEF StartSends, StartFails, SendUp
    <3>2. recordingSessionId \in Session \cup {None}
      BY <1>2 DEF Types
    <3>3. /\ [type |-> "stop", session |-> recordingSessionId] \in UpMessage
          /\ [type |-> "pause", session |-> recordingSessionId] \in UpMessage
          /\ [type |-> "resume", session |-> recordingSessionId] \in UpMessage
          /\ [type |-> "keepalive", session |-> recordingSessionId] \in UpMessage
          /\ [type |-> "op", session |-> None] \in UpMessage
      BY <3>2 DEF UpMessage, StopMessage, PauseMessage, OpMessage
    <3>4. QED
      BY <3>1, <3>3
         DEF PageStep, Connected, switchRecordingMode, startRecording, stopRecording,
             pauseRecording, resumeRecording, sendOperation, SendKeepalive, SendUp, clientVars
  <2>2. up \in Seq(UpMessage)
    BY <1>2 DEF Types
  <2> HIDE DEF SP
  <2>3. ASSUME NEW m \in UpMessage, Has(up, SP) PROVE Has(Append(up, m), SP)
    BY <2>2, <2>3, AppendHas
  <2>4. QED
    BY <2>1, <2>3
<1>6. isRecording => keepalive' = keepalive \/ Has(up', SP)
  <2>1. ASSUME isRecording, keepalive' # keepalive PROVE stopRecording \/ pauseRecording
    BY <2>1 DEF PageStep, Connected, switchRecordingMode, startRecording, StartSends, StartFails,
       resumeRecording, sendOperation, SendKeepalive, recVars, clientVars
  <2>2. ASSUME stopRecording \/ pauseRecording PROVE Has(up', SP)
    <3>1. PICK m \in UpMessage : m \in SP /\ up' = Append(up, m)
      <4>1. recordingSessionId \in Session \cup {None}
        BY <1>2 DEF Types
      <4>2. /\ [type |-> "stop", session |-> recordingSessionId] \in UpMessage \cap SP
            /\ [type |-> "pause", session |-> recordingSessionId] \in UpMessage \cap SP
        BY <4>1 DEF UpMessage, StopMessage, PauseMessage
      <4>3. QED
        BY <2>2, <4>2 DEF stopRecording, pauseRecording, SendUp
    <3>2. up \in Seq(UpMessage)
      BY <1>2 DEF Types
    <3>3. QED
      BY <3>1, <3>2, AppendHas
  <2>3. QED
    BY <2>1, <2>2
<1>7. PageKeepsAlive'
  BY <1>1, <1>5, <1>6 DEF Agreement, PageKeepsAlive, serverVars
<1>8. QED
  BY <1>3, <1>4, <1>7 DEF Agreement

\* A page that shows no recording owes nothing; the channel does.
LEMMA IdleAgreement ==
    ASSUME ChannelTells', isRecording' = FALSE
    PROVE  Agreement'
BY DEF Agreement, PageKept, PageHeard, PagePaused, PageKeepsAlive

LEMMA TailTells ==
    ASSUME Sound, Agreement, Handle
    PROVE  ChannelTells'
<1>1. /\ down # <<>> /\ down' = Tail(down) /\ UNCHANGED serverVars
      /\ AliveSession' = AliveSession /\ Kept' = Kept /\ Unheard' = Unheard
      /\ down \in Seq(DownMessage)
  BY HandleEffect DEF Sound, Types
<1>2. ReadyTells(down', Kept) /\ UnheardIn(down', Unheard)
  BY <1>1, TailReady, TailUnheard DEF Agreement, ChannelTells
<1>3. AliveSession # {} /\ phase # "starting" =>
        StateTells(down', phase) /\ FeedbackTells(down', phase)
  BY <1>1, TailState DEF Agreement, ChannelTells
<1>4. QED
  BY <1>1, <1>2, <1>3 DEF ChannelTells, serverVars

LEMMA HandleAgreement ==
    ASSUME Sound, Agreement, Handle
    PROVE  Agreement'
<1>1. /\ down # <<>> /\ down' = Tail(down) /\ UNCHANGED <<up, serverVars>>
      /\ AliveSession' = AliveSession /\ Kept' = Kept /\ Unheard' = Unheard
      /\ UNCHANGED <<session, phase, queue>>
      /\ down \in Seq(DownMessage) /\ Head(down) \in DownMessage
  BY HandleEffect, DownType DEF Sound, Types, serverVars
<1>2. ChannelTells'
  BY TailTells
<1>3. \A M : Has(down, M) <=> Has(down', M) \/ Head(down) \in M
  BY <1>1, TailHas
<1>4. ASSUME AliveSession # {}, phase # "starting", ~Has(down', StateMessage)
      PROVE  /\ Head(down) \in StateMessage => (Head(down) = Paused <=> phase = "paused")
             /\ Head(down) \in FeedbackMessage /\ Head(down).state = "paused" => phase = "paused"
  BY <1>1, <1>4, TailState DEF Agreement, ChannelTells
\* The page shows a recording whose thread is past its start.
<1>5. ASSUME NEW s \in AliveSession, s \notin Unheard PROVE AliveSession # {} /\ phase # "starting"
  BY <1>5 DEF Unheard, AliveSession
<1>6. CASE handleRecordingReady
  <2>1. /\ isRecording' = TRUE /\ isPaused' = FALSE /\ keepalive' = TRUE
        /\ recordingSessionId' = Head(down).session /\ Head(down) \in ReadyMessage
    BY <1>1, <1>6, DownKinds DEF handleRecordingReady, Receive, startRuntimeKeepalive
  <2>2. ~Has(down', OverMessage) => Head(down).session \in Kept
    BY <1>1, <2>1, TailReady DEF Agreement, ChannelTells
  <2>3. Head(down).session \in Session \ Unheard
    BY <1>1, <2>1, TailUnheard DEF Agreement, ChannelTells, ReadyMessage
  <2>4. Head(down) # Paused /\ Head(down) \in StateMessage
    BY <2>1 DEF ReadyMessage, Paused, StateMessage
  <2>5. ASSUME Head(down).session \in AliveSession, ~Has(down', StateMessage)
        PROVE  phase # "paused"
    BY <1>4, <1>5, <2>3, <2>4, <2>5
  <2>6. PageKept' /\ PageHeard'
    BY <1>1, <2>1, <2>2, <2>3 DEF PageKept, PageHeard
  <2>7. PagePaused' /\ PageKeepsAlive'
    BY <1>1, <2>1, <2>5 DEF PagePaused, PageKeepsAlive
  <2>8. QED
    BY <1>2, <2>6, <2>7 DEF Agreement
<1>7. CASE handleRecordingStopped \/ handleRecordingError \/ HandleRuntimeEvent
  <2>1. isRecording' = FALSE
    BY <1>7 DEF handleRecordingStopped, handleRecordingError, RecordingIsOver, HandleRuntimeEvent,
       resetRecordingRuntimeState
  <2>2. QED
    BY <1>2, <2>1, IdleAgreement
<1>8. CASE handleRecordingPaused \/ handleRecordingResumed
  <2>1. /\ UNCHANGED <<isRecording, recordingSessionId>>
        /\ \/ isPaused' = TRUE /\ keepalive' = FALSE /\ Head(down) = Paused
           \/ isPaused' = FALSE /\ keepalive' = TRUE /\ Head(down) = Resumed
    BY <1>1, <1>8, DownKinds DEF handleRecordingPaused, handleRecordingResumed, Receive,
       startRuntimeKeepalive, stopRuntimeKeepalive
  <2>2. Head(down) \in StateMessage /\ Head(down) \notin OverMessage
    BY <1>1, <2>1, Messages, DownKinds
  <2>3. PageKept' /\ PageHeard'
    BY <1>1, <1>3, <2>1, <2>2 DEF Agreement, PageKept, PageHeard
  <2>4. ASSUME isRecording', recordingSessionId' \in AliveSession', ~Has(down', StateMessage)
        PROVE  Head(down) = Paused <=> phase = "paused"
    BY <1>1, <1>4, <1>5, <2>1, <2>2, <2>4 DEF Agreement, PageHeard
  <2>5. PagePaused' /\ PageKeepsAlive'
    BY <1>1, <2>1, <2>4, Messages DEF PagePaused, PageKeepsAlive
  <2>6. QED
    BY <1>2, <2>3, <2>5 DEF Agreement
<1>9. CASE handleOperationFeedback
  <2>1. /\ UNCHANGED <<isRecording, recordingSessionId, keepalive>>
        /\ isPaused' = (isPaused \/ Head(down).state = "paused")
        /\ Head(down) \in FeedbackMessage
    BY <1>1, <1>9, DownKinds DEF handleOperationFeedback, Receive
  <2>2. Head(down) \notin StateMessage /\ Head(down) \notin OverMessage
    BY <1>1, <2>1, DownKinds
  <2>3. PageKept' /\ PageHeard' /\ PageKeepsAlive'
    BY <1>1, <1>3, <2>1, <2>2 DEF Agreement, PageKept, PageHeard, PageKeepsAlive
  <2>4. ASSUME isRecording', recordingSessionId' \in AliveSession', ~Has(down', StateMessage)
        PROVE  isPaused' <=> phase' = "paused"
    <3>1. isPaused <=> phase = "paused"
      BY <1>1, <1>3, <2>1, <2>2, <2>4 DEF Agreement, PagePaused
    <3>2. Head(down).state = "paused" => phase = "paused"
      BY <1>1, <1>4, <1>5, <2>1, <2>4 DEF Agreement, PageHeard
    <3>3. QED
      BY <1>1, <2>1, <3>1, <3>2
  <2>5. PagePaused'
    BY <2>4 DEF PagePaused
  <2>6. QED
    BY <1>2, <2>3, <2>5 DEF Agreement
<1>10. QED
  BY <1>6, <1>7, <1>8, <1>9 DEF Handle

\* The server tells that a recording is over, and ends one or leaves things as
\* they are: whatever the page shows, it will show none.
LEMMA OverAgreement ==
    ASSUME Sound, Agreement, UNCHANGED <<isRecording, isPaused, recordingSessionId>>,
           NEW m \in OverMessage,
           down' = Append(down, m) \/ down' = Append(Append(down, Gone), m),
           AliveSession' \subseteq AliveSession, Unheard' \subseteq Unheard,
           AliveSession' # {} => phase' = phase
    PROVE  Agreement'
<1>1. /\ down \in Seq(DownMessage) /\ m \in DownMessage /\ Gone \in DownMessage
      /\ Gone \in OverMessage /\ Append(down, Gone) \in Seq(DownMessage)
  BY DownType, Messages DEF Sound, Types, OverMessage
<1>2. \A e \in OverMessage : e \in DownMessage
         => e \notin StateMessage /\ e \notin FeedbackMessage /\ e \notin ReadyMessage
  BY DownKinds
<1>3. ReadyTells(down', Kept')
  <2>1. ReadyTells(down, Kept)
    BY DEF Agreement, ChannelTells
  <2>2. ReadyTells(Append(down, m), Kept')
    BY <1>1, <2>1, AppendReady
  <2>3. ReadyTells(Append(down, Gone), Kept)
    BY <1>1, <2>1, AppendReady
  <2>4. ReadyTells(Append(Append(down, Gone), m), Kept')
    BY <1>1, <2>3, AppendReady
  <2>5. QED
    BY <2>2, <2>4
<1>4. UnheardIn(down', Unheard')
  <2>1. UnheardIn(down, Unheard)
    BY DEF Agreement, ChannelTells
  <2>2. UnheardIn(Append(down, m), Unheard')
    BY <1>1, <1>2, <2>1, AppendUnheard
  <2>3. UnheardIn(Append(down, Gone), Unheard)
    BY <1>1, <1>2, <2>1, AppendUnheard
  <2>4. UnheardIn(Append(Append(down, Gone), m), Unheard')
    BY <1>1, <1>2, <2>3, AppendUnheard
  <2>5. QED
    BY <2>2, <2>4
<1>5. ASSUME AliveSession' # {}, phase' # "starting"
      PROVE  StateTells(down', phase') /\ FeedbackTells(down', phase')
  <2>1. StateTells(down, phase) /\ FeedbackTells(down, phase) /\ phase' = phase
    BY <1>5 DEF Agreement, ChannelTells
  <2>2. StateTells(Append(down, m), phase) /\ FeedbackTells(Append(down, m), phase)
    BY <1>1, <1>2, <2>1, AppendOther
  <2>3. StateTells(Append(down, Gone), phase) /\ FeedbackTells(Append(down, Gone), phase)
    BY <1>1, <1>2, <2>1, AppendOther
  <2>4. /\ StateTells(Append(Append(down, Gone), m), phase)
        /\ FeedbackTells(Append(Append(down, Gone), m), phase)
    BY <1>1, <1>2, <2>3, AppendOther
  <2>5. QED
    BY <2>1, <2>2, <2>4
<1>6. Has(down', OverMessage) /\ (~Has(down', StateMessage) => ~Has(down, StateMessage))
  <2>1. /\ Has(Append(down, m), OverMessage)
        /\ Has(down, StateMessage) => Has(Append(down, m), StateMessage)
    BY <1>1, AppendHas
  <2>2. Has(down, StateMessage) => Has(Append(down, Gone), StateMessage)
    BY <1>1, AppendHas
  <2>3. /\ Has(Append(Append(down, Gone), m), OverMessage)
        /\ Has(Append(down, Gone), StateMessage)
             => Has(Append(Append(down, Gone), m), StateMessage)
    BY <1>1, AppendHas
  <2>4. QED
    BY <2>1, <2>2, <2>3
<1>7. PageKept' /\ PageKeepsAlive'
  BY <1>6 DEF PageKept, PageKeepsAlive
<1>8. PageHeard'
  BY DEF Agreement, PageHeard, Unheard
<1>9. PagePaused'
  BY <1>6 DEF Agreement, PagePaused
<1>10. QED
  BY <1>3, <1>4, <1>5, <1>7, <1>8, <1>9 DEF Agreement, ChannelTells

LEMMA StopAgreement ==
    ASSUME Sound, Agreement, NEW target \in SUBSET Session, NEW before \in {<<>>, <<Gone>>},
           StopTarget(target, before), UNCHANGED clientVars
    PROVE  Agreement'
<1>1. PICK m \in OverMessage : down' = Append(down, m) \/ down' = Append(Append(down, Gone), m)
  BY StopEffect
<1>2. /\ session' = [s \in Session |-> IF s \in target THEN "over" ELSE session[s]]
      /\ IF AliveSession \subseteq target THEN phase' = "starting" /\ queue' = <<>>
         ELSE UNCHANGED <<phase, queue>>
  BY StopEffect
<1>3. AliveSession' = AliveSession \ target
  BY <1>2 DEF AliveSession
<1>4. AliveSession' # {} => phase' = phase
  BY <1>2, <1>3
<1>5. ASSUME NEW s \in Unheard' PROVE s \in Unheard
  <2>1. s \in Session /\ s \notin target /\ session'[s] = session[s]
    BY <1>2, <1>5 DEF Unheard
  <2>2. CASE session'[s] = "none"
    BY <2>1, <2>2 DEF Unheard
  <2>3. CASE session'[s] = "alive" /\ phase' = "starting"
    <3>1. s \in AliveSession'
      BY <1>3, <2>1, <2>3 DEF AliveSession
    <3>2. QED
      BY <1>4, <2>1, <2>3, <3>1 DEF Unheard
  <2>4. QED
    BY <1>5, <2>2, <2>3 DEF Unheard
<1>6. QED
  BY <1>1, <1>3, <1>4, <1>5, OverAgreement DEF clientVars, recVars

\* The server takes a message and tells nothing.
LEMMA QuietAgreement ==
    ASSUME Sound, Agreement, UNCHANGED <<clientVars, down, session, phase>>,
           Has(up, StopMessage \cup PauseMessage) =>
               Has(up', StopMessage \cup PauseMessage) \/ Has(queue', {"pause"}),
           Has(queue, {"pause"}) => Has(queue', {"pause"})
    PROVE  Agreement'
<1>1. AliveSession' = AliveSession /\ Kept' = Kept /\ Unheard' = Unheard
  BY DEF AliveSession, Kept, Unheard
<1>2. QED
  BY <1>1 DEF Agreement, ChannelTells, PageKept, PageHeard, PagePaused, PageKeepsAlive, clientVars,
     recVars

LEMMA ServeAgreement ==
    ASSUME Sound, Agreement, Serve
    PROVE  Agreement'
<1> DEFINE SP == StopMessage \cup PauseMessage
<1>1. /\ up # <<>> /\ up' = Tail(up) /\ UNCHANGED clientVars
      /\ up \in Seq(UpMessage) /\ Msg \in UpMessage /\ Msg = Head(up)
      /\ queue \in Seq({"op", "pause", "resume"})
  BY UpType DEF Serve, ServeStart, ServeStop, ServeCommand, ServeOperation, ServeKeepalive, Serves,
     Sound, Types, Msg
<1>2. Has(up, SP) /\ Msg \notin SP => Has(up', SP)
  BY <1>1, TailHas
<1>3. \A q \in {"op", "pause", "resume"} :
        Has(Append(queue, q), {"pause"}) <=> Has(queue, {"pause"}) \/ q \in {"pause"}
  BY <1>1, AppendHas
<1>4. ASSUME NEW m \in {Error, Gone}, Tell(<<m>>), UNCHANGED serverVars PROVE Agreement'
  <2>1. m \in OverMessage /\ down' = Append(down, m)
    BY <1>4, DownType, Messages DEF Sound, Tell
  <2>2. AliveSession' = AliveSession /\ Unheard' = Unheard
    BY <1>4 DEF AliveSession, Unheard, serverVars
  <2>3. QED
    BY <1>1, <1>4, <2>1, <2>2, OverAgreement DEF clientVars, recVars, serverVars
<1>5. CASE ServeStart
  <2>1. ASSUME NEW s \in Session, AliveSession = {}, session[s] = "none",
               session' = [session EXCEPT ![s] = "alive"], UNCHANGED <<down, phase, queue>>
        PROVE  Agreement'
    <3>1. phase = "starting" /\ session \in [Session -> {"none", "alive", "dead", "over"}]
      BY <2>1 DEF Sound, ThreadOver, Types
    <3>2. Unheard' \subseteq Unheard /\ s \in Unheard /\ Kept \subseteq Kept' /\ AliveSession' = {s}
      BY <2>1, <3>1 DEF Unheard, Kept, AliveSession
    <3>3. ChannelTells'
      BY <2>1, <3>1, <3>2, SameTells DEF Agreement, ChannelTells
    <3>4. UNCHANGED <<isRecording, recordingSessionId>>
      BY <1>1 DEF clientVars, recVars
    <3>5. PageKept' /\ PageHeard'
      BY <2>1, <3>2, <3>4 DEF Agreement, PageKept, PageHeard
    <3>6. isRecording' => recordingSessionId' \notin AliveSession'
      BY <3>2, <3>4 DEF Agreement, PageHeard
    <3>7. QED
      BY <3>3, <3>5, <3>6 DEF Agreement, PagePaused, PageKeepsAlive
  <2>2. QED
    BY <1>4, <1>5, <2>1 DEF ServeStart
<1>6. CASE ServeStop
  BY <1>1, <1>6, StopAgreement, TargetType DEF ServeStop
<1>7. ASSUME NEW type \in {"pause", "resume"}, ServeCommand(type) PROVE Agreement'
  <2>1. Msg.type = type
    BY <1>7 DEF ServeCommand, Serves
  <2>2. CASE AliveSession = {}
    BY <1>4, <1>7, <2>2 DEF ServeCommand
  <2>3. CASE AliveSession # {} /\ AliveSession \cap lease = {}
    BY <1>1, <1>7, <2>3, StopAgreement, TargetType DEF ServeCommand
  <2>4. CASE AliveSession # {} /\ AliveSession \cap lease # {}
    <3>1. queue' = Append(queue, type) /\ UNCHANGED <<down, session, phase, lease>>
      BY <1>7, <2>4 DEF ServeCommand
    <3>2. type = "resume" => Msg \notin SP
      BY <1>1, <2>1, UpKinds
    <3>3. QED
      BY <1>1, <1>2, <1>3, <3>1, <3>2, QuietAgreement
  <2>5. QED
    BY <2>2, <2>3, <2>4
<1>8. CASE ServeOperation
  <2>1. Msg \notin SP
    BY <1>1, <1>8, UpKinds DEF ServeOperation, Serves
  <2>2. CASE AliveSession = {}
    BY <1>1, <1>2, <1>8, <2>1, <2>2, QuietAgreement DEF ServeOperation, serverVars
  <2>3. CASE AliveSession # {} /\ AliveSession \cap lease = {}
    BY <1>4, <1>8, <2>3 DEF ServeOperation
  <2>4. CASE AliveSession # {} /\ AliveSession \cap lease # {}
    BY <1>1, <1>2, <1>3, <1>8, <2>1, <2>4, QuietAgreement DEF ServeOperation
  <2>5. QED
    BY <2>2, <2>3, <2>4
<1>9. CASE ServeKeepalive
  <2>1. Msg \notin SP
    BY <1>1, <1>9, UpKinds DEF ServeKeepalive, Serves
  <2>2. CASE Msg.session \in lease
    BY <1>1, <1>2, <1>9, <2>1, <2>2, QuietAgreement DEF ServeKeepalive, serverVars
  <2>3. CASE Msg.session \notin lease
    BY <1>1, <1>9, <2>3, StopAgreement, TargetType DEF ServeKeepalive
  <2>4. QED
    BY <2>2, <2>3
<1>10. QED
  BY <1>5, <1>6, <1>7, <1>8, <1>9 DEF Serve

\* The thread tells what it does from now on.
LEMMA StateAgreement ==
    ASSUME Sound, Agreement, UNCHANGED <<isRecording, isPaused, recordingSessionId, session>>,
           NEW m \in DownMessage, m \in StateMessage, down' = Append(down, m),
           phase' \in {"recording", "paused"}, m = Paused <=> phase' = "paused",
           m \in ReadyMessage => m.session \in AliveSession
    PROVE  Agreement'
<1>1. down \in Seq(DownMessage) /\ m \notin OverMessage
  BY DownKinds DEF Sound, Types
<1>2. AliveSession' = AliveSession /\ Kept' = Kept /\ AliveSession \subseteq Kept
  BY DEF AliveSession, Kept
<1>3. Unheard' = {s \in Session : session[s] = "none"}
  BY DEF Unheard
<1>4. Unheard' \subseteq Unheard /\ AliveSession \cap Unheard' = {}
  BY <1>3 DEF Unheard, AliveSession
<1>5. ReadyTells(down', Kept)
  BY <1>1, <1>2, AppendReady DEF Agreement, ChannelTells
<1>6. UnheardIn(down', Unheard')
  BY <1>1, <1>4, AppendUnheard DEF Agreement, ChannelTells
<1>7. StateTells(down', phase') /\ FeedbackTells(down', phase')
  BY <1>1, AppendState
<1>8. Has(down', StateMessage) /\ (Has(down, OverMessage) => Has(down', OverMessage))
  BY <1>1, AppendHas
<1>9. PageKept' /\ PageHeard'
  BY <1>2, <1>4, <1>8 DEF Agreement, PageKept, PageHeard
<1>10. PagePaused' /\ PageKeepsAlive'
  BY <1>8 DEF PagePaused, PageKeepsAlive
<1>11. QED
  BY <1>2, <1>5, <1>6, <1>7, <1>9, <1>10 DEF Agreement, ChannelTells

LEMMA ThreadAgreement ==
    ASSUME Sound, Agreement, ThreadStep
    PROVE  Agreement'
<1>1. /\ UNCHANGED <<isRecording, isPaused, recordingSessionId, keepalive, up>>
      /\ down \in Seq(DownMessage) /\ queue \in Seq({"op", "pause", "resume"}) /\ phase \in Phase
      /\ session \in [Session -> {"none", "alive", "dead", "over"}]
  BY DEF ThreadStep, ThreadReady, ThreadSteps, ThreadDies, clientVars, recVars, Sound, Types
<1>2. \A m \in DownMessage : Tell(<<m>>) => down' = Append(down, m)
  BY DownType DEF Sound, Tell
<1>3. CASE ThreadReady
  <2>1. PICK s \in AliveSession :
          \/ /\ Tell(<<[type |-> "recording_ready", session |-> s]>>)
             /\ phase' = "recording" /\ UNCHANGED <<session, queue, lease>>
          \/ /\ \E failure \in {Error, Gone} : Tell(<<failure>>)
             /\ session' = [session EXCEPT ![s] = "over"] /\ ThreadEnds
             /\ lease' = lease \ {s}
    BY <1>3 DEF ThreadReady
  <2>2. s \in Session
    BY DEF AliveSession
  <2>3. ASSUME Tell(<<[type |-> "recording_ready", session |-> s]>>), phase' = "recording",
               UNCHANGED session
        PROVE  Agreement'
    <3> DEFINE m == [type |-> "recording_ready", session |-> s]
    <3>1. m \in DownMessage /\ m \in StateMessage /\ m # Paused /\ m.session = s
      BY <2>2 DEF DownMessage, StateMessage, ReadyMessage, Paused
    <3>2. down' = Append(down, m)
      BY <1>2, <2>3, <3>1
    <3> HIDE DEF m
    <3>3. QED
      BY <1>1, <2>3, <3>1, <3>2, StateAgreement
  <2>4. ASSUME NEW failure \in {Error, Gone}, Tell(<<failure>>),
               session' = [session EXCEPT ![s] = "over"], ThreadEnds
        PROVE  Agreement'
    <3>1. failure \in OverMessage /\ down' = Append(down, failure)
      BY <1>2, <2>4, Messages
    <3>2. AliveSession = {s}
      BY DEF Sound, OneAlive
    <3>3. AliveSession' = {}
      BY <1>1, <2>2, <2>4, <3>2 DEF AliveSession
    <3>4. Unheard' \subseteq Unheard
      BY <1>1, <2>2, <2>4, <3>3 DEF Unheard, AliveSession
    <3>5. QED
      BY <1>1, <3>1, <3>3, <3>4, OverAgreement
  <2>5. QED
    BY <2>1, <2>3, <2>4
<1>4. CASE ThreadSteps
  <2>1. /\ AliveSession # {} /\ phase # "starting" /\ queue # <<>> /\ queue' = Tail(queue)
        /\ UNCHANGED session /\ Head(queue) \in {"op", "pause", "resume"}
    BY <1>1, <1>4 DEF ThreadSteps
  <2>2. CASE Head(queue) = "op"
    <3> DEFINE m == [type |-> "operation_feedback", state |-> phase]
    <3>1. m \in DownMessage /\ m \in FeedbackMessage /\ m.state = phase /\ phase' = phase
          /\ down' = Append(down, m)
      BY <1>1, <1>2, <1>4, <2>2, Messages DEF ThreadSteps, FeedbackMessage
    <3> HIDE DEF m
    <3>2. m \notin StateMessage /\ m \notin OverMessage /\ m \notin ReadyMessage
      BY <3>1, DownKinds
    <3>3. AliveSession' = AliveSession /\ Kept' = Kept /\ Unheard' = Unheard
      BY <2>1, <3>1 DEF AliveSession, Kept, Unheard
    <3>4. ReadyTells(down', Kept) /\ UnheardIn(down', Unheard)
      BY <1>1, <3>1, <3>2, AppendReady, AppendUnheard DEF Agreement, ChannelTells
    <3>5. StateTells(down', phase) /\ FeedbackTells(down', phase)
      BY <1>1, <2>1, <3>1, <3>2, AppendOther DEF Agreement, ChannelTells
    <3>6. /\ Has(down, OverMessage) <=> Has(down', OverMessage)
          /\ Has(down, StateMessage) <=> Has(down', StateMessage)
      BY <1>1, <3>1, <3>2, AppendHas
    <3>7. Has(queue, {"pause"}) => Has(queue', {"pause"})
      BY <1>1, <2>1, <2>2, TailHas
    <3>8. PageKept' /\ PageHeard' /\ PagePaused' /\ PageKeepsAlive'
      BY <1>1, <3>1, <3>3, <3>6, <3>7
         DEF Agreement, PageKept, PageHeard, PagePaused, PageKeepsAlive
    <3>9. QED
      BY <3>1, <3>3, <3>4, <3>5, <3>8 DEF Agreement, ChannelTells
  <2>3. CASE Head(queue) = "pause"
    <3>1. phase' = "paused" /\ down' = Append(down, Paused)
      BY <1>2, <1>4, <2>3, Messages DEF ThreadSteps, Paused
    <3>2. Paused \notin ReadyMessage
      BY DEF Paused, ReadyMessage
    <3>3. QED
      BY <1>1, <2>1, <3>1, <3>2, Messages, StateAgreement
  <2>4. CASE Head(queue) = "resume"
    <3>1. phase' = "recording" /\ down' = Append(down, Resumed)
      BY <1>2, <1>4, <2>4, Messages DEF ThreadSteps, Resumed
    <3>2. Resumed \notin ReadyMessage
      BY DEF Resumed, ReadyMessage
    <3>3. QED
      BY <1>1, <2>1, <3>1, <3>2, Messages, StateAgreement
  <2>5. QED
    BY <2>1, <2>2, <2>3, <2>4
<1>5. CASE ThreadDies
  <2> DEFINE m == [type |-> "operation_feedback", state |-> "recording"]
  <2>1. session' = [s \in Session |-> IF s \in AliveSession THEN "dead" ELSE session[s]]
    BY <1>5 DEF ThreadDies
  <2>2. m \in DownMessage /\ m \in FeedbackMessage /\ down' = Append(down, m)
    BY <1>2, <1>5, Messages DEF ThreadDies, Phase, FeedbackMessage
  <2> HIDE DEF m
  <2>3. m \notin StateMessage /\ m \notin OverMessage /\ m \notin ReadyMessage
    BY <2>2, DownKinds
  <2>4. AliveSession' = {} /\ Kept' = Kept /\ Unheard' \subseteq Unheard
    BY <2>1 DEF AliveSession, Kept, Unheard
  <2>5. ReadyTells(down', Kept) /\ UnheardIn(down', Unheard')
    BY <1>1, <2>2, <2>3, <2>4, AppendReady, AppendUnheard DEF Agreement, ChannelTells
  <2>6. Has(down, OverMessage) => Has(down', OverMessage)
    BY <1>1, <2>2, AppendHas
  <2>7. PageKept' /\ PageHeard'
    BY <1>1, <2>4, <2>6 DEF Agreement, PageKept, PageHeard
  <2>8. QED
    BY <2>4, <2>5, <2>7 DEF Agreement, ChannelTells, PagePaused, PageKeepsAlive
<1>6. QED
  BY <1>3, <1>4, <1>5 DEF ThreadStep

LEMMA NextAgreement ==
    ASSUME Sound, Agreement, [Next]_vars
    PROVE  Agreement'
<1>1. CASE UNCHANGED vars
  <2>1. AliveSession' = AliveSession /\ Kept' = Kept /\ Unheard' = Unheard
    BY <1>1 DEF vars, serverVars, AliveSession, Kept, Unheard
  <2>2. QED
    BY <1>1, <2>1 DEF vars, clientVars, recVars, serverVars, Agreement, ChannelTells, PageKept,
       PageHeard, PagePaused, PageKeepsAlive
<1>2. CASE ConnectionEnds
  <2>1. down' = <<>> /\ ~isRecording' /\ AliveSession' = {}
    BY <1>2, EndsEffect
  <2>2. ReadyTells(<<>>, Kept') /\ UnheardIn(<<>>, Unheard')
    BY DEF ReadyTells, UnheardIn
  <2>3. QED
    BY <2>1, <2>2 DEF Agreement, ChannelTells, PageKept, PageHeard, PagePaused, PageKeepsAlive
<1>3. CASE IdleCheck
  <2>1. PICK s \in Kept \ lease : StopTarget({s}, <<Gone>>)
    BY <1>3 DEF IdleCheck
  <2>2. {s} \in SUBSET Session /\ UNCHANGED clientVars
    BY <1>3 DEF Kept, IdleCheck
  <2>3. QED
    BY <2>1, <2>2, StopAgreement
<1>4. CASE RuntimeExpires
  BY <1>4, QuietAgreement DEF RuntimeExpires
<1>5. QED
  BY <1>1, <1>2, <1>3, <1>4, PageAgreement, HandleAgreement, ServeAgreement, ThreadAgreement
     DEF Next, PageStep, ThreadStep

\* Once every message is handled, the recording on the page is the server's,
\* paused if that is, and its keepalive runs while the thread records; however
\* starts, stops, pauses, expiries, failures and lost connections cross.
THEOREM PageStaysRight == Spec => []PageIsRight
<1>1. Sound /\ Agreement => PageIsRight
  <2> SUFFICES ASSUME Sound, Agreement, isRecording, Quiet
               PROVE  /\ recordingSessionId \in Kept
                      /\ recordingSessionId \in AliveSession =>
                           /\ isPaused <=> phase = "paused"
                           /\ keepalive <=> phase # "paused"
    BY DEF PageIsRight, AgreesWhenQuiet, KeepaliveWhileRecording, Kept, AliveSession
  <2>1. \A M : ~Has(down, M) /\ ~Has(up, M) /\ ~Has(queue, M)
    BY EmptyHas DEF Quiet
  <2>2. QED
    BY <2>1 DEF Agreement, PageKept, PagePaused, PageKeepsAlive
<1>2. Agreement /\ Sound /\ [Next]_vars => Agreement'
  BY NextAgreement
<1>3. QED
  BY <1>1, <1>2, InitAgreement, SpecSound, PTL DEF Spec

-----------------------------------------------------------------------------
(* One operation at a time.                                                *)

\* Without a thread, a start or a message for one, there is nothing to order.
LEMMA EndsOrder ==
    ASSUME AliveSession' = {}, starts' = <<>>, ~Has(up', StartMessage)
    PROVE  Order'
BY DEF Order, StartWaits, StartTravels, ThreadStarts, ReadyTravels, OneKept, OneOnItsWay

LEMMA KeptNoStart ==
    ASSUME Order, Kept # {}
    PROVE  starts = <<>> /\ ~Has(up, StartMessage)
BY DEF Order, StartWaits, StartTravels

LEMMA RecordingNoStart ==
    ASSUME Order, isRecording
    PROVE  /\ starts = <<>> /\ ~Has(up, StartMessage)
           /\ AliveSession # {} => phase # "starting" /\ ~Has(down, ReadyMessage)
BY DEF Order, StartWaits, StartTravels, ThreadStarts, ReadyTravels

\* A message taken from the page leaves no start behind.
LEMMA TakenNoStart ==
    ASSUME Sound, Order, up # <<>>
    PROVE  /\ starts = <<>> /\ ~Has(Tail(up), StartMessage)
           /\ AliveSession # {} => phase # "starting" /\ ~Has(down, ReadyMessage)
<1>1. up \in Seq(UpMessage)
  BY DEF Sound, Types
<1>2. ASSUME Has(Tail(up), StartMessage) PROVE FALSE
  <2>1. Has(up, StartMessage)
    BY <1>1, <1>2, TailHas
  <2>2. Len(up) = 1
    BY <2>1 DEF Order, StartTravels
  <2>3. DOMAIN Tail(up) = 1..(Len(up) - 1)
    BY <1>1, TailElements
  <2>4. QED
    BY <1>2, <2>2, <2>3 DEF Has
<1>3. QED
  BY <1>2 DEF Order, StartWaits, ThreadStarts, ReadyTravels

\* What is clicked while a recording runs.
LEMMA SendOrder ==
    ASSUME Sound, Order, isRecording,
           UNCHANGED <<starts, down, session, phase, queue, isRecording>>,
           NEW m \in UpMessage, m \notin StartMessage, up' = Append(up, m),
           m \in OpMessage => ~operationPending /\ operationPending' = TRUE,
           m \notin OpMessage => operationPending' = operationPending
    PROVE  Order'
<1>1. up \in Seq(UpMessage) /\ AliveSession' = AliveSession /\ Kept' = Kept
  BY DEF Sound, Types, AliveSession, Kept
<1>2. ~Has(up', StartMessage)
  BY <1>1, RecordingNoStart, AppendHas
<1>3. StartWaits' /\ StartTravels' /\ ThreadStarts' /\ ReadyTravels' /\ OneKept'
  BY <1>1, <1>2, RecordingNoStart
     DEF Order, StartWaits, StartTravels, ThreadStarts, ReadyTravels, OneKept
<1>4. Has(up', OpMessage) <=> Has(up, OpMessage) \/ m \in OpMessage
  BY <1>1, AppendHas
<1>5. /\ OpsUp' = {} <=> OpsUp = {} /\ m \notin OpMessage
      /\ OpsQueued' = OpsQueued /\ Feedbacks' = Feedbacks
  BY <1>4, HasWhere DEF OpsUp, OpsQueued, Feedbacks
<1>6. ASSUME AliveSession # {} PROVE One(OpsUp')
  <2>1. CASE m \in OpMessage
    <3>1. OpsUp = {}
      BY <1>6, <2>1 DEF Order, OneOnItsWay
    <3>2. QED
      BY <1>1, <3>1, HasWhere, AppendOne DEF OpsUp
  <2>2. CASE m \notin OpMessage
    <3>1. One(OpsUp)
      BY <1>6 DEF Order, OneOnItsWay
    <3>2. QED
      BY <1>1, <2>2, <3>1, AppendOne DEF OpsUp
  <2>3. QED
    BY <2>1, <2>2
<1>7. OneOnItsWay'
  BY <1>1, <1>5, <1>6 DEF Order, OneOnItsWay
<1>8. QED
  BY <1>3, <1>7 DEF Order

LEMMA PageOrder ==
    ASSUME Sound, Orderly, PageStep, ~overlap'
    PROVE  Order'
<1>1. /\ UNCHANGED <<down, serverVars, isRecording>>
      /\ AliveSession' = AliveSession /\ Kept' = Kept
      /\ UNCHANGED <<down, session, phase, queue, isRecording>>
  BY PageEffect DEF serverVars
<1>2. Order
  BY DEF Orderly, PageStep, Connected, switchRecordingMode, startRecording, StartSends, StartFails,
     stopRecording, pauseRecording, resumeRecording, sendOperation, SendKeepalive, clientVars
<1>3. /\ starts \in Seq(BOOLEAN) /\ up \in Seq(UpMessage)
      /\ recordingSessionId \in Session \cup {None}
  BY DEF Sound, Types
<1>4. AliveSession \subseteq Kept
  BY DEF AliveSession, Kept
<1>5. ASSUME UNCHANGED <<up, operationPending>>,
             starts' # <<>> => starts # <<>> /\ Len(starts') = Len(starts)
      PROVE  Order'
  <2>1. OpsUp' = OpsUp /\ OpsQueued' = OpsQueued /\ Feedbacks' = Feedbacks
    BY <1>1, <1>5 DEF OpsUp, OpsQueued, Feedbacks
  <2>2. QED
    BY <1>1, <1>2, <1>5, <2>1
       DEF Order, StartWaits, StartTravels, ThreadStarts, ReadyTravels, OneKept, OneOnItsWay
<1>6. CASE Connected
  BY <1>5, <1>6 DEF Connected, recVars
<1>7. CASE switchRecordingMode
  <2>1. starts # <<>> /\ starts' = [i \in DOMAIN starts |-> ~starts[i]]
    BY <1>7 DEF switchRecordingMode
  <2>2. Len(starts') = Len(starts)
    <3>1. DOMAIN starts = 1..Len(starts) /\ Len(starts) \in Nat
      BY <1>3
    <3>2. QED
      BY <2>1, <3>1
  <2>3. QED
    BY <1>5, <1>7, <2>1, <2>2 DEF switchRecordingMode, recVars
<1>8. CASE startRecording
  <2>1. /\ starts = <<>> /\ up' = <<>> /\ down' = <<>> /\ Kept' = {} /\ ~isRecording'
        /\ starts' = Append(starts, TRUE)
    <3>1. overlap' = (overlap \/ starts # <<>> \/ up # <<>> \/ down # <<>> \/ Kept # {})
      BY <1>8 DEF startRecording
    <3>2. starts = <<>> /\ up = <<>> /\ down = <<>> /\ Kept = {}
      BY <3>1
    <3>3. QED
      BY <1>1, <1>8, <3>2 DEF startRecording
  <2>2. Len(starts') = 1
    BY <2>1
  <2>3. ~Has(up', StartMessage) /\ AliveSession' = {}
    BY <1>1, <1>4, <2>1, EmptyHas
  <2>4. QED
    BY <2>1, <2>2, <2>3
       DEF Order, StartWaits, StartTravels, ThreadStarts, ReadyTravels, OneKept, OneOnItsWay
<1>9. ASSUME NEW i \in DOMAIN starts, StartSends(i) \/ StartFails(i) PROVE Order'
  <2>1. starts # <<>>
    BY <1>9
  <2>2. /\ Len(starts) = 1 /\ up = <<>> /\ down = <<>> /\ Kept = {} /\ ~isRecording
    BY <1>2, <2>1 DEF Order, StartWaits
  <2>3. starts' = <<>>
    BY <1>3, <1>9, <2>2, RemoveType DEF StartSends, StartFails
  <2>4. up' = <<>> \/ Len(up') = 1
    BY <1>9, <2>2 DEF StartSends, StartFails, SendUp
  <2>5. ~Has(<<>>, StartMessage) /\ AliveSession' = {}
    BY <1>1, <1>4, <2>2, EmptyHas
  <2>6. QED
    BY <1>1, <2>2, <2>3, <2>4, <2>5
       DEF Order, StartWaits, StartTravels, ThreadStarts, ReadyTravels, OneKept, OneOnItsWay
<1>10. CASE stopRecording \/ pauseRecording \/ resumeRecording \/ SendKeepalive
  <2>1. PICK m \in UpMessage : /\ m.type \notin {"start", "op"} /\ up' = Append(up, m)
                               /\ isRecording /\ UNCHANGED <<starts, operationPending>>
    <3>1. /\ [type |-> "stop", session |-> recordingSessionId] \in UpMessage
          /\ [type |-> "pause", session |-> recordingSessionId] \in UpMessage
          /\ [type |-> "resume", session |-> recordingSessionId] \in UpMessage
          /\ [type |-> "keepalive", session |-> recordingSessionId] \in UpMessage
      BY <1>3 DEF UpMessage, StopMessage, PauseMessage
    <3>2. QED
      BY <1>10, <3>1 DEF stopRecording, pauseRecording, resumeRecording, SendKeepalive, SendUp,
         clientVars, recVars
  <2>2. m \notin StartMessage /\ m \notin OpMessage
    BY <2>1, UpKinds
  <2>3. QED
    BY <1>1, <1>2, <2>1, <2>2, SendOrder
<1>11. CASE sendOperation
  <2> DEFINE m == [type |-> "op", session |-> None]
  <2>1. m \in UpMessage /\ m \in OpMessage /\ m \notin StartMessage
    BY DEF UpMessage, OpMessage, StartMessage
  <2>2. /\ isRecording /\ ~operationPending /\ up' = Append(up, m) /\ operationPending' = TRUE
        /\ UNCHANGED starts
    BY <1>11 DEF sendOperation, SendUp, setOperationPending
  <2> HIDE DEF m
  <2>3. QED
    BY <1>1, <1>2, <2>1, <2>2, SendOrder
<1>12. QED
  BY <1>5, <1>6, <1>7, <1>8, <1>9, <1>10, <1>11 DEF PageStep

LEMMA HandleOrder ==
    ASSUME Sound, Order, Handle
    PROVE  Order'
<1>1. /\ down # <<>> /\ down' = Tail(down) /\ UNCHANGED <<up, session, phase, queue, starts>>
      /\ AliveSession' = AliveSession /\ Kept' = Kept
      /\ down \in Seq(DownMessage) /\ Head(down) \in DownMessage
  BY HandleEffect, DownType DEF Sound, Types, serverVars
<1>2. /\ starts = <<>> /\ ~Has(up, StartMessage)
      /\ AliveSession # {} => phase # "starting"
  BY <1>1 DEF Order, StartWaits, StartTravels, ThreadStarts
<1>3. \A M : Has(down, M) <=> Has(down', M) \/ Head(down) \in M
  BY <1>1, TailHas
\* A thread that is ready is heard of before anything else.
<1>4. ASSUME AliveSession # {}, Has(down, ReadyMessage)
      PROVE  down' = <<>> /\ up' = <<>> /\ queue' = <<>>
  <2>1. Len(down) = 1 /\ up = <<>> /\ queue = <<>>
    BY <1>4 DEF Order, ReadyTravels
  <2>2. down' \in Seq(DownMessage) /\ Len(down') = 0
    BY <1>1, <2>1, TailElements
  <2>3. QED
    BY <1>1, <2>1, <2>2
<1>5. AliveSession # {} => ~Has(down', ReadyMessage)
  BY <1>3, <1>4, EmptyHas
<1>6. StartWaits' /\ StartTravels' /\ ThreadStarts' /\ ReadyTravels' /\ OneKept'
  BY <1>1, <1>2, <1>5 DEF Order, StartWaits, StartTravels, ThreadStarts, ReadyTravels, OneKept
<1>7. /\ OpsUp' = OpsUp /\ OpsQueued' = OpsQueued
      /\ Feedbacks = {} => Feedbacks' = {}
      /\ One(Feedbacks) => One(Feedbacks')
  <2>1. Feedbacks = {} => Feedbacks' = {}
    BY <1>3, HasWhere DEF Feedbacks
  <2>2. One(Feedbacks) => One(Feedbacks')
    BY <1>1, TailOne DEF Feedbacks
  <2>3. QED
    BY <1>1, <2>1, <2>2 DEF OpsUp, OpsQueued
<1>8. ASSUME AliveSession # {}, isRecording', ~operationPending'
      PROVE  OpsUp' = {} /\ OpsQueued' = {} /\ Feedbacks' = {}
  <2>1. CASE handleRecordingReady
    <3>1. Has(down, ReadyMessage)
      BY <1>1, <1>3, <2>1, DownKinds DEF handleRecordingReady, Receive
    <3>2. QED
      BY <1>4, <1>8, <3>1, EmptyHas DEF OpsUp, OpsQueued, Feedbacks
  <2>2. CASE handleRecordingStopped \/ handleRecordingError \/ HandleRuntimeEvent
    BY <1>8, <2>2 DEF handleRecordingStopped, handleRecordingError, RecordingIsOver,
       HandleRuntimeEvent, resetRecordingRuntimeState
  <2>3. CASE handleRecordingPaused \/ handleRecordingResumed
    <3>1. UNCHANGED <<isRecording, operationPending>>
      BY <2>3 DEF handleRecordingPaused, handleRecordingResumed
    <3>2. QED
      BY <1>7, <1>8, <3>1 DEF Order, OneOnItsWay
  <2>4. CASE handleOperationFeedback
    <3>1. Head(down) \in FeedbackMessage
      BY <1>1, <2>4, DownKinds DEF handleOperationFeedback, Receive
    <3>2. Feedbacks # {}
      BY <1>3, <3>1, HasWhere DEF Feedbacks
    <3>3. OpsUp = {} /\ OpsQueued = {} /\ One(Feedbacks)
      BY <1>8, <3>2 DEF Order, OneOnItsWay
    <3>4. ~Has(down', FeedbackMessage)
      BY <1>1, <3>1, <3>3, TailOne DEF Feedbacks
    <3>5. QED
      BY <1>7, <3>3, <3>4, HasWhere DEF Feedbacks
  <2>5. QED
    BY <2>1, <2>2, <2>3, <2>4 DEF Handle
<1>9. OneOnItsWay'
  BY <1>1, <1>7, <1>8 DEF Order, OneOnItsWay
<1>10. QED
  BY <1>6, <1>9 DEF Order

\* Ending a recording that the server has ends the one whose thread runs: it
\* is the only one.
LEMMA StopOrder ==
    ASSUME Sound, Order, NEW target \in SUBSET Session, NEW before \in {<<>>, <<Gone>>},
           StopTarget(target, before), AliveSession \subseteq target,
           starts' = <<>>, ~Has(up', StartMessage)
    PROVE  Order'
<1>1. session' = [s \in Session |-> IF s \in target THEN "over" ELSE session[s]]
  BY StopEffect
<1>2. AliveSession' = {}
  BY <1>1 DEF AliveSession
<1>3. QED
  BY <1>2, EndsOrder

LEMMA KeptIsAlive ==
    ASSUME Sound, Order
    PROVE  /\ \A s \in Kept : AliveSession \subseteq {s}
           /\ \A named : AliveSession \subseteq Target(named)
BY DEF Sound, OneAlive, Order, OneKept, Target

\* The server takes a message that is no operation for the thread, and tells
\* of a failure, if anything.
LEMMA TakenOrder ==
    ASSUME Sound, Order, up # <<>>, up' = Tail(up), UNCHANGED <<clientVars, session, phase>>,
           \/ down' = down
           \/ \E m \in {Error, Gone} : down' = Append(down, m),
           \/ queue' = queue
           \/ \E q \in {"pause", "resume"} : queue' = Append(queue, q)
    PROVE  Order'
<1>1. /\ up \in Seq(UpMessage) /\ down \in Seq(DownMessage)
      /\ queue \in Seq({"op", "pause", "resume"})
      /\ AliveSession' = AliveSession /\ Kept' = Kept
      /\ UNCHANGED <<isRecording, operationPending, starts>>
  BY DEF Sound, Types, AliveSession, Kept, clientVars, recVars
<1>2. /\ starts = <<>> /\ ~Has(up', StartMessage)
      /\ AliveSession # {} => phase # "starting" /\ ~Has(down, ReadyMessage)
  BY TakenNoStart
<1>3. /\ Has(down', ReadyMessage) => Has(down, ReadyMessage)
      /\ Has(down', FeedbackMessage) => Has(down, FeedbackMessage)
      /\ One(Feedbacks) => One(Feedbacks')
  <2>1. ASSUME NEW m \in {Error, Gone}, down' = Append(down, m)
        PROVE  /\ Has(down', ReadyMessage) => Has(down, ReadyMessage)
               /\ Has(down', FeedbackMessage) => Has(down, FeedbackMessage)
               /\ One(Feedbacks) => One(Feedbacks')
    <3>1. m \in DownMessage /\ m \in OverMessage
      BY Messages
    <3>2. m \notin ReadyMessage /\ m \notin FeedbackMessage
      BY <3>1, DownKinds
    <3>3. QED
      BY <1>1, <2>1, <3>1, <3>2, AppendHas, AppendOne DEF Feedbacks
  <2>2. QED
    BY <2>1 DEF Feedbacks
<1>4. /\ Has(queue', {"op"}) => Has(queue, {"op"})
      /\ One(OpsQueued) => One(OpsQueued')
  <2>1. ASSUME NEW q \in {"pause", "resume"}, queue' = Append(queue, q)
        PROVE  /\ Has(queue', {"op"}) => Has(queue, {"op"})
               /\ One(OpsQueued) => One(OpsQueued')
    BY <1>1, <2>1, AppendHas, AppendOne DEF OpsQueued
  <2>2. QED
    BY <2>1 DEF OpsQueued
<1>5. /\ Has(up', OpMessage) => Has(up, OpMessage)
      /\ One(OpsUp) => One(OpsUp')
  BY <1>1, TailHas, TailOne DEF OpsUp
<1>6. /\ OpsUp = {} => OpsUp' = {}
      /\ OpsQueued = {} => OpsQueued' = {}
      /\ Feedbacks = {} => Feedbacks' = {}
  BY <1>3, <1>4, <1>5, HasWhere DEF OpsUp, OpsQueued, Feedbacks
<1>7. OneOnItsWay'
  BY <1>1, <1>3, <1>4, <1>5, <1>6 DEF Order, OneOnItsWay
<1>8. StartWaits' /\ StartTravels' /\ ThreadStarts' /\ ReadyTravels' /\ OneKept'
  BY <1>1, <1>2, <1>3
     DEF Order, StartWaits, StartTravels, ThreadStarts, ReadyTravels, OneKept
<1>9. QED
  BY <1>7, <1>8 DEF Order

LEMMA ServeOrder ==
    ASSUME Sound, Order, Serve
    PROVE  Order'
<1>1. /\ up # <<>> /\ up' = Tail(up) /\ UNCHANGED <<clientVars, starts, isRecording>>
      /\ UNCHANGED operationPending
      /\ up \in Seq(UpMessage) /\ Msg \in UpMessage /\ Msg = Head(up)
      /\ queue \in Seq({"op", "pause", "resume"})
  BY UpType DEF Serve, ServeStart, ServeStop, ServeCommand, ServeOperation, ServeKeepalive, Serves,
     Sound, Types, Msg, clientVars, recVars
<1>2. /\ starts' = <<>> /\ ~Has(up', StartMessage)
      /\ AliveSession # {} => phase # "starting" /\ ~Has(down, ReadyMessage)
  BY <1>1, TakenNoStart
<1>3. \A m \in {Error, Gone} : Tell(<<m>>) => down' = Append(down, m)
  BY DownType, Messages DEF Sound, Tell
<1>4. ASSUME NEW m \in {Error, Gone}, Tell(<<m>>), UNCHANGED serverVars PROVE Order'
  BY <1>1, <1>3, <1>4, TakenOrder DEF serverVars
<1>5. ASSUME NEW before \in {<<>>, <<Gone>>}, StopTarget(Target(Msg.session), before) PROVE Order'
  BY <1>2, <1>5, StopOrder, TargetType, KeptIsAlive
<1>6. CASE ServeStart
  <2>1. ASSUME NEW s \in Session, AliveSession = {}, session[s] = "none",
               session' = [session EXCEPT ![s] = "alive"], UNCHANGED <<down, phase, queue>>
        PROVE  Order'
    <3>1. session \in [Session -> {"none", "alive", "dead", "over"}] /\ queue = <<>>
      BY <2>1 DEF Sound, ThreadOver, Types
    <3>2. Msg \in StartMessage
      BY <1>1, <1>6, UpKinds DEF ServeStart, Serves
    <3>3. Len(up) = 1 /\ down = <<>> /\ Kept = {} /\ ~isRecording
      BY <1>1, <3>2, TailHas DEF Order, StartTravels
    <3>4. up' = <<>>
      BY <1>1, <3>3
    <3>5. AliveSession' = {s} /\ Kept' = AliveSession'
      BY <2>1, <3>1, <3>3 DEF AliveSession, Kept
    <3>6. \A M : ~Has(<<>>, M) /\ Where(<<>>, M) = {}
      BY EmptyHas
    <3>7. OneOnItsWay'
      BY <2>1, <3>1, <3>3, <3>4, <3>6 DEF OneOnItsWay, OpsUp, OpsQueued, Feedbacks, One
    <3>8. StartWaits' /\ StartTravels' /\ ThreadStarts' /\ ReadyTravels' /\ OneKept'
      BY <1>1, <1>2, <2>1, <3>1, <3>3, <3>4, <3>5, <3>6
         DEF StartWaits, StartTravels, ThreadStarts, ReadyTravels, OneKept
    <3>9. QED
      BY <3>7, <3>8 DEF Order
  <2>2. QED
    BY <1>4, <1>6, <2>1 DEF ServeStart
<1>7. CASE ServeStop
  BY <1>5, <1>7 DEF ServeStop
<1>8. ASSUME NEW type \in {"pause", "resume"}, ServeCommand(type) PROVE Order'
  <2>1. CASE AliveSession = {}
    BY <1>4, <1>8, <2>1 DEF ServeCommand
  <2>2. CASE AliveSession # {} /\ AliveSession \cap lease = {}
    BY <1>5, <1>8, <2>2 DEF ServeCommand
  <2>3. CASE AliveSession # {} /\ AliveSession \cap lease # {}
    <3>1. queue' = Append(queue, type) /\ UNCHANGED <<down, session, phase>>
      BY <1>8, <2>3 DEF ServeCommand
    <3>2. QED
      BY <1>1, <3>1, TakenOrder
  <2>4. QED
    BY <2>1, <2>2, <2>3
<1>9. CASE ServeKeepalive
  <2>1. CASE Msg.session \in lease
    BY <1>1, <1>9, <2>1, TakenOrder DEF ServeKeepalive, serverVars
  <2>2. CASE Msg.session \notin lease
    BY <1>5, <1>9, <2>2 DEF ServeKeepalive
  <2>3. QED
    BY <2>1, <2>2
<1>10. CASE ServeOperation
  <2>1. CASE AliveSession = {}
    BY <1>1, <1>10, <2>1, TakenOrder DEF ServeOperation, serverVars
  <2>2. CASE AliveSession # {} /\ AliveSession \cap lease = {}
    BY <1>4, <1>10, <2>2 DEF ServeOperation
  <2>3. CASE AliveSession # {} /\ AliveSession \cap lease # {}
    <3>1. queue' = Append(queue, "op") /\ UNCHANGED <<down, session, phase>>
      BY <1>10, <2>3 DEF ServeOperation
    <3>2. AliveSession' = AliveSession /\ Kept' = Kept /\ Feedbacks' = Feedbacks
      BY <3>1 DEF AliveSession, Kept, Feedbacks
    <3>3. Msg \in OpMessage
      BY <1>1, <1>10, UpKinds DEF ServeOperation, Serves
    <3>4. OpsUp # {}
      BY <1>1, <3>3, TailHas, HasWhere DEF OpsUp
    <3>5. OpsQueued = {} /\ Feedbacks = {} /\ One(OpsUp) /\ ~(isRecording /\ ~operationPending)
      BY <2>3, <3>4 DEF Order, OneOnItsWay
    <3>6. OpsUp' = {}
      BY <1>1, <3>3, <3>5, TailOne, HasWhere DEF OpsUp
    <3>7. One(OpsQueued')
      BY <1>1, <3>1, <3>5, AppendOne, HasWhere DEF OpsQueued
    <3>8. OneOnItsWay'
      BY <1>1, <3>2, <3>5, <3>6, <3>7 DEF OneOnItsWay, One
    <3>9. StartWaits' /\ StartTravels' /\ ThreadStarts' /\ ReadyTravels' /\ OneKept'
      BY <1>2, <2>3, <3>1, <3>2
         DEF Order, StartWaits, StartTravels, ThreadStarts, ReadyTravels, OneKept
    <3>10. QED
      BY <3>8, <3>9 DEF Order
  <2>4. QED
    BY <2>1, <2>2, <2>3
<1>11. QED
  BY <1>6, <1>7, <1>8, <1>9, <1>10 DEF Serve

LEMMA ThreadOrder ==
    ASSUME Sound, Order, ThreadStep
    PROVE  Order'
<1>1. /\ UNCHANGED <<starts, isRecording, operationPending, up>>
      /\ down \in Seq(DownMessage) /\ queue \in Seq({"op", "pause", "resume"}) /\ phase \in Phase
      /\ session \in [Session -> {"none", "alive", "dead", "over"}]
      /\ AliveSession # {} /\ Kept = AliveSession
  BY DEF ThreadStep, ThreadReady, ThreadSteps, ThreadDies, clientVars, recVars, Sound, Types,
     Order, OneKept
<1>2. starts' = <<>> /\ ~Has(up', StartMessage)
  BY <1>1, KeptNoStart
<1>3. \A m \in DownMessage : Tell(<<m>>) => down' = Append(down, m)
  BY DownType DEF Sound, Tell
<1>4. CASE ThreadReady
  <2>1. PICK s \in AliveSession :
          \/ /\ Tell(<<[type |-> "recording_ready", session |-> s]>>)
             /\ phase' = "recording" /\ UNCHANGED <<session, queue, lease>>
          \/ session' = [session EXCEPT ![s] = "over"]
    BY <1>4 DEF ThreadReady
  <2>2. s \in Session /\ AliveSession = {s}
    BY DEF Sound, OneAlive, AliveSession
  <2>3. CASE session' = [session EXCEPT ![s] = "over"]
    <3>1. AliveSession' = {}
      BY <1>1, <2>2, <2>3 DEF AliveSession
    <3>2. QED
      BY <1>2, <3>1, EndsOrder
  <2>4. ASSUME Tell(<<[type |-> "recording_ready", session |-> s]>>), phase' = "recording",
               UNCHANGED <<session, queue>>
        PROVE  Order'
    <3> DEFINE m == [type |-> "recording_ready", session |-> s]
    <3>1. m \in DownMessage
      BY <2>2, Messages
    <3>2. m \notin FeedbackMessage
      BY <3>1, DownKinds
    <3>3. down' = Append(down, m)
      BY <1>3, <2>4, <3>1
    <3> HIDE DEF m
    <3>4. up = <<>> /\ down = <<>> /\ queue = <<>> /\ ~isRecording
      BY <1>1, <1>4 DEF ThreadReady, Order, ThreadStarts
    <3>5. Len(down') = 1 /\ up' = <<>> /\ queue' = <<>>
      BY <1>1, <2>4, <3>3, <3>4
    <3>6. AliveSession' = AliveSession /\ Kept' = Kept
      BY <2>4 DEF AliveSession, Kept
    <3>7. OpsUp' = {} /\ OpsQueued' = {}
      BY <3>5, EmptyHas DEF OpsUp, OpsQueued
    <3>8. Feedbacks' = {}
      BY <1>1, <3>1, <3>2, <3>3, <3>4, EmptyHas, AppendHas, HasWhere DEF Feedbacks
    <3>9. OneOnItsWay'
      BY <3>7, <3>8 DEF OneOnItsWay, One
    <3>10. StartWaits' /\ StartTravels' /\ ThreadStarts' /\ ReadyTravels' /\ OneKept'
      BY <1>1, <1>2, <2>4, <3>4, <3>5, <3>6
         DEF StartWaits, StartTravels, ThreadStarts, ReadyTravels, OneKept
    <3>11. QED
      BY <3>9, <3>10 DEF Order
  <2>5. QED
    BY <2>1, <2>3, <2>4
<1>5. CASE ThreadSteps
  <2>1. /\ phase # "starting" /\ queue # <<>> /\ queue' = Tail(queue) /\ UNCHANGED session
        /\ Head(queue) \in {"op", "pause", "resume"}
    BY <1>1, <1>5 DEF ThreadSteps
  <2>2. AliveSession' = AliveSession /\ Kept' = Kept /\ OpsUp' = OpsUp
    BY <1>1, <2>1 DEF AliveSession, Kept, OpsUp
  <2>3. ~Has(down, ReadyMessage)
    BY <1>1, <2>1 DEF Order, ReadyTravels
  <2>4. PICK m \in DownMessage :
          /\ down' = Append(down, m) /\ m \notin ReadyMessage /\ phase' # "starting"
          /\ m \in FeedbackMessage <=> Head(queue) = "op"
    <3>1. CASE Head(queue) = "op"
      <4> DEFINE m == [type |-> "operation_feedback", state |-> phase]
      <4>1. m \in DownMessage /\ m.type = "operation_feedback" /\ phase' = phase
            /\ down' = Append(down, m)
        BY <1>1, <1>3, <1>5, <3>1, Messages DEF ThreadSteps
      <4> HIDE DEF m
      <4>2. m \in FeedbackMessage /\ m \notin ReadyMessage
        BY <4>1, DownKinds
      <4>3. QED
        BY <2>1, <3>1, <4>1, <4>2
    <3>2. CASE Head(queue) \in {"pause", "resume"}
      <4>1. PICK m \in {Paused, Resumed} : Tell(<<m>>) /\ phase' # "starting"
        BY <1>5, <3>2 DEF ThreadSteps, Paused, Resumed
      <4>2. m \in DownMessage /\ m.type \in {"recording_paused", "recording_resumed"}
        BY Messages DEF Paused, Resumed
      <4>3. m \notin FeedbackMessage /\ m \notin ReadyMessage
        BY <4>2, DownKinds
      <4>4. QED
        BY <1>3, <3>2, <4>1, <4>2, <4>3
    <3>3. QED
      BY <2>1, <3>1, <3>2
  <2>5. ~Has(down', ReadyMessage)
    BY <1>1, <2>3, <2>4, AppendHas
  <2>6. StartWaits' /\ StartTravels' /\ ThreadStarts' /\ ReadyTravels' /\ OneKept'
    BY <1>1, <1>2, <2>2, <2>4, <2>5
       DEF StartWaits, StartTravels, ThreadStarts, ReadyTravels, OneKept
  <2>7. One(OpsQueued) /\ One(Feedbacks)
    BY <1>1 DEF Order, OneOnItsWay
  <2>8. One(OpsQueued') /\ (OpsQueued = {} => OpsQueued' = {})
    BY <1>1, <2>1, <2>7, TailOne, TailHas, HasWhere DEF OpsQueued
  <2>9. CASE Head(queue) = "op"
    <3>1. OpsQueued # {} /\ OpsQueued' = {}
      BY <1>1, <2>1, <2>7, <2>9, TailOne, TailHas, HasWhere DEF OpsQueued
    <3>2. OpsUp = {} /\ Feedbacks = {} /\ ~(isRecording /\ ~operationPending)
      BY <1>1, <3>1 DEF Order, OneOnItsWay
    <3>3. One(Feedbacks')
      BY <1>1, <2>4, <3>2, AppendOne, HasWhere DEF Feedbacks
    <3>4. OneOnItsWay'
      BY <1>1, <2>2, <3>1, <3>2, <3>3 DEF OneOnItsWay, One
    <3>5. QED
      BY <2>6, <3>4 DEF Order
  <2>10. CASE Head(queue) # "op"
    <3>1. One(Feedbacks') /\ (Feedbacks = {} => Feedbacks' = {})
      BY <1>1, <2>4, <2>7, <2>10, AppendOne, AppendHas, HasWhere DEF Feedbacks
    <3>2. OneOnItsWay'
      BY <1>1, <2>2, <2>8, <3>1 DEF Order, OneOnItsWay
    <3>3. QED
      BY <2>6, <3>2 DEF Order
  <2>11. QED
    BY <2>9, <2>10
<1>6. CASE ThreadDies
  <2>1. AliveSession' = {}
    BY <1>6 DEF ThreadDies, AliveSession
  <2>2. QED
    BY <1>2, <2>1, EndsOrder
<1>7. QED
  BY <1>4, <1>5, <1>6 DEF ThreadStep

LEMMA NextOrder ==
    ASSUME Sound, Orderly, [Next]_vars
    PROVE  Orderly'
<1>1. CASE PageStep
  BY <1>1, PageOrder DEF Orderly
<1>2. CASE ~PageStep
  <2>1. overlap' = overlap
    <3>1. CASE Handle
      BY <3>1, HandleEffect
    <3>2. CASE Serve
      BY <3>2 DEF Serve, ServeStart, ServeStop, ServeCommand, ServeOperation, ServeKeepalive,
         clientVars
    <3>3. CASE ThreadStep \/ IdleCheck \/ RuntimeExpires
      BY <3>3 DEF ThreadStep, ThreadReady, ThreadSteps, ThreadDies, IdleCheck, RuntimeExpires,
         clientVars
    <3>4. CASE ConnectionEnds \/ UNCHANGED vars
      BY <3>4 DEF ConnectionEnds, vars, clientVars
    <3>5. QED
      BY <1>2, <3>1, <3>2, <3>3, <3>4 DEF Next, PageStep, ThreadStep
  <2> SUFFICES ASSUME Order PROVE Order'
    BY <2>1 DEF Orderly
  <2>2. ASSUME UNCHANGED <<clientVars, up, down, session, phase, queue>> PROVE Order'
    BY <2>2 DEF clientVars, recVars, Order, StartWaits, StartTravels, ThreadStarts, ReadyTravels,
       OneKept, OneOnItsWay, OpsUp, OpsQueued, Feedbacks, AliveSession, Kept
  <2>3. CASE ConnectionEnds
    <3>1. /\ up' = <<>> /\ down' = <<>> /\ ~isRecording' /\ AliveSession' = {} /\ Kept' = {}
          /\ starts' = starts
      BY <2>3, EndsEffect
    <3>2. StartWaits'
      BY <3>1 DEF Order, StartWaits
    <3>3. ~Has(up', StartMessage)
      BY <3>1, EmptyHas
    <3>4. QED
      BY <3>1, <3>2, <3>3 DEF Order, StartTravels, ThreadStarts, ReadyTravels, OneKept, OneOnItsWay
  <2>4. CASE IdleCheck
    <3>1. PICK s \in Kept \ lease : StopTarget({s}, <<Gone>>)
      BY <2>4 DEF IdleCheck
    <3>2. UNCHANGED <<starts, up>> /\ {s} \in SUBSET Session
      BY <2>4 DEF IdleCheck, clientVars, Kept
    <3>3. starts' = <<>> /\ ~Has(up', StartMessage) /\ AliveSession \subseteq {s}
      BY <3>2, KeptNoStart, KeptIsAlive
    <3>4. QED
      BY <3>1, <3>2, <3>3, StopOrder
  <2>5. CASE RuntimeExpires
    BY <2>2, <2>5 DEF RuntimeExpires
  <2>6. CASE UNCHANGED vars
    BY <2>2, <2>6 DEF vars, serverVars
  <2>7. QED
    BY <1>2, <2>3, <2>4, <2>5, <2>6, HandleOrder, ServeOrder, ThreadOrder
       DEF Next, PageStep, ThreadStep
<1>3. QED
  BY <1>1, <1>2

\* A set of which all members are the same has at most one.
LEMMA OneCounts ==
    ASSUME NEW S, One(S)
    PROVE  Cardinality(S) \in {0, 1} /\ (S = {} => Cardinality(S) = 0)
<1>1. CASE S = {}
  BY <1>1, FS_EmptySet
<1>2. ASSUME NEW x \in S PROVE Cardinality(S) = 1
  <2>1. S = {x}
    BY DEF One
  <2>2. Cardinality({x}) = 1
    BY FS_Singleton
  <2>3. QED
    BY <2>1, <2>2
<1>3. QED
  BY <1>1, <1>2

\* A thread that runs has at most one operation on its way, in the channel and
\* in its queue, unless a start was clicked over what was left of an earlier
\* recording; for any number of recordings and whatever crosses.
THEOREM OperationsComeOneByOne == Spec => []OneOperation
<1>1. Init => Orderly
  <2>1. Init => AliveSession = {} /\ starts = <<>> /\ ~Has(up, StartMessage)
    BY EmptyHas DEF Init, AliveSession
  <2>2. QED
    BY <2>1 DEF Orderly, Order, StartWaits, StartTravels, ThreadStarts, ReadyTravels, OneKept,
       OneOnItsWay
<1>2. Orderly /\ Sound /\ [Next]_vars => Orderly'
  BY NextOrder
<1>3. Sound /\ Orderly => OneOperation
  <2> SUFFICES ASSUME Sound, Order, AliveSession # {}
               PROVE  InFlight(up, "op") + OperationsQueued <= 1
    BY DEF Orderly, OneOperation
  <2>1. {i \in DOMAIN up : up[i].type = "op"} = OpsUp
    <3>1. \A i \in DOMAIN up : up[i] \in UpMessage
      BY DEF Sound, Types
    <3>2. QED
      BY <3>1, UpKinds DEF OpsUp, Where
  <2>2. {i \in DOMAIN queue : queue[i] = "op"} = OpsQueued
    BY DEF OpsQueued, Where
  <2>3. One(OpsUp) /\ One(OpsQueued) /\ (OpsUp = {} \/ OpsQueued = {})
    BY DEF Order, OneOnItsWay
  <2>4. /\ Cardinality(OpsUp) \in {0, 1} /\ (OpsUp = {} => Cardinality(OpsUp) = 0)
        /\ Cardinality(OpsQueued) \in {0, 1} /\ (OpsQueued = {} => Cardinality(OpsQueued) = 0)
    BY <2>3, OneCounts
  <2>5. InFlight(up, "op") = Cardinality(OpsUp) /\ OperationsQueued = Cardinality(OpsQueued)
    BY <2>1, <2>2 DEF InFlight, OperationsQueued
  <2>6. QED
    BY <2>3, <2>4, <2>5
<1>4. QED
  BY <1>1, <1>2, <1>3, SpecSound, PTL DEF Spec

=============================================================================
