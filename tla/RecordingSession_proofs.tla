----------------------- MODULE RecordingSession_proofs -----------------------
(***************************************************************************)
(* Proofs about RecordingWorker and about RecordingSession, which runs it, *)
(* for every set of failing calls and any number of commands.  Of the      *)
(* thread: its types, that a deferred flush attributes to an event the     *)
(* screens around it and no others, and that whatever fails costs one      *)
(* event or repeats one.  Of the session, whether or not a join may time   *)
(* out and the database may fail: its types; that the service around the   *)
(* thread disturbs none of the thread's own invariants; that the state     *)
(* shown settles on the thread's; and that a completed task has its        *)
(* recording whole.                                                        *)
(***************************************************************************)
EXTENDS RecordingSession, FiniteSetTheorems, SequenceTheorems, TLAPS

-----------------------------------------------------------------------------
(* The thread by itself.                                                   *)

How == {"recorded", "unrecorded", "failed"}

\* Event e was recorded and no event after it, up to the n-th, was executed.
LastExecuted(e, n, s) ==
    /\ e \in DOMAIN s /\ s[e] = "recorded"
    /\ \A k \in (e + 1)..n : s[k] = "failed"

Sound(t, s) ==
    /\ LastExecuted(t.event, t.to, s)
    /\ t.from = t.event - 1
    /\ t.to \in t.event..Len(s)

SoundCalls(c, s) == \A i \in DOMAIN c : Sound(c[i], s)

\* What a flush needs of the pending event: its screen is the one before it,
\* and nothing has been executed since.
PendingIsLast ==
    Pending => /\ last_state = last_event - 1
               /\ LastExecuted(last_event, Len(sent), sent)

\* A pause leaves nothing pending, so what it does not record is not spanned.
PauseIsClean == is_paused => last_event = None /\ last_state = None

\* Without a fault an event that waits for its flush has its screen.
PendingHasScreen == faults = 0 => (last_event = None <=> last_state = None)

IInv ==
    /\ TypeOK
    /\ SoundCalls(calls, sent)
    /\ PendingIsLast
    /\ PauseIsClean
    /\ PendingHasScreen
    /\ SourceIsPersisted

LEMMA InitIInv == Init => IInv
<1> SUFFICES ASSUME Init PROVE IInv
  OBVIOUS
<1> USE NoneAssumption DEF Init
<1>1. TypeOK
  <2>1. <<>> \in Seq(Command \cup {"shutdown"}) /\ <<>> \in Seq(Response)
    OBVIOUS
  <2>2. <<>> \in Seq(How) /\ <<>> \in Seq(Transition)
    OBVIOUS
  <2>3. {faults, misfires, puts} \subseteq Nat /\ nodes \in SUBSET Screen
    OBVIOUS
  <2>4. QED
    BY <2>1, <2>2, <2>3 DEF TypeOK, How
<1>2. SoundCalls(calls, sent) /\ PendingIsLast /\ PauseIsClean /\ PendingHasScreen
  BY DEF SoundCalls, PendingIsLast, Pending, PauseIsClean, PendingHasScreen
<1>3. SourceIsPersisted
  BY DEF SourceIsPersisted
<1>4. QED
  BY <1>1, <1>2, <1>3 DEF IInv

(***************************************************************************)
(* Sequences.                                                              *)
(***************************************************************************)
LEMMA AppendExecuted ==
  ASSUME NEW s \in Seq(How), NEW h \in How, NEW e \in Nat, NEW n \in Nat,
         n <= Len(s), LastExecuted(e, n, s)
  PROVE  LastExecuted(e, n, Append(s, h))
  BY DEF LastExecuted

LEMMA AppendSent ==
  ASSUME NEW s \in Seq(How), NEW h \in How, NEW c \in Seq(Transition),
         SoundCalls(c, s)
  PROVE  SoundCalls(c, Append(s, h))
<1> SUFFICES ASSUME NEW i \in DOMAIN c
             PROVE  Sound(c[i], Append(s, h))
  BY DEF SoundCalls
<1>1. c[i] \in Transition
  OBVIOUS
<1>2. Sound(c[i], s)
  BY DEF SoundCalls
<1>3. c[i].to \in Nat /\ c[i].event \in Nat /\ c[i].to <= Len(s)
  BY <1>1, <1>2 DEF Sound, Transition, Event, Screen
<1>4. LastExecuted(c[i].event, c[i].to, Append(s, h))
  BY <1>2, <1>3, AppendExecuted DEF Sound
<1>5. c[i].to \in c[i].event..Len(Append(s, h))
  BY <1>2, <1>3 DEF Sound
<1>6. QED
  BY <1>2, <1>4, <1>5 DEF Sound

LEMMA AppendCall ==
  ASSUME NEW s, NEW c \in Seq(Transition), NEW t \in Transition,
         SoundCalls(c, s), Sound(t, s)
  PROVE  Append(c, t) \in Seq(Transition) /\ SoundCalls(Append(c, t), s)
<1>1. Append(c, t) \in Seq(Transition)
  OBVIOUS
<1>2. ASSUME NEW i \in DOMAIN Append(c, t)
      PROVE  Sound(Append(c, t)[i], s)
  <2>1. CASE i = Len(c) + 1
    BY <2>1
  <2>2. CASE i # Len(c) + 1
    <3>1. i \in DOMAIN c /\ Append(c, t)[i] = c[i]
      BY <1>2, <2>2
    <3>2. QED
      BY <3>1 DEF SoundCalls
  <2>3. QED
    BY <2>1, <2>2
<1>3. QED
  BY <1>1, <1>2 DEF SoundCalls

(***************************************************************************)
(* The flush.  FlushEffect is what any of its ways does to the UTG.        *)
(***************************************************************************)
FlushEffect ==
    /\ calls' \in Seq(Transition) /\ SoundCalls(calls', sent)
    /\ nodes' \in SUBSET Screen /\ nodes \subseteq nodes'
    /\ faults' \in Nat /\ faults <= faults'

LEMMA ObservationType ==
  ASSUME TypeOK, NEW screen \in Observation
  PROVE  screen = Len(sent) \/ screen = None
  BY DEF Observation, Now

LEMMA AddTransitionEffect ==
  ASSUME IInv, Pending, NEW missed \in {0, 1}, AddTransition(Len(sent), missed)
  PROVE  /\ FlushEffect
         /\ faults' = 0 => Len(sent) \in nodes'
<1> DEFINE t == [event |-> last_event, from |-> last_state, to |-> Len(sent)]
<1>1. Len(sent) \in Nat /\ faults \in Nat
  BY DEF IInv, TypeOK
<1>2. last_event \in Nat /\ last_state \in Screen /\ last_event \in Event
  BY DEF IInv, TypeOK, Pending, Event, Screen
<1>3. t \in Transition
  BY <1>1, <1>2 DEF Transition, Screen
<1>4. last_event \in 1..Len(sent)
  BY DEF IInv, PendingIsLast, LastExecuted, TypeOK
<1>5. Sound(t, sent)
  BY <1>1, <1>2, <1>4 DEF Sound, IInv, PendingIsLast
<1>6. Append(calls, t) \in Seq(Transition) /\ SoundCalls(Append(calls, t), sent)
  BY <1>3, <1>5, AppendCall DEF IInv, TypeOK
<1>7. CASE calls' = Append(calls, t) /\ nodes' = nodes \cup {last_state, Len(sent)}
           /\ faults' = faults + missed
  <2>1. nodes' \in SUBSET Screen /\ nodes \subseteq nodes' /\ Len(sent) \in nodes'
    BY <1>1, <1>2, <1>7 DEF IInv, TypeOK, Screen
  <2>2. faults' \in Nat /\ faults <= faults'
    BY <1>1, <1>7
  <2>3. QED
    BY <1>6, <1>7, <2>1, <2>2 DEF FlushEffect
<1>8. CASE faults' = faults + missed + 1 /\ UNCHANGED <<calls, nodes>>
  BY <1>1, <1>8 DEF FlushEffect, IInv, TypeOK
<1>9. QED
  BY <1>7, <1>8 DEF AddTransition

LEMMA NoFlushEffect ==
  ASSUME IInv, UNCHANGED <<calls, nodes>>, faults' \in Nat, faults <= faults'
  PROVE  FlushEffect
  BY DEF IInv, TypeOK, FlushEffect

LEMMA FlushPendingEffect ==
  ASSUME IInv, NEW screen \in Observation, FlushPending(screen)
  PROVE  /\ FlushEffect
         /\ Pending /\ faults' = 0 => screen = Len(sent) /\ Len(sent) \in nodes'
<1> USE NoneAssumption
<1>1. screen = Len(sent) \/ screen = None
  BY ObservationType DEF IInv
<1>2. Len(sent) \in Nat /\ faults \in Nat /\ Len(sent) # None
  BY DEF IInv, TypeOK
<1>3. CASE ~Pending
  BY <1>2, <1>3, NoFlushEffect DEF FlushPending, Missed
<1>4. CASE Pending /\ screen # None
  BY <1>1, <1>4, AddTransitionEffect DEF FlushPending
<1>5. CASE Pending /\ screen = None
  <2>1. PICK again \in Observation :
          IF again # None THEN AddTransition(again, Missed(screen))
                          ELSE /\ faults' = faults + Missed(screen) + 1
                               /\ UNCHANGED <<calls, nodes>>
    BY <1>5 DEF FlushPending
  <2>2. Missed(screen) = 1
    BY <1>5 DEF Missed
  <2>3. CASE again # None
    <3>1. AddTransition(Len(sent), 1)
      BY <2>1, <2>2, <2>3, ObservationType DEF IInv
    <3>2. FlushEffect
      BY <1>5, <3>1, AddTransitionEffect
    <3>3. faults' # 0
      BY <1>2, <3>1 DEF AddTransition
    <3>4. QED
      BY <3>2, <3>3
  <2>4. CASE again = None
    BY <1>2, <2>1, <2>2, <2>4, NoFlushEffect
  <2>5. QED
    BY <2>3, <2>4
<1>6. QED
  BY <1>3, <1>4, <1>5

LEMMA FlushAtBoundaryEffect ==
  ASSUME IInv, FlushAtBoundary
  PROVE  FlushEffect
<1>1. faults \in Nat /\ Len(sent) \in Nat
  BY DEF IInv, TypeOK
<1>2. CASE ~Pending
  BY <1>1, <1>2, NoFlushEffect DEF FlushAtBoundary, utgVars
<1>3. CASE Pending
  <2>1. PICK screen \in Observation :
          IF screen # None THEN AddTransition(screen, 0)
                           ELSE faults' = faults + 1 /\ UNCHANGED <<calls, nodes>>
    BY <1>3 DEF FlushAtBoundary
  <2>2. CASE screen # None
    BY <1>3, <2>1, <2>2, ObservationType, AddTransitionEffect DEF IInv
  <2>3. CASE screen = None
    BY <1>1, <2>1, <2>3, NoFlushEffect
  <2>4. QED
    BY <2>2, <2>3
<1>4. QED
  BY <1>2, <1>3

LEMMA SegmentStartEffect ==
  ASSUME IInv, NEW screen \in Observation, SyncSegmentStart(screen)
  PROVE  /\ FlushEffect
         /\ faults' = 0 => screen = Len(sent) /\ Len(sent) \in nodes'
<1>1. screen = Len(sent) \/ screen = None
  BY ObservationType DEF IInv
<1>2. Len(sent) \in Nat /\ faults \in Nat
  BY DEF IInv, TypeOK
<1>3. calls' = calls /\ SoundCalls(calls, sent) /\ calls \in Seq(Transition)
  BY DEF SyncSegmentStart, IInv, TypeOK
<1>4. CASE screen # None /\ nodes' = nodes \cup {screen} /\ faults' = faults
  <2>1. screen = Len(sent) /\ nodes \in SUBSET Nat
    BY <1>1, <1>4 DEF IInv, TypeOK, Screen
  <2>2. nodes' \in SUBSET Nat /\ nodes \subseteq nodes' /\ Len(sent) \in nodes'
    BY <1>2, <1>4, <2>1
  <2>3. QED
    BY <1>2, <1>3, <1>4, <2>1, <2>2 DEF FlushEffect, Screen
<1>5. CASE nodes' = nodes /\ faults' = faults + 1
  BY <1>2, <1>3, <1>5 DEF FlushEffect, IInv, TypeOK
<1>6. QED
  BY <1>4, <1>5 DEF SyncSegmentStart

(***************************************************************************)
(* The actions.  Most leave last_event and last_state alone, and execute   *)
(* nothing or something that fails.                                        *)
(***************************************************************************)
LEMMA KeepsPending ==
  ASSUME IInv, FlushEffect, UNCHANGED <<last_event, last_state>>,
         sent' = sent \/ sent' = Append(sent, "failed")
  PROVE  /\ sent' \in Seq(How)
         /\ SoundCalls(calls', sent')
         /\ PendingIsLast' /\ PendingHasScreen' /\ SourceIsPersisted'
<1>1. sent \in Seq(How) /\ Len(sent) \in Nat /\ faults \in Nat
  BY DEF IInv, TypeOK, How
<1>2. sent' \in Seq(How)
  BY <1>1 DEF How
<1>3. SoundCalls(calls', sent')
  BY <1>1, AppendSent DEF FlushEffect, How
<1>4. PendingIsLast'
  <2>1. SUFFICES ASSUME Pending
                 PROVE  LastExecuted(last_event, Len(sent'), sent')
    BY DEF PendingIsLast, Pending, IInv
  <2>2. LastExecuted(last_event, Len(sent), sent) /\ last_event \in Nat
    BY <2>1 DEF IInv, PendingIsLast, Pending, TypeOK, Event
  <2>3. CASE sent' = Append(sent, "failed")
    BY <1>1, <2>2, <2>3 DEF LastExecuted
  <2>4. QED
    BY <2>2, <2>3
<1>5. PendingHasScreen'
  BY <1>1 DEF IInv, PendingHasScreen, FlushEffect
<1>6. SourceIsPersisted'
  <2>1. SUFFICES ASSUME faults' = 0, NEW i \in DOMAIN sent', sent'[i] = "recorded"
                 PROVE  i - 1 \in nodes'
    BY DEF SourceIsPersisted
  <2>2. i \in DOMAIN sent /\ sent[i] = "recorded"
    BY <1>1, <2>1
  <2>3. faults = 0
    BY <1>1, <2>1 DEF FlushEffect
  <2>4. QED
    BY <2>2, <2>3 DEF IInv, SourceIsPersisted, FlushEffect
<1>7. QED
  BY <1>2, <1>3, <1>4, <1>5, <1>6

LEMMA TakeType ==
  ASSUME TypeOK, NEW command, Take(command)
  PROVE  events' \in Seq(Command \cup {"shutdown"})
<1>1. events \in Seq(Command \cup {"shutdown"}) /\ events # <<>>
  BY DEF TypeOK, Take
<1>2. Tail(events) \in Seq(Command \cup {"shutdown"})
  BY <1>1
<1>3. QED
  BY <1>2 DEF Take

LEMMA AnswerType ==
  ASSUME TypeOK, NEW a \in Response
  PROVE  Append(responses, a) \in Seq(Response)
  BY DEF TypeOK

LEMMA PutIInv ==
  ASSUME IInv, (\E command \in Command : Put(command)) \/ RequestShutdown
  PROVE  IInv'
<1>1. PICK command \in Command \cup {"shutdown"} : events' = Append(events, command)
  BY DEF Put, RequestShutdown
<1>2. /\ UNCHANGED <<responses, phase, workerVars, deviceVars, utgVars>>
      /\ puts' = puts \/ puts' = puts + 1
  BY DEF Put, RequestShutdown
<1>3. events' \in Seq(Command \cup {"shutdown"})
  BY <1>1 DEF IInv, TypeOK
<1>4. FlushEffect
  BY <1>2, NoFlushEffect DEF utgVars, IInv, TypeOK
<1>5. TypeOK'
  BY <1>2, <1>3 DEF IInv, TypeOK, workerVars, deviceVars, utgVars
<1>6. PauseIsClean'
  BY <1>2 DEF IInv, PauseIsClean, workerVars
<1>7. QED
  BY <1>2, <1>4, <1>5, <1>6, KeepsPending DEF IInv, workerVars, deviceVars

LEMMA InitDeviceAndUtgIInv ==
  ASSUME IInv, InitDeviceAndUtg
  PROVE  IInv'
<1>1. /\ UNCHANGED <<events, workerVars, deviceVars, utgVars, puts>>
      /\ phase' \in {"running", "stopped"}
  BY DEF InitDeviceAndUtg
<1>2. responses' \in Seq(Response)
  BY AnswerType DEF InitDeviceAndUtg, IInv, Response
<1>3. FlushEffect
  BY <1>1, NoFlushEffect DEF utgVars, IInv, TypeOK
<1>4. TypeOK'
  BY <1>1, <1>2 DEF IInv, TypeOK, workerVars, deviceVars, utgVars
<1>5. PauseIsClean'
  BY <1>1 DEF IInv, PauseIsClean, workerVars
<1>6. QED
  BY <1>1, <1>3, <1>4, <1>5, KeepsPending DEF IInv, workerVars, deviceVars

\* The two ways in which an action comes to nothing.
LEMMA NothingExecutedIInv ==
  ASSUME IInv, Take("action"), NoInputEvent \/ SendFails, FlushEffect,
         misfires' \in Nat, UNCHANGED <<phase, puts>>
  PROVE  IInv'
<1>1. UNCHANGED workerVars /\ (sent' = sent \/ sent' = Append(sent, "failed"))
  BY DEF NoInputEvent, SendFails
<1>2. responses' \in Seq(Response)
  BY AnswerType DEF NoInputEvent, SendFails, IInv, TypeOK, Response
<1>3. /\ sent' \in Seq(How) /\ SoundCalls(calls', sent')
      /\ PendingIsLast' /\ PendingHasScreen' /\ SourceIsPersisted'
  BY <1>1, KeepsPending DEF workerVars
<1>4. events' \in Seq(Command \cup {"shutdown"})
  BY TakeType DEF IInv
<1>5. TypeOK'
  BY <1>1, <1>2, <1>3, <1>4 DEF IInv, TypeOK, workerVars, FlushEffect, How
<1>6. PauseIsClean'
  BY <1>1 DEF IInv, PauseIsClean, workerVars
<1>7. QED
  BY <1>3, <1>5, <1>6 DEF IInv

LEMMA RecordedIInv ==
  ASSUME IInv, Take("action"), ~is_paused, NEW screen \in Observation, FlushEffect,
         faults' = 0 => screen = Len(sent) /\ Len(sent) \in nodes',
         Recorded(screen), UNCHANGED <<phase, puts, misfires>>
  PROVE  IInv'
<1> USE NoneAssumption
<1>1. sent \in Seq(How) /\ Len(sent) \in Nat /\ faults \in Nat
  BY DEF IInv, TypeOK, How
<1>2. /\ sent' = Append(sent, "recorded") /\ sent' \in Seq(How)
      /\ Len(sent') = Len(sent) + 1
  BY <1>1 DEF Recorded, Sends, How
<1>3. /\ last_state' = screen /\ last_event' = Len(sent) + 1
      /\ event_count' = event_count + 1 /\ is_paused' = is_paused
  BY DEF Recorded, Now
<1>4. screen = Len(sent) \/ screen = None
  BY ObservationType DEF IInv
<1>5. TypeOK'
  <2>1. responses' \in Seq(Response)
    BY AnswerType DEF Recorded, Sends, IInv, Response
  <2>2. events' \in Seq(Command \cup {"shutdown"})
    BY TakeType DEF IInv
  <2>3. last_state' \in Screen \cup {None} /\ last_event' \in Event \cup {None}
    BY <1>1, <1>3, <1>4 DEF Screen, Event
  <2>4. QED
    BY <1>2, <1>3, <2>1, <2>2, <2>3 DEF IInv, TypeOK, FlushEffect, How
<1>6. SoundCalls(calls', sent')
  BY <1>1, <1>2, AppendSent DEF FlushEffect, How
<1>7. PendingIsLast'
  <2>1. SUFFICES ASSUME Pending'
                 PROVE  /\ last_state' = last_event' - 1
                        /\ LastExecuted(last_event', Len(sent'), sent')
    BY DEF PendingIsLast
  <2>2. last_state' = last_event' - 1
    BY <1>1, <1>3, <1>4, <2>1 DEF Pending
  <2>3. LastExecuted(last_event', Len(sent'), sent')
    BY <1>1, <1>2, <1>3 DEF LastExecuted
  <2>4. QED
    BY <2>2, <2>3
<1>8. PauseIsClean' /\ PendingHasScreen'
  BY <1>1, <1>3 DEF PauseIsClean, PendingHasScreen
<1>9. SourceIsPersisted'
  <2>1. SUFFICES ASSUME faults' = 0, NEW i \in DOMAIN sent', sent'[i] = "recorded"
                 PROVE  i - 1 \in nodes'
    BY DEF SourceIsPersisted
  <2>2. CASE i = Len(sent) + 1
    BY <1>1, <2>1, <2>2
  <2>3. CASE i # Len(sent) + 1
    <3>1. i \in DOMAIN sent /\ sent[i] = "recorded"
      BY <1>1, <1>2, <2>1, <2>3
    <3>2. faults = 0
      BY <1>1, <2>1 DEF FlushEffect
    <3>3. QED
      BY <3>1, <3>2 DEF IInv, SourceIsPersisted, FlushEffect
  <2>4. QED
    BY <2>2, <2>3
<1>10. QED
  BY <1>5, <1>6, <1>7, <1>8, <1>9 DEF IInv

LEMMA ExecuteRecordedIInv ==
  ASSUME IInv, ExecuteRecorded
  PROVE  IInv'
<1>1. PICK screen \in Observation :
        /\ IF last_event = None /\ last_state = None
           THEN SyncSegmentStart(screen)
           ELSE FlushPending(screen)
        /\ \/ (NoInputEvent \/ SendFails) /\ misfires' = misfires + 1
           \/ Recorded(screen) /\ UNCHANGED misfires
  BY DEF ExecuteRecorded
<1>2. FlushEffect /\ (faults' = 0 => screen = Len(sent) /\ Len(sent) \in nodes')
  <2>1. CASE last_event = None /\ last_state = None
    BY <1>1, <2>1, SegmentStartEffect
  <2>2. CASE ~(last_event = None /\ last_state = None)
    <3>1. FlushEffect /\ (Pending /\ faults' = 0 => screen = Len(sent) /\ Len(sent) \in nodes')
      BY <1>1, <2>2, FlushPendingEffect
    <3>2. faults' = 0 => faults = 0
      BY <3>1 DEF FlushEffect, IInv, TypeOK
    <3>3. faults' = 0 => Pending
      BY <2>2, <3>2 DEF IInv, PendingHasScreen, Pending
    <3>4. QED
      BY <3>1, <3>3
  <2>3. QED
    BY <2>1, <2>2
<1>3. Take("action") /\ ~is_paused /\ UNCHANGED <<phase, puts>>
  BY DEF ExecuteRecorded
<1>4. CASE (NoInputEvent \/ SendFails) /\ misfires' = misfires + 1
  <2>1. misfires' \in Nat
    BY <1>4 DEF IInv, TypeOK
  <2>2. QED
    BY <1>2, <1>3, <1>4, <2>1, NothingExecutedIInv
<1>5. CASE Recorded(screen) /\ UNCHANGED misfires
  BY <1>2, <1>3, <1>5, RecordedIInv
<1>6. QED
  BY <1>1, <1>4, <1>5

LEMMA ExecuteUnrecordedIInv ==
  ASSUME IInv, ExecuteUnrecorded
  PROVE  IInv'
<1> USE NoneAssumption
<1>1. /\ Take("action") /\ is_paused
      /\ UNCHANGED <<phase, misfires, calls, nodes, faults, puts>>
  BY DEF ExecuteUnrecorded, utgVars
<1>2. FlushEffect /\ misfires' \in Nat
  BY <1>1, NoFlushEffect DEF IInv, TypeOK
<1>3. CASE NoInputEvent \/ SendFails
  BY <1>1, <1>2, <1>3, NothingExecutedIInv
<1>4. CASE Sends("unrecorded") /\ UNCHANGED workerVars
  <2>1. sent \in Seq(How) /\ Len(sent) \in Nat
    BY DEF IInv, TypeOK, How
  <2>2. sent' = Append(sent, "unrecorded") /\ sent' \in Seq(How)
    BY <1>4, <2>1 DEF Sends, How
  <2>3. UNCHANGED <<is_paused, last_state, last_event, event_count>>
    BY <1>4 DEF workerVars
  <2>4. responses' \in Seq(Response)
    BY <1>4, AnswerType DEF Sends, IInv, Response
  <2>5. events' \in Seq(Command \cup {"shutdown"})
    BY <1>1, TakeType DEF IInv
  <2>6. TypeOK'
    BY <1>1, <2>2, <2>3, <2>4, <2>5 DEF IInv, TypeOK, How
  <2>7. SoundCalls(calls', sent')
    BY <1>2, <2>1, <2>2, AppendSent DEF FlushEffect, How
  <2>8. PendingIsLast' /\ PauseIsClean' /\ PendingHasScreen'
    BY <1>1, <2>3 DEF IInv, PauseIsClean, PendingIsLast, PendingHasScreen, Pending
  <2>9. SourceIsPersisted'
    BY <1>1, <2>1, <2>2 DEF IInv, SourceIsPersisted
  <2>10. QED
    BY <2>6, <2>7, <2>8, <2>9 DEF IInv
<1>5. QED
  BY <1>3, <1>4 DEF ExecuteUnrecorded

LEMMA HandlePauseIInv ==
  ASSUME IInv, HandlePause
  PROVE  IInv'
<1> USE NoneAssumption
<1>1. Take("pause_recording") /\ UNCHANGED <<phase, sent, misfires, puts>>
  BY DEF HandlePause, deviceVars
<1>2. responses' \in Seq(Response) /\ events' \in Seq(Command \cup {"shutdown"})
  BY <1>1, AnswerType, TakeType DEF HandlePause, IInv, Response
<1>3. CASE is_paused
  <2>1. UNCHANGED workerVars /\ UNCHANGED utgVars
    BY <1>3 DEF HandlePause
  <2>2. FlushEffect
    BY <2>1, NoFlushEffect DEF utgVars, IInv, TypeOK
  <2>3. TypeOK'
    BY <1>1, <1>2, <2>1 DEF IInv, TypeOK, workerVars, utgVars
  <2>4. PauseIsClean'
    BY <2>1 DEF IInv, PauseIsClean, workerVars
  <2>5. QED
    BY <1>1, <2>1, <2>2, <2>3, <2>4, KeepsPending DEF IInv, workerVars
<1>4. CASE ~is_paused
  <2>1. /\ FlushAtBoundary /\ last_state' = None /\ last_event' = None
        /\ is_paused' = TRUE /\ UNCHANGED event_count
    BY <1>4 DEF HandlePause
  <2>2. FlushEffect
    BY <2>1, FlushAtBoundaryEffect
  <2>3. TypeOK'
    BY <1>1, <1>2, <2>1, <2>2 DEF IInv, TypeOK, FlushEffect
  <2>4. SoundCalls(calls', sent')
    BY <1>1, <2>2 DEF FlushEffect
  <2>5. PendingIsLast' /\ PauseIsClean' /\ PendingHasScreen'
    BY <2>1 DEF PendingIsLast, Pending, PauseIsClean, PendingHasScreen
  <2>6. SourceIsPersisted'
    BY <1>1, <2>2 DEF IInv, TypeOK, SourceIsPersisted, FlushEffect
  <2>7. QED
    BY <2>3, <2>4, <2>5, <2>6 DEF IInv
<1>5. QED
  BY <1>3, <1>4

LEMMA HandleResumeIInv ==
  ASSUME IInv, HandleResume
  PROVE  IInv'
<1>1. /\ Take("resume_recording") /\ is_paused' = FALSE
      /\ UNCHANGED <<phase, last_state, last_event, event_count, deviceVars, utgVars, puts>>
  BY DEF HandleResume
<1>2. responses' \in Seq(Response) /\ events' \in Seq(Command \cup {"shutdown"})
  BY <1>1, AnswerType, TakeType DEF HandleResume, IInv, Response
<1>3. FlushEffect
  BY <1>1, NoFlushEffect DEF utgVars, IInv, TypeOK
<1>4. TypeOK'
  BY <1>1, <1>2 DEF IInv, TypeOK, deviceVars, utgVars
<1>5. PauseIsClean'
  BY <1>1 DEF PauseIsClean
<1>6. QED
  BY <1>1, <1>3, <1>4, <1>5, KeepsPending DEF IInv, deviceVars

LEMMA HandleShutdownIInv ==
  ASSUME IInv, HandleShutdown
  PROVE  IInv'
<1>1. /\ Take("shutdown") /\ FlushAtBoundary /\ phase' = "stopped"
      /\ UNCHANGED <<responses, workerVars, deviceVars, puts>>
  BY DEF HandleShutdown
<1>2. events' \in Seq(Command \cup {"shutdown"})
  BY <1>1, TakeType DEF IInv
<1>3. FlushEffect
  BY <1>1, FlushAtBoundaryEffect
<1>4. TypeOK'
  BY <1>1, <1>2, <1>3 DEF IInv, TypeOK, FlushEffect, workerVars, deviceVars
<1>5. PauseIsClean'
  BY <1>1 DEF IInv, PauseIsClean, workerVars
<1>6. QED
  BY <1>1, <1>3, <1>4, <1>5, KeepsPending DEF IInv, workerVars, deviceVars

(***************************************************************************)
(* The theorems.                                                           *)
(***************************************************************************)
LEMMA NextIInv == IInv /\ [Next]_vars => IInv'
<1> SUFFICES ASSUME IInv, [Next]_vars
             PROVE  IInv'
  OBVIOUS
<1>1. CASE UNCHANGED vars
  BY <1>1 DEF vars, workerVars, deviceVars, utgVars, IInv, TypeOK, SoundCalls, PendingIsLast,
              Pending, PauseIsClean, PendingHasScreen, SourceIsPersisted
<1>2. CASE (\E command \in Command : Put(command)) \/ RequestShutdown
  BY <1>2, PutIInv
<1>3. CASE Worker
  BY <1>3, InitDeviceAndUtgIInv, ExecuteRecordedIInv, ExecuteUnrecordedIInv,
     HandlePauseIInv, HandleResumeIInv, HandleShutdownIInv DEF Worker
<1>4. QED
  BY <1>1, <1>2, <1>3 DEF Next

\* The inductive invariant holds of the thread, whatever fails.
THEOREM SpecIInv == Spec => []IInv
  BY InitIInv, NextIInv, PTL DEF Spec

\* Queues, worker state and recorded transitions keep their types.
THEOREM TypeCorrect == Spec => []TypeOK
<1>1. IInv => TypeOK
  BY DEF IInv
<1>2. QED
  BY <1>1, SpecIInv, PTL

\* No deferred flush attributes another event's effect, or a paused user's, to
\* the pending event.
THEOREM TransitionsAreSound == Spec => []NoTransitionSpansAnEvent
<1>1. IInv => NoTransitionSpansAnEvent
  BY DEF IInv, SoundCalls, Sound, LastExecuted, NoTransitionSpansAnEvent
<1>2. QED
  BY <1>1, SpecIInv, PTL

\* Without a fault every acknowledged event's screen is a node already.
THEOREM SourcesArePersisted == Spec => []SourceIsPersisted
<1>1. IInv => SourceIsPersisted
  BY DEF IInv
<1>2. QED
  BY <1>1, SpecIInv, PTL

(***************************************************************************)
(* What faults and misfires cost.  Cost is the price of a flush: either    *)
(* the pending event gets its transition, or it is counted as a fault.     *)
(***************************************************************************)
Added == Pending /\ \E t \in Transition : t.event = last_event /\ calls' = Append(calls, t)
Cost(missed) ==
    \/ Added /\ faults' >= faults + missed
    \/ calls' = calls /\ faults' >= faults + missed + (IF Pending THEN 1 ELSE 0)

\* An event that is flushed and stays pending will be flushed again: it owes
\* a repetition, and the misfire that kept it pending has been counted.
OwesRepeat ==
    phase # "stopped" /\ Pending /\ \E k \in DOMAIN calls : calls[k].event = last_event
RepeatsCounted == Cardinality(Repeats) + (IF OwesRepeat THEN 1 ELSE 0) <= misfires

\* The thread starts with nothing to flush, so an aborted start loses nothing.
StartIsClean == phase = "starting" => ~Pending

Faults == StartIsClean /\ OneLossPerFault /\ RepeatsCounted

LEMMA AddTransitionCost ==
  ASSUME TypeOK, Pending, NEW target \in Nat, NEW missed \in {0, 1},
         AddTransition(target, missed)
  PROVE  Cost(missed)
<1> DEFINE t == [event |-> last_event, from |-> last_state, to |-> target]
<1>1. faults \in Nat /\ t \in Transition /\ t.event = last_event
  BY DEF TypeOK, Pending, Transition, Screen
<1>2. QED
  BY <1>1 DEF AddTransition, Cost, Added

LEMMA FlushPendingCost ==
  ASSUME TypeOK, NEW screen \in Observation, FlushPending(screen)
  PROVE  Cost(Missed(screen))
<1> USE NoneAssumption
<1>1. faults \in Nat /\ Len(sent) \in Nat /\ Missed(screen) \in {0, 1}
  BY DEF TypeOK, Missed
<1>2. CASE ~Pending
  BY <1>1, <1>2 DEF FlushPending, Cost
<1>3. CASE Pending /\ screen # None
  <2>1. AddTransition(screen, 0) /\ Missed(screen) = 0 /\ screen = Len(sent)
    BY <1>3, ObservationType DEF FlushPending, Missed
  <2>2. Cost(0)
    BY <1>1, <1>3, <2>1, AddTransitionCost
  <2>3. QED
    BY <2>1, <2>2
<1>4. CASE Pending /\ screen = None
  <2>1. PICK again \in Observation :
          IF again # None THEN AddTransition(again, Missed(screen))
                          ELSE /\ faults' = faults + Missed(screen) + 1
                               /\ UNCHANGED <<calls, nodes>>
    BY <1>4 DEF FlushPending
  <2>2. CASE again # None
    <3>1. AddTransition(again, Missed(screen)) /\ again = Len(sent)
      BY <2>1, <2>2, ObservationType
    <3>2. QED
      BY <1>1, <1>4, <3>1, AddTransitionCost
  <2>3. CASE again = None
    BY <1>1, <1>4, <2>1, <2>3 DEF Cost
  <2>4. QED
    BY <2>2, <2>3
<1>5. QED
  BY <1>2, <1>3, <1>4

LEMMA FlushAtBoundaryCost ==
  ASSUME TypeOK, FlushAtBoundary
  PROVE  Cost(0)
<1>1. faults \in Nat /\ Len(sent) \in Nat
  BY DEF TypeOK
<1>2. CASE ~Pending
  BY <1>1, <1>2 DEF FlushAtBoundary, utgVars, Cost
<1>3. CASE Pending
  <2>1. PICK screen \in Observation :
          IF screen # None THEN AddTransition(screen, 0)
                           ELSE faults' = faults + 1 /\ UNCHANGED <<calls, nodes>>
    BY <1>3 DEF FlushAtBoundary
  <2>2. CASE screen # None
    <3>1. AddTransition(screen, 0) /\ screen = Len(sent)
      BY <2>1, <2>2, ObservationType
    <3>2. QED
      BY <1>1, <1>3, <3>1, AddTransitionCost
  <2>3. CASE screen = None
    BY <1>1, <1>3, <2>1, <2>3 DEF Cost
  <2>4. QED
    BY <2>2, <2>3
<1>4. QED
  BY <1>2, <1>3

LEMMA SegmentStartCost ==
  ASSUME TypeOK, ~Pending, NEW screen \in Observation, SyncSegmentStart(screen)
  PROVE  Cost(Missed(screen))
<1>1. faults \in Nat
  BY DEF TypeOK
<1>2. calls' = calls /\ faults' >= faults + Missed(screen)
  BY <1>1 DEF SyncSegmentStart, Missed
<1>3. QED
  BY <1>1, <1>2 DEF Cost, Missed

\* The ghost sets are finite, since they are sets of indices.
LEMMA GhostsFinite ==
  ASSUME TypeOK
  PROVE  /\ IsFiniteSet(Lost) /\ Cardinality(Lost) \in Nat
         /\ IsFiniteSet(Repeats) /\ Cardinality(Repeats) \in Nat
<1>1. Len(sent) \in Nat /\ Len(calls) \in Nat
  BY DEF TypeOK
<1>2. IsFiniteSet(1..Len(sent)) /\ IsFiniteSet(1..Len(calls))
  BY <1>1, FS_Interval
<1>3. Lost \in SUBSET (1..Len(sent)) /\ Repeats \in SUBSET (1..Len(calls))
  BY DEF TypeOK, Lost, Repeats
<1>4. IsFiniteSet(Lost) /\ IsFiniteSet(Repeats)
  BY <1>2, <1>3, FS_Subset
<1>5. QED
  BY <1>4, FS_CardinalityType

\* A set that grows by at most one element.
LEMMA OneMore ==
  ASSUME NEW S, NEW T, NEW x, IsFiniteSet(S), T \subseteq S \cup {x}
  PROVE  /\ IsFiniteSet(T) /\ Cardinality(T) \in Nat
         /\ Cardinality(T) <= Cardinality(S) + 1
<1>1. Cardinality(S) \in Nat
  BY FS_CardinalityType
<1>2. IsFiniteSet(S \cup {x}) /\ Cardinality(S \cup {x}) <= Cardinality(S) + 1
  BY <1>1, FS_AddElement
<1>3. IsFiniteSet(T) /\ Cardinality(T) <= Cardinality(S \cup {x})
  BY <1>2, FS_Subset
<1>4. Cardinality(T) \in Nat /\ Cardinality(S \cup {x}) \in Nat
  BY <1>2, <1>3, FS_CardinalityType
<1>5. QED
  BY <1>1, <1>2, <1>3, <1>4

LEMMA NoMore ==
  ASSUME NEW S, NEW T, IsFiniteSet(S), T \subseteq S
  PROVE  Cardinality(T) \in Nat /\ Cardinality(T) <= Cardinality(S)
<1>1. IsFiniteSet(T) /\ Cardinality(T) <= Cardinality(S)
  BY FS_Subset
<1>2. QED
  BY <1>1, FS_CardinalityType

\* An event may be lost for a flush that fails and for a screen that is missed.
LEMMA LossesAreFaults ==
  ASSUME TypeOK, TypeOK', OneLossPerFault, NEW missed \in {0, 1}, Cost(missed), NEW x,
         \A i \in Lost' : \/ i \in Lost
                          \/ Pending /\ calls' = calls /\ i = last_event
                          \/ missed = 1 /\ i = x
  PROVE  OneLossPerFault'
<1> DEFINE unflushed == Pending /\ calls' = calls
           Kept == IF unflushed THEN Lost \cup {last_event} ELSE Lost
<1>1. /\ IsFiniteSet(Lost) /\ Cardinality(Lost) \in Nat
      /\ faults \in Nat /\ faults' \in Nat /\ Cardinality(Lost) <= faults
  BY GhostsFinite DEF TypeOK, OneLossPerFault
<1>2. faults' >= faults + missed + (IF unflushed THEN 1 ELSE 0)
  <2>1. Added => calls' # calls
    BY DEF Added, TypeOK
  <2>2. QED
    BY <1>1, <2>1 DEF Cost
<1>3. /\ IsFiniteSet(Kept) /\ Cardinality(Kept) \in Nat
      /\ Cardinality(Kept) <= Cardinality(Lost) + (IF unflushed THEN 1 ELSE 0)
  <2>1. CASE unflushed
    <3>1. Kept = Lost \cup {last_event}
      BY <2>1
    <3>2. QED
      BY <1>1, <2>1, <3>1, OneMore
  <2>2. CASE ~unflushed
    BY <1>1, <2>2
  <2>3. QED
    BY <2>1, <2>2
<1>4. Cardinality(Lost') \in Nat /\ Cardinality(Lost') <= Cardinality(Kept) + missed
  <2>1. CASE missed = 0
    <3>1. Lost' \subseteq Kept
      BY <2>1
    <3>2. QED
      BY <1>3, <2>1, <3>1, NoMore
  <2>2. CASE missed = 1
    <3>1. Lost' \subseteq Kept \cup {x}
      OBVIOUS
    <3>2. QED
      BY <1>3, <2>2, <3>1, OneMore
  <2>3. QED
    BY <2>1, <2>2
<1> HIDE DEF Kept, unflushed
<1>5. QED
  BY <1>1, <1>2, <1>3, <1>4 DEF OneLossPerFault

\* A flush adds one call at most, of the pending event.
LEMMA CostCalls ==
  ASSUME TypeOK, NEW missed, Cost(missed)
  PROVE  /\ DOMAIN calls \subseteq DOMAIN calls'
         /\ \A k \in DOMAIN calls : calls'[k] = calls[k]
         /\ \/ calls' = calls
            \/ /\ Pending /\ DOMAIN calls' = DOMAIN calls \cup {Len(calls) + 1}
               /\ calls'[Len(calls) + 1].event = last_event
<1>1. calls \in Seq(Transition) /\ Len(calls) \in Nat
  BY DEF TypeOK
<1>2. CASE calls' = calls
  BY <1>2
<1>3. CASE Added
  <2>1. PICK t \in Transition : t.event = last_event /\ calls' = Append(calls, t)
    BY <1>3 DEF Added
  <2>2. QED
    BY <1>1, <1>3, <2>1 DEF Added
<1>4. QED
  BY <1>2, <1>3 DEF Cost

\* What a flush repeats was owed.
LEMMA RepeatsGrow ==
  ASSUME TypeOK, phase = "running", NEW missed, Cost(missed)
  PROVE  /\ Cardinality(Repeats') \in Nat
         /\ Cardinality(Repeats') <= Cardinality(Repeats) + (IF OwesRepeat THEN 1 ELSE 0)
<1> DEFINE n == Len(calls) + 1
<1>1. IsFiniteSet(Repeats) /\ Cardinality(Repeats) \in Nat
  BY GhostsFinite
<1>2. Len(calls) \in Nat /\ DOMAIN calls = 1..Len(calls)
  BY DEF TypeOK
<1>3. \A j \in Repeats' : j \in Repeats \/ (OwesRepeat /\ j = n)
  <2> SUFFICES ASSUME NEW j \in DOMAIN calls', NEW i \in 1..(j - 1),
                      calls'[i].event = calls'[j].event
               PROVE  j \in Repeats \/ (OwesRepeat /\ j = n)
    BY DEF Repeats
  <2>1. CASE j \in DOMAIN calls
    <3>1. i \in DOMAIN calls
      BY <1>2, <2>1
    <3>2. calls[i].event = calls[j].event
      BY <2>1, <3>1, CostCalls
    <3>3. QED
      BY <2>1, <3>2 DEF Repeats
  <2>2. CASE j \notin DOMAIN calls
    <3>1. Pending /\ j = n /\ calls'[n].event = last_event
      BY <2>2, CostCalls
    <3>2. i \in DOMAIN calls
      BY <1>2, <3>1
    <3>3. calls[i].event = last_event
      BY <3>1, <3>2, CostCalls
    <3>4. QED
      BY <3>1, <3>2, <3>3 DEF OwesRepeat
  <2>3. QED
    BY <2>1, <2>2
<1>4. CASE OwesRepeat
  <2>1. Repeats' \subseteq Repeats \cup {n}
    BY <1>3
  <2>2. QED
    BY <1>1, <1>4, <2>1, OneMore
<1>5. CASE ~OwesRepeat
  <2>1. Repeats' \subseteq Repeats
    BY <1>3, <1>5
  <2>2. QED
    BY <1>1, <1>5, <2>1, NoMore
<1>6. QED
  BY <1>4, <1>5

\* The pending event is settled: a pause or the shutdown flushed it.
LEMMA SettledFaults ==
  ASSUME TypeOK, TypeOK', Faults, phase = "running", Cost(0),
         ~Pending' \/ phase' = "stopped", phase' # "starting",
         UNCHANGED <<sent, misfires>>
  PROVE  Faults'
<1>1. \A i \in Lost' : i \in Lost \/ (Pending /\ calls' = calls /\ i = last_event)
  <2> SUFFICES ASSUME NEW i \in Lost', i \notin Lost
               PROVE  Pending /\ calls' = calls /\ i = last_event
    OBVIOUS
  <2>1. \A k \in DOMAIN calls : calls[k].event # i
    BY CostCalls DEF Lost
  <2>2. Pending /\ i = last_event
    BY <2>1 DEF Lost
  <2>3. calls' = calls
    BY <2>2, CostCalls DEF Lost
  <2>4. QED
    BY <2>2, <2>3
<1>2. OneLossPerFault'
  BY <1>1, LossesAreFaults DEF Faults
<1>3. RepeatsCounted'
  <2>1. ~OwesRepeat'
    BY DEF OwesRepeat
  <2>2. QED
    BY <2>1, RepeatsGrow, GhostsFinite DEF Faults, RepeatsCounted, TypeOK
<1>4. QED
  BY <1>2, <1>3 DEF Faults, StartIsClean

\* The pending event is still pending after nothing was recorded: if it was
\* flushed, a misfire is counted.
LEMMA StillPendingFaults ==
  ASSUME TypeOK, TypeOK', Faults, phase = "running", NEW missed \in {0, 1}, Cost(missed),
         NEW h \in How, h # "recorded", sent' \in {sent, Append(sent, h)},
         UNCHANGED <<phase, last_state, last_event>>,
         misfires' = misfires + 1 \/ (calls' = calls /\ misfires' = misfires)
  PROVE  Faults'
<1>1. sent \in Seq(How)
  BY DEF TypeOK, How
<1>2. \A i \in Lost' : i \in Lost
  <2> SUFFICES ASSUME NEW i \in Lost' PROVE i \in Lost
    OBVIOUS
  <2>1. i \in DOMAIN sent /\ sent[i] = "recorded"
    BY <1>1 DEF Lost
  <2>2. \A k \in DOMAIN calls : calls[k].event # i
    BY CostCalls DEF Lost
  <2>3. QED
    BY <2>1, <2>2 DEF Lost, Pending
<1>3. OneLossPerFault'
  BY <1>2, LossesAreFaults DEF Faults
<1>4. RepeatsCounted'
  <2>1. misfires \in Nat /\ Cardinality(Repeats) \in Nat
    BY GhostsFinite DEF TypeOK
  <2>2. CASE misfires' = misfires + 1
    BY <2>1, <2>2, RepeatsGrow DEF Faults, RepeatsCounted
  <2>3. CASE calls' = calls /\ misfires' = misfires
    BY <2>3 DEF Faults, RepeatsCounted, Repeats, OwesRepeat, Pending
  <2>4. QED
    BY <2>2, <2>3
<1>5. QED
  BY <1>3, <1>4 DEF Faults, StartIsClean

\* The next event takes the pending one's place.  Without a screen it will
\* never have a transition, and its missing screen is a fault.
LEMMA NextEventFaults ==
  ASSUME IInv, IInv', Faults, phase = "running", NEW screen \in Observation,
         Cost(Missed(screen)), Recorded(screen), UNCHANGED <<phase, misfires>>
  PROVE  Faults'
<1> USE NoneAssumption
<1> DEFINE n == Len(sent) + 1
<1>1. TypeOK /\ TypeOK' /\ sent \in Seq(How) /\ Len(sent) \in Nat
  BY DEF IInv, TypeOK, How
<1>2. /\ sent' = Append(sent, "recorded") /\ last_event' = n /\ last_state' = screen
      /\ Missed(screen) \in {0, 1} /\ (Missed(screen) = 1 <=> screen = None)
  BY DEF Recorded, Sends, Now, Missed
<1>3. \A i \in Lost' : \/ i \in Lost
                       \/ Pending /\ calls' = calls /\ i = last_event
                       \/ Missed(screen) = 1 /\ i = n
  <2> SUFFICES ASSUME NEW i \in Lost', i \notin Lost, ~(Missed(screen) = 1 /\ i = n)
               PROVE  Pending /\ calls' = calls /\ i = last_event
    OBVIOUS
  <2>1. i # n
    BY <1>1, <1>2 DEF Lost, Pending
  <2>2. i \in DOMAIN sent /\ sent[i] = "recorded"
    BY <1>1, <1>2, <2>1 DEF Lost
  <2>3. \A k \in DOMAIN calls : calls[k].event # i
    BY <1>1, CostCalls DEF Lost
  <2>4. Pending /\ i = last_event
    BY <2>2, <2>3 DEF Lost
  <2>5. calls' = calls
    BY <1>1, <2>4, CostCalls DEF Lost
  <2>6. QED
    BY <2>4, <2>5
<1>4. OneLossPerFault'
  BY <1>1, <1>2, <1>3, LossesAreFaults DEF Faults
<1>5. ~OwesRepeat'
  <2>1. \A k \in DOMAIN calls' : calls'[k].event \in DOMAIN sent
    <3>1. \A k \in DOMAIN calls : calls[k].event \in DOMAIN sent
      BY DEF IInv, SoundCalls, Sound, LastExecuted
    <3>2. Pending => last_event \in DOMAIN sent
      BY DEF IInv, PendingIsLast, LastExecuted
    <3>3. QED
      BY <1>1, <3>1, <3>2, CostCalls
  <2>2. QED
    BY <1>1, <1>2, <2>1 DEF OwesRepeat
<1>6. RepeatsCounted'
  BY <1>1, <1>5, RepeatsGrow, GhostsFinite DEF Faults, RepeatsCounted, TypeOK
<1>7. QED
  BY <1>4, <1>6 DEF Faults, StartIsClean

LEMMA ExecuteRecordedFaults ==
  ASSUME IInv, IInv', Faults, ExecuteRecorded
  PROVE  Faults'
<1>1. PICK screen \in Observation :
        /\ IF last_event = None /\ last_state = None
           THEN SyncSegmentStart(screen)
           ELSE FlushPending(screen)
        /\ \/ (NoInputEvent \/ SendFails) /\ misfires' = misfires + 1
           \/ Recorded(screen) /\ UNCHANGED misfires
  BY DEF ExecuteRecorded
<1>2. TypeOK /\ TypeOK' /\ phase = "running" /\ UNCHANGED phase
  BY DEF IInv, ExecuteRecorded, Take
<1>3. Cost(Missed(screen)) /\ Missed(screen) \in {0, 1}
  BY <1>1, <1>2, SegmentStartCost, FlushPendingCost DEF Pending, Missed
<1>4. CASE (NoInputEvent \/ SendFails) /\ misfires' = misfires + 1
  <2>1. sent' \in {sent, Append(sent, "failed")} /\ UNCHANGED <<last_state, last_event>>
    BY <1>4 DEF NoInputEvent, SendFails, workerVars
  <2>2. "failed" \in How /\ "failed" # "recorded"
    BY DEF How
  <2>3. QED
    BY <1>2, <1>3, <1>4, <2>1, <2>2, StillPendingFaults
<1>5. CASE Recorded(screen) /\ UNCHANGED misfires
  BY <1>2, <1>3, <1>5, NextEventFaults
<1>6. QED
  BY <1>1, <1>4, <1>5

LEMMA ExecuteUnrecordedFaults ==
  ASSUME IInv, IInv', Faults, ExecuteUnrecorded
  PROVE  Faults'
<1>1. /\ TypeOK /\ TypeOK' /\ phase = "running" /\ is_paused
      /\ UNCHANGED <<phase, misfires, calls, nodes, faults>>
  BY DEF IInv, ExecuteUnrecorded, Take, utgVars
<1>2. ~Pending /\ UNCHANGED <<last_state, last_event>>
  BY <1>1 DEF IInv, PauseIsClean, Pending, ExecuteUnrecorded, NoInputEvent, SendFails, workerVars
<1>3. PICK h \in {"failed", "unrecorded"} : sent' \in {sent, Append(sent, h)}
  BY DEF ExecuteUnrecorded, NoInputEvent, SendFails, Sends
<1>4. Cost(0)
  BY <1>1, <1>2 DEF Cost, TypeOK
<1>5. h \in How /\ h # "recorded"
  BY DEF How
<1>6. QED
  BY <1>1, <1>2, <1>3, <1>4, <1>5, StillPendingFaults

LEMMA HandlePauseFaults ==
  ASSUME IInv, IInv', Faults, HandlePause
  PROVE  Faults'
<1>1. /\ TypeOK /\ TypeOK' /\ phase = "running" /\ phase' # "starting"
      /\ UNCHANGED <<sent, misfires>>
  BY DEF IInv, HandlePause, Take, deviceVars
<1>2. ~Pending'
  BY DEF HandlePause, IInv, PauseIsClean, Pending, workerVars
<1>3. Cost(0)
  <2>1. CASE is_paused
    BY <2>1 DEF HandlePause, utgVars, IInv, PauseIsClean, Pending, Cost, TypeOK
  <2>2. CASE ~is_paused
    BY <1>1, <2>2, FlushAtBoundaryCost DEF HandlePause
  <2>3. QED
    BY <2>1, <2>2
<1>4. QED
  BY <1>1, <1>2, <1>3, SettledFaults

LEMMA HandleShutdownFaults ==
  ASSUME IInv, IInv', Faults, HandleShutdown
  PROVE  Faults'
<1>1. /\ TypeOK /\ TypeOK' /\ phase = "running" /\ phase' = "stopped" /\ Cost(0)
      /\ UNCHANGED <<sent, misfires>>
  BY FlushAtBoundaryCost DEF IInv, HandleShutdown, Take, deviceVars
<1>2. QED
  BY <1>1, SettledFaults

\* Starting, resuming and what happens at the queues change no recording.
LEMMA IdleFaults ==
  ASSUME Faults, UNCHANGED <<last_state, last_event, sent, calls, faults, misfires>>,
         phase' = phase \/ (phase = "starting" /\ phase' # "starting")
  PROVE  Faults'
<1>1. Pending' = Pending /\ Repeats' = Repeats
  BY DEF Pending, Repeats
<1>2. OneLossPerFault'
  <2>1. Lost' = Lost
    BY DEF Faults, StartIsClean, Lost, Pending
  <2>2. QED
    BY <2>1 DEF Faults, OneLossPerFault
<1>3. OwesRepeat' = OwesRepeat
  BY <1>1 DEF Faults, StartIsClean, OwesRepeat
<1>4. RepeatsCounted'
  BY <1>1, <1>3 DEF Faults, RepeatsCounted
<1>5. StartIsClean'
  BY <1>1 DEF Faults, StartIsClean
<1>6. QED
  BY <1>2, <1>4, <1>5 DEF Faults

LEMMA WorkerFaults ==
  ASSUME IInv, IInv', Faults, Worker
  PROVE  Faults'
<1>1. CASE InitDeviceAndUtg
  BY <1>1, IdleFaults DEF InitDeviceAndUtg, workerVars, deviceVars, utgVars
<1>2. CASE HandleResume
  BY <1>2, IdleFaults DEF HandleResume, deviceVars, utgVars
<1>3. QED
  BY <1>1, <1>2, ExecuteRecordedFaults, ExecuteUnrecordedFaults, HandlePauseFaults,
     HandleShutdownFaults DEF Worker

LEMMA InitFaults == Init => Faults
<1> SUFFICES ASSUME Init PROVE Faults
  OBVIOUS
<1>1. ~Pending /\ Lost = {} /\ Repeats = {}
  BY DEF Init, Pending, Lost, Repeats
<1>2. Cardinality({}) = 0
  BY FS_EmptySet
<1>3. OneLossPerFault /\ RepeatsCounted
  BY <1>1, <1>2 DEF Init, OneLossPerFault, RepeatsCounted, OwesRepeat
<1>4. QED
  BY <1>1, <1>3 DEF Faults, StartIsClean

LEMMA NextFaults == IInv /\ Faults /\ [Next]_vars => Faults'
<1> SUFFICES ASSUME IInv, Faults, [Next]_vars
             PROVE  Faults'
  OBVIOUS
<1>1. IInv'
  BY NextIInv
<1>2. CASE Worker
  BY <1>1, <1>2, WorkerFaults
<1>3. CASE UNCHANGED vars \/ (\E command \in Command : Put(command)) \/ RequestShutdown
  <2>1. UNCHANGED <<last_state, last_event, sent, calls, faults, misfires, phase>>
    BY <1>3 DEF vars, Put, RequestShutdown, workerVars, deviceVars, utgVars
  <2>2. QED
    BY <2>1, IdleFaults
<1>4. QED
  BY <1>2, <1>3 DEF Next

\* Whatever is queued behind a fault, it costs one event; and an event is
\* recorded a second time only for an action that could not be executed.
THEOREM DamageIsLocal == Spec => []FaultsAreLocal
<1>1. IInv /\ Faults => FaultsAreLocal
  <2> SUFFICES ASSUME IInv, Faults PROVE OneRepeatPerMisfire
    BY DEF Faults, FaultsAreLocal
  <2>1. Cardinality(Repeats) \in Nat /\ misfires \in Nat
    BY GhostsFinite DEF IInv, TypeOK
  <2>2. QED
    BY <2>1 DEF Faults, RepeatsCounted, OneRepeatPerMisfire
<1>2. QED
  BY <1>1, InitFaults, NextFaults, SpecIInv, PTL DEF Spec

-----------------------------------------------------------------------------
(***************************************************************************)
(* The thread inside its session.  What the service does to the thread's   *)
(* variables happens at the two queues.                                    *)
(***************************************************************************)
AtQueues ==
    \/ UNCHANGED vars
    \/ TakeAnswer
    \/ (\E command \in Command : Put(command)) \/ RequestShutdown

LEMMA SessionSteps ==
  ASSUME [SessionNext]_allVars
  PROVE  AtQueues \/ (Worker /\ UNCHANGED sessionVars)
<1>1. CASE UNCHANGED allVars
  BY <1>1 DEF allVars, AtQueues
<1>2. CASE Client
  <2>1. CASE RecordAction \/ PauseRecording \/ ResumeRecording
    BY <2>1 DEF RecordAction, PauseRecording, ResumeRecording, AtQueues, Command
  <2>2. CASE UserStop \/ RuntimeExpiryStop \/ Disconnect
    BY <2>2 DEF UserStop, RuntimeExpiryStop, StopRecording, StopSession, Disconnect, AtQueues
  <2>3. QED
    BY <1>2, <2>1, <2>2 DEF Client
<1>3. CASE Monitor
  BY <1>3 DEF Monitor, ForwardFeedback, ForwardReady, ForwardState, SetState, MetadataFailed,
     MetadataEnsured, RuntimeGone, BeginAbort, SetReady, AbortJoined, AbortPop, AtQueues
<1>4. CASE \/ DisconnectStop \/ FinishStop \/ RuntimeExpires \/ CleanupDeadSession
           \/ EnsureReturns
  BY <1>4 DEF DisconnectStop, StopSession, FinishStop, RuntimeExpires, CleanupDeadSession,
     EnsureReturns, AtQueues
<1>5. QED
  BY <1>1, <1>2, <1>3, <1>4 DEF SessionNext

LEMMA TakeAnswerIInv ==
  ASSUME IInv, TakeAnswer
  PROVE  IInv'
<1>1. /\ UNCHANGED <<events, phase, workerVars, deviceVars, utgVars, puts>>
      /\ responses' = Tail(responses) /\ responses # <<>>
  BY DEF TakeAnswer
<1>2. responses' \in Seq(Response)
  BY <1>1 DEF IInv, TypeOK
<1>3. FlushEffect
  BY <1>1, NoFlushEffect DEF utgVars, IInv, TypeOK
<1>4. TypeOK'
  BY <1>1, <1>2 DEF IInv, TypeOK, workerVars, deviceVars, utgVars
<1>5. PauseIsClean'
  BY <1>1 DEF IInv, PauseIsClean, workerVars
<1>6. QED
  BY <1>1, <1>3, <1>4, <1>5, KeepsPending DEF IInv, workerVars, deviceVars

\* The thread's invariants together: attribution, and the price of a failure.
ThreadSound == IInv /\ Faults

LEMMA ThreadInSession ==
  ASSUME ThreadSound, [SessionNext]_allVars
  PROVE  ThreadSound'
<1>1. CASE AtQueues
  <2>1. IInv'
    BY <1>1, TakeAnswerIInv, NextIInv, PutIInv DEF AtQueues, ThreadSound
  <2>2. UNCHANGED <<last_state, last_event, sent, calls, faults, misfires, phase>>
    BY <1>1 DEF AtQueues, vars, TakeAnswer, Put, RequestShutdown, workerVars, deviceVars, utgVars
  <2>3. QED
    BY <2>1, <2>2, IdleFaults DEF ThreadSound
<1>2. CASE Worker
  <2>1. IInv'
    BY <1>2, NextIInv DEF Next, ThreadSound
  <2>2. QED
    BY <1>2, <2>1, WorkerFaults DEF ThreadSound
<1>3. QED
  BY <1>1, <1>2, SessionSteps

\* The worker's inductive invariant and its account of faults hold in the session.
THEOREM ThreadStaysSound == SessionSpec => []ThreadSound
<1>1. SessionInit => ThreadSound
  BY InitIInv, InitFaults DEF SessionInit, ThreadSound
<1>2. ThreadSound /\ [SessionNext]_allVars => ThreadSound'
  BY ThreadInSession
<1>3. QED
  BY <1>1, <1>2, PTL DEF SessionSpec

\* Whatever the service, the client and the monitor do around the thread, and
\* in whatever order, its transitions stay sound, its screens persisted and the
\* damage of a failure local.
THEOREM SessionKeepsRecordingSound ==
  SessionSpec => [](NoTransitionSpansAnEvent /\ SourceIsPersisted /\ FaultsAreLocal)
<1>1. ThreadSound => NoTransitionSpansAnEvent
  BY DEF ThreadSound, IInv, SoundCalls, Sound, LastExecuted, NoTransitionSpansAnEvent
<1>2. ThreadSound => SourceIsPersisted
  BY DEF ThreadSound, IInv
<1>3. ThreadSound => FaultsAreLocal
  <2> SUFFICES ASSUME IInv, Faults PROVE OneRepeatPerMisfire
    BY DEF ThreadSound, Faults, FaultsAreLocal
  <2>1. Cardinality(Repeats) \in Nat /\ misfires \in Nat
    BY GhostsFinite DEF IInv, TypeOK
  <2>2. QED
    BY <2>1 DEF Faults, RepeatsCounted, OneRepeatPerMisfire
<1>4. QED
  BY <1>1, <1>2, <1>3, ThreadStaysSound, PTL

(***************************************************************************)
(* The types of the session.                                               *)
(***************************************************************************)
LEMMA InitSessionType == SessionInit => SessionTypeOK
  BY DEF SessionInit, SessionTypeOK, NewTask, RuntimeState

LEMMA ClientType ==
  ASSUME SessionTypeOK, Client
  PROVE  SessionTypeOK'
<1> USE DEF SessionTypeOK, RuntimeState, StopReason
<1>1. CASE RecordAction
  BY <1>1 DEF RecordAction, sessionVars, serviceVars, controlVars, monitorVars
<1>2. CASE PauseRecording \/ ResumeRecording
  BY <1>2 DEF PauseRecording, ResumeRecording, controlVars, monitorVars
<1>3. CASE UserStop \/ RuntimeExpiryStop
  BY <1>3 DEF UserStop, RuntimeExpiryStop, StopRecording, StopSession, SetRuntime
<1>4. CASE Disconnect
  <2>1. connected' \in BOOLEAN /\ runtime' \in RuntimeState
    BY <1>4 DEF Disconnect
  <2>2. UNCHANGED <<recording_mode, registered, task, stop, monitor, answer, ensure, row>>
    BY <1>4 DEF Disconnect, monitorVars
  <2>3. QED
    BY <2>1, <2>2
<1>5. QED
  BY <1>1, <1>2, <1>3, <1>4 DEF Client

LEMMA MonitorType ==
  ASSUME TypeOK, SessionTypeOK, Monitor
  PROVE  SessionTypeOK'
<1> USE DEF SessionTypeOK, RuntimeState
<1>1. CASE ForwardFeedback
  BY <1>1 DEF ForwardFeedback, sessionVars, serviceVars, controlVars, monitorVars
<1>2. CASE ForwardReady
  BY <1>2 DEF ForwardReady, serviceVars, controlVars
<1>3. CASE ForwardState
  BY <1>3 DEF ForwardState, serviceVars, controlVars
<1>4. CASE SetState
  BY <1>4 DEF SetState, SetRuntime, controlVars
<1>5. CASE MetadataFailed \/ RuntimeGone
  BY <1>5 DEF MetadataFailed, RuntimeGone, BeginAbort, serviceVars, controlVars
<1>6. CASE MetadataEnsured
  BY <1>6 DEF MetadataEnsured, serviceVars, controlVars
<1>7. CASE SetReady
  BY <1>7 DEF SetReady, controlVars
<1>8. CASE AbortJoined
  BY <1>8 DEF AbortJoined
<1>9. CASE AbortPop
  <2>1. registered' \in BOOLEAN /\ monitor' = "off"
    BY <1>9 DEF AbortPop
  <2>2. UNCHANGED <<recording_mode, runtime, task, stop, connected, answer, ensure, row>>
    BY <1>9 DEF AbortPop
  <2>3. QED
    BY <2>1, <2>2
<1>10. QED
  BY <1>1, <1>2, <1>3, <1>4, <1>5, <1>6, <1>7, <1>8, <1>9 DEF Monitor

LEMMA NextSessionType ==
  ASSUME TypeOK, SessionTypeOK, [SessionNext]_allVars
  PROVE  SessionTypeOK'
<1> USE DEF SessionTypeOK, RuntimeState, StopReason
<1>1. CASE UNCHANGED sessionVars
  BY <1>1 DEF sessionVars, serviceVars, controlVars, monitorVars
<1>2. CASE DisconnectStop
  BY <1>2 DEF DisconnectStop, StopSession
<1>3. CASE FinishStop
  BY <1>3 DEF FinishStop, monitorVars
<1>4. CASE RuntimeExpires
  BY <1>4 DEF RuntimeExpires, controlVars, monitorVars
<1>5. CASE CleanupDeadSession
  <2>1. registered' \in BOOLEAN
    BY <1>5 DEF CleanupDeadSession
  <2>2. UNCHANGED <<recording_mode, runtime, task, stop, connected, monitor, answer, ensure, row>>
    BY <1>5 DEF CleanupDeadSession, monitorVars
  <2>3. QED
    BY <2>1, <2>2
<1>6. CASE EnsureReturns
  <2>1. ensure' \in {"done", "failed"} /\ row' \in BOOLEAN
    BY <1>6 DEF EnsureReturns
  <2>2. UNCHANGED <<recording_mode, registered, runtime, task, stop, connected, monitor, answer>>
    BY <1>6 DEF EnsureReturns, serviceVars, controlVars
  <2>3. QED
    BY <2>1, <2>2
<1>7. QED
  BY <1>1, <1>2, <1>3, <1>4, <1>5, <1>6, ClientType, MonitorType DEF SessionNext, allVars

\* The thread's queues and state and the session's keep their types, together.
THEOREM SessionTypesCorrect == SessionSpec => [](TypeOK /\ SessionTypeOK)
<1>1. ThreadSound => TypeOK
  BY DEF ThreadSound, IInv
<1>2. TypeOK /\ SessionTypeOK /\ [SessionNext]_allVars => SessionTypeOK'
  BY NextSessionType
<1>3. QED
  BY <1>1, <1>2, InitSessionType, ThreadStaysSound, PTL DEF SessionSpec

(***************************************************************************)
(* A completed task.                                                       *)
(***************************************************************************)
CompletedIsStopped ==
    task = "completed" => ~registered /\ (phase = "stopped" \/ stop = "timed_out")

LEMMA StoppedStays ==
  ASSUME phase = "stopped", [SessionNext]_allVars
  PROVE  phase' = "stopped"
<1>1. CASE AtQueues
  BY <1>1 DEF AtQueues, vars, TakeAnswer, Put, RequestShutdown
<1>2. CASE Worker
  BY <1>2 DEF Worker, InitDeviceAndUtg, ExecuteRecorded, ExecuteUnrecorded, HandlePause,
     HandleResume, HandleShutdown, Take
<1>3. QED
  BY <1>1, <1>2, SessionSteps

LEMMA NextCompleted ==
  ASSUME SessionTypeOK, CompletedIsStopped, [SessionNext]_allVars
  PROVE  CompletedIsStopped'
<1> SUFFICES ASSUME task' = "completed"
             PROVE  ~registered' /\ (phase' = "stopped" \/ stop' = "timed_out")
  BY DEF CompletedIsStopped
<1>1. CASE FinishStop
  <2>1. ~registered' /\ phase' = phase
    BY <1>1 DEF FinishStop, vars, SessionTypeOK
  <2>2. stop' = IF phase = "stopped" THEN "done" ELSE "timed_out"
    BY <1>1 DEF FinishStop
  <2>3. QED
    BY <2>1, <2>2
<1>2. CASE AbortJoined \/ AbortPop
  BY <1>2, StoppedStays DEF AbortJoined, AbortPop, CompletedIsStopped, NewTask
<1>3. CASE UNCHANGED <<registered, task, stop>>
  BY <1>3, StoppedStays DEF CompletedIsStopped
<1>4. CASE Client
  <2>1. CASE UserStop \/ RuntimeExpiryStop
    BY <2>1 DEF UserStop, RuntimeExpiryStop, StopRecording, StopSession, CompletedIsStopped
  <2>2. CASE RecordAction \/ PauseRecording \/ ResumeRecording \/ Disconnect
    BY <1>3, <2>2 DEF RecordAction, PauseRecording, ResumeRecording, Disconnect, sessionVars,
       serviceVars, controlVars
  <2>3. QED
    BY <1>4, <2>1, <2>2 DEF Client
<1>5. CASE DisconnectStop \/ CleanupDeadSession
  BY <1>5, StoppedStays DEF DisconnectStop, StopSession, CleanupDeadSession, CompletedIsStopped
<1>6. CASE Monitor
  BY <1>2, <1>3, <1>6 DEF Monitor, ForwardFeedback, ForwardReady, ForwardState, SetState,
     MetadataFailed, MetadataEnsured, RuntimeGone, BeginAbort, SetReady, sessionVars,
     serviceVars, controlVars
<1>7. CASE RuntimeExpires \/ EnsureReturns
  BY <1>3, <1>7 DEF RuntimeExpires, EnsureReturns, serviceVars, controlVars
<1>8. QED
  BY <1>1, <1>3, <1>4, <1>5, <1>6, <1>7 DEF SessionNext, allVars, sessionVars, serviceVars,
     controlVars

\* What OneLossPerFault means where there was no fault and nothing is pending.
LEMMA NothingLost ==
  ASSUME ThreadSound, phase = "stopped", faults = 0, NEW i \in DOMAIN sent,
         sent[i] = "recorded"
  PROVE  \E k \in DOMAIN calls : calls[k].event = i
<1>1. IsFiniteSet(Lost) /\ Cardinality(Lost) \in Nat
  BY GhostsFinite DEF ThreadSound, IInv
<1>2. Cardinality(Lost) = 0
  BY <1>1 DEF ThreadSound, Faults, OneLossPerFault
<1>3. Lost = {}
  BY <1>1, <1>2, FS_EmptySet
<1>4. QED
  BY <1>3 DEF Lost

\* A task is completed only when its thread has stopped, or its join has timed
\* out; then every acknowledged event is in the UTG unless something failed.
THEOREM CompletedTasksAreWhole == SessionSpec => []CompletedIsWhole
<1>1. SessionInit => CompletedIsStopped
  BY DEF SessionInit, CompletedIsStopped, NewTask
<1>2. ThreadSound /\ CompletedIsStopped => CompletedIsWhole
  BY NothingLost DEF CompletedIsStopped, CompletedIsWhole
<1>3. SessionTypeOK /\ CompletedIsStopped /\ [SessionNext]_allVars => CompletedIsStopped'
  BY NextCompleted
<1>4. QED
  BY <1>1, <1>2, <1>3, SessionTypesCorrect, ThreadStaysSound, PTL DEF SessionSpec

(***************************************************************************)
(* The state shown.  A pause travels from the client to event_queue, from  *)
(* the thread to response_queue and from the monitor to the runtime        *)
(* session; the invariant says of each stretch what the last answer on it  *)
(* tells, provided nothing of the kind is behind it.                       *)
(***************************************************************************)
StateAnswer == {"recording_ready", "recording_paused", "recording_resumed"}
StateRequest == {"pause_recording", "resume_recording"}

Without(kind, queue) == \A i \in DOMAIN queue : queue[i] \notin kind
LastAnswerTells(queue, paused) ==
    \A i \in DOMAIN queue :
        /\ queue[i] \in StateAnswer
        /\ \A j \in DOMAIN queue : j > i => queue[j] \notin StateAnswer
        => (queue[i] = "recording_paused" <=> paused)

StartsUnpaused == phase = "starting" => ~is_paused
AnswersTell == LastAnswerTells(responses, is_paused)
ForwardedTells ==
    Without(StateAnswer, responses) /\ monitor = "forwarding"
        => (answer = "recording_paused" <=> is_paused)
ReadyTells ==
    Without(StateAnswer, responses) /\ monitor \in {"ensuring", "readying"} => ~is_paused
ShownTells ==
    /\ Without(StateAnswer, responses) /\ Without(StateRequest, events)
    /\ monitor = "idle" /\ phase = "running" /\ Alive
    => runtime = IF is_paused THEN "paused" ELSE "recording"

Pipeline == StartsUnpaused /\ AnswersTell /\ ForwardedTells /\ ReadyTells /\ ShownTells

\* An answer about the state supersedes the answers before it; others do not.
LEMMA AppendStateAnswer ==
  ASSUME NEW s \in Seq(Response), NEW a \in StateAnswer, NEW p \in BOOLEAN,
         a = "recording_paused" <=> p
  PROVE  LastAnswerTells(Append(s, a), p) /\ ~Without(StateAnswer, Append(s, a))
<1>1. Len(s) + 1 \in DOMAIN Append(s, a) /\ Append(s, a)[Len(s) + 1] = a
  OBVIOUS
<1>2. ASSUME NEW i \in DOMAIN Append(s, a),
             \A j \in DOMAIN Append(s, a) : j > i => Append(s, a)[j] \notin StateAnswer
      PROVE  Append(s, a)[i] = a
  <2>1. ~(Len(s) + 1 > i)
    BY <1>1, <1>2
  <2>2. i = Len(s) + 1
    BY <2>1
  <2>3. QED
    BY <1>1, <2>2
<1>3. QED
  BY <1>1, <1>2 DEF LastAnswerTells, Without

LEMMA AppendOtherAnswer ==
  ASSUME NEW s \in Seq(Response), NEW a, a \notin StateAnswer, NEW p \in BOOLEAN,
         LastAnswerTells(s, p)
  PROVE  /\ LastAnswerTells(Append(s, a), p)
         /\ Without(StateAnswer, Append(s, a)) => Without(StateAnswer, s)
<1>1. \A i \in DOMAIN s : i \in DOMAIN Append(s, a) /\ Append(s, a)[i] = s[i]
  OBVIOUS
<1>2. ASSUME NEW i \in DOMAIN Append(s, a), Append(s, a)[i] \in StateAnswer
      PROVE  i \in DOMAIN s
  <2>1. i # Len(s) + 1
    BY <1>2
  <2>2. QED
    BY <2>1
<1>3. QED
  BY <1>1, <1>2 DEF LastAnswerTells, Without

LEMMA TakeFirstAnswer ==
  ASSUME NEW s \in Seq(Response), s # <<>>, NEW p \in BOOLEAN, LastAnswerTells(s, p)
  PROVE  /\ LastAnswerTells(Tail(s), p)
         /\ Without(StateAnswer, Tail(s)) /\ Head(s) \notin StateAnswer
              => Without(StateAnswer, s)
         /\ Without(StateAnswer, Tail(s)) /\ Head(s) \in StateAnswer
              => (Head(s) = "recording_paused" <=> p)
<1>1. \A i \in DOMAIN Tail(s) : i + 1 \in DOMAIN s /\ Tail(s)[i] = s[i + 1]
  OBVIOUS
<1>2. \A i \in DOMAIN s : i = 1 \/ (i - 1 \in DOMAIN Tail(s) /\ Tail(s)[i - 1] = s[i])
  OBVIOUS
<1>3. 1 \in DOMAIN s /\ Head(s) = s[1] /\ DOMAIN s \subseteq Nat /\ DOMAIN Tail(s) \subseteq Nat
  OBVIOUS
<1>4. LastAnswerTells(Tail(s), p)
  <2> SUFFICES ASSUME NEW i \in DOMAIN Tail(s), Tail(s)[i] \in StateAnswer,
                      \A j \in DOMAIN Tail(s) : j > i => Tail(s)[j] \notin StateAnswer
               PROVE  Tail(s)[i] = "recording_paused" <=> p
    BY DEF LastAnswerTells
  <2>1. i + 1 \in DOMAIN s /\ s[i + 1] \in StateAnswer /\ Tail(s)[i] = s[i + 1]
    BY <1>1
  <2>2. ASSUME NEW j \in DOMAIN s, j > i + 1
        PROVE  s[j] \notin StateAnswer
    <3>1. j \in Nat /\ i \in Nat /\ j # 1 /\ j - 1 > i
      BY <1>3, <2>2
    <3>2. QED
      BY <1>2, <3>1
  <2>3. QED
    BY <2>1, <2>2 DEF LastAnswerTells
<1>5. Without(StateAnswer, Tail(s)) => \A j \in DOMAIN s : j # 1 => s[j] \notin StateAnswer
  BY <1>2 DEF Without
<1>6. Without(StateAnswer, Tail(s)) /\ Head(s) \notin StateAnswer => Without(StateAnswer, s)
  BY <1>3, <1>5 DEF Without
<1>7. Without(StateAnswer, Tail(s)) /\ Head(s) \in StateAnswer
        => (Head(s) = "recording_paused" <=> p)
  BY <1>3, <1>5 DEF LastAnswerTells
<1>8. QED
  BY <1>4, <1>6, <1>7

\* The thread answers a pause, a resume and its start with its new state.
LEMMA TellingStep ==
  ASSUME TypeOK, TypeOK', NEW a \in StateAnswer, responses' = Append(responses, a),
         (a = "recording_paused") <=> is_paused', phase' # "starting"
  PROVE  Pipeline'
<1>1. responses \in Seq(Response) /\ is_paused' \in BOOLEAN
  BY DEF TypeOK
<1>2. LastAnswerTells(responses', is_paused') /\ ~Without(StateAnswer, responses')
  BY <1>1, AppendStateAnswer
<1>3. QED
  BY <1>2 DEF Pipeline, StartsUnpaused, AnswersTell, ForwardedTells, ReadyTells, ShownTells

\* What else it does leaves its state, and its answers about it, as they are.
LEMMA QuietStep ==
  ASSUME TypeOK, Pipeline, UNCHANGED <<is_paused, sessionVars>>,
         phase' # "starting",
         \/ responses' = responses
         \/ \E a \in Response \ StateAnswer : responses' = Append(responses, a),
         \/ phase' = "stopped"
         \/ phase = "running" /\ (Without(StateRequest, events') => Without(StateRequest, events))
  PROVE  Pipeline'
<1>1. /\ LastAnswerTells(responses', is_paused)
      /\ Without(StateAnswer, responses') => Without(StateAnswer, responses)
  <2>1. responses \in Seq(Response) /\ is_paused \in BOOLEAN /\ LastAnswerTells(responses, is_paused)
    BY DEF TypeOK, Pipeline, AnswersTell
  <2>2. CASE responses' = responses
    BY <2>1, <2>2
  <2>3. CASE \E a \in Response \ StateAnswer : responses' = Append(responses, a)
    BY <2>1, <2>3, AppendOtherAnswer
  <2>4. QED
    BY <2>2, <2>3
<1>2. UNCHANGED <<monitor, answer, runtime>>
  BY DEF sessionVars, serviceVars, monitorVars
<1>3. StartsUnpaused' /\ AnswersTell'
  BY <1>1 DEF StartsUnpaused, AnswersTell
<1>4. ForwardedTells' /\ ReadyTells'
  BY <1>1, <1>2 DEF Pipeline, ForwardedTells, ReadyTells
<1>5. ShownTells'
  BY <1>1, <1>2 DEF Pipeline, ShownTells, Alive
<1>6. QED
  BY <1>3, <1>4, <1>5 DEF Pipeline

LEMMA TakeAction ==
  ASSUME TypeOK, Take("action"), Without(StateRequest, events')
  PROVE  Without(StateRequest, events)
<1>1. events \in Seq(Command \cup {"shutdown"}) /\ events # <<>>
  BY DEF TypeOK, Take
<1>2. \A i \in DOMAIN events : i = 1 \/ (i - 1 \in DOMAIN Tail(events)
                                         /\ Tail(events)[i - 1] = events[i])
  BY <1>1
<1>3. events[1] = "action" /\ events' = Tail(events)
  BY <1>1 DEF Take
<1>4. QED
  BY <1>2, <1>3 DEF Without, StateRequest

LEMMA WorkerPipeline ==
  ASSUME TypeOK, TypeOK', Pipeline, Worker, UNCHANGED sessionVars
  PROVE  Pipeline'
<1> USE DEF StateAnswer
<1>1. CASE InitDeviceAndUtg
  <2>1. phase = "starting" /\ is_paused' = is_paused /\ ~is_paused
    BY <1>1 DEF InitDeviceAndUtg, workerVars, Pipeline, StartsUnpaused
  <2>2. CASE phase' = "running" /\ responses' = Append(responses, "recording_ready")
    BY <2>1, <2>2, TellingStep
  <2>3. CASE phase' = "stopped" /\ responses' = Append(responses, "error")
    <3>1. "error" \in Response \ StateAnswer
      BY DEF Response
    <3>2. QED
      BY <2>1, <2>3, <3>1, QuietStep
  <2>4. QED
    BY <1>1, <2>2, <2>3 DEF InitDeviceAndUtg
<1>2. CASE ExecuteRecorded \/ ExecuteUnrecorded
  <2>1. Take("action") /\ phase = "running" /\ phase' = phase /\ is_paused' = is_paused
    BY <1>2 DEF ExecuteRecorded, ExecuteUnrecorded, Take, NoInputEvent, SendFails, Recorded,
       Sends, workerVars
  <2>2. \/ responses' = responses
        \/ responses' = Append(responses, "event_error")
        \/ responses' = Append(responses, "event_completed")
    BY <1>2 DEF ExecuteRecorded, ExecuteUnrecorded, NoInputEvent, SendFails, Recorded, Sends
  <2>3. {"event_error", "event_completed"} \subseteq Response \ StateAnswer
    BY DEF Response
  <2>4. QED
    BY <2>1, <2>2, <2>3, TakeAction, QuietStep
<1>3. CASE HandlePause
  <2>1. is_paused' = TRUE /\ responses' = Append(responses, "recording_paused")
        /\ phase' # "starting"
    BY <1>3 DEF HandlePause, workerVars, Take
  <2>2. QED
    BY <2>1, TellingStep
<1>4. CASE HandleResume
  <2>1. is_paused' = FALSE /\ responses' = Append(responses, "recording_resumed")
        /\ phase' # "starting"
    BY <1>4 DEF HandleResume, Take
  <2>2. QED
    BY <2>1, TellingStep
<1>5. CASE HandleShutdown
  BY <1>5, QuietStep DEF HandleShutdown, workerVars
<1>6. QED
  BY <1>1, <1>2, <1>3, <1>4, <1>5 DEF Worker

LEMMA AppendCommand ==
  ASSUME TypeOK, NEW command, events' = Append(events, command)
  PROVE  /\ Without(StateRequest, events') => Without(StateRequest, events)
         /\ command \in StateRequest => ~Without(StateRequest, events')
<1>1. events \in Seq(Command \cup {"shutdown"})
  BY DEF TypeOK
<1>2. \A i \in DOMAIN events : i \in DOMAIN events' /\ events'[i] = events[i]
  BY <1>1
<1>3. Len(events) + 1 \in DOMAIN events' /\ events'[Len(events) + 1] = command
  BY <1>1
<1>4. QED
  BY <1>2, <1>3 DEF Without

\* A monitor that has ended, or is about to, shows nothing more.
LEMMA MonitorEnds ==
  ASSUME Pipeline, UNCHANGED <<responses, phase, is_paused>>,
         monitor' \in {"off", "aborting", "popping"}
  PROVE  Pipeline'
  BY DEF Pipeline, StartsUnpaused, AnswersTell, ForwardedTells, ReadyTells, ShownTells

\* A step of a client, a stop or the clock that leaves the monitor alone.
LEMMA MonitorWaits ==
  ASSUME Pipeline, UNCHANGED <<responses, phase, is_paused, monitor, answer>>,
         \/ runtime' = "released"
         \/ runtime' = runtime /\ (Without(StateRequest, events') => Without(StateRequest, events))
         \/ ~Without(StateRequest, events')
  PROVE  Pipeline'
<1>1. StartsUnpaused' /\ AnswersTell' /\ ForwardedTells' /\ ReadyTells'
  BY DEF Pipeline, StartsUnpaused, AnswersTell, ForwardedTells, ReadyTells
<1>2. ShownTells'
  BY DEF Pipeline, ShownTells, Alive
<1>3. QED
  BY <1>1, <1>2 DEF Pipeline

LEMMA ClientPipeline ==
  ASSUME TypeOK, Pipeline, Client
  PROVE  Pipeline'
<1>1. CASE RecordAction
  <2>1. /\ UNCHANGED <<responses, phase, is_paused, monitor, answer, runtime>>
        /\ events' = Append(events, "action")
    BY <1>1 DEF RecordAction, Put, workerVars, sessionVars, serviceVars, monitorVars
  <2>2. QED
    BY <2>1, AppendCommand, MonitorWaits
<1>2. CASE PauseRecording \/ ResumeRecording
  <2>1. /\ UNCHANGED <<responses, phase, is_paused, monitor, answer>>
        /\ \E command \in StateRequest : events' = Append(events, command)
    BY <1>2 DEF PauseRecording, ResumeRecording, Put, workerVars, monitorVars, StateRequest
  <2>2. QED
    BY <2>1, AppendCommand, MonitorWaits
<1>3. CASE UserStop \/ RuntimeExpiryStop
  BY <1>3, MonitorEnds DEF UserStop, RuntimeExpiryStop, StopRecording, StopSession,
     RequestShutdown, workerVars
<1>4. CASE Disconnect
  <2>1. UNCHANGED <<responses, phase, is_paused, monitor, answer>> /\ runtime' = "released"
    BY <1>4 DEF Disconnect, vars, workerVars, monitorVars
  <2>2. QED
    BY <2>1, MonitorWaits
<1>5. QED
  BY <1>1, <1>2, <1>3, <1>4 DEF Client

LEMMA TakePipeline ==
  ASSUME TypeOK, Pipeline, ForwardFeedback \/ ForwardReady \/ ForwardState
  PROVE  Pipeline'
<1>1. /\ responses \in Seq(Response) /\ responses # <<>> /\ is_paused \in BOOLEAN
      /\ LastAnswerTells(responses, is_paused)
      /\ responses' = Tail(responses) /\ monitor = "idle"
      /\ UNCHANGED <<events, phase, is_paused>>
  BY DEF ForwardFeedback, ForwardReady, ForwardState, TakeAnswer, TypeOK, Pipeline, AnswersTell,
     workerVars
<1>2. /\ LastAnswerTells(responses', is_paused)
      /\ Without(StateAnswer, responses') /\ Head(responses) \notin StateAnswer
           => Without(StateAnswer, responses)
      /\ Without(StateAnswer, responses') /\ Head(responses) \in StateAnswer
           => (Head(responses) = "recording_paused" <=> is_paused)
  BY <1>1, TakeFirstAnswer
<1>3. StartsUnpaused' /\ AnswersTell'
  BY <1>1, <1>2 DEF Pipeline, StartsUnpaused, AnswersTell
<1>4. ForwardedTells' /\ ReadyTells' /\ ShownTells'
  <2>1. CASE ForwardFeedback
    <3>1. Head(responses) \notin StateAnswer /\ UNCHANGED <<monitor, answer, runtime>>
      BY <2>1 DEF ForwardFeedback, StateAnswer, sessionVars, serviceVars, monitorVars
    <3>2. QED
      BY <1>1, <1>2, <3>1 DEF Pipeline, ForwardedTells, ReadyTells, ShownTells, Alive
  <2>2. CASE ForwardReady
    <3>1. Head(responses) = "recording_ready" /\ monitor' \in {"ensuring", "readying"}
      BY <2>2 DEF ForwardReady
    <3>2. Without(StateAnswer, responses') => ~is_paused
      BY <1>1, <1>2, <3>1 DEF StateAnswer
    <3>3. QED
      BY <1>1, <3>1, <3>2 DEF ForwardedTells, ReadyTells, ShownTells
  <2>3. CASE ForwardState
    <3>1. Head(responses) \in StateAnswer /\ monitor' = "forwarding" /\ answer' = Head(responses)
      BY <2>3 DEF ForwardState, StateAnswer
    <3>2. QED
      BY <1>1, <1>2, <3>1 DEF ForwardedTells, ReadyTells, ShownTells
  <2>4. QED
    BY <2>1, <2>2, <2>3
<1>5. QED
  BY <1>3, <1>4 DEF Pipeline

LEMMA SetPipeline ==
  ASSUME Pipeline, SetState \/ SetReady \/ MetadataEnsured
  PROVE  Pipeline'
<1>1. UNCHANGED <<events, responses, phase, is_paused>>
  BY DEF SetState, SetReady, MetadataEnsured, vars, workerVars
<1>2. StartsUnpaused' /\ AnswersTell'
  BY <1>1 DEF Pipeline, StartsUnpaused, AnswersTell
<1>3. ForwardedTells' /\ ReadyTells'
  BY <1>1 DEF SetState, SetReady, MetadataEnsured, Pipeline, ForwardedTells, ReadyTells
<1>4. ShownTells'
  <2>1. CASE SetState
    <3>1. /\ monitor = "forwarding"
          /\ Alive' => Alive
          /\ Alive => runtime' = IF answer = "recording_paused" THEN "paused" ELSE "recording"
      BY <2>1 DEF SetState, SetRuntime, Alive
    <3>2. QED
      BY <1>1, <3>1 DEF Pipeline, ForwardedTells, ShownTells
  <2>2. CASE SetReady
    BY <1>1, <2>2 DEF SetReady, Pipeline, ReadyTells, ShownTells
  <2>3. CASE MetadataEnsured
    BY <2>3 DEF MetadataEnsured, ShownTells
  <2>4. QED
    BY <2>1, <2>2, <2>3
<1>5. QED
  BY <1>2, <1>3, <1>4 DEF Pipeline

LEMMA MonitorPipeline ==
  ASSUME TypeOK, Pipeline, Monitor
  PROVE  Pipeline'
<1>1. CASE MetadataFailed \/ RuntimeGone
  BY <1>1, MonitorEnds DEF MetadataFailed, RuntimeGone, BeginAbort, RequestShutdown, workerVars
<1>2. CASE AbortJoined \/ AbortPop
  BY <1>2, MonitorEnds DEF AbortJoined, AbortPop, vars, workerVars
<1>3. QED
  BY <1>1, <1>2, TakePipeline, SetPipeline DEF Monitor

LEMMA NextPipeline ==
  ASSUME TypeOK, TypeOK', Pipeline, [SessionNext]_allVars
  PROVE  Pipeline'
<1>1. CASE DisconnectStop
  BY <1>1, MonitorEnds DEF DisconnectStop, StopSession, RequestShutdown, workerVars
<1>2. CASE \/ UNCHANGED allVars \/ FinishStop \/ RuntimeExpires \/ CleanupDeadSession
           \/ EnsureReturns
  <2>1. /\ UNCHANGED <<events, responses, phase, is_paused, monitor, answer>>
        /\ runtime' = "released" \/ runtime' = runtime
    BY <1>2 DEF allVars, sessionVars, serviceVars, FinishStop, RuntimeExpires,
       CleanupDeadSession, EnsureReturns, vars, workerVars, monitorVars
  <2>2. QED
    BY <2>1, MonitorWaits
<1>3. QED
  BY <1>1, <1>2, ClientPipeline, MonitorPipeline, WorkerPipeline DEF SessionNext

\* Once both queues are empty the state shown is the thread's, in whatever
\* order the client's requests and the thread's answers were stored.
THEOREM StateShownSettles == SessionSpec => []RuntimeSettles
<1>1. SessionInit => Pipeline
  BY DEF SessionInit, Init, Pipeline, StartsUnpaused, AnswersTell, LastAnswerTells,
     ForwardedTells, ReadyTells, ShownTells
<1>2. Pipeline => RuntimeSettles
  BY DEF Pipeline, ShownTells, RuntimeSettles, Without
<1>3. TypeOK /\ TypeOK' /\ Pipeline /\ [SessionNext]_allVars => Pipeline'
  BY NextPipeline
<1>4. QED
  BY <1>1, <1>2, <1>3, SessionTypesCorrect, PTL DEF SessionSpec
=============================================================================
