----------------------- MODULE CurrentRecording_proofs -----------------------
(***************************************************************************)
(* Proofs about CurrentRecording, for any set of recordings and any bounds *)
(* on the calls, the bootstraps and the expiries: that what the page shows *)
(* settles on the server's recording, that a text is saved where it was    *)
(* read, and that a control is disabled by someone who will enable it.     *)
(*                                                                         *)
(* The invariants speak of the calls under way as a set.  Each of them is  *)
(* about Settled states, in which no two switches have crossed: it says    *)
(* that a stale part of the page is owed by a call that will load it anew. *)
(***************************************************************************)
EXTENDS CurrentRecording, SequenceTheorems, TLAPS

Elements(s) == {s[i] : i \in DOMAIN s}
InFlight == Elements(calls)
At(c) == Head(c.todo)

(***************************************************************************)
(* What a call has still to ask.                                           *)
(***************************************************************************)
Booting == <<"boot">>
Creating == <<"create">>
Loading == <<"current", "recordings">>
LoadingList == <<"current", "recordings", "details">>
Listing == <<"recordings">>
ListingOn == <<"recordings", "details">>
Setting == <<"set", "info", "utg">>
SettingOn == <<"set", "info", "utg", "details">>
Reading == <<"info", "utg">>
ReadingOn == <<"info", "utg", "details">>
Drawing == <<"utg">>
DrawingOn == <<"utg", "details">>
Detailing == <<"details">>
Releasing == <<"release">>
Informing == <<"info">>
Saving == <<"save">>

Todos == {Booting, Creating, Loading, LoadingList, Listing, ListingOn, Setting, SettingOn,
          Reading, ReadingOn, Drawing, DrawingOn, Detailing, Releasing, Informing, Saving}

LEMMA TodoType == Todos \subseteq Seq(Step) /\ <<>> \notin Todos /\ <<>> \in Seq(Step)
<1>1. Todos \subseteq Seq(Step)
  BY DEF Todos, Step, Booting, Creating, Loading, LoadingList, Listing, ListingOn, Setting,
     SettingOn, Reading, ReadingOn, Drawing, DrawingOn, Detailing, Releasing, Informing, Saving
<1>2. <<>> \notin Todos
  BY DEF Todos, Booting, Creating, Loading, LoadingList, Listing, ListingOn, Setting,
     SettingOn, Reading, ReadingOn, Drawing, DrawingOn, Detailing, Releasing, Informing, Saving
<1>3. QED
  BY <1>1, <1>2

LEMMA TodoHead ==
  /\ Head(Booting) = "boot" /\ Head(Creating) = "create"
  /\ Head(Loading) = "current" /\ Head(LoadingList) = "current"
  /\ Head(Listing) = "recordings" /\ Head(ListingOn) = "recordings"
  /\ Head(Setting) = "set" /\ Head(SettingOn) = "set"
  /\ Head(Reading) = "info" /\ Head(ReadingOn) = "info" /\ Head(Informing) = "info"
  /\ Head(Drawing) = "utg" /\ Head(DrawingOn) = "utg"
  /\ Head(Detailing) = "details" /\ Head(Releasing) = "release" /\ Head(Saving) = "save"
  BY DEF Booting, Creating, Loading, LoadingList, Listing, ListingOn, Setting,
     SettingOn, Reading, ReadingOn, Drawing, DrawingOn, Detailing, Releasing, Informing, Saving

LEMMA TodoTail ==
  /\ Tail(Booting) = <<>> /\ Tail(Creating) = <<>>
  /\ Tail(Loading) = Listing /\ Tail(LoadingList) = ListingOn
  /\ Tail(Listing) = <<>> /\ Tail(ListingOn) = Detailing
  /\ Tail(Setting) = Reading /\ Tail(SettingOn) = ReadingOn
  /\ Tail(Reading) = Drawing /\ Tail(ReadingOn) = DrawingOn /\ Tail(Informing) = <<>>
  /\ Tail(Drawing) = <<>> /\ Tail(DrawingOn) = Detailing
  /\ Tail(Detailing) = <<>> /\ Tail(Releasing) = <<>> /\ Tail(Saving) = <<>>
  BY DEF Booting, Creating, Loading, LoadingList, Listing, ListingOn, Setting,
     SettingOn, Reading, ReadingOn, Drawing, DrawingOn, Detailing, Releasing, Informing, Saving

LEMMA JoinEqual ==
  ASSUME NEW S, NEW s \in Seq(S), NEW t \in Seq(S), NEW u \in Seq(S),
         Len(u) = Len(s) + Len(t), \A i \in 1..Len(s) : u[i] = s[i],
         \A i \in 1..Len(t) : u[Len(s) + i] = t[i]
  PROVE  s \o t = u
<1>1. /\ s \o t \in Seq(S) /\ Len(s \o t) = Len(s) + Len(t)
      /\ \A i \in 1..Len(s) + Len(t) :
            (s \o t)[i] = IF i <= Len(s) THEN s[i] ELSE t[i - Len(s)]
  BY ConcatProperties
<1>2. Len(s) \in Nat /\ Len(t) \in Nat
  OBVIOUS
<1>3. ASSUME NEW i \in 1..Len(s) + Len(t)
      PROVE  (s \o t)[i] = u[i]
  <2>1. CASE i <= Len(s)
    BY <1>1, <1>2, <2>1
  <2>2. CASE ~(i <= Len(s))
    <3>1. i - Len(s) \in 1..Len(t) /\ Len(s) + (i - Len(s)) = i
      BY <1>2, <2>2
    <3>2. QED
      BY <1>1, <2>2, <3>1
  <2>3. QED
    BY <2>1, <2>2
<1>4. QED
  BY <1>1, <1>3, SeqEqual

LEMMA TodoJoin ==
  /\ loadRecordings = Loading /\ loadRecordings \o <<"details">> = LoadingList
  /\ switchToRecording = Setting /\ applied = Setting
  /\ switchToRecording \o <<"details">> = SettingOn
  /\ Reading \o Detailing = ReadingOn
  /\ <<>> \o Detailing = Detailing /\ <<>> \o <<>> = <<>> /\ Reading \o <<>> = Reading
<1>1. loadRecordings = Loading /\ switchToRecording = Setting /\ applied = Setting
  BY DEF loadRecordings, Loading, switchToRecording, applied, Setting
<1>2. /\ Loading \in Seq(Step) /\ Setting \in Seq(Step) /\ Reading \in Seq(Step)
      /\ Detailing \in Seq(Step) /\ <<>> \in Seq(Step)
      /\ LoadingList \in Seq(Step) /\ SettingOn \in Seq(Step) /\ ReadingOn \in Seq(Step)
  BY TodoType DEF Todos
<1>3. <<"details">> = Detailing
  BY DEF Detailing
<1>4. Loading \o Detailing = LoadingList
  <2>1. /\ Len(LoadingList) = Len(Loading) + Len(Detailing)
        /\ \A i \in 1..Len(Loading) : LoadingList[i] = Loading[i]
        /\ \A i \in 1..Len(Detailing) : LoadingList[Len(Loading) + i] = Detailing[i]
    BY DEF Loading, Detailing, LoadingList
  <2>2. QED
    BY <1>2, <2>1, JoinEqual
<1>5. Setting \o Detailing = SettingOn
  <2>1. /\ Len(SettingOn) = Len(Setting) + Len(Detailing)
        /\ \A i \in 1..Len(Setting) : SettingOn[i] = Setting[i]
        /\ \A i \in 1..Len(Detailing) : SettingOn[Len(Setting) + i] = Detailing[i]
    BY DEF Setting, Detailing, SettingOn
  <2>2. QED
    BY <1>2, <2>1, JoinEqual
<1>6. Reading \o Detailing = ReadingOn
  <2>1. /\ Len(ReadingOn) = Len(Reading) + Len(Detailing)
        /\ \A i \in 1..Len(Reading) : ReadingOn[i] = Reading[i]
        /\ \A i \in 1..Len(Detailing) : ReadingOn[Len(Reading) + i] = Detailing[i]
    BY DEF Reading, Detailing, ReadingOn
  <2>2. QED
    BY <1>2, <2>1, JoinEqual
<1>7. <<>> \o Detailing = Detailing /\ <<>> \o <<>> = <<>> /\ Reading \o <<>> = Reading
  BY <1>2, ConcatEmptySeq
<1>8. QED
  BY <1>1, <1>3, <1>4, <1>5, <1>6, <1>7

\* What each kind of call may still have to ask.
Shape(kind, todo) ==
    \/ kind = "start" /\ todo \in {Booting, Creating, Loading, Listing}
    \/ kind = "boot" /\ todo \in {Booting, Creating}
    \/ kind \in {"start", "boot", "restore", "apply", "ready"} /\ todo \in {Reading, Drawing}
    \/ kind \in {"editor", "list"} /\ todo \in {ReadingOn, DrawingOn, Detailing}
    \/ kind = "editor" /\ todo = SettingOn
    \/ kind \in {"apply", "ready"} /\ todo = Setting
    \/ kind = "list" /\ todo \in {LoadingList, ListingOn}
    \/ kind = "release" /\ todo = Releasing
    \/ kind = "stopped" /\ todo = Drawing
    \/ kind = "cancel" /\ todo = Informing
    \/ kind = "save" /\ todo = Saving

Plain == {"set", "release", "create", "recordings"}
WellFormed(c) ==
    /\ Shape(c.kind, c.todo)
    /\ c.kind \in {"editor", "apply", "ready"} => c.name \in Recording
    /\ c.kind \in {"start", "restore"} => c.name \in Name
    /\ c.kind = "save" => c.name \in Name \cup {Message}
    /\ At(c) \in Plain => c.answer \in {"awaited", "ok"} \cup Refusals
    /\ At(c) \notin Plain => c.answer \in Name \cup {"awaited"} \cup Refusals

LEMMA ShapeType ==
  ASSUME NEW kind, NEW todo, Shape(kind, todo)
  PROVE  todo \in Todos /\ todo \in Seq(Step) /\ todo # <<>>
<1>1. todo \in Todos
  BY DEF Shape, Todos
<1>2. QED
  BY <1>1, TodoType

\* What is left after the head of a call has been answered.
LEMMA ShapeSteps ==
  ASSUME NEW kind, NEW todo, Shape(kind, todo)
  PROVE  /\ Head(todo) = "set" => /\ kind \in {"editor", "apply", "ready"}
                                  /\ Tail(todo) \in {Reading, ReadingOn}
                                  /\ Shape(kind, Tail(todo))
         /\ Head(todo) = "info" =>
              IF kind = "cancel" THEN Tail(todo) = <<>>
              ELSE Shape(kind, Tail(todo)) /\ Tail(todo) \in {Drawing, DrawingOn}
         /\ Head(todo) = "utg" =>
              IF kind \in {"editor", "list"} THEN Tail(todo) = Detailing ELSE Tail(todo) = <<>>
         /\ Head(todo) = "current" => /\ kind \in {"start", "list"}
                                      /\ Shape(kind, Tail(todo))
                                      /\ Tail(todo) \in {Listing, ListingOn}
         /\ Head(todo) = "recordings" =>
              \/ kind = "start" /\ Tail(todo) = <<>>
              \/ kind = "list" /\ Tail(todo) = Detailing
         /\ Head(todo) = "details" => kind \in {"editor", "list"}
         /\ Head(todo) \in {"boot", "create"} => kind \in {"start", "boot"}
         /\ Head(todo) = "release" => kind = "release"
         /\ Head(todo) = "save" => kind = "save"
  BY TodoHead, TodoTail DEF Shape

LEMMA ShapeHeads ==
  ASSUME NEW kind, NEW todo, Shape(kind, todo)
  PROVE  /\ Head(todo) \in Step
         /\ kind \in {"restore", "stopped", "cancel", "save"} => Head(todo) # "set"
         /\ kind = "list" => Head(todo) \in {"current", "recordings", "info", "utg", "details"}
         /\ kind = "editor" => Head(todo) \in {"set", "info", "utg", "details"}
         /\ kind \in {"apply", "ready"} => Head(todo) \in {"set", "info", "utg"}
  BY TodoHead DEF Shape, Step

(***************************************************************************)
(* The sequence of the calls, as a set.                                    *)
(***************************************************************************)
LEMMA Removed ==
  ASSUME NEW C, NEW s \in Seq(C), NEW i \in DOMAIN s
  PROVE  /\ RemoveAt(s, i) \in Seq(C) /\ Len(RemoveAt(s, i)) = Len(s) - 1
         /\ Elements(RemoveAt(s, i)) \subseteq Elements(s)
         /\ Elements(s) \ {s[i]} \subseteq Elements(RemoveAt(s, i))
<1> DEFINE a == SubSeq(s, 1, i - 1)
           b == SubSeq(s, i + 1, Len(s))
<1>1. i \in 1..Len(s) /\ Len(s) \in Nat /\ RemoveAt(s, i) = a \o b
  BY DEF RemoveAt
<1>2. a \in Seq(C) /\ Len(a) = i - 1 /\ \A j \in 1..(i - 1) : a[j] = s[j]
  BY <1>1
<1>3. b \in Seq(C) /\ Len(b) = Len(s) - i /\ \A j \in 1..(Len(s) - i) : b[j] = s[j + i]
  BY <1>1
<1> HIDE DEF a, b
<1>4. a \o b \in Seq(C) /\ Len(a \o b) = Len(s) - 1
  BY <1>1, <1>2, <1>3
<1>5. \A j \in 1..Len(a) + Len(b) : (a \o b)[j] = IF j <= Len(a) THEN a[j] ELSE b[j - Len(a)]
  BY <1>2, <1>3, ConcatProperties
<1>6. ASSUME NEW j \in 1..(Len(s) - 1)
      PROVE  (a \o b)[j] = IF j < i THEN s[j] ELSE s[j + 1]
  <2>1. Len(a) + Len(b) = Len(s) - 1
    BY <1>1, <1>2, <1>3
  <2>2. (a \o b)[j] = IF j <= Len(a) THEN a[j] ELSE b[j - Len(a)]
    BY <2>1, <1>5
  <2>3. CASE j < i
    BY <1>1, <1>2, <2>2, <2>3
  <2>4. CASE ~(j < i)
    <3> DEFINE k == j - (i - 1)
    <3>1. k \in 1..(Len(s) - i) /\ k + i = j + 1 /\ ~(j <= i - 1)
      BY <1>1, <2>4
    <3>2. (a \o b)[j] = b[k]
      BY <1>2, <2>2, <3>1
    <3>3. b[k] = s[k + i]
      BY <1>3, <3>1
    <3>4. QED
      BY <2>4, <3>1, <3>2, <3>3
  <2>5. QED
    BY <2>3, <2>4
<1>7. Elements(a \o b) \subseteq Elements(s)
  <2>1. ASSUME NEW j \in 1..(Len(s) - 1)
        PROVE  \E k \in 1..Len(s) : (a \o b)[j] = s[k]
    <3>1. j \in 1..Len(s) /\ j + 1 \in 1..Len(s)
      BY <1>1
    <3>2. QED
      BY <1>6, <3>1
  <2>2. DOMAIN (a \o b) = 1..(Len(s) - 1) /\ DOMAIN s = 1..Len(s)
    BY <1>4
  <2>3. QED
    BY <2>1, <2>2 DEF Elements
<1>8. ASSUME NEW k \in 1..Len(s), k # i
      PROVE  \E j \in 1..(Len(s) - 1) : (a \o b)[j] = s[k]
  <2>1. CASE k < i
    <3>1. k \in 1..(Len(s) - 1)
      BY <1>1, <2>1
    <3>2. QED
      BY <1>6, <2>1, <3>1
  <2>2. CASE ~(k < i)
    <3>1. k - 1 \in 1..(Len(s) - 1) /\ ~(k - 1 < i) /\ (k - 1) + 1 = k
      BY <1>1, <1>8, <2>2
    <3>2. QED
      BY <1>6, <3>1
  <2>3. QED
    BY <2>1, <2>2
<1>9. Elements(s) \ {s[i]} \subseteq Elements(a \o b)
  <2>1. DOMAIN (a \o b) = 1..(Len(s) - 1) /\ DOMAIN s = 1..Len(s)
    BY <1>4
  <2>2. QED
    BY <1>8, <2>1 DEF Elements
<1>10. QED
  BY <1>1, <1>4, <1>7, <1>9

LEMMA Updated ==
  ASSUME NEW C, NEW s \in Seq(C), NEW i \in DOMAIN s, NEW d \in C
  PROVE  /\ [s EXCEPT ![i] = d] \in Seq(C) /\ Len([s EXCEPT ![i] = d]) = Len(s)
         /\ Elements([s EXCEPT ![i] = d]) \subseteq Elements(s) \cup {d}
         /\ Elements(s) \ {s[i]} \subseteq Elements([s EXCEPT ![i] = d])
         /\ d \in Elements([s EXCEPT ![i] = d])
  BY DEF Elements

LEMMA Joined ==
  ASSUME NEW C, NEW s \in Seq(C), NEW t \in Seq(C)
  PROVE  /\ s \o t \in Seq(C) /\ Len(s \o t) = Len(s) + Len(t)
         /\ Elements(s \o t) = Elements(s) \cup Elements(t)
<1>1. /\ s \o t \in Seq(C) /\ Len(s \o t) = Len(s) + Len(t)
      /\ \A i \in 1..Len(s) + Len(t) :
            (s \o t)[i] = IF i <= Len(s) THEN s[i] ELSE t[i - Len(s)]
  BY ConcatProperties
<1>2. Len(s) \in Nat /\ Len(t) \in Nat
  OBVIOUS
<1>3. ASSUME NEW i \in 1..Len(s) + Len(t)
      PROVE  (s \o t)[i] \in Elements(s) \cup Elements(t)
  <2>1. CASE i <= Len(s)
    <3>1. i \in DOMAIN s /\ (s \o t)[i] = s[i]
      BY <1>1, <1>2, <2>1
    <3>2. QED
      BY <3>1 DEF Elements
  <2>2. CASE ~(i <= Len(s))
    <3>1. i - Len(s) \in DOMAIN t /\ (s \o t)[i] = t[i - Len(s)]
      BY <1>1, <1>2, <2>2
    <3>2. QED
      BY <3>1 DEF Elements
  <2>3. QED
    BY <2>1, <2>2
<1>4. ASSUME NEW i \in DOMAIN s
      PROVE  s[i] \in Elements(s \o t)
  <2>1. i \in DOMAIN (s \o t) /\ (s \o t)[i] = s[i]
    BY <1>1, <1>2
  <2>2. QED
    BY <2>1 DEF Elements
<1>5. ASSUME NEW i \in DOMAIN t
      PROVE  t[i] \in Elements(s \o t)
  <2>1. i + Len(s) \in 1..Len(s) + Len(t) /\ ~(i + Len(s) <= Len(s)) /\ (i + Len(s)) - Len(s) = i
    BY <1>2
  <2>2. i + Len(s) \in DOMAIN (s \o t) /\ (s \o t)[i + Len(s)] = t[i]
    BY <1>1, <2>1
  <2>3. QED
    BY <2>2 DEF Elements
<1>6. DOMAIN (s \o t) = 1..Len(s) + Len(t)
  BY <1>1
<1>7. QED
  BY <1>1, <1>3, <1>4, <1>5, <1>6 DEF Elements

(***************************************************************************)
(* Resume: what becomes of a call, of the others, of the page and the view.*)
(***************************************************************************)
NewBoot(e) ==
    /\ e \in CallType /\ WellFormed(e) /\ ~e.alone
    /\ e.kind = "boot" /\ At(e) = "boot" /\ e.answer = "awaited"

\* The call c goes on as d, to ask rest; todo is what its code gave it.
Continues(c, todo, rest, d) ==
    /\ d \in CallType /\ d.todo = rest /\ d.answer = "awaited"
    /\ d.alone => c.alone
    /\ d.name = KeepsName(c)
    /\ \/ rest = todo /\ (todo # <<>> => d.kind = c.kind)
       \/ todo = <<>> /\ rest = Reading /\ c.kind = "start" /\ d.kind = "restore"

CallsFollow(c, rest, d) ==
    /\ calls' \in Seq(CallType)
    /\ \A e \in InFlight' : e \in InFlight \/ NewBoot(e) \/ (e = d /\ rest # <<>>)
    /\ InFlight \ {c} \subseteq InFlight'
    /\ rest # <<>> => d \in InFlight'
    /\ \A e \in InFlight' : e.alone => Len(calls') = 1

PageFollows(p, rest) ==
    /\ Page' \in PageType
    /\ editor' = p.editor /\ recorder' = p.recorder
    /\ viewer'.text = p.viewer.text
    /\ viewer'.utg \in {p.viewer.utg, None}
    /\ rest # <<>> /\ Head(rest) = "utg" => viewer'.utg = None

ViewFollows(c, rest) ==
    /\ view' \in {"none", "recorder", "editor", "failed"}
    /\ c.kind \notin {"start", "list"} => view' = view
    /\ c.kind = "start" => view' \in {view, "recorder"}
    /\ view' = "editor" /\ view # "editor" =>
          /\ c.kind = "list" /\ At(c) # "details" /\ rest \in {<<>>, Detailing}
          /\ ~(At(c) = "current" /\ c.answer \in Refusals)

AllWellFormed == \A c \in InFlight : WellFormed(c)
AloneIsAlone == \A c \in InFlight : c.alone => Len(calls) = 1

LEMMA CallsType ==
  ASSUME TypeOK, NEW i \in DOMAIN calls
  PROVE  calls[i] \in CallType /\ calls[i] \in InFlight /\ Len(calls) \in Nat /\ i \in 1..Len(calls)
  BY DEF TypeOK, InFlight, Elements

LEMMA ReplacementType ==
  ASSUME TypeOK, NEW i \in DOMAIN calls
  PROVE  /\ Replacement(i) \in Seq(CallType)
         /\ \A e \in Elements(Replacement(i)) : NewBoot(e)
         /\ ~Handled(i) => Replacement(i) = <<>>
<1> DEFINE e == Call("boot", <<"boot">>, IF expired THEN "stale" ELSE None, None)
<1>1. calls # <<>>
  BY CallsType DEF TypeOK
<1>2. Booting \in Seq(Step) /\ Head(Booting) = "boot" /\ <<"boot">> = Booting
  BY TodoType, TodoHead DEF Todos, Booting
<1>3. /\ e.kind = "boot" /\ e.todo = Booting /\ e.answer = "awaited" /\ e.alone = FALSE
      /\ e.name \in {"stale", None} /\ e.back = None
      /\ e = [kind |-> "boot", todo |-> Booting, answer |-> "awaited", alone |-> FALSE,
              name |-> IF expired THEN "stale" ELSE None, back |-> None]
  BY <1>1, <1>2 DEF Call
<1> HIDE DEF e
<1>4. e \in CallType
  BY <1>2, <1>3 DEF CallType, Kind, Name
<1>5. WellFormed(e)
  BY <1>2, <1>3 DEF WellFormed, Shape, At, Plain
<1>6. NewBoot(e)
  BY <1>2, <1>3, <1>4, <1>5 DEF NewBoot, At
<1>7. CASE Handled(i)
  <2>1. Replacement(i) = <<e>>
    BY <1>7 DEF Replacement, e
  <2>2. <<e>> \in Seq(CallType) /\ Elements(<<e>>) = {e}
    BY <1>4 DEF Elements
  <2>3. QED
    BY <1>6, <1>7, <2>1, <2>2
<1>8. CASE ~Handled(i)
  BY <1>8 DEF Replacement, Elements
<1>9. QED
  BY <1>7, <1>8

LEMMA KeepsNameType ==
  ASSUME NEW c \in CallType, WellFormed(c)
  PROVE  /\ KeepsName(c) \in Name \cup {Message, "stale"}
         /\ c.kind = "start" => KeepsName(c) \in Name
         /\ c.kind # "start" => KeepsName(c) = c.name
  BY DEF KeepsName, WellFormed, CallType, Name

\* What follows of the calls when call i becomes d, or ends.
LEMMA FollowingCalls ==
  ASSUME TypeOK, AloneIsAlone, NEW i \in DOMAIN calls, NEW rest, NEW d \in CallType,
         d.alone => calls[i].alone /\ ~Handled(i),
         calls' = (IF rest = <<>> THEN RemoveAt(calls, i)
                   ELSE [calls EXCEPT ![i] = d]) \o Replacement(i)
  PROVE  CallsFollow(calls[i], rest, d)
<1> DEFINE kept == IF rest = <<>> THEN RemoveAt(calls, i) ELSE [calls EXCEPT ![i] = d]
           more == Replacement(i)
<1>1. calls \in Seq(CallType) /\ calls[i] \in InFlight /\ Len(calls) \in Nat
  BY CallsType DEF TypeOK
<1>2. /\ kept \in Seq(CallType)
      /\ Elements(kept) \subseteq InFlight \cup (IF rest = <<>> THEN {} ELSE {d})
      /\ InFlight \ {calls[i]} \subseteq Elements(kept)
      /\ rest # <<>> => d \in Elements(kept)
      /\ Len(kept) = IF rest = <<>> THEN Len(calls) - 1 ELSE Len(calls)
  <2>1. CASE rest = <<>>
    BY <1>1, <2>1, Removed DEF InFlight
  <2>2. CASE rest # <<>>
    <3> DEFINE s == [calls EXCEPT ![i] = d]
    <3>1. /\ s \in Seq(CallType) /\ Len(s) = Len(calls)
          /\ Elements(s) \subseteq Elements(calls) \cup {d}
          /\ Elements(calls) \ {calls[i]} \subseteq Elements(s)
          /\ d \in Elements(s)
      BY <1>1, Updated
    <3>2. kept = s
      BY <2>2
    <3> HIDE DEF s, kept
    <3>3. QED
      BY <2>2, <3>1, <3>2 DEF InFlight
  <2>3. QED
    BY <2>1, <2>2
<1>3. /\ more \in Seq(CallType) /\ \A e \in Elements(more) : NewBoot(e)
      /\ ~Handled(i) => more = <<>>
  BY ReplacementType
<1>4. calls' = kept \o more
  OBVIOUS
<1> HIDE DEF kept, more
<1>5. /\ calls' \in Seq(CallType) /\ Len(calls') = Len(kept) + Len(more)
      /\ InFlight' = Elements(kept) \cup Elements(more)
  <2>1. InFlight' = Elements(calls')
    BY DEF InFlight, Elements
  <2>2. kept \in Seq(CallType)
    BY <1>2
  <2>3. more \in Seq(CallType)
    BY <1>3
  <2>4. /\ kept \o more \in Seq(CallType) /\ Len(kept \o more) = Len(kept) + Len(more)
        /\ Elements(kept \o more) = Elements(kept) \cup Elements(more)
    BY <2>2, <2>3, Joined
  <2>5. QED
    BY <1>4, <2>1, <2>4
<1>6. ASSUME NEW e \in InFlight', e.alone
      PROVE  Len(calls') = 1
  <2>1. e \in Elements(kept)
    BY <1>3, <1>5, <1>6 DEF NewBoot
  <2>2. Len(calls) = 1
    BY <1>1, <1>2, <1>6, <2>1 DEF AloneIsAlone
  <2>3. Elements(kept) # {} /\ kept \in Seq(CallType)
    BY <1>2, <2>1
  <2>4. Len(kept) # 0
    BY <2>3 DEF Elements
  <2>5. rest # <<>> /\ Len(kept) = 1
    BY <1>2, <2>2, <2>4
  <2>6. e = d
    <3>1. kept = [calls EXCEPT ![i] = d] /\ DOMAIN kept = {1} /\ i = 1
      BY <1>1, <2>2, <2>5 DEF kept
    <3>2. kept[1] = d
      BY <3>1
    <3>3. QED
      BY <2>1, <3>1, <3>2 DEF Elements
  <2>7. more = <<>> /\ Len(more) = 0
    BY <1>3, <1>6, <2>6
  <2>8. QED
    BY <1>5, <2>5, <2>7
<1>7. QED
  BY <1>2, <1>3, <1>5, <1>6 DEF CallsFollow

LEMMA RestoredTodo ==
  ASSUME NEW p, NEW name
  PROVE  /\ RestoreTodo(p, name) \in {<<>>, Reading}
         /\ name = None => RestoreTodo(p, name) = <<>>
  BY DEF RestoreTodo, Reading

LEMMA RestoredPage ==
  ASSUME NEW p \in PageType, NEW name \in Name
  PROVE  /\ restoreWorkspaceRecording(p, name) \in PageType
         /\ restoreWorkspaceRecording(p, name).editor = p.editor
         /\ restoreWorkspaceRecording(p, name).recorder = p.recorder
         /\ name # None => /\ restoreWorkspaceRecording(p, name).viewer.text = p.viewer.text
                           /\ restoreWorkspaceRecording(p, name).viewer.utg = p.viewer.utg
         /\ name = None => /\ restoreWorkspaceRecording(p, name).viewer.text = None
                           /\ restoreWorkspaceRecording(p, name).viewer.utg = None
<1>1. CASE name = None
  BY <1>1 DEF restoreWorkspaceRecording, resetViewer, hideTaskInfo, exitTaskInfoEditMode,
     PageType, Name
<1>2. CASE name # None
  BY <1>2 DEF restoreWorkspaceRecording, PageType, Name
<1>3. QED
  BY <1>1, <1>2

LEMMA ClearedPage ==
  ASSUME NEW q \in PageType
  PROVE  /\ [q EXCEPT !.viewer.utg = None] \in PageType
         /\ [q EXCEPT !.viewer.utg = None].editor = q.editor
         /\ [q EXCEPT !.viewer.utg = None].recorder = q.recorder
         /\ [q EXCEPT !.viewer.utg = None].viewer.text = q.viewer.text
         /\ [q EXCEPT !.viewer.utg = None].viewer.utg = None
  BY DEF PageType, Name

LEMMA ResumeEffect ==
  ASSUME TypeOK, AloneIsAlone, NEW i \in DOMAIN calls, WellFormed(calls[i]),
         NEW p \in PageType, NEW todo \in Todos \cup {<<>>},
         Resume(i, p, todo)
  PROVE  \E rest \in Todos \cup {<<>>}, d \in CallType :
            /\ Continues(calls[i], todo, rest, d) /\ CallsFollow(calls[i], rest, d)
            /\ PageFollows(p, rest) /\ ViewFollows(calls[i], rest)
            /\ UNCHANGED <<expiries, begun, raced>>
<1> DEFINE c == calls[i]
           given_up == c.answer \in Refusals /\ Head(c.todo) \in {"boot", "current"}
           started == c.kind = "start" /\ todo = <<>> /\ ~given_up
           again == started /\ c.name # None
           q == IF again THEN restoreWorkspaceRecording(p, c.name) ELSE p
           rest == IF again THEN RestoreTodo(p, c.name) ELSE todo
           loads == rest # <<>> /\ Head(rest) = "utg"
           d == [c EXCEPT !.todo = rest, !.answer = "awaited",
                          !.alone = @ /\ ~Handled(i),
                          !.kind = IF started THEN "restore" ELSE @,
                          !.name = KeepsName(c)]
<1>1. /\ SetPage(IF loads THEN [q EXCEPT !.viewer.utg = None] ELSE q)
      /\ view' = IF started THEN "recorder"
                 ELSE IF c.kind = "list" /\ Head(c.todo) # "details"
                           /\ rest \in {<<>>, <<"details">>}
                      THEN IF given_up THEN "failed" ELSE "editor"
                 ELSE view
      /\ calls' = (IF rest = <<>> THEN RemoveAt(calls, i)
                   ELSE [calls EXCEPT ![i] = d]) \o Replacement(i)
      /\ UNCHANGED <<expiries, begun, raced>>
  BY DEF Resume
<1>2. c \in CallType /\ c.alone \in BOOLEAN /\ KeepsName(c) \in Name \cup {Message, "stale"}
  BY CallsType, KeepsNameType DEF CallType
<1>3. rest \in Todos \cup {<<>>} /\ rest \in Seq(Step)
  <2>1. Reading \in Todos
    BY DEF Todos
  <2>2. QED
    BY <2>1, RestoredTodo, TodoType
<1>4. /\ d \in CallType /\ d.todo = rest /\ d.answer = "awaited"
      /\ d.alone = (c.alone /\ ~Handled(i)) /\ d.name = KeepsName(c)
      /\ d.kind = IF started THEN "restore" ELSE c.kind
  <2> DEFINE alone == c.alone /\ ~Handled(i)
             kind == IF started THEN "restore" ELSE c.kind
             name == KeepsName(c)
  <2>1. alone \in BOOLEAN /\ kind \in Kind /\ name \in Name \cup {Message, "stale"}
    BY <1>2 DEF CallType, Kind
  <2>2. d = [kind |-> kind, todo |-> rest, answer |-> "awaited", alone |-> alone,
             name |-> name, back |-> c.back]
    <3>1. d = [c EXCEPT !.todo = rest, !.answer = "awaited", !.alone = alone,
                        !.kind = kind, !.name = name]
      OBVIOUS
    <3> HIDE DEF d, rest, kind, name, alone, c
    <3>2. c \in CallType
      BY <1>2
    <3>3. QED
      BY <3>1, <3>2 DEF CallType
  <2> HIDE DEF d, alone, kind, name, rest
  <2>3. c.back \in Name
    BY <1>2 DEF CallType
  <2>4. d \in CallType
    BY <1>3, <2>1, <2>2, <2>3 DEF CallType
  <2>5. /\ d.todo = rest /\ d.answer = "awaited" /\ d.alone = alone /\ d.name = name
        /\ d.kind = kind
    BY <2>2
  <2>6. QED
    BY <2>4, <2>5 DEF alone, kind, name
<1>5. Continues(c, todo, rest, d)
  <2>1. CASE again
    BY <1>4, <2>1, RestoredTodo DEF Continues
  <2>2. CASE ~again
    BY <1>4, <2>2 DEF Continues
  <2>3. QED
    BY <2>1, <2>2
<1>6. PageFollows(p, rest)
  <2>1. again => c.name \in Name
    BY DEF WellFormed
  <2>2. /\ q \in PageType /\ q.editor = p.editor /\ q.recorder = p.recorder
        /\ q.viewer.text = p.viewer.text /\ q.viewer.utg = p.viewer.utg
    BY <2>1, RestoredPage
  <2> DEFINE r == IF loads THEN [q EXCEPT !.viewer.utg = None] ELSE q
  <2> HIDE DEF q, loads
  <2>3. /\ r \in PageType /\ r.editor = p.editor /\ r.recorder = p.recorder
        /\ r.viewer.text = p.viewer.text /\ r.viewer.utg \in {p.viewer.utg, None}
        /\ loads => r.viewer.utg = None
    BY <2>2, ClearedPage
  <2>4. viewer' = r.viewer /\ editor' = r.editor /\ recorder' = r.recorder
    BY <1>1 DEF SetPage
  <2> HIDE DEF r
  <2>5. Page' = r
    BY <2>3, <2>4 DEF Page, PageType
  <2>6. QED
    BY <2>3, <2>4, <2>5 DEF PageFollows, loads
<1>7. ViewFollows(c, rest)
  BY <1>1 DEF ViewFollows, At, Detailing, TypeOK
<1>8. CallsFollow(c, rest, d)
  <2>1. d.alone => c.alone /\ ~Handled(i)
    BY <1>2, <1>4
  <2> HIDE DEF d, rest
  <2>2. QED
    BY <1>1, <1>4, <2>1, FollowingCalls
<1> HIDE DEF d, rest
<1>9. QED
  BY <1>1, <1>3, <1>4, <1>5, <1>6, <1>7, <1>8

(***************************************************************************)
(* The parts of the page, and the recorder's controls.                     *)
(***************************************************************************)
ViewerType == [active : Name, utg : Name, text : Name \cup {Message},
               loaded : BOOLEAN, edit : BOOLEAN, saving : BOOLEAN]
EditorType == [current : Name, loading : BOOLEAN]
RecorderType == [current : Name, selected : Name, mode : {"new_task", "append_data"},
                 disabled : BOOLEAN, clear : BOOLEAN, modes : BOOLEAN,
                 starting : BOOLEAN, recording : BOOLEAN]

LEMMA PageParts ==
  /\ Page \in PageType <=>
        viewer \in ViewerType /\ editor \in EditorType /\ recorder \in RecorderType
  /\ Page' \in PageType <=>
        viewer' \in ViewerType /\ editor' \in EditorType /\ recorder' \in RecorderType
  BY DEF Page, PageType, ViewerType, EditorType, RecorderType

\* A recording holds the selection: neither button changes it.
Held(r) == r.recording => r.disabled /\ ~r.clear

\* From r to q nothing is disabled that nobody owns, and what is held stays held.
KeptControls(r, q) ==
    /\ q.disabled => q.recording \/ q.starting \/ (r.disabled /\ ~r.recording /\ ~r.starting)
    /\ Held(r) => Held(q)

LEMMA KeepsControls == ASSUME NEW r PROVE KeptControls(r, r)
  BY DEF KeptControls

\* What the functions on the controls write.
LEMMA Controls ==
  ASSUME NEW r \in RecorderType, NEW b \in BOOLEAN
  PROVE  /\ setSelectionControlsDisabled(r, b) \in RecorderType
         /\ setSelectionControlsDisabled(r, b).disabled = b
         /\ b => ~setSelectionControlsDisabled(r, b).clear
         /\ setSelectionControlsDisabled(r, b).recording = r.recording
         /\ setSelectionControlsDisabled(r, b).starting = r.starting
  BY DEF RecorderType, setSelectionControlsDisabled, HasSelection

LEMMA Selection ==
  ASSUME NEW r \in RecorderType
  PROVE  /\ updateSelectionDisplay(r) \in RecorderType
         /\ updateSelectionDisplay(r).disabled = r.disabled
         /\ r.recording => ~updateSelectionDisplay(r).clear
         /\ updateSelectionDisplay(r).recording = r.recording
         /\ updateSelectionDisplay(r).starting = r.starting
  BY DEF RecorderType, updateSelectionDisplay, HasSelection

LEMMA Connection ==
  ASSUME NEW r \in RecorderType
  PROVE  /\ updateConnectionState(r) \in RecorderType
         /\ updateConnectionState(r).disabled = r.recording
         /\ r.recording => ~updateConnectionState(r).clear
         /\ updateConnectionState(r).recording = r.recording
         /\ updateConnectionState(r).starting = r.starting
<1> DEFINE q == setSelectionControlsDisabled(r, r.recording)
           t == [q EXCEPT !.modes = ~r.recording]
<1>1. r.recording \in BOOLEAN
  BY DEF RecorderType
<1>2. /\ q \in RecorderType /\ q.disabled = r.recording /\ q.recording = r.recording
      /\ q.starting = r.starting
  BY <1>1, Controls
<1> HIDE DEF q
<1>3. /\ t \in RecorderType /\ t.disabled = r.recording /\ t.recording = r.recording
      /\ t.starting = r.starting
  BY <1>1, <1>2 DEF RecorderType
<1>4. updateConnectionState(r) = updateSelectionDisplay(t)
  BY DEF updateConnectionState, q
<1> HIDE DEF t
<1>5. QED
  BY <1>3, <1>4, Selection

LEMMA Idle ==
  ASSUME NEW r \in RecorderType
  PROVE  /\ renderIdleRecordingState(r) \in RecorderType
         /\ ~renderIdleRecordingState(r).disabled /\ ~renderIdleRecordingState(r).starting
         /\ renderIdleRecordingState(r).recording = r.recording
<1> DEFINE q == setSelectionControlsDisabled(r, FALSE)
           t == [q EXCEPT !.starting = FALSE, !.modes = TRUE]
<1>1. q \in RecorderType /\ ~q.disabled /\ q.recording = r.recording
  BY Controls
<1> HIDE DEF q
<1>2. t \in RecorderType /\ ~t.disabled /\ ~t.starting /\ t.recording = r.recording
  BY <1>1 DEF RecorderType
<1>3. renderIdleRecordingState(r) = updateSelectionDisplay(t)
  BY DEF renderIdleRecordingState, q
<1> HIDE DEF t
<1>4. QED
  BY <1>2, <1>3, Selection

LEMMA Disconnected ==
  ASSUME NEW r \in RecorderType
  PROVE  disconnect(r) \in RecorderType /\ ~disconnect(r).disabled /\ ~disconnect(r).recording
<1> DEFINE q == [r EXCEPT !.recording = FALSE]
<1>1. q \in RecorderType /\ ~q.recording
  BY DEF RecorderType
<1>2. disconnect(r) = renderIdleRecordingState(q)
  BY DEF disconnect
<1> HIDE DEF q
<1>3. QED
  BY <1>1, <1>2, Idle

LEMMA ResetRecorder ==
  ASSUME NEW r \in RecorderType
  PROVE  /\ resetRecorder(disconnect(r)) \in RecorderType
         /\ ~resetRecorder(disconnect(r)).disabled
         /\ ~resetRecorder(disconnect(r)).recording
<1> DEFINE q == disconnect(r)
           t == [q EXCEPT !.current = None, !.selected = None, !.mode = "new_task"]
<1>1. q \in RecorderType /\ ~q.disabled /\ ~q.recording
  BY Disconnected
<1> HIDE DEF q
<1>2. t \in RecorderType /\ ~t.recording
  BY <1>1 DEF RecorderType, Name
<1>3. resetRecorder(q) = renderIdleRecordingState(t)
  BY DEF resetRecorder
<1> HIDE DEF t
<1>4. QED
  BY <1>2, <1>3, Idle DEF q

LEMMA RestoredContext ==
  ASSUME NEW r \in RecorderType, NEW name \in Name
  PROVE  /\ restoreWorkspaceContext(r, name) \in RecorderType
         /\ KeptControls(r, restoreWorkspaceContext(r, name))
<1> DEFINE t == [r EXCEPT !.current = name, !.selected = name,
                          !.mode = IF name = None THEN "new_task" ELSE "append_data"]
<1>1. /\ t \in RecorderType /\ t.disabled = r.disabled /\ t.recording = r.recording
      /\ t.starting = r.starting
  BY DEF RecorderType
<1>2. restoreWorkspaceContext(r, name) = updateSelectionDisplay(t)
  BY DEF restoreWorkspaceContext
<1> HIDE DEF t
<1>3. QED
  BY <1>1, <1>2, Selection DEF KeptControls, Held

(***************************************************************************)
(* The inductive invariant.                                                *)
(***************************************************************************)

\* The server has a current recording, and no two switches have crossed.
Settled == ~raced /\ current # None

SetBy(c) == /\ c.kind \in {"editor", "apply", "ready"}
            /\ At(c) # "set" \/ c.answer = "ok"
JustSet(c) == At(c) = "set" /\ c.answer = "ok"

\* The call will still load the text, the graph or the editor's copy anew.
OwesText(c) == JustSet(c) \/ At(c) = "info"
OwesUtg(c) == JustSet(c) \/ (At(c) = "info" /\ c.kind # "cancel")
OwesEditor(c) ==
    \/ c.kind = "editor" /\ (JustSet(c) \/ At(c) \in {"info", "utg"})
    \/ c.kind = "apply" /\ JustSet(c)
\* The call will insert the data editor's form, which has read the name.
Listed(c) == c.kind = "list" /\ At(c) \in {"recordings", "info", "utg"}

AnswersTrue == Settled => \A c \in InFlight : c.answer \in Recording => c.answer = current
SetTrue == Settled => \A c \in InFlight : SetBy(c) => c.name = current
TextTrue ==
    Settled => \/ viewer.text \in {None, Message, current}
               \/ \E c \in InFlight : OwesText(c)
UtgTrue ==
    Settled => \/ viewer.utg \in {None, current}
               \/ \E c \in InFlight : OwesUtg(c)
EditorTrue ==
    Settled => \/ editor.current \in {None, current}
               \/ \E c \in InFlight : OwesEditor(c)
               \/ view # "editor" /\ \A c \in InFlight : ~Listed(c)
ReadyView == \A c \in InFlight : (c.kind = "ready" /\ c.alone) => view = "recorder"
SaveTrue ==
    Settled => \A c \in InFlight :
                 (c.kind = "save" /\ c.alone) => c.name \in {None, Message, current}
LoadingOwned == editor.loading => \E c \in InFlight : c.kind = "editor"
DisabledOwned ==
    recorder.disabled => \/ recorder.recording \/ recorder.starting
                         \/ \E c \in InFlight : c.kind \in {"apply", "release"}
RecordingHeld == Held(recorder)

IInv ==
    /\ TypeOK /\ AllWellFormed /\ AloneIsAlone
    /\ AnswersTrue /\ SetTrue /\ TextTrue /\ UtgTrue /\ EditorTrue
    /\ ReadyView /\ SaveTrue /\ LoadingOwned /\ DisabledOwned
    /\ RecordingHeld

(***************************************************************************)
(* What the code after an await may do to the page, when it goes on with   *)
(* todo: what it shows is cleared, or answered by the server, or what it   *)
(* was, and then the call does not owe it less than before.                *)
(***************************************************************************)
TextFresh(c, p, todo) ==
    \/ p.viewer.text \in {None, Message}
    \/ c.answer \in Recording /\ p.viewer.text = c.answer
    \/ /\ p.viewer.text = viewer.text
       /\ OwesText(c) => todo # <<>> /\ Head(todo) = "info"
UtgFresh(c, p, todo) ==
    \/ p.viewer.utg = None
    \/ c.answer \in Recording /\ p.viewer.utg = c.answer
    \/ /\ p.viewer.utg = viewer.utg
       /\ OwesUtg(c) => todo # <<>> /\ Head(todo) \in {"info", "utg"}
EditorFresh(c, p, todo) ==
    \/ p.editor.current = None
    \/ c.answer \in Recording /\ p.editor.current = c.answer
    \/ SetBy(c) /\ p.editor.current = c.name
    \/ /\ p.editor.current = editor.current
       /\ At(c) # "current"
       /\ OwesEditor(c) => /\ todo # <<>> /\ Head(todo) \in {"info", "utg"}
                           /\ c.kind = "editor"
ControlsFresh(c, p, todo) ==
    /\ p.editor.loading => editor.loading /\ (c.kind = "editor" => todo # <<>>)
    /\ KeptControls(recorder, p.recorder)
    /\ c.kind \in {"apply", "release"} =>
            \/ todo # <<>>
            \/ p.recorder.disabled => p.recorder.recording
TodoFresh(c, todo) ==
    /\ todo # <<>> => Shape(c.kind, todo)
    /\ (todo # <<>> /\ At(c) = "set") => c.answer = "ok"
    /\ c.kind = "list" => Listed(c) \/ At(c) = "current" \/ todo = <<>>

Fresh(c, p, todo) ==
    /\ TextFresh(c, p, todo) /\ UtgFresh(c, p, todo) /\ EditorFresh(c, p, todo)
    /\ ControlsFresh(c, p, todo) /\ TodoFresh(c, todo)

\* The facts about Resume that its invariance lemmas use.
Resumed(c, p, todo, rest, d) ==
    /\ Continues(c, todo, rest, d) /\ CallsFollow(c, rest, d)
    /\ PageFollows(p, rest) /\ ViewFollows(c, rest)
    /\ UNCHANGED <<expiries, begun, raced>>
    /\ current' \in {current, None} /\ expired' \in BOOLEAN

LEMMA ResumedInvariant ==
  ASSUME IInv, NEW c \in InFlight, NEW p \in PageType, NEW todo \in Todos \cup {<<>>},
         NEW rest \in Todos \cup {<<>>}, NEW d \in CallType,
         Fresh(c, p, todo), Resumed(c, p, todo, rest, d)
  PROVE  IInv'
<1>1. c \in CallType /\ WellFormed(c)
  BY DEF IInv, TypeOK, AllWellFormed, InFlight, Elements
<1>2. Settled' => Settled /\ current' = current
  BY DEF Resumed, Settled
<1>3. /\ \A e \in InFlight' : e \in InFlight \/ NewBoot(e) \/ (e = d /\ rest # <<>>)
      /\ InFlight \ {c} \subseteq InFlight'
      /\ rest # <<>> => d \in InFlight'
      /\ calls' \in Seq(CallType) /\ \A e \in InFlight' : e.alone => Len(calls') = 1
  BY DEF Resumed, CallsFollow
<1>4. /\ d.answer = "awaited" /\ d.todo = rest /\ d.name = KeepsName(c)
      /\ d.alone => c.alone
      /\ \/ rest = todo /\ (todo # <<>> => d.kind = c.kind)
         \/ todo = <<>> /\ rest = Reading /\ c.kind = "start" /\ d.kind = "restore"
  BY DEF Resumed, Continues
<1>5. {None, "awaited"} \cap Recording = {}
  BY NamesAssumption
<1>6. \A e : NewBoot(e) => /\ e.kind = "boot" /\ At(e) = "boot" /\ e.answer = "awaited"
                           /\ ~e.alone /\ WellFormed(e)
  BY DEF NewBoot
<1>7. TypeOK'
  BY <1>3 DEF IInv, TypeOK, Resumed, PageFollows, ViewFollows, Name
<1>8. AllWellFormed'
  <2>1. rest # <<>> => Shape(d.kind, rest)
    BY <1>4 DEF Fresh, TodoFresh, Shape
  <2>2. /\ d.kind \in {"editor", "apply", "ready"} /\ rest # <<>> => d.name \in Recording
        /\ d.kind \in {"start", "restore"} /\ rest # <<>> => d.name \in Name
        /\ d.kind = "save" /\ rest # <<>> => d.name \in Name \cup {Message}
    BY <1>1, <1>4, KeepsNameType DEF WellFormed
  <2>3. rest # <<>> => WellFormed(d)
    BY <1>4, <2>1, <2>2 DEF WellFormed
  <2>4. QED
    BY <1>3, <1>6, <2>3 DEF IInv, AllWellFormed
<1>9. AloneIsAlone'
  BY <1>3 DEF AloneIsAlone
<1>10. AnswersTrue'
  BY <1>2, <1>3, <1>4, <1>5, <1>6 DEF IInv, AnswersTrue
<1>11. SetTrue'
  <2>1. ASSUME Settled, rest # <<>>, SetBy(d)
        PROVE  d.name = current
    <3>1. rest = todo /\ d.kind = c.kind /\ c.kind # "start"
      BY <1>4, <2>1 DEF SetBy
    <3>2. SetBy(c)
      BY <2>1, <3>1 DEF SetBy, Fresh, TodoFresh
    <3>3. d.name = c.name
      BY <1>1, <1>4, <3>1, KeepsNameType
    <3>4. QED
      BY <2>1, <3>2, <3>3 DEF IInv, SetTrue
  <2>2. \A e : NewBoot(e) => ~SetBy(e)
    BY <1>6 DEF SetBy
  <2>3. QED
    BY <1>2, <1>3, <2>1, <2>2 DEF IInv, SetTrue
<1>12. TextTrue'
  <2> SUFFICES ASSUME Settled', viewer'.text \notin {None, Message, current'}
               PROVE  \E e \in InFlight' : OwesText(e)
    BY DEF TextTrue
  <2>1. viewer'.text = p.viewer.text /\ p.viewer.text \notin {None, Message, current}
    BY <1>2 DEF Resumed, PageFollows
  <2>2. /\ p.viewer.text = viewer.text
        /\ OwesText(c) => todo # <<>> /\ Head(todo) = "info"
    BY <1>2, <2>1 DEF Fresh, TextFresh, IInv, AnswersTrue
  <2>3. PICK e \in InFlight : OwesText(e)
    BY <1>2, <2>1, <2>2 DEF IInv, TextTrue
  <2>4. CASE e # c
    BY <1>3, <2>3, <2>4
  <2>5. CASE e = c
    <3>1. rest = todo /\ rest # <<>> /\ At(d) = "info"
      BY <1>4, <2>2, <2>3, <2>5 DEF At
    <3>2. QED
      BY <1>3, <3>1 DEF OwesText
  <2>6. QED
    BY <2>4, <2>5
<1>13. UtgTrue'
  <2> SUFFICES ASSUME Settled', viewer'.utg \notin {None, current'}
               PROVE  \E e \in InFlight' : OwesUtg(e)
    BY DEF UtgTrue
  <2>1. /\ viewer'.utg = p.viewer.utg /\ p.viewer.utg \notin {None, current}
        /\ ~(rest # <<>> /\ Head(rest) = "utg")
    BY <1>2 DEF Resumed, PageFollows
  <2>2. /\ p.viewer.utg = viewer.utg
        /\ OwesUtg(c) => todo # <<>> /\ Head(todo) \in {"info", "utg"}
    BY <1>2, <2>1 DEF Fresh, UtgFresh, IInv, AnswersTrue
  <2>3. PICK e \in InFlight : OwesUtg(e)
    BY <1>2, <2>1, <2>2 DEF IInv, UtgTrue
  <2>4. CASE e # c
    BY <1>3, <2>3, <2>4
  <2>5. CASE e = c
    <3>1. rest = todo /\ rest # <<>> /\ At(d) = "info" /\ d.kind = c.kind
      BY <1>4, <2>1, <2>2, <2>3, <2>5 DEF At
    <3>2. c.kind # "cancel"
      BY <1>1, <2>3, <2>5, ShapeHeads DEF OwesUtg, JustSet, WellFormed, At
    <3>3. QED
      BY <1>3, <3>1, <3>2 DEF OwesUtg
  <2>6. QED
    BY <2>4, <2>5
<1>14. EditorTrue'
  <2> SUFFICES ASSUME Settled', editor'.current \notin {None, current'},
                      ~(view' # "editor" /\ \A e \in InFlight' : ~Listed(e))
               PROVE  \E e \in InFlight' : OwesEditor(e)
    BY DEF EditorTrue
  <2>1. editor'.current = p.editor.current /\ p.editor.current \notin {None, current}
    BY <1>2 DEF Resumed, PageFollows
  <2>2. /\ p.editor.current = editor.current /\ At(c) # "current"
        /\ OwesEditor(c) => /\ todo # <<>> /\ Head(todo) \in {"info", "utg"}
                            /\ c.kind = "editor"
    BY <1>2, <2>1 DEF Fresh, EditorFresh, IInv, AnswersTrue, SetTrue
  <2>3. ~(view # "editor" /\ \A e \in InFlight : ~Listed(e))
    <3> SUFFICES ASSUME view # "editor", \A e \in InFlight : ~Listed(e)
                 PROVE  FALSE
      OBVIOUS
    <3>1. c.kind = "list" => todo = <<>> /\ At(c) \notin {"recordings", "info", "utg"}
      BY <2>2 DEF Fresh, TodoFresh, Listed
    <3>2. c.kind = "list" => At(c) = "details"
      BY <1>1, <2>2, <3>1, ShapeHeads DEF WellFormed, At
    <3>3. view' # "editor"
      BY <3>2 DEF Resumed, ViewFollows
    <3>4. \A e : NewBoot(e) => ~Listed(e)
      BY <1>6 DEF Listed
    <3>5. rest # <<>> => d.kind # "list"
      BY <1>4, <3>1
    <3>6. \A e \in InFlight' : ~Listed(e)
      BY <1>3, <3>4, <3>5 DEF Listed
    <3>7. QED
      BY <3>3, <3>6
  <2>4. PICK e \in InFlight : OwesEditor(e)
    BY <1>2, <2>1, <2>2, <2>3 DEF IInv, EditorTrue
  <2>5. CASE e # c
    BY <1>3, <2>4, <2>5
  <2>6. CASE e = c
    <3>1. rest = todo /\ rest # <<>> /\ At(d) \in {"info", "utg"} /\ d.kind = "editor"
      BY <1>4, <2>2, <2>4, <2>6 DEF At
    <3>2. QED
      BY <1>3, <3>1 DEF OwesEditor
  <2>7. QED
    BY <2>5, <2>6
<1>15. ReadyView'
  <2> SUFFICES ASSUME NEW e \in InFlight', e.kind = "ready", e.alone
               PROVE  view' = "recorder"
    BY DEF ReadyView
  <2>1. c.kind = "ready" /\ c.alone
    <3>1. CASE e \in InFlight
      <4>1. Len(calls) = 1
        BY <3>1 DEF IInv, AloneIsAlone
      <4>2. e = c
        BY <3>1, <4>1 DEF InFlight, Elements, IInv, TypeOK
      <4>3. QED
        BY <4>2
    <3>2. CASE e = d /\ rest # <<>>
      BY <1>4, <3>2
    <3>3. QED
      BY <1>3, <1>6, <3>1, <3>2
  <2>2. view = "recorder"
    BY <2>1 DEF IInv, ReadyView
  <2>3. QED
    BY <2>1, <2>2 DEF Resumed, ViewFollows
<1>16. SaveTrue'
  <2>1. ASSUME Settled, rest # <<>>, d.kind = "save", d.alone
        PROVE  d.name \in {None, Message, current}
    <3>1. c.kind = "save" /\ c.alone
      BY <1>4, <2>1
    <3>2. d.name = c.name
      BY <1>1, <1>4, <3>1, KeepsNameType
    <3>3. QED
      BY <2>1, <3>1, <3>2 DEF IInv, SaveTrue
  <2>2. QED
    BY <1>2, <1>3, <1>6, <2>1 DEF IInv, SaveTrue
<1>17. LoadingOwned'
  <2> SUFFICES ASSUME editor'.loading
               PROVE  \E e \in InFlight' : e.kind = "editor"
    BY DEF LoadingOwned
  <2>1. editor.loading /\ (c.kind = "editor" => todo # <<>>)
    BY DEF Resumed, PageFollows, Fresh, ControlsFresh
  <2>2. PICK e \in InFlight : e.kind = "editor"
    BY <2>1 DEF IInv, LoadingOwned
  <2>3. CASE e # c
    BY <1>3, <2>2, <2>3
  <2>4. CASE e = c
    BY <1>3, <1>4, <2>1, <2>2, <2>4
  <2>5. QED
    BY <2>3, <2>4
<1>18. DisabledOwned'
  <2> SUFFICES ASSUME recorder'.disabled, ~recorder'.recording, ~recorder'.starting
               PROVE  \E e \in InFlight' : e.kind \in {"apply", "release"}
    BY DEF DisabledOwned
  <2>1. /\ recorder.disabled /\ ~recorder.recording /\ ~recorder.starting
        /\ c.kind \in {"apply", "release"} => todo # <<>>
    BY DEF Resumed, PageFollows, Fresh, ControlsFresh, KeptControls
  <2>2. PICK e \in InFlight : e.kind \in {"apply", "release"}
    BY <2>1 DEF IInv, DisabledOwned
  <2>3. CASE e # c
    BY <1>3, <2>2, <2>3
  <2>4. CASE e = c
    BY <1>3, <1>4, <2>1, <2>2, <2>4
  <2>5. QED
    BY <2>3, <2>4
<1>19. RecordingHeld'
  <2>1. recorder' = p.recorder /\ KeptControls(recorder, p.recorder) /\ Held(recorder)
    BY DEF Resumed, PageFollows, Fresh, ControlsFresh, IInv, RecordingHeld
  <2>2. QED
    BY <2>1 DEF RecordingHeld, KeptControls
<1>20. QED
  BY <1>7, <1>8, <1>9, <1>10, <1>11, <1>12, <1>13, <1>14, <1>15, <1>16, <1>17, <1>18, <1>19
     DEF IInv

LEMMA ResumeInvariant ==
  ASSUME IInv, NEW i \in DOMAIN calls, NEW p \in PageType, NEW todo \in Todos \cup {<<>>},
         Fresh(calls[i], p, todo), Resume(i, p, todo),
         current' \in {current, None}, expired' \in BOOLEAN
  PROVE  IInv'
<1>1. calls[i] \in InFlight /\ WellFormed(calls[i]) /\ TypeOK /\ AloneIsAlone
  BY CallsType DEF IInv, AllWellFormed
<1>2. PICK rest \in Todos \cup {<<>>}, d \in CallType :
            /\ Continues(calls[i], todo, rest, d) /\ CallsFollow(calls[i], rest, d)
            /\ PageFollows(p, rest) /\ ViewFollows(calls[i], rest)
            /\ UNCHANGED <<expiries, begun, raced>>
  BY <1>1, ResumeEffect
<1>3. Resumed(calls[i], p, todo, rest, d)
  BY <1>2 DEF Resumed
<1>4. QED
  BY <1>1, <1>3, ResumedInvariant

(***************************************************************************)
(* The answers, one lemma for each.                                        *)
(***************************************************************************)

\* The page p shows nothing that the page did not show.
Kept(p) ==
    /\ p \in PageType
    /\ p.viewer.text \in {None, viewer.text} /\ p.viewer.utg \in {None, viewer.utg}
    /\ p.editor.current \in {None, editor.current}
    /\ p.editor.loading => editor.loading
    /\ KeptControls(recorder, p.recorder)

LEMMA PageKept == ASSUME TypeOK PROVE Kept(Page)
  BY KeepsControls DEF TypeOK, Kept, Page, PageType

LEMMA ExpiredPage ==
  ASSUME TypeOK, NEW i \in DOMAIN calls
  PROVE  /\ Kept(handleWorkspaceExpired(i))
         /\ ~Handled(i) => handleWorkspaceExpired(i) = Page
<1> DEFINE p == resetWorkspaceScopedState(Page)
<1>1. CASE Handled(i)
  <2>1. handleWorkspaceExpired(i) = p
    BY <1>1 DEF handleWorkspaceExpired
  <2>2. Page \in PageType
    BY DEF TypeOK
  <2>3. /\ p.viewer = resetViewer(Page.viewer) /\ p.editor = resetEditor(Page.editor)
        /\ p.recorder = resetRecorder(disconnect(Page.recorder))
        /\ p = [viewer |-> p.viewer, editor |-> p.editor, recorder |-> p.recorder]
    BY DEF resetWorkspaceScopedState
  <2>4. /\ resetViewer(Page.viewer) \in
              [active : Name, utg : Name, text : Name \cup {Message},
               loaded : BOOLEAN, edit : BOOLEAN, saving : BOOLEAN]
        /\ resetViewer(Page.viewer).text = None /\ resetViewer(Page.viewer).utg = None
    BY <2>2 DEF PageType, resetViewer, hideTaskInfo, exitTaskInfoEditMode, Name
  <2>5. /\ resetEditor(Page.editor) \in [current : Name, loading : BOOLEAN]
        /\ resetEditor(Page.editor).current = None /\ ~resetEditor(Page.editor).loading
    BY <2>2 DEF PageType, resetEditor, Name
  <2>6. /\ p.recorder \in RecorderType
        /\ ~p.recorder.disabled /\ ~p.recorder.recording
    <3>1. Page.recorder \in RecorderType
      BY <2>2 DEF PageType, RecorderType
    <3>2. QED
      BY <2>3, <3>1, ResetRecorder
  <2>7. p \in PageType
    BY <2>3, <2>4, <2>5, <2>6 DEF PageType, RecorderType
  <2> HIDE DEF p
  <2>8. QED
    BY <1>1, <2>1, <2>3, <2>4, <2>5, <2>6, <2>7 DEF Kept, KeptControls, Held
<1>2. CASE ~Handled(i)
  BY <1>2, PageKept DEF handleWorkspaceExpired
<1>3. QED
  BY <1>1, <1>2

\* What every answer to call i starts from.
LEMMA Answering ==
  ASSUME IInv, NEW i \in DOMAIN calls, NEW step, Answered(i, step)
  PROVE  /\ TypeOK /\ calls[i] \in CallType /\ WellFormed(calls[i]) /\ At(calls[i]) = step
         /\ calls[i].answer # "awaited" /\ Shape(calls[i].kind, calls[i].todo)
         /\ Rest(i) = Tail(calls[i].todo)
         /\ Kept(handleWorkspaceExpired(i)) /\ Kept(Page)
         /\ calls[i].answer # "expired" => handleWorkspaceExpired(i) = Page
<1>1. TypeOK /\ calls[i] \in CallType /\ WellFormed(calls[i])
  BY CallsType DEF IInv, AllWellFormed
<1>2. Shape(calls[i].kind, calls[i].todo)
  BY <1>1 DEF WellFormed
<1>3. QED
  BY <1>1, <1>2, ExpiredPage, PageKept DEF Answered, At, Rest, Handled

\* A page that is kept, by a call that owes nothing and ends, or only reads on.
LEMMA KeptFresh ==
  ASSUME NEW c \in CallType, WellFormed(c), NEW p, Kept(p), NEW todo
  PROVE  /\ ~OwesText(c) => TextFresh(c, p, todo)
         /\ (todo # <<>> /\ Head(todo) = "info") => TextFresh(c, p, todo)
         /\ ~OwesUtg(c) => UtgFresh(c, p, todo)
         /\ (todo # <<>> /\ Head(todo) \in {"info", "utg"}) => UtgFresh(c, p, todo)
         /\ (~OwesEditor(c) /\ At(c) # "current") => EditorFresh(c, p, todo)
         /\ (todo # <<>> /\ Head(todo) \in {"info", "utg"} /\ c.kind = "editor"
                /\ At(c) # "current") => EditorFresh(c, p, todo)
         /\ (todo # <<>> \/ c.kind \notin {"editor", "apply", "release"}) =>
                ControlsFresh(c, p, todo)
         /\ TodoFresh(c, <<>>)
  BY DEF Kept, TextFresh, UtgFresh, EditorFresh, ControlsFresh, TodoFresh

LEMMA FinishedSelection ==
  ASSUME NEW p \in PageType
  PROVE  /\ finishSelection(p) \in PageType
         /\ finishSelection(p).viewer = p.viewer /\ finishSelection(p).editor = p.editor
         /\ KeptControls(recorder, finishSelection(p).recorder)
         /\ finishSelection(p).recorder.disabled => finishSelection(p).recorder.recording
<1> DEFINE r == setSelectionControlsDisabled(p.recorder, p.recorder.recording)
<1>1. p.recorder \in RecorderType /\ p.recorder.recording \in BOOLEAN
  BY DEF PageType, RecorderType
<1>2. /\ r \in RecorderType /\ r.disabled = p.recorder.recording
      /\ r.recording = p.recorder.recording
      /\ r.recording => ~r.clear
  BY <1>1, Controls
<1>3. finishSelection(p) = [p EXCEPT !.recorder = r]
  BY DEF finishSelection, PageType
<1> HIDE DEF r
<1>4. /\ finishSelection(p) \in PageType /\ finishSelection(p).recorder = r
      /\ finishSelection(p).viewer = p.viewer /\ finishSelection(p).editor = p.editor
  BY <1>2, <1>3 DEF PageType, RecorderType
<1>5. QED
  BY <1>2, <1>4 DEF KeptControls, Held

LEMMA RevertedSelection ==
  ASSUME NEW p \in PageType, NEW name \in Name
  PROVE  /\ revertSelection(p, name) \in PageType
         /\ revertSelection(p, name).viewer = p.viewer
         /\ revertSelection(p, name).editor = p.editor
         /\ KeptControls(recorder, revertSelection(p, name).recorder)
         /\ revertSelection(p, name).recorder.disabled =>
                revertSelection(p, name).recorder.recording
<1> DEFINE q == [p EXCEPT !.recorder.selected = name]
<1>1. q \in PageType /\ q.viewer = p.viewer /\ q.editor = p.editor
  BY DEF PageType
<1>2. revertSelection(p, name) = finishSelection(q)
  BY DEF revertSelection
<1> HIDE DEF q
<1>3. QED
  BY <1>1, <1>2, FinishedSelection

LEMMA SetAnswered ==
  ASSUME IInv, NEW i \in DOMAIN calls, AnswerSet(i)
  PROVE  IInv'
<1> DEFINE c == calls[i]
           p == handleWorkspaceExpired(i)
<1>1. /\ TypeOK /\ c \in CallType /\ WellFormed(c) /\ At(c) = "set" /\ Shape(c.kind, c.todo)
      /\ Rest(i) = Tail(c.todo) /\ Kept(p)
      /\ c.kind \in {"editor", "apply", "ready"} /\ c.name \in Recording /\ c.name \in Name
      /\ c.back \in Name
  <2>1. Answered(i, "set")
    BY DEF AnswerSet
  <2>2. /\ TypeOK /\ c \in CallType /\ WellFormed(c) /\ At(c) = "set" /\ Shape(c.kind, c.todo)
        /\ Rest(i) = Tail(c.todo) /\ Kept(p)
    BY <2>1, Answering
  <2>3. c.kind \in {"editor", "apply", "ready"}
    BY <2>2, ShapeSteps DEF At
  <2>4. c.name \in Recording /\ c.name \in Name /\ c.back \in Name
    BY <2>2, <2>3 DEF WellFormed, CallType, Name
  <2>5. QED
    BY <2>2, <2>3, <2>4
<1>2. /\ Rest(i) \in {Reading, ReadingOn} /\ Shape(c.kind, Rest(i)) /\ Rest(i) # <<>>
      /\ Rest(i) \in Todos /\ Head(Rest(i)) = "info"
  <2>1. Tail(c.todo) \in {Reading, ReadingOn} /\ Shape(c.kind, Tail(c.todo))
    BY <1>1, ShapeSteps DEF At
  <2>2. Tail(c.todo) \in Todos /\ Tail(c.todo) # <<>>
    BY <2>1, ShapeType
  <2>3. QED
    BY <1>1, <2>1, <2>2, TodoHead
<1>3. current' \in {current, None} /\ expired' \in BOOLEAN
  BY <1>1 DEF AnswerSet, TypeOK
<1>4. CASE /\ c.answer = "ok" /\ c.kind = "apply"
           /\ Resume(i, [p EXCEPT !.recorder.current = c.name, !.editor.current = c.name], Rest(i))
  <2> DEFINE q == [p EXCEPT !.recorder.current = c.name, !.editor.current = c.name]
  <2>1. /\ q \in PageType /\ q.viewer = p.viewer /\ q.editor.current = c.name
        /\ q.editor.loading = p.editor.loading
        /\ KeptControls(recorder, q.recorder)
    BY <1>1 DEF Kept, PageType, KeptControls, Held
  <2> HIDE DEF q
  <2>2. Fresh(c, q, Rest(i))
    BY <1>1, <1>2, <1>4, <2>1 DEF Fresh, TextFresh, UtgFresh, EditorFresh, ControlsFresh,
       TodoFresh, Kept, SetBy
  <2>3. Resume(i, q, Rest(i))
    BY <1>4 DEF q
  <2> HIDE DEF c, p
  <2>4. QED
    BY <1>2, <1>3, <2>1, <2>2, <2>3, ResumeInvariant DEF c
<1>5. CASE /\ c.answer = "ok" /\ c.kind # "apply"
           /\ Resume(i, [p EXCEPT !.viewer.active = c.name], Rest(i))
  <2> DEFINE q == [p EXCEPT !.viewer.active = c.name]
  <2>1. /\ q \in PageType /\ q.editor = p.editor /\ q.recorder = p.recorder
        /\ q.viewer.text = p.viewer.text /\ q.viewer.utg = p.viewer.utg
    BY <1>1 DEF Kept, PageType
  <2> HIDE DEF q
  <2>2. Fresh(c, q, Rest(i))
    BY <1>1, <1>2, <1>5, <2>1 DEF Fresh, TextFresh, UtgFresh, EditorFresh, ControlsFresh,
       TodoFresh, Kept, OwesEditor
  <2>3. Resume(i, q, Rest(i))
    BY <1>5 DEF q
  <2> HIDE DEF c, p
  <2>4. QED
    BY <1>2, <1>3, <2>1, <2>2, <2>3, ResumeInvariant DEF c
<1>6. c.answer # "ok" => ~OwesText(c) /\ ~OwesUtg(c) /\ ~OwesEditor(c)
  BY <1>1 DEF OwesText, OwesUtg, OwesEditor, JustSet
<1>7. CASE c.answer # "ok" /\ c.kind = "apply" /\ Resume(i, revertSelection(p, c.back), <<>>)
  <2> DEFINE q == revertSelection(p, c.back)
  <2>1. /\ q \in PageType /\ q.viewer = p.viewer /\ q.editor = p.editor
        /\ KeptControls(recorder, q.recorder)
        /\ q.recorder.disabled => q.recorder.recording
    BY <1>1, RevertedSelection DEF Kept
  <2>2. Resume(i, q, <<>>)
    BY <1>7
  <2> HIDE DEF q
  <2>3. Fresh(c, q, <<>>)
    BY <1>1, <1>6, <1>7, <2>1 DEF Fresh, TextFresh, UtgFresh, EditorFresh, ControlsFresh,
       TodoFresh, Kept
  <2> HIDE DEF c, p
  <2>4. QED
    BY <1>3, <2>1, <2>2, <2>3, ResumeInvariant DEF c
<1>8. CASE /\ c.answer # "ok" /\ c.kind = "editor"
           /\ Resume(i, [p EXCEPT !.editor.loading = FALSE], <<>>)
  <2> DEFINE q == [p EXCEPT !.editor.loading = FALSE]
  <2>1. /\ q \in PageType /\ q.viewer = p.viewer /\ q.recorder = p.recorder
        /\ q.editor.current = p.editor.current /\ ~q.editor.loading
    BY <1>1 DEF Kept, PageType
  <2>2. Resume(i, q, <<>>)
    BY <1>8
  <2> HIDE DEF q
  <2>3. Fresh(c, q, <<>>)
    BY <1>1, <1>6, <1>8, <2>1 DEF Fresh, TextFresh, UtgFresh, EditorFresh, ControlsFresh,
       TodoFresh, Kept
  <2> HIDE DEF c, p
  <2>4. QED
    BY <1>3, <2>1, <2>2, <2>3, ResumeInvariant DEF c
<1>9. CASE c.answer # "ok" /\ c.kind = "ready" /\ Resume(i, p, <<>>)
  <2>1. Fresh(c, p, <<>>)
    BY <1>1, <1>6, <1>9, KeptFresh DEF Fresh
  <2>2. p \in PageType
    BY <1>1 DEF Kept
  <2> HIDE DEF c, p
  <2>3. QED
    BY <1>3, <1>9, <2>1, <2>2, ResumeInvariant DEF c
<1>10. QED
  BY <1>4, <1>5, <1>7, <1>8, <1>9 DEF AnswerSet

LEMMA ReleaseAnswered ==
  ASSUME IInv, NEW i \in DOMAIN calls, AnswerRelease(i)
  PROVE  IInv'
<1> DEFINE c == calls[i]
           p == handleWorkspaceExpired(i)
<1>1. /\ TypeOK /\ c \in CallType /\ At(c) = "release" /\ Kept(p) /\ p \in PageType
      /\ c.kind = "release" /\ c.back \in Name
  <2>1. Answered(i, "release")
    BY DEF AnswerRelease
  <2>2. /\ TypeOK /\ c \in CallType /\ At(c) = "release" /\ Shape(c.kind, c.todo) /\ Kept(p)
    BY <2>1, Answering
  <2>3. c.kind = "release"
    BY <2>2, ShapeSteps DEF At
  <2>4. QED
    BY <2>2, <2>3 DEF CallType, Kept
<1>2. current' \in {current, None} /\ expired' \in BOOLEAN
  BY <1>1 DEF AnswerRelease, TypeOK
<1>3. CASE c.answer = "ok"
  <2> DEFINE r == [p EXCEPT !.recorder.current = None, !.editor.current = None,
                            !.viewer = hideTaskInfo(@)]
             q == finishSelection(r)
  <2>1. /\ hideTaskInfo(p.viewer) \in
              [active : Name, utg : Name, text : Name \cup {Message},
               loaded : BOOLEAN, edit : BOOLEAN, saving : BOOLEAN]
        /\ hideTaskInfo(p.viewer).text = None
        /\ hideTaskInfo(p.viewer).utg = p.viewer.utg
    BY <1>1 DEF PageType, hideTaskInfo, exitTaskInfoEditMode, Name
  <2>2. /\ r.viewer = hideTaskInfo(p.viewer)
        /\ r.editor = [p.editor EXCEPT !.current = None]
        /\ r.recorder = [p.recorder EXCEPT !.current = None]
        /\ r = [viewer |-> r.viewer, editor |-> r.editor, recorder |-> r.recorder]
    <3> HIDE DEF p
    <3>1. p = [viewer |-> p.viewer, editor |-> p.editor, recorder |-> p.recorder]
      BY <1>1 DEF PageType
    <3>2. /\ r.viewer = hideTaskInfo(p.viewer)
          /\ r.editor = [p.editor EXCEPT !.current = None]
          /\ r.recorder = [p.recorder EXCEPT !.current = None]
      BY <3>1
    <3>3. r = [p EXCEPT !.recorder = r.recorder, !.editor = r.editor, !.viewer = r.viewer]
      BY <3>1
    <3> HIDE DEF r
    <3>4. r = [viewer |-> r.viewer, editor |-> r.editor, recorder |-> r.recorder]
      BY <3>1, <3>3
    <3>5. QED
      BY <3>2, <3>4
  <2>3. r.editor \in [current : Name, loading : BOOLEAN] /\ r.editor.current = None
        /\ r.editor.loading = p.editor.loading
    BY <1>1, <2>2 DEF PageType, Name
  <2>4. r.recorder \in RecorderType
    BY <1>1, <2>2 DEF PageType, RecorderType, Name
  <2> HIDE DEF r
  <2>5. r \in PageType
    BY <2>1, <2>2, <2>3, <2>4 DEF PageType, RecorderType
  <2>6. /\ q \in PageType /\ q.viewer.text = None /\ q.viewer.utg = p.viewer.utg
        /\ q.editor.current = None /\ q.editor.loading = p.editor.loading
        /\ KeptControls(recorder, q.recorder)
        /\ q.recorder.disabled => q.recorder.recording
    BY <2>1, <2>2, <2>3, <2>4, <2>5, FinishedSelection
  <2>7. Resume(i, q, <<>>)
    BY <1>3 DEF AnswerRelease, r
  <2> HIDE DEF q
  <2>8. Fresh(c, q, <<>>)
    BY <1>1, <2>6 DEF Fresh, TextFresh, UtgFresh, EditorFresh, ControlsFresh,
       TodoFresh, Kept, OwesUtg, JustSet
  <2> HIDE DEF c, p
  <2>9. QED
    BY <1>2, <2>6, <2>7, <2>8, ResumeInvariant DEF c
<1>4. CASE c.answer # "ok"
  <2> DEFINE q == revertSelection(p, c.back)
  <2>1. /\ q \in PageType /\ q.viewer = p.viewer /\ q.editor = p.editor
        /\ KeptControls(recorder, q.recorder)
        /\ q.recorder.disabled => q.recorder.recording
    BY <1>1, RevertedSelection
  <2>2. Resume(i, q, <<>>)
    BY <1>4 DEF AnswerRelease
  <2> HIDE DEF q
  <2>3. Fresh(c, q, <<>>)
    BY <1>1, <2>1 DEF Fresh, TextFresh, UtgFresh, EditorFresh, ControlsFresh,
       TodoFresh, Kept, OwesText, OwesUtg, OwesEditor, JustSet
  <2> HIDE DEF c, p
  <2>4. QED
    BY <1>2, <2>1, <2>2, <2>3, ResumeInvariant DEF c
<1>5. QED
  BY <1>3, <1>4

\* The viewer without the names it was about.
LEMMA ResetViewer ==
  ASSUME NEW p \in PageType
  PROVE  /\ [p EXCEPT !.viewer = resetViewer(@)] \in PageType
         /\ [p EXCEPT !.viewer = resetViewer(@)].viewer.text = None
         /\ [p EXCEPT !.viewer = resetViewer(@)].viewer.utg = None
         /\ [p EXCEPT !.viewer = resetViewer(@)].editor = p.editor
         /\ [p EXCEPT !.viewer = resetViewer(@)].recorder = p.recorder
  BY DEF PageType, resetViewer, hideTaskInfo, exitTaskInfoEditMode, Name

LEMMA TextAnswered ==
  ASSUME IInv, NEW i \in DOMAIN calls, loadTaskInfo(i)
  PROVE  IInv'
<1> DEFINE c == calls[i]
           a == c.answer
           p == handleWorkspaceExpired(i)
           v == IF a \in Recording THEN [p.viewer EXCEPT !.text = a, !.loaded = TRUE]
                ELSE showTaskInfoError(IF scoped(a) THEN resetViewer(p.viewer) ELSE p.viewer)
           q == [p EXCEPT !.viewer = v]
<1>1. /\ TypeOK /\ c \in CallType /\ WellFormed(c) /\ At(c) = "info" /\ Kept(p) /\ p \in PageType
      /\ Shape(c.kind, c.todo) /\ Rest(i) = Tail(c.todo)
  BY Answering DEF loadTaskInfo, Kept
<1>2. current' \in {current, None} /\ expired' \in BOOLEAN
  BY <1>1 DEF loadTaskInfo, TypeOK
<1>3. /\ v \in [active : Name, utg : Name, text : Name \cup {Message},
                loaded : BOOLEAN, edit : BOOLEAN, saving : BOOLEAN]
      /\ v.text = (IF a \in Recording THEN a ELSE Message)
      /\ v.utg \in {None, p.viewer.utg}
  <2>1. CASE a \in Recording
    BY <1>1, <2>1 DEF PageType, Name
  <2>2. CASE a \notin Recording /\ scoped(a)
    BY <1>1, <2>2 DEF PageType, Name, showTaskInfoError, exitTaskInfoEditMode, resetViewer,
       hideTaskInfo
  <2>3. CASE a \notin Recording /\ ~scoped(a)
    BY <1>1, <2>3 DEF PageType, Name, showTaskInfoError, exitTaskInfoEditMode
  <2>4. QED
    BY <2>1, <2>2, <2>3
<1>4. q \in PageType /\ q.viewer = v /\ q.editor = p.editor /\ q.recorder = p.recorder
  <2> HIDE DEF v, p
  <2>1. QED
    BY <1>1, <1>3 DEF PageType
<1>5. /\ Rest(i) \in Todos \cup {<<>>}
      /\ c.kind = "cancel" => Rest(i) = <<>>
      /\ c.kind # "cancel" => /\ Shape(c.kind, Rest(i)) /\ Rest(i) # <<>>
                              /\ Head(Rest(i)) = "utg"
  <2>1. IF c.kind = "cancel" THEN Tail(c.todo) = <<>>
        ELSE Shape(c.kind, Tail(c.todo)) /\ Tail(c.todo) \in {Drawing, DrawingOn}
    BY <1>1, ShapeSteps DEF At
  <2>2. c.kind # "cancel" => Tail(c.todo) \in Todos /\ Tail(c.todo) # <<>>
    BY <2>1, ShapeType
  <2>3. QED
    BY <1>1, <2>1, <2>2, TodoHead
<1>6. Resume(i, q, Rest(i))
  BY DEF loadTaskInfo
<1> HIDE DEF v, q, p, c
<1>7. TextFresh(c, q, Rest(i))
  BY <1>3, <1>4 DEF TextFresh
<1>8. UtgFresh(c, q, Rest(i))
  BY <1>1, <1>3, <1>4, <1>5 DEF UtgFresh, Kept, OwesUtg, JustSet
<1>9. EditorFresh(c, q, Rest(i))
  BY <1>1, <1>4, <1>5 DEF EditorFresh, Kept, OwesEditor, JustSet
<1>10. ControlsFresh(c, q, Rest(i))
  <2>1. c.kind = "cancel" => c.kind \notin {"editor", "apply", "release"}
    OBVIOUS
  <2>2. QED
    BY <1>1, <1>4, <1>5, <2>1 DEF ControlsFresh, Kept
<1>11. TodoFresh(c, Rest(i))
  BY <1>1, <1>5 DEF TodoFresh, Listed
<1>12. Fresh(c, q, Rest(i))
  BY <1>7, <1>8, <1>9, <1>10, <1>11 DEF Fresh
<1>13. QED
  BY <1>2, <1>4, <1>5, <1>6, <1>12, ResumeInvariant DEF c

LEMMA GraphAnswered ==
  ASSUME IInv, NEW i \in DOMAIN calls, loadUTG(i)
  PROVE  IInv'
<1> DEFINE c == calls[i]
           p == handleWorkspaceExpired(i)
           v == IF c.answer \in Recording THEN [p.viewer EXCEPT !.utg = c.answer]
                ELSE IF scoped(c.answer) THEN resetViewer(p.viewer) ELSE p.viewer
           drawn == [p EXCEPT !.viewer = v]
           q == CASE c.kind = "editor" -> takeOver(drawn, c.name)
                  [] c.kind = "apply" -> finishSelection(drawn)
                  [] OTHER -> drawn
<1>1. /\ TypeOK /\ c \in CallType /\ WellFormed(c) /\ At(c) = "utg" /\ Kept(p) /\ p \in PageType
      /\ Shape(c.kind, c.todo) /\ Rest(i) = Tail(c.todo)
      /\ c.kind = "editor" => c.name \in Name
  <2>1. /\ TypeOK /\ c \in CallType /\ WellFormed(c) /\ At(c) = "utg" /\ Kept(p)
        /\ Shape(c.kind, c.todo) /\ Rest(i) = Tail(c.todo)
    BY Answering DEF loadUTG
  <2>2. QED
    BY <2>1 DEF Kept, WellFormed, Name
<1>2. current' \in {current, None} /\ expired' \in BOOLEAN
  BY <1>1 DEF loadUTG, TypeOK
<1>3. /\ v \in [active : Name, utg : Name, text : Name \cup {Message},
                loaded : BOOLEAN, edit : BOOLEAN, saving : BOOLEAN]
      /\ v.utg = (IF c.answer \in Recording THEN c.answer
                  ELSE IF scoped(c.answer) THEN None ELSE p.viewer.utg)
      /\ v.text \in {None, p.viewer.text}
  <2>1. CASE c.answer \in Recording
    BY <1>1, <2>1 DEF PageType, Name
  <2>2. CASE c.answer \notin Recording /\ scoped(c.answer)
    BY <1>1, <2>2 DEF PageType, Name, resetViewer, hideTaskInfo, exitTaskInfoEditMode
  <2>3. CASE c.answer \notin Recording /\ ~scoped(c.answer)
    BY <1>1, <2>3 DEF PageType
  <2>4. QED
    BY <2>1, <2>2, <2>3
<1>4. /\ drawn \in PageType /\ drawn.viewer = v /\ drawn.editor = p.editor
      /\ drawn.recorder = p.recorder
  <2> HIDE DEF v, p
  <2>1. QED
    BY <1>1, <1>3 DEF PageType
<1>5. Rest(i) = (IF c.kind \in {"editor", "list"} THEN Detailing ELSE <<>>)
  BY <1>1, ShapeSteps DEF At
<1>6. Detailing \in Todos /\ Detailing # <<>> /\ <<>> # Detailing
  BY DEF Todos, Detailing
<1>7. c.kind \in {"editor", "list"} => Shape(c.kind, Detailing)
  BY DEF Shape
<1>8. Resume(i, q, Rest(i))
  BY DEF loadUTG
<1> HIDE DEF v, drawn, p
<1>9. /\ q \in PageType /\ q.viewer = v
      /\ q.editor.loading = p.editor.loading
      /\ q.editor.current = (IF c.kind = "editor" THEN c.name ELSE p.editor.current)
      /\ KeptControls(recorder, q.recorder)
      /\ c.kind = "apply" => (q.recorder.disabled => q.recorder.recording)
  <2>1. CASE c.kind = "editor"
    <3>1. q = takeOver(drawn, c.name)
      BY <2>1
    <3>2. QED
      BY <1>1, <1>4, <2>1, <3>1 DEF takeOver, PageType, Kept
  <2>2. CASE c.kind = "apply"
    <3>1. q = finishSelection(drawn)
      BY <2>2
    <3>2. QED
      BY <1>4, <2>2, <3>1, FinishedSelection
  <2>3. CASE c.kind \notin {"editor", "apply"}
    BY <1>1, <1>4, <2>3 DEF Kept
  <2>4. QED
    BY <2>1, <2>2, <2>3
<1> HIDE DEF q, c
<1>10. TextFresh(c, q, Rest(i))
  BY <1>1, <1>3, <1>9 DEF TextFresh, Kept, OwesText, JustSet
<1>11. UtgFresh(c, q, Rest(i))
  BY <1>1, <1>3, <1>9 DEF UtgFresh, Kept, OwesUtg, JustSet
<1>12. EditorFresh(c, q, Rest(i))
  BY <1>1, <1>9 DEF EditorFresh, Kept, OwesEditor, JustSet, SetBy
<1>13. ControlsFresh(c, q, Rest(i))
  <2>1. c.kind # "release"
    BY <1>1, TodoHead DEF Shape, At
  <2>2. QED
    BY <1>1, <1>5, <1>6, <1>9, <2>1 DEF ControlsFresh, Kept
<1>14. TodoFresh(c, Rest(i))
  BY <1>1, <1>5, <1>6, <1>7 DEF TodoFresh, Listed
<1>15. Fresh(c, q, Rest(i))
  BY <1>10, <1>11, <1>12, <1>13, <1>14 DEF Fresh
<1>16. Rest(i) \in Todos \cup {<<>>}
  BY <1>5, <1>6
<1>17. QED
  BY <1>2, <1>8, <1>9, <1>15, <1>16, ResumeInvariant DEF c

LEMMA DetailsAnswered ==
  ASSUME IInv, NEW i \in DOMAIN calls, loadRecordingInfo(i)
  PROVE  IInv'
<1> DEFINE c == calls[i]
           p == handleWorkspaceExpired(i)
           q == [p EXCEPT !.editor.loading = @ /\ c.kind # "editor"]
<1>1. /\ TypeOK /\ c \in CallType /\ WellFormed(c) /\ At(c) = "details" /\ Kept(p)
      /\ p \in PageType /\ Shape(c.kind, c.todo)
  BY Answering DEF loadRecordingInfo, Kept
<1>2. current' \in {current, None} /\ expired' \in BOOLEAN
  BY <1>1 DEF loadRecordingInfo, TypeOK
<1>3. c.kind \in {"editor", "list"}
  BY <1>1, ShapeSteps DEF At
<1>4. Resume(i, q, <<>>)
  BY DEF loadRecordingInfo
<1>5. /\ q \in PageType /\ q.viewer = p.viewer /\ q.recorder = p.recorder
      /\ q.editor.current = p.editor.current
      /\ q.editor.loading = (p.editor.loading /\ c.kind # "editor")
  <2> DEFINE b == p.editor.loading /\ c.kind # "editor"
  <2>1. b \in BOOLEAN /\ q = [p EXCEPT !.editor.loading = b]
    OBVIOUS
  <2> HIDE DEF b, q, p
  <2>2. /\ q \in PageType /\ q.viewer = p.viewer /\ q.recorder = p.recorder
        /\ q.editor.current = p.editor.current /\ q.editor.loading = b
    BY <1>1, <2>1 DEF PageType
  <2>3. QED
    BY <2>2 DEF b
<1> HIDE DEF q, p, c
<1>6. ~OwesText(c) /\ ~OwesUtg(c) /\ ~OwesEditor(c)
  BY <1>1 DEF OwesText, OwesUtg, OwesEditor, JustSet
<1>7. Fresh(c, q, <<>>)
  BY <1>1, <1>3, <1>5, <1>6 DEF Fresh, TextFresh, UtgFresh, EditorFresh, ControlsFresh,
     TodoFresh, Kept
<1>8. QED
  BY <1>2, <1>4, <1>5, <1>7, ResumeInvariant DEF c

LEMMA CurrentAnswered ==
  ASSUME IInv, NEW i \in DOMAIN calls, AnswerCurrent(i)
  PROVE  IInv'
<1> DEFINE c == calls[i]
           a == c.answer
           p == handleWorkspaceExpired(i)
<1>1. /\ TypeOK /\ c \in CallType /\ WellFormed(c) /\ At(c) = "current" /\ Kept(p)
      /\ p \in PageType /\ Shape(c.kind, c.todo) /\ Rest(i) = Tail(c.todo) /\ a # "awaited"
  BY Answering DEF AnswerCurrent, Kept
<1>2. current' \in {current, None} /\ expired' \in BOOLEAN
  BY <1>1 DEF AnswerCurrent, TypeOK
<1>3. /\ Rest(i) \in Todos /\ Shape(c.kind, Rest(i)) /\ c.kind \in {"start", "list"}
  <2>1. /\ Shape(c.kind, Tail(c.todo)) /\ c.kind \in {"start", "list"}
    BY <1>1, ShapeSteps DEF At
  <2>2. QED
    BY <1>1, <2>1, ShapeType
<1>4. ~OwesText(c) /\ ~OwesUtg(c) /\ ~OwesEditor(c)
  BY <1>1 DEF OwesText, OwesUtg, OwesEditor, JustSet
<1>5. CASE a \in Refusals
  <2> DEFINE q == [p EXCEPT !.editor = resetEditor(@), !.viewer = resetViewer(@)]
             e == resetEditor(p.editor)
             v == resetViewer(p.viewer)
  <2>1. /\ e \in [current : Name, loading : BOOLEAN] /\ e.current = None /\ ~e.loading
    BY <1>1 DEF PageType, resetEditor, Name
  <2>2. /\ v \in [active : Name, utg : Name, text : Name \cup {Message},
                  loaded : BOOLEAN, edit : BOOLEAN, saving : BOOLEAN]
        /\ v.text = None /\ v.utg = None
    BY <1>1 DEF PageType, resetViewer, hideTaskInfo, exitTaskInfoEditMode, Name
  <2>3. q = [p EXCEPT !.editor = e, !.viewer = v]
    BY <1>1 DEF PageType
  <2>4. Resume(i, q, <<>>)
    BY <1>5 DEF AnswerCurrent
  <2> HIDE DEF e, v, q, p, c
  <2>5. q \in PageType /\ q.viewer = v /\ q.editor = e /\ q.recorder = p.recorder
    BY <1>1, <2>1, <2>2, <2>3 DEF PageType
  <2>6. Fresh(c, q, <<>>)
    BY <1>1, <1>3, <2>1, <2>2, <2>5 DEF Fresh, TextFresh, UtgFresh, EditorFresh, ControlsFresh,
       TodoFresh, Kept
  <2>7. QED
    BY <1>2, <2>4, <2>5, <2>6, ResumeInvariant DEF c
<1>6. CASE a \notin Refusals
  <2> DEFINE q == [p EXCEPT !.editor.current = a]
  <2>1. a \in Name
    BY <1>1, <1>6 DEF WellFormed, Plain
  <2>2. /\ q \in PageType /\ q.viewer = p.viewer /\ q.recorder = p.recorder
        /\ q.editor.loading = p.editor.loading /\ q.editor.current = a
    BY <1>1, <2>1 DEF PageType
  <2>3. Resume(i, q, Rest(i))
    BY <1>6 DEF AnswerCurrent
  <2>4. EditorFresh(c, q, Rest(i))
    BY <2>1, <2>2 DEF EditorFresh, Name
  <2> HIDE DEF q, p, c
  <2>5. Fresh(c, q, Rest(i))
    BY <1>1, <1>3, <1>4, <2>2, <2>4 DEF Fresh, TextFresh, UtgFresh, ControlsFresh,
       TodoFresh, Kept
  <2>6. QED
    BY <1>2, <1>3, <2>2, <2>3, <2>5, ResumeInvariant DEF c
<1>7. QED
  BY <1>5, <1>6

LEMMA RecordingsAnswered ==
  ASSUME IInv, NEW i \in DOMAIN calls, AnswerRecordings(i)
  PROVE  IInv'
<1> DEFINE c == calls[i]
           q == restoreWorkspaceRecording(Page, editor.current)
           restored == RestoreTodo(Page, editor.current)
           todo == IF editor.current = None THEN <<>> ELSE restored \o Rest(i)
<1>1. /\ TypeOK /\ c \in CallType /\ WellFormed(c) /\ At(c) = "recordings"
      /\ Shape(c.kind, c.todo) /\ Rest(i) = Tail(c.todo)
  BY Answering DEF AnswerRecordings
<1>2. current' \in {current, None} /\ expired' \in BOOLEAN
  BY <1>1 DEF AnswerRecordings, TypeOK
<1>3. /\ Page \in PageType /\ Page.viewer = viewer /\ Page.editor = editor
      /\ Page.recorder = recorder /\ editor.current \in Name
  BY <1>1 DEF TypeOK, Page, PageType
<1>4. /\ q \in PageType /\ q.editor = editor /\ q.recorder = recorder
      /\ q.viewer.text \in {None, viewer.text} /\ q.viewer.utg \in {None, viewer.utg}
  BY <1>3, RestoredPage
<1>5. \/ c.kind = "start" /\ Rest(i) = <<>>
      \/ c.kind = "list" /\ Rest(i) = Detailing
  BY <1>1, ShapeSteps DEF At
<1>6. restored \in {<<>>, Reading}
  BY RestoredTodo
<1>7. /\ todo \in Todos \cup {<<>>}
      /\ todo # <<>> => Shape(c.kind, todo)
  <2>1. todo \in {<<>>, Reading, ReadingOn, Detailing}
    BY <1>5, <1>6, TodoJoin
  <2>2. c.kind = "start" => todo \in {<<>>, Reading}
    BY <1>5, <1>6, TodoJoin
  <2>3. c.kind = "list" => todo \in {<<>>, Detailing, ReadingOn}
    BY <1>5, <1>6, TodoJoin
  <2> HIDE DEF todo, c
  <2>4. QED
    BY <1>5, <2>1, <2>2, <2>3 DEF Todos, Shape
<1>8. Resume(i, q, todo)
  BY DEF AnswerRecordings
<1> HIDE DEF q, todo, c
<1>9. ~OwesText(c) /\ ~OwesUtg(c) /\ ~OwesEditor(c)
  BY <1>1, <1>5 DEF OwesText, OwesUtg, OwesEditor, JustSet
<1>10. Fresh(c, q, todo)
  BY <1>1, <1>4, <1>5, <1>7, <1>9, KeepsControls DEF Fresh, TextFresh, UtgFresh, EditorFresh, ControlsFresh,
     TodoFresh, Listed
<1>11. QED
  BY <1>2, <1>4, <1>7, <1>8, <1>10, ResumeInvariant DEF c

\* What a bootstrap writes to the editor and the recorder.
LEMMA AppliedBootstrap ==
  ASSUME NEW p \in PageType, NEW name \in Name
  PROVE  /\ applyBootstrapWorkspaceState(p, name) \in PageType
         /\ applyBootstrapWorkspaceState(p, name).viewer = p.viewer
         /\ applyBootstrapWorkspaceState(p, name).editor.current = name
         /\ applyBootstrapWorkspaceState(p, name).editor.loading = p.editor.loading
         /\ KeptControls(p.recorder, applyBootstrapWorkspaceState(p, name).recorder)
<1> DEFINE r == restoreWorkspaceContext(p.recorder, name)
           e == [p.editor EXCEPT !.current = name]
           q == applyBootstrapWorkspaceState(p, name)
<1>1. r \in RecorderType /\ KeptControls(p.recorder, r)
  BY RestoredContext DEF PageType, RecorderType
<1>2. e \in [current : Name, loading : BOOLEAN] /\ e.current = name
      /\ e.loading = p.editor.loading
  BY DEF PageType
<1>3. q = [p EXCEPT !.editor = e, !.recorder = r]
  BY DEF applyBootstrapWorkspaceState, PageType
<1> HIDE DEF r, e, q
<1>4. q \in PageType /\ q.viewer = p.viewer /\ q.editor = e /\ q.recorder = r
  BY <1>1, <1>2, <1>3 DEF PageType, RecorderType
<1>5. QED
  BY <1>1, <1>2, <1>4 DEF q

LEMMA BootstrappedInvariant ==
  ASSUME IInv, NEW i \in DOMAIN calls, At(calls[i]) \in {"boot", "create"}, NEW name \in Name,
         name \in Recording => name = calls[i].answer, Bootstrapped(i, name),
         current' \in {current, None}, expired' \in BOOLEAN
  PROVE  IInv'
<1> DEFINE c == calls[i]
           p == applyBootstrapWorkspaceState(Page, name)
<1>1. /\ TypeOK /\ c \in CallType /\ WellFormed(c) /\ Shape(c.kind, c.todo)
  BY CallsType DEF IInv, AllWellFormed, WellFormed
<1>2. c.kind \in {"start", "boot"}
  BY <1>1, ShapeSteps DEF At
<1>3. /\ Page \in PageType /\ Page.viewer = viewer /\ Page.editor = editor
      /\ Page.recorder = recorder
  BY <1>1 DEF TypeOK, Page, PageType
<1>4. /\ p \in PageType /\ p.viewer = viewer /\ p.editor.current = name
      /\ p.editor.loading = editor.loading
      /\ KeptControls(recorder, p.recorder)
  BY <1>3, AppliedBootstrap
<1> HIDE DEF p, c
<1>5. ~OwesText(c) /\ ~OwesUtg(c) /\ At(c) # "set" /\ At(c) # "current"
  BY DEF OwesText, OwesUtg, JustSet, c
<1>6. name = None \/ (c.answer \in Recording /\ name = c.answer)
  BY DEF Name, c
<1>7. CASE c.kind = "start"
  <2>1. Resume(i, p, Loading)
    BY <1>7, TodoJoin DEF Bootstrapped, p, c
  <2>2. Loading \in Todos /\ Shape(c.kind, Loading)
    BY <1>7 DEF Todos, Shape
  <2>3. Fresh(c, p, Loading)
    BY <1>4, <1>5, <1>6, <1>7, <2>2 DEF Fresh, TextFresh, UtgFresh, EditorFresh, ControlsFresh,
       TodoFresh
  <2>4. QED
    BY <1>4, <2>1, <2>2, <2>3, ResumeInvariant DEF c
<1>8. CASE c.kind = "boot"
  <2> DEFINE q == restoreWorkspaceRecording(p, name)
             todo == RestoreTodo(p, name)
  <2>1. Resume(i, q, todo)
    BY <1>8 DEF Bootstrapped, p, c
  <2>2. /\ q \in PageType /\ q.editor = p.editor /\ q.recorder = p.recorder
        /\ q.viewer.text \in {None, viewer.text} /\ q.viewer.utg \in {None, viewer.utg}
    BY <1>4, RestoredPage
  <2>3. todo \in {<<>>, Reading}
    BY RestoredTodo
  <2>4. Reading \in Todos /\ Shape(c.kind, Reading)
    BY <1>8 DEF Todos, Shape
  <2> HIDE DEF q, todo
  <2>5. Fresh(c, q, todo)
    BY <1>4, <1>5, <1>6, <1>8, <2>2, <2>3, <2>4 DEF Fresh, TextFresh, UtgFresh, EditorFresh,
       ControlsFresh, TodoFresh
  <2>6. QED
    BY <2>1, <2>2, <2>3, <2>4, <2>5, ResumeInvariant DEF c
<1>9. QED
  BY <1>2, <1>7, <1>8

LEMMA BootAnswered ==
  ASSUME IInv, NEW i \in DOMAIN calls, bootstrapWorkspace(i)
  PROVE  IInv'
<1> DEFINE c == calls[i]
           a == c.answer
<1>1. /\ TypeOK /\ c \in CallType /\ WellFormed(c) /\ At(c) = "boot" /\ Kept(Page)
      /\ Page \in PageType /\ Shape(c.kind, c.todo) /\ a # "awaited"
  BY Answering DEF bootstrapWorkspace, Kept
<1>2. current' \in {current, None} /\ expired' \in BOOLEAN
  BY <1>1 DEF bootstrapWorkspace, TypeOK
<1>3. c.kind \in {"start", "boot"}
  BY <1>1, ShapeSteps DEF At
<1>4. CASE a \notin Refusals /\ Bootstrapped(i, a)
  <2>1. a \in Name
    BY <1>1, <1>4 DEF WellFormed, Plain
  <2>2. QED
    BY <1>1, <1>2, <1>4, <2>1, BootstrappedInvariant
<1>5. ~OwesText(c) /\ ~OwesUtg(c) /\ ~OwesEditor(c)
  BY <1>1, <1>3 DEF OwesText, OwesUtg, OwesEditor, JustSet
<1>6. CASE Resume(i, Page, <<"create">>)
  <2>1. Resume(i, Page, Creating)
    BY <1>6 DEF Creating
  <2>2. Creating \in Todos /\ Shape(c.kind, Creating)
    BY <1>3 DEF Todos, Shape
  <2> HIDE DEF c
  <2>3. Fresh(c, Page, Creating)
    <3>1. TodoFresh(c, Creating)
      BY <1>1, <1>3, <2>2 DEF TodoFresh
    <3>2. TextFresh(c, Page, Creating) /\ UtgFresh(c, Page, Creating)
      BY <1>1, <1>5, KeptFresh
    <3>3. EditorFresh(c, Page, Creating) /\ ControlsFresh(c, Page, Creating)
      BY <1>1, <1>3, <1>5, KeptFresh
    <3>4. QED
      BY <3>1, <3>2, <3>3 DEF Fresh
  <2>4. QED
    BY <1>1, <1>2, <2>1, <2>2, <2>3, ResumeInvariant DEF c
<1>7. CASE Resume(i, Page, <<>>)
  <2> HIDE DEF c
  <2>1. Fresh(c, Page, <<>>)
    <3>1. TodoFresh(c, <<>>) /\ TextFresh(c, Page, <<>>) /\ UtgFresh(c, Page, <<>>)
      BY <1>1, <1>5, KeptFresh
    <3>2. EditorFresh(c, Page, <<>>) /\ ControlsFresh(c, Page, <<>>)
      BY <1>1, <1>3, <1>5, KeptFresh
    <3>3. QED
      BY <3>1, <3>2 DEF Fresh
  <2>2. QED
    BY <1>1, <1>2, <1>7, <2>1, ResumeInvariant DEF c
<1>8. QED
  BY <1>4, <1>6, <1>7 DEF bootstrapWorkspace

LEMMA Replaced ==
  ASSUME IInv, NEW i \in DOMAIN calls, ReplaceWorkspace(i)
  PROVE  IInv'
<1>1. At(calls[i]) = "create"
  BY Answering DEF ReplaceWorkspace
<1>2. None \in Name /\ None \notin Recording
  BY NamesAssumption DEF Name
<1>3. QED
  BY <1>1, <1>2, BootstrappedInvariant DEF ReplaceWorkspace

LEMMA SaveAnswered ==
  ASSUME IInv, NEW i \in DOMAIN calls, AnswerSave(i)
  PROVE  IInv'
<1> DEFINE c == calls[i]
           a == c.answer
           p == handleWorkspaceExpired(i)
           saved == IF a \in Recording
                    THEN [exitTaskInfoEditMode(p.viewer) EXCEPT !.text = a] ELSE p.viewer
           v == [saved EXCEPT !.saving = FALSE]
           q == [p EXCEPT !.viewer = v]
<1>1. /\ TypeOK /\ c \in CallType /\ WellFormed(c) /\ At(c) = "save" /\ Kept(p)
      /\ p \in PageType /\ Shape(c.kind, c.todo)
  BY Answering DEF AnswerSave, Kept
<1>2. current' \in {current, None} /\ expired' \in BOOLEAN
  BY <1>1 DEF AnswerSave, TypeOK
<1>3. c.kind = "save"
  BY <1>1, ShapeSteps DEF At
<1>4. /\ v \in [active : Name, utg : Name, text : Name \cup {Message},
                loaded : BOOLEAN, edit : BOOLEAN, saving : BOOLEAN]
      /\ v.text = (IF a \in Recording THEN a ELSE p.viewer.text)
      /\ v.utg = p.viewer.utg
  <2>1. CASE a \in Recording
    BY <1>1, <2>1 DEF PageType, Name, exitTaskInfoEditMode
  <2>2. CASE a \notin Recording
    BY <1>1, <2>2 DEF PageType
  <2>3. QED
    BY <2>1, <2>2
<1>5. Resume(i, q, <<>>)
  BY DEF AnswerSave
<1> HIDE DEF v, p
<1>6. q \in PageType /\ q.viewer = v /\ q.editor = p.editor /\ q.recorder = p.recorder
  BY <1>1, <1>4 DEF PageType
<1> HIDE DEF q, c
<1>7. ~OwesText(c) /\ ~OwesUtg(c) /\ ~OwesEditor(c)
  BY <1>1 DEF OwesText, OwesUtg, OwesEditor, JustSet
<1>8. Fresh(c, q, <<>>)
  BY <1>1, <1>3, <1>4, <1>6, <1>7 DEF Fresh, TextFresh, UtgFresh, EditorFresh, ControlsFresh,
     TodoFresh, Kept
<1>9. QED
  BY <1>2, <1>5, <1>6, <1>8, ResumeInvariant DEF c

LEMMA AnswerInvariant ==
  ASSUME IInv, NEW i \in DOMAIN calls, Answer(i)
  PROVE  IInv'
  BY SetAnswered, ReleaseAnswered, TextAnswered, GraphAnswered, DetailsAnswered,
     CurrentAnswered, RecordingsAnswered, BootAnswered, Replaced, SaveAnswered DEF Answer

(***************************************************************************)
(* The steps of the user and of the server.                                *)
(***************************************************************************)

\* The call d begins: the others go on as they were, no longer alone.
Same(e, f) == e.kind = f.kind /\ e.todo = f.todo /\ e.answer = f.answer /\ e.name = f.name
Begun(d) ==
    /\ calls' \in Seq(CallType) /\ begun' \in Nat
    /\ \A e \in InFlight' : e = d \/ (~e.alone /\ \E f \in InFlight : Same(e, f))
    /\ \A f \in InFlight : \E e \in InFlight' : Same(e, f)
    /\ d \in InFlight'
    /\ d.alone => InFlight = {}
    /\ \A e \in InFlight' : e.alone => Len(calls') = 1

LEMMA BeginEffect ==
  ASSUME TypeOK, NEW kind \in Kind, NEW todo, Shape(kind, todo),
         NEW name \in Name \cup {Message}, NEW back \in Name,
         BeginSelection(kind, todo, name, back)
  PROVE  LET d == Call(kind, todo, name, back)
         IN  /\ d \in CallType /\ Begun(d)
             /\ d.kind = kind /\ d.todo = todo /\ d.name = name /\ d.answer = "awaited"
<1> DEFINE d == Call(kind, todo, name, back)
           s == [i \in DOMAIN calls |-> [calls[i] EXCEPT !.alone = FALSE]]
<1>1. /\ d.kind = kind /\ d.todo = todo /\ d.name = name /\ d.answer = "awaited"
      /\ d.alone = (calls = <<>>) /\ d \in CallType
  <2>1. todo \in Seq(Step)
    BY ShapeType
  <2>2. QED
    BY <2>1 DEF Call, CallType
<1>2. calls \in Seq(CallType) /\ begun \in Nat
  BY DEF TypeOK
<1>3. /\ s \in Seq(CallType) /\ Len(s) = Len(calls) /\ DOMAIN s = DOMAIN calls
      /\ \A i \in DOMAIN calls : Same(s[i], calls[i]) /\ ~s[i].alone
  <2>1. \A i \in DOMAIN calls : calls[i] \in CallType
    BY <1>2
  <2>2. \A f \in CallType : /\ [f EXCEPT !.alone = FALSE] \in CallType
                            /\ Same([f EXCEPT !.alone = FALSE], f)
                            /\ ~[f EXCEPT !.alone = FALSE].alone
    BY DEF CallType, Same
  <2>3. ASSUME NEW i \in DOMAIN calls
        PROVE  s[i] \in CallType /\ Same(s[i], calls[i]) /\ ~s[i].alone
    <3>1. s[i] = [calls[i] EXCEPT !.alone = FALSE]
      OBVIOUS
    <3> HIDE DEF s
    <3>2. QED
      BY <2>1, <2>2, <3>1
  <2>4. DOMAIN calls = 1..Len(calls) /\ Len(calls) \in Nat /\ DOMAIN s = DOMAIN calls
    BY <1>2
  <2>5. s = [i \in 1..Len(calls) |-> s[i]]
    BY <2>4
  <2> HIDE DEF d, s
  <2>6. s \in Seq(CallType) /\ Len(s) = Len(calls)
    BY <2>3, <2>4, <2>5
  <2>7. QED
    BY <2>3, <2>4, <2>6
<1>4. calls' = Append(s, d) /\ begun' = begun + 1
  BY DEF BeginSelection
<1> HIDE DEF d, s
<1>5. /\ calls' \in Seq(CallType) /\ Len(calls') = Len(calls) + 1
      /\ DOMAIN calls' = 1..(Len(calls) + 1) /\ DOMAIN calls = 1..Len(calls)
      /\ \A i \in DOMAIN calls : calls'[i] = s[i]
      /\ calls'[Len(calls) + 1] = d
  BY <1>1, <1>2, <1>3, <1>4
<1>6. Len(calls) \in Nat
  BY <1>2
<1>7. InFlight' = {calls'[i] : i \in DOMAIN calls'}
  BY DEF InFlight, Elements
<1>8. ASSUME NEW e \in InFlight'
      PROVE  e = d \/ (~e.alone /\ \E f \in InFlight : Same(e, f))
  <2>1. PICK i \in DOMAIN calls' : e = calls'[i]
    BY <1>7
  <2>2. CASE i = Len(calls) + 1
    BY <1>5, <2>1, <2>2
  <2>3. CASE i # Len(calls) + 1
    <3>1. i \in DOMAIN calls
      BY <1>5, <1>6, <2>3
    <3>2. e = s[i] /\ calls[i] \in InFlight
      BY <1>5, <2>1, <3>1 DEF InFlight, Elements
    <3>3. QED
      BY <1>3, <3>1, <3>2
  <2>4. QED
    BY <2>2, <2>3
<1>9. ASSUME NEW f \in InFlight
      PROVE  \E e \in InFlight' : Same(e, f)
  <2>1. PICK i \in DOMAIN calls : f = calls[i]
    BY DEF InFlight, Elements
  <2>2. i \in DOMAIN calls' /\ calls'[i] = s[i]
    BY <1>5, <1>6
  <2>3. QED
    BY <1>3, <1>7, <2>1, <2>2
<1>10. d \in InFlight'
  BY <1>5, <1>6, <1>7
<1>11. d.alone => calls = <<>> /\ InFlight = {} /\ Len(calls') = 1
  <2>1. SUFFICES ASSUME calls = <<>>
                 PROVE  InFlight = {} /\ Len(calls') = 1
    BY <1>1
  <2>2. Len(calls) = 0
    BY <2>1
  <2>3. DOMAIN calls = {}
    BY <1>5, <2>2
  <2>4. QED
    BY <1>5, <2>2, <2>3 DEF InFlight, Elements
<1>12. begun' \in Nat
  BY <1>2, <1>4
<1>13. Begun(d)
  BY <1>5, <1>8, <1>9, <1>10, <1>11, <1>12 DEF Begun
<1>14. QED
  BY <1>1, <1>13 DEF d

\* What a step of the user does to the page.
Shown ==
    /\ viewer' \in ViewerType /\ editor' \in EditorType /\ recorder' \in RecorderType
    /\ viewer'.text = viewer.text /\ viewer'.utg \in {None, viewer.utg}
    /\ editor'.current = editor.current
    /\ raced' = raced /\ UNCHANGED <<current, expired, expiries>>

LEMMA BegunInvariant ==
  ASSUME IInv, NEW d \in CallType, Begun(d), Shown, view' = view,
         Shape(d.kind, d.todo), d.answer = "awaited", d.kind \notin {"start", "restore"},
         At(d) \in {"set", "release", "save", "current"} \/ d.kind \in {"stopped", "cancel"},
         d.kind \in {"editor", "apply", "ready"} => d.name \in Recording,
         d.kind = "ready" => view = "recorder",
         d.kind = "save" => d.name = viewer.text,
         editor'.loading => editor.loading \/ d.kind = "editor",
         Held(recorder) => Held(recorder'),
         d.kind \in {"apply", "release"} \/ KeptControls(recorder, recorder')
  PROVE  IInv'
<1>1. /\ calls' \in Seq(CallType) /\ begun' \in Nat
      /\ \A e \in InFlight' : e = d \/ (~e.alone /\ \E f \in InFlight : Same(e, f))
      /\ \A f \in InFlight : \E e \in InFlight' : Same(e, f)
      /\ d \in InFlight'
      /\ d.alone => InFlight = {}
      /\ \A e \in InFlight' : e.alone => Len(calls') = 1
  BY DEF Begun
<1>2. current' = current /\ raced' = raced /\ (Settled' <=> Settled)
  BY DEF Shown, Settled
<1>3. TypeOK /\ viewer \in ViewerType
  BY PageParts DEF IInv, TypeOK
<1>4. TypeOK'
  BY <1>1, <1>3, PageParts DEF TypeOK, Shown
<1>5. WellFormed(d)
  <2>1. d.kind = "save" => d.name \in Name \cup {Message}
    BY <1>3 DEF ViewerType
  <2>2. QED
    BY <2>1 DEF WellFormed
<1>6. AllWellFormed'
  <2>1. \A e, f : Same(e, f) /\ WellFormed(f) => WellFormed(e)
    BY DEF Same, WellFormed, At
  <2>2. QED
    BY <1>1, <1>5, <2>1 DEF IInv, AllWellFormed
<1>7. AloneIsAlone'
  BY <1>1 DEF AloneIsAlone
<1>8. "awaited" \notin Recording
  BY NamesAssumption
<1>9. AnswersTrue'
  BY <1>1, <1>2, <1>8 DEF IInv, AnswersTrue, Same
<1>10. ~SetBy(d) /\ ~Listed(d)
  <2>1. /\ d.kind \in {"editor", "apply", "ready"} => At(d) = "set"
        /\ d.kind = "list" => At(d) = "current"
    BY ShapeHeads DEF At
  <2>2. ~SetBy(d)
    BY <2>1 DEF SetBy
  <2>3. ~Listed(d)
    BY <2>1 DEF Listed
  <2>4. QED
    BY <2>2, <2>3
<1>11. SetTrue'
  BY <1>1, <1>2, <1>10 DEF IInv, SetTrue, Same, SetBy, At
<1>12. TextTrue'
  BY <1>1, <1>2 DEF IInv, TextTrue, Same, OwesText, JustSet, At, Shown
<1>13. UtgTrue'
  BY <1>1, <1>2 DEF IInv, UtgTrue, Same, OwesUtg, JustSet, At, Shown
<1>14. EditorTrue'
  <2> SUFFICES ASSUME Settled', editor'.current \notin {None, current'},
                      ~(\E e \in InFlight' : OwesEditor(e))
               PROVE  view' # "editor" /\ \A e \in InFlight' : ~Listed(e)
    BY DEF EditorTrue
  <2>1. \A f \in InFlight : ~OwesEditor(f)
    BY <1>1 DEF Same, OwesEditor, JustSet, At
  <2>2. view # "editor" /\ \A f \in InFlight : ~Listed(f)
    BY <1>2, <2>1 DEF IInv, EditorTrue, Shown
  <2>3. QED
    BY <1>1, <1>10, <2>2 DEF Same, Listed, At
<1>15. ReadyView'
  BY <1>1 DEF ReadyView
<1>16. SaveTrue'
  <2>1. ASSUME Settled, d.kind = "save", d.alone
        PROVE  d.name \in {None, Message, current}
    BY <1>1, <2>1 DEF IInv, TextTrue
  <2>2. QED
    BY <1>1, <1>2, <2>1 DEF SaveTrue
<1>17. LoadingOwned'
  BY <1>1 DEF IInv, LoadingOwned, Same
<1>18. DisabledOwned'
  BY <1>1 DEF IInv, DisabledOwned, Same, KeptControls
<1>19. RecordingHeld'
  BY DEF IInv, RecordingHeld
<1>20. QED
  BY <1>4, <1>6, <1>7, <1>9, <1>11, <1>12, <1>13, <1>14, <1>15, <1>16, <1>17, <1>18, <1>19
     DEF IInv

\* A step that begins no call.
LEMMA ShownInvariant ==
  ASSUME IInv, calls' = calls, begun' = begun,
         viewer' \in ViewerType, editor' \in EditorType, recorder' \in RecorderType,
         viewer'.text = viewer.text, viewer'.utg = viewer.utg,
         editor'.current = editor.current, editor'.loading = editor.loading,
         KeptControls(recorder, recorder'),
         view' \in {view, "recorder"},
         current' = current, raced' = raced, expired' \in BOOLEAN, expiries' \in Nat
  PROVE  IInv'
<1>1. InFlight' = InFlight
  BY DEF InFlight, Elements
<1>2. TypeOK'
  BY PageParts DEF IInv, TypeOK
<1>3. AllWellFormed' /\ AloneIsAlone'
  BY <1>1 DEF IInv, AllWellFormed, AloneIsAlone
<1>4. AnswersTrue' /\ SetTrue' /\ SaveTrue'
  BY <1>1 DEF IInv, AnswersTrue, SetTrue, SaveTrue, Settled
<1>5. TextTrue' /\ UtgTrue' /\ EditorTrue'
  BY <1>1 DEF IInv, TextTrue, UtgTrue, EditorTrue, Settled
<1>6. ReadyView' /\ LoadingOwned' /\ DisabledOwned' /\ RecordingHeld'
  BY <1>1 DEF IInv, ReadyView, LoadingOwned, DisabledOwned, RecordingHeld, KeptControls
<1>7. QED
  BY <1>2, <1>3, <1>4, <1>5, <1>6 DEF IInv

LEMMA UserParts ==
  ASSUME IInv
  PROVE  /\ viewer \in ViewerType /\ editor \in EditorType /\ recorder \in RecorderType
         /\ viewer.text \in Name \cup {Message} /\ recorder.current \in Name
         /\ Previous \in Name /\ None \in Name /\ Recording \subseteq Name
         /\ Name \subseteq Name \cup {Message} /\ begun \in Nat /\ expiries \in Nat
         /\ TypeOK
<1>1. viewer \in ViewerType /\ editor \in EditorType /\ recorder \in RecorderType
  BY PageParts DEF IInv, TypeOK
<1>2. Previous \in Name
  BY <1>1 DEF Previous, RecorderType
<1>3. QED
  BY <1>1, <1>2 DEF ViewerType, RecorderType, Name, IInv, TypeOK

\* The calls that the user's functions begin with.
LEMMA UserTodos ==
  /\ switchToRecording \o <<"details">> = SettingOn /\ switchToRecording = Setting
  /\ applied = Setting /\ loadRecordings \o <<"details">> = LoadingList
  /\ <<"release">> = Releasing /\ <<"utg">> = Drawing /\ <<"info">> = Informing
  /\ <<"save">> = Saving
  BY TodoJoin DEF Releasing, Drawing, Informing, Saving

LEMMA SwitchBegun ==
  ASSUME IInv, NEW name \in Recording, switchRecording(name)
  PROVE  IInv'
<1> DEFINE d == Call("editor", SettingOn, name, None)
<1>1. /\ BeginSelection("editor", SettingOn, name, None)
      /\ editor' = [editor EXCEPT !.loading = TRUE]
      /\ UNCHANGED <<view, viewer, recorder, raced>> /\ unchangedServer
  BY UserTodos DEF switchRecording, Begin
<1>2. Shape("editor", SettingOn)
  BY DEF Shape
<1>3. /\ d \in CallType /\ Begun(d)
      /\ d.kind = "editor" /\ d.todo = SettingOn /\ d.name = name /\ d.answer = "awaited"
  BY <1>1, <1>2, UserParts, BeginEffect DEF Kind
<1> HIDE DEF d
<1>4. Shown
  BY <1>1, UserParts DEF Shown, unchangedServer, EditorType
<1>5. recorder' = recorder /\ view' = view
  BY <1>1
<1>6. KeptControls(recorder, recorder') /\ (Held(recorder) => Held(recorder'))
  BY <1>5, KeepsControls
<1>7. At(d) = "set"
  BY <1>3, TodoHead DEF At
<1>8. QED
  BY <1>2, <1>3, <1>4, <1>5, <1>6, <1>7, BegunInvariant

LEMMA SelectionApplied ==
  ASSUME IInv, NEW name \in Recording, applyRecordingSelection(name)
  PROVE  IInv'
<1>1. /\ UNCHANGED <<view, viewer, editor, raced>> /\ unchangedServer
  BY DEF applyRecordingSelection
<1> DEFINE r == [recorder EXCEPT !.selected = name]
<1>0. /\ r \in RecorderType /\ r.disabled = recorder.disabled
      /\ r.recording = recorder.recording /\ r.starting = recorder.starting
  BY UserParts DEF RecorderType
<1>2. CASE recorder' = updateSelectionDisplay(r) /\ UNCHANGED <<calls, begun>>
  <2>1. recorder' \in RecorderType /\ KeptControls(recorder, recorder')
    <3> HIDE DEF r
    <3>1. QED
      BY <1>0, <1>2, Selection DEF KeptControls, Held
  <2>2. viewer' = viewer /\ editor' = editor /\ view' = view /\ raced' = raced
        /\ current' = current /\ expired' = expired /\ expiries' = expiries
    BY <1>1 DEF unchangedServer
  <2>3. QED
    BY <1>2, <2>1, <2>2, UserParts, ShownInvariant DEF TypeOK
<1>3. CASE /\ recorder' = setSelectionControlsDisabled(r, TRUE)
           /\ BeginSelection("apply", applied, name, Previous)
  <2> DEFINE d == Call("apply", Setting, name, Previous)
  <2>1. BeginSelection("apply", Setting, name, Previous)
    BY <1>3, UserTodos
  <2>2. Shape("apply", Setting)
    BY DEF Shape
  <2>3. /\ d \in CallType /\ Begun(d)
        /\ d.kind = "apply" /\ d.todo = Setting /\ d.name = name /\ d.answer = "awaited"
    BY <2>1, <2>2, UserParts, BeginEffect DEF Kind
  <2> HIDE DEF d
  <2>4. recorder' \in RecorderType /\ Held(recorder')
    <3> HIDE DEF r
    <3>1. QED
      BY <1>0, <1>3, Controls DEF Held
  <2>5. Shown
    BY <1>1, <2>4, UserParts DEF Shown, unchangedServer
  <2>6. editor' = editor /\ view' = view
    BY <1>1
  <2>7. At(d) = "set"
    BY <2>3, TodoHead DEF At
  <2>8. QED
    BY <2>2, <2>3, <2>4, <2>5, <2>6, <2>7, BegunInvariant
<1>4. QED
  BY <1>2, <1>3 DEF applyRecordingSelection

LEMMA SelectionCleared ==
  ASSUME IInv, clearCurrentSelection
  PROVE  IInv'
<1> DEFINE d == Call("release", Releasing, None, Previous)
<1>1. /\ BeginSelection("release", Releasing, None, Previous)
      /\ recorder' = setSelectionControlsDisabled([recorder EXCEPT !.selected = None], TRUE)
      /\ UNCHANGED <<view, viewer, editor, raced>> /\ unchangedServer
  BY UserTodos DEF clearCurrentSelection
<1>2. Shape("release", Releasing)
  BY DEF Shape
<1>3. /\ d \in CallType /\ Begun(d)
      /\ d.kind = "release" /\ d.todo = Releasing /\ d.answer = "awaited"
  BY <1>1, <1>2, UserParts, BeginEffect DEF Kind
<1> HIDE DEF d
<1>4. recorder' \in RecorderType /\ Held(recorder')
  <2> DEFINE r == [recorder EXCEPT !.selected = None]
  <2>1. r \in RecorderType
    BY UserParts DEF RecorderType
  <2>2. recorder' = setSelectionControlsDisabled(r, TRUE)
    BY <1>1
  <2> HIDE DEF r
  <2>3. QED
    BY <2>1, <2>2, Controls DEF Held
<1>5. Shown
  BY <1>1, <1>4, UserParts DEF Shown, unchangedServer
<1>6. editor' = editor /\ view' = view
  BY <1>1
<1>7. At(d) = "release"
  BY <1>3, TodoHead DEF At
<1>8. QED
  BY <1>2, <1>3, <1>4, <1>5, <1>6, <1>7, BegunInvariant

LEMMA ModeSwitched ==
  ASSUME IInv, switchRecordingMode
  PROVE  IInv'
<1> DEFINE r == [recorder EXCEPT
                    !.mode = IF @ = "new_task" THEN "append_data" ELSE "new_task"]
<1>1. /\ recorder' = updateSelectionDisplay(r)
      /\ UNCHANGED <<view, viewer, editor, calls, begun, raced>> /\ unchangedServer
  BY DEF switchRecordingMode
<1>2. /\ r \in RecorderType /\ r.disabled = recorder.disabled
      /\ r.recording = recorder.recording /\ r.starting = recorder.starting
  BY UserParts DEF RecorderType
<1> HIDE DEF r
<1>3. recorder' \in RecorderType /\ KeptControls(recorder, recorder')
  BY <1>1, <1>2, Selection DEF KeptControls, Held
<1>4. QED
  BY <1>1, <1>3, UserParts, ShownInvariant DEF TypeOK, unchangedServer

LEMMA RecordingStarted ==
  ASSUME IInv, startRecording
  PROVE  IInv'
<1>1. PICK sent \in BOOLEAN :
        recorder' = [setSelectionControlsDisabled(recorder, sent)
                        EXCEPT !.starting = sent, !.modes = ~sent]
  BY DEF startRecording
<1>2. /\ UNCHANGED <<view, viewer, editor, calls, begun, raced>> /\ unchangedServer
      /\ ~recorder.recording
  BY DEF startRecording
<1> DEFINE r == setSelectionControlsDisabled(recorder, sent)
<1>3. r \in RecorderType /\ r.disabled = sent /\ ~r.recording
  BY <1>2, UserParts, Controls
<1>4. recorder' = [r EXCEPT !.starting = sent, !.modes = ~sent]
  BY <1>1
<1> HIDE DEF r
<1>5. /\ recorder' \in RecorderType /\ recorder'.disabled = sent /\ recorder'.starting = sent
      /\ ~recorder'.recording
  BY <1>3, <1>4 DEF RecorderType
<1>6. KeptControls(recorder, recorder')
  BY <1>5 DEF KeptControls, Held
<1>7. QED
  BY <1>2, <1>5, <1>6, UserParts, ShownInvariant DEF TypeOK, unchangedServer

LEMMA RecordingFailed ==
  ASSUME IInv, handleRecordingError
  PROVE  IInv'
<1>1. /\ recorder' = disconnect(recorder)
      /\ UNCHANGED <<view, viewer, editor, calls, begun, raced>> /\ unchangedServer
  BY DEF handleRecordingError
<1>2. recorder' \in RecorderType /\ KeptControls(recorder, recorder')
  BY <1>1, UserParts, Disconnected DEF KeptControls, Held
<1>3. QED
  BY <1>1, <1>2, UserParts, ShownInvariant DEF TypeOK, unchangedServer

LEMMA ConnectionRefreshed ==
  ASSUME IInv, refreshConnectionState
  PROVE  IInv'
<1>1. /\ recorder' = updateConnectionState(recorder)
      /\ UNCHANGED <<view, viewer, editor, calls, begun, raced>> /\ unchangedServer
  BY DEF refreshConnectionState
<1>2. recorder' \in RecorderType /\ KeptControls(recorder, recorder')
  BY <1>1, UserParts, Connection DEF KeptControls, Held
<1>3. QED
  BY <1>1, <1>2, UserParts, ShownInvariant DEF TypeOK, unchangedServer

LEMMA RecordingReady ==
  ASSUME IInv, NEW name \in Recording, handleRecordingReady(name)
  PROVE  IInv'
<1> DEFINE d == Call("ready", Setting, name, None)
<1>1. /\ BeginSelection("ready", Setting, name, None) /\ view = "recorder"
      /\ recorder' = setSelectionControlsDisabled([recorder EXCEPT
                !.recording = TRUE, !.current = name, !.starting = FALSE], TRUE)
      /\ UNCHANGED <<view, viewer, editor, raced>> /\ unchangedServer
  BY UserTodos DEF handleRecordingReady, Begin
<1>2. Shape("ready", Setting)
  BY DEF Shape
<1>3. /\ d \in CallType /\ Begun(d)
      /\ d.kind = "ready" /\ d.todo = Setting /\ d.name = name /\ d.answer = "awaited"
  BY <1>1, <1>2, UserParts, BeginEffect DEF Kind
<1> HIDE DEF d
<1>4. /\ recorder' \in RecorderType
      /\ KeptControls(recorder, recorder') /\ (Held(recorder) => Held(recorder'))
  <2> DEFINE r == [recorder EXCEPT !.recording = TRUE, !.current = name, !.starting = FALSE]
  <2>1. r \in RecorderType /\ r.recording
    BY UserParts DEF RecorderType
  <2>2. recorder' = setSelectionControlsDisabled(r, TRUE)
    BY <1>1
  <2> HIDE DEF r
  <2>3. recorder' \in RecorderType /\ recorder'.recording /\ recorder'.disabled /\ ~recorder'.clear
    BY <2>1, <2>2, Controls
  <2>4. QED
    BY <2>3 DEF KeptControls, Held
<1>5. Shown
  BY <1>1, <1>4, UserParts DEF Shown, unchangedServer
<1>6. editor' = editor /\ view' = view
  BY <1>1
<1>7. At(d) = "set"
  BY <1>3, TodoHead DEF At
<1>8. QED
  BY <1>1, <1>2, <1>3, <1>4, <1>5, <1>6, <1>7, BegunInvariant

LEMMA RecordingStopped ==
  ASSUME IInv, handleRecordingStopped
  PROVE  IInv'
<1>1. /\ recorder' = disconnect(recorder)
      /\ UNCHANGED <<view, editor, raced>> /\ unchangedServer
  BY DEF handleRecordingStopped
<1>2. /\ recorder' \in RecorderType
      /\ KeptControls(recorder, recorder') /\ (Held(recorder) => Held(recorder'))
  BY <1>1, UserParts, Disconnected DEF KeptControls, Held
<1>3. CASE UNCHANGED <<calls, begun, viewer>>
  BY <1>1, <1>2, <1>3, UserParts, ShownInvariant DEF TypeOK, unchangedServer
<1>4. CASE Begin("stopped", <<"utg">>, None) /\ viewer' = [viewer EXCEPT !.utg = None]
  <2> DEFINE d == Call("stopped", Drawing, None, None)
  <2>1. BeginSelection("stopped", Drawing, None, None)
    BY <1>4, UserTodos DEF Begin
  <2>2. Shape("stopped", Drawing)
    BY DEF Shape
  <2>3. /\ d \in CallType /\ Begun(d)
        /\ d.kind = "stopped" /\ d.todo = Drawing /\ d.answer = "awaited"
    BY <2>1, <2>2, UserParts, BeginEffect DEF Kind
  <2> HIDE DEF d
  <2>4. viewer' \in ViewerType /\ viewer'.text = viewer.text /\ viewer'.utg = None
    BY <1>4, UserParts DEF ViewerType
  <2>5. Shown
    BY <1>1, <1>2, <2>4, UserParts DEF Shown, unchangedServer
  <2>6. editor' = editor /\ view' = view
    BY <1>1
  <2>7. QED
    BY <1>2, <2>2, <2>3, <2>5, <2>6, BegunInvariant
<1>5. QED
  BY <1>3, <1>4 DEF handleRecordingStopped

LEMMA EditBegun ==
  ASSUME IInv, enterTaskInfoEditMode
  PROVE  IInv'
<1>1. /\ viewer' = [viewer EXCEPT !.edit = TRUE]
      /\ UNCHANGED <<view, editor, recorder, calls, begun, raced>> /\ unchangedServer
  BY DEF enterTaskInfoEditMode
<1>2. viewer' \in ViewerType /\ viewer'.text = viewer.text /\ viewer'.utg = viewer.utg
  BY <1>1, UserParts DEF ViewerType
<1>3. KeptControls(recorder, recorder')
  BY <1>1, KeepsControls
<1>4. QED
  BY <1>1, <1>2, <1>3, UserParts, ShownInvariant DEF TypeOK, unchangedServer

LEMMA EditCancelled ==
  ASSUME IInv, cancelTaskInfoEdit
  PROVE  IInv'
<1> DEFINE d == Call("cancel", Informing, None, None)
<1>1. /\ BeginSelection("cancel", Informing, None, None)
      /\ viewer' = exitTaskInfoEditMode(viewer)
      /\ UNCHANGED <<view, editor, recorder, raced>> /\ unchangedServer
  BY UserTodos DEF cancelTaskInfoEdit, Begin
<1>2. Shape("cancel", Informing)
  BY DEF Shape
<1>3. /\ d \in CallType /\ Begun(d)
      /\ d.kind = "cancel" /\ d.todo = Informing /\ d.answer = "awaited"
  BY <1>1, <1>2, UserParts, BeginEffect DEF Kind
<1> HIDE DEF d
<1>4. viewer' \in ViewerType /\ viewer'.text = viewer.text /\ viewer'.utg = viewer.utg
  BY <1>1, UserParts DEF ViewerType, exitTaskInfoEditMode
<1>5. Shown
  BY <1>1, <1>4, UserParts DEF Shown, unchangedServer
<1>6. editor' = editor /\ recorder' = recorder /\ view' = view
  BY <1>1
<1>7. KeptControls(recorder, recorder') /\ (Held(recorder) => Held(recorder'))
  BY <1>6, KeepsControls
<1>8. QED
  BY <1>2, <1>3, <1>5, <1>6, <1>7, BegunInvariant

LEMMA SaveBegun ==
  ASSUME IInv, saveTaskInfo
  PROVE  IInv'
<1> DEFINE d == Call("save", Saving, viewer.text, None)
<1>1. /\ BeginSelection("save", Saving, viewer.text, None)
      /\ viewer' = [viewer EXCEPT !.saving = TRUE]
      /\ UNCHANGED <<view, editor, recorder, raced>> /\ unchangedServer
  BY UserTodos DEF saveTaskInfo, Begin
<1>2. Shape("save", Saving)
  BY DEF Shape
<1>3. /\ d \in CallType /\ Begun(d)
      /\ d.kind = "save" /\ d.todo = Saving /\ d.name = viewer.text /\ d.answer = "awaited"
  BY <1>1, <1>2, UserParts, BeginEffect DEF Kind
<1> HIDE DEF d
<1>4. viewer' \in ViewerType /\ viewer'.text = viewer.text /\ viewer'.utg = viewer.utg
  BY <1>1, UserParts DEF ViewerType
<1>5. Shown
  BY <1>1, <1>4, UserParts DEF Shown, unchangedServer
<1>6. editor' = editor /\ recorder' = recorder /\ view' = view
  BY <1>1
<1>7. KeptControls(recorder, recorder') /\ (Held(recorder) => Held(recorder'))
  BY <1>6, KeepsControls
<1>8. At(d) = "save"
  BY <1>3, TodoHead DEF At
<1>9. QED
  BY <1>2, <1>3, <1>5, <1>6, <1>7, <1>8, BegunInvariant

LEMMA EditorShown ==
  ASSUME IInv, showDataEditor
  PROVE  IInv'
<1> DEFINE d == Call("list", LoadingList, None, None)
<1>1. /\ BeginSelection("list", LoadingList, None, None)
      /\ recorder' \in {recorder, disconnect(recorder)}
      /\ UNCHANGED <<view, viewer, editor, raced>> /\ unchangedServer
  BY UserTodos DEF showDataEditor, Begin
<1>2. Shape("list", LoadingList)
  BY DEF Shape
<1>3. /\ d \in CallType /\ Begun(d)
      /\ d.kind = "list" /\ d.todo = LoadingList /\ d.answer = "awaited"
  BY <1>1, <1>2, UserParts, BeginEffect DEF Kind
<1> HIDE DEF d
<1>4. /\ recorder' \in RecorderType
      /\ KeptControls(recorder, recorder') /\ (Held(recorder) => Held(recorder'))
  BY <1>1, UserParts, KeepsControls, Disconnected DEF KeptControls, Held
<1>5. Shown
  BY <1>1, <1>4, UserParts DEF Shown, unchangedServer
<1>6. editor' = editor /\ view' = view
  BY <1>1
<1>7. At(d) = "current"
  BY <1>3, TodoHead DEF At
<1>8. QED
  BY <1>2, <1>3, <1>4, <1>5, <1>6, <1>7, BegunInvariant

LEMMA RecorderShown ==
  ASSUME IInv, showTaskRecorder
  PROVE  IInv'
<1> DEFINE r == updateConnectionState(recorder)
<1>1. /\ view' = "recorder" /\ recorder' = [r EXCEPT !.starting = FALSE]
      /\ UNCHANGED <<viewer, editor, calls, begun, raced>> /\ unchangedServer
  BY DEF showTaskRecorder
<1>2. recorder' \in RecorderType /\ KeptControls(recorder, recorder')
  <2>1. /\ r \in RecorderType /\ r.disabled = r.recording
        /\ r.recording => ~r.clear
    BY UserParts, Connection
  <2> HIDE DEF r
  <2>2. QED
    BY <1>1, <2>1 DEF RecorderType, KeptControls, Held
<1>3. QED
  BY <1>1, <1>2, UserParts, ShownInvariant DEF TypeOK, unchangedServer

LEMMA UserInvariant ==
  ASSUME IInv, User
  PROVE  IInv'
  BY SwitchBegun, SelectionApplied, SelectionCleared, ModeSwitched, RecordingStarted,
     RecordingReady, RecordingStopped, RecordingFailed, ConnectionRefreshed, EditBegun, EditCancelled, SaveBegun, EditorShown, RecorderShown DEF User

LEMMA ExpireInvariant ==
  ASSUME IInv, Expire
  PROVE  IInv'
<1>1. /\ expired' = TRUE /\ expiries' = expiries + 1
      /\ UNCHANGED <<current, view, viewer, editor, recorder, calls, begun, raced>>
  BY DEF Expire
<1>2. KeptControls(recorder, recorder')
  BY <1>1, KeepsControls
<1>3. expiries' \in Nat
  BY <1>1, UserParts
<1>4. QED
  BY <1>1, <1>2, <1>3, UserParts, ShownInvariant

\* What the server may answer, and what it then works on.
LEMMA ServedAnswer ==
  ASSUME TypeOK, NEW c \in CallType, WellFormed(c), NEW a \in Answers(c)
  PROVE  /\ At(c) \in Plain => a \in {"ok"} \cup Refusals
         /\ At(c) \notin Plain => a \in {current} \cup Refusals
         /\ a \in Recording => a = current
         /\ a \in Name \cup {"awaited", "ok"} \cup Refusals
         /\ (At(c) = "set" /\ a = "ok") => c.name \in Recording
<1>1. At(c) \in Step
  BY ShapeHeads DEF WellFormed, At
<1>2. /\ At(c) \in {"create", "recordings", "set", "release"} => a \in {"ok"} \cup Refusals
      /\ At(c) \notin {"create", "recordings", "set", "release"} => a \in {current} \cup Refusals
  BY <1>1 DEF Answers, At, Refusals, Step
<1>3. At(c) = "set" => c.name \in Recording
  BY ShapeSteps DEF WellFormed, At
<1>4. current \in Name
  BY DEF TypeOK
<1>5. ({"ok"} \cup Refusals) \cap Recording = {}
  BY NamesAssumption
<1>6. QED
  BY <1>2, <1>3, <1>4, <1>5 DEF Plain

LEMMA UpdatedCalls ==
  ASSUME NEW s \in Seq(CallType), NEW i \in DOMAIN s, NEW d \in CallType
  PROVE  /\ [s EXCEPT ![i] = d] \in Seq(CallType) /\ Len([s EXCEPT ![i] = d]) = Len(s)
         /\ Elements([s EXCEPT ![i] = d]) \subseteq Elements(s) \cup {d}
         /\ Elements(s) \ {s[i]} \subseteq Elements([s EXCEPT ![i] = d])
         /\ d \in Elements([s EXCEPT ![i] = d])
  BY Updated

LEMMA ServeInvariant ==
  ASSUME IInv, NEW i \in DOMAIN calls, Serve(i)
  PROVE  IInv'
<1> DEFINE c == calls[i]
<1>1. TypeOK /\ c \in CallType /\ WellFormed(c) /\ c \in InFlight /\ calls \in Seq(CallType)
  BY CallsType DEF IInv, AllWellFormed, TypeOK
<1>2. PICK a \in Answers(c), lost \in BOOLEAN :
        /\ lost => a = "ok" /\ At(c) \in {"set", "release"}
        /\ calls' = [calls EXCEPT ![i].answer = IF lost THEN "failed" ELSE a]
        /\ current' = CASE At(c) = "set" /\ a = "ok" -> c.name
                        [] At(c) = "release" /\ a = "ok" -> None
                        [] OTHER -> current
        /\ raced' = (raced \/ (current' # current /\ (lost \/ ~c.alone)))
  BY DEF Serve, At
<1>3. UNCHANGED <<expired, expiries, view, viewer, editor, recorder, begun>>
  BY DEF Serve
<1>4. c.answer = "awaited"
  BY DEF Serve
<1> DEFINE b == IF lost THEN "failed" ELSE a
           d == [c EXCEPT !.answer = b]
<1>5. /\ At(c) \in Plain => a \in {"ok"} \cup Refusals
      /\ At(c) \notin Plain => a \in {current} \cup Refusals
      /\ a \in Recording => a = current
      /\ a \in Name \cup {"awaited", "ok"} \cup Refusals
      /\ (At(c) = "set" /\ a = "ok") => c.name \in Recording
  BY <1>1, ServedAnswer
<1>5a. /\ At(c) \in Plain => b \in {"ok"} \cup Refusals
       /\ At(c) \notin Plain => b \in {current} \cup Refusals
       /\ b \in Recording => b = current
       /\ b \in Name \cup {"awaited", "ok"} \cup Refusals
       /\ b = "ok" => a = "ok"
       /\ ~lost => b = a
  <2>1. "failed" \notin Recording /\ "failed" \in Refusals
    BY NamesAssumption DEF Refusals
  <2>2. CASE lost
    BY <1>2, <2>1, <2>2 DEF Plain
  <2>3. CASE ~lost
    BY <1>5, <2>3
  <2>4. QED
    BY <2>2, <2>3
<1> HIDE DEF b
<1>6. /\ d \in CallType /\ d.kind = c.kind /\ d.todo = c.todo /\ d.answer = b
      /\ d.name = c.name /\ d.alone = c.alone /\ At(d) = At(c)
  BY <1>1, <1>5a DEF CallType, At
<1>7. calls' = [calls EXCEPT ![i] = d]
  BY <1>2 DEF b
<1> HIDE DEF c, d
<1>8. /\ calls' \in Seq(CallType) /\ Len(calls') = Len(calls)
      /\ InFlight' \subseteq InFlight \cup {d}
      /\ InFlight \ {c} \subseteq InFlight'
      /\ d \in InFlight'
  <2>1. InFlight' = Elements([calls EXCEPT ![i] = d])
    BY <1>7 DEF InFlight, Elements
  <2>2. c = calls[i]
    BY DEF c
  <2>3. QED
    BY <1>1, <1>6, <1>7, <2>1, <2>2, UpdatedCalls DEF InFlight
<1>9. TypeOK'
  <2>1. current' \in Name
    BY <1>1, <1>2, <1>5 DEF TypeOK, Name
  <2>2. raced' \in BOOLEAN
    BY <1>1, <1>2 DEF TypeOK
  <2>3. Page' = Page
    BY <1>3 DEF Page
  <2>4. expired' \in BOOLEAN /\ expiries' \in Nat /\ begun' \in Nat
        /\ view' \in {"none", "recorder", "editor", "failed"}
    BY <1>1, <1>3 DEF TypeOK
  <2>5. QED
    BY <1>1, <1>8, <2>1, <2>2, <2>3, <2>4 DEF TypeOK
<1>10. AllWellFormed'
  <2>1. current \in Name
    BY <1>1 DEF TypeOK
  <2>2. At(c) \in Plain => d.answer \in {"awaited", "ok"} \cup Refusals
    BY <1>5a, <1>6
  <2>3. At(c) \notin Plain => d.answer \in Name \cup {"awaited"} \cup Refusals
    BY <1>5a, <1>6, <2>1
  <2>4. WellFormed(d)
    BY <1>1, <1>6, <2>2, <2>3 DEF WellFormed
  <2>5. QED
    BY <1>8, <2>4 DEF IInv, AllWellFormed
<1>11. AloneIsAlone'
  BY <1>1, <1>6, <1>8 DEF IInv, AloneIsAlone
<1>12. ReadyView'
  BY <1>1, <1>3, <1>6, <1>8 DEF IInv, ReadyView
<1>13. LoadingOwned'
  BY <1>3, <1>6, <1>8 DEF IInv, LoadingOwned
<1>14. DisabledOwned' /\ RecordingHeld'
  BY <1>3, <1>6, <1>8 DEF IInv, DisabledOwned, RecordingHeld, Held
<1>15. CASE current' = current
  <2>1. raced' = raced
    BY <1>1, <1>2, <1>15 DEF TypeOK, CallType
  <2>2. Settled' <=> Settled
    BY <1>15, <2>1 DEF Settled
  <2>3. AnswersTrue'
    BY <1>5a, <1>6, <1>8, <1>15, <2>2 DEF IInv, AnswersTrue
  <2>4. SetTrue'
    <3>1. ASSUME Settled, SetBy(d)
          PROVE  d.name = current
      <4>1. CASE At(c) = "set" /\ b = "ok"
        BY <1>2, <1>5a, <1>6, <1>15, <4>1
      <4>2. CASE ~(At(c) = "set" /\ b = "ok")
        <5>1. SetBy(c)
          BY <1>6, <3>1, <4>2 DEF SetBy
        <5>2. QED
          BY <1>1, <1>6, <3>1, <5>1 DEF IInv, SetTrue
      <4>3. QED
        BY <4>1, <4>2
    <3>2. QED
      BY <1>8, <1>15, <2>2, <3>1 DEF IInv, SetTrue
  <2>5. /\ OwesText(c) => OwesText(d)
        /\ OwesUtg(c) => OwesUtg(d)
        /\ OwesEditor(c) => OwesEditor(d)
        /\ Listed(d) => Listed(c)
    BY <1>4, <1>6 DEF OwesText, OwesUtg, OwesEditor, Listed, JustSet
  <2>6. TextTrue'
    BY <1>3, <1>8, <1>15, <2>2, <2>5 DEF IInv, TextTrue
  <2>7. UtgTrue'
    BY <1>3, <1>8, <1>15, <2>2, <2>5 DEF IInv, UtgTrue
  <2>8. EditorTrue'
    <3> SUFFICES ASSUME Settled', editor'.current \notin {None, current'},
                        ~(\E e \in InFlight' : OwesEditor(e))
                 PROVE  view' # "editor" /\ \A e \in InFlight' : ~Listed(e)
      BY DEF EditorTrue
    <3>1. \A e \in InFlight : ~OwesEditor(e)
      BY <1>8, <2>5
    <3>2. view # "editor" /\ \A e \in InFlight : ~Listed(e)
      BY <1>3, <1>15, <2>2, <3>1 DEF IInv, EditorTrue
    <3>3. QED
      BY <1>1, <1>3, <1>8, <2>5, <3>2
  <2>9. SaveTrue'
    BY <1>1, <1>6, <1>8, <1>15, <2>2 DEF IInv, SaveTrue
  <2>10. QED
    BY <1>9, <1>10, <1>11, <1>12, <1>13, <1>14, <2>3, <2>4, <2>6, <2>7, <2>8, <2>9 DEF IInv
<1>16. CASE current' # current /\ ~Settled'
  <2>1. AnswersTrue' /\ SetTrue' /\ TextTrue' /\ UtgTrue' /\ EditorTrue' /\ SaveTrue'
    BY <1>16 DEF AnswersTrue, SetTrue, TextTrue, UtgTrue, EditorTrue, SaveTrue
  <2>2. QED
    BY <1>9, <1>10, <1>11, <1>12, <1>13, <1>14, <2>1 DEF IInv
<1>17. CASE current' # current /\ Settled'
  <2>1. c.alone /\ ~lost
    BY <1>2, <1>17 DEF Settled
  <2>2. InFlight' = {d}
    <3>1. Len(calls) = 1 /\ i \in 1..Len(calls)
      BY <1>1, <2>1 DEF IInv, AloneIsAlone
    <3>2. DOMAIN calls' = {1} /\ calls'[1] = d
      BY <1>1, <1>7, <1>8, <3>1
    <3>3. QED
      BY <3>2 DEF InFlight, Elements
  <2>3. At(c) = "set" /\ b = "ok" /\ current' = c.name
    BY <1>2, <1>5a, <1>17, <2>1 DEF Settled
  <2>4. /\ c.kind \in {"editor", "apply", "ready"}
        /\ c.kind = "ready" => view = "recorder"
    <3>1. c.kind \in {"editor", "apply", "ready"}
      BY <1>1, <2>3, ShapeSteps DEF WellFormed, At
    <3>2. QED
      BY <1>1, <2>1, <3>1 DEF IInv, ReadyView
  <2>5. d.kind = c.kind /\ d.answer = "ok" /\ d.name = current' /\ At(d) = "set" /\ JustSet(d)
    BY <1>6, <2>3 DEF JustSet
  <2>6. "ok" \notin Recording
    BY NamesAssumption
  <2>7. AnswersTrue' /\ SetTrue' /\ SaveTrue'
    BY <2>2, <2>4, <2>5, <2>6 DEF AnswersTrue, SetTrue, SaveTrue
  <2>8. TextTrue' /\ UtgTrue'
    BY <2>2, <2>5 DEF TextTrue, UtgTrue, OwesText, OwesUtg
  <2>9. EditorTrue'
    <3>1. CASE d.kind \in {"editor", "apply"}
      BY <2>2, <2>5, <3>1 DEF EditorTrue, OwesEditor
    <3>2. CASE d.kind = "ready"
      BY <1>3, <2>2, <2>4, <2>5, <3>2 DEF EditorTrue, Listed
    <3>3. QED
      BY <2>4, <2>5, <3>1, <3>2
  <2>10. QED
    BY <1>9, <1>10, <1>11, <1>12, <1>13, <1>14, <2>7, <2>8, <2>9 DEF IInv
<1>18. QED
  BY <1>15, <1>16, <1>17

(***************************************************************************)
(* The theorems.                                                           *)
(***************************************************************************)

LEMMA InitInvariant == Init => IInv
<1> SUFFICES ASSUME Init
             PROVE  IInv
  OBVIOUS
<1> DEFINE d == [kind |-> "start", todo |-> Booting, answer |-> "awaited",
                 alone |-> TRUE, name |-> None, back |-> None]
<1>1. calls = <<d>> /\ <<"boot">> = Booting
  BY DEF Init, Booting
<1>2. Booting \in Seq(Step) /\ Head(Booting) = "boot"
  BY TodoType, TodoHead DEF Todos
<1>3. /\ d \in CallType /\ d.kind = "start" /\ At(d) = "boot" /\ d.todo = Booting
      /\ d.answer = "awaited" /\ d.name = None
  BY <1>2 DEF CallType, Kind, Name, At
<1> HIDE DEF d
<1>4. InFlight = {d} /\ Len(calls) = 1 /\ calls \in Seq(CallType)
  BY <1>1, <1>3 DEF InFlight, Elements
<1>5. TypeOK
  <2>1. /\ viewer \in ViewerType /\ editor \in EditorType /\ recorder \in RecorderType
    BY DEF Init, ViewerType, EditorType, RecorderType, Name
  <2>2. QED
    BY <1>4, <2>1, PageParts DEF Init, TypeOK, Name
<1>6. WellFormed(d)
  BY <1>3 DEF WellFormed, Shape, Plain, Name
<1>7. AllWellFormed /\ AloneIsAlone
  BY <1>4, <1>6 DEF AllWellFormed, AloneIsAlone
<1>8. "awaited" \notin Recording
  BY NamesAssumption
<1>9. AnswersTrue /\ SetTrue /\ SaveTrue /\ ReadyView
  BY <1>3, <1>4, <1>8 DEF AnswersTrue, SetTrue, SaveTrue, ReadyView, SetBy
<1>10. TextTrue /\ UtgTrue /\ EditorTrue /\ LoadingOwned /\ DisabledOwned /\ RecordingHeld
  BY DEF Init, TextTrue, UtgTrue, EditorTrue, LoadingOwned, DisabledOwned, RecordingHeld, Held
<1>11. QED
  BY <1>5, <1>7, <1>9, <1>10 DEF IInv

LEMMA StutterInvariant ==
  ASSUME IInv, UNCHANGED vars
  PROVE  IInv'
<1>1. /\ current' = current /\ expired' = expired /\ expiries' = expiries /\ view' = view
      /\ viewer' = viewer /\ editor' = editor /\ recorder' = recorder /\ calls' = calls
      /\ begun' = begun /\ raced' = raced
  BY DEF vars
<1>2. KeptControls(recorder, recorder')
  BY <1>1, KeepsControls
<1>3. QED
  BY <1>1, <1>2, UserParts, ShownInvariant DEF TypeOK

LEMMA NextInvariant == IInv /\ [Next]_vars => IInv'
  BY UserInvariant, ExpireInvariant, ServeInvariant, AnswerInvariant, StutterInvariant DEF Next

\* The inductive invariant: what is stale is owed by a call under way.
THEOREM Invariance == Spec => []IInv
  BY InitInvariant, NextInvariant, PTL DEF Spec

\* Every variable stays in its type, every call among those the code makes.
THEOREM TypesCorrect == Spec => []TypeOK
<1>1. IInv => TypeOK
  BY DEF IInv
<1>2. QED
  BY <1>1, Invariance, PTL

\* When nothing is under way, no two switches have crossed and none lost its answer,
\* the page shows the recording that the server works on, whatever was answered in
\* between.
THEOREM PageSettles == Spec => []PageAgrees
<1>1. IInv => PageAgrees
  <2> SUFFICES ASSUME IInv, Quiet, current # None
               PROVE  /\ viewer.utg \in {None, current}
                      /\ viewer.text \in {None, Message, current}
                      /\ view = "editor" => editor.current \in {None, current}
    BY DEF PageAgrees, ViewerAgrees, EditorAgrees
  <2>1. InFlight = {}
    BY DEF Quiet, InFlight, Elements
  <2>2. Settled
    BY DEF Settled, Quiet
  <2>3. QED
    BY <2>1, <2>2 DEF IInv, TextTrue, UtgTrue, EditorTrue
<1>2. QED
  BY <1>1, Invariance, PTL

\* While a recording runs the selection's controls stay disabled, whatever ends beside
\* it; otherwise they are disabled only by a start that is awaited or by a switch under
\* way, and both enable them again.
THEOREM ControlsComeBack == Spec => []ControlsOwned
<1>1. IInv => ControlsOwned
  BY DEF IInv, ControlsOwned, LoadingOwned, DisabledOwned, RecordingHeld, Held, InFlight,
     Elements
<1>2. QED
  BY <1>1, Invariance, PTL

\* A text saved when nothing else was under way is saved to the recording it was
\* read from, if it is saved, although the request does not name it.
THEOREM SavesAreRead == Spec => SavesWhereRead
<1>1. IInv /\ [Next]_vars =>
        [\A i \in DOMAIN calls :
            (/\ calls[i].kind = "save" /\ calls[i].alone /\ calls[i].name \in Recording
             /\ ~raced /\ Serve(i) /\ calls'[i].answer \in Recording \cup {"failed"})
            => current = calls[i].name]_vars
  <2> SUFFICES ASSUME IInv, NEW i \in DOMAIN calls, calls[i].kind = "save", calls[i].alone,
                      calls[i].name \in Recording, ~raced, Serve(i),
                      calls'[i].answer \in Recording \cup {"failed"}
               PROVE  current = calls[i].name
    OBVIOUS
  <2>1. /\ TypeOK /\ calls[i] \in CallType /\ WellFormed(calls[i]) /\ calls[i] \in InFlight
        /\ calls \in Seq(CallType)
    BY CallsType DEF IInv, AllWellFormed, TypeOK
  <2>2. PICK a \in Answers(calls[i]), lost \in BOOLEAN :
            /\ lost => At(calls[i]) \in {"set", "release"}
            /\ calls' = [calls EXCEPT ![i].answer = IF lost THEN "failed" ELSE a]
    BY DEF Serve, At
  <2>3. At(calls[i]) = "save"
    BY <2>1, TodoHead DEF WellFormed, Shape, At
  <2>4. calls'[i].answer = a
    BY <2>1, <2>2, <2>3 DEF CallType
  <2>5. current # None
    <3>1. CASE a \in Recording
      BY <2>1, <3>1, ServedAnswer, NamesAssumption
    <3>2. CASE a = "failed"
      BY <2>2, <2>3, <3>2, NamesAssumption DEF Answers, At, Refusals
    <3>3. QED
      BY <2>4, <3>1, <3>2
  <2>6. calls[i].name \in {None, Message, current}
    BY <2>1, <2>5 DEF IInv, SaveTrue, Settled
  <2>7. QED
    BY <2>6, NamesAssumption
<1>2. QED
  BY <1>1, Invariance, PTL DEF Spec, SavesWhereRead
=============================================================================
