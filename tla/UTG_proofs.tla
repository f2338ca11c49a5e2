------------------------------ MODULE UTG_proofs ------------------------------
(***************************************************************************)
(* Proofs about the cache of UTGs on the server (UTGCache) and about the   *)
(* editing of a graph in the browser (UTGEditing).                         *)
(*                                                                         *)
(* The cache, for any datasets, sizes and modes and any number of threads: *)
(* an object leaves the cache only while nobody holds its entry's lock.    *)
(* Two steps replace an entry without looking at it, the one that has      *)
(* loaded an object and the one that has created a recording's UTG; the    *)
(* argument is that neither finds one.  From that it follows that no edit  *)
(* is lost and that entries agree with their files, as long as no edit     *)
(* locked an object that had been evicted since it was looked up.          *)
(*                                                                         *)
(* Editing, for any recording and any number of edits, calls in flight and *)
(* faults: what the page shows when all is answered, and what a request    *)
(* names.  The argument follows the graphs there are at a time (the        *)
(* server's, the page's, those on their way to it), told apart by the      *)
(* edits they have seen, and the calls that have still to land.            *)
(***************************************************************************)
EXTENDS UTGCache, UTGEditing, SequenceTheorems, FiniteSetTheorems, NaturalsInduction,
        WellFoundedInduction, TLAPS

Label == {"idle", "lookup", "stat", "cleanup", "evict", "check", "invalidate", "load",
          "insert", "limit", "relookup", "acquire", "apply", "stamp", "release"}
UTGObject == [dataset : Dataset, edits : SUBSET Edit, lock : Thread \cup {None}]
Locals == [op : OperationKind \cup {None}, dataset : Dataset \cup {None},
           object : Object \cup {None}, mtime : Nat, expired : SUBSET Dataset]

\* TypeOK but for the order of the entries and the history.
Types ==
    /\ cache \in [Dataset -> Entry \cup {None}]
    /\ cache_lock \in Thread \cup {None}
    /\ objects \in Seq(UTGObject) /\ Len(objects) <= MaxLoads
    /\ files \in [Dataset -> [mtime : Nat, edits : SUBSET Edit]]
    /\ done \in [Dataset -> SUBSET Edit]
    /\ pc \in [Thread -> Label]
    /\ call \in [Thread -> Locals]

Busy(t) == pc[t] # "idle"

\* An operation is about a dataset, and what it has found or made exists.
HasObject == {"insert", "acquire", "apply", "stamp", "release"}
CallsAreOfObjects ==
    \A t \in Thread :
        /\ Busy(t) => call[t].dataset \in Dataset
        /\ pc[t] \in HasObject => call[t].object \in DOMAIN objects
EntriesAreOfObjects == \A d \in Cached : CachedObject(d) \in DOMAIN objects

\* Evictions and loads happen with _cache_lock held.
LockHeld ==
    \A t \in Thread : pc[t] \in {"evict", "invalidate", "load", "limit"} => cache_lock = t

\* An object is loaded after the entry it replaces has gone.
LoadMisses == \A t \in Thread : pc[t] = "load" => cache[call[t].dataset] = None

\* A directory that has no UTG yet is nowhere, and one whose UTG is not cached
\* yet is known to its creator alone.
FreshUnknown ==
    \A d \in Fresh : files[d].mtime = 0 =>
        cache[d] = None /\ \A t \in Thread : Busy(t) => call[t].dataset # d
InsertAlone ==
    \A t \in Thread : pc[t] = "insert" =>
        /\ call[t].dataset \in Fresh
        /\ files[call[t].dataset].mtime # 0
        /\ cache[call[t].dataset] = None
        /\ \A u \in Thread \ {t} : Busy(u) => call[u].dataset # call[t].dataset

\* Whoever edits an object holds its entry's lock, and nobody else does.
InEdit == {"apply", "stamp", "release"}
EditorsHold == \A t \in Thread : pc[t] \in InEdit => objects[call[t].object].lock = t
HoldersEdit ==
    \A o \in DOMAIN objects :
        objects[o].lock # None =>
            pc[objects[o].lock] \in InEdit /\ call[objects[o].lock].object = o
LocksOwned == EditorsHold /\ HoldersEdit

IInv ==
    /\ Types /\ CallsAreOfObjects /\ EntriesAreOfObjects
    /\ LockHeld /\ LoadMisses /\ FreshUnknown /\ InsertAlone /\ LocksOwned

(***************************************************************************)
(* What a step of a thread does to the others.                             *)
(***************************************************************************)
\* The steps within an operation: whose calls go on, which entries may appear.
Step(t) ==
    /\ Busy(t) /\ pc'[t] # "insert"
    /\ \A u \in Thread \ {t} : pc'[u] = pc[u] /\ call'[u] = call[u]
    /\ pc'[t] # "idle" => call'[t].dataset = call[t].dataset
    /\ \A d \in Dataset : cache'[d] # None => cache[d] # None \/ d = call[t].dataset
    /\ \A d \in Dataset : files'[d].mtime = 0 => files[d].mtime = 0

LEMMA ContinueIsStep ==
    ASSUME Types, NEW t \in Thread, Continue(t)
    PROVE  Step(t)
<1> USE DEF Types
<1>1. CASE Lookup(t) \/ Relookup(t)
  BY <1>1 DEF Lookup, Relookup, Goto, Return, Step, Busy, Locals
<1>2. CASE Stat(t) \/ CleanupExpiredCache(t)
  BY <1>2 DEF Stat, CleanupExpiredCache, Goto, Step, Busy, Locals
<1>3. CASE EvictExpired(t)
  BY <1>3 DEF EvictExpired, Evict, Step, Busy, Locals
<1>4. CASE CleanupDone(t) \/ Miss(t)
  BY <1>4 DEF CleanupDone, Miss, Goto, Step, Busy
<1>5. CASE Hit(t) \/ WithinLimit(t)
  BY <1>5 DEF Hit, WithinLimit, Loaded, Return, Goto, Step, Busy
<1>6. CASE Invalidate(t)
  BY <1>6 DEF Invalidate, Evict, Goto, Step, Busy
<1>7. CASE LoadNothing(t)
  BY <1>7 DEF LoadNothing, Return, Goto, Step, Busy
<1>8. CASE Load(t)
  BY <1>8 DEF Load, Goto, Step, Busy
<1>9. CASE Insert(t)
  BY <1>9 DEF Insert, Goto, Step, Busy
<1>10. CASE EvictOldest(t)
  BY <1>10 DEF EvictOldest, Evict, Step, Busy
<1>11. CASE Acquire(t)
  BY <1>11 DEF Acquire, Goto, Step, Busy
<1>12. CASE ApplyAndSave(t)
  BY <1>12 DEF ApplyAndSave, Goto, Step, Busy
<1>13. CASE EditFails(t) \/ SaveFails(t)
  BY <1>13 DEF EditFails, SaveFails, Return, Goto, Step, Busy
<1>14. CASE Stamp(t)
  BY <1>14 DEF Stamp, Goto, Step, Busy, Cached
<1>15. CASE Release(t)
  BY <1>15 DEF Release, Return, Goto, Step, Busy
<1>16. QED
  BY <1>1, <1>2, <1>3, <1>4, <1>5, <1>6, <1>7, <1>8, <1>9, <1>10, <1>11, <1>12, <1>13,
     <1>14, <1>15 DEF Continue

\* Such a step brings no directory to anybody.
LEMMA StepKeepsFresh ==
    ASSUME Types, FreshUnknown, InsertAlone, NEW t \in Thread, Step(t)
    PROVE  FreshUnknown' /\ InsertAlone'
<1>1. ASSUME NEW u \in Thread, Busy(u)'
      PROVE  Busy(u) /\ call'[u].dataset = call[u].dataset
  BY <1>1 DEF Step, Busy
<1>2. FreshUnknown'
  BY <1>1, DatasetAssumption DEF FreshUnknown, Step
<1>3. ASSUME NEW u \in Thread, pc'[u] = "insert"
      PROVE  u # t /\ pc[u] = "insert" /\ call'[u] = call[u] /\ call[u].dataset \in Dataset
  BY <1>3, DatasetAssumption DEF Step, InsertAlone
<1>4. InsertAlone'
  BY <1>1, <1>3 DEF InsertAlone, Step
<1>5. QED
  BY <1>2, <1>4

LEMMA NextFresh ==
    ASSUME Types, FreshUnknown, InsertAlone, [Next]_vars
    PROVE  FreshUnknown' /\ InsertAlone'
<1>1. CASE UNCHANGED vars
  BY <1>1 DEF vars, FreshUnknown, InsertAlone, Busy
<1>2. ASSUME NEW t \in Thread, Continue(t)
      PROVE  FreshUnknown' /\ InsertAlone'
  BY <1>2, ContinueIsStep, StepKeepsFresh
<1>3. ASSUME NEW t \in Thread, NEW d \in Dataset, BeginRead(t, d) \/ BeginEdit(t, d)
      PROVE  FreshUnknown' /\ InsertAlone'
  <2>1. /\ pc[t] = "idle" /\ Known(d) /\ pc'[t] \notin {"idle", "insert"}
        /\ \A u \in Thread \ {t} : pc'[u] = pc[u] /\ call'[u] = call[u]
        /\ call'[t].dataset = d
        /\ UNCHANGED <<cache, files>>
    BY <1>3 DEF BeginRead, BeginEdit, Begin, Goto, Types, Locals
  <2>2. FreshUnknown'
    BY <2>1 DEF FreshUnknown, Known, Busy
  <2>3. ASSUME NEW u \in Thread, pc'[u] = "insert"
        PROVE  u # t /\ pc[u] = "insert" /\ call'[u] = call[u] /\ call[u].dataset # d
    BY <2>1, <2>3 DEF Known, InsertAlone
  <2>4. InsertAlone'
    BY <2>1, <2>3 DEF InsertAlone, Busy
  <2>5. QED
    BY <2>2, <2>4
<1>4. ASSUME NEW t \in Thread, NEW d \in Dataset, BeginCreate(t, d)
      PROVE  FreshUnknown' /\ InsertAlone'
  <2>1. /\ pc[t] = "idle" /\ d \in Fresh /\ files[d].mtime = 0 /\ pc'[t] = "insert"
        /\ \A u \in Thread \ {t} : pc'[u] = pc[u] /\ call'[u] = call[u]
        /\ call'[t].dataset = d
        /\ cache' = cache /\ files'[d].mtime = 1
        /\ \A x \in Dataset \ {d} : files'[x] = files[x]
    BY <1>4 DEF BeginCreate, Goto, Types, Locals
  <2>2. cache[d] = None /\ \A u \in Thread : Busy(u) => call[u].dataset # d
    BY <2>1 DEF FreshUnknown
  <2>3. FreshUnknown'
    BY <2>1, DatasetAssumption DEF FreshUnknown, Busy
  <2>4. ASSUME NEW u \in Thread, pc'[u] = "insert"
        PROVE  /\ call'[u].dataset \in Fresh
               /\ files'[call'[u].dataset].mtime # 0
               /\ cache'[call'[u].dataset] = None
               /\ \A v \in Thread \ {u} : Busy(v)' => call'[v].dataset # call'[u].dataset
    <3>1. CASE u = t
      BY <2>1, <2>2, <3>1 DEF Busy
    <3>2. CASE u # t
      BY <2>1, <2>2, <2>4, <3>2, DatasetAssumption DEF InsertAlone, Busy
    <3>3. QED
      BY <3>1, <3>2
  <2>5. QED
    BY <2>3, <2>4 DEF InsertAlone
<1>5. ASSUME NEW d \in Dataset, GrowOld(d)
      PROVE  FreshUnknown' /\ InsertAlone'
  <2>1. /\ UNCHANGED <<files, pc, call>>
        /\ \A x \in Dataset : cache[x] = None => cache'[x] = None
    BY <1>5 DEF GrowOld, Cached, Types
  <2>2. FreshUnknown'
    BY <2>1, DatasetAssumption DEF FreshUnknown, Busy
  <2>3. InsertAlone'
    BY <2>1, DatasetAssumption DEF InsertAlone, Busy
  <2>4. QED
    BY <2>2, <2>3
<1>6. QED
  BY <1>1, <1>2, <1>3, <1>4, <1>5 DEF Next, Start

(***************************************************************************)
(* The lock of the map, and the entry a load replaces.                     *)
(***************************************************************************)
LockedLabel == {"evict", "invalidate", "load", "limit"}

\* A thread that is about to load has no entry before it.
LEMMA NextLock ==
    ASSUME Types, CallsAreOfObjects, LockHeld, LoadMisses, [Next]_vars
    PROVE  LockHeld' /\ LoadMisses'
<1> DEFINE Keeps(t) ==
      /\ \A u \in Thread \ {t} : pc'[u] = pc[u] /\ call'[u] = call[u]
      /\ pc'[t] \in LockedLabel => cache_lock' = t
      /\ pc'[t] = "load" => cache'[call'[t].dataset] = None
      /\ \/ cache_lock' = cache_lock
         \/ cache_lock \in {None, t}
      /\ \/ \A d \in Dataset : cache[d] = None => cache'[d] = None
         \/ cache_lock \in {None, t}
<1>1. ASSUME NEW t \in Thread, Keeps(t)
      PROVE  LockHeld' /\ LoadMisses'
  <2>1. ASSUME NEW u \in Thread \ {t}, pc'[u] \in LockedLabel
        PROVE  cache_lock = u /\ cache_lock' = u
    BY <1>1, <2>1, ThreadAssumption DEF LockHeld, LockedLabel
  <2>2. LockHeld'
    BY <1>1, <2>1 DEF LockHeld, LockedLabel
  <2>3. ASSUME NEW u \in Thread \ {t}, pc'[u] = "load"
        PROVE  cache'[call'[u].dataset] = None
    <3>1. cache_lock = u /\ pc[u] = "load" /\ call'[u] = call[u]
      BY <1>1, <2>1, <2>3 DEF LockedLabel
    <3>2. call[u].dataset \in Dataset /\ cache[call[u].dataset] = None
      BY <3>1 DEF CallsAreOfObjects, LoadMisses, Busy
    <3>3. QED
      BY <1>1, <3>1, <3>2, ThreadAssumption
  <2>4. QED
    BY <1>1, <2>2, <2>3 DEF LoadMisses
<1>2. CASE UNCHANGED vars
  BY <1>2 DEF vars, LockHeld, LoadMisses
<1>3. ASSUME NEW t \in Thread, NEW d \in Dataset,
             BeginRead(t, d) \/ BeginEdit(t, d) \/ BeginCreate(t, d)
      PROVE  LockHeld' /\ LoadMisses'
  <2>1. Keeps(t)
    BY <1>3 DEF BeginRead, BeginEdit, BeginCreate, Begin, Goto, Types, LockedLabel
  <2>2. QED
    BY <1>1, <2>1
<1>4. ASSUME NEW t \in Thread, Continue(t)
      PROVE  LockHeld' /\ LoadMisses'
  <2> SUFFICES Keeps(t)
    BY <1>1
  <2> USE DEF Types, LockedLabel, LockFree
  <2>1. CASE Lookup(t) \/ Relookup(t) \/ Stat(t)
    BY <2>1 DEF Lookup, Relookup, Stat, Goto, Return
  <2>2. CASE CleanupExpiredCache(t)
    BY <2>2 DEF CleanupExpiredCache, Goto
  <2>3. CASE EvictExpired(t)
    BY <2>3 DEF EvictExpired, Evict, LockHeld
  <2>4. CASE CleanupDone(t)
    BY <2>4 DEF CleanupDone, Goto, LockHeld
  <2>5. CASE Hit(t)
    BY <2>5 DEF Hit, Loaded, Goto, Return
  <2>6. CASE Miss(t)
    BY <2>6 DEF Miss, Goto, Cached, CallsAreOfObjects, Busy
  <2>7. CASE Invalidate(t)
    <3>1. call[t].dataset \in Dataset /\ cache_lock = t
      BY <2>7 DEF Invalidate, CallsAreOfObjects, Busy, LockHeld
    <3>2. QED
      BY <2>7, <3>1 DEF Invalidate, Evict, Goto
  <2>8. CASE LoadNothing(t)
    BY <2>8 DEF LoadNothing, Return, Goto, LockHeld
  <2>9. CASE Load(t)
    BY <2>9 DEF Load, Goto, LockHeld
  <2>10. CASE Insert(t)
    BY <2>10 DEF Insert, Goto
  <2>11. CASE EvictOldest(t)
    BY <2>11 DEF EvictOldest, Evict, LockHeld
  <2>12. CASE WithinLimit(t)
    BY <2>12 DEF WithinLimit, Loaded, Return, Goto, LockHeld
  <2>13. CASE Acquire(t) \/ ApplyAndSave(t)
    BY <2>13 DEF Acquire, ApplyAndSave, Goto
  <2>14. CASE EditFails(t) \/ SaveFails(t) \/ Release(t)
    BY <2>14 DEF EditFails, SaveFails, Release, Return, Goto
  <2>15. CASE Stamp(t)
    BY <2>15 DEF Stamp, Goto
  <2>16. QED
    BY <1>4, <2>1, <2>2, <2>3, <2>4, <2>5, <2>6, <2>7, <2>8, <2>9, <2>10, <2>11, <2>12,
       <2>13, <2>14, <2>15 DEF Continue
<1>5. ASSUME NEW d \in Dataset, GrowOld(d)
      PROVE  LockHeld' /\ LoadMisses'
  <2>1. /\ UNCHANGED <<cache_lock, pc, call>>
        /\ \A x \in Dataset : cache[x] = None => cache'[x] = None
    BY <1>5 DEF GrowOld, Cached, Types
  <2>2. QED
    BY <2>1 DEF LockHeld, LoadMisses, CallsAreOfObjects, Busy
<1>6. QED
  BY <1>2, <1>3, <1>4, <1>5 DEF Next, Start

(***************************************************************************)
(* The objects of the entries and of the calls exist, and keep their types. *)
(***************************************************************************)
LEMMA ObjectChanged ==
    ASSUME Types, NEW o \in DOMAIN objects, NEW x \in UTGObject
    PROVE  /\ [objects EXCEPT ![o] = x] \in Seq(UTGObject)
           /\ Len([objects EXCEPT ![o] = x]) = Len(objects)
           /\ DOMAIN [objects EXCEPT ![o] = x] = DOMAIN objects
<1>1. objects \in Seq(UTGObject) /\ o \in 1..Len(objects)
  BY DEF Types
<1>2. QED
  BY <1>1, ExceptSeq

\* A new object, at the end.
LEMMA ObjectAdded ==
    ASSUME Types, NEW x \in UTGObject, Len(objects) < MaxLoads, objects' = Append(objects, x)
    PROVE  /\ objects' \in Seq(UTGObject) /\ Len(objects') <= MaxLoads
           /\ DOMAIN objects \subseteq DOMAIN objects'
           /\ Len(objects) + 1 \in DOMAIN objects' /\ Len(objects) + 1 \in Object
<1>1. objects \in Seq(UTGObject) /\ MaxLoads \in Nat /\ Len(objects) \in Nat
  BY BoundAssumption DEF Types
<1>2. objects' \in Seq(UTGObject) /\ Len(objects') = Len(objects) + 1
  BY <1>1, AppendProperties
<1>3. QED
  BY <1>1, <1>2 DEF Object

LEMMA ObjectsAreObjects ==
    ASSUME Types
    PROVE  \A o \in DOMAIN objects : o \in Object /\ objects[o] \in UTGObject
BY BoundAssumption DEF Types, Object

Typed == Types /\ CallsAreOfObjects /\ EntriesAreOfObjects

\* The steps that only read: no entry, object or file changes.
Reads == UNCHANGED <<cache, objects, files, done>>
LEMMA ReadsTyped ==
    ASSUME Typed, Reads, cache_lock' \in Thread \cup {None}, NEW t \in Thread,
           NEW label \in Label, Goto(t, label),
           NEW c \in Locals, call' = [call EXCEPT ![t] = c],
           label # "idle" => c.dataset \in Dataset,
           label \in HasObject => c.object \in DOMAIN objects
    PROVE  Typed'
<1>1. Types'
  BY DEF Typed, Types, Reads, Goto
<1>2. CallsAreOfObjects'
  BY DEF Typed, Types, CallsAreOfObjects, Reads, Goto, Busy
<1>3. EntriesAreOfObjects'
  BY DEF Typed, EntriesAreOfObjects, Reads, Cached, CachedObject
<1>4. QED
  BY <1>1, <1>2, <1>3 DEF Typed

LEMMA LocalsKept ==
    ASSUME Typed, NEW t \in Thread
    PROVE  /\ call = [call EXCEPT ![t] = call[t]] /\ call[t] \in Locals /\ Idle \in Locals
           /\ Busy(t) => call[t].dataset \in Dataset
           /\ pc[t] \in HasObject => call[t].object \in DOMAIN objects
BY DEF Typed, Types, Idle, Locals, CallsAreOfObjects

LEMMA ReadingTyped ==
    ASSUME Typed, NEW t \in Thread,
           \/ Lookup(t) \/ Stat(t) \/ CleanupExpiredCache(t) \/ CleanupDone(t) \/ Miss(t)
           \/ LoadNothing(t) \/ Relookup(t)
    PROVE  Typed'
<1> DEFINE c == call[t]
<1>0. /\ c \in Locals /\ Idle \in Locals /\ call = [call EXCEPT ![t] = c]
      /\ Busy(t) => c.dataset \in Dataset
      /\ None \in Thread \cup {None} /\ cache_lock \in Thread \cup {None}
  BY LocalsKept DEF Typed, Types
<1>1. CASE Lookup(t) \/ Relookup(t)
  <2>1. CASE c.dataset \in Cached
    <3>1. CachedObject(c.dataset) \in DOMAIN objects /\ CachedObject(c.dataset) \in Object
      BY <2>1, ObjectsAreObjects DEF Typed, EntriesAreOfObjects
    <3>2. [c EXCEPT !.object = CachedObject(c.dataset)] \in Locals
      BY <1>0, <3>1 DEF Locals
    <3>3. /\ call' = [call EXCEPT ![t] = [c EXCEPT !.object = CachedObject(c.dataset)]]
          /\ Goto(t, "acquire") /\ Reads /\ cache_lock' = cache_lock /\ Busy(t)
      BY <1>1, <2>1 DEF Lookup, Relookup, Reads, Busy
    <3>4. QED
      BY <1>0, <3>1, <3>2, <3>3, ReadsTyped DEF Label, Locals
  <2>2. CASE c.dataset \notin Cached /\ Lookup(t)
    BY <1>0, <2>2, ReadsTyped DEF Lookup, Reads, Busy, Label, HasObject
  <2>3. CASE c.dataset \notin Cached /\ Relookup(t)
    BY <1>0, <2>3, ReadsTyped DEF Relookup, Return, Reads, Label, HasObject
  <2>4. QED
    BY <1>1, <2>1, <2>2, <2>3
<1>2. CASE Stat(t)
  <2>1. c.dataset \in Dataset /\ files[c.dataset].mtime \in Nat
    BY <1>0, <1>2 DEF Stat, Busy, Typed, Types
  <2>2. [c EXCEPT !.mtime = files[c.dataset].mtime] \in Locals
    BY <1>0, <2>1 DEF Locals
  <2>3. QED
    BY <1>0, <1>2, <2>1, <2>2, ReadsTyped DEF Stat, Reads, Label, HasObject, Locals
<1>3. CASE CleanupExpiredCache(t)
  <2>1. [c EXCEPT !.expired = {d \in Cached : ~IsValid(d, files[d].mtime)}] \in Locals
    BY <1>0 DEF Locals, Cached
  <2>2. QED
    BY <1>0, <1>3, <2>1, ReadsTyped
       DEF CleanupExpiredCache, Reads, Busy, Label, HasObject, Locals
<1>4. CASE CleanupDone(t)
  BY <1>0, <1>4, ReadsTyped DEF CleanupDone, Reads, Busy, Label, HasObject
<1>5. CASE Miss(t)
  BY <1>0, <1>5, ReadsTyped DEF Miss, Reads, Busy, Label, HasObject
<1>6. CASE LoadNothing(t)
  BY <1>0, <1>6, ReadsTyped DEF LoadNothing, Return, Reads, Label, HasObject
<1>7. QED
  BY <1>1, <1>2, <1>3, <1>4, <1>5, <1>6

\* The end of a load, whose entry is touched or was made before.
LEMMA LoadedTyped ==
    ASSUME Typed, NEW t \in Thread, Hit(t) \/ WithinLimit(t)
    PROVE  Typed'
<1>1. /\ call[t] \in Locals /\ Idle \in Locals /\ call = [call EXCEPT ![t] = call[t]]
      /\ call[t].dataset \in Dataset /\ cache_lock \in Thread \cup {None}
  BY LocalsKept DEF Typed, Types, Hit, WithinLimit, Busy
<1>2. Reads /\ cache_lock' \in {cache_lock, None}
  BY DEF Hit, WithinLimit, Reads
<1>3. \/ Goto(t, "relookup") /\ call' = call
      \/ Goto(t, "idle") /\ call' = [call EXCEPT ![t] = Idle]
  BY DEF Hit, WithinLimit, Loaded, Return
<1>4. CASE Goto(t, "relookup") /\ call' = call
  BY <1>1, <1>2, <1>4, ReadsTyped DEF Label, HasObject
<1>5. CASE Goto(t, "idle") /\ call' = [call EXCEPT ![t] = Idle]
  BY <1>1, <1>2, <1>5, ReadsTyped DEF Label, HasObject
<1>6. QED
  BY <1>3, <1>4, <1>5

\* The steps that drop an entry.
LEMMA EvictTyped ==
    ASSUME Typed, NEW t, NEW d, Evict(t, d), UNCHANGED <<cache_lock, objects, files, done>>
    PROVE  /\ cache' \in [Dataset -> Entry \cup {None}]
           /\ EntriesAreOfObjects'
BY DEF Typed, Types, Evict, EntriesAreOfObjects, Cached, CachedObject

LEMMA EvictingTyped ==
    ASSUME Typed, NEW t \in Thread, EvictExpired(t) \/ Invalidate(t) \/ EvictOldest(t)
    PROVE  Typed'
<1>1. UNCHANGED <<cache_lock, objects, files, done>> /\ \E d : Evict(t, d)
  BY DEF EvictExpired, Invalidate, EvictOldest
<1>2. cache' \in [Dataset -> Entry \cup {None}] /\ EntriesAreOfObjects'
  BY <1>1, EvictTyped
<1>3. call[t] \in Locals /\ pc[t] \in Label
  BY DEF Typed, Types
<1>4. CASE EvictExpired(t)
  <2>1. PICK d \in call[t].expired : call' = [call EXCEPT ![t].expired = @ \ {d}]
    BY <1>4 DEF EvictExpired
  <2>2. [call[t] EXCEPT !.expired = @ \ {d}] \in Locals
    BY <1>3 DEF Locals
  <2>3. /\ call' \in [Thread -> Locals] /\ pc' = pc
        /\ \A u \in Thread : call'[u].dataset = call[u].dataset
                             /\ call'[u].object = call[u].object
    BY <1>3, <1>4, <2>1, <2>2 DEF EvictExpired, Typed, Types, Locals
  <2>4. CallsAreOfObjects'
    BY <1>1, <2>3 DEF Typed, CallsAreOfObjects, Busy
  <2>5. QED
    BY <1>1, <1>2, <2>3, <2>4 DEF Typed, Types
<1>5. CASE Invalidate(t)
  <2>1. pc' \in [Thread -> Label] /\ call' = call
    BY <1>5 DEF Invalidate, Goto, Typed, Types, Label
  <2>2. CallsAreOfObjects'
    BY <1>1, <1>5, <2>1 DEF Invalidate, Goto, Typed, Types, CallsAreOfObjects, Busy, HasObject
  <2>3. QED
    BY <1>1, <1>2, <2>1, <2>2 DEF Typed, Types
<1>6. CASE EvictOldest(t)
  <2>1. CallsAreOfObjects'
    BY <1>1, <1>6 DEF EvictOldest, Typed, CallsAreOfObjects, Busy
  <2>2. QED
    BY <1>1, <1>2, <1>6, <2>1 DEF EvictOldest, Typed, Types
<1>7. QED
  BY <1>4, <1>5, <1>6

\* The steps that put an entry.
LEMMA PutTyped ==
    ASSUME Typed, NEW t \in Thread, NEW o \in Object, call[t].dataset \in Dataset,
           pc[t] \in {"load", "insert"},
           cache' = [cache EXCEPT ![call[t].dataset] =
                        [object |-> o, mtime |-> call[t].mtime, old |-> FALSE]],
           cache_lock' \in {cache_lock, t}, Goto(t, "limit"),
           objects' \in Seq(UTGObject), Len(objects') <= MaxLoads,
           DOMAIN objects \subseteq DOMAIN objects', o \in DOMAIN objects',
           UNCHANGED <<files, call, done>>
    PROVE  Typed'
<1>1. [object |-> o, mtime |-> call[t].mtime, old |-> FALSE] \in Entry
  BY DEF Entry, Typed, Types, Locals
<1>2. Types'
  BY <1>1 DEF Typed, Types, Goto, Label
<1>3. CallsAreOfObjects'
  BY DEF Typed, Types, CallsAreOfObjects, Goto, Busy, HasObject
<1>4. EntriesAreOfObjects'
  BY DEF Typed, Types, EntriesAreOfObjects, Cached, CachedObject
<1>5. QED
  BY <1>2, <1>3, <1>4 DEF Typed

LEMMA PuttingTyped ==
    ASSUME Typed, NEW t \in Thread, Load(t) \/ Insert(t)
    PROVE  Typed'
<1>1. call[t].dataset \in Dataset
  BY DEF Load, Insert, Busy, Typed, CallsAreOfObjects
<1>2. CASE Load(t)
  <2>1. [dataset |-> call[t].dataset, edits |-> files[call[t].dataset].edits,
         lock |-> None] \in UTGObject
    BY <1>1 DEF UTGObject, Typed, Types
  <2>2. /\ objects' \in Seq(UTGObject) /\ Len(objects') <= MaxLoads
        /\ DOMAIN objects \subseteq DOMAIN objects'
        /\ Len(objects) + 1 \in DOMAIN objects' /\ Len(objects) + 1 \in Object
    BY <1>2, <2>1, ObjectAdded DEF Load, Typed
  <2>3. QED
    BY <1>1, <1>2, <2>2, PutTyped DEF Load
<1>3. CASE Insert(t)
  <2>1. call[t].object \in DOMAIN objects /\ call[t].object \in Object
    BY <1>3, ObjectsAreObjects DEF Insert, HasObject, Typed, CallsAreOfObjects
  <2>2. QED
    BY <1>1, <1>3, <2>1, PutTyped DEF Insert, Typed, Types
<1>4. QED
  BY <1>2, <1>3

\* The steps of an edit: one object of the call changes, and perhaps its file.
LEMMA EditTyped ==
    ASSUME Typed, NEW t \in Thread, pc[t] \in HasObject, NEW x \in UTGObject,
           objects' = [objects EXCEPT ![call[t].object] = x],
           NEW label \in Label, Goto(t, label),
           \/ call' = call
           \/ label = "idle" /\ call' = [call EXCEPT ![t] = Idle],
           files' \in [Dataset -> [mtime : Nat, edits : SUBSET Edit]],
           done' \in [Dataset -> SUBSET Edit],
           UNCHANGED <<cache, cache_lock>>
    PROVE  Typed'
<1>1. call[t].object \in DOMAIN objects
  BY DEF Typed, CallsAreOfObjects
<1>2. /\ objects' \in Seq(UTGObject) /\ Len(objects') = Len(objects)
      /\ DOMAIN objects' = DOMAIN objects
  BY <1>1, ObjectChanged DEF Typed
<1>3. call' \in [Thread -> Locals]
  BY LocalsKept DEF Typed, Types
<1>4. Types'
  BY <1>2, <1>3 DEF Typed, Types, Goto
<1>5. CallsAreOfObjects'
  BY <1>2 DEF Typed, Types, CallsAreOfObjects, Goto, Busy, HasObject
<1>6. EntriesAreOfObjects'
  BY <1>2 DEF Typed, EntriesAreOfObjects, Cached, CachedObject
<1>7. QED
  BY <1>4, <1>5, <1>6 DEF Typed

LEMMA EditingTyped ==
    ASSUME Typed, NEW t \in Thread,
           Acquire(t) \/ ApplyAndSave(t) \/ EditFails(t) \/ SaveFails(t) \/ Release(t)
    PROVE  Typed'
<1> DEFINE o == call[t].object
           d == call[t].dataset
<1>1. pc[t] \in HasObject /\ d \in Dataset /\ o \in DOMAIN objects /\ objects[o] \in UTGObject
  BY ObjectsAreObjects
     DEF Acquire, ApplyAndSave, EditFails, SaveFails, Release, HasObject, Busy, Typed,
         CallsAreOfObjects
<1>2. /\ files \in [Dataset -> [mtime : Nat, edits : SUBSET Edit]]
      /\ done \in [Dataset -> SUBSET Edit] /\ files[d].mtime + 1 \in Nat
  BY <1>1 DEF Typed, Types
<1>3. CASE Acquire(t)
  <2>1. [objects[o] EXCEPT !.lock = t] \in UTGObject
    BY <1>1 DEF UTGObject
  <2>2. QED
    BY <1>1, <1>2, <1>3, <2>1, EditTyped DEF Acquire, Label
<1>4. CASE EditFails(t) \/ Release(t)
  <2>1. [objects[o] EXCEPT !.lock = None] \in UTGObject
    BY <1>1 DEF UTGObject
  <2>2. done' \in [Dataset -> SUBSET Edit]
    BY <1>1, <1>2, <1>4 DEF EditFails, Release, UTGObject
  <2>3. QED
    BY <1>1, <1>2, <1>4, <2>1, <2>2, EditTyped DEF EditFails, Release, Return, Label
<1>5. CASE ApplyAndSave(t)
  <2>1. objects[o].edits \cup {NewEdit} \in SUBSET Edit
    BY <1>1, <1>5 DEF ApplyAndSave, UTGObject
  <2>2. [objects[o] EXCEPT !.edits = objects[o].edits \cup {NewEdit}] \in UTGObject
    BY <1>1, <2>1 DEF UTGObject
  <2>3. files' \in [Dataset -> [mtime : Nat, edits : SUBSET Edit]]
    BY <1>1, <1>2, <1>5, <2>1 DEF ApplyAndSave
  <2>4. QED
    BY <1>1, <1>2, <1>5, <2>2, <2>3, EditTyped DEF ApplyAndSave, Label
<1>6. CASE SaveFails(t)
  <2>1. objects[o].edits \cup {NewEdit} \in SUBSET Edit
    BY <1>1, <1>6 DEF SaveFails, UTGObject
  <2>2. [[objects[o] EXCEPT !.edits = objects[o].edits \cup {NewEdit}] EXCEPT !.lock = None]
            \in UTGObject
    BY <1>1, <2>1 DEF UTGObject
  <2>3. objects' = [objects EXCEPT ![o] =
            [[objects[o] EXCEPT !.edits = objects[o].edits \cup {NewEdit}] EXCEPT !.lock = None]]
    BY <1>1, <1>6 DEF SaveFails
  <2>4. QED
    BY <1>1, <1>2, <1>6, <2>2, <2>3, EditTyped DEF SaveFails, Return, Label
<1>7. QED
  BY <1>3, <1>4, <1>5, <1>6

\* The steps that change an entry in place.
ObjectsStay == \A x \in Cached : cache'[x] # None /\ cache'[x].object = CachedObject(x)

LEMMA EntryChangedTyped ==
    ASSUME Typed, NEW d \in Cached, NEW e \in Entry, e.object = CachedObject(d),
           cache' = [cache EXCEPT ![d] = e]
    PROVE  /\ cache' \in [Dataset -> Entry \cup {None}]
           /\ \A x \in Cached' : x \in Cached /\ CachedObject(x)' = CachedObject(x)
           /\ ObjectsStay
BY NoneAssumption DEF Typed, Types, Cached, CachedObject, ObjectsStay

LEMMA StampTyped ==
    ASSUME Typed, NEW t \in Thread, Stamp(t)
    PROVE  Typed' /\ ObjectsStay
<1> DEFINE d == call[t].dataset
<1>1. d \in Dataset /\ call[t].object \in DOMAIN objects /\ files[d].mtime \in Nat
  BY DEF Stamp, Busy, HasObject, Typed, Types, CallsAreOfObjects
<1>2. /\ cache' \in [Dataset -> Entry \cup {None}]
      /\ \A x \in Cached' : x \in Cached /\ CachedObject(x)' = CachedObject(x)
      /\ ObjectsStay
  <2>1. CASE d \in Cached
    <3>1. cache[d] \in Entry
      BY <2>1 DEF Cached, Typed, Types
    <3>2. /\ [cache[d] EXCEPT !.mtime = files[d].mtime] \in Entry
          /\ [cache[d] EXCEPT !.mtime = files[d].mtime].object = CachedObject(d)
      BY <1>1, <3>1 DEF Entry, CachedObject
    <3>3. cache' = [cache EXCEPT ![d] = [cache[d] EXCEPT !.mtime = files[d].mtime]]
      BY <2>1 DEF Stamp
    <3>4. QED
      BY <2>1, <3>2, <3>3, EntryChangedTyped
  <2>2. CASE d \notin Cached
    BY <2>2 DEF Stamp, Typed, Types, Cached, CachedObject, ObjectsStay
  <2>3. QED
    BY <2>1, <2>2
<1>3. Types'
  BY <1>2 DEF Stamp, Goto, Typed, Types, Label
<1>4. CallsAreOfObjects'
  BY <1>1 DEF Stamp, Goto, Typed, Types, CallsAreOfObjects, Busy, HasObject
<1>5. EntriesAreOfObjects'
  BY <1>2 DEF Stamp, Typed, EntriesAreOfObjects
<1>6. QED
  BY <1>2, <1>3, <1>4, <1>5 DEF Typed

LEMMA GrowOldTyped ==
    ASSUME Typed, NEW d \in Dataset, GrowOld(d)
    PROVE  Typed' /\ ObjectsStay
<1>1. d \in Cached /\ cache[d] \in Entry
  BY DEF GrowOld, Cached, Typed, Types
<1>2. /\ [cache[d] EXCEPT !.old = TRUE] \in Entry
      /\ [cache[d] EXCEPT !.old = TRUE].object = CachedObject(d)
  BY <1>1 DEF Entry, CachedObject
<1>3. /\ cache' \in [Dataset -> Entry \cup {None}]
      /\ \A x \in Cached' : x \in Cached /\ CachedObject(x)' = CachedObject(x)
      /\ ObjectsStay
  BY <1>1, <1>2, EntryChangedTyped DEF GrowOld
<1>4. QED
  BY <1>3 DEF GrowOld, Typed, Types, CallsAreOfObjects, EntriesAreOfObjects, Busy

LEMMA BeginTyped ==
    ASSUME Typed, NEW t \in Thread, NEW d \in Dataset,
           BeginRead(t, d) \/ BeginEdit(t, d) \/ BeginCreate(t, d)
    PROVE  Typed'
<1>1. call[t] \in Locals
  BY DEF Typed, Types
<1>2. CASE BeginRead(t, d) \/ BeginEdit(t, d)
  <2>1. PICK op \in {"read", "edit"}, label \in {"stat", "lookup"} : Begin(t, op, d, label)
    BY <1>2 DEF BeginRead, BeginEdit
  <2> DEFINE c == [[call[t] EXCEPT !.op = op] EXCEPT !.dataset = d]
  <2>2. c \in Locals /\ c.dataset = d
    BY <1>1 DEF Locals, OperationKind
  <2>3. call' = [call EXCEPT ![t] = c]
    BY <1>1, <2>1 DEF Begin, Typed, Types
  <2>4. Reads /\ cache_lock' \in Thread \cup {None} /\ Goto(t, label)
    BY <2>1 DEF Begin, Reads, Typed, Types
  <2>5. label \in Label /\ label \notin HasObject
    BY DEF Label, HasObject
  <2>6. QED
    BY <2>2, <2>3, <2>4, <2>5, ReadsTyped
<1>3. CASE BeginCreate(t, d)
  <2> DEFINE o == Len(objects) + 1
             c == [[[[call[t] EXCEPT !.op = "create"] EXCEPT !.dataset = d]
                     EXCEPT !.object = o] EXCEPT !.mtime = 1]
  <2>1. [dataset |-> d, edits |-> {}, lock |-> None] \in UTGObject
    BY DEF UTGObject
  <2>2. /\ objects' \in Seq(UTGObject) /\ Len(objects') <= MaxLoads
        /\ DOMAIN objects \subseteq DOMAIN objects' /\ o \in DOMAIN objects' /\ o \in Object
    BY <1>3, <2>1, ObjectAdded DEF BeginCreate, Typed
  <2>3. c \in Locals /\ c.dataset = d /\ c.object = o
    BY <1>1, <2>2 DEF Locals, OperationKind
  <2>4. call' = [call EXCEPT ![t] = c]
    BY <1>1, <1>3 DEF BeginCreate, Typed, Types, Locals
  <2>5. Types'
    <3> DEFINE f == [files[d] EXCEPT !.mtime = 1]
    <3>1. f \in [mtime : Nat, edits : SUBSET Edit]
      BY DEF Typed, Types
    <3>2. files' \in [Dataset -> [mtime : Nat, edits : SUBSET Edit]]
      <4>1. files' = [files EXCEPT ![d] = f]
        BY <1>3 DEF BeginCreate
      <4>2. QED
        BY <3>1, <4>1 DEF Typed, Types
    <3>3. call' \in [Thread -> Locals] /\ pc' \in [Thread -> Label]
      BY <1>3, <2>3, <2>4 DEF BeginCreate, Goto, Label, Typed, Types
    <3>4. QED
      BY <1>3, <2>2, <3>2, <3>3 DEF BeginCreate, Typed, Types
  <2>6. CallsAreOfObjects'
    BY <1>3, <2>2, <2>4 DEF BeginCreate, Goto, Typed, Types, CallsAreOfObjects, Busy
  <2>7. EntriesAreOfObjects'
    BY <1>3, <2>2 DEF BeginCreate, Typed, EntriesAreOfObjects, Cached, CachedObject
  <2>8. QED
    BY <2>5, <2>6, <2>7 DEF Typed
<1>4. QED
  BY <1>2, <1>3

LEMMA NextTyped == Typed /\ [Next]_vars => Typed'
<1> SUFFICES ASSUME Typed, [Next]_vars PROVE Typed'
  OBVIOUS
<1>1. CASE UNCHANGED vars
  BY <1>1 DEF vars, Typed, Types, CallsAreOfObjects, EntriesAreOfObjects, Busy, Cached,
              CachedObject
<1>2. ASSUME NEW t \in Thread, Continue(t)
      PROVE  Typed'
  BY <1>2, ReadingTyped, LoadedTyped, EvictingTyped, PuttingTyped, EditingTyped, StampTyped
     DEF Continue
<1>3. ASSUME NEW t \in Thread, Start(t)
      PROVE  Typed'
  BY <1>3, BeginTyped DEF Start
<1>4. ASSUME NEW d \in Dataset, GrowOld(d)
      PROVE  Typed'
  BY <1>4, GrowOldTyped
<1>5. QED
  BY <1>1, <1>2, <1>3, <1>4 DEF Next

(***************************************************************************)
(* The locks of the entries.                                               *)
(***************************************************************************)
SameLocks ==
    /\ DOMAIN objects \subseteq DOMAIN objects'
    /\ \A o \in DOMAIN objects : objects'[o].lock = objects[o].lock
    /\ \A o \in DOMAIN objects' \ DOMAIN objects : objects'[o].lock = None
OthersStay(t) == \A u \in Thread \ {t} : pc'[u] = pc[u] /\ call'[u] = call[u]

LEMMA SameLocksOwned ==
    ASSUME Typed, LocksOwned, NEW t \in Thread, SameLocks, OthersStay(t),
           pc[t] \in InEdit <=> pc'[t] \in InEdit,
           pc[t] \in InEdit => call'[t].object = call[t].object
    PROVE  LocksOwned'
<1>1. ASSUME NEW u \in Thread, pc'[u] \in InEdit
      PROVE  pc[u] \in InEdit /\ call'[u].object = call[u].object /\ call[u].object \in DOMAIN objects
  BY <1>1 DEF OthersStay, Typed, CallsAreOfObjects, InEdit, HasObject
<1>2. EditorsHold'
  BY <1>1 DEF LocksOwned, EditorsHold, SameLocks
<1>3. ASSUME NEW o \in DOMAIN objects', objects'[o].lock # None
      PROVE  pc'[objects'[o].lock] \in InEdit /\ call'[objects'[o].lock].object = o
  <2>1. o \in DOMAIN objects /\ objects'[o].lock = objects[o].lock /\ objects[o].lock \in Thread
    BY <1>3, ObjectsAreObjects DEF SameLocks, Typed, UTGObject
  <2>2. pc[objects[o].lock] \in InEdit /\ call[objects[o].lock].object = o
    BY <1>3, <2>1 DEF LocksOwned, HoldersEdit
  <2>3. QED
    BY <2>1, <2>2 DEF OthersStay
<1>4. QED
  BY <1>2, <1>3 DEF LocksOwned, HoldersEdit

\* The lock of the call's own object is taken or given back.
LEMMA LockChangedOwned ==
    ASSUME Typed, LocksOwned, NEW t \in Thread, OthersStay(t),
           NEW o \in DOMAIN objects, objects[o].lock \in {None, t},
           DOMAIN objects' = DOMAIN objects, objects'[o].lock \in {None, t},
           \A i \in DOMAIN objects \ {o} : objects'[i].lock = objects[i].lock,
           pc[t] \in InEdit => call[t].object = o,
           objects'[o].lock = t => pc'[t] \in InEdit /\ call'[t].object = o,
           pc'[t] \in InEdit => objects'[o].lock = t /\ call'[t].object = o
    PROVE  LocksOwned'
<1>1. ASSUME NEW u \in Thread \ {t}, pc'[u] \in InEdit
      PROVE  objects'[call'[u].object].lock = u
  <2>1. /\ call'[u] = call[u] /\ call[u].object \in DOMAIN objects
        /\ objects[call[u].object].lock = u
    BY <1>1 DEF OthersStay, Typed, CallsAreOfObjects, InEdit, HasObject, LocksOwned, EditorsHold
  <2>2. call[u].object # o
    BY <1>1, <2>1, ThreadAssumption
  <2>3. QED
    BY <2>1, <2>2
<1>2. EditorsHold'
  BY <1>1 DEF EditorsHold
<1>3. ASSUME NEW i \in DOMAIN objects', objects'[i].lock # None
      PROVE  pc'[objects'[i].lock] \in InEdit /\ call'[objects'[i].lock].object = i
  <2>1. CASE i = o
    BY <1>3, <2>1
  <2>2. CASE i # o
    <3>1. i \in DOMAIN objects /\ objects'[i].lock = objects[i].lock /\ objects[i].lock \in Thread
      BY <1>3, <2>2, ObjectsAreObjects DEF Typed, UTGObject
    <3>2. pc[objects[i].lock] \in InEdit /\ call[objects[i].lock].object = i
      BY <1>3, <3>1 DEF LocksOwned, HoldersEdit
    <3>3. objects[i].lock # t
      BY <2>2, <3>2
    <3>4. QED
      BY <3>1, <3>2, <3>3 DEF OthersStay
  <2>3. QED
    BY <2>1, <2>2
<1>4. QED
  BY <1>2, <1>3 DEF LocksOwned, HoldersEdit

LEMMA ReadingLocks ==
    ASSUME Typed, LocksOwned, NEW t \in Thread,
           \/ Lookup(t) \/ Stat(t) \/ CleanupExpiredCache(t) \/ EvictExpired(t) \/ CleanupDone(t)
           \/ Hit(t) \/ Miss(t) \/ Invalidate(t) \/ LoadNothing(t) \/ Insert(t) \/ EvictOldest(t)
           \/ WithinLimit(t) \/ Relookup(t) \/ Stamp(t)
    PROVE  LocksOwned'
<1>1. pc \in [Thread -> Label] /\ call \in [Thread -> Locals]
  BY DEF Typed, Types
<1>2. objects' = objects
  BY DEF Lookup, Stat, CleanupExpiredCache, EvictExpired, CleanupDone, Hit, Miss, Invalidate,
         LoadNothing, Insert, EvictOldest, WithinLimit, Relookup, Stamp
<1>3. OthersStay(t)
  <2>1. \/ UNCHANGED pc
        \/ \E l : pc' = [pc EXCEPT ![t] = l]
    BY DEF Lookup, Stat, CleanupExpiredCache, EvictExpired, CleanupDone, Hit, Miss, Invalidate,
           LoadNothing, Insert, EvictOldest, WithinLimit, Relookup, Stamp, Goto, Return, Loaded
  <2>2. \/ UNCHANGED call
        \/ \E c : call' = [call EXCEPT ![t] = c]
    BY DEF Lookup, Stat, CleanupExpiredCache, EvictExpired, CleanupDone, Hit, Miss, Invalidate,
           LoadNothing, Insert, EvictOldest, WithinLimit, Relookup, Stamp, Return, Loaded
  <2>3. QED
    BY <1>1, <2>1, <2>2 DEF OthersStay
<1>4. CASE Stamp(t)
  <2>1. pc[t] \in InEdit /\ pc'[t] \in InEdit /\ call' = call
    BY <1>1, <1>4 DEF Stamp, Goto, InEdit
  <2>2. QED
    BY <1>2, <1>3, <2>1, SameLocksOwned DEF SameLocks
<1>5. CASE ~Stamp(t)
  <2>1. pc[t] \notin InEdit /\ pc'[t] \notin InEdit
    BY <1>1, <1>5 DEF Lookup, Stat, CleanupExpiredCache, EvictExpired, CleanupDone, Hit, Miss,
           Invalidate, LoadNothing, Insert, EvictOldest, WithinLimit, Relookup, Goto, Return,
           Loaded, InEdit
  <2>2. QED
    BY <1>2, <1>3, <2>1, SameLocksOwned DEF SameLocks
<1>6. QED
  BY <1>4, <1>5

LEMMA MakingLocks ==
    ASSUME Typed, LocksOwned, NEW t \in Thread, Load(t) \/ \E d \in Dataset : BeginCreate(t, d)
    PROVE  LocksOwned'
<1>1. PICK x \in UTGObject : objects' = Append(objects, x) /\ x.lock = None
  <2>1. CASE Load(t)
    <3>1. call[t].dataset \in Dataset
      BY <2>1 DEF Load, Typed, CallsAreOfObjects, Busy
    <3>2. [dataset |-> call[t].dataset, edits |-> files[call[t].dataset].edits,
           lock |-> None] \in UTGObject
      BY <3>1 DEF UTGObject, Typed, Types
    <3>3. QED
      BY <2>1, <3>2 DEF Load
  <2>2. ASSUME NEW d \in Dataset, BeginCreate(t, d)
        PROVE  \E x \in UTGObject : objects' = Append(objects, x) /\ x.lock = None
    <3>1. [dataset |-> d, edits |-> {}, lock |-> None] \in UTGObject
      BY DEF UTGObject
    <3>2. QED
      BY <2>2, <3>1 DEF BeginCreate
  <2>3. QED
    BY <2>1, <2>2
<1>2. /\ \A i \in DOMAIN objects : objects'[i] = objects[i]
      /\ objects'[Len(objects) + 1] = x
      /\ DOMAIN objects' = DOMAIN objects \cup {Len(objects) + 1}
  BY <1>1, AppendProperties DEF Typed, Types
<1>3. SameLocks
  BY <1>1, <1>2 DEF SameLocks
<1>4. pc[t] \notin InEdit /\ pc'[t] \notin InEdit /\ OthersStay(t)
  BY DEF Load, BeginCreate, Goto, Typed, Types, InEdit, OthersStay
<1>5. QED
  BY <1>3, <1>4, SameLocksOwned

LEMMA EditingLocks ==
    ASSUME Typed, LocksOwned, NEW t \in Thread,
           Acquire(t) \/ ApplyAndSave(t) \/ EditFails(t) \/ SaveFails(t) \/ Release(t)
    PROVE  LocksOwned'
<1> DEFINE o == call[t].object
<1>1. /\ pc \in [Thread -> Label] /\ call \in [Thread -> Locals]
      /\ o \in DOMAIN objects /\ objects[o] \in UTGObject /\ None \notin Thread
  BY ObjectsAreObjects, ThreadAssumption
     DEF Acquire, ApplyAndSave, EditFails, SaveFails, Release, HasObject, Typed, Types,
         CallsAreOfObjects
<1>2. OthersStay(t) /\ objects[o].lock \in {None, t}
  BY <1>1 DEF Acquire, EntryFree, ApplyAndSave, EditFails, SaveFails, Release, Goto, Return,
              OthersStay, LocksOwned, EditorsHold, InEdit
<1>3. CASE Acquire(t)
  <2>1. [objects[o] EXCEPT !.lock = t].lock = t
    BY <1>1 DEF UTGObject
  <2>2. /\ objects' = [objects EXCEPT ![o] = [objects[o] EXCEPT !.lock = t]]
        /\ pc[t] \notin InEdit /\ pc'[t] \in InEdit /\ call' = call
    BY <1>1, <1>3 DEF Acquire, Goto, InEdit
  <2>3. objects'[o].lock = t /\ DOMAIN objects' = DOMAIN objects
        /\ \A i \in DOMAIN objects \ {o} : objects'[i] = objects[i]
    BY <1>1, <2>1, <2>2
  <2>4. QED
    BY <1>1, <1>2, <2>2, <2>3, LockChangedOwned
<1>4. CASE ApplyAndSave(t)
  <2>1. PICK es : objects' = [objects EXCEPT ![o] = [objects[o] EXCEPT !.edits = es]]
    BY <1>4 DEF ApplyAndSave
  <2>2. [objects[o] EXCEPT !.edits = es].lock = objects[o].lock
    BY <1>1 DEF UTGObject
  <2>3. SameLocks
    BY <1>1, <2>1, <2>2 DEF SameLocks
  <2>4. pc[t] \in InEdit /\ pc'[t] \in InEdit /\ call' = call
    BY <1>1, <1>4 DEF ApplyAndSave, Goto, InEdit
  <2>5. QED
    BY <1>2, <2>3, <2>4, SameLocksOwned
<1>5. CASE EditFails(t) \/ SaveFails(t) \/ Release(t)
  <2>1. PICK x \in {objects[o], [objects[o] EXCEPT !.edits = @ \cup {NewEdit}]} :
          objects' = [objects EXCEPT ![o] = [x EXCEPT !.lock = None]]
    BY <1>5 DEF EditFails, SaveFails, Release
  <2>2. [x EXCEPT !.lock = None].lock = None
    BY <1>1, <2>1 DEF UTGObject
  <2>3. objects'[o].lock = None /\ DOMAIN objects' = DOMAIN objects
        /\ \A i \in DOMAIN objects \ {o} : objects'[i] = objects[i]
    BY <1>1, <2>1, <2>2
  <2>4. pc'[t] \notin InEdit
    BY <1>1, <1>5 DEF EditFails, SaveFails, Release, Return, Goto, InEdit
  <2>5. QED
    BY <1>1, <1>2, <2>3, <2>4, LockChangedOwned
<1>6. QED
  BY <1>3, <1>4, <1>5

LEMMA NextLocks ==
    ASSUME Typed, LocksOwned, [Next]_vars
    PROVE  LocksOwned'
<1>1. CASE UNCHANGED <<objects, pc, call>>
  BY <1>1 DEF LocksOwned, EditorsHold, HoldersEdit
<1>2. ASSUME NEW t \in Thread, NEW d \in Dataset, BeginRead(t, d) \/ BeginEdit(t, d)
      PROVE  LocksOwned'
  <2>1. /\ OthersStay(t) /\ objects' = objects
        /\ pc[t] \notin InEdit /\ pc'[t] \notin InEdit
    BY <1>2 DEF BeginRead, BeginEdit, Begin, Goto, Typed, Types, InEdit, OthersStay
  <2>2. QED
    BY <2>1, SameLocksOwned DEF SameLocks
<1>3. ASSUME NEW t \in Thread, Start(t)
      PROVE  LocksOwned'
  BY <1>2, <1>3, MakingLocks DEF Start
<1>4. ASSUME NEW t \in Thread, Continue(t)
      PROVE  LocksOwned'
  BY <1>4, ReadingLocks, MakingLocks, EditingLocks DEF Continue
<1>5. QED
  BY <1>1, <1>3, <1>4 DEF Next, GrowOld, vars

-----------------------------------------------------------------------------
LEMMA InitIInv == Init => IInv
<1> SUFFICES ASSUME Init PROVE IInv
  OBVIOUS
<1>1. <<>> \in Seq(UTGObject) /\ Len(<<>>) = 0 /\ MaxLoads \in Nat
  BY BoundAssumption
<1>2. Types
  <2>1. objects \in Seq(UTGObject) /\ Len(objects) <= MaxLoads
    BY <1>1 DEF Init
  <2>2. files \in [Dataset -> [mtime : Nat, edits : SUBSET Edit]]
    BY DEF Init
  <2>3. call \in [Thread -> Locals] /\ pc \in [Thread -> Label]
    BY DEF Init, Idle, Locals, Label
  <2>4. QED
    BY <2>1, <2>2, <2>3 DEF Init, Types
<1>3. CallsAreOfObjects /\ EntriesAreOfObjects /\ LockHeld /\ LoadMisses
  BY DEF Init, CallsAreOfObjects, EntriesAreOfObjects, LockHeld, LoadMisses, Busy, HasObject,
         Cached
<1>4. FreshUnknown /\ InsertAlone /\ LocksOwned
  BY DatasetAssumption
     DEF Init, FreshUnknown, InsertAlone, Busy, LocksOwned, EditorsHold, HoldersEdit, InEdit
<1>5. QED
  BY <1>2, <1>3, <1>4 DEF IInv

LEMMA SpecIInv == Spec => []IInv
<1>1. IInv /\ [Next]_vars => IInv'
  BY NextTyped, NextLock, NextFresh, NextLocks DEF IInv, Typed
<1>2. QED
  BY <1>1, InitIInv, PTL DEF Spec

\* Entries, objects, files and calls keep their types, and every entry and
\* every edit has an object that was loaded or created.
THEOREM EntriesHaveObjects == Spec => [](Types /\ EntriesAreOfObjects)
<1>1. IInv => Types /\ EntriesAreOfObjects
  BY DEF IInv
<1>2. QED
  BY <1>1, SpecIInv, PTL

\* No step takes an object out of the cache while somebody holds its entry's
\* lock, also not the one that puts a new object in its place.
THEOREM EvictionsWait == Spec => EvictionWaits
<1> DEFINE Waits ==
      \A d \in Cached :
         cache'[d] = None \/ cache'[d].object # CachedObject(d)
            => objects[CachedObject(d)].lock = None
<1>1. IInv /\ [Next]_vars => Waits
  <2> SUFFICES ASSUME IInv, [Next]_vars PROVE Waits
    OBVIOUS
  <2>1. CASE UNCHANGED cache
    BY <2>1 DEF Cached, CachedObject
  <2>2. ASSUME NEW t \in Thread, pc[t] \notin InEdit, NEW d, Evict(t, d)
        PROVE  Waits
    <3> SUFFICES ASSUME NEW x \in Cached, cache'[x] = None \/ cache'[x].object # CachedObject(x)
                 PROVE  objects[CachedObject(x)].lock = None
      OBVIOUS
    <3>1. x = d
      BY <2>2 DEF Evict, IInv, Types, Cached, CachedObject
    <3>2. CachedObject(x) \in DOMAIN objects /\ objects[CachedObject(x)].lock \in {None, t}
      BY <2>2, <3>1 DEF Evict, EntryFree, IInv, EntriesAreOfObjects
    <3>3. QED
      BY <2>2, <3>2 DEF IInv, LocksOwned, HoldersEdit
  <2>3. ASSUME NEW t \in Thread, Load(t) \/ Insert(t)
        PROVE  Waits
    <3>1. call[t].dataset \notin Cached
      BY <2>3 DEF Load, Insert, IInv, LoadMisses, InsertAlone, Cached
    <3>2. \A d \in Cached : cache'[d] = cache[d]
      BY <2>3, <3>1 DEF Load, Insert, IInv, Types, Cached
    <3>3. QED
      BY <3>2 DEF Cached, CachedObject
  <2>4. ASSUME NEW t \in Thread, Stamp(t)
        PROVE  Waits
    BY <2>4, StampTyped DEF IInv, Typed, ObjectsStay
  <2>5. ASSUME NEW d \in Dataset, GrowOld(d)
        PROVE  Waits
    BY <2>5, GrowOldTyped DEF IInv, Typed, ObjectsStay
  <2>6. ASSUME NEW t \in Thread, Start(t)
        PROVE  Waits
    BY <2>1, <2>6 DEF Start, BeginRead, BeginEdit, BeginCreate, Begin
  <2>7. ASSUME NEW t \in Thread, Continue(t)
        PROVE  Waits
    <3>1. CASE EvictExpired(t) \/ Invalidate(t) \/ EvictOldest(t)
      BY <2>2, <3>1 DEF EvictExpired, Invalidate, EvictOldest, InEdit
    <3>2. CASE \/ Lookup(t) \/ Stat(t) \/ CleanupExpiredCache(t) \/ CleanupDone(t) \/ Hit(t)
               \/ Miss(t) \/ LoadNothing(t) \/ WithinLimit(t) \/ Relookup(t)
      BY <2>1, <3>2 DEF Lookup, Stat, CleanupExpiredCache, CleanupDone, Hit, Miss, LoadNothing,
                        WithinLimit, Relookup
    <3>3. CASE Acquire(t) \/ ApplyAndSave(t) \/ EditFails(t) \/ SaveFails(t) \/ Release(t)
      BY <2>1, <3>3 DEF Acquire, ApplyAndSave, EditFails, SaveFails, Release
    <3>4. QED
      BY <2>3, <2>4, <2>7, <3>1, <3>2, <3>3 DEF Continue
  <2>8. QED
    BY <2>1, <2>5, <2>6, <2>7 DEF Next, vars
<1>2. QED
  BY <1>1, SpecIInv, PTL DEF Spec, EvictionWaits

-----------------------------------------------------------------------------
(***************************************************************************)
(* What entries, objects and files contain, with any number of threads.    *)
(* An object found may be evicted before it is locked; once it is locked   *)
(* as the cached one it stays the cached one, since an eviction waits for  *)
(* the lock.  So the edits of a dataset that has not raced are made one    *)
(* after the other on the cached object, which is loaded only while none   *)
(* of them is under way, and has all that the file has.                    *)
(***************************************************************************)
EntrySound(d) ==
    LET kept == objects[CachedObject(d)] IN
    /\ kept.dataset = d
    /\ d \notin raced =>
          files[d].edits \subseteq kept.edits
          /\ (SaveMayFail \/ kept.edits \subseteq files[d].edits)

CallSound(t) ==
    LET d == call[t].dataset
        o == call[t].object IN
    /\ pc[t] \in HasObject => objects[o].dataset = d
    /\ pc[t] \in InEdit /\ d \notin raced => d \in Cached /\ o = CachedObject(d)
    /\ pc[t] \in {"stamp", "release"} /\ d \notin raced =>
          objects[o].edits \subseteq files[d].edits
    /\ pc[t] = "insert" => objects[o].edits = files[d].edits

EntriesSound == \A d \in Cached : EntrySound(d)
CallsSound == \A t \in Thread : CallSound(t)
NoFileNoEdits == \A d \in Dataset : files[d].mtime = 0 => files[d].edits = {}
CInv == EntriesSound /\ CallsSound /\ NoFileNoEdits /\ NoLostUpdate

\* An object stays what it was.
ObjectStays(o) ==
    o \in DOMAIN objects' /\ objects'[o].dataset = objects[o].dataset
                          /\ objects'[o].edits = objects[o].edits
EntryStays(d) == d \in Cached' /\ cache'[d].object = cache[d].object

LEMMA EntryStaysSound ==
    ASSUME NEW d, EntrySound(d), EntryStays(d), ObjectStays(CachedObject(d)),
           files'[d].edits = files[d].edits, d \notin raced' => d \notin raced
    PROVE  EntrySound(d)'
BY DEF EntrySound, EntryStays, ObjectStays, CachedObject

LEMMA CallStaysSound ==
    ASSUME NEW t \in Thread, CallSound(t), pc'[t] = pc[t], call'[t] = call[t],
           pc[t] \in HasObject => ObjectStays(call[t].object),
           Busy(t) => files'[call[t].dataset].edits = files[call[t].dataset].edits,
           pc[t] \in InEdit /\ call[t].dataset \in Cached
              /\ call[t].object = CachedObject(call[t].dataset) => EntryStays(call[t].dataset),
           call[t].dataset \notin raced' => call[t].dataset \notin raced
    PROVE  CallSound(t)'
BY DEF CallSound, ObjectStays, EntryStays, CachedObject, HasObject, InEdit, Busy

\* The steps that change no object, no file and no entry but to remove it.
LEMMA QuietStep ==
    ASSUME Typed, CInv, NEW t \in Thread, OthersStay(t), CallSound(t)',
           \A o \in DOMAIN objects : ObjectStays(o), UNCHANGED files,
           \A d \in Cached' : d \in Cached /\ EntryStays(d),
           \A u \in Thread \ {t} : pc[u] \in InEdit /\ call[u].dataset \in Cached
              /\ call[u].object = CachedObject(call[u].dataset) => EntryStays(call[u].dataset),
           raced \subseteq raced', NoLostUpdate'
    PROVE  CInv'
<1>1. EntriesSound'
  <2> SUFFICES ASSUME NEW d \in Cached' PROVE EntrySound(d)'
    BY DEF EntriesSound
  <2>1. d \in Cached /\ EntryStays(d) /\ EntrySound(d) /\ ObjectStays(CachedObject(d))
    BY DEF CInv, EntriesSound, Typed, EntriesAreOfObjects
  <2>2. QED
    BY <2>1, EntryStaysSound
<1>2. CallsSound'
  <2> SUFFICES ASSUME NEW u \in Thread \ {t} PROVE CallSound(u)'
    BY DEF CallsSound
  <2>1. /\ CallSound(u) /\ pc'[u] = pc[u] /\ call'[u] = call[u]
        /\ pc[u] \in HasObject => ObjectStays(call[u].object)
    BY DEF CInv, CallsSound, OthersStay, Typed, CallsAreOfObjects
  <2>2. QED
    BY <2>1, CallStaysSound
<1>3. NoFileNoEdits'
  BY DEF CInv, NoFileNoEdits
<1>4. QED
  BY <1>1, <1>2, <1>3 DEF CInv

LEMMA SameSound ==
    ASSUME Typed, CInv, NEW t \in Thread, OthersStay(t), CallSound(t)',
           UNCHANGED <<cache, objects, files, done>>, raced \subseteq raced'
    PROVE  CInv'
<1>1. \A o \in DOMAIN objects : ObjectStays(o)
  BY DEF ObjectStays
<1>2. Cached' = Cached /\ \A d \in Cached : EntryStays(d)
  BY DEF Cached, EntryStays
<1>3. NoLostUpdate'
  BY DEF CInv, NoLostUpdate
<1>4. QED
  BY <1>1, <1>2, <1>3, QuietStep

\* A thread that does not edit holds nothing of what CallSound says.
LEMMA IdleSound ==
    ASSUME NEW t \in Thread, pc'[t] \notin HasObject
    PROVE  CallSound(t)'
BY DEF CallSound, HasObject, InEdit

LEMMA OthersOfStep ==
    ASSUME Typed, NEW t \in Thread,
           \/ UNCHANGED pc
           \/ \E l : pc' = [pc EXCEPT ![t] = l],
           \/ UNCHANGED call
           \/ \E c : call' = [call EXCEPT ![t] = c]
    PROVE  OthersStay(t)
BY DEF Typed, Types, OthersStay

LEMMA ReadingSound ==
    ASSUME Typed, CInv, NEW t \in Thread,
           \/ Lookup(t) \/ Stat(t) \/ CleanupExpiredCache(t) \/ CleanupDone(t)
           \/ Hit(t) \/ Miss(t) \/ LoadNothing(t) \/ WithinLimit(t) \/ Relookup(t)
    PROVE  CInv'
<1>1. pc \in [Thread -> Label] /\ call \in [Thread -> Locals]
  BY DEF Typed, Types
<1>2. OthersStay(t)
  <2>1. \E l : pc' = [pc EXCEPT ![t] = l]
    BY DEF Lookup, Stat, CleanupExpiredCache, CleanupDone, Hit, Miss, LoadNothing, WithinLimit,
           Relookup, Goto, Return, Loaded
  <2>2. \/ UNCHANGED call
        \/ \E c : call' = [call EXCEPT ![t] = c]
    BY DEF Lookup, Stat, CleanupExpiredCache, CleanupDone, Hit, Miss, LoadNothing, WithinLimit,
           Relookup, Return, Loaded
  <2>3. QED
    BY <2>1, <2>2, OthersOfStep
<1>3. UNCHANGED <<cache, objects, files, done, raced>>
  BY DEF Lookup, Stat, CleanupExpiredCache, CleanupDone, Hit, Miss, LoadNothing, WithinLimit,
         Relookup
<1>4. CallSound(t)'
  <2>1. CASE (Lookup(t) \/ Relookup(t)) /\ call[t].dataset \in Cached
    <3> DEFINE c == [call[t] EXCEPT !.object = CachedObject(call[t].dataset)]
    <3>1. c.dataset = call[t].dataset /\ c.object = CachedObject(call[t].dataset)
      BY <1>1 DEF Locals
    <3>2. call'[t] = c /\ pc'[t] = "acquire"
      BY <1>1, <2>1 DEF Lookup, Relookup, Goto
    <3>3. objects[c.object].dataset = c.dataset
      BY <2>1, <3>1 DEF CInv, EntriesSound, EntrySound
    <3>4. QED
      BY <1>3, <3>2, <3>3 DEF CallSound, InEdit
  <2>2. CASE (Lookup(t) \/ Relookup(t)) /\ call[t].dataset \notin Cached
    BY <1>1, <2>2, IdleSound DEF Lookup, Relookup, Goto, Return, HasObject
  <2>3. CASE \/ Stat(t) \/ CleanupExpiredCache(t) \/ CleanupDone(t)
             \/ Hit(t) \/ Miss(t) \/ LoadNothing(t) \/ WithinLimit(t)
    BY <1>1, <2>3, IdleSound
       DEF Stat, CleanupExpiredCache, CleanupDone, Hit, Miss, LoadNothing, WithinLimit, Loaded,
           Goto, Return, HasObject
  <2>4. QED
    BY <2>1, <2>2, <2>3
<1>5. QED
  BY <1>2, <1>3, <1>4, SameSound

\* An eviction finds nobody editing the object.
LEMMA EvictingSound ==
    ASSUME Typed, LocksOwned, CInv, NEW t \in Thread,
           EvictExpired(t) \/ Invalidate(t) \/ EvictOldest(t)
    PROVE  CInv'
<1>1. PICK d : Evict(t, d)
  BY DEF EvictExpired, Invalidate, EvictOldest
<1>2. /\ UNCHANGED <<objects, files, done, raced>>
      /\ pc[t] \notin HasObject /\ pc'[t] \notin HasObject
  BY DEF EvictExpired, Invalidate, EvictOldest, Goto, HasObject, Typed, Types
<1>3. OthersStay(t)
  BY DEF EvictExpired, Invalidate, EvictOldest, Goto, OthersStay, Typed, Types
<1>4. \A x \in Cached \ {d} : EntryStays(x)
  BY <1>1 DEF Evict, EntryStays, Cached, Typed, Types
<1>5. \A x \in Cached' : x \in Cached /\ EntryStays(x)
  BY <1>1 DEF Evict, EntryStays, Cached, Typed, Types
<1>6. ASSUME NEW u \in Thread \ {t}, pc[u] \in InEdit, call[u].dataset \in Cached,
             call[u].object = CachedObject(call[u].dataset)
      PROVE  EntryStays(call[u].dataset)
  <2>1. objects[call[u].object].lock = u
    BY <1>6 DEF LocksOwned, EditorsHold
  <2>2. call[u].dataset # d
    BY <1>1, <1>6, <2>1, ThreadAssumption DEF Evict, EntryFree
  <2>3. QED
    BY <1>4, <1>6, <2>2
<1>7. /\ \A o \in DOMAIN objects : ObjectStays(o)
      /\ CallSound(t)' /\ NoLostUpdate'
  BY <1>2, IdleSound DEF ObjectStays, CInv, NoLostUpdate
<1>8. QED
  BY <1>2, <1>3, <1>5, <1>6, <1>7, QuietStep

\* The steps of an edit that change at most the lock of the object.
LEMMA LockingSound ==
    ASSUME Typed, CInv, NEW t \in Thread, Acquire(t) \/ EditFails(t) \/ Release(t)
    PROVE  CInv'
<1> DEFINE o == call[t].object
           d == call[t].dataset
<1>1. /\ pc \in [Thread -> Label] /\ call \in [Thread -> Locals]
      /\ o \in DOMAIN objects /\ objects[o] \in UTGObject /\ objects[o].dataset = d
      /\ CallSound(t) /\ d \in Dataset
  BY ObjectsAreObjects
     DEF Acquire, EditFails, Release, Typed, Types, CallsAreOfObjects, HasObject, Busy,
         CInv, CallsSound, CallSound
<1>2. PICK l : objects' = [objects EXCEPT ![o] = [objects[o] EXCEPT !.lock = l]]
  BY DEF Acquire, EditFails, Release
<1>3. \A i \in DOMAIN objects : ObjectStays(i)
  <2>1. /\ [objects[o] EXCEPT !.lock = l].dataset = objects[o].dataset
        /\ [objects[o] EXCEPT !.lock = l].edits = objects[o].edits
    BY <1>1 DEF UTGObject
  <2>2. QED
    BY <1>1, <1>2, <2>1 DEF ObjectStays
<1>4. UNCHANGED <<cache, files>> /\ raced \subseteq raced'
  BY DEF Acquire, EditFails, Release
<1>5. OthersStay(t)
  BY <1>1 DEF Acquire, EditFails, Release, Goto, Return, OthersStay
<1>6. CallSound(t)'
  <2>1. CASE Acquire(t)
    <3>1. pc'[t] = "apply" /\ call' = call /\ (d \notin raced' => d \in Cached /\ CachedObject(d) = o)
      BY <1>1, <2>1 DEF Acquire, Goto
    <3>2. objects'[o].dataset = d
      BY <1>1, <1>3 DEF ObjectStays
    <3>3. QED
      BY <1>4, <3>1, <3>2 DEF CallSound, Cached, CachedObject
  <2>2. CASE EditFails(t) \/ Release(t)
    BY <1>1, <2>2, IdleSound DEF EditFails, Release, Return, Goto, HasObject
  <2>3. QED
    BY <2>1, <2>2
<1>7. NoLostUpdate'
  <2>1. CASE UNCHANGED done
    BY <1>4, <2>1 DEF CInv, NoLostUpdate
  <2>2. CASE Release(t)
    <3>1. d \notin raced => objects[o].edits \subseteq files[d].edits
      BY <1>1, <2>2 DEF Release, CallSound
    <3>2. \A x \in Dataset : done'[x] = IF x = d THEN done[x] \cup objects[o].edits ELSE done[x]
      BY <1>1, <2>2 DEF Release, Typed, Types
    <3>3. QED
      BY <1>4, <2>2, <3>1, <3>2 DEF Release, CInv, NoLostUpdate
  <2>3. QED
    BY <2>1, <2>2 DEF Acquire, EditFails
<1>8. Cached' = Cached /\ \A x \in Cached : EntryStays(x)
  BY <1>4 DEF Cached, EntryStays
<1>9. QED
  BY <1>3, <1>4, <1>5, <1>6, <1>7, <1>8, QuietStep

\* The steps that change an entry in place.
LEMMA StampSound ==
    ASSUME Typed, CInv, NEW t \in Thread, Stamp(t)
    PROVE  CInv'
<1>1. ObjectsStay
  BY StampTyped
<1>2. Cached' = Cached /\ \A d \in Cached : EntryStays(d)
  BY <1>1 DEF Stamp, Typed, Types, ObjectsStay, Cached, CachedObject, EntryStays
<1>3. /\ pc[t] = "stamp" /\ pc'[t] = "release" /\ OthersStay(t)
      /\ UNCHANGED <<objects, files, call, done, raced>>
  BY DEF Stamp, Goto, OthersStay, Typed, Types
<1>4. CallSound(t)'
  <2>1. CallSound(t)
    BY DEF CInv, CallsSound
  <2>2. QED
    BY <1>2, <1>3, <2>1 DEF CallSound, HasObject, InEdit, EntryStays, CachedObject
<1>5. NoLostUpdate' /\ \A o \in DOMAIN objects : ObjectStays(o)
  BY <1>3 DEF CInv, NoLostUpdate, ObjectStays
<1>6. QED
  BY <1>2, <1>3, <1>4, <1>5, QuietStep

LEMMA GrowOldSound ==
    ASSUME Typed, CInv, NEW d \in Dataset, GrowOld(d)
    PROVE  CInv'
<1>1. ObjectsStay
  BY GrowOldTyped
<1>2. Cached' = Cached /\ \A x \in Cached : EntryStays(x)
  BY <1>1 DEF GrowOld, Typed, Types, ObjectsStay, Cached, CachedObject, EntryStays
<1>3. UNCHANGED <<objects, files, pc, call, done, raced>>
  BY DEF GrowOld
<1>4. EntriesSound'
  BY <1>2, <1>3 DEF CInv, EntriesSound, EntrySound, EntryStays, CachedObject
<1>5. ASSUME NEW t \in Thread
      PROVE  CallSound(t)'
  <2>1. CallSound(t)
    BY DEF CInv, CallsSound
  <2>2. QED
    BY <1>2, <1>3, <2>1 DEF CallSound, EntryStays, CachedObject
<1>6. NoFileNoEdits' /\ NoLostUpdate'
  BY <1>3 DEF CInv, NoFileNoEdits, NoLostUpdate
<1>7. QED
  BY <1>4, <1>5, <1>6 DEF CInv, CallsSound

\* A new object leaves the others as they are.
LEMMA NewObject ==
    ASSUME Typed, NEW x \in UTGObject, objects' = Append(objects, x)
    PROVE  /\ \A i \in DOMAIN objects : ObjectStays(i)
           /\ objects'[Len(objects) + 1] = x
           /\ DOMAIN objects' = DOMAIN objects \cup {Len(objects) + 1}
BY AppendProperties DEF Typed, Types, ObjectStays

\* The steps that put an entry where there was none, of an object that has what
\* the file has: nobody is editing the dataset then, unless it has raced.
LEMMA PutSound ==
    ASSUME Typed, CInv, NEW t \in Thread, OthersStay(t),
           NEW d \in Dataset, cache[d] = None, cache'[d] # None,
           \A x \in Dataset \ {d} : cache'[x] = cache[x],
           \A i \in DOMAIN objects : ObjectStays(i),
           objects'[cache'[d].object].dataset = d,
           objects'[cache'[d].object].edits = files[d].edits,
           pc'[t] = "limit", UNCHANGED <<files, done, raced>>
    PROVE  CInv'
<1>1. \A x \in Cached : x # d /\ EntryStays(x)
  BY DEF Cached, EntryStays
<1>2. EntriesSound'
  <2> SUFFICES ASSUME NEW x \in Cached' PROVE EntrySound(x)'
    BY DEF EntriesSound
  <2>1. CASE x = d
    BY <2>1 DEF EntrySound, CachedObject
  <2>2. CASE x # d
    <3>1. x \in Cached /\ EntryStays(x) /\ EntrySound(x) /\ ObjectStays(CachedObject(x))
      BY <1>1, <2>2 DEF Cached, CInv, EntriesSound, Typed, EntriesAreOfObjects
    <3>2. QED
      BY <3>1, EntryStaysSound
  <2>3. QED
    BY <2>1, <2>2
<1>3. CallsSound'
  <2> SUFFICES ASSUME NEW u \in Thread \ {t} PROVE CallSound(u)'
    BY IdleSound DEF CallsSound, HasObject
  <2>1. /\ CallSound(u) /\ pc'[u] = pc[u] /\ call'[u] = call[u]
        /\ pc[u] \in HasObject => ObjectStays(call[u].object)
    BY DEF CInv, CallsSound, OthersStay, Typed, CallsAreOfObjects
  <2>2. QED
    BY <1>1, <2>1, CallStaysSound
<1>4. NoFileNoEdits' /\ NoLostUpdate'
  BY DEF CInv, NoFileNoEdits, NoLostUpdate
<1>5. QED
  BY <1>2, <1>3, <1>4 DEF CInv

LEMMA LoadSound ==
    ASSUME Typed, LoadMisses, CInv, NEW t \in Thread, Load(t)
    PROVE  CInv'
<1> DEFINE d == call[t].dataset
           x == [dataset |-> d, edits |-> files[d].edits, lock |-> None]
           e == [object |-> Len(objects) + 1, mtime |-> call[t].mtime, old |-> FALSE]
<1>1. d \in Dataset /\ x \in UTGObject /\ cache[d] = None
  BY DEF Load, Typed, Types, CallsAreOfObjects, Busy, UTGObject, LoadMisses
<1>2. /\ objects' = Append(objects, x) /\ cache' = [cache EXCEPT ![d] = e]
      /\ UNCHANGED <<files, done, raced>> /\ pc'[t] = "limit" /\ OthersStay(t)
  BY DEF Load, Goto, OthersStay, Typed, Types
<1>3. /\ \A i \in DOMAIN objects : ObjectStays(i)
      /\ objects'[Len(objects) + 1] = x
  BY <1>1, <1>2, NewObject
<1>4. /\ cache'[d] = e /\ e \in [object : {Len(objects) + 1}, mtime : Nat, old : {FALSE}]
      /\ \A y \in Dataset \ {d} : cache'[y] = cache[y]
  BY <1>1, <1>2 DEF Typed, Types, Locals
<1>5. e # None
  <2>1. Len(objects) + 1 \in Object
    BY <1>1, <1>2, ObjectAdded DEF Load, Typed
  <2>2. QED
    BY <1>4, <2>1, NoneAssumption DEF Entry
<1>6. QED
  BY <1>1, <1>2, <1>3, <1>4, <1>5, PutSound

LEMMA InsertSound ==
    ASSUME Typed, InsertAlone, CInv, NEW t \in Thread, Insert(t)
    PROVE  CInv'
<1> DEFINE d == call[t].dataset
           e == [object |-> call[t].object, mtime |-> call[t].mtime, old |-> FALSE]
<1>1. /\ d \in Dataset /\ call[t].object \in Object /\ call[t].mtime \in Nat /\ cache[d] = None
      /\ objects[e.object].dataset = d /\ objects[e.object].edits = files[d].edits
  BY ObjectsAreObjects
     DEF Insert, Typed, Types, CallsAreOfObjects, HasObject, Busy, InsertAlone, CInv, CallsSound,
         CallSound, Locals
<1>2. /\ cache' = [cache EXCEPT ![d] = e] /\ OthersStay(t)
      /\ UNCHANGED <<objects, files, done, raced>> /\ pc'[t] = "limit"
  BY DEF Insert, Goto, OthersStay, Typed, Types
<1>3. cache'[d] = e /\ \A y \in Dataset \ {d} : cache'[y] = cache[y]
  BY <1>1, <1>2 DEF Typed, Types
<1>4. e # None /\ \A i \in DOMAIN objects : ObjectStays(i)
  <2>1. e \in Entry
    BY <1>1 DEF Entry
  <2>2. QED
    BY <1>2, <2>1, NoneAssumption DEF ObjectStays
<1>5. QED
  BY <1>1, <1>2, <1>3, <1>4, PutSound

LEMMA CreateSound ==
    ASSUME Typed, CInv, NEW t \in Thread, NEW d \in Dataset, BeginCreate(t, d)
    PROVE  CInv'
<1> DEFINE x == [dataset |-> d, edits |-> {}, lock |-> None]
           o == Len(objects) + 1
           f == [files[d] EXCEPT !.mtime = 1]
           c == [[[[call[t] EXCEPT !.op = "create"] EXCEPT !.dataset = d]
                   EXCEPT !.object = o] EXCEPT !.mtime = 1]
<1>1. x \in UTGObject /\ files[d].edits = {}
  BY DEF BeginCreate, UTGObject, CInv, NoFileNoEdits
<1>2. /\ objects' = Append(objects, x) /\ UNCHANGED <<cache, done, raced>> /\ pc'[t] = "insert"
      /\ OthersStay(t)
  BY DEF BeginCreate, Goto, OthersStay, Typed, Types
<1>3. /\ \A i \in DOMAIN objects : ObjectStays(i)
      /\ objects'[o] = x
  BY <1>1, <1>2, NewObject
<1>4. \A y \in Dataset : /\ files'[y].edits = files[y].edits
                         /\ files'[y].mtime = 0 => files[y].mtime = 0
  <2>1. f.edits = files[d].edits /\ f.mtime = 1
    BY DEF Typed, Types
  <2>2. files' = [files EXCEPT ![d] = f]
    BY DEF BeginCreate
  <2>3. QED
    BY <2>1, <2>2 DEF Typed, Types
<1>5. call'[t].dataset = d /\ call'[t].object = o
  <2>1. c.dataset = d /\ c.object = o
    BY DEF Typed, Types, Locals
  <2>2. call' = [call EXCEPT ![t] = c]
    BY DEF BeginCreate, Typed, Types, Locals
  <2>3. QED
    BY <2>1, <2>2 DEF Typed, Types
<1>6. EntriesSound'
  <2> SUFFICES ASSUME NEW y \in Cached' PROVE EntrySound(y)'
    BY DEF EntriesSound
  <2>1. y \in Cached /\ y \in Dataset /\ EntryStays(y)
    BY <1>2 DEF Cached, EntryStays
  <2>2. EntrySound(y) /\ ObjectStays(CachedObject(y))
    BY <1>3, <2>1 DEF CInv, EntriesSound, Typed, EntriesAreOfObjects
  <2>3. QED
    BY <1>2, <1>4, <2>1, <2>2, EntryStaysSound
<1>7. CallsSound'
  <2>1. CallSound(t)'
    <3>1. x.dataset = d /\ x.edits = {} /\ files'[d].edits = {}
      BY <1>1, <1>4
    <3>2. QED
      BY <1>2, <1>3, <1>5, <3>1 DEF CallSound, InEdit
  <2>2. ASSUME NEW u \in Thread \ {t}
        PROVE  CallSound(u)'
    <3>1. /\ CallSound(u) /\ pc'[u] = pc[u] /\ call'[u] = call[u]
          /\ pc[u] \in HasObject => ObjectStays(call[u].object)
          /\ Busy(u) => call[u].dataset \in Dataset
      BY <1>2, <1>3 DEF CInv, CallsSound, OthersStay, Typed, CallsAreOfObjects
    <3>2. \A y \in Cached : EntryStays(y)
      BY <1>2 DEF Cached, EntryStays
    <3>3. QED
      BY <1>2, <1>4, <3>1, <3>2, CallStaysSound
  <2>3. QED
    BY <2>1, <2>2 DEF CallsSound
<1>8. NoFileNoEdits' /\ NoLostUpdate'
  BY <1>2, <1>4 DEF CInv, NoFileNoEdits, NoLostUpdate
<1>9. QED
  BY <1>6, <1>7, <1>8 DEF CInv

\* An object is changed by its lock's holder, and perhaps written to its file.
\* Of the others, those with this object only wait for it, and nobody else is
\* editing the dataset, unless it has raced.
LEMMA ChangeSound ==
    ASSUME Typed, LocksOwned, InsertAlone, CInv, NEW t \in Thread, OthersStay(t),
           pc[t] = "apply", NEW saved, objects[call[t].object].edits \subseteq saved,
           objects'[call[t].object].dataset = objects[call[t].object].dataset,
           objects'[call[t].object].edits = saved,
           DOMAIN objects' = DOMAIN objects,
           \A i \in DOMAIN objects \ {call[t].object} : objects'[i] = objects[i],
           \A x \in Dataset \ {call[t].dataset} : files'[x] = files[x],
           \/ SaveMayFail /\ files' = files
           \/ files'[call[t].dataset].edits = saved /\ files'[call[t].dataset].mtime # 0,
           CallSound(t)', UNCHANGED <<cache, done, raced>>
    PROVE  CInv'
<1> DEFINE d == call[t].dataset
           o == call[t].object
<1>1. /\ d \in Dataset /\ o \in DOMAIN objects /\ objects[o].dataset = d /\ CallSound(t)
      /\ d \notin raced => d \in Cached /\ o = CachedObject(d)
      /\ objects[o].lock = t
  BY DEF Typed, CallsAreOfObjects, Busy, HasObject, InEdit, CInv, CallsSound, CallSound,
         LocksOwned, EditorsHold
<1>2. \A i \in DOMAIN objects \ {o} : ObjectStays(i)
  BY DEF ObjectStays
<1>3. Cached' = Cached /\ \A x \in Cached : EntryStays(x)
  BY DEF Cached, EntryStays
<1>4. d \notin raced => files[d].edits \subseteq objects[o].edits
  BY <1>1 DEF CInv, EntriesSound, EntrySound
<1>5. EntriesSound'
  <2> SUFFICES ASSUME NEW x \in Cached PROVE EntrySound(x)'
    BY <1>3 DEF EntriesSound
  <2>1. /\ EntrySound(x) /\ EntryStays(x) /\ CachedObject(x) \in DOMAIN objects /\ x \in Dataset
        /\ objects[CachedObject(x)].dataset = x
    BY <1>3 DEF CInv, EntriesSound, EntrySound, Typed, EntriesAreOfObjects, Cached
  <2>2. CASE x # d
    BY <1>1, <1>2, <2>1, <2>2, EntryStaysSound
  <2>3. CASE x = d /\ d \notin raced
    <3>1. CachedObject(x) = o /\ CachedObject(x)' = o
      BY <1>1, <2>1, <2>3 DEF CachedObject, EntryStays
    <3>2. files'[d].edits \subseteq saved /\ (SaveMayFail \/ saved \subseteq files'[d].edits)
      BY <1>4, <2>3
    <3>3. QED
      BY <1>1, <2>3, <3>1, <3>2 DEF EntrySound
  <2>4. CASE x = d /\ d \in raced
    <3>1. CachedObject(x)' = CachedObject(x)
      BY <2>1 DEF CachedObject, EntryStays
    <3>2. objects'[CachedObject(x)].dataset = x
      BY <2>1 DEF ObjectStays
    <3>3. QED
      BY <2>4, <3>1, <3>2 DEF EntrySound
  <2>5. QED
    BY <2>2, <2>3, <2>4
<1>6. ASSUME NEW u \in Thread \ {t}
      PROVE  CallSound(u)'
  <2>1. /\ CallSound(u) /\ pc'[u] = pc[u] /\ call'[u] = call[u]
        /\ Busy(u) => call[u].dataset \in Dataset
        /\ pc[u] \in HasObject => call[u].object \in DOMAIN objects
    BY DEF CInv, CallsSound, OthersStay, Typed, CallsAreOfObjects
  <2>2. CASE pc[u] \notin HasObject
    BY <2>1, <2>2, IdleSound
  <2>3. CASE pc[u] \in HasObject /\ call[u].dataset # d
    <3>1. call[u].object # o
      BY <1>1, <2>1, <2>3 DEF CallSound
    <3>2. QED
      BY <1>2, <1>3, <2>1, <2>3, <3>1, CallStaysSound
  <2>4. CASE pc[u] \in HasObject /\ call[u].dataset = d
    <3>1. pc[u] # "insert"
      BY <2>4 DEF InsertAlone, Busy
    <3>2. pc[u] \in InEdit => d \in raced
      <4> SUFFICES ASSUME pc[u] \in InEdit, d \notin raced PROVE FALSE
        OBVIOUS
      <4>1. call[u].object = o
        BY <1>1, <2>1, <2>4 DEF CallSound
      <4>2. objects[o].lock = u
        BY <4>1 DEF LocksOwned, EditorsHold
      <4>3. QED
        BY <1>1, <4>2
    <3>3. objects'[call[u].object].dataset = d
      BY <2>1, <2>4 DEF CallSound
    <3>4. QED
      BY <2>1, <2>4, <3>1, <3>2, <3>3 DEF CallSound, InEdit
  <2>5. QED
    BY <2>2, <2>3, <2>4
<1>7. NoFileNoEdits'
  BY DEF CInv, NoFileNoEdits
<1>8. NoLostUpdate'
  <2> SUFFICES ASSUME NEW x \in Dataset \ raced PROVE done[x] \subseteq files'[x].edits
    BY DEF NoLostUpdate
  <2>1. done[x] \subseteq files[x].edits
    BY DEF CInv, NoLostUpdate
  <2>2. CASE x = d
    BY <1>4, <2>1, <2>2
  <2>3. QED
    BY <2>1, <2>2
<1>9. QED
  BY <1>5, <1>6, <1>7, <1>8 DEF CInv, CallsSound

LEMMA SaveSound ==
    ASSUME Typed, LocksOwned, InsertAlone, CInv, NEW t \in Thread, ApplyAndSave(t)
    PROVE  CInv'
<1> DEFINE d == call[t].dataset
           o == call[t].object
           saved == objects[o].edits \cup {NewEdit}
           x == [objects[o] EXCEPT !.edits = saved]
           f == [mtime |-> files[d].mtime + 1, edits |-> saved]
<1>1. /\ d \in Dataset /\ o \in DOMAIN objects /\ objects[o] \in UTGObject
      /\ files[d].mtime \in Nat /\ CallSound(t) /\ pc[t] = "apply"
  BY ObjectsAreObjects
     DEF ApplyAndSave, Typed, Types, CallsAreOfObjects, HasObject, Busy, CInv, CallsSound
<1>2. /\ UNCHANGED <<cache, call, done, raced>> /\ pc'[t] = "stamp" /\ OthersStay(t)
      /\ objects' = [objects EXCEPT ![o] = x] /\ files' = [files EXCEPT ![d] = f]
  BY DEF ApplyAndSave, Goto, OthersStay, Typed, Types
<1>3. x.dataset = objects[o].dataset /\ x.edits = saved /\ f.mtime # 0 /\ f.edits = saved
  BY <1>1 DEF UTGObject
<1>4. /\ objects'[o] = x /\ DOMAIN objects' = DOMAIN objects
      /\ \A i \in DOMAIN objects \ {o} : objects'[i] = objects[i]
  BY <1>1, <1>2
<1>5. files'[d] = f /\ \A y \in Dataset \ {d} : files'[y] = files[y]
  BY <1>1, <1>2 DEF Typed, Types
<1>6. CallSound(t)'
  <2>1. objects[o].dataset = d /\ (d \notin raced => d \in Cached /\ o = CachedObject(d))
    BY <1>1 DEF CallSound, HasObject, InEdit
  <2>2. QED
    BY <1>2, <1>3, <1>4, <1>5, <2>1 DEF CallSound, Cached, CachedObject
<1>7. QED
  <2> HIDE DEF saved, x, f
  <2>1. objects[o].edits \subseteq saved
    BY DEF saved
  <2>2. QED
    BY <1>1, <1>2, <1>3, <1>4, <1>5, <1>6, <2>1, ChangeSound

LEMMA SaveFailsSound ==
    ASSUME Typed, LocksOwned, InsertAlone, CInv, NEW t \in Thread, SaveFails(t)
    PROVE  CInv'
<1> DEFINE o == call[t].object
           saved == objects[o].edits \cup {NewEdit}
           x == [[objects[o] EXCEPT !.edits = saved] EXCEPT !.lock = None]
<1>1. o \in DOMAIN objects /\ objects[o] \in UTGObject /\ pc[t] = "apply"
  BY ObjectsAreObjects DEF SaveFails, Typed, CallsAreOfObjects, HasObject
<1>2. /\ UNCHANGED <<cache, files, done, raced>> /\ SaveMayFail /\ OthersStay(t)
      /\ objects' = [objects EXCEPT ![o] = x] /\ pc'[t] = "idle"
  BY <1>1 DEF SaveFails, Return, Goto, OthersStay, Typed, Types
<1>3. x.dataset = objects[o].dataset /\ x.edits = saved
  BY <1>1 DEF UTGObject
<1>4. /\ objects'[o] = x /\ DOMAIN objects' = DOMAIN objects
      /\ \A i \in DOMAIN objects \ {o} : objects'[i] = objects[i]
  BY <1>1, <1>2
<1>5. CallSound(t)'
  BY <1>2, IdleSound DEF HasObject
<1>6. QED
  <2> HIDE DEF saved, x
  <2>1. objects[o].edits \subseteq saved
    BY DEF saved
  <2>2. QED
    BY <1>1, <1>2, <1>3, <1>4, <1>5, <2>1, ChangeSound

LEMMA BeginSound ==
    ASSUME Typed, CInv, NEW t \in Thread, NEW d \in Dataset, BeginRead(t, d) \/ BeginEdit(t, d)
    PROVE  CInv'
<1>1. /\ OthersStay(t) /\ pc'[t] \notin HasObject
      /\ UNCHANGED <<cache, objects, files, done, raced>>
  BY DEF BeginRead, BeginEdit, Begin, Goto, HasObject, OthersStay, Typed, Types
<1>2. QED
  BY <1>1, IdleSound, SameSound

LEMMA NextSound ==
    ASSUME IInv, CInv, [Next]_vars
    PROVE  CInv'
<1>1. Typed /\ LocksOwned /\ LoadMisses /\ InsertAlone
  BY DEF IInv, Typed
<1>2. CASE UNCHANGED vars
  BY <1>2 DEF vars, CInv, EntriesSound, EntrySound, CallsSound, CallSound, NoFileNoEdits,
              NoLostUpdate, Cached, CachedObject
<1>3. ASSUME NEW t \in Thread, Start(t)
      PROVE  CInv'
  BY <1>1, <1>3, BeginSound, CreateSound DEF Start
<1>4. ASSUME NEW t \in Thread, Continue(t)
      PROVE  CInv'
  BY <1>1, <1>4, ReadingSound, EvictingSound, LockingSound, StampSound, LoadSound, InsertSound,
     SaveSound, SaveFailsSound
     DEF Continue
<1>5. ASSUME NEW d \in Dataset, GrowOld(d)
      PROVE  CInv'
  BY <1>1, <1>5, GrowOldSound
<1>6. QED
  BY <1>2, <1>3, <1>4, <1>5 DEF Next

LEMMA InitSound == Init => CInv
BY DEF Init, CInv, EntriesSound, CallsSound, CallSound, NoFileNoEdits, NoLostUpdate, Cached,
       HasObject, InEdit

LEMMA SpecSound == Spec => []CInv
<1>1. IInv /\ CInv /\ [Next]_vars => CInv'
  BY NextSound
<1>2. QED
  BY <1>1, InitSound, SpecIInv, PTL DEF Spec

\* With any number of threads, whether saves fail or not: an edit reported
\* successful stays in the dataset's file, unless an edit of that dataset
\* locked an object after it had been evicted.
THEOREM EditsAreKept == Spec => []NoLostUpdate
<1>1. CInv => NoLostUpdate
  BY DEF CInv
<1>2. QED
  BY <1>1, SpecSound, PTL

\* With any number of threads and but for the same race, a cached graph has all
\* the file has, and no more than that as long as no save fails.
THEOREM CacheStaysCurrent == Spec => []CacheIsCurrent
<1>1. CInv => CacheIsCurrent
  BY DEF CInv, EntriesSound, EntrySound, CacheIsCurrent
<1>2. QED
  BY <1>1, SpecSound, PTL

-----------------------------------------------------------------------------
(* Editing: the inductive invariant *)

Optional(S) == S \cup {Null}

\* A graph whose events have their ends in it.
Sound(g) ==
    /\ g \in Graph
    /\ \A i \in DOMAIN g.events : g.events[i].from \in g.nodes /\ g.events[i].to \in g.nodes

\* A request names states and events of the recording, and is answered with some.
Asked(c) ==
    /\ c.ask.nodes \subseteq Node
    /\ c.op \in {"delete_event", "update_event"} => c.ask.event \in Event
    /\ c.op \in {"update_event", "create_event"} => c.ask.new \in Event
Answered(c) ==
    /\ c.stage = "load" /\ c.answer = "ok" => Sound(c.got)
    /\ c.stage = "edit" /\ c.answer = "ok" /\ c.op \in ReadOps => c.got \subseteq Node
Call(c) ==
    /\ c = [id |-> c.id, op |-> c.op, ask |-> c.ask, keep |-> c.keep, stage |-> c.stage,
            answer |-> c.answer, got |-> c.got]
    /\ c.op \in Op /\ c.keep \in Optional(Node)
    /\ c.stage \in {"edit", "load"} /\ c.answer \in {"none", "ok", "fail"}
    /\ c.op \in ReadOps => c.stage = "edit"
    /\ Asked(c) /\ Answered(c)

Listed == [edge : Edge, index : Nat, str : Str]
Dialogs ==
    /\ dialog.kind \in {"closed", "edit", "new"}
    /\ dialog.kind = "edit" => dialog.event \in Event
    /\ dialog.kind = "new" => editing.source \in Node
    /\ editing.edge # Null => editing.edge \in Edge /\ editing.str \in Str
    /\ editing = [edge |-> editing.edge, str |-> editing.str, source |-> editing.source]
Confirms ==
    /\ confirm.kind \in {"closed", "event", "node", "branch", "restore"} /\ confirm.ver \in Nat
    /\ confirm.kind = "node" => confirm.node \in Node
    /\ confirm.kind \in {"branch", "restore"} => confirm.nodes \subseteq Node
Pickers ==
    /\ picker = [open |-> picker.open, list |-> picker.list, chosen |-> picker.chosen]
    /\ picker.list \subseteq Node /\ picker.chosen \subseteq Node
Panels ==
    /\ panel.node \in Optional(Node) /\ panel.ver \in Nat
    /\ panel.node = Null => panel.rows = <<>>
    /\ panel.node # Null => current = panel.node
    /\ \A k \in DOMAIN panel.rows : panel.rows[k] \in Listed

EditorTypes ==
    /\ Sound(graph) /\ Sound(utg)
    /\ selected \in Optional(utg.nodes) /\ current \in Optional(Node)
    /\ timers \subseteq Optional(Node) /\ edits \in Nat
    /\ cleared \in BOOLEAN /\ behind \in BOOLEAN /\ unrefreshed \in BOOLEAN /\ muddled \in BOOLEAN
    /\ Dialogs /\ Confirms /\ Pickers /\ Panels
    /\ \A c \in calls : Call(c)

\* The graphs of the server, of the page and on their way to it, told apart by what
\* they have seen.
Arrived == {c \in calls : c.stage = "load" /\ c.answer = "ok"}
Snapshots == {graph, utg} \cup {c.got : c \in Arrived}
Versions ==
    \A s, r \in Snapshots : s.ver <= graph.ver /\ (s.ver = r.ver => s = r)

\* The dialog of an event and the fields that are saved.
ShownIsKept ==
    /\ dialog.kind = "edit" /\ editing.edge # Null =>
          dialog.event = [from |-> editing.edge[1], to |-> editing.edge[2], str |-> editing.str]
    /\ dialog.kind = "new" => editing.source = dialog.source

\* What the panel lists and what a deletion was asked for are of the graph they were
\* drawn from, wherever that graph still is.
PanelIsDrawn ==
    panel.node # Null =>
        /\ panel.ver <= graph.ver
        /\ \A s \in Snapshots : s.ver = panel.ver => panel.rows = getOutgoingEvents(s, panel.node)
RowIsOf(id, event, s) ==
    \E i \in DOMAIN s.events :
        <<Row(s, i).edge, Row(s, i).index>> = id /\ s.events[i] = event
ConfirmIsDrawn ==
    confirm.kind = "event" =>
        /\ confirm.ver <= graph.ver
        /\ \A s \in Snapshots : s.ver = confirm.ver => RowIsOf(confirm.row, confirm.event, s)

\* A call whose answer, or whose reload, the page has not had yet.
Made(c) == c.stage = "edit" /\ c.answer = "ok" /\ c.op \notin ReadOps
Landing(c) == Made(c) \/ c.stage = "load"
Unread(c, v) == Made(c) \/ (c.stage = "load" /\ (c.answer = "none" \/ (c.answer = "ok" /\ c.got.ver >= v)))
Removes(c) == c.op \in {"delete_node", "delete_branch"}

Reloads ==
    /\ \A c \in calls : ~(c.stage = "load" /\ c.answer = "fail")
    /\ cleared => \E c \in calls : c.stage = "load"
    /\ utg.ver = graph.ver \/ \E c \in calls : Unread(c, graph.ver)
\* A node that a newer graph lacks was removed by a call still to land.
NodesLast ==
    /\ \A s, r \in Snapshots : utg.ver <= s.ver /\ s.ver < r.ver =>
          \A n \in s.nodes \ r.nodes : \E c \in calls : Removes(c) /\ Unread(c, s.ver + 1)
    /\ panel.node # Null =>
          \A s \in Snapshots : utg.ver <= s.ver /\ panel.node \notin s.nodes =>
              \E c \in calls : Removes(c) /\ Landing(c)
PanelFollows ==
    panel.node # Null /\ panel.rows # getOutgoingEvents(utg, panel.node) =>
        unrefreshed \/ timers # {} \/ \E c \in calls : Landing(c)

EditorInv ==
    /\ EditorTypes /\ Versions /\ PanelIsDrawn /\ ConfirmIsDrawn
    /\ ~muddled => ShownIsKept
    /\ ~behind => Reloads /\ NodesLast /\ PanelFollows
-----------------------------------------------------------------------------
(* Editing: lemmas about the graph's operators *)

Below == {ss \in Nat \X Nat : ss[1] < ss[2]}

\* A set of numbers that is not empty has a least one.
LEMMA LeastExists ==
  ASSUME NEW T, T \subseteq Nat, T # {}
  PROVE  \E x \in T : \A y \in T : x <= y
<1>1. IsWellFoundedOn(Below, Nat)
  BY NatLessThanWellFounded DEF OpToRel, Below
<1>2. PICK x \in T : \A y \in T : ~(<<y, x>> \in Below)
  BY <1>1, WFMin, Zenon
<1>3. ASSUME NEW y \in T PROVE x <= y
  <2>1. x \in Nat /\ y \in Nat /\ ~(<<y, x>> \in Below)
    BY <1>2
  <2>2. y < x => <<y, x>> \in Below
    BY <2>1 DEF Below
  <2>3. QED
    BY <2>1, <2>2
<1>4. QED
  BY <1>3

LEMMA IntervalPart ==
  ASSUME NEW n \in Int, NEW S \in SUBSET (1..n)
  PROVE  IsFiniteSet(S) /\ Cardinality(S) \in Nat
<1>1. IsFiniteSet(1..n)
  BY FS_Interval
<1>2. IsFiniteSet(S)
  BY <1>1, FS_Subset
<1>3. QED
  BY <1>2, FS_CardinalityType

\* The k-th of a set of positions is one of them.
LEMMA NthIsOne ==
  ASSUME NEW n \in Nat, NEW S, S \subseteq 1..n, NEW k \in 1..Cardinality(S)
  PROVE  Nth(S, k) \in S
<1> DEFINE Upto(i) == {j \in S : j <= i}
           T == {i \in Nat : Cardinality(Upto(i)) >= k}
<1>1. IsFiniteSet(S) /\ Cardinality(S) \in Nat
  <2>1. n \in Int /\ S \in SUBSET (1..n)
    OBVIOUS
  <2>2. QED
    BY <2>1, IntervalPart, Zenon
<1>2. ASSUME NEW i \in Nat
      PROVE  IsFiniteSet(Upto(i)) /\ Cardinality(Upto(i)) \in Nat
  BY <1>1, FS_Subset, FS_CardinalityType
<1>3. Upto(n) = S /\ Upto(0) = {}
  <2>1. \A j \in S : j \in 1..n
    OBVIOUS
  <2>2. \A j \in S : j <= n /\ ~(j <= 0)
    BY <2>1
  <2>3. QED
    BY <2>2
<1>4. n \in T /\ Cardinality(Upto(0)) = 0
  BY <1>1, <1>3, FS_EmptySet
<1> HIDE DEF Upto
<1>5. PICK i \in T : \A y \in T : i <= y
  <2>1. T \subseteq Nat /\ T # {}
    BY <1>4
  <2>2. QED
    BY <2>1, LeastExists
<1>6. i \in Nat /\ i # 0 /\ Cardinality(Upto(i)) >= k
  BY <1>4
<1>7. i - 1 \in Nat /\ ~(i - 1 \in T)
  BY <1>5, <1>6
<1>8. Cardinality(Upto(i - 1)) < k
  BY <1>2, <1>7
<1>9. i \in S /\ Upto(i) = Upto(i - 1) \cup {i} /\ ~(i \in Upto(i - 1))
  <2>1. Upto(i) # Upto(i - 1)
    BY <1>2, <1>6, <1>7, <1>8
  <2>2. \A j \in S : j \in Nat
    OBVIOUS
  <2>3. \A j \in S : (j <= i <=> j <= i - 1 \/ j = i) /\ ~(i <= i - 1)
    BY <1>6, <2>2
  <2>4. i \in S
    BY <2>1, <2>3 DEF Upto
  <2>5. QED
    BY <2>3, <2>4 DEF Upto
<1>10. Cardinality(Upto(i)) = Cardinality(Upto(i - 1)) + 1
  BY <1>2, <1>7, <1>9, FS_AddElement
<1>11. Cardinality(Upto(i)) = k
  BY <1>2, <1>6, <1>7, <1>8, <1>10
<1>12. \E x \in S : Cardinality({j \in S : j <= x}) = k
  BY <1>9, <1>11 DEF Upto
<1>13. QED
  BY <1>12 DEF Nth

\* What is kept of a sequence was in it.
LEMMA KeepIsOf ==
  ASSUME NEW E, NEW s \in Seq(E), NEW kept, kept \subseteq DOMAIN s
  PROVE  /\ Keep(s, kept) \in Seq(E)
         /\ \A k \in DOMAIN Keep(s, kept) : \E i \in kept : Keep(s, kept)[k] = s[i]
<1>1. Len(s) \in Nat /\ DOMAIN s = 1..Len(s)
  OBVIOUS
<1>2. IsFiniteSet(kept) /\ Cardinality(kept) \in Nat
  <2>1. Len(s) \in Int /\ kept \in SUBSET (1..Len(s))
    BY <1>1
  <2>2. QED
    BY <2>1, IntervalPart, Zenon
<1>3. \A k \in 1..Cardinality(kept) : Nth(kept, k) \in kept
  BY <1>1, NthIsOne
<1>4. Keep(s, kept) \in [1..Cardinality(kept) -> E]
  BY <1>3 DEF Keep
<1>5. Keep(s, kept) \in Seq(E)
  BY <1>2, <1>4
<1>6. \A k \in 1..Cardinality(kept) : Keep(s, kept)[k] = s[Nth(kept, k)]
  BY DEF Keep
<1>7. DOMAIN Keep(s, kept) = 1..Cardinality(kept)
  BY DEF Keep
<1>8. QED
  BY <1>3, <1>5, <1>6, <1>7

\* An event of an edge has another index than an earlier event of the edge.
LEMMA IndexGrows ==
  ASSUME NEW g, g.events \in Seq(Event), NEW i \in DOMAIN g.events,
         NEW j \in DOMAIN g.events, i < j, OnEdge(g.events[i], g.events[j])
  PROVE  IndexOf(g, i) # IndexOf(g, j)
<1> DEFINE A == {k \in 1..(i - 1) : OnEdge(g.events[k], g.events[i])}
           B == {k \in 1..(j - 1) : OnEdge(g.events[k], g.events[j])}
<1>1. i \in Nat /\ j \in Nat /\ i \in 1..(j - 1)
  OBVIOUS
<1>2. IsFiniteSet(1..(i - 1)) /\ IsFiniteSet(1..(j - 1))
  BY <1>1, FS_Interval
<1>3. A \cup {i} \subseteq B /\ ~(i \in A)
  BY <1>1 DEF OnEdge
<1>4. A \subseteq 1..(i - 1) /\ B \subseteq 1..(j - 1)
  OBVIOUS
<1>5. IsFiniteSet(A) /\ IsFiniteSet(B)
  BY <1>2, <1>4, FS_Subset
<1>6. IndexOf(g, i) = Cardinality(A) /\ IndexOf(g, j) = Cardinality(B)
  BY DEF IndexOf
<1> HIDE DEF A, B
<1>7. Cardinality(A \cup {i}) = Cardinality(A) + 1
  BY <1>3, <1>5, FS_AddElement
<1>8. Cardinality(A \cup {i}) <= Cardinality(B)
  BY <1>3, <1>5, FS_Subset
<1>9. Cardinality(A) \in Nat /\ Cardinality(B) \in Nat
  BY <1>5, FS_CardinalityType
<1>10. QED
  BY <1>6, <1>7, <1>8, <1>9

LEMMA IndexIsNat ==
  ASSUME NEW g, g.events \in Seq(Event), NEW i \in DOMAIN g.events
  PROVE  IndexOf(g, i) \in Nat
<1> DEFINE A == {j \in 1..(i - 1) : OnEdge(g.events[j], g.events[i])}
<1>1. i - 1 \in Int
  OBVIOUS
<1>2. A \in SUBSET (1..(i - 1)) /\ IndexOf(g, i) = Cardinality(A)
  BY DEF IndexOf
<1> HIDE DEF A
<1>3. QED
  BY <1>1, <1>2, IntervalPart, Zenon

\* The id of a row names one event of a graph.
LEMMA RowNamesOne ==
  ASSUME NEW s, s.events \in Seq(Event), NEW id, NEW e, NEW f,
         RowIsOf(id, e, s), RowIsOf(id, f, s)
  PROVE  e = f
<1>1. PICK i \in DOMAIN s.events :
         <<Row(s, i).edge, Row(s, i).index>> = id /\ s.events[i] = e
  BY DEF RowIsOf
<1>2. PICK j \in DOMAIN s.events :
         <<Row(s, j).edge, Row(s, j).index>> = id /\ s.events[j] = f
  BY DEF RowIsOf
<1>3. Row(s, i).edge = Row(s, j).edge /\ Row(s, i).index = Row(s, j).index
  BY <1>1, <1>2
<1>4. OnEdge(s.events[i], s.events[j]) /\ OnEdge(s.events[j], s.events[i])
      /\ IndexOf(s, i) = IndexOf(s, j)
  BY <1>3 DEF Row, OnEdge
<1>5. i \in Int /\ j \in Int
  OBVIOUS
<1>6. i = j
  BY <1>4, <1>5, IndexGrows
<1>7. QED
  BY <1>1, <1>2, <1>6

\* Each row listed for a node is of an event of the graph.
LEMMA RowsAreOfEvents ==
  ASSUME NEW s, s.events \in Seq(Event), NEW n, NEW k \in DOMAIN getOutgoingEvents(s, n)
  PROVE  LET row == getOutgoingEvents(s, n)[k]
         IN  row \in Listed /\ RowIsOf(<<row.edge, row.index>>, EventOf(row), s)
<1> DEFINE from == {i \in DOMAIN s.events : s.events[i].from = n}
           i == Nth(from, k)
<1>1. Len(s.events) \in Nat /\ DOMAIN s.events = 1..Len(s.events)
  OBVIOUS
<1>2. DOMAIN getOutgoingEvents(s, n) = 1..Cardinality(from)
  BY DEF getOutgoingEvents
<1>3. getOutgoingEvents(s, n)[k] = Row(s, i)
  BY <1>2 DEF getOutgoingEvents
<1>4. from \subseteq 1..Len(s.events) /\ k \in 1..Cardinality(from)
  BY <1>1, <1>2
<1>5. i \in from
  <2> HIDE DEF from
  <2>1. QED
    BY <1>1, <1>4, NthIsOne
<1>6. i \in DOMAIN s.events /\ s.events[i] \in Event
  <2>1. \A j \in from : j \in DOMAIN s.events
    OBVIOUS
  <2> HIDE DEF from, i
  <2>2. i \in DOMAIN s.events
    BY <1>5, <2>1
  <2>3. QED
    BY <2>2
<1> HIDE DEF i
<1>7. Row(s, i) \in Listed
  BY <1>6, IndexIsNat DEF Row, Listed, Edge, Event
<1>8. EventOf(Row(s, i)) = s.events[i]
  BY <1>6 DEF EventOf, Row, Event
<1>9. RowIsOf(<<Row(s, i).edge, Row(s, i).index>>, EventOf(Row(s, i)), s)
  BY <1>6, <1>8 DEF RowIsOf
<1>10. QED
  BY <1>3, <1>7, <1>9

\* Events of a graph, without some of them.
LEMMA KeptIsSound ==
  ASSUME NEW nodes, nodes \subseteq Node, NEW s \in Seq(Event), NEW kept, kept \subseteq DOMAIN s,
         \A i \in kept : s[i].from \in nodes /\ s[i].to \in nodes
  PROVE  /\ Keep(s, kept) \in Seq(Event)
         /\ \A k \in DOMAIN Keep(s, kept) :
                Keep(s, kept)[k].from \in nodes /\ Keep(s, kept)[k].to \in nodes
<1>1. Keep(s, kept) \in Seq(Event)
      /\ \A k \in DOMAIN Keep(s, kept) : \E i \in kept : Keep(s, kept)[k] = s[i]
  BY KeepIsOf
<1>2. QED
  BY <1>1

\* Every edit leaves a graph, and only a removal takes a node out of it.
LEMMA EditedIsSound ==
  ASSUME Sound(graph), NEW c, Asked(c), c.op \in Op, Accepts(c)
  PROVE  /\ Sound(Edited(c)) /\ Edited(c).ver = graph.ver
         /\ ~Removes(c) => graph.nodes \subseteq Edited(c).nodes
<1> DEFINE g == graph
           es == graph.events
<1>1. es \in Seq(Event) /\ g.nodes \subseteq Node /\ g.ver \in Nat
      /\ g = [nodes |-> g.nodes, events |-> es, ver |-> g.ver]
      /\ \A i \in DOMAIN es : es[i] \in Event /\ es[i].from \in g.nodes /\ es[i].to \in g.nodes
  BY DEF Sound, Graph
<1> HIDE DEF g, es
<1>2. CASE c.op \in {"delete_node", "delete_branch"}
  <2> DEFINE nodes == g.nodes \ c.ask.nodes
             kept == {i \in DOMAIN es : es[i].from \notin c.ask.nodes /\ es[i].to \notin c.ask.nodes}
  <2>1. Edited(c) = [nodes |-> nodes, events |-> Keep(es, kept), ver |-> g.ver]
    BY <1>1, <1>2 DEF Edited, remove_node, g, es
  <2>2. nodes \subseteq Node /\ kept \subseteq DOMAIN es
        /\ \A i \in kept : es[i].from \in nodes /\ es[i].to \in nodes
    BY <1>1
  <2> HIDE DEF nodes, kept
  <2>3. Keep(es, kept) \in Seq(Event)
        /\ \A k \in DOMAIN Keep(es, kept) :
              Keep(es, kept)[k].from \in nodes /\ Keep(es, kept)[k].to \in nodes
    BY <1>1, <2>2, KeptIsSound
  <2>4. Sound(Edited(c)) /\ Edited(c).ver = g.ver
    BY <1>1, <2>1, <2>2, <2>3 DEF Sound, Graph
  <2>5. QED
    BY <1>2, <2>4 DEF Removes, g
<1>3. CASE c.op = "delete_event"
  <2> DEFINE kept == {i \in DOMAIN es : es[i] # c.ask.event}
  <2>1. Edited(c) = [nodes |-> g.nodes, events |-> Keep(es, kept), ver |-> g.ver]
    BY <1>1, <1>3 DEF Edited, remove_transition, g, es
  <2>2. kept \subseteq DOMAIN es /\ \A i \in kept : es[i].from \in g.nodes /\ es[i].to \in g.nodes
    BY <1>1
  <2> HIDE DEF kept
  <2>3. Keep(es, kept) \in Seq(Event)
        /\ \A k \in DOMAIN Keep(es, kept) :
              Keep(es, kept)[k].from \in g.nodes /\ Keep(es, kept)[k].to \in g.nodes
    BY <1>1, <2>2, KeptIsSound
  <2>4. Sound(Edited(c)) /\ Edited(c).ver = g.ver /\ Edited(c).nodes = g.nodes
    BY <1>1, <2>1, <2>3 DEF Sound, Graph
  <2>5. QED
    BY <2>4 DEF g
<1>4. CASE c.op = "create_event"
  <2> DEFINE kept == {i \in DOMAIN es : es[i] # c.ask.new}
             ks == Keep(es, kept)
  <2>1. Edited(c) = [nodes |-> g.nodes, events |-> Append(ks, c.ask.new), ver |-> g.ver]
    BY <1>1, <1>4 DEF Edited, add_transition, g, es
  <2>2. kept \subseteq DOMAIN es /\ \A i \in kept : es[i].from \in g.nodes /\ es[i].to \in g.nodes
    BY <1>1
  <2> HIDE DEF kept
  <2>3. ks \in Seq(Event) /\ \A k \in DOMAIN ks : ks[k].from \in g.nodes /\ ks[k].to \in g.nodes
    BY <1>1, <2>2, KeptIsSound
  <2>4. c.ask.new \in Event /\ c.ask.new.from \in g.nodes /\ c.ask.new.to \in g.nodes
    BY <1>4 DEF Asked, Accepts, Ends, g
  <2> HIDE DEF ks
  <2>5. Append(ks, c.ask.new) \in Seq(Event)
        /\ \A k \in DOMAIN Append(ks, c.ask.new) :
              Append(ks, c.ask.new)[k].from \in g.nodes /\ Append(ks, c.ask.new)[k].to \in g.nodes
    BY <2>3, <2>4
  <2>6. Sound(Edited(c)) /\ Edited(c).ver = g.ver /\ Edited(c).nodes = g.nodes
    BY <1>1, <2>1, <2>5 DEF Sound, Graph
  <2>7. QED
    BY <2>6 DEF g
<1>5. CASE c.op = "update_event"
  <2> DEFINE fs == [i \in DOMAIN es |-> IF es[i] = c.ask.event THEN c.ask.new ELSE es[i]]
             kept == {i \in DOMAIN es : es[i] = c.ask.event \/ es[i] # c.ask.new}
  <2>1. Edited(c) = [nodes |-> g.nodes, events |-> Keep(fs, kept), ver |-> g.ver]
    BY <1>1, <1>5 DEF Edited, update_transition, g, es
  <2>2. c.ask.new \in Event /\ c.ask.new.from \in g.nodes /\ c.ask.new.to \in g.nodes
    BY <1>5 DEF Asked, Accepts, Ends, g
  <2>3. fs \in Seq(Event) /\ DOMAIN fs = DOMAIN es
        /\ \A i \in DOMAIN fs : fs[i].from \in g.nodes /\ fs[i].to \in g.nodes
    BY <1>1, <2>2
  <2>4. kept \subseteq DOMAIN fs
    OBVIOUS
  <2> HIDE DEF kept, fs
  <2>5. Keep(fs, kept) \in Seq(Event)
        /\ \A k \in DOMAIN Keep(fs, kept) :
              Keep(fs, kept)[k].from \in g.nodes /\ Keep(fs, kept)[k].to \in g.nodes
    BY <1>1, <2>3, <2>4, KeptIsSound
  <2>6. Sound(Edited(c)) /\ Edited(c).ver = g.ver /\ Edited(c).nodes = g.nodes
    BY <1>1, <2>1, <2>5 DEF Sound, Graph
  <2>7. QED
    BY <2>6 DEF g
<1>6. CASE c.op = "restore"
  <2>1. Edited(c) = [nodes |-> g.nodes \cup c.ask.nodes, events |-> es, ver |-> g.ver]
    BY <1>1, <1>6 DEF Edited, restore_node, g, es
  <2>2. c.ask.nodes \subseteq Node
    BY DEF Asked
  <2>3. Sound(Edited(c)) /\ Edited(c).ver = g.ver /\ Edited(c).nodes = g.nodes \cup c.ask.nodes
    BY <1>1, <2>1, <2>2 DEF Sound, Graph
  <2>4. QED
    BY <2>3 DEF g
<1>7. CASE c.op \in {"mark", "branch", "deleted"}
  BY <1>7 DEF Edited, g
<1>8. QED
  BY <1>2, <1>3, <1>4, <1>5, <1>6, <1>7 DEF Op

-----------------------------------------------------------------------------
(* Editing: the steps of the page that draw nothing *)

\* A call that lands takes the place of another.
Held(c, d) ==
    /\ d.op = c.op /\ Landing(d)
    /\ c.stage = "load" => d.stage = "load"
    /\ \A v \in Nat : v <= graph.ver /\ Unread(c, v) => Unread(d, v)
Carries == \A c \in calls : Landing(c) => \E d \in calls' : Held(c, d)

LEMMA CarriesAll ==
  ASSUME \A c \in calls : Landing(c) => c \in calls' \/ \E d \in calls' : Held(c, d)
  PROVE  Carries
BY DEF Carries, Held

LEMMA SameSnapshots ==
  ASSUME graph' = graph, utg' \in Snapshots,
         \A d \in calls' : d.stage = "load" /\ d.answer = "ok" => d \in calls \/ d.got \in Snapshots
  PROVE  Snapshots' \subseteq Snapshots
BY DEF Snapshots, Arrived

LEMMA SnapshotsAreSound ==
  ASSUME EditorTypes
  PROVE  \A s \in Snapshots : Sound(s) /\ s.ver \in Nat /\ s.events \in Seq(Event)
<1>1. \A s \in Snapshots : Sound(s)
  BY DEF Snapshots, Arrived, EditorTypes, Call, Answered
<1>2. QED
  BY <1>1 DEF Sound, Graph

LEMMA StillDrawn ==
  ASSUME Versions, graph' = graph, Snapshots' \subseteq Snapshots
  PROVE  /\ Versions'
         /\ PanelIsDrawn /\ panel' = panel => PanelIsDrawn'
         /\ ConfirmIsDrawn /\ confirm' = confirm => ConfirmIsDrawn'
<1>1. Versions'
  BY DEF Versions
<1>2. PanelIsDrawn /\ panel' = panel => PanelIsDrawn'
  BY DEF PanelIsDrawn
<1>3. ConfirmIsDrawn /\ confirm' = confirm => ConfirmIsDrawn'
  BY DEF ConfirmIsDrawn
<1>4. QED
  BY <1>1, <1>2, <1>3

LEMMA StillFollows ==
  ASSUME EditorTypes, Versions, Reloads, NodesLast, PanelFollows,
         UNCHANGED <<graph, utg, panel, timers, unrefreshed>>,
         Snapshots' \subseteq Snapshots, Carries,
         \A c \in calls' : ~(c.stage = "load" /\ c.answer = "fail"),
         cleared' => cleared \/ \E c \in calls' : c.stage = "load"
  PROVE  Reloads' /\ NodesLast' /\ PanelFollows'
<1>1. graph.ver \in Nat /\ \A s \in Snapshots : s.ver \in Nat /\ s.ver <= graph.ver
  BY SnapshotsAreSound DEF Versions, EditorTypes, Sound, Graph
<1>2. ASSUME NEW c \in calls, NEW v \in Nat, v <= graph.ver, Unread(c, v)
      PROVE  \E d \in calls' : d.op = c.op /\ Unread(d, v)
  <2>1. Landing(c)
    BY <1>2 DEF Unread, Landing
  <2>2. PICK d \in calls' : Held(c, d)
    BY <2>1 DEF Carries
  <2>3. QED
    BY <1>2, <2>2 DEF Held
<1>3. ASSUME NEW c \in calls, Landing(c) PROVE \E d \in calls' : d.op = c.op /\ Landing(d)
  BY <1>3 DEF Carries, Held
<1>4. Reloads'
  <2>2. cleared' => \E c \in calls' : c.stage = "load"
    BY DEF Carries, Held, Landing, Reloads
  <2>3. utg.ver = graph.ver \/ \E c \in calls' : Unread(c, graph.ver)
    BY <1>1, <1>2 DEF Reloads
  <2>4. QED
    BY <2>2, <2>3 DEF Reloads
<1>5. NodesLast'
  <2>1. ASSUME NEW s \in Snapshots', NEW r \in Snapshots', utg.ver <= s.ver, s.ver < r.ver,
               NEW n \in s.nodes \ r.nodes
        PROVE  \E c \in calls' : Removes(c) /\ Unread(c, s.ver + 1)
    <3>1. PICK c \in calls : Removes(c) /\ Unread(c, s.ver + 1)
      BY <2>1 DEF NodesLast
    <3>2. s.ver + 1 \in Nat /\ s.ver + 1 <= graph.ver
      BY <1>1, <2>1
    <3>3. PICK d \in calls' : d.op = c.op /\ Unread(d, s.ver + 1)
      BY <1>2, <3>1, <3>2
    <3>4. QED
      BY <3>1, <3>3 DEF Removes
  <2>2. ASSUME panel.node # Null, NEW s \in Snapshots', utg.ver <= s.ver, panel.node \notin s.nodes
        PROVE  \E c \in calls' : Removes(c) /\ Landing(c)
    <3>1. PICK c \in calls : Removes(c) /\ Landing(c)
      BY <2>2 DEF NodesLast
    <3>2. PICK d \in calls' : d.op = c.op /\ Landing(d)
      BY <1>3, <3>1
    <3>3. QED
      BY <3>1, <3>2 DEF Removes
  <2>3. QED
    BY <2>1, <2>2 DEF NodesLast
<1>6. PanelFollows'
  BY <1>3 DEF PanelFollows
<1>7. QED
  BY <1>4, <1>5, <1>6

\* A step that draws nothing.
LEMMA StillStep ==
  ASSUME EditorInv, UNCHANGED <<graph, utg, selected, current, panel, timers, unrefreshed>>,
         Dialogs', Confirms', Pickers', \A c \in calls' : Call(c),
         edits' \in Nat, cleared' \in BOOLEAN, behind' \in BOOLEAN, muddled' \in BOOLEAN,
         ConfirmIsDrawn' \/ confirm' = confirm,
         ~muddled' => ShownIsKept',
         Snapshots' \subseteq Snapshots,
         ~behind' => /\ ~behind /\ Carries
                     /\ \A c \in calls' : ~(c.stage = "load" /\ c.answer = "fail")
                     /\ cleared' => cleared \/ \E c \in calls' : c.stage = "load"
  PROVE  EditorInv'
<1>1. Panels' /\ EditorTypes'
  BY DEF EditorInv, EditorTypes, Panels
<1>2. Versions' /\ PanelIsDrawn' /\ ConfirmIsDrawn'
  BY StillDrawn DEF EditorInv
<1>3. ~behind' => Reloads' /\ NodesLast' /\ PanelFollows'
  BY StillFollows DEF EditorInv
<1>4. QED
  BY <1>1, <1>2, <1>3 DEF EditorInv

LEMMA AskStep ==
  ASSUME EditorInv,
         UNCHANGED <<graph, utg, cleared, selected, current, panel, timers, behind, unrefreshed>>,
         calls \subseteq calls',
         \A c \in calls' \ calls : Call(c) /\ c.stage = "edit" /\ c.answer = "none",
         Dialogs', Confirms', Pickers', edits' \in Nat, muddled' \in BOOLEAN,
         ConfirmIsDrawn' \/ confirm' = confirm,
         ~muddled' => ShownIsKept'
  PROVE  EditorInv'
<1>1. \A c \in calls' : Call(c)
  BY DEF EditorInv, EditorTypes
<1>2. utg \in Snapshots
  BY DEF Snapshots
<1>3. Snapshots' \subseteq Snapshots
  BY <1>2, SameSnapshots
<1>4. Carries
  BY CarriesAll
<1>5. ~behind' => \A c \in calls' : ~(c.stage = "load" /\ c.answer = "fail")
  BY DEF EditorInv, Reloads
<1>6. cleared' \in BOOLEAN /\ behind' \in BOOLEAN
  BY DEF EditorInv, EditorTypes
<1>7. QED
  BY <1>1, <1>3, <1>4, <1>5, <1>6, StillStep

LEMMA SendIsCall ==
  ASSUME EditorInv, NEW op \in Op, NEW ask,
         Send(op, ask) \/ SendRead(op, ask),
         ask.nodes \subseteq Node,
         op \in {"delete_event", "update_event"} => ask.event \in Event,
         op \in {"update_event", "create_event"} => ask.new \in Event
  PROVE  /\ calls \subseteq calls' /\ edits' \in Nat
         /\ \A c \in calls' \ calls : /\ Call(c) /\ c.stage = "edit" /\ c.answer = "none"
                                      /\ c.op = op /\ c.ask = ask
<1>1. calls' = calls \cup {Request(op, ask)} /\ edits \in Nat /\ (edits' = edits + 1 \/ edits' = edits)
  BY DEF Send, SendRead, EditorInv, EditorTypes
<1>2. selected \in Optional(Node)
  BY DEF EditorInv, EditorTypes, Sound, Graph, Optional
<1>3. Call(Request(op, ask))
  BY <1>2 DEF Call, Request, Asked, Answered, Optional, Op
<1>4. Request(op, ask).stage = "edit" /\ Request(op, ask).answer = "none"
      /\ Request(op, ask).op = op /\ Request(op, ask).ask = ask
  BY DEF Request
<1>5. QED
  BY <1>1, <1>3, <1>4

\* An action that leaves the fields of some dialogs alone leaves their part of the
\* invariant too.
LEMMA PagePart ==
  ASSUME EditorInv
  PROVE  /\ UNCHANGED <<dialog, editing>> => Dialogs'
         /\ UNCHANGED <<dialog, editing, muddled>> => (~muddled' => ShownIsKept')
         /\ UNCHANGED confirm => Confirms'
         /\ UNCHANGED picker => Pickers'
         /\ UNCHANGED edits => edits' \in Nat
         /\ UNCHANGED muddled => muddled' \in BOOLEAN
         /\ confirm'.kind \in {"closed", "node", "branch", "restore"} => ConfirmIsDrawn'
BY DEF EditorInv, EditorTypes, Dialogs, ShownIsKept, Confirms, Pickers, ConfirmIsDrawn

LEMMA StartedIsNode ==
  ASSUME EditorInv, NEW n, Started(n)
  PROVE  n \in Node
BY DEF EditorInv, EditorTypes, Panels, Started, Optional, Sound, Graph

\* A request sent with the dialogs as they are.
LEMMA SendStep ==
  ASSUME EditorInv, NEW op \in Op, NEW ask,
         Send(op, ask) \/ SendRead(op, ask),
         ask.nodes \subseteq Node,
         op \in {"delete_event", "update_event"} => ask.event \in Event,
         op \in {"update_event", "create_event"} => ask.new \in Event,
         UNCHANGED <<view, page, graph, timers, faults, history>>
  PROVE  EditorInv'
<1>1. /\ calls \subseteq calls' /\ edits' \in Nat
      /\ \A c \in calls' \ calls : Call(c) /\ c.stage = "edit" /\ c.answer = "none"
  BY SendIsCall
<1>2. /\ UNCHANGED <<graph, utg, cleared, selected, current, panel, timers, behind, unrefreshed>>
      /\ UNCHANGED dialog /\ UNCHANGED editing /\ UNCHANGED confirm /\ UNCHANGED picker
      /\ UNCHANGED muddled
  BY DEF view, page, history
<1>3. Dialogs' /\ Confirms' /\ Pickers' /\ (~muddled' => ShownIsKept') /\ muddled' \in BOOLEAN
  BY <1>2, PagePart
<1>4. QED
  BY <1>1, <1>2, <1>3, AskStep

LEMMA DeleteNodeStep ==
  ASSUME EditorInv, NEW n, deleteNode(n)
  PROVE  EditorInv'
<1>1. n \in Node
  BY StartedIsNode DEF deleteNode
<1>2. /\ UNCHANGED <<graph, utg, cleared, selected, current, panel, timers, behind, unrefreshed>>
      /\ UNCHANGED <<calls, edits, muddled, dialog, editing, picker>>
      /\ confirm' = [NoConfirm EXCEPT !.kind = "node", !.node = n]
  BY DEF deleteNode, view, net, history
<1>3. Confirms' /\ confirm'.kind = "node"
  BY <1>1, <1>2 DEF Confirms, NoConfirm
<1>4. Dialogs' /\ Pickers' /\ (~muddled' => ShownIsKept') /\ ConfirmIsDrawn'
      /\ edits' \in Nat /\ muddled' \in BOOLEAN
  BY <1>2, <1>3, PagePart
<1>5. QED
  BY <1>2, <1>3, <1>4, AskStep

LEMMA DeleteBranchStep ==
  ASSUME EditorInv, NEW n, deleteBranch(n)
  PROVE  EditorInv'
<1>1. n \in Node
  BY StartedIsNode DEF deleteBranch
<1> DEFINE ask == [Ask EXCEPT !.nodes = {n}]
<1>2. ask.nodes \subseteq Node /\ "branch" \in Op
  BY <1>1 DEF Ask, Op
<1>3. SendRead("branch", ask) /\ UNCHANGED <<view, page, graph, timers, faults, history>>
  BY DEF deleteBranch
<1> HIDE DEF ask
<1>4. QED
  BY <1>2, <1>3, SendStep

LEMMA DeleteOutgoingEventStep ==
  ASSUME EditorInv, NEW k \in DOMAIN panel.rows, deleteOutgoingEvent(k)
  PROVE  EditorInv'
<1> DEFINE row == panel.rows[k]
<1>1. /\ UNCHANGED <<graph, utg, cleared, selected, current, panel, timers, behind, unrefreshed>>
      /\ UNCHANGED <<calls, edits, muddled, dialog, editing, picker>>
      /\ confirm' = [NoConfirm EXCEPT !.kind = "event", !.row = <<row.edge, row.index>>,
                                      !.event = EventOf(row), !.ver = panel.ver]
  BY DEF deleteOutgoingEvent, view, net, history
<1>2. /\ confirm'.kind = "event" /\ confirm'.row = <<row.edge, row.index>>
      /\ confirm'.event = EventOf(row) /\ confirm'.ver = panel.ver
  BY <1>1 DEF NoConfirm
<1>3. Confirms'
  BY <1>2 DEF EditorInv, EditorTypes, Panels, Confirms
<1>4. panel.node # Null
  BY DEF EditorInv, EditorTypes, Panels
<1>5. panel.ver <= graph.ver
      /\ \A s \in Snapshots : s.ver = panel.ver => panel.rows = getOutgoingEvents(s, panel.node)
  BY <1>4 DEF EditorInv, PanelIsDrawn
<1>6. ASSUME NEW s \in Snapshots, s.ver = panel.ver
      PROVE  RowIsOf(<<row.edge, row.index>>, EventOf(row), s)
  <2>1. s.events \in Seq(Event)
    BY SnapshotsAreSound DEF EditorInv
  <2>2. panel.rows = getOutgoingEvents(s, panel.node)
    BY <1>5, <1>6
  <2>3. k \in DOMAIN getOutgoingEvents(s, panel.node) /\ row = getOutgoingEvents(s, panel.node)[k]
    BY <2>2
  <2> HIDE DEF row
  <2>4. QED
    BY <2>1, <2>3, RowsAreOfEvents
<1>7. Snapshots' = Snapshots
  BY <1>1 DEF Snapshots, Arrived
<1> HIDE DEF row
<1>8. ConfirmIsDrawn'
  BY <1>1, <1>2, <1>5, <1>6, <1>7 DEF ConfirmIsDrawn
<1>9. Dialogs' /\ Pickers' /\ (~muddled' => ShownIsKept') /\ edits' \in Nat /\ muddled' \in BOOLEAN
  BY <1>1, PagePart
<1>10. QED
  BY <1>1, <1>3, <1>8, <1>9, AskStep

LEMMA RowsWithIsOf ==
  ASSUME EditorInv, NEW id, NEW row \in RowsWith(id)
  PROVE  row \in Listed /\ EventOf(row) \in Event /\ RowIsOf(id, EventOf(row), utg)
<1>1. PICK k \in DOMAIN getOutgoingEvents(utg, current) :
         /\ row = getOutgoingEvents(utg, current)[k]
         /\ <<row.edge, row.index>> = id
  BY DEF RowsWith
<1>2. utg.events \in Seq(Event)
  BY DEF EditorInv, EditorTypes, Sound, Graph
<1>3. row \in Listed /\ RowIsOf(<<row.edge, row.index>>, EventOf(row), utg)
  BY <1>1, <1>2, RowsAreOfEvents
<1>4. EventOf(row) \in Event
  BY <1>3 DEF Listed, EventOf, Event, Edge
<1>5. QED
  BY <1>1, <1>3, <1>4

\* What a confirmed dialog asks for; the event of a row still there is the one clicked.
LEMMA ConfirmedSends ==
  ASSUME EditorInv, confirmed
  PROVE  \/ UNCHANGED <<calls, edits>>
         \/ \E op \in {"delete_event", "delete_node", "delete_branch", "restore"} :
               \E ask : /\ Send(op, ask) /\ ask.nodes \subseteq Node
                        /\ op = "delete_event" =>
                              /\ ask.event \in Event
                              /\ confirm.ver = utg.ver => ask.event = confirm.event
<1>1. Confirms /\ confirm.kind # "closed"
  BY DEF EditorInv, EditorTypes, confirmed
<1>2. CASE confirm.kind = "event"
  <2>1. performEventDeletion
    BY <1>2 DEF confirmed
  <2>2. CASE RowsWith(confirm.row) = {}
    BY <2>1, <2>2 DEF performEventDeletion
  <2>3. CASE RowsWith(confirm.row) # {}
    <3>1. PICK row \in RowsWith(confirm.row) :
             Send("delete_event", [Ask EXCEPT !.event = EventOf(row)])
      BY <2>1, <2>3 DEF performEventDeletion
    <3>2. EventOf(row) \in Event /\ RowIsOf(confirm.row, EventOf(row), utg)
      BY RowsWithIsOf
    <3>3. ASSUME confirm.ver = utg.ver PROVE EventOf(row) = confirm.event
      <4>1. utg \in Snapshots /\ utg.events \in Seq(Event)
        BY DEF Snapshots, EditorInv, EditorTypes, Sound, Graph
      <4>2. RowIsOf(confirm.row, confirm.event, utg)
        BY <1>2, <3>3, <4>1 DEF EditorInv, ConfirmIsDrawn
      <4>3. QED
        BY <3>2, <4>1, <4>2, RowNamesOne
    <3>4. [Ask EXCEPT !.event = EventOf(row)].nodes = {}
          /\ [Ask EXCEPT !.event = EventOf(row)].event = EventOf(row)
      BY DEF Ask
    <3>5. QED
      BY <3>1, <3>2, <3>3, <3>4
  <2>4. QED
    BY <2>2, <2>3
<1>3. CASE confirm.kind = "node"
  <2>1. Send("delete_node", [Ask EXCEPT !.nodes = {confirm.node}])
    BY <1>3 DEF confirmed, performNodeDeletion
  <2>2. [Ask EXCEPT !.nodes = {confirm.node}].nodes \subseteq Node
    BY <1>1, <1>3 DEF Ask, Confirms
  <2>3. QED
    BY <2>1, <2>2
<1>4. CASE confirm.kind = "branch"
  <2>1. Send("delete_branch", [Ask EXCEPT !.nodes = confirm.nodes])
    BY <1>4 DEF confirmed, performBranchDeletion
  <2>2. [Ask EXCEPT !.nodes = confirm.nodes].nodes \subseteq Node
    BY <1>1, <1>4 DEF Ask, Confirms
  <2>3. QED
    BY <2>1, <2>2
<1>5. CASE confirm.kind = "restore"
  <2>1. Send("restore", [Ask EXCEPT !.nodes = confirm.nodes])
    BY <1>5 DEF confirmed, restoreSelected
  <2>2. [Ask EXCEPT !.nodes = confirm.nodes].nodes \subseteq Node
    BY <1>1, <1>5 DEF Ask, Confirms
  <2>3. QED
    BY <2>1, <2>2
<1>6. QED
  BY <1>1, <1>2, <1>3, <1>4, <1>5 DEF Confirms

LEMMA ConfirmedStep ==
  ASSUME EditorInv, confirmed
  PROVE  EditorInv'
<1>1. /\ UNCHANGED <<graph, utg, cleared, selected, current, panel, timers, behind, unrefreshed>>
      /\ UNCHANGED <<muddled, dialog, editing, picker>> /\ confirm' = NoConfirm
  BY DEF confirmed, view, history
<1>2. Confirms' /\ confirm'.kind = "closed"
  BY <1>1 DEF Confirms, NoConfirm
<1>3. Dialogs' /\ Pickers' /\ (~muddled' => ShownIsKept') /\ ConfirmIsDrawn' /\ muddled' \in BOOLEAN
  BY <1>1, <1>2, PagePart
<1>4. /\ calls \subseteq calls' /\ edits' \in Nat
      /\ \A c \in calls' \ calls : Call(c) /\ c.stage = "edit" /\ c.answer = "none"
  <2>1. CASE UNCHANGED <<calls, edits>>
    BY <2>1, PagePart
  <2>2. CASE \E op \in {"delete_event", "delete_node", "delete_branch", "restore"} :
               \E ask : /\ Send(op, ask) /\ ask.nodes \subseteq Node
                        /\ op = "delete_event" => ask.event \in Event
    <3>1. PICK op \in {"delete_event", "delete_node", "delete_branch", "restore"} :
             \E ask : /\ Send(op, ask) /\ ask.nodes \subseteq Node
                      /\ op = "delete_event" => ask.event \in Event
      BY <2>2
    <3>2. op \in Op /\ ~(op \in {"update_event", "create_event"})
      BY DEF Op
    <3>3. QED
      BY <3>1, <3>2, SendIsCall
  <2>3. QED
    BY <2>1, <2>2, ConfirmedSends
<1>5. QED
  BY <1>1, <1>2, <1>3, <1>4, AskStep

LEMMA RefusedStep ==
  ASSUME EditorInv, refused
  PROVE  EditorInv'
<1>1. /\ UNCHANGED <<graph, utg, cleared, selected, current, panel, timers, behind, unrefreshed>>
      /\ UNCHANGED <<calls, edits, muddled, dialog, editing, picker>> /\ confirm' = NoConfirm
  BY DEF refused, view, net, history
<1>2. Confirms' /\ confirm'.kind = "closed"
  BY <1>1 DEF Confirms, NoConfirm
<1>3. Dialogs' /\ Pickers' /\ (~muddled' => ShownIsKept') /\ ConfirmIsDrawn'
      /\ edits' \in Nat /\ muddled' \in BOOLEAN
  BY <1>1, <1>2, PagePart
<1>4. QED
  BY <1>1, <1>2, <1>3, AskStep

\* An event is shown, and its fields kept, from one row.
LEMMA EditOutgoingEventStep ==
  ASSUME EditorInv, NEW id, editOutgoingEvent(id)
  PROVE  EditorInv'
<1>1. PICK row \in RowsWith(id) :
         /\ editing' = [editing EXCEPT !.edge = row.edge, !.str = row.str]
         /\ dialog' = [kind |-> "edit", event |-> EventOf(row), source |-> Null]
  BY DEF editOutgoingEvent, openForNodeEditing
<1>2. /\ UNCHANGED <<graph, utg, cleared, selected, current, panel, timers, behind, unrefreshed>>
      /\ UNCHANGED <<calls, edits, muddled, confirm, picker>>
  BY DEF editOutgoingEvent, view, net, history
<1>3. row \in Listed /\ EventOf(row) \in Event
  BY RowsWithIsOf
<1>4. editing = [edge |-> editing.edge, str |-> editing.str, source |-> editing.source]
  BY DEF EditorInv, EditorTypes, Dialogs
<1>5. editing' = [edge |-> row.edge, str |-> row.str, source |-> editing.source]
  BY <1>1, <1>4
<1>6. row.edge \in Edge /\ row.str \in Str
  BY <1>3 DEF Listed
<1>7. Dialogs'
  BY <1>1, <1>3, <1>5, <1>6 DEF Dialogs
<1>8. ShownIsKept'
  BY <1>1, <1>5 DEF ShownIsKept, EventOf
<1>9. Confirms' /\ Pickers' /\ edits' \in Nat /\ muddled' \in BOOLEAN
  BY <1>2, PagePart
<1>10. QED
  BY <1>2, <1>7, <1>8, <1>9, AskStep

LEMMA EditNthEventStep ==
  ASSUME EditorInv, editNthEvent
  PROVE  EditorInv'
<1>1. PICK id : editOutgoingEvent(id)
  BY DEF editNthEvent
<1>2. QED
  BY <1>1, EditOutgoingEventStep

LEMMA AddNewEventStep ==
  ASSUME EditorInv, NEW n, addNewEvent(n)
  PROVE  EditorInv'
<1>1. n \in Node
  BY StartedIsNode DEF addNewEvent
<1>2. /\ UNCHANGED <<graph, utg, cleared, selected, current, panel, timers, behind, unrefreshed>>
      /\ UNCHANGED <<calls, edits, confirm, picker>>
      /\ editing' = [editing EXCEPT !.edge = Null, !.source = n]
  BY DEF addNewEvent, view, net
<1>3. Dialogs /\ muddled \in BOOLEAN
  BY DEF EditorInv, EditorTypes
<1>4. editing' = [edge |-> Null, str |-> editing.str, source |-> n]
  BY <1>2, <1>3 DEF Dialogs
<1>5. CASE cleared
  <2>1. dialog' = dialog /\ muddled' = TRUE
    BY <1>5 DEF addNewEvent
  <2>2. Dialogs' /\ (~muddled' => ShownIsKept') /\ muddled' \in BOOLEAN
    BY <1>1, <1>3, <1>4, <2>1 DEF Dialogs
  <2>3. Confirms' /\ Pickers' /\ edits' \in Nat
    BY <1>2, PagePart
  <2>4. QED
    BY <1>2, <2>2, <2>3, AskStep
<1>6. CASE ~cleared
  <2>1. dialog' = [kind |-> "new", event |-> Null, source |-> n] /\ muddled' = muddled
    BY <1>6 DEF addNewEvent, openForNodeEditing
  <2>2. Dialogs' /\ ShownIsKept' /\ muddled' \in BOOLEAN
    BY <1>1, <1>3, <1>4, <2>1 DEF Dialogs, ShownIsKept
  <2>3. Confirms' /\ Pickers' /\ edits' \in Nat
    BY <1>2, PagePart
  <2>4. QED
    BY <1>2, <2>2, <2>3, AskStep
<1>7. QED
  BY <1>5, <1>6

LEMMA SavedEvents ==
  ASSUME EditorInv
  PROVE  /\ dialog.kind = "edit" => dialog.event \in Event
         /\ dialog.kind = "new" => editing.source \in Node
         /\ editing.edge # Null =>
               [from |-> editing.edge[1], to |-> editing.edge[2], str |-> editing.str] \in Event
         /\ utg.nodes \subseteq Node
<1>1. Dialogs /\ Sound(utg)
  BY DEF EditorInv, EditorTypes
<1>2. editing.edge # Null =>
         editing.edge[1] \in Node /\ editing.edge[2] \in Node /\ editing.str \in Str
  BY <1>1 DEF Dialogs, Edge
<1>3. QED
  BY <1>1, <1>2 DEF Dialogs, Event, Sound, Graph

LEMMA SaveEditStep ==
  ASSUME EditorInv, NEW from \in utg.nodes, NEW to \in utg.nodes,
         NEW str \in TypedStr \cup {dialog.event.str}, saveEdit(from, to, str)
  PROVE  EditorInv'
<1> DEFINE old == [from |-> editing.edge[1], to |-> editing.edge[2], str |-> editing.str]
           new == [from |-> from, to |-> to, str |-> str]
           ask == [Ask EXCEPT !.event = old, !.new = new]
<1>1. dialog.kind = "edit" /\ UNCHANGED <<view, page, graph, timers, faults, history>>
  BY DEF saveEdit
<1>2. CASE editing.edge = Null
  <2>1. UNCHANGED <<calls, edits>>
    BY <1>2 DEF saveEdit
  <2>2. /\ UNCHANGED <<graph, utg, cleared, selected, current, panel, timers, behind, unrefreshed>>
        /\ UNCHANGED dialog /\ UNCHANGED editing /\ UNCHANGED confirm /\ UNCHANGED picker
        /\ UNCHANGED muddled /\ UNCHANGED edits
    BY <1>1, <2>1 DEF view, page, history
  <2>3. Dialogs' /\ Confirms' /\ Pickers' /\ (~muddled' => ShownIsKept') /\ muddled' \in BOOLEAN
        /\ edits' \in Nat
    BY <2>2, PagePart
  <2>4. QED
    BY <2>1, <2>2, <2>3, AskStep
<1>3. CASE editing.edge # Null
  <2>1. Send("update_event", ask)
    BY <1>3 DEF saveEdit
  <2>2. old \in Event /\ dialog.event \in Event /\ from \in Node /\ to \in Node
    BY <1>1, <1>3, SavedEvents
  <2>3. str \in Str
    BY <2>2, TypedAssumption DEF Event
  <2>4. new \in Event
    BY <2>2, <2>3 DEF Event
  <2> HIDE DEF old, new
  <2>5. ask.nodes \subseteq Node /\ ask.event \in Event /\ ask.new \in Event
        /\ "update_event" \in Op
    BY <2>2, <2>4 DEF Ask, Op
  <2> HIDE DEF ask
  <2>6. QED
    BY <1>1, <2>1, <2>5, SendStep
<1>4. QED
  BY <1>2, <1>3

LEMMA SaveNewStep ==
  ASSUME EditorInv, NEW to \in utg.nodes, NEW str \in TypedStr, saveNew(to, str)
  PROVE  EditorInv'
<1> DEFINE new == [from |-> editing.source, to |-> to, str |-> str]
           ask == [Ask EXCEPT !.new = new]
<1>1. /\ dialog.kind = "new" /\ Send("create_event", ask)
      /\ UNCHANGED <<view, page, graph, timers, faults, history>>
  BY DEF saveNew
<1>2. new \in Event
  BY <1>1, SavedEvents, TypedAssumption DEF Event
<1> HIDE DEF new
<1>3. ask.nodes \subseteq Node /\ ask.new \in Event /\ "create_event" \in Op
  BY <1>2 DEF Ask, Op
<1> HIDE DEF ask
<1>4. QED
  BY <1>1, <1>3, SendStep

LEMMA SetFirstStateStep ==
  ASSUME EditorInv, NEW n, setFirstState(n)
  PROVE  EditorInv'
<1>1. n \in Node
  BY StartedIsNode DEF setFirstState
<1> DEFINE ask == [Ask EXCEPT !.nodes = {n}]
<1>2. ask.nodes \subseteq Node /\ "mark" \in Op
  BY <1>1 DEF Ask, Op
<1>3. Send("mark", ask) /\ UNCHANGED <<view, page, graph, timers, faults, history>>
  BY DEF setFirstState
<1> HIDE DEF ask
<1>4. QED
  BY <1>2, <1>3, SendStep

LEMMA OpenDeletedNodesStep ==
  ASSUME EditorInv, openDeletedNodes
  PROVE  EditorInv'
<1>1. SendRead("deleted", Ask) /\ UNCHANGED <<view, page, graph, timers, faults, history>>
  BY DEF openDeletedNodes
<1>2. Ask.nodes \subseteq Node /\ "deleted" \in Op
  BY DEF Ask, Op
<1>3. QED
  BY <1>1, <1>2, SendStep

LEMMA PickerStep ==
  ASSUME EditorInv,
         (\E n \in Node : toggleDeletedNode(n)) \/ selectAllDeleted \/ askRestore
  PROVE  EditorInv'
<1>1. /\ UNCHANGED <<graph, utg, cleared, selected, current, panel, timers, behind, unrefreshed>>
      /\ UNCHANGED <<calls, edits, muddled, dialog, editing>>
  BY DEF toggleDeletedNode, selectAllDeleted, askRestore, view, net, history
<1>2. Dialogs' /\ (~muddled' => ShownIsKept') /\ edits' \in Nat /\ muddled' \in BOOLEAN
  BY <1>1, PagePart
<1>3. Pickers
  BY DEF EditorInv, EditorTypes
<1>4. CASE (\E n \in Node : toggleDeletedNode(n)) \/ selectAllDeleted
  <2>1. confirm' = confirm
    BY <1>4 DEF toggleDeletedNode, selectAllDeleted
  <2>2. PICK chosen \in SUBSET Node : picker' = [picker EXCEPT !.chosen = chosen]
    <3>1. ASSUME NEW n \in Node, toggleDeletedNode(n)
          PROVE  \E chosen \in SUBSET Node : picker' = [picker EXCEPT !.chosen = chosen]
      <4>1. (picker.chosen \cup {n}) \ (picker.chosen \cap {n}) \in SUBSET Node
        BY <1>3 DEF Pickers
      <4>2. QED
        BY <3>1, <4>1 DEF toggleDeletedNode
    <3>2. ASSUME selectAllDeleted
          PROVE  \E chosen \in SUBSET Node : picker' = [picker EXCEPT !.chosen = chosen]
      <4>1. picker.list \in SUBSET Node /\ {} \in SUBSET Node
        BY <1>3 DEF Pickers
      <4>2. QED
        BY <3>2, <4>1 DEF selectAllDeleted
    <3>3. QED
      BY <1>4, <3>1, <3>2
  <2>3. Pickers'
    BY <1>3, <2>2 DEF Pickers
  <2>4. Confirms'
    BY <2>1, PagePart
  <2>5. QED
    BY <1>1, <1>2, <2>1, <2>3, <2>4, AskStep
<1>5. CASE askRestore
  <2>1. picker' = NoPicker
        /\ confirm' = [NoConfirm EXCEPT !.kind = "restore", !.nodes = picker.chosen]
    BY <1>5 DEF askRestore
  <2>2. Pickers' /\ Confirms' /\ confirm'.kind = "restore"
    BY <1>3, <2>1 DEF Pickers, NoPicker, Confirms, NoConfirm
  <2>3. ConfirmIsDrawn'
    BY <2>2, PagePart
  <2>4. QED
    BY <1>1, <1>2, <2>2, <2>3, AskStep
<1>6. QED
  BY <1>4, <1>5

LEMMA ClosedDialog ==
  ASSUME closeDialog
  PROVE  Dialogs' /\ ShownIsKept'
BY DEF closeDialog, Dialogs, ShownIsKept, NoDialog, NoFields

LEMMA EscapeStep ==
  ASSUME EditorInv, escape
  PROVE  EditorInv'
<1>1. /\ UNCHANGED <<graph, utg, cleared, selected, current, panel, timers, behind, unrefreshed>>
      /\ UNCHANGED <<calls, edits, muddled>>
      /\ closeDialog /\ confirm' = NoConfirm /\ picker' = NoPicker
  BY DEF escape, view, net, history
<1>2. Pickers' /\ Confirms' /\ confirm'.kind = "closed"
  BY <1>1 DEF Pickers, NoPicker, Confirms, NoConfirm
<1>3. ConfirmIsDrawn' /\ edits' \in Nat /\ muddled' \in BOOLEAN
  BY <1>1, <1>2, PagePart
<1>4. QED
  BY <1>1, <1>2, <1>3, ClosedDialog, AskStep

LEMMA UserStep ==
  ASSUME EditorInv, UserEdits
  PROVE  EditorInv'
BY DeleteNodeStep, DeleteBranchStep, DeleteOutgoingEventStep, ConfirmedStep, RefusedStep,
   EditNthEventStep, AddNewEventStep, SaveEditStep, SaveNewStep, SetFirstStateStep,
   OpenDeletedNodesStep, PickerStep, EscapeStep DEF UserEdits

-----------------------------------------------------------------------------
(* Editing: drawing the panel *)

LEMMA UnreadLands ==
  ASSUME NEW c, NEW v, Unread(c, v)
  PROVE  Landing(c)
BY DEF Unread, Landing

\* The details of a node are drawn from the graph, or not at all while it is missing.
LEMMA ShowStep ==
  ASSUME EditorInv, NEW n \in utg.nodes, showNodeDetails(utg, cleared, n),
         selected' \in Optional(utg.nodes), timers' \subseteq timers, unrefreshed' = unrefreshed,
         UNCHANGED <<graph, utg, cleared, dialog, confirm, picker, editing, calls, edits,
                     behind, muddled>>
  PROVE  EditorInv'
<1>1. /\ EditorTypes /\ Sound(utg) /\ utg \in Snapshots /\ Snapshots' = Snapshots
      /\ utg.events \in Seq(Event) /\ utg.ver \in Nat /\ graph.ver \in Nat /\ n \in Node
      /\ n # Null
  BY NullAssumption DEF EditorInv, EditorTypes, Sound, Graph, Snapshots, Arrived
<1>2. Versions' /\ ConfirmIsDrawn' /\ (~muddled' => ShownIsKept') /\ Dialogs' /\ Confirms' /\ Pickers'
  <2>1. Versions' /\ ConfirmIsDrawn'
    BY <1>1, StillDrawn DEF EditorInv
  <2>2. (~muddled' => ShownIsKept') /\ Dialogs' /\ Confirms' /\ Pickers'
    BY PagePart
  <2>3. QED
    BY <2>1, <2>2
<1>3. timers' \subseteq Optional(Node) /\ \A c \in calls' : Call(c)
  BY <1>1 DEF EditorTypes
<1>4. CASE cleared
  <2>1. current' = current /\ panel' = panel
    BY <1>4 DEF showNodeDetails
  <2>2. Panels' /\ PanelIsDrawn'
    BY <1>1, <2>1, StillDrawn DEF EditorTypes, Panels, EditorInv
  <2>3. EditorTypes'
    BY <1>1, <1>2, <1>3, <2>1, <2>2 DEF EditorTypes
  <2>4. ASSUME ~behind PROVE Reloads' /\ NodesLast' /\ PanelFollows'
    <3>1. Reloads /\ NodesLast
      BY <2>4 DEF EditorInv
    <3>2. \E c \in calls' : Landing(c)
      BY <1>4, <3>1 DEF Reloads, Landing
    <3>3. Reloads' /\ NodesLast'
      BY <1>1, <2>1, <3>1 DEF Reloads, NodesLast
    <3>4. QED
      BY <3>2, <3>3 DEF PanelFollows
  <2>5. QED
    BY <1>2, <2>2, <2>3, <2>4 DEF EditorInv
<1>5. CASE ~cleared
  <2>1. current' = n
        /\ panel' = [node |-> n, rows |-> getOutgoingEvents(utg, n), ver |-> utg.ver]
    BY <1>5 DEF showNodeDetails
  <2>2. panel'.node = n /\ panel'.rows = getOutgoingEvents(utg, n) /\ panel'.ver = utg.ver
    BY <2>1
  <2>3. \A k \in DOMAIN getOutgoingEvents(utg, n) : getOutgoingEvents(utg, n)[k] \in Listed
    BY <1>1, RowsAreOfEvents
  <2>4. Panels'
    BY <1>1, <2>1, <2>2, <2>3 DEF Panels, Optional
  <2>5. EditorTypes'
    BY <1>1, <1>2, <1>3, <2>1, <2>4 DEF EditorTypes, Optional
  <2>6. utg.ver <= graph.ver /\ \A s \in Snapshots : s.ver = utg.ver => s = utg
    BY <1>1 DEF EditorInv, Versions
  <2>7. PanelIsDrawn'
    BY <1>1, <2>2, <2>6 DEF PanelIsDrawn
  <2>8. ASSUME ~behind PROVE Reloads' /\ NodesLast' /\ PanelFollows'
    <3>1. Reloads /\ NodesLast
      BY <2>8 DEF EditorInv
    <3>2. ASSUME NEW s \in Snapshots, utg.ver <= s.ver, n \notin s.nodes
          PROVE  \E c \in calls : Removes(c) /\ Landing(c)
      <4>1. s # utg /\ s.ver \in Nat
        BY <1>1, <3>2, SnapshotsAreSound
      <4>2. utg.ver < s.ver /\ utg.ver <= utg.ver
        BY <1>1, <2>6, <3>2, <4>1
      <4>3. PICK c \in calls : Removes(c) /\ Unread(c, utg.ver + 1)
        BY <1>1, <3>1, <3>2, <4>2 DEF NodesLast
      <4>4. QED
        BY <4>3, UnreadLands
    <3>3. NodesLast'
      BY <1>1, <2>2, <3>1, <3>2 DEF NodesLast
    <3>4. Reloads' /\ PanelFollows'
      BY <2>2, <3>1 DEF Reloads, PanelFollows
    <3>5. QED
      BY <3>3, <3>4
  <2>9. QED
    BY <1>2, <2>5, <2>7, <2>8 DEF EditorInv
<1>6. QED
  BY <1>4, <1>5

LEMMA LookStep ==
  ASSUME EditorInv, Look
  PROVE  EditorInv'
<1>1. /\ Sound(utg) /\ cleared \in BOOLEAN
      /\ \A i \in DOMAIN utg.events : utg.events[i].from \in utg.nodes /\ utg.events[i].to \in utg.nodes
  BY DEF EditorInv, EditorTypes, Sound
<1>2. PICK n \in utg.nodes : selected' \in Optional(utg.nodes) /\ showNodeDetails(utg, cleared, n)
  <2>1. ASSUME NEW n \in Node, clickNode(n)
        PROVE  \E m \in utg.nodes : selected' \in Optional(utg.nodes) /\ showNodeDetails(utg, cleared, m)
    BY <2>1 DEF clickNode, Optional
  <2>2. ASSUME NEW i \in DOMAIN utg.events, clickEdge(i)
        PROVE  \E m \in utg.nodes : selected' \in Optional(utg.nodes) /\ showNodeDetails(utg, cleared, m)
    BY <1>1, <2>2 DEF clickEdge, Optional
  <2>3. ASSUME selectPreviousNode \/ selectNextNode
        PROVE  \E m \in utg.nodes : selected' \in Optional(utg.nodes) /\ showNodeDetails(utg, cleared, m)
    <3>1. cleared = FALSE /\ showNodeDetails(utg, FALSE, selected')
      BY <1>1, <2>3 DEF selectPreviousNode, selectNextNode
    <3>2. selected' \in utg.nodes
      BY <1>1, <2>3 DEF selectPreviousNode, selectNextNode, EarliestTo, EarliestFrom
    <3>3. showNodeDetails(utg, cleared, selected')
      BY <3>1
    <3>4. PICK m \in utg.nodes : m = selected'
      BY <3>2
    <3>5. QED
      BY <3>3, <3>4 DEF Optional
  <2>4. QED
    BY <2>1, <2>2, <2>3 DEF Look
<1>3. UNCHANGED <<graph, utg, cleared, dialog, confirm, picker, editing, calls, edits,
                  behind, muddled, timers, unrefreshed>>
  BY DEF Look, clickNode, clickEdge, selectPreviousNode, selectNextNode, page, net, history
<1>4. QED
  BY <1>2, <1>3, ShowStep

\* A refresh of a node that is not drawn leaves the panel as it is: a call that
\* removed the panel's node is still to land, or the exception is noted.
LEMMA RefreshDueStep ==
  ASSUME EditorInv, NEW t \in timers, RefreshDue(t)
  PROVE  EditorInv'
<1> DEFINE n == IF t = Null THEN current ELSE t
<1>1. /\ timers' \subseteq timers
      /\ unrefreshed' = (unrefreshed \/ (t # Null /\ t \notin utg.nodes))
      /\ UNCHANGED <<graph, utg, cleared, dialog, confirm, picker, editing, calls, edits,
                     behind, muddled>>
  BY DEF RefreshDue, page
<1>2. EditorTypes
  BY DEF EditorInv
<1>3. CASE n \in utg.nodes
  <2>1. selected' = n /\ showNodeDetails(utg, cleared, n)
    BY <1>3 DEF RefreshDue
  <2>2. unrefreshed \in BOOLEAN /\ (t # Null => n = t)
    BY <1>2 DEF EditorTypes
  <2>3. unrefreshed' = unrefreshed
    BY <1>1, <1>3, <2>2
  <2> HIDE DEF n
  <2>4. selected' \in Optional(utg.nodes)
    BY <1>3, <2>1 DEF Optional
  <2>5. QED
    BY <1>1, <1>3, <2>1, <2>3, <2>4, ShowStep
<1>4. CASE n \notin utg.nodes
  <2>1. UNCHANGED <<selected, current, panel>>
    BY <1>4 DEF RefreshDue
  <2>2. /\ Snapshots' = Snapshots /\ utg \in Snapshots
        /\ utg.ver <= utg.ver
    BY <1>1, <1>2 DEF Snapshots, Arrived, EditorTypes, Sound, Graph
  <2>3. Versions' /\ ConfirmIsDrawn' /\ PanelIsDrawn'
    BY <1>1, <2>1, <2>2, StillDrawn DEF EditorInv
  <2>4. (~muddled' => ShownIsKept') /\ Dialogs' /\ Confirms' /\ Pickers'
    BY <1>1, PagePart
  <2>5. Panels' /\ unrefreshed' \in BOOLEAN
    BY <1>1, <1>2, <2>1 DEF EditorTypes, Panels
  <2>6. EditorTypes'
    BY <1>1, <1>2, <2>1, <2>4, <2>5 DEF EditorTypes
  <2>7. ASSUME ~behind PROVE Reloads' /\ NodesLast' /\ PanelFollows'
    <3>1. Reloads /\ NodesLast
      BY <2>7 DEF EditorInv
    <3>2. Reloads' /\ NodesLast'
      BY <1>1, <2>1, <2>2, <3>1 DEF Reloads, NodesLast
    <3>3. ASSUME panel.node # Null, ~unrefreshed'
          PROVE  \E c \in calls : Landing(c)
      <4>1. t = Null /\ current = panel.node
        BY <1>1, <1>2, <1>4, <3>3 DEF EditorTypes, Panels
      <4>2. panel.node \notin utg.nodes
        BY <1>4, <4>1
      <4>3. QED
        BY <2>2, <3>1, <3>3, <4>2 DEF NodesLast
    <3>4. PanelFollows'
      BY <1>1, <2>1, <3>3 DEF PanelFollows
    <3>5. QED
      BY <3>2, <3>4
  <2>8. QED
    BY <1>1, <2>3, <2>4, <2>6, <2>7 DEF EditorInv
<1>5. QED
  BY <1>3, <1>4

-----------------------------------------------------------------------------
(* Editing: requests and answers *)

LEMMA ChangedCall ==
  ASSUME NEW c, Call(c), NEW stage, NEW answer, NEW got, NEW d,
         d = [id |-> c.id, op |-> c.op, ask |-> c.ask, keep |-> c.keep, stage |-> stage,
              answer |-> answer, got |-> got],
         stage \in {"edit", "load"}, answer \in {"none", "ok", "fail"},
         c.op \in ReadOps => stage = "edit",
         stage = "load" /\ answer = "ok" => Sound(got),
         stage = "edit" /\ answer = "ok" /\ c.op \in ReadOps => got \subseteq Node
  PROVE  Call(d)
BY DEF Call, Asked, Answered

LEMMA CallShapes ==
  ASSUME NEW c, Call(c)
  PROVE  /\ \A a : [c EXCEPT !.answer = a] =
               [id |-> c.id, op |-> c.op, ask |-> c.ask, keep |-> c.keep, stage |-> c.stage,
                answer |-> a, got |-> c.got]
         /\ \A x : [c EXCEPT !.answer = "ok", !.got = x] =
               [id |-> c.id, op |-> c.op, ask |-> c.ask, keep |-> c.keep, stage |-> c.stage,
                answer |-> "ok", got |-> x]
         /\ [c EXCEPT !.stage = "load", !.answer = "none"] =
               [id |-> c.id, op |-> c.op, ask |-> c.ask, keep |-> c.keep, stage |-> "load",
                answer |-> "none", got |-> c.got]
<1>1. c = [id |-> c.id, op |-> c.op, ask |-> c.ask, keep |-> c.keep, stage |-> c.stage,
           answer |-> c.answer, got |-> c.got]
  BY DEF Call
<1>2. PICK i, o, k, e, s, w, g : c = [id |-> i, op |-> o, ask |-> k, keep |-> e, stage |-> s,
                                     answer |-> w, got |-> g]
  BY <1>1
<1>3. ASSUME NEW x
      PROVE  [c EXCEPT !.answer = "ok", !.got = x] =
                [id |-> i, op |-> o, ask |-> k, keep |-> e, stage |-> s, answer |-> "ok", got |-> x]
  <2>1. PICK f : f = [c EXCEPT !.answer = "ok"]
    OBVIOUS
  <2>2. f = [id |-> i, op |-> o, ask |-> k, keep |-> e, stage |-> s, answer |-> "ok", got |-> g]
    BY <1>2, <2>1
  <2>3. [c EXCEPT !.answer = "ok", !.got = x] = [[c EXCEPT !.answer = "ok"] EXCEPT !.got = x]
    OBVIOUS
  <2>4. [f EXCEPT !.got = x] =
           [id |-> i, op |-> o, ask |-> k, keep |-> e, stage |-> s, answer |-> "ok", got |-> x]
    BY <2>2
  <2>5. QED
    BY <2>1, <2>3, <2>4
<1>4. [c EXCEPT !.stage = "load", !.answer = "none"] =
         [id |-> i, op |-> o, ask |-> k, keep |-> e, stage |-> "load", answer |-> "none", got |-> g]
  <2>1. PICK f : f = [c EXCEPT !.stage = "load"]
    OBVIOUS
  <2>2. f = [id |-> i, op |-> o, ask |-> k, keep |-> e, stage |-> "load", answer |-> w, got |-> g]
    BY <1>2, <2>1
  <2>3. [c EXCEPT !.stage = "load", !.answer = "none"] = [[c EXCEPT !.stage = "load"] EXCEPT !.answer = "none"]
    OBVIOUS
  <2>4. [f EXCEPT !.answer = "none"] =
           [id |-> i, op |-> o, ask |-> k, keep |-> e, stage |-> "load", answer |-> "none", got |-> g]
    BY <2>2
  <2>5. QED
    BY <2>1, <2>3, <2>4
<1>5. /\ c.id = i /\ c.op = o /\ c.ask = k /\ c.keep = e /\ c.stage = s /\ c.got = g
      /\ \A a : [c EXCEPT !.answer = a] =
            [id |-> i, op |-> o, ask |-> k, keep |-> e, stage |-> s, answer |-> a, got |-> g]
  BY <1>2
<1>6. QED
  BY <1>3, <1>4, <1>5

\* A call with its new answer in its place, and nothing drawn.
LEMMA ReplaceStep ==
  ASSUME EditorInv, NEW c \in calls, NEW d, calls' = (calls \ {c}) \cup {d}, Call(d),
         UNCHANGED <<graph, utg, selected, current, panel, page, timers, edits,
                     unrefreshed, muddled>>,
         cleared' \in BOOLEAN, behind' \in BOOLEAN,
         d.stage = "load" /\ d.answer = "ok" => d.got = graph,
         ~behind' => /\ ~behind
                     /\ Landing(c) => Held(c, d)
                     /\ ~(d.stage = "load" /\ d.answer = "fail")
                     /\ cleared' => cleared \/ d.stage = "load"
  PROVE  EditorInv'
<1>1. UNCHANGED dialog /\ UNCHANGED editing /\ UNCHANGED confirm /\ UNCHANGED picker
      /\ UNCHANGED muddled /\ UNCHANGED edits
  BY DEF page
<1>2. Dialogs' /\ Confirms' /\ Pickers' /\ (~muddled' => ShownIsKept') /\ edits' \in Nat
      /\ muddled' \in BOOLEAN
  BY <1>1, PagePart
<1>3. \A e \in calls' : Call(e)
  BY DEF EditorInv, EditorTypes
<1>4. graph \in Snapshots /\ utg \in Snapshots
  BY DEF Snapshots
<1>5. Snapshots' \subseteq Snapshots
  BY <1>4, SameSnapshots
<1>6. ASSUME ~behind'
      PROVE  /\ ~behind /\ Carries
             /\ \A e \in calls' : ~(e.stage = "load" /\ e.answer = "fail")
             /\ cleared' => cleared \/ \E e \in calls' : e.stage = "load"
  <2>1. ~behind /\ Reloads
    BY <1>6 DEF EditorInv
  <2>2. \A e \in calls : Landing(e) => e \in calls' \/ \E f \in calls' : Held(e, f)
    BY <1>6
  <2>3. Carries
    BY <2>2, CarriesAll
  <2>4. QED
    BY <1>6, <2>1, <2>3 DEF Reloads
<1>7. QED
  BY <1>1, <1>2, <1>3, <1>5, <1>6, StillStep

\* An answer that asks for nothing more, to a call that changed nothing.
LEMMA DropStep ==
  ASSUME EditorInv, NEW c \in calls, calls' = calls \ {c}, ~Landing(c),
         UNCHANGED <<graph, view, dialog, editing, timers, edits, history>>,
         Confirms', Pickers', ConfirmIsDrawn' \/ confirm' = confirm
  PROVE  EditorInv'
<1>1. /\ UNCHANGED <<graph, utg, selected, current, panel, timers, unrefreshed>>
      /\ UNCHANGED cleared /\ UNCHANGED behind /\ UNCHANGED muddled
      /\ UNCHANGED <<dialog, editing>> /\ UNCHANGED <<dialog, editing, muddled>> /\ UNCHANGED edits
  BY DEF view, history
<1>2. Dialogs' /\ (~muddled' => ShownIsKept') /\ edits' \in Nat /\ muddled' \in BOOLEAN
  BY <1>1, PagePart
<1>3. (\A e \in calls' : Call(e)) /\ cleared' \in BOOLEAN /\ behind' \in BOOLEAN
  BY <1>1 DEF EditorInv, EditorTypes
<1>4. Snapshots' \subseteq Snapshots
  <2>1. utg' \in Snapshots
    BY <1>1 DEF Snapshots
  <2>2. QED
    BY <1>1, <2>1, SameSnapshots
<1>5. Carries
  BY CarriesAll
<1>6. ~behind' => \A e \in calls' : ~(e.stage = "load" /\ e.answer = "fail")
  BY <1>1 DEF EditorInv, Reloads
<1>7. QED
  BY <1>1, <1>2, <1>3, <1>4, <1>5, <1>6, StillStep

LEMMA ServeReadStep ==
  ASSUME EditorInv, NEW c \in calls, ServeRead(c)
  PROVE  EditorInv'
<1>1. Call(c) /\ Sound(graph) /\ c.answer = "none" /\ (c.stage = "load" \/ c.op \in ReadOps)
  BY DEF EditorInv, EditorTypes, ServeRead
<1>2. /\ UNCHANGED <<graph, utg, selected, current, panel, page, timers, edits,
                     unrefreshed, muddled>>
      /\ cleared' = cleared /\ behind' = behind
  BY DEF ServeRead, view, history
<1>3. cleared' \in BOOLEAN /\ behind' \in BOOLEAN
  BY <1>2 DEF EditorInv, EditorTypes
<1>4. CASE c.stage = "edit" /\ ~Accepts(c)
  <2>1. PICK d : d = [c EXCEPT !.answer = "fail"]
    OBVIOUS
  <2>2. calls' = (calls \ {c}) \cup {d}
    BY <1>4, <2>1 DEF ServeRead, Replace
  <2>3. d = [id |-> c.id, op |-> c.op, ask |-> c.ask, keep |-> c.keep, stage |-> c.stage,
             answer |-> "fail", got |-> c.got]
    BY <1>1, <2>1, CallShapes
  <2>4. Call(d)
    BY <1>1, <1>4, <2>3, ChangedCall
  <2>5. d.stage = "edit" /\ d.answer = "fail" /\ ~Landing(c)
    BY <1>1, <1>4, <2>3 DEF Landing, Made
  <2>6. QED
    BY <1>2, <1>3, <2>2, <2>4, <2>5, ReplaceStep
<1>5. CASE ~(c.stage = "edit" /\ ~Accepts(c))
  <2> DEFINE x == CASE c.stage = "load" -> graph
                    [] c.op = "branch" ->
                          UNION {find_branch_states(graph, n) : n \in c.ask.nodes}
                    [] c.op = "deleted" -> Node \ graph.nodes
  <2>1. PICK d : d = [c EXCEPT !.answer = "ok", !.got = x]
    OBVIOUS
  <2>2. calls' = (calls \ {c}) \cup {d}
    BY <1>5, <2>1 DEF ServeRead, Replace
  <2>3. d = [id |-> c.id, op |-> c.op, ask |-> c.ask, keep |-> c.keep, stage |-> c.stage,
             answer |-> "ok", got |-> x]
    <3> HIDE DEF x
    <3>1. QED
      BY <1>1, <2>1, CallShapes
  <2>4. c.stage = "load" => x = graph
    BY <1>1 DEF Call, ReadOps
  <2>5. c.stage = "edit" => x \subseteq Node
    <3>1. \A n : find_branch_states(graph, n) \subseteq graph.nodes
      BY DEF find_branch_states
    <3>2. graph.nodes \subseteq Node
      BY <1>1 DEF Sound, Graph
    <3>3. UNION {find_branch_states(graph, n) : n \in c.ask.nodes} \subseteq Node
      BY <3>1, <3>2
    <3>4. c.stage = "edit" => c.op = "branch" \/ c.op = "deleted"
      BY <1>1 DEF ReadOps
    <3>5. QED
      BY <3>3, <3>4
  <2> HIDE DEF x
  <2>6. Call(d)
    <3>1. c.stage \in {"edit", "load"} /\ (c.op \in ReadOps => c.stage = "edit")
      BY <1>1 DEF Call
    <3>2. QED
      BY <1>1, <2>3, <2>4, <2>5, <3>1, ChangedCall
  <2>7. d.stage = c.stage /\ d.answer = "ok" /\ d.op = c.op /\ d.got = x
    BY <2>3
  <2>8. Landing(c) => Held(c, d)
    <3>1. graph.ver \in Nat
      BY <1>1 DEF Sound, Graph
    <3>2. c.stage = "load" => Held(c, d)
      BY <2>4, <2>7, <3>1 DEF Held, Landing, Unread
    <3>3. QED
      BY <1>1, <3>2 DEF Landing, Made
  <2>9. QED
    BY <1>2, <1>3, <2>2, <2>4, <2>6, <2>7, <2>8, ReplaceStep
<1>6. QED
  BY <1>4, <1>5

LEMMA LoseStep ==
  ASSUME EditorInv, NEW c \in calls, Lose(c)
  PROVE  EditorInv'
<1>1. /\ Call(c) /\ (c.answer = "none" \/ (c.stage = "edit" /\ c.answer = "ok"))
      /\ cleared \in BOOLEAN /\ behind \in BOOLEAN
  BY DEF EditorInv, EditorTypes, Lose
<1>2. /\ UNCHANGED <<graph, utg, selected, current, panel, page, timers, edits,
                     unrefreshed, muddled>>
      /\ cleared' = cleared
      /\ behind' = (behind \/ c.stage = "load" \/ c.answer = "ok")
  BY DEF Lose, view
<1>3. cleared' \in BOOLEAN /\ behind' \in BOOLEAN
  BY <1>1, <1>2
<1>4. PICK d : d = [c EXCEPT !.answer = "fail"]
  OBVIOUS
<1>5. calls' = (calls \ {c}) \cup {d}
  BY <1>4 DEF Lose, Replace
<1>6. d = [id |-> c.id, op |-> c.op, ask |-> c.ask, keep |-> c.keep, stage |-> c.stage,
           answer |-> "fail", got |-> c.got]
  BY <1>1, <1>4, CallShapes
<1>7. Call(d) /\ d.answer = "fail" /\ d.stage = c.stage
  <2>1. c.stage \in {"edit", "load"} /\ (c.op \in ReadOps => c.stage = "edit")
    BY <1>1 DEF Call
  <2>2. QED
    BY <1>1, <1>6, <2>1, ChangedCall
<1>8. ~behind' => ~behind /\ ~Landing(c) /\ d.stage # "load"
  BY <1>2, <1>7 DEF Landing, Made
<1>9. QED
  BY <1>2, <1>3, <1>5, <1>7, <1>8, ReplaceStep

LEMMA AnswerEditStep ==
  ASSUME EditorInv, NEW c \in calls, AnswerEdit(c)
  PROVE  EditorInv'
<1>1. Call(c) /\ c.stage = "edit" /\ c.answer = "ok" /\ c.op \notin ReadOps
  BY DEF EditorInv, EditorTypes, AnswerEdit
<1>2. /\ UNCHANGED <<graph, utg, selected, current, panel, page, timers, edits,
                     unrefreshed, muddled>>
      /\ cleared' = TRUE /\ behind' = behind
  BY DEF AnswerEdit, history
<1>3. cleared' \in BOOLEAN /\ behind' \in BOOLEAN
  BY <1>2 DEF EditorInv, EditorTypes
<1>4. PICK d : d = [c EXCEPT !.stage = "load", !.answer = "none"]
  OBVIOUS
<1>5. calls' = (calls \ {c}) \cup {d}
  BY <1>4 DEF AnswerEdit, Replace
<1>6. d = [id |-> c.id, op |-> c.op, ask |-> c.ask, keep |-> c.keep, stage |-> "load",
           answer |-> "none", got |-> c.got]
  BY <1>1, <1>4, CallShapes
<1>7. Call(d) /\ d.answer = "none" /\ d.stage = "load" /\ d.op = c.op
  BY <1>1, <1>6, ChangedCall
<1>8. Held(c, d)
  BY <1>1, <1>7 DEF Held, Landing, Unread
<1>9. QED
  BY <1>2, <1>3, <1>5, <1>7, <1>8, ReplaceStep

LEMMA AnswerFailedStep ==
  ASSUME EditorInv, NEW c \in calls, AnswerFailed(c)
  PROVE  EditorInv'
<1>1. /\ calls' = calls \ {c} /\ ~Landing(c)
      /\ UNCHANGED <<graph, view, dialog, editing, timers, edits, history>>
      /\ UNCHANGED confirm /\ UNCHANGED picker
  BY DEF AnswerFailed, Landing, Made, page
<1>2. Confirms' /\ Pickers'
  BY <1>1, PagePart
<1>3. QED
  BY <1>1, <1>2, DropStep

LEMMA AnswerReadStep ==
  ASSUME EditorInv, NEW c \in calls, AnswerBranch(c) \/ AnswerDeleted(c)
  PROVE  EditorInv'
<1>1. Call(c) /\ c.op \in ReadOps /\ c.answer = "ok"
  BY DEF EditorInv, EditorTypes, AnswerBranch, AnswerDeleted, ReadOps
<1>2. c.got \subseteq Node /\ ~Landing(c)
  BY <1>1 DEF Call, Answered, Landing, Made
<1>3. /\ calls' = calls \ {c}
      /\ UNCHANGED <<graph, view, dialog, editing, timers, edits, history>>
  BY DEF AnswerBranch, AnswerDeleted
<1>4. CASE AnswerBranch(c)
  <2>1. confirm' = [NoConfirm EXCEPT !.kind = "branch", !.nodes = c.got] /\ UNCHANGED picker
    BY <1>4 DEF AnswerBranch
  <2>2. Confirms' /\ confirm'.kind = "branch"
    BY <1>2, <2>1 DEF Confirms, NoConfirm
  <2>3. ConfirmIsDrawn' /\ Pickers'
    BY <2>1, <2>2, PagePart
  <2>4. QED
    BY <1>2, <1>3, <2>2, <2>3, DropStep
<1>5. CASE AnswerDeleted(c)
  <2>1. picker' = [open |-> TRUE, list |-> c.got, chosen |-> {}] /\ UNCHANGED confirm
    BY <1>5 DEF AnswerDeleted
  <2>2. Pickers' /\ Confirms'
    BY <1>2, <2>1, PagePart DEF Pickers
  <2>3. QED
    BY <1>2, <1>3, <2>1, <2>2, DropStep
<1>6. QED
  BY <1>4, <1>5

\* An edit the server refuses changes nothing but its answer.
LEMMA RefusedEditStep ==
  ASSUME EditorInv, NEW c \in calls, ServeEdit(c), ~Accepts(c)
  PROVE  EditorInv'
<1>1. Call(c) /\ c.stage = "edit" /\ c.answer = "none"
  BY DEF EditorInv, EditorTypes, ServeEdit
<1>2. /\ UNCHANGED <<graph, utg, selected, current, panel, page, timers, edits,
                     unrefreshed, muddled>>
      /\ cleared' = cleared /\ behind' = behind
  BY DEF ServeEdit, view, history
<1>3. cleared' \in BOOLEAN /\ behind' \in BOOLEAN
  BY <1>2 DEF EditorInv, EditorTypes
<1>4. PICK d : d = [c EXCEPT !.answer = "fail"]
  OBVIOUS
<1>5. calls' = (calls \ {c}) \cup {d}
  BY <1>4 DEF ServeEdit, Replace
<1>6. d = [id |-> c.id, op |-> c.op, ask |-> c.ask, keep |-> c.keep, stage |-> c.stage,
           answer |-> "fail", got |-> c.got]
  BY <1>1, <1>4, CallShapes
<1>7. Call(d) /\ d.answer = "fail" /\ d.stage = "edit"
  BY <1>1, <1>6, ChangedCall
<1>8. ~Landing(c)
  BY <1>1 DEF Landing, Made
<1>9. QED
  BY <1>2, <1>3, <1>5, <1>7, <1>8, ReplaceStep

\* An edit makes a newer graph, and is itself a call that lands.
LEMMA MadeEditStep ==
  ASSUME EditorInv, NEW c \in calls, ServeEdit(c), Accepts(c)
  PROVE  EditorInv'
<1>1. /\ Call(c) /\ c.stage = "edit" /\ c.answer = "none" /\ c.op \notin ReadOps
      /\ EditorTypes /\ Sound(graph) /\ Versions
  BY DEF EditorInv, EditorTypes, ServeEdit
<1>2. /\ UNCHANGED <<utg, selected, current, panel, page, timers, edits>>
      /\ UNCHANGED cleared /\ UNCHANGED behind /\ UNCHANGED unrefreshed /\ UNCHANGED muddled
      /\ UNCHANGED dialog /\ UNCHANGED editing /\ UNCHANGED confirm /\ UNCHANGED picker
      /\ UNCHANGED panel /\ UNCHANGED utg /\ UNCHANGED timers /\ UNCHANGED edits
      /\ graph' = [Edited(c) EXCEPT !.ver = @ + 1]
  BY DEF ServeEdit, view, page, history
<1>3. PICK d : d = [c EXCEPT !.answer = "ok"]
  OBVIOUS
<1>4. calls' = (calls \ {c}) \cup {d}
  BY <1>3 DEF ServeEdit, Replace
<1>5. d = [id |-> c.id, op |-> c.op, ask |-> c.ask, keep |-> c.keep, stage |-> c.stage,
           answer |-> "ok", got |-> c.got]
  BY <1>1, <1>3, CallShapes
<1>6. Call(d) /\ d.op = c.op /\ Made(d)
  BY <1>1, <1>5, ChangedCall DEF Made
<1>7. /\ Sound(Edited(c)) /\ Edited(c).ver = graph.ver
      /\ ~Removes(c) => graph.nodes \subseteq Edited(c).nodes
  BY <1>1, EditedIsSound DEF Call
<1>8. /\ Sound(graph') /\ graph'.ver = graph.ver + 1 /\ graph.ver \in Nat
      /\ ~Removes(c) => graph.nodes \subseteq graph'.nodes
  <2>1. PICK h : h = Edited(c)
    OBVIOUS
  <2>2. h \in Graph /\ \A i \in DOMAIN h.events : h.events[i].from \in h.nodes /\ h.events[i].to \in h.nodes
    BY <1>7, <2>1 DEF Sound
  <2>3. PICK v : v = h.ver + 1
    OBVIOUS
  <2>4. graph' = [h EXCEPT !.ver = v] /\ v \in Nat
    BY <1>2, <2>1, <2>2, <2>3 DEF Graph
  <2>5. graph'.nodes = h.nodes /\ graph'.events = h.events /\ graph'.ver = v /\ graph' \in Graph
    BY <2>2, <2>4 DEF Graph
  <2>6. Sound(graph')
    BY <2>2, <2>5 DEF Sound
  <2>7. v = graph.ver + 1 /\ graph.ver \in Nat
    BY <1>1, <1>7, <2>1, <2>3 DEF Sound, Graph
  <2>8. QED
    BY <1>7, <2>1, <2>5, <2>6, <2>7
<1>9. ASSUME NEW s \in Snapshots'
      PROVE  s = graph' \/ s \in Snapshots
  <2>1. ~(d.stage = "load")
    BY <1>6 DEF Made
  <2>2. QED
    BY <1>2, <1>4, <2>1 DEF Snapshots, Arrived
<1>10. \A s \in Snapshots : s.ver \in Nat /\ s.ver <= graph.ver
  BY <1>1, SnapshotsAreSound DEF Versions
<1>11. \A s \in Snapshots : s.ver < graph'.ver
  BY <1>8, <1>10
<1>12. graph \in Snapshots /\ utg \in Snapshots /\ utg.ver \in Nat
  BY <1>10 DEF Snapshots
<1>13. Versions'
  <2>1. ASSUME NEW s \in Snapshots', NEW r \in Snapshots'
        PROVE  s.ver <= graph'.ver /\ (s.ver = r.ver => s = r)
    <3>1. s.ver <= graph'.ver
      BY <1>8, <1>9, <1>10, <1>11
    <3>2. s \in Snapshots /\ r \in Snapshots => (s.ver = r.ver => s = r)
      BY <1>1 DEF Versions
    <3>3. CASE s.ver = r.ver
      <4>1. s = graph' => ~(r \in Snapshots)
        BY <1>8, <1>10, <1>11, <3>3
      <4>2. r = graph' => ~(s \in Snapshots)
        BY <1>8, <1>10, <1>11, <3>3
      <4>3. QED
        BY <1>9, <3>1, <3>2, <3>3, <4>1, <4>2
    <3>4. QED
      BY <3>1, <3>3
  <2>2. QED
    BY <2>1 DEF Versions
<1>14. PanelIsDrawn'
  <2>1. CASE panel.node # Null
    <3>1. panel.ver <= graph.ver /\ panel.ver \in Nat
          /\ \A s \in Snapshots : s.ver = panel.ver => panel.rows = getOutgoingEvents(s, panel.node)
      BY <1>1, <2>1 DEF EditorInv, PanelIsDrawn, EditorTypes, Panels
    <3>2. panel.ver <= graph'.ver /\ graph'.ver # panel.ver
      BY <1>8, <3>1
    <3>3. \A s \in Snapshots' : s.ver = panel.ver => panel.rows = getOutgoingEvents(s, panel.node)
      BY <1>9, <3>1, <3>2
    <3>4. QED
      BY <1>2, <3>2, <3>3 DEF PanelIsDrawn
  <2>2. CASE panel.node = Null
    BY <1>2, <2>2 DEF PanelIsDrawn
  <2>3. QED
    BY <2>1, <2>2
<1>15. ConfirmIsDrawn'
  <2>1. CASE confirm.kind = "event"
    <3>1. confirm.ver <= graph.ver /\ confirm.ver \in Nat
          /\ \A s \in Snapshots : s.ver = confirm.ver => RowIsOf(confirm.row, confirm.event, s)
      BY <1>1, <2>1 DEF EditorInv, ConfirmIsDrawn, EditorTypes, Confirms
    <3>2. confirm.ver <= graph'.ver /\ graph'.ver # confirm.ver
      BY <1>8, <3>1
    <3>3. \A s \in Snapshots' : s.ver = confirm.ver => RowIsOf(confirm.row, confirm.event, s)
      BY <1>9, <3>1, <3>2
    <3>4. QED
      BY <1>2, <3>2, <3>3 DEF ConfirmIsDrawn
  <2>2. CASE confirm.kind # "event"
    BY <1>2, <2>2 DEF ConfirmIsDrawn
  <2>3. QED
    BY <2>1, <2>2
<1>16. EditorTypes' /\ (~muddled' => ShownIsKept')
  <2>1. Dialogs' /\ Confirms' /\ Pickers' /\ (~muddled' => ShownIsKept') /\ edits' \in Nat
        /\ muddled' \in BOOLEAN
    BY <1>2, PagePart
  <2>2. Panels'
    BY <1>1, <1>2 DEF EditorTypes, Panels
  <2>3. \A e \in calls' : Call(e)
    BY <1>1, <1>4, <1>6 DEF EditorTypes
  <2>4. QED
    BY <1>1, <1>2, <1>8, <2>1, <2>2, <2>3 DEF EditorTypes
<1>17. ASSUME ~behind PROVE Reloads' /\ NodesLast' /\ PanelFollows'
  <2>1. Reloads /\ NodesLast /\ PanelFollows
    BY <1>17 DEF EditorInv
  <2>2. d \in calls' /\ Landing(d) /\ (\A v : Unread(d, v)) /\ (Removes(c) => Removes(d))
    BY <1>4, <1>6 DEF Landing, Unread, Removes
  <2>3. \A e \in calls : Landing(e) => e \in calls'
    BY <1>1, <1>4 DEF Landing, Made
  <2>4. Reloads'
    <3>1. \A e \in calls' : ~(e.stage = "load" /\ e.answer = "fail")
      BY <1>4, <1>6, <2>1 DEF Reloads, Made
    <3>2. \A e \in calls : e.stage = "load" => e \in calls'
      BY <1>1, <1>4
    <3>3. QED
      BY <1>2, <2>1, <2>2, <3>1, <3>2 DEF Reloads
  <2>5. \A s, r \in Snapshots' : utg.ver <= s.ver /\ s.ver < r.ver =>
            \A n \in s.nodes \ r.nodes : \E e \in calls' : Removes(e) /\ Unread(e, s.ver + 1)
    <3>1. ASSUME NEW s \in Snapshots', NEW r \in Snapshots', utg.ver <= s.ver, s.ver < r.ver,
                 NEW n \in s.nodes \ r.nodes
          PROVE  \E e \in calls' : Removes(e) /\ Unread(e, s.ver + 1)
      <4>1. s \in Snapshots
        BY <1>8, <1>9, <1>11, <1>10, <3>1
      <4>2. CASE r \in Snapshots
        <5>1. PICK e \in calls : Removes(e) /\ Unread(e, s.ver + 1)
          BY <2>1, <3>1, <4>1, <4>2 DEF NodesLast
        <5>2. e \in calls'
          BY <2>3, <5>1, UnreadLands
        <5>3. QED
          BY <5>1, <5>2
      <4>3. CASE r = graph'
        <5>1. CASE n \notin graph.nodes
          <6>1. s.ver # graph.ver
            BY <1>1, <1>12, <3>1, <4>1, <5>1 DEF Versions
          <6>2. s.ver < graph.ver
            BY <1>8, <1>10, <4>1, <6>1
          <6>3. n \in s.nodes \ graph.nodes
            BY <3>1, <5>1
          <6>4. PICK e \in calls : Removes(e) /\ Unread(e, s.ver + 1)
            BY <1>12, <2>1, <3>1, <4>1, <6>2, <6>3 DEF NodesLast
          <6>5. e \in calls'
            BY <2>3, <6>4, UnreadLands
          <6>6. QED
            BY <6>4, <6>5
        <5>2. CASE n \in graph.nodes
          <6>1. Removes(c)
            BY <1>8, <3>1, <4>3, <5>2
          <6>2. QED
            BY <2>2, <6>1
        <5>3. QED
          BY <5>1, <5>2
      <4>4. QED
        BY <1>9, <4>2, <4>3
    <3>2. QED
      BY <3>1
  <2>6. panel.node # Null =>
            \A s \in Snapshots' : utg.ver <= s.ver /\ panel.node \notin s.nodes =>
                \E e \in calls' : Removes(e) /\ Landing(e)
    <3>1. ASSUME panel.node # Null, NEW s \in Snapshots', utg.ver <= s.ver, panel.node \notin s.nodes
          PROVE  \E e \in calls' : Removes(e) /\ Landing(e)
      <4>1. CASE Removes(c)
        BY <2>2, <4>1
      <4>2. CASE ~Removes(c)
        <5>1. PICK r \in Snapshots : utg.ver <= r.ver /\ panel.node \notin r.nodes
          <6>1. s = graph' => panel.node \notin graph.nodes
            BY <1>8, <3>1, <4>2
          <6>2. utg.ver <= graph.ver
            BY <1>10, <1>12
          <6>3. QED
            BY <1>9, <1>12, <3>1, <6>1, <6>2
        <5>2. PICK e \in calls : Removes(e) /\ Landing(e)
          BY <2>1, <3>1, <5>1 DEF NodesLast
        <5>3. QED
          BY <2>3, <5>2
      <4>3. QED
        BY <4>1, <4>2
    <3>2. QED
      BY <3>1
  <2>7. NodesLast'
    BY <1>2, <2>5, <2>6 DEF NodesLast
  <2>8. PanelFollows'
    BY <2>2 DEF PanelFollows
  <2>9. QED
    BY <2>4, <2>7, <2>8
<1>18. QED
  BY <1>2, <1>13, <1>14, <1>15, <1>16, <1>17 DEF EditorInv

\* A reload draws what it got, which is older than nothing the page has drawn, and
\* leaves a refresh behind, a text in the panel, or the exception.
LEMMA AnswerLoadStep ==
  ASSUME EditorInv, NEW c \in calls, AnswerLoad(c)
  PROVE  EditorInv'
<1>1. /\ Call(c) /\ c.stage = "load" /\ c.answer \in {"ok", "fail"} /\ EditorTypes /\ Versions
      /\ calls' = calls \ {c} /\ timers' = timers \cup refresh(c)
      /\ unrefreshed' = (unrefreshed \/ c.op = "restore" \/ (c.op = "delete_event" /\ c.keep = Null))
      /\ panel' = IF c.op \in {"delete_node", "delete_branch"} THEN Text ELSE panel
      /\ UNCHANGED <<graph, current, confirm, picker, edits, muddled>>
      /\ UNCHANGED confirm /\ UNCHANGED picker /\ UNCHANGED edits /\ UNCHANGED muddled
  BY DEF EditorInv, EditorTypes, AnswerLoad, Call
<1>2. /\ utg' \in Snapshots /\ Sound(utg') /\ selected' \in Optional(utg'.nodes)
      /\ cleared' \in BOOLEAN /\ behind' \in BOOLEAN
      /\ ~behind' => ~behind /\ utg' = c.got /\ cleared' = FALSE /\ ~(c.got.ver < utg.ver) /\ c.answer = "ok"
  <2>1. CASE c.answer = "ok"
    <3>1. /\ utg' = c.got /\ cleared' = FALSE /\ Sound(c.got)
          /\ selected' = IF selected \in c.got.nodes THEN selected ELSE Null
          /\ behind' = (behind \/ c.got.ver < utg.ver)
      BY <1>1, <2>1 DEF AnswerLoad, loadUTG, Call, Answered
    <3>2. c.got \in Snapshots /\ selected' \in Optional(c.got.nodes)
      BY <1>1, <2>1, <3>1 DEF Snapshots, Arrived, Optional
    <3>3. cleared' \in BOOLEAN /\ behind' \in BOOLEAN
      BY <1>1, <3>1 DEF EditorTypes
    <3>4. QED
      BY <2>1, <3>1, <3>2, <3>3
  <2>2. CASE c.answer = "fail"
    <3>1. UNCHANGED <<utg, cleared, selected, behind>>
      BY <2>2 DEF AnswerLoad, loadUTG
    <3>2. behind
      BY <1>1, <2>2 DEF EditorInv, Reloads
    <3>3. QED
      BY <1>1, <3>1, <3>2 DEF EditorTypes, Snapshots
  <2>3. QED
    BY <1>1, <2>1, <2>2
<1>3. Snapshots' \subseteq Snapshots
  BY <1>1, <1>2, SameSnapshots
<1>4. panel' = panel \/ (panel'.node = Null /\ panel'.rows = <<>> /\ panel'.ver = 0)
  BY <1>1 DEF Text
<1>5. Panels' /\ PanelIsDrawn'
  <2>1. CASE panel' = panel
    BY <1>1, <1>3, <2>1, StillDrawn DEF EditorInv, EditorTypes, Panels
  <2>2. CASE panel'.node = Null /\ panel'.rows = <<>> /\ panel'.ver = 0
    BY <2>2 DEF Panels, PanelIsDrawn, Optional
  <2>3. QED
    BY <1>4, <2>1, <2>2
<1>6. Dialogs' /\ (~muddled' => ShownIsKept')
  <2>1. CASE c.op \in {"update_event", "create_event"}
    BY <2>1, ClosedDialog DEF AnswerLoad
  <2>2. CASE ~(c.op \in {"update_event", "create_event"})
    <3>1. UNCHANGED <<dialog, editing>> /\ UNCHANGED <<dialog, editing, muddled>>
      BY <1>1, <2>2 DEF AnswerLoad
    <3>2. QED
      BY <3>1, PagePart
  <2>3. QED
    BY <2>1, <2>2
<1>7. Versions' /\ ConfirmIsDrawn' /\ Confirms' /\ Pickers' /\ edits' \in Nat /\ muddled' \in BOOLEAN
  <2>1. Versions' /\ ConfirmIsDrawn'
    BY <1>1, <1>3, StillDrawn DEF EditorInv
  <2>2. Confirms' /\ Pickers' /\ edits' \in Nat /\ muddled' \in BOOLEAN
    BY <1>1, PagePart
  <2>3. QED
    BY <2>1, <2>2
<1>8. EditorTypes'
  <2>1. timers' \subseteq Optional(Node)
    BY <1>1 DEF refresh, EditorTypes, Call, Optional
  <2>2. unrefreshed' \in BOOLEAN
    BY <1>1 DEF EditorTypes
  <2>3. Sound(graph') /\ current' \in Optional(Node) /\ \A e \in calls' : Call(e)
    BY <1>1 DEF EditorTypes
  <2>4. QED
    BY <1>2, <1>5, <1>6, <1>7, <2>1, <2>2, <2>3 DEF EditorTypes
<1>9. ASSUME ~behind' PROVE Reloads' /\ NodesLast' /\ PanelFollows'
  <2>1. /\ ~behind /\ utg' = c.got /\ cleared' = FALSE /\ c.answer = "ok"
        /\ Reloads /\ NodesLast
    BY <1>2, <1>9 DEF EditorInv
  <2>2. \A s \in Snapshots : s.ver \in Nat /\ s.ver <= graph.ver
    BY <1>1, SnapshotsAreSound DEF Versions
  <2>3. utg \in Snapshots /\ c.got \in Snapshots /\ graph \in Snapshots
    BY <1>2, <2>1 DEF Snapshots
  <2>4. utg.ver <= c.got.ver /\ c.got.ver <= graph.ver
        /\ utg.ver \in Nat /\ c.got.ver \in Nat /\ graph.ver \in Nat
    BY <1>2, <1>9, <2>2, <2>3
  <2>5. Reloads'
    <3>1. c.got.ver = graph.ver \/ \E e \in calls' : Unread(e, graph.ver)
      <4>1. CASE utg.ver = graph.ver
        BY <2>4, <4>1
      <4>2. CASE \E e \in calls : Unread(e, graph.ver)
        <5>1. PICK e \in calls : Unread(e, graph.ver)
          BY <4>2
        <5>2. CASE e = c
          <6>1. c.got.ver >= graph.ver
            BY <1>1, <2>1, <5>1, <5>2 DEF Unread, Made
          <6>2. QED
            BY <2>4, <6>1
        <5>3. CASE e # c
          BY <1>1, <5>1, <5>3
        <5>4. QED
          BY <5>2, <5>3
      <4>3. QED
        BY <2>1, <4>1, <4>2 DEF Reloads
    <3>2. QED
      BY <1>1, <2>1, <3>1 DEF Reloads
  <2>6. \A s, r \in Snapshots' : utg'.ver <= s.ver /\ s.ver < r.ver =>
            \A n \in s.nodes \ r.nodes : \E e \in calls' : Removes(e) /\ Unread(e, s.ver + 1)
    <3>1. ASSUME NEW s \in Snapshots', NEW r \in Snapshots', utg'.ver <= s.ver, s.ver < r.ver,
                 NEW n \in s.nodes \ r.nodes
          PROVE  \E e \in calls' : Removes(e) /\ Unread(e, s.ver + 1)
      <4>1. s \in Snapshots /\ r \in Snapshots /\ s.ver \in Nat /\ c.got.ver <= s.ver
        BY <1>3, <2>1, <2>2, <3>1
      <4>2. utg.ver <= s.ver /\ ~(c.got.ver >= s.ver + 1)
        BY <2>4, <4>1
      <4>3. PICK e \in calls : Removes(e) /\ Unread(e, s.ver + 1)
        BY <2>1, <3>1, <4>1, <4>2 DEF NodesLast
      <4>4. e # c
        BY <1>1, <2>1, <4>2, <4>3 DEF Unread, Made
      <4>5. QED
        BY <1>1, <4>3, <4>4
    <3>2. QED
      BY <3>1
  <2>7. ASSUME panel'.node # Null
        PROVE  panel' = panel /\ ~Removes(c) /\ panel.node # Null /\ current # Null
    <3>1. panel' = panel /\ ~Removes(c)
      BY <1>1, <2>7 DEF Text, Removes
    <3>2. QED
      BY <1>1, <2>7, <3>1 DEF EditorTypes, Panels
  <2>8. panel'.node # Null =>
            \A s \in Snapshots' : utg'.ver <= s.ver /\ panel'.node \notin s.nodes =>
                \E e \in calls' : Removes(e) /\ Landing(e)
    <3>1. ASSUME panel'.node # Null, NEW s \in Snapshots', utg'.ver <= s.ver, panel'.node \notin s.nodes
          PROVE  \E e \in calls' : Removes(e) /\ Landing(e)
      <4>1. s \in Snapshots /\ s.ver \in Nat /\ utg.ver <= s.ver
        BY <1>3, <2>1, <2>2, <2>4, <3>1
      <4>2. PICK e \in calls : Removes(e) /\ Landing(e)
        BY <2>1, <2>7, <3>1, <4>1 DEF NodesLast
      <4>3. e # c
        BY <2>7, <3>1, <4>2
      <4>4. QED
        BY <1>1, <4>2, <4>3
    <3>2. QED
      BY <3>1
  <2>9. NodesLast'
    BY <2>6, <2>8 DEF NodesLast
  <2>10. panel'.node # Null => unrefreshed' \/ timers' # {}
    <3>1. ASSUME panel'.node # Null PROVE unrefreshed' \/ timers' # {}
      <4>1. c.op \in {"delete_event", "update_event", "create_event", "mark", "restore"}
        BY <1>1, <2>7, <3>1 DEF Call, Op, ReadOps, Removes
      <4>2. CASE c.op = "delete_event"
        BY <1>1, <4>2 DEF refresh
      <4>3. CASE c.op \in {"update_event", "create_event", "mark"}
        BY <1>1, <2>7, <3>1, <4>3 DEF refresh
      <4>4. CASE c.op = "restore"
        BY <1>1, <4>4
      <4>5. QED
        BY <4>1, <4>2, <4>3, <4>4
    <3>2. QED
      BY <3>1
  <2>11. PanelFollows'
    BY <2>10 DEF PanelFollows
  <2>12. QED
    BY <2>5, <2>9, <2>11
<1>10. QED
  BY <1>5, <1>6, <1>7, <1>8, <1>9 DEF EditorInv

-----------------------------------------------------------------------------
(* Editing: the theorems *)

LEMMA EditorInitial == EditorInit => EditorInv
<1> SUFFICES ASSUME EditorInit PROVE EditorInv
  OBVIOUS
<1>1. /\ graph = LoadedGraph /\ utg = LoadedGraph /\ cleared = FALSE
      /\ selected = Null /\ current = Null /\ panel = Text
      /\ editing = NoFields /\ dialog = NoDialog /\ confirm = NoConfirm /\ picker = NoPicker
      /\ calls = {} /\ timers = {} /\ edits = 0
      /\ behind = FALSE /\ unrefreshed = FALSE /\ muddled = FALSE
  BY DEF EditorInit
<1>2. Recorded \in Seq(Event)
  BY RecordedAssumption DEF Event
<1>3. Sound(LoadedGraph)
  <2>1. \A i \in DOMAIN Recorded : Recorded[i].from \in Node /\ Recorded[i].to \in Node
    <3>1. \A i \in DOMAIN Recorded : Recorded[i] \in Event
      BY <1>2
    <3>2. QED
      BY <3>1 DEF Event
  <2>2. QED
    BY <1>2, <2>1 DEF Sound, Graph, LoadedGraph
<1>4. Dialogs /\ Confirms /\ Pickers /\ Panels /\ ShownIsKept
  BY <1>1 DEF Dialogs, Confirms, Pickers, Panels, ShownIsKept, NoDialog, NoFields, NoConfirm,
              NoPicker, Text, Optional
<1>5. EditorTypes
  BY <1>1, <1>3, <1>4 DEF EditorTypes, Optional
<1>6. Snapshots = {LoadedGraph} /\ LoadedGraph.ver = 0
  BY <1>1 DEF Snapshots, Arrived, LoadedGraph
<1>7. Versions /\ PanelIsDrawn /\ ConfirmIsDrawn
  BY <1>1, <1>6 DEF Versions, PanelIsDrawn, ConfirmIsDrawn, Text, NoConfirm
<1>8. Reloads /\ NodesLast /\ PanelFollows
  BY <1>1, <1>6 DEF Reloads, NodesLast, PanelFollows, Text
<1>9. QED
  BY <1>4, <1>5, <1>7, <1>8 DEF EditorInv

\* A step of the network, of the page on an answer, or of a user who looks around.
Lands ==
    \/ \E c \in calls : \/ ServeEdit(c) \/ ServeRead(c) \/ Lose(c) \/ AnswerFailed(c)
                        \/ AnswerEdit(c) \/ AnswerBranch(c) \/ AnswerDeleted(c) \/ AnswerLoad(c)
    \/ \E t \in timers : RefreshDue(t)
    \/ Look

LEMMA NextCases == EditorNext => UserEdits \/ Lands
BY DEF EditorNext, Lands

LEMMA EditorUnchanged ==
  ASSUME EditorInv, UNCHANGED editorVars
  PROVE  EditorInv'
<1>1. /\ UNCHANGED <<graph, utg, cleared, selected, current, panel, timers, behind, unrefreshed>>
      /\ UNCHANGED calls /\ UNCHANGED edits /\ UNCHANGED muddled
      /\ UNCHANGED <<dialog, editing>> /\ UNCHANGED <<dialog, editing, muddled>>
      /\ UNCHANGED confirm /\ UNCHANGED picker
  BY DEF editorVars
<1>2. Dialogs' /\ Confirms' /\ Pickers' /\ (~muddled' => ShownIsKept') /\ edits' \in Nat
      /\ muddled' \in BOOLEAN
  BY <1>1, PagePart
<1>3. QED
  BY <1>1, <1>2, AskStep

LEMMA EditorInductive == EditorInv /\ [EditorNext]_editorVars => EditorInv'
<1> SUFFICES ASSUME EditorInv, [EditorNext]_editorVars PROVE EditorInv'
  OBVIOUS
<1>1. ASSUME NEW c \in calls, ServeEdit(c) PROVE EditorInv'
  BY <1>1, MadeEditStep, RefusedEditStep
<1>2. ASSUME NEW c \in calls, ServeRead(c) \/ Lose(c) \/ AnswerFailed(c) \/ AnswerEdit(c)
      PROVE  EditorInv'
  BY <1>2, ServeReadStep, LoseStep, AnswerFailedStep, AnswerEditStep
<1>3. ASSUME NEW c \in calls, AnswerBranch(c) \/ AnswerDeleted(c) \/ AnswerLoad(c)
      PROVE  EditorInv'
  BY <1>3, AnswerReadStep, AnswerLoadStep
<1>4. Lands => EditorInv'
  BY <1>1, <1>2, <1>3, RefreshDueStep, LookStep DEF Lands
<1>5. QED
  BY <1>4, UserStep, EditorUnchanged, NextCases

LEMMA EditorInvariant == EditorSpec => []EditorInv
BY EditorInitial, EditorInductive, PTL DEF EditorSpec

\* The page and the requests have their types, and the server's events their ends.
THEOREM EditorTypesCorrect == EditorSpec => []EditorTypeOK
<1>1. EditorInv => EditorTypeOK
  BY DEF EditorInv, EditorTypes, EditorTypeOK, Sound, Graph, Ends, Optional, Dialogs
<1>2. QED
  BY <1>1, EditorInvariant, PTL

\* When everything is answered the page shows the server's graph, and the details
\* panel the events of its node, but for the exceptions the property names.
THEOREM ViewCorrect == EditorSpec => []ViewIsCurrent
<1>1. ASSUME EditorInv PROVE GraphIsCurrent
  <2>1. ASSUME calls = {}, ~behind PROVE utg = graph
    <3>1. utg.ver = graph.ver
      BY <1>1, <2>1 DEF EditorInv, Reloads
    <3>2. QED
      BY <1>1, <3>1 DEF EditorInv, Versions, Snapshots
  <2>2. QED
    BY <2>1 DEF GraphIsCurrent, Quiet
<1>2. EditorInv => PanelIsCurrent
  BY DEF EditorInv, PanelFollows, PanelIsCurrent, Quiet
<1>3. EditorInv => ViewIsCurrent
  BY <1>1, <1>2 DEF ViewIsCurrent
<1>4. QED
  BY <1>3, EditorInvariant, PTL

LEMMA OnlyUsersSend ==
  ASSUME EditorInv, Lands \/ UNCHANGED editorVars
  PROVE  Sent = {}
<1>1. ASSUME NEW c \in calls, NEW e \in Sent,
             ServeEdit(c) \/ ServeRead(c) \/ Lose(c) \/ AnswerEdit(c)
      PROVE  FALSE
  <2>1. Call(c)
    BY DEF EditorInv, EditorTypes
  <2>2. \/ e = [c EXCEPT !.answer = "ok"] \/ e = [c EXCEPT !.answer = "fail"]
        \/ \E x : e = [c EXCEPT !.answer = "ok", !.got = x]
        \/ e = [c EXCEPT !.stage = "load", !.answer = "none"]
    BY <1>1 DEF Sent, ServeEdit, ServeRead, Lose, AnswerEdit, Replace
  <2>3. e.answer \in {"ok", "fail"} \/ e.stage = "load"
    BY <2>1, <2>2, CallShapes
  <2>4. QED
    BY <2>3 DEF Sent
<1>2. ASSUME NEW c \in calls,
             AnswerFailed(c) \/ AnswerBranch(c) \/ AnswerDeleted(c) \/ AnswerLoad(c)
      PROVE  calls' \subseteq calls
  BY <1>2 DEF AnswerFailed, AnswerBranch, AnswerDeleted, AnswerLoad
<1>3. (\E t \in timers : RefreshDue(t)) \/ Look \/ UNCHANGED editorVars => calls' = calls
  BY DEF RefreshDue, Look, clickNode, clickEdge, selectPreviousNode, selectNextNode, net, editorVars
<1>4. QED
  BY <1>1, <1>2, <1>3 DEF Lands, Sent

\* What a user's step sends: an event saved is the one the dialog shows, an event
\* deleted the one clicked.
Meant(c) ==
    /\ c.op = "update_event" => c.ask.event = dialog.event
    /\ c.op = "create_event" => c.ask.new.from = dialog.source
Clicked(c) == c.op = "delete_event" /\ confirm.ver = utg.ver => c.ask.event = confirm.event

LEMMA UsersSend ==
  ASSUME EditorInv, UserEdits, NEW c \in Sent
  PROVE  (~muddled => Meant(c)) /\ Clicked(c)
<1>1. \/ \E n \in Node : deleteBranch(n) \/ setFirstState(n)
      \/ openDeletedNodes \/ confirmed
      \/ \E from \in utg.nodes, to \in utg.nodes, str \in TypedStr \cup {dialog.event.str} :
             saveEdit(from, to, str)
      \/ \E to \in utg.nodes, str \in TypedStr : saveNew(to, str)
  <2>1. calls' # calls
    BY DEF Sent
  <2>2. QED
    BY <2>1 DEF UserEdits, deleteNode, deleteOutgoingEvent, refused, editNthEvent, editOutgoingEvent,
                addNewEvent, toggleDeletedNode, selectAllDeleted, askRestore, escape, net
<1>2. ASSUME NEW op, NEW ask, Send(op, ask) \/ SendRead(op, ask)
      PROVE  c.op = op /\ c.ask = ask
  BY <1>2 DEF Send, SendRead, Sent, Request
<1>3. ASSUME NEW n \in Node, deleteBranch(n) \/ setFirstState(n)
      PROVE  c.op \in {"branch", "mark"}
  BY <1>2, <1>3 DEF deleteBranch, setFirstState
<1>4. ASSUME openDeletedNodes PROVE c.op = "deleted"
  BY <1>2, <1>4 DEF openDeletedNodes
<1>5. ASSUME confirmed
      PROVE  /\ c.op \in {"delete_event", "delete_node", "delete_branch", "restore"}
             /\ Clicked(c)
  <2>1. calls' # calls
    BY DEF Sent
  <2>2. PICK op \in {"delete_event", "delete_node", "delete_branch", "restore"} :
           \E ask : /\ Send(op, ask)
                    /\ op = "delete_event" /\ confirm.ver = utg.ver => ask.event = confirm.event
    BY <1>5, <2>1, ConfirmedSends
  <2>3. QED
    BY <1>2, <2>2 DEF Clicked
<1>6. ASSUME NEW from, NEW to, NEW str, saveEdit(from, to, str)
      PROVE  c.op = "update_event" /\ (~muddled => c.ask.event = dialog.event)
  <2> DEFINE old == [from |-> editing.edge[1], to |-> editing.edge[2], str |-> editing.str]
             new == [from |-> from, to |-> to, str |-> str]
             ask == [Ask EXCEPT !.event = old, !.new = new]
  <2>1. dialog.kind = "edit" /\ editing.edge # Null /\ Send("update_event", ask)
    BY <1>6 DEF saveEdit, Sent
  <2>2. c.op = "update_event" /\ c.ask = ask
    <3> HIDE DEF ask
    <3>1. QED
      BY <1>2, <2>1
  <2>3. ask.event = old
    <3> HIDE DEF old, new
    <3>1. QED
      BY DEF Ask
  <2>4. ~muddled => dialog.event = old
    BY <2>1 DEF EditorInv, ShownIsKept
  <2>5. QED
    BY <2>2, <2>3, <2>4
<1>7. ASSUME NEW to, NEW str, saveNew(to, str)
      PROVE  c.op = "create_event" /\ (~muddled => c.ask.new.from = dialog.source)
  <2> DEFINE new == [from |-> editing.source, to |-> to, str |-> str]
             ask == [Ask EXCEPT !.new = new]
  <2>1. dialog.kind = "new" /\ Send("create_event", ask)
    BY <1>7 DEF saveNew
  <2>2. c.op = "create_event" /\ c.ask = ask
    <3> HIDE DEF ask
    <3>1. QED
      BY <1>2, <2>1
  <2>3. ask.new.from = editing.source
    BY DEF Ask
  <2>4. ~muddled => editing.source = dialog.source
    BY <2>1 DEF EditorInv, ShownIsKept
  <2>5. QED
    BY <2>2, <2>3, <2>4
<1>8. QED
  BY <1>1, <1>3, <1>4, <1>5, <1>6, <1>7 DEF Meant, Clicked

LEMMA StepsSend ==
  ASSUME EditorInv, [EditorNext]_editorVars, NEW c \in Sent
  PROVE  (~muddled => Meant(c)) /\ Clicked(c)
BY UsersSend, OnlyUsersSend, NextCases

\* A request to change an event names the event its dialog shows, and a new event
\* starts where its dialog says.
THEOREM SavesShown == EditorSpec => SavesWhatIsShown
<1>1. ASSUME EditorInv, [EditorNext]_editorVars
      PROVE  [\A c \in Sent : ~muddled =>
                /\ c.op = "update_event" => c.ask.event = dialog.event
                /\ c.op = "create_event" => c.ask.new.from = dialog.source]_editorVars
  BY <1>1, StepsSend DEF Meant
<1>2. QED
  BY <1>1, EditorInvariant, PTL DEF EditorSpec, SavesWhatIsShown

\* An event is deleted only if it is the one on the row the user clicked, unless the
\* graph was loaded again since: the id of a row names one event of a graph.
THEOREM DeletesClicked == EditorSpec => DeletesWhatWasClicked
<1>1. ASSUME EditorInv, [EditorNext]_editorVars
      PROVE  [\A c \in Sent : c.op = "delete_event" /\ confirm.ver = utg.ver =>
                c.ask.event = confirm.event]_editorVars
  BY <1>1, StepsSend DEF Clicked
<1>2. QED
  BY <1>1, EditorInvariant, PTL DEF EditorSpec, DeletesWhatWasClicked

==============================================================================
