------------------------------ MODULE UTGCache ------------------------------
(***************************************************************************)
(* The UTG cache of UTGServiceV2 (services/utg_service_v2.py).  One entry  *)
(* per dataset holds the UTG object loaded from the dataset's utg.json,    *)
(* the mtime the file had and an RLock of its own; _cache_lock protects    *)
(* the map.  The event loop serves every HTTP route (one thread, since the *)
(* handlers never await), each recording runs in a thread of its own.      *)
(*                                                                         *)
(* A step is what a thread does between two acquisitions of a lock.  UTG   *)
(* objects and files are abstracted to the set of edits they contain, an   *)
(* mtime to the number of times the file was written.  UTG.load_utg and    *)
(* UTG.save2dir take the dataset's file lock, so each is one step.         *)
(***************************************************************************)
EXTENDS Naturals, Sequences, FiniteSets, SequencesExt

CONSTANTS
    Dataset,       \* directories under DATA_DIR
    Existing,      \* the datasets that have a utg.json at the start
    Fresh,         \* the directories new recordings will create
    Thread,        \* the event loop and the recording threads
    Operations,    \* Operations[t]: the kinds of operation thread t runs
    None,
    MaxCacheSize,  \* UTG_CACHE_MAX_SIZE
    TTLPasses,     \* whether entries may grow older than UTG_CACHE_TTL
    SaveMayFail,   \* whether writing utg.json may raise (the file lock times out)
    MaxEdits,      \* bound: edits that reach the file
    MaxLoads       \* bound: UTG objects loaded or created

OperationKind == {"read", "edit", "create"}

ASSUME DatasetAssumption ==
    /\ Existing \subseteq Dataset /\ Fresh \subseteq Dataset \ Existing
    /\ None \notin Dataset
ASSUME ThreadAssumption ==
    None \notin Thread /\ Operations \in [Thread -> SUBSET OperationKind]
ASSUME SizeAssumption == MaxCacheSize \in Nat \ {0}
ASSUME ModeAssumption == {TTLPasses, SaveMayFail} \subseteq BOOLEAN
ASSUME BoundAssumption == MaxEdits \in Nat /\ MaxLoads \in Nat

VARIABLES
    cache,       \* _cache: for each dataset its entry, or None
    order,       \* the cached datasets, the least recently accessed first
    cache_lock,  \* the thread that holds _cache_lock
    objects,     \* every UTG object made, with its edits and its entry's lock
    files,       \* utg.json of each dataset: written how often, with which edits
    pc,          \* what each thread does next
    call,        \* the locals of the operation each thread is in
    done,        \* the edits reported successful, for each dataset
    raced        \* history: the datasets an edit of which locked an object that
                 \* was no longer the cached one

vars == <<cache, order, cache_lock, objects, files, pc, call, done, raced>>

Object == 1..MaxLoads
Edit == 1..MaxEdits
Entry == [object : Object, mtime : Nat, old : BOOLEAN]
ASSUME NoneAssumption == None \notin Entry
Idle == [op |-> None, dataset |-> None, object |-> None, mtime |-> 0, expired |-> {}]

Init ==
    /\ cache = [d \in Dataset |-> None] /\ order = <<>> /\ cache_lock = None
    /\ objects = <<>>
    /\ files = [d \in Dataset |-> [mtime |-> IF d \in Existing THEN 1 ELSE 0,
                                   edits |-> {}]]
    /\ pc = [t \in Thread |-> "idle"]
    /\ call = [t \in Thread |-> Idle]
    /\ done = [d \in Dataset |-> {}] /\ raced = {}

-----------------------------------------------------------------------------
Cached == {d \in Dataset : cache[d] # None}
CachedObject(d) == cache[d].object
IsValid(d, mtime) == ~cache[d].old /\ cache[d].mtime = mtime

\* Both kinds of lock are reentrant: a thread does not wait for itself.
LockFree(t) == cache_lock \in {None, t}
EntryFree(t, o) == objects[o].lock \in {None, t}

Goto(t, label) == pc' = [pc EXCEPT ![t] = label]
Return(t) == Goto(t, "idle") /\ call' = [call EXCEPT ![t] = Idle]
Touched(d) == Append(Remove(order, d), d)

\* Mutant: an entry is removed under its holder.
EvictAtOnce(t, d) ==
    /\ cache' = [cache EXCEPT ![d] = None]
    /\ order' = Remove(order, d)

\* Removing an entry waits for the entry's lock.
Evict(t, d) ==
    /\ EntryFree(t, CachedObject(d))
    /\ cache' = [cache EXCEPT ![d] = None]
    /\ order' = Remove(order, d)

-----------------------------------------------------------------------------
(* The operations start.                                                   *)

\* Nobody knows the name of a new recording's directory before its UTG is
\* created and cached.
Known(d) ==
    d \in Fresh => /\ files[d].mtime # 0
                  /\ \A t \in Thread : pc[t] = "insert" => call[t].dataset # d

Begin(t, op, d, label) ==
    /\ pc[t] = "idle" /\ op \in Operations[t] /\ Known(d)
    /\ Goto(t, label)
    /\ call' = [call EXCEPT ![t].op = op, ![t].dataset = d]
    /\ UNCHANGED <<cache, order, cache_lock, objects, files, done, raced>>

BeginRead(t, d) == Begin(t, "read", d, "stat")
BeginEdit(t, d) == Begin(t, "edit", d, "lookup")

\* create_new_utg_sync: an empty UTG is written to a directory of its own.
BeginCreate(t, d) ==
    /\ pc[t] = "idle" /\ "create" \in Operations[t]
    /\ d \in Fresh /\ files[d].mtime = 0
    /\ Len(objects) < MaxLoads
    /\ objects' = Append(objects, [dataset |-> d, edits |-> {}, lock |-> None])
    /\ files' = [files EXCEPT ![d].mtime = 1]
    /\ call' = [call EXCEPT ![t].op = "create", ![t].dataset = d,
                            ![t].object = Len(objects) + 1, ![t].mtime = 1]
    /\ Goto(t, "insert")
    /\ UNCHANGED <<cache, order, cache_lock, done, raced>>

\* _get_utg_with_lock, first part: the entry as it is, valid or not.
Lookup(t) ==
    LET d == call[t].dataset IN
    /\ pc[t] = "lookup" /\ LockFree(t)
    /\ IF d \in Cached
       THEN /\ call' = [call EXCEPT ![t].object = CachedObject(d)]
            /\ Goto(t, "acquire")
       ELSE Goto(t, "stat") /\ UNCHANGED call
    /\ UNCHANGED <<cache, order, cache_lock, objects, files, done, raced>>

-----------------------------------------------------------------------------
(* _load_utg_object.                                                       *)

Stat(t) ==
    /\ pc[t] = "stat"
    /\ call' = [call EXCEPT ![t].mtime = files[call[t].dataset].mtime]
    /\ Goto(t, "cleanup")
    /\ UNCHANGED <<cache, order, cache_lock, objects, files, done, raced>>

\* _cleanup_expired_cache: the invalid entries are listed, then evicted one
\* by one, with _cache_lock held all the while.
CleanupExpiredCache(t) ==
    /\ pc[t] = "cleanup" /\ LockFree(t)
    /\ cache_lock' = t
    /\ call' = [call EXCEPT ![t].expired =
                    {d \in Cached : ~IsValid(d, files[d].mtime)}]
    /\ Goto(t, "evict")
    /\ UNCHANGED <<cache, order, objects, files, done, raced>>

EvictExpired(t) ==
    /\ pc[t] = "evict"
    /\ \E d \in call[t].expired :
         /\ Evict(t, d)
         /\ call' = [call EXCEPT ![t].expired = @ \ {d}]
    /\ UNCHANGED <<cache_lock, objects, files, pc, done, raced>>

CleanupDone(t) ==
    /\ pc[t] = "evict" /\ call[t].expired = {}
    /\ cache_lock' = None
    /\ Goto(t, "check")
    /\ UNCHANGED <<cache, order, objects, files, call, done, raced>>

\* The load is over: a read has its object, an edit looks the entry up again.
Loaded(t) ==
    IF call[t].op = "edit" THEN Goto(t, "relookup") /\ UNCHANGED call
                           ELSE Return(t)

Hit(t) ==
    LET d == call[t].dataset IN
    /\ pc[t] = "check" /\ LockFree(t)
    /\ d \in Cached /\ IsValid(d, call[t].mtime)
    /\ order' = Touched(d)
    /\ Loaded(t)
    /\ UNCHANGED <<cache, cache_lock, objects, files, done, raced>>

\* Mutant: an invalid entry is replaced without waiting for its holder.
MissReplaces(t) ==
    LET d == call[t].dataset IN
    /\ pc[t] = "check" /\ LockFree(t)
    /\ ~(d \in Cached /\ IsValid(d, call[t].mtime))
    /\ cache_lock' = t
    /\ Goto(t, "load")
    /\ UNCHANGED <<cache, order, objects, files, call, done, raced>>

Miss(t) ==
    LET d == call[t].dataset IN
    /\ pc[t] = "check" /\ LockFree(t)
    /\ ~(d \in Cached /\ IsValid(d, call[t].mtime))
    /\ cache_lock' = t
    /\ Goto(t, IF d \in Cached THEN "invalidate" ELSE "load")
    /\ UNCHANGED <<cache, order, objects, files, call, done, raced>>

Invalidate(t) ==
    /\ pc[t] = "invalidate"
    /\ Evict(t, call[t].dataset)
    /\ Goto(t, "load")
    /\ UNCHANGED <<cache_lock, objects, files, call, done, raced>>

LoadNothing(t) ==
    /\ pc[t] = "load" /\ files[call[t].dataset].mtime = 0
    /\ cache_lock' = None
    /\ Return(t)
    /\ UNCHANGED <<cache, order, objects, files, done, raced>>

\* The new entry carries the mtime read before the load.
Load(t) ==
    LET d == call[t].dataset IN
    /\ pc[t] = "load" /\ files[d].mtime # 0
    /\ Len(objects) < MaxLoads
    /\ objects' = Append(objects, [dataset |-> d, edits |-> files[d].edits,
                                   lock |-> None])
    /\ cache' = [cache EXCEPT ![d] = [object |-> Len(objects) + 1,
                                      mtime |-> call[t].mtime, old |-> FALSE]]
    /\ order' = Touched(d)
    /\ Goto(t, "limit")
    /\ UNCHANGED <<cache_lock, files, call, done, raced>>

\* create_new_utg_sync puts its entry without looking at the one it replaces.
Insert(t) ==
    LET d == call[t].dataset IN
    /\ pc[t] = "insert" /\ LockFree(t)
    /\ cache_lock' = t
    /\ cache' = [cache EXCEPT ![d] = [object |-> call[t].object,
                                      mtime |-> call[t].mtime, old |-> FALSE]]
    /\ order' = Touched(d)
    /\ Goto(t, "limit")
    /\ UNCHANGED <<objects, files, call, done, raced>>

\* _enforce_cache_size_limit, with _cache_lock held (it is an RLock).
EvictOldest(t) ==
    /\ pc[t] = "limit" /\ Cardinality(Cached) > MaxCacheSize
    /\ Evict(t, Head(order))
    /\ UNCHANGED <<cache_lock, objects, files, pc, call, done, raced>>

WithinLimit(t) ==
    /\ pc[t] = "limit" /\ Cardinality(Cached) <= MaxCacheSize
    /\ cache_lock' = None
    /\ Loaded(t)
    /\ UNCHANGED <<cache, order, objects, files, done, raced>>

-----------------------------------------------------------------------------
(* _get_utg_with_lock, second part, and the edit under the entry's lock.   *)

Relookup(t) ==
    LET d == call[t].dataset IN
    /\ pc[t] = "relookup" /\ LockFree(t)
    /\ IF d \in Cached
       THEN /\ call' = [call EXCEPT ![t].object = CachedObject(d)]
            /\ Goto(t, "acquire")
       ELSE Return(t)
    /\ UNCHANGED <<cache, order, cache_lock, objects, files, done, raced>>

\* Mutant: the object is edited without its lock.
EditUnlocked(t) ==
    LET d == call[t].dataset IN
    /\ pc[t] = "acquire"
    /\ raced' = IF d \in Cached /\ CachedObject(d) = call[t].object
                THEN raced ELSE raced \cup {d}
    /\ Goto(t, "apply")
    /\ UNCHANGED <<cache, order, cache_lock, objects, files, call, done>>

\* The thread has let go of _cache_lock since it found its object, so that the
\* object may have been evicted, and the dataset loaded again, by now.
Acquire(t) ==
    LET d == call[t].dataset
        o == call[t].object IN
    /\ pc[t] = "acquire" /\ EntryFree(t, o)
    /\ objects' = [objects EXCEPT ![o].lock = t]
    /\ raced' = IF d \in Cached /\ CachedObject(d) = o THEN raced ELSE raced \cup {d}
    /\ Goto(t, "apply")
    /\ UNCHANGED <<cache, order, cache_lock, files, call, done>>

NewEdit == Cardinality(UNION {objects[o].edits : o \in DOMAIN objects}) + 1

\* The object is changed and written to its file.
ApplyAndSave(t) ==
    LET d == call[t].dataset
        o == call[t].object
        edits == objects[o].edits \cup {NewEdit} IN
    /\ pc[t] = "apply"
    /\ NewEdit \in Edit
    /\ objects' = [objects EXCEPT ![o].edits = edits]
    /\ files' = [files EXCEPT ![d] = [mtime |-> @.mtime + 1, edits |-> edits]]
    /\ Goto(t, "stamp")
    /\ UNCHANGED <<cache, order, cache_lock, call, done, raced>>

\* The node, the event or the state is not there: nothing changes.
EditFails(t) ==
    /\ pc[t] = "apply"
    /\ objects' = [objects EXCEPT ![call[t].object].lock = None]
    /\ Return(t)
    /\ UNCHANGED <<cache, order, cache_lock, files, done, raced>>

\* The object keeps a change that did not reach the file.
SaveFails(t) ==
    LET o == call[t].object IN
    /\ pc[t] = "apply" /\ SaveMayFail
    /\ NewEdit \in Edit
    /\ objects' = [objects EXCEPT ![o].edits = @ \cup {NewEdit}, ![o].lock = None]
    /\ Return(t)
    /\ UNCHANGED <<cache, order, cache_lock, files, done, raced>>

\* _update_cache_mtime stamps whatever entry the dataset has by now.
Stamp(t) ==
    LET d == call[t].dataset IN
    /\ pc[t] = "stamp" /\ LockFree(t)
    /\ cache' = IF d \in Cached
                THEN [cache EXCEPT ![d].mtime = files[d].mtime] ELSE cache
    /\ Goto(t, "release")
    /\ UNCHANGED <<order, cache_lock, objects, files, call, done, raced>>

Release(t) ==
    LET o == call[t].object IN
    /\ pc[t] = "release"
    /\ objects' = [objects EXCEPT ![o].lock = None]
    /\ done' = [done EXCEPT ![call[t].dataset] = @ \cup objects[o].edits]
    /\ Return(t)
    /\ UNCHANGED <<cache, order, cache_lock, files, raced>>

\* An entry outlives UTG_CACHE_TTL.
GrowOld(d) ==
    /\ TTLPasses /\ d \in Cached /\ ~cache[d].old
    /\ cache' = [cache EXCEPT ![d].old = TRUE]
    /\ UNCHANGED <<order, cache_lock, objects, files, pc, call, done, raced>>

-----------------------------------------------------------------------------
Start(t) == \E d \in Dataset : BeginRead(t, d) \/ BeginEdit(t, d) \/ BeginCreate(t, d)

Continue(t) ==
    \/ Lookup(t) \/ Stat(t)
    \/ CleanupExpiredCache(t) \/ EvictExpired(t) \/ CleanupDone(t)
    \/ Hit(t) \/ Miss(t) \/ Invalidate(t) \/ LoadNothing(t) \/ Load(t)
    \/ Insert(t) \/ EvictOldest(t) \/ WithinLimit(t)
    \/ Relookup(t) \/ Acquire(t) \/ ApplyAndSave(t) \/ EditFails(t) \/ SaveFails(t)
    \/ Stamp(t) \/ Release(t)

Next ==
    \/ \E t \in Thread : Start(t) \/ Continue(t)
    \/ \E d \in Dataset : GrowOld(d)

Spec == Init /\ [][Next]_vars

\* The threads are scheduled; nothing is assumed of who gets a lock.
FairSpec == Spec /\ \A t \in Thread : WF_vars(Continue(t))
-----------------------------------------------------------------------------
TypeOK ==
    /\ cache \in [Dataset -> Entry \cup {None}]
    /\ order \in Seq(Dataset) /\ ToSet(order) = Cached
    /\ cache_lock \in Thread \cup {None}
    /\ objects \in Seq([dataset : Dataset, edits : SUBSET Edit,
                        lock : Thread \cup {None}])
    /\ files \in [Dataset -> [mtime : Nat, edits : SUBSET Edit]]
    /\ done \in [Dataset -> SUBSET Edit]
    /\ raced \subseteq Dataset

\* Evicting an entry, or replacing its object, waits for whoever holds the
\* entry's lock: no step takes an object out of the cache while an edit of it
\* is under way.
EvictionWaits ==
    [][\A d \in Cached :
         cache'[d] = None \/ cache'[d].object # CachedObject(d)
            => objects[CachedObject(d)].lock = None]_vars

\* Whichever threads edit a dataset, load and evict it, an edit reported
\* successful stays in its utg.json.  The one way to lose an edit is a race of
\* _get_utg_with_lock with an eviction: some edit of the dataset looked up an
\* object, and locked it after it had been evicted.
NoLostUpdate == \A d \in Dataset \ raced : done[d] \subseteq files[d].edits

\* Under the same races only, an entry of the cache is older than its file, so
\* that a read of it shows an older graph.  It is newer only by an edit whose
\* save failed.
CacheIsCurrent ==
    \A d \in Cached \ raced :
        LET kept == objects[CachedObject(d)].edits IN
        /\ files[d].edits \subseteq kept
        /\ SaveMayFail \/ kept \subseteq files[d].edits

\* An eviction waits for the operations under way ("acquire the entry's lock
\* and wait for all operations to complete"), so that it ends as they do.
EvictionEnds ==
    \A t \in Thread :
        pc[t] \in {"evict", "invalidate", "limit"}
            ~> pc[t] \notin {"evict", "invalidate", "limit"}
=============================================================================
