--------------------------- MODULE SemanticCache ---------------------------
(***************************************************************************)
(* The semantic cache of src/engines/cache.rs, shared by every request of  *)
(* the server: a RwLock around a vector of entries, each of which carries  *)
(* an atomic last_accessed stamp.                                          *)
(*                                                                         *)
(* Lookups run under the READ lock, several at a time.  A lookup that hits *)
(* reads the wall clock and then stores the stamp: two steps, between      *)
(* which other lookups may do the same to the same entry.  Insertions run  *)
(* under the WRITE lock, alone, and are one step.                          *)
(*                                                                         *)
(* SystemTime is not monotonic and two reads may return the same value, so *)
(* how it moves is a parameter: ClockSteps = {1} is a clock that always    *)
(* advances between two reads, {0, 1} one that may stand still, and a      *)
(* negative member one that is set back.                                   *)
(***************************************************************************)
EXTENDS CacheLookup

CONSTANTS
    Threads,     \* the tasks that share the cache
    Responses,   \* serialized responses
    Nothing,     \* what a lookup that finds nothing returns
    ClockSteps,  \* how far the clock may move between two reads of it
    MaxClock     \* bound on the clock

ASSUME CacheAssumption ==
    /\ Queries \cap Embeddings = {}
    /\ Nothing \notin Responses
    /\ ClockSteps \subseteq Int
    /\ MaxClock \in Nat

VARIABLES
    entries,     \* the Vec<CacheEntry>
    lookup,      \* lookup[t]: the hit thread t is about to stamp, if any
    reply,       \* reply[t]: what the latest lookup of thread t returned
    clock        \* the latest value current_epoch_nanos returned

vars == <<entries, lookup, reply, clock>>

Idle == [index |-> 0]     \* a thread that holds no lock

-----------------------------------------------------------------------------
(* The lock.  A thread with a pending lookup is a reader of the RwLock; an *)
(* insertion is one step, so no state has a writer in it.                  *)
Readers == {t \in Threads : lookup[t] # Idle}

(* current_epoch_nanos: the values the next read of the clock may return.  *)
Now == {clock + d : d \in ClockSteps} \cap (0 .. MaxClock)

(* The entry a lookup for a query or for an embedding finds. *)
Find(es, want) ==
    IF want \in Queries THEN ExactIndex(es, want) ELSE SimilarIndex(es, want)

(* Mutant of Victim: the entry inserted first goes, used lately or not. *)
FirstIn(es) == 1

(* min_by_key keeps the first of several minima. *)
Victim(es) ==
    Min({i \in DOMAIN es : \A j \in DOMAIN es :
            es[i].last_accessed <= es[j].last_accessed})

(* Mutant of Store: an entry too many is kept. *)
StoreOneTooMany(es, x) ==
    Append(IF Len(es) > Capacity THEN RemoveAt(es, Victim(es)) ELSE es, x)

(* The body of insert: make room in a full cache, then push. *)
Store(es, x) ==
    Append(IF IsFull(es) THEN RemoveAt(es, Victim(es)) ELSE es, x)

-----------------------------------------------------------------------------
Init ==
    /\ entries = << >>
    /\ lookup = [t \in Threads |-> Idle]
    /\ reply = [t \in Threads |-> Nothing]
    /\ clock = 0

(* The scan of the entries ends without a match: the lock is released. *)
FindNothing(t, want) ==
    /\ lookup[t] = Idle
    /\ Find(entries, want) = 0
    /\ reply' = [reply EXCEPT ![t] = Nothing]
    /\ UNCHANGED <<entries, lookup, clock>>

(* Mutant of FindEntry: that there is a match is not checked. *)
FindEntryUnchecked(t, want) ==
    /\ lookup[t] = Idle
    /\ \E now \in Now :
          /\ lookup' = [lookup EXCEPT ![t] = [index |-> Find(entries, want),
                                              want  |-> want,
                                              stamp |-> now]]
          /\ clock' = now
    /\ UNCHANGED <<entries, reply>>

(* The scan ends with a match: the clock is read, the lock is kept. *)
FindEntry(t, want) ==
    /\ lookup[t] = Idle
    /\ Find(entries, want) # 0
    /\ \E now \in Now :
          /\ lookup' = [lookup EXCEPT ![t] = [index |-> Find(entries, want),
                                              want  |-> want,
                                              stamp |-> now]]
          /\ clock' = now
    /\ UNCHANGED <<entries, reply>>

GetExact(t, q)   == FindNothing(t, q) \/ FindEntry(t, q)
GetSimilar(t, e) == FindNothing(t, e) \/ FindEntry(t, e)

(* The stamp is stored, the response cloned and the read lock released. *)
Touch(t) ==
    /\ lookup[t] # Idle
    /\ entries' = [entries EXCEPT ![lookup[t].index].last_accessed =
                                        lookup[t].stamp]
    /\ reply' = [reply EXCEPT ![t] = entries[lookup[t].index].response]
    /\ lookup' = [lookup EXCEPT ![t] = Idle]
    /\ UNCHANGED clock

(* Mutant of Insert: the entries change under the readers. *)
InsertUnlocked(q, e, r) ==
    /\ \E now \in Now :
          /\ entries' = Store(entries, [query         |-> q,
                                        embedding     |-> e,
                                        response      |-> r,
                                        last_accessed |-> now])
          /\ clock' = now
    /\ UNCHANGED <<lookup, reply>>

Insert(q, e, r) ==
    /\ Readers = {}
    /\ \E now \in Now :
          /\ entries' = Store(entries, [query         |-> q,
                                        embedding     |-> e,
                                        response      |-> r,
                                        last_accessed |-> now])
          /\ clock' = now
    /\ UNCHANGED <<lookup, reply>>

Next ==
    \/ \E t \in Threads :
          \/ \E q \in Queries : GetExact(t, q)
          \/ \E e \in Embeddings : GetSimilar(t, e)
          \/ Touch(t)
    \/ \E q \in Queries, e \in Embeddings, r \in Responses : Insert(q, e, r)

Spec == Init /\ [][Next]_vars

-----------------------------------------------------------------------------
Entry == [query : Queries, embedding : Embeddings, response : Responses,
          last_accessed : 0 .. MaxClock]

Pending == [index : Nat \ {0}, want : Queries \cup Embeddings,
            stamp : 0 .. MaxClock]

TypeOK ==
    /\ entries \in Seq(Entry)
    /\ lookup \in [Threads -> Pending \cup {Idle}]
    /\ reply \in [Threads -> Responses \cup {Nothing}]
    /\ clock \in 0 .. MaxClock

(***************************************************************************)
(* Safety.                                                                 *)
(***************************************************************************)

(* The cache never holds more entries than its capacity, except that a     *)
(* cache of capacity 0 still keeps the latest entry: insert evicts only    *)
(* when there is something to evict, and pushes in any case.               *)
CapacityBound == Len(entries) <= Capacity \/ Len(entries) = 1

(* A lookup that has found its entry still designates the entry a fresh    *)
(* scan would find, however many other lookups and insertions were started *)
(* since: the read lock is held from the scan to the end, so no insertion  *)
(* can remove or shift the entry between the match and the stamp.          *)
PendingValid ==
    \A t \in Readers : lookup[t].index = Find(entries, lookup[t].want)

(***************************************************************************)
(* The cache implements its contract: split lookups that overlap still     *)
(* look atomic, and only a full cache loses an entry, one per insertion    *)
(* and never the one being inserted.                                       *)
(***************************************************************************)
Contract == INSTANCE CacheContract WITH store <- Contents(entries)

(* Every step of the cache is a step, or a stutter, of CacheContract.      *)
ImplementsContract == Contract!Spec
=============================================================================
