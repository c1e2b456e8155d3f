-------------------------- MODULE SemanticCacheLRU --------------------------
(***************************************************************************)
(* SemanticCache with a record of when each entry was really used, to say  *)
(* what least-recently-used eviction means without a clock.  Steps are     *)
(* numbered by events; a use of an entry is an insertion or a lookup that  *)
(* hits, and lasts from the step that begins it to the step that ends it.  *)
(* The added variables are only read by the property below.                *)
(***************************************************************************)
EXTENDS SemanticCache

VARIABLES
    events,      \* how many steps that use an entry have been taken
    started,     \* started[t]: the event that began the lookup of thread t
    uses,        \* uses[i]: when the latest use of entries[i] began and ended
    lost         \* when the latest use of an evicted entry began, at most

historyVars == <<events, started, uses, lost>>

Later(m, n) == IF m > n THEN m ELSE n

InitLRU ==
    /\ Init
    /\ events = 1
    /\ started = [t \in Threads |-> 0]
    /\ uses = << >>
    /\ lost = 0

FindEntryLRU(t, want) ==
    /\ FindEntry(t, want)
    /\ started' = [started EXCEPT ![t] = events]
    /\ events' = events + 1
    /\ UNCHANGED <<uses, lost>>

TouchLRU(t) ==
    /\ Touch(t)
    /\ uses' = [uses EXCEPT ![lookup[t].index] =
                    [began |-> Later(@.began, started[t]), ended |-> events]]
    /\ events' = events + 1
    /\ UNCHANGED <<started, lost>>

InsertLRU(q, e, r) ==
    LET kept == IF IsFull(entries) THEN RemoveAt(uses, Victim(entries))
                                   ELSE uses
    IN  /\ Insert(q, e, r)
        /\ uses' = Append(kept, [began |-> events, ended |-> events])
        /\ lost' = IF IsFull(entries)
                   THEN Later(lost, uses[Victim(entries)].began)
                   ELSE lost
        /\ events' = events + 1
        /\ UNCHANGED started

NextLRU ==
    \/ \E t \in Threads :
          \/ \E want \in Queries \cup Embeddings :
                \/ FindNothing(t, want) /\ UNCHANGED historyVars
                \/ FindEntryLRU(t, want)
          \/ TouchLRU(t)
    \/ \E q \in Queries, e \in Embeddings, r \in Responses : InsertLRU(q, e, r)

SpecLRU == InitLRU /\ [][NextLRU]_<<vars, historyVars>>

-----------------------------------------------------------------------------
(* Least recently used: when an entry is evicted, no entry that stays had  *)
(* all its uses over before the evicted one's latest use began.  It is an  *)
(* invariant because uses only move forward.                               *)
LeastRecentlyUsed == \A i \in DOMAIN uses : uses[i].ended >= lost
=============================================================================
