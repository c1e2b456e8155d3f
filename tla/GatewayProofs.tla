---------------------------- MODULE GatewayProofs ----------------------------
(***************************************************************************)
(* Proofs about Gateway, for any number of requests, any limit and any     *)
(* number of posts.  RouteBound and ShedOnlyWhenFull rest on Conserved:    *)
(* the permits left of a route and the requests admitted to it add up to   *)
(* the limit.  DrainedAtExit rests on DoorsHeld: the door of a request in  *)
(* flight is not closed.  The refinement of SemanticCourse needs no more   *)
(* than the types.                                                         *)
(***************************************************************************)
EXTENDS Gateway, FiniteSetTheorems, TLAPS

Awaits == Prompting \cup OpenEnded \cup {"probing", "embedding", "rescanning"}

(* Where a request holds a permit, if its route has any. *)
Within == Awaits \ {"arriving", "replying"}

Conserved ==
    \A route \in Routes :
        /\ IsFiniteSet(On(route))
        /\ permits[route] + Cardinality(On(route)) = Limit

DoorsHeld == \A r \in InFlight : door[DoorOf(entry[r])] \in {"open", "draining"}

ExitedEmpty ==
    process = "exited" => jobs = {} /\ \A d \in Doors : door[d] = "closed"

(* SQL is only asked for after the model routed the question. *)
WritingHeard == \A r \in Requests : pc[r] = "writing" => r \in heard

GatewayInv ==
    /\ TypeOK
    /\ OutageDegrades
    /\ Conserved
    /\ DoorsHeld
    /\ ExitedEmpty
    /\ WritingHeard

-----------------------------------------------------------------------------
LEMMA Stages ==
  /\ Awaits \cap (Over \cup {"idle"}) = {}
  /\ TypeOK => \A r \in Requests : /\ r \in InFlight <=> pc[r] \in Awaits
                                   /\ r \in Admitted <=> pc[r] \in Within
BY DEF Awaits, Within, OpenEnded, Over, Prompting, InFlight, Admitted, TypeOK

LEMMA DoorsOfEntries == \A e : DoorOf(e) \in Doors
BY DEF DoorOf, Doors

(* A request that is admitted takes a permit of its route, one that leaves *)
(* gives back what it has; others have no part in it.                      *)
LEMMA Same ==
  ASSUME Conserved, Admitted' = Admitted, entry' = entry, permits' = permits
  PROVE  Conserved'
<1>1. \A route : On(route)' = On(route)
  BY DEF On
<1> QED BY <1>1 DEF Conserved

LEMMA Leaving ==
  ASSUME TypeOK, Conserved, NEW r, Admitted' = Admitted \ {r},
         entry' = entry, Release(r)
  PROVE  Conserved'
<1> SUFFICES ASSUME NEW route \in Routes
             PROVE  /\ IsFiniteSet(On(route)')
                    /\ permits'[route] + Cardinality(On(route)') = Limit
  BY DEF Conserved
<1>1. /\ IsFiniteSet(On(route))
      /\ permits[route] + Cardinality(On(route)) = Limit
      /\ permits[route] \in Int /\ Limit \in Nat
  BY GatewayAssumption DEF Conserved, TypeOK
<1>2. On(route)' = On(route) \ {r}
  BY DEF On
<1>3. CASE r \in On(route)
  <2>1. /\ IsFiniteSet(On(route) \ {r})
        /\ Cardinality(On(route) \ {r}) = Cardinality(On(route)) - 1
    BY <1>1, <1>3, FS_RemoveElement
  <2>2. permits'[route] = permits[route] + 1
    BY <1>3 DEF Release
  <2>3. Cardinality(On(route)) \in Nat
    BY <1>1, FS_CardinalityType
  <2> QED BY <1>1, <1>2, <2>1, <2>2, <2>3
<1>4. CASE r \notin On(route)
  <2>1. On(route)' = On(route)
    BY <1>2, <1>4
  <2>2. permits'[route] = permits[route]
    BY <1>4 DEF Release
  <2> QED BY <1>1, <2>1, <2>2
<1> QED BY <1>3, <1>4

LEMMA Entering ==
  ASSUME TypeOK, Conserved, NEW r \in Requests, r \notin Admitted,
         Admitted' = Admitted \cup {r}, entry' = entry,
         permits' = [route \in Routes |->
                       IF route = entry[r] THEN permits[route] - 1 ELSE permits[route]]
  PROVE  Conserved'
<1> SUFFICES ASSUME NEW route \in Routes
             PROVE  /\ IsFiniteSet(On(route)')
                    /\ permits'[route] + Cardinality(On(route)') = Limit
  BY DEF Conserved
<1>1. /\ IsFiniteSet(On(route))
      /\ permits[route] + Cardinality(On(route)) = Limit
      /\ permits[route] \in Int /\ Limit \in Nat
  BY GatewayAssumption DEF Conserved, TypeOK
<1>2. CASE route = entry[r]
  <2>1. r \notin On(route) /\ On(route)' = On(route) \cup {r}
    BY <1>2 DEF On
  <2>2. /\ IsFiniteSet(On(route) \cup {r})
        /\ Cardinality(On(route) \cup {r}) = Cardinality(On(route)) + 1
    BY <1>1, <2>1, FS_AddElement
  <2>3. permits'[route] = permits[route] - 1
    BY <1>2
  <2>4. Cardinality(On(route)) \in Nat
    BY <1>1, FS_CardinalityType
  <2> QED BY <1>1, <2>1, <2>2, <2>3, <2>4
<1>3. CASE route # entry[r]
  <2>1. On(route)' = On(route)
    BY <1>3 DEF On
  <2>2. permits'[route] = permits[route]
    BY <1>3
  <2> QED BY <1>1, <2>1, <2>2
<1> QED BY <1>2, <1>3

(* So the permits left stay between none and the limit. *)
LEMMA PermitRange ==
  ASSUME Conserved, NEW route \in Routes, permits[route] \in Int
  PROVE  permits[route] <= Limit /\ Cardinality(On(route)) = Limit - permits[route]
<1>1. /\ Cardinality(On(route)) \in Nat /\ Limit \in Nat
      /\ permits[route] + Cardinality(On(route)) = Limit
  BY FS_CardinalityType, GatewayAssumption DEF Conserved
<1> QED BY <1>1

-----------------------------------------------------------------------------
(* The invariant holds at the start: no request is in flight.              *)
LEMMA InitGatewayInv == Init => GatewayInv
<1> SUFFICES ASSUME Init PROVE GatewayInv
  OBVIOUS
<1>1. InFlight = {} /\ Admitted = {}
  BY DEF Init, InFlight, Admitted
<1>2. TypeOK
  <2>1. posted \in [Requests -> 0 .. Posts - 1] /\ permits \in [Routes -> 0 .. Limit]
    BY GatewayAssumption DEF Init
  <2>2. pc \in [Requests -> Prompting \cup Over \cup OpenEnded \cup
                 {"idle", "probing", "embedding", "rescanning"}]
    BY DEF Init
  <2> QED BY <2>1, <2>2 DEF Init, TypeOK
<1>3. Conserved
  <2>1. \A route : On(route) = {}
    BY <1>1 DEF On
  <2>2. IsFiniteSet({}) /\ Cardinality({}) = 0
    BY FS_EmptySet
  <2>3. \A route \in Routes : permits[route] = Limit
    BY DEF Init
  <2> QED BY <2>1, <2>2, <2>3, GatewayAssumption DEF Conserved
<1>4. DoorsHeld /\ ExitedEmpty /\ WritingHeard /\ OutageDegrades
  BY <1>1 DEF Init, DoorsHeld, ExitedEmpty, WritingHeard, OutageDegrades
<1> QED BY <1>2, <1>3, <1>4 DEF GatewayInv

(* The process and its doors move: a door closes only when nothing is in   *)
(* flight behind it, and the process exits only after that.                *)
LEMMA LifecycleInv ==
  ASSUME GatewayInv, Lifecycle \/ Signal
  PROVE  GatewayInv'
<1>1. /\ pc' = pc /\ entry' = entry /\ posted' = posted /\ permits' = permits
      /\ jobs' = jobs /\ reply' = reply /\ heard' = heard /\ broke' = broke
  BY DEF Lifecycle, Signal, Boot, Exit, Notice, Close, tasks, history
<1>2. InFlight' = InFlight /\ Admitted' = Admitted
  BY <1>1 DEF InFlight, Admitted
<1>3. TypeOK'
  <2>1. /\ process' \in {"up", "exited", "failed"}
        /\ door' \in [Doors -> {"booting", "open", "draining", "closed"}]
        /\ signalled' \in BOOLEAN /\ told' \in [Doors -> BOOLEAN]
    BY DEF GatewayInv, TypeOK, Lifecycle, Signal, Boot, Exit, Notice, Close, tasks
  <2> QED BY <1>1, <2>1 DEF GatewayInv, TypeOK
<1>4. Conserved'
  BY <1>1, <1>2, Same DEF GatewayInv
<1>5. OutageDegrades' /\ WritingHeard'
  BY <1>1 DEF GatewayInv, OutageDegrades, WritingHeard
<1>6. DoorsHeld'
  <2> SUFFICES ASSUME NEW r \in InFlight
               PROVE  door'[DoorOf(entry[r])] \in {"open", "draining"}
    BY <1>1, <1>2 DEF DoorsHeld
  <2>1. /\ door[DoorOf(entry[r])] \in {"open", "draining"}
        /\ DoorOf(entry[r]) \in Doors
    BY DoorsOfEntries DEF GatewayInv, DoorsHeld
  <2>2. CASE Boot
    BY <2>1, <2>2 DEF Boot
  <2>3. ASSUME NEW d \in Doors, Notice(d)
        PROVE  door'[DoorOf(entry[r])] \in {"open", "draining"}
    BY <2>1, <2>3 DEF Notice, GatewayInv, TypeOK
  <2>4. ASSUME NEW d \in Doors, Close(d)
        PROVE  door'[DoorOf(entry[r])] \in {"open", "draining"}
    BY <2>1, <2>4 DEF Close, GatewayInv, TypeOK
  <2>5. CASE Exit \/ Signal
    BY <2>1, <2>5 DEF Exit, Signal
  <2> QED BY <2>2, <2>3, <2>4, <2>5 DEF Lifecycle
<1>7. ExitedEmpty'
  BY <1>1 DEF GatewayInv, ExitedEmpty, Lifecycle, Signal, Boot, Exit, Notice, Close,
              tasks
<1> QED BY <1>3, <1>4, <1>5, <1>6, <1>7 DEF GatewayInv

(* A process that exited has nothing in flight any more. *)
LEMMA UpWhileInFlight ==
  ASSUME GatewayInv, InFlight # {}
  PROVE  process # "exited"
<1>1. PICK r \in InFlight : TRUE
  OBVIOUS
<1>2. DoorOf(entry[r]) \in Doors /\ door[DoorOf(entry[r])] \in {"open", "draining"}
  BY DoorsOfEntries DEF GatewayInv, DoorsHeld
<1> QED BY <1>2 DEF GatewayInv, ExitedEmpty

(* A request goes on to its next await. *)
LEMMA Moving ==
  ASSUME GatewayInv, NEW r \in Admitted, NEW next \in Within,
         Await(r, next), UNCHANGED <<server, entry>>,
         jobs' \subseteq jobs \cup {r},
         heard \subseteq heard', heard' \subseteq Requests,
         broke \subseteq broke', broke' \subseteq Requests,
         next = "writing" => r \in heard'
  PROVE  GatewayInv'
<1>1. /\ pc' = [pc EXCEPT ![r] = next] /\ posted' = [posted EXCEPT ![r] = 0]
      /\ permits' = permits /\ reply' = reply /\ entry' = entry
      /\ process' = process /\ door' = door /\ signalled' = signalled
      /\ told' = told
  BY DEF Await, server
<1>2. r \in Requests /\ r \in InFlight
  BY DEF InFlight, Admitted
<1>3. TypeOK'
  BY <1>1, <1>2, GatewayAssumption DEF GatewayInv, TypeOK, Within, Awaits
<1>4. InFlight' = InFlight /\ Admitted' = Admitted
  <2>1. /\ \A q \in Requests \ {r} : pc'[q] = pc[q]
        /\ pc'[r] = next
    BY <1>1, <1>2 DEF GatewayInv, TypeOK
  <2>2. next \notin Over \cup {"idle", "arriving", "replying"}
    BY Stages DEF Within
  <2> QED BY <1>2, <2>1, <2>2 DEF InFlight, Admitted
<1>5. Conserved'
  BY <1>1, <1>4, Same DEF GatewayInv
<1>6. DoorsHeld'
  BY <1>1, <1>4 DEF GatewayInv, DoorsHeld
<1>7. ExitedEmpty'
  BY <1>1, <1>2, UpWhileInFlight DEF GatewayInv, ExitedEmpty
<1>8. WritingHeard'
  BY <1>1, <1>2 DEF GatewayInv, TypeOK, WritingHeard
<1>9. OutageDegrades'
  BY <1>1 DEF GatewayInv, OutageDegrades
<1> QED BY <1>3, <1>5, <1>6, <1>7, <1>8, <1>9 DEF GatewayInv

(* A request is replied to, or given up, and leaves what it was admitted   *)
(* to; an error is replied only after the model was heard of, or a local   *)
(* step failed.                                                            *)
LEMMA Leaves ==
  ASSUME GatewayInv, NEW r \in InFlight, NEW next \in Over \cup {"replying"},
         pc' = [pc EXCEPT ![r] = next], posted' = [posted EXCEPT ![r] = 0],
         Release(r), UNCHANGED <<server, entry>>, jobs' \subseteq jobs,
         heard \subseteq heard', heard' \subseteq Requests,
         broke \subseteq broke', broke' \subseteq Requests,
         NEW what \in {"none", "answer", "degraded", "error", "rejected", "overloaded"},
         reply' = [reply EXCEPT ![r] = what],
         \/ what # "error"
         \/ r \in heard' \cup broke'
         \/ what = reply[r]
  PROVE  GatewayInv'
<1>1. /\ entry' = entry /\ process' = process /\ door' = door
      /\ signalled' = signalled /\ told' = told
  BY DEF server
<1>2. r \in Requests /\ \A q \in Requests \ {r} : pc'[q] = pc[q] /\ reply'[q] = reply[q]
  BY DEF InFlight, GatewayInv, TypeOK
<1>3. pc'[r] = next /\ reply'[r] = what
  BY <1>2 DEF GatewayInv, TypeOK
<1>4. InFlight' \subseteq InFlight /\ Admitted' = Admitted \ {r}
  BY <1>2, <1>3 DEF InFlight, Admitted
<1>5. Conserved'
  BY <1>1, <1>4, Leaving DEF GatewayInv
<1>6. TypeOK'
  <2>1. permits' \in [Routes -> Int]
    BY DEF Release, GatewayInv, TypeOK
  <2>2. \A route \in Routes : permits'[route] >= 0
    BY DEF Release, GatewayInv, TypeOK
  <2>3. \A route \in Routes : permits'[route] <= Limit
    BY <1>5, <2>1, FS_CardinalityType, GatewayAssumption DEF Conserved
  <2>4. permits' \in [Routes -> 0 .. Limit]
    BY <2>1, <2>2, <2>3, GatewayAssumption
  <2>5. posted' \in [Requests -> 0 .. Posts - 1]
    BY <1>2, GatewayAssumption DEF GatewayInv, TypeOK
  <2> QED BY <1>1, <1>2, <2>4, <2>5 DEF GatewayInv, TypeOK, OpenEnded
<1>7. DoorsHeld'
  BY <1>1, <1>4 DEF GatewayInv, DoorsHeld
<1>8. ExitedEmpty'
  BY <1>1 DEF GatewayInv, ExitedEmpty
<1>9. WritingHeard'
  BY <1>2, <1>3 DEF GatewayInv, WritingHeard, Over
<1>10. OutageDegrades'
  BY <1>1, <1>2, <1>3 DEF GatewayInv, OutageDegrades
<1> QED BY <1>5, <1>6, <1>7, <1>8, <1>9, <1>10 DEF GatewayInv

LEMMA Replying ==
  ASSUME GatewayInv, NEW r \in InFlight,
         NEW what \in {"answer", "degraded", "error", "rejected", "overloaded"},
         Reply(r, what), UNCHANGED <<server, entry>>, jobs' \subseteq jobs,
         heard \subseteq heard', heard' \subseteq Requests,
         broke \subseteq broke', broke' \subseteq Requests,
         what # "error" \/ r \in heard' \cup broke'
  PROVE  GatewayInv'
<1>1. /\ pc' = [pc EXCEPT ![r] = "replying"] /\ posted' = [posted EXCEPT ![r] = 0]
      /\ reply' = [reply EXCEPT ![r] = what] /\ Release(r)
  BY DEF Reply
<1> QED BY <1>1, Leaves

LEMMA DisconnectInv ==
  ASSUME GatewayInv, NEW r \in Requests, Disconnect(r)
  PROVE  GatewayInv'
<1>1. /\ r \in InFlight /\ "gone" \in Over
      /\ pc' = [pc EXCEPT ![r] = "gone"] /\ posted' = [posted EXCEPT ![r] = 0]
      /\ Release(r) /\ UNCHANGED <<server, entry>>
      /\ jobs' = jobs /\ heard' = heard /\ broke' = broke /\ reply' = reply
  BY DEF Disconnect, Over, history
<1>2. /\ reply[r] \in {"none", "answer", "degraded", "error", "rejected", "overloaded"}
      /\ reply' = [reply EXCEPT ![r] = reply[r]]
      /\ heard \subseteq Requests /\ broke \subseteq Requests
  BY <1>1 DEF GatewayInv, TypeOK, InFlight
<1> QED BY <1>1, <1>2, Leaves

(* A request whose head is awaited, or whose reply is written, holds no    *)
(* permit; its door was open when it came.                                 *)
LEMMA OutsideInv ==
  ASSUME GatewayInv, NEW r \in Requests, Connect(r) \/ Deliver(r)
  PROVE  GatewayInv'
<1>1. /\ entry' = entry /\ posted' = posted /\ permits' = permits /\ jobs' = jobs
      /\ reply' = reply /\ heard' = heard /\ broke' = broke /\ process' = process
      /\ door' = door /\ signalled' = signalled /\ told' = told
  BY DEF Connect, Deliver, server, history
<1>2. PICK next \in {"arriving", "done"} : pc' = [pc EXCEPT ![r] = next]
  BY DEF Connect, Deliver
<1>3. /\ pc'[r] = next
      /\ \A q \in Requests \ {r} : pc'[q] = pc[q]
  BY <1>2 DEF GatewayInv, TypeOK
<1>4. r \notin Admitted /\ Admitted' = Admitted
  BY <1>2, <1>3 DEF Connect, Deliver, InFlight, Admitted, Over
<1>5. Conserved'
  BY <1>1, <1>4, Same DEF GatewayInv
<1>6. TypeOK'
  BY <1>1, <1>2 DEF GatewayInv, TypeOK, Over, OpenEnded
<1>7. DoorsHeld'
  <2>1. CASE Connect(r)
    <3>1. door[DoorOf(entry[r])] = "open" /\ InFlight' = InFlight \cup {r}
      BY <1>3, <2>1 DEF Connect, InFlight, Over, GatewayInv, TypeOK
    <3> QED BY <1>1, <3>1 DEF GatewayInv, DoorsHeld
  <2>2. CASE Deliver(r)
    <3>1. InFlight' \subseteq InFlight
      BY <1>3, <2>2 DEF Deliver, InFlight, Over, GatewayInv, TypeOK
    <3> QED BY <1>1, <3>1 DEF GatewayInv, DoorsHeld
  <2> QED BY <2>1, <2>2
<1>8. ExitedEmpty'
  BY <1>1 DEF GatewayInv, ExitedEmpty
<1>9. WritingHeard' /\ OutageDegrades'
  BY <1>1, <1>2, <1>3 DEF GatewayInv, WritingHeard, OutageDegrades
<1> QED BY <1>5, <1>6, <1>7, <1>8, <1>9 DEF GatewayInv

LEMMA ShedInv ==
  ASSUME GatewayInv, NEW r \in Requests, Shed(r)
  PROVE  GatewayInv'
<1>1. /\ Reply(r, "overloaded") /\ UNCHANGED <<server, entry>> /\ jobs' = jobs
      /\ heard' = heard /\ broke' = broke
      /\ heard \subseteq Requests /\ broke \subseteq Requests
  BY DEF Shed, history, GatewayInv, TypeOK
<1>2. r \in InFlight
  BY DEF Shed, InFlight, Over
<1> QED BY <1>1, <1>2, Replying

LEMMA AdmitInv ==
  ASSUME GatewayInv, NEW r \in Requests, Admit(r)
  PROVE  GatewayInv'
<1>1. /\ pc[r] = "arriving" /\ ~ Full(entry[r])
      /\ permits' = [route \in Routes |->
                       IF route = entry[r] THEN permits[route] - 1 ELSE permits[route]]
      /\ entry' = entry /\ posted' = posted /\ jobs' = jobs /\ reply' = reply
      /\ heard' = heard /\ broke' = broke /\ process' = process /\ door' = door
      /\ signalled' = signalled /\ told' = told
  BY DEF Admit, server, history
<1>2. PICK next \in {"probing", "receiving"} : pc' = [pc EXCEPT ![r] = next]
  BY DEF Admit
<1>3. /\ pc'[r] = next
      /\ \A q \in Requests \ {r} : pc'[q] = pc[q]
  BY <1>2 DEF GatewayInv, TypeOK
<1>4. /\ InFlight' = InFlight
      /\ r \notin Admitted /\ Admitted' = Admitted \cup {r}
  BY <1>1, <1>3 DEF InFlight, Admitted, Over
<1>5. Conserved'
  BY <1>1, <1>4, Entering DEF GatewayInv
<1>6. TypeOK'
  <2>1. \A route \in Routes : permits'[route] \in 0 .. Limit
    BY <1>1, GatewayAssumption DEF Full, GatewayInv, TypeOK
  <2>2. permits' \in [Routes -> 0 .. Limit]
    BY <1>1, <2>1
  <2>3. pc' \in [Requests -> Prompting \cup Over \cup OpenEnded \cup
                  {"idle", "probing", "embedding", "rescanning"}]
    BY <1>2 DEF GatewayInv, TypeOK, OpenEnded
  <2> QED BY <1>1, <2>2, <2>3 DEF GatewayInv, TypeOK
<1>7. DoorsHeld' /\ ExitedEmpty'
  BY <1>1, <1>4 DEF GatewayInv, DoorsHeld, ExitedEmpty
<1>8. WritingHeard' /\ OutageDegrades'
  BY <1>1, <1>3 DEF GatewayInv, WritingHeard, OutageDegrades
<1> QED BY <1>5, <1>6, <1>7, <1>8 DEF GatewayInv

(* What each entry awaits once its body is there. *)
LEMMA FirstAwaits ==
  ASSUME NEW e \in Routes \cup Methods
  PROVE  First(e) \in {"probing", "executing", "parsing", "routing"}
BY DEF First, Routes, Methods

LEMMA ReceiveInv ==
  ASSUME GatewayInv, NEW r \in Requests, Receive(r)
  PROVE  GatewayInv'
<1>1. /\ UNCHANGED <<server, entry>> /\ jobs' = jobs
      /\ heard' = heard /\ broke' = broke
      /\ heard \subseteq Requests /\ broke \subseteq Requests
      /\ entry[r] \in Routes \cup Methods
  BY DEF Receive, history, GatewayInv, TypeOK
<1>2. r \in InFlight /\ r \in Admitted
  BY DEF Receive, InFlight, Admitted, Over
<1>3. CASE Reply(r, "rejected") \/ Reply(r, "answer")
  BY <1>1, <1>2, <1>3, Replying
<1>4. CASE Await(r, First(entry[r]))
  <2>1. First(entry[r]) \in Within /\ First(entry[r]) # "writing"
    BY <1>1, FirstAwaits DEF Within, Awaits, OpenEnded, Prompting
  <2> QED BY <1>1, <1>2, <1>4, <2>1, Moving
<1> QED BY <1>3, <1>4 DEF Receive

(* Steps that leave the stage of a request alone. *)
LEMMA BesidesInv ==
  ASSUME GatewayInv, NEW r \in Requests, Repost(r) \/ EndJob(r)
  PROVE  GatewayInv'
<1>1. /\ pc' = pc /\ entry' = entry /\ permits' = permits /\ reply' = reply
      /\ heard' = heard /\ broke' = broke /\ process' = process /\ door' = door
      /\ signalled' = signalled /\ told' = told /\ jobs' \subseteq jobs
  BY DEF Repost, EndJob, server, history
<1>2. posted' \in [Requests -> 0 .. Posts - 1]
  <2>1. CASE Repost(r)
    <3>1. /\ posted' = [posted EXCEPT ![r] = posted[r] + 1]
          /\ posted[r] + 1 \in 0 .. Posts - 1
      BY <2>1, GatewayAssumption DEF Repost, GatewayInv, TypeOK
    <3> QED BY <3>1 DEF GatewayInv, TypeOK
  <2>2. CASE EndJob(r)
    BY <2>2 DEF EndJob, GatewayInv, TypeOK
  <2> QED BY <2>1, <2>2
<1>3. TypeOK'
  BY <1>1, <1>2 DEF GatewayInv, TypeOK
<1>4. InFlight' = InFlight /\ Admitted' = Admitted
  BY <1>1 DEF InFlight, Admitted
<1>5. Conserved'
  BY <1>1, <1>4, Same DEF GatewayInv
<1>6. DoorsHeld' /\ ExitedEmpty' /\ WritingHeard' /\ OutageDegrades'
  BY <1>1, <1>4 DEF GatewayInv, DoorsHeld, ExitedEmpty, WritingHeard, OutageDegrades
<1> QED BY <1>3, <1>5, <1>6 DEF GatewayInv

(* The pipeline's way into its cache or to the model. *)
LEMMA EntersPipeline ==
  ASSUME GatewayInv, NEW r \in Admitted, Semantic(r),
         UNCHANGED <<server, entry>>, jobs' = jobs,
         heard \subseteq heard', heard' \subseteq Requests, broke' = broke
  PROVE  GatewayInv'
<1>1. "parsing" \in Within /\ broke \subseteq Requests /\ r \in InFlight
  BY DEF Within, Awaits, Prompting, Admitted, GatewayInv, TypeOK
<1> QED BY <1>1, Moving, Replying DEF Semantic

LEMMA StartsEmbedding ==
  ASSUME GatewayInv, NEW r \in Admitted, EmbedIntent(r), UNCHANGED <<server, entry>>,
         heard \subseteq heard', heard' \subseteq Requests, broke' = broke
  PROVE  GatewayInv'
<1>1. "embedding" \in Within /\ broke \subseteq Requests
  BY DEF Within, Awaits, GatewayInv, TypeOK
<1> QED BY <1>1, Moving DEF EmbedIntent

LEMMA UnheardInv ==
  ASSUME GatewayInv, NEW r \in Requests, Unheard(r)
  PROVE  GatewayInv'
<1>1. /\ UNCHANGED <<server, entry>> /\ heard' = heard /\ broke' = broke
      /\ heard \subseteq Requests /\ broke \subseteq Requests
  BY DEF Unheard, history, GatewayInv, TypeOK
<1>2. r \in InFlight /\ r \in Admitted
  BY DEF Unheard, InFlight, Admitted, Over
<1>3. CASE pc[r] = "parsing" /\ EmbedIntent(r)
  BY <1>1, <1>2, <1>3, StartsEmbedding
<1>4. CASE pc[r] = "routing" /\ Semantic(r) /\ UNCHANGED jobs
  BY <1>1, <1>2, <1>4, EntersPipeline
<1>5. CASE pc[r] = "writing" /\ Reply(r, "error") /\ UNCHANGED jobs
  <2>1. r \in heard
    BY <1>5 DEF GatewayInv, WritingHeard
  <2> QED BY <1>1, <1>2, <1>5, <2>1, Replying
<1>6. CASE /\ Reply(r, "degraded") \/ Reply(r, "answer")
           /\ UNCHANGED jobs
  BY <1>1, <1>2, <1>6, Replying
<1> QED BY <1>3, <1>4, <1>5, <1>6 DEF Unheard

LEMMA HeardInv ==
  ASSUME GatewayInv, NEW r \in Requests, Heard(r)
  PROVE  GatewayInv'
<1>1. /\ UNCHANGED <<server, entry>> /\ heard' = heard \cup {r} /\ broke' = broke
      /\ heard' \subseteq Requests /\ broke \subseteq Requests
  BY DEF Heard, GatewayInv, TypeOK
<1>2. r \in InFlight /\ r \in Admitted
  BY DEF Heard, InFlight, Admitted, Over
<1>3. CASE pc[r] = "parsing" /\ EmbedIntent(r)
  BY <1>1, <1>2, <1>3, StartsEmbedding
<1>4. CASE Semantic(r) /\ UNCHANGED jobs
  BY <1>1, <1>2, <1>4, EntersPipeline
<1>5. CASE /\ \E next \in {"writing", "executing", "rescanning"} : Await(r, next)
           /\ UNCHANGED jobs
  <2>1. {"writing", "executing", "rescanning"} \subseteq Within
    BY DEF Within, Awaits, OpenEnded, Prompting
  <2> QED BY <1>1, <1>2, <1>5, <2>1, Moving
<1>6. CASE /\ \E what \in {"answer", "error"} : Reply(r, what)
           /\ UNCHANGED jobs
  BY <1>1, <1>2, <1>6, Replying
<1> QED BY <1>3, <1>4, <1>5, <1>6 DEF Heard

LEMMA LocalInv ==
  ASSUME GatewayInv, NEW r \in Requests,
         Probe(r) \/ Execute(r) \/ Embed(r) \/ Rescan(r)
  PROVE  GatewayInv'
<1>1. /\ UNCHANGED <<server, entry>> /\ heard' = heard /\ heard \subseteq Requests
      /\ jobs' \subseteq jobs /\ broke \subseteq Requests
  BY DEF Probe, Execute, Embed, Rescan, history, GatewayInv, TypeOK
<1>2. r \in InFlight /\ r \in Admitted
  BY DEF Probe, Execute, Embed, Rescan, InFlight, Admitted, Over
<1>3. CASE Reply(r, "answer") /\ broke' = broke
  BY <1>1, <1>2, <1>3, Replying
<1>4. CASE Reply(r, "error") /\ broke' = broke \cup {r}
  BY <1>1, <1>2, <1>4, Replying
<1>5. CASE /\ \E next \in {"generating", "regenerating"} : Await(r, next)
           /\ broke' = broke
  <2>1. {"generating", "regenerating"} \subseteq Within
    BY DEF Within, Awaits, Prompting
  <2> QED BY <1>1, <1>2, <1>5, <2>1, Moving
<1> QED BY <1>3, <1>4, <1>5 DEF Probe, Execute, Embed, Rescan, history

LEMMA NextGatewayInv == GatewayInv /\ [Next]_vars => GatewayInv'
<1> SUFFICES ASSUME GatewayInv, [Next]_vars PROVE GatewayInv'
  OBVIOUS
<1>1. CASE UNCHANGED vars
  <2>1. /\ pc' = pc /\ entry' = entry /\ posted' = posted /\ permits' = permits
        /\ jobs' = jobs /\ reply' = reply /\ heard' = heard /\ broke' = broke
        /\ process' = process /\ door' = door /\ signalled' = signalled
        /\ told' = told
    BY <1>1 DEF vars, server, history
  <2>2. InFlight' = InFlight /\ Admitted' = Admitted
    BY <2>1 DEF InFlight, Admitted
  <2>3. TypeOK'
    BY <2>1 DEF GatewayInv, TypeOK
  <2>4. Conserved'
    BY <2>1, <2>2, Same DEF GatewayInv
  <2>5. OutageDegrades' /\ DoorsHeld' /\ ExitedEmpty' /\ WritingHeard'
    BY <2>1, <2>2 DEF GatewayInv, OutageDegrades, DoorsHeld, ExitedEmpty, WritingHeard
  <2> QED BY <2>3, <2>4, <2>5 DEF GatewayInv
<1>2. CASE Lifecycle \/ Signal
  BY <1>2, LifecycleInv
<1>3. ASSUME NEW r \in Requests, Connect(r) PROVE GatewayInv'
  BY <1>3, OutsideInv
<1>4. ASSUME NEW r \in Requests, Unbounded(r) PROVE GatewayInv'
  BY <1>4, OutsideInv, ShedInv, AdmitInv, ReceiveInv, LocalInv DEF Unbounded
<1>5. ASSUME NEW r \in Requests, Step(r) PROVE GatewayInv'
  BY <1>5, BesidesInv, UnheardInv, HeardInv, LocalInv DEF Step
<1>6. ASSUME NEW r \in Requests, Disconnect(r) PROVE GatewayInv'
  BY <1>6, DisconnectInv
<1> QED BY <1>1, <1>2, <1>3, <1>4, <1>5, <1>6 DEF Next

LEMMA AlwaysGatewayInv == Spec => []GatewayInv
<1>1. Init => GatewayInv
  BY InitGatewayInv
<1>2. GatewayInv /\ [Next]_vars => GatewayInv'
  BY NextGatewayInv
<1> QED BY <1>1, <1>2, PTL DEF Spec

-----------------------------------------------------------------------------
(* The states of the server have their types; permits stay in range. *)
THEOREM GatewayTypeCorrect == Spec => []TypeOK
<1>1. GatewayInv => TypeOK
  BY DEF GatewayInv
<1> QED BY <1>1, AlwaysGatewayInv, PTL

(* The limit of a route holds, whatever mix of replies, errors, retries    *)
(* and disconnections came before.                                         *)
THEOREM RoutesBounded == Spec => []RouteBound
<1>1. GatewayInv => RouteBound
  <2> SUFFICES ASSUME GatewayInv, NEW route \in Routes
               PROVE  Cardinality(On(route)) <= Limit
    BY DEF RouteBound
  <2>1. permits[route] \in 0 .. Limit /\ Limit \in Nat
    BY GatewayAssumption DEF GatewayInv, TypeOK
  <2>2. Cardinality(On(route)) = Limit - permits[route]
    BY <2>1, PermitRange DEF GatewayInv
  <2> QED BY <2>1, <2>2
<1> QED BY <1>1, AlwaysGatewayInv, PTL

(* No permit is ever lost: a request is shed only while the limit of       *)
(* requests are admitted to its route.                                     *)
THEOREM ShedsOnlyWhenFull == Spec => ShedOnlyWhenFull
<1>1. GatewayInv /\ [Next]_vars =>
         [\A r \in Requests :
             reply'[r] = "overloaded" /\ reply[r] # "overloaded" =>
                 Cardinality(On(entry[r])) = Limit]_vars
  <2> SUFFICES ASSUME GatewayInv, Next, NEW r \in Requests,
                      reply'[r] = "overloaded", reply[r] # "overloaded"
               PROVE  Cardinality(On(entry[r])) = Limit
    OBVIOUS
  <2>1. reply \in [Requests -> {"none", "answer", "degraded", "error",
                                "rejected", "overloaded"}]
    BY DEF GatewayInv, TypeOK
  <2>2. reply' # reply
    OBVIOUS
  <2>3. PICK q \in Requests : Unbounded(q) \/ Step(q)
    BY <2>2 DEF Next, Lifecycle, Signal, Boot, Exit, Notice, Close, tasks, Connect,
                Disconnect
  <2>4. CASE Shed(q)
    <3>1. q = r
      BY <2>1, <2>4 DEF Shed, Reply
    <3>2. entry[r] \in Routes /\ permits[entry[r]] = 0
      BY <2>4, <3>1 DEF Shed, Full
    <3> QED BY <3>2, PermitRange, GatewayAssumption DEF GatewayInv
  <2>5. CASE ~ Shed(q)
    <3>1. \E what \in {"answer", "degraded", "error", "rejected"} :
             reply' = [reply EXCEPT ![q] = what]
      BY <2>2, <2>3, <2>5
         DEF Unbounded, Admit, Receive, Deliver, Step, Repost, Unheard, Heard,
             EmbedIntent, Semantic, Await, Reply, Probe, Execute, Embed, Rescan, EndJob
    <3> QED BY <2>1, <3>1
  <2> QED BY <2>4, <2>5
<1> QED BY <1>1, AlwaysGatewayInv, PTL DEF Spec, ShedOnlyWhenFull

(* While the model is out, a question that needs no SQL fails only with a  *)
(* local step; otherwise it gets an answer, perhaps a degraded one.        *)
THEOREM Degrades == Spec => []OutageDegrades
<1>1. GatewayInv => OutageDegrades
  BY DEF GatewayInv
<1> QED BY <1>1, AlwaysGatewayInv, PTL

(* The process does not exit under a request of either door, nor under an  *)
(* embedding nobody waits for.                                             *)
THEOREM Drained == Spec => []DrainedAtExit
<1>1. GatewayInv => DrainedAtExit
  BY UpWhileInFlight DEF GatewayInv, ExitedEmpty, DrainedAtExit
<1> QED BY <1>1, AlwaysGatewayInv, PTL

-----------------------------------------------------------------------------
(* A request that awaits something else goes on in its course, or is still *)
(* outside the pipeline.                                                   *)
LEMMA GoesOn ==
  ASSUME TypeOK, NEW r \in Requests, NEW next, Await(r, next),
         \/ StageOf(next) \in Course!Onward[StageOf(pc[r])]
         \/ StageOf(next) = StageOf(pc[r])
  PROVE  [Course!Next]_(Course!vars)
<1> DEFINE stage == [x \in Requests |-> StageOf(pc[x])]
<1>1. stage' = [stage EXCEPT ![r] = StageOf(next)] /\ stage[r] = StageOf(pc[r])
  BY DEF Await, TypeOK
<1>2. CASE StageOf(next) \in Course!Onward[StageOf(pc[r])]
  BY <1>1, <1>2 DEF Await, Course!Next, Course!GoOn
<1>3. CASE StageOf(next) = StageOf(pc[r])
  BY <1>1, <1>3 DEF Await, Course!vars
<1> QED BY <1>2, <1>3

(* A request that is replied to ends its course in one of the ways it may. *)
LEMMA Ends ==
  ASSUME TypeOK, NEW r \in Requests,
         NEW what \in Course!Endings[StageOf(pc[r])],
         pc' = [pc EXCEPT ![r] = "replying"], reply' = [reply EXCEPT ![r] = what]
  PROVE  Course!Next
<1> DEFINE stage == [x \in Requests |-> StageOf(pc[x])]
<1>1. stage' = [stage EXCEPT ![r] = "over"] /\ stage[r] = StageOf(pc[r])
  BY DEF TypeOK, StageOf, Over
<1> QED BY <1>1 DEF Course!Next, Course!End

(* What the server takes the semantic pipeline for is the course that      *)
(* SemanticPipeline is proved to keep to as well.                          *)
THEOREM GatewayKeepsCourse == Spec => KeepsCourse
<1>1. Init => Course!Init
  BY DEF Init, Course!Init, StageOf, Over
<1>2. TypeOK /\ [Next]_vars => [Course!Next]_(Course!vars)
  <2> SUFFICES ASSUME TypeOK, [Next]_vars PROVE [Course!Next]_(Course!vars)
    OBVIOUS
  <2>1. /\ \A at \in {"parsing", "embedding", "generating", "rescanning",
                      "regenerating"} : StageOf(at) = at
        /\ \A at \in {"idle", "arriving", "receiving", "probing", "executing",
                      "routing", "writing"} : StageOf(at) = "outside"
        /\ \A at \in {"replying", "done", "gone"} : StageOf(at) = "over"
    BY DEF StageOf, Over
  <2>2. CASE UNCHANGED <<pc, reply>>
    BY <2>2 DEF Course!vars
  <2>3. ASSUME NEW r \in Requests, Connect(r) \/ Admit(r) \/ Deliver(r)
        PROVE  UNCHANGED Course!vars
    <3>1. reply' = reply
      BY <2>3 DEF Connect, Admit, Deliver
    <3>2. /\ \A q \in Requests \ {r} : pc'[q] = pc[q]
          /\ \/ pc[r] = "idle" /\ pc'[r] = "arriving"
             \/ pc[r] = "arriving" /\ pc'[r] \in {"probing", "receiving"}
             \/ pc[r] = "replying" /\ pc'[r] = "done"
      BY <2>3 DEF Connect, Admit, Deliver, TypeOK
    <3>3. \A q \in Requests : StageOf(pc'[q]) = StageOf(pc[q])
      BY <2>1, <3>2
    <3> QED BY <3>1, <3>3 DEF Course!vars
  <2>4. ASSUME NEW r \in Requests, NEW what \in {"overloaded", "rejected", "answer"},
               Reply(r, what), pc[r] \in {"arriving", "receiving"}
        PROVE  Course!Next
    <3>1. what \in Course!Endings[StageOf(pc[r])]
      BY <2>1, <2>4 DEF Course!Endings
    <3> QED BY <2>4, <3>1, Ends DEF Reply
  <2>5. ASSUME NEW r \in Requests, NEW what \in {"answer", "error"}, Reply(r, what),
               pc[r] \in {"probing", "executing", "routing", "writing", "embedding",
                         "generating", "rescanning", "regenerating"}
        PROVE  Course!Next
    <3>1. what \in Course!Endings[StageOf(pc[r])]
      BY <2>1, <2>5 DEF Course!Endings
    <3> QED BY <2>5, <3>1, Ends DEF Reply
  <2>6. ASSUME NEW r \in Requests, NEW next, Await(r, next),
               \/ pc[r] = "parsing" /\ next = "embedding"
               \/ pc[r] = "embedding" /\ next = "generating"
               \/ pc[r] = "generating" /\ next = "rescanning"
               \/ pc[r] = "rescanning" /\ next = "regenerating"
               \/ /\ pc[r] \in {"receiving", "routing"}
                  /\ next \in {"probing", "executing", "parsing", "routing", "writing"}
               \/ pc[r] = "writing" /\ next = "executing"
        PROVE  [Course!Next]_(Course!vars)
    <3>1. \/ StageOf(next) \in Course!Onward[StageOf(pc[r])]
          \/ StageOf(next) = StageOf(pc[r])
      BY <2>1, <2>6 DEF Course!Onward
    <3> QED BY <2>6, <3>1, GoesOn
  <2>7. ASSUME NEW r \in Requests, Unheard(r)
        PROVE  [Course!Next]_(Course!vars)
    <3>1. CASE pc[r] = "generating" /\ Reply(r, "degraded")
      <4>1. "degraded" \in Course!Endings[StageOf(pc[r])]
        BY <2>1, <3>1 DEF Course!Endings
      <4> QED BY <3>1, <4>1, Ends DEF Reply
    <3> QED BY <2>5, <2>6, <2>7, <3>1 DEF Unheard, EmbedIntent, Semantic
  <2>8. ASSUME NEW r \in Requests, Heard(r)
        PROVE  [Course!Next]_(Course!vars)
    BY <2>5, <2>6, <2>8 DEF Heard, EmbedIntent, Semantic
  <2>9. ASSUME NEW r \in Requests,
               Probe(r) \/ Execute(r) \/ Embed(r) \/ Rescan(r)
        PROVE  [Course!Next]_(Course!vars)
    BY <2>5, <2>6, <2>9 DEF Probe, Execute, Embed, Rescan
  <2>10. ASSUME NEW r \in Requests, Disconnect(r)
         PROVE  [Course!Next]_(Course!vars)
    <3> DEFINE stage == [x \in Requests |-> StageOf(pc[x])]
    <3>1. stage' = [stage EXCEPT ![r] = "over"] /\ stage[r] = StageOf(pc[r])
      BY <2>10 DEF Disconnect, TypeOK, StageOf, Over
    <3>2. CASE stage[r] # "over"
      BY <2>10, <3>1, <3>2 DEF Disconnect, Course!Next, Course!Cancel
    <3>3. CASE stage[r] = "over"
      BY <2>10, <3>1, <3>3 DEF Disconnect, Course!vars
    <3> QED BY <3>2, <3>3
  <2>11. (UNCHANGED vars \/ Lifecycle \/ Signal
           \/ \E r \in Requests : Repost(r) \/ EndJob(r)) => UNCHANGED <<pc, reply>>
    BY DEF vars, Lifecycle, Signal, Boot, Exit, Notice, Close, tasks, Repost, EndJob
  <2>12. ASSUME NEW r \in Requests, Step(r)
         PROVE  [Course!Next]_(Course!vars)
    BY <2>2, <2>7, <2>8, <2>9, <2>11, <2>12 DEF Step
  <2>13. ASSUME NEW r \in Requests, Unbounded(r)
         PROVE  [Course!Next]_(Course!vars)
    <3>1. CASE Shed(r)
      BY <2>4, <3>1 DEF Shed
    <3>2. CASE Receive(r)
      <4>1. First(entry[r]) \in {"probing", "executing", "parsing", "routing"}
        BY FirstAwaits DEF TypeOK
      <4> QED BY <2>4, <2>6, <3>2, <4>1 DEF Receive
    <3> QED BY <2>3, <2>9, <2>13, <3>1, <3>2 DEF Unbounded
  <2> QED BY <2>2, <2>3, <2>10, <2>11, <2>12, <2>13 DEF Next
<1> QED BY <1>1, <1>2, GatewayTypeCorrect, PTL DEF Spec, KeepsCourse, Course!Spec

-----------------------------------------------------------------------------
(* How far a request is from its end: what it may have to await before it, *)
(* this included, each with all its posts, less the posts that failed      *)
(* already.                                                                *)
Rank(at) ==
    CASE at = "arriving" -> 9
      [] at = "receiving" -> 8
      [] at = "routing" -> 7
      [] at = "parsing" -> 6
      [] at = "embedding" -> 5
      [] at = "generating" -> 4
      [] at \in {"rescanning", "writing"} -> 3
      [] at \in {"regenerating", "executing", "probing"} -> 2
      [] at = "replying" -> 1
      [] OTHER -> 0

Left(r) == Rank(pc[r]) * Posts - posted[r]

LEMMA Ranks ==
  /\ Rank("arriving") = 9 /\ Rank("receiving") = 8
  /\ Rank("routing") = 7 /\ Rank("parsing") = 6 /\ Rank("embedding") = 5
  /\ Rank("generating") = 4 /\ Rank("rescanning") = 3 /\ Rank("writing") = 3
  /\ Rank("regenerating") = 2 /\ Rank("executing") = 2 /\ Rank("probing") = 2
  /\ Rank("replying") = 1 /\ Rank("done") = 0 /\ Rank("gone") = 0
  /\ \A at \in Awaits : Rank(at) \in 1 .. 9
BY DEF Rank, Awaits, OpenEnded, Prompting

(* A later await weighs less than what is left of this one. *)
LEMMA LowerRank ==
  ASSUME NEW m \in 1 .. 9, NEW n \in 0 .. 9, n < m, NEW p \in 0 .. Posts - 1
  PROVE  /\ n * Posts \in Nat /\ m * Posts - p \in 1 .. 9 * Posts
         /\ n * Posts < m * Posts - p
<1>1. Posts \in Nat \ {0}
  BY GatewayAssumption
<1>2. m \in {1, 2, 3, 4, 5, 6, 7, 8, 9} /\ n \in {0, 1, 2, 3, 4, 5, 6, 7, 8}
  OBVIOUS
<1> QED BY <1>1, <1>2

(* No request is further from its end than nine rounds of posts. *)
LEMMA LeftRange ==
  ASSUME TypeOK, NEW r \in InFlight
  PROVE  Left(r) \in 1 .. 9 * Posts
<1>1. Rank(pc[r]) \in 1 .. 9 /\ posted[r] \in 0 .. Posts - 1
  BY Stages, Ranks DEF InFlight, TypeOK
<1> QED BY <1>1, LowerRank, 0 \in 0 .. 9, 0 < Rank(pc[r]) DEF Left

(* A request that leaves an await for one of lower rank is nearer its end. *)
LEMMA Nearer ==
  ASSUME TypeOK, NEW r \in InFlight, NEW next,
         pc' = [pc EXCEPT ![r] = next], posted' = [posted EXCEPT ![r] = 0],
         Rank(next) \in 0 .. 9, Rank(next) < Rank(pc[r])
  PROVE  Left(r)' < Left(r)
<1>1. /\ Rank(pc[r]) \in 1 .. 9 /\ posted[r] \in 0 .. Posts - 1
      /\ pc'[r] = next /\ posted'[r] = 0
  BY Stages, Ranks DEF InFlight, TypeOK
<1>2. Left(r)' = Rank(next) * Posts - 0
  BY <1>1 DEF Left
<1>3. /\ Rank(next) * Posts \in Nat
      /\ Rank(next) * Posts < Rank(pc[r]) * Posts - posted[r]
  BY <1>1, LowerRank
<1> QED BY <1>2, <1>3 DEF Left

(* Whatever a request in flight does itself, it is nearer its end after it.  *)
LEMMA StepNearer ==
  ASSUME TypeOK, NEW r \in InFlight, Unbounded(r) \/ Step(r)
  PROVE  Left(r)' < Left(r)
<1>1. /\ r \in Requests /\ pc[r] # "gone" /\ posted[r] \in 0 .. Posts - 1
      /\ pc[r] \in Awaits /\ Rank(pc[r]) \in 1 .. 9
  BY Stages, Ranks DEF InFlight, Over, TypeOK
<1>2. CASE Repost(r)
  <2>1. pc' = pc /\ posted'[r] = posted[r] + 1
    BY <1>1, <1>2 DEF Repost, TypeOK
  <2>2. Rank(pc[r]) * Posts \in Int
    BY <1>1, GatewayAssumption
  <2> QED BY <1>1, <2>1, <2>2 DEF Left
<1>3. ASSUME NEW what, Reply(r, what), Rank(pc[r]) > 1
      PROVE  Left(r)' < Left(r)
  <2>1. Rank("replying") \in 0 .. 9 /\ Rank("replying") < Rank(pc[r])
    BY <1>1, <1>3, Ranks
  <2> QED BY <1>3, <2>1, Nearer DEF Reply
<1>4. ASSUME NEW next, Await(r, next), Rank(next) \in 0 .. 9, Rank(next) < Rank(pc[r])
      PROVE  Left(r)' < Left(r)
  BY <1>4, Nearer DEF Await
<1>5. CASE Unheard(r)
  BY <1>3, <1>4, <1>5, Ranks DEF Unheard, EmbedIntent, Semantic
<1>6. CASE Heard(r)
  BY <1>3, <1>4, <1>6, Ranks DEF Heard, EmbedIntent, Semantic
<1>7. CASE Probe(r) \/ Execute(r) \/ Embed(r) \/ Rescan(r)
  BY <1>3, <1>4, <1>7, Ranks DEF Probe, Execute, Embed, Rescan
<1>8. CASE Shed(r) \/ Receive(r)
  <2>1. First(entry[r]) \in {"probing", "executing", "parsing", "routing"}
    BY <1>1, FirstAwaits DEF TypeOK
  <2> QED BY <1>3, <1>4, <1>8, <2>1, Ranks DEF Shed, Receive
<1>9. CASE Admit(r) \/ Deliver(r)
  <2>1. /\ posted'[r] = posted[r]
        /\ \/ pc[r] = "arriving" /\ pc'[r] \in {"probing", "receiving"}
           \/ pc[r] = "replying" /\ pc'[r] = "done"
    BY <1>1, <1>9 DEF Admit, Deliver, TypeOK
  <2>2. Rank(pc'[r]) \in 0 .. 9 /\ Rank(pc'[r]) < Rank(pc[r])
    BY <2>1, Ranks
  <2>3. Rank(pc'[r]) * Posts - 0 < Rank(pc[r]) * Posts - 0
    BY <1>1, <2>2, LowerRank, GatewayAssumption, 0 \in 0 .. Posts - 1
  <2>4. Rank(pc'[r]) * Posts \in Int /\ Rank(pc[r]) * Posts \in Int
    BY <1>1, <2>2, GatewayAssumption
  <2> QED BY <1>1, <2>1, <2>3, <2>4 DEF Left
<1> QED BY <1>1, <1>2, <1>5, <1>6, <1>7, <1>8, <1>9 DEF Unbounded, Step, EndJob

(* What others do leaves it where it is; a client that goes away ends it.  *)
LEMMA NeverFurther ==
  ASSUME TypeOK, NEW r \in InFlight, [Next]_vars
  PROVE  Left(r)' <= Left(r)
<1>1. r \in Requests /\ Left(r) \in 1 .. 9 * Posts /\ 9 * Posts \in Int
  BY LeftRange, GatewayAssumption DEF InFlight
<1>2. pc[r] # "idle"
  BY DEF InFlight
<1>3. CASE pc'[r] = pc[r] /\ posted'[r] = posted[r]
  BY <1>1, <1>3 DEF Left
<1>4. CASE Unbounded(r) \/ Step(r)
  <2>1. Left(r)' < Left(r) /\ Left(r)' \in Int
    <3>1. Rank(pc'[r]) \in Int
      BY DEF Rank
    <3>2. posted'[r] \in Int
      BY <1>1, <1>4
         DEF TypeOK, Unbounded, Shed, Admit, Receive, Deliver, Step, Repost, Unheard,
             Heard, EmbedIntent, Semantic, Await, Reply, Probe, Execute, Embed, Rescan,
             EndJob
    <3> QED BY <1>4, <3>1, <3>2, StepNearer, GatewayAssumption DEF Left
  <2> QED BY <1>1, <2>1
<1>5. CASE Disconnect(r)
  <2>1. Rank("gone") \in 0 .. 9 /\ Rank("gone") < Rank(pc[r])
    BY <1>1, Stages, Ranks
  <2>2. Left(r)' < Left(r)
    BY <1>5, <2>1, Nearer DEF Disconnect
  <2>3. Left(r)' = 0
    BY <1>1, <1>5, Ranks, GatewayAssumption DEF Disconnect, Left, TypeOK
  <2> QED BY <1>1, <2>2, <2>3
<1>6. ASSUME NEW q \in Requests \ {r},
             Connect(q) \/ Unbounded(q) \/ Step(q) \/ Disconnect(q)
      PROVE  pc'[r] = pc[r] /\ posted'[r] = posted[r]
  BY <1>1, <1>6
     DEF TypeOK, Connect, Unbounded, Shed, Admit, Receive, Deliver, Disconnect, Step,
         Repost, Unheard, Heard, EmbedIntent, Semantic, Await, Reply, Probe, Execute,
         Embed, Rescan, EndJob
<1>7. ~ Connect(r)
  BY <1>2 DEF Connect
<1>8. CASE UNCHANGED vars \/ Lifecycle \/ Signal
  BY <1>3, <1>8 DEF vars, Lifecycle, Signal, Boot, Exit, Notice, Close, tasks
<1> QED BY <1>3, <1>4, <1>5, <1>6, <1>7, <1>8 DEF Next

(* Retries run out: once it begins, a request takes at most 9 * Posts      *)
(* steps of its own, however its prompts fail, because each brings it      *)
(* nearer its end, and no step of another, of the doors or of a client     *)
(* takes it further away.  That the steps are taken at all is fairness,    *)
(* and the client's business: RequestsEnd is left to the runs.             *)
THEOREM RetriesRunOut ==
  Spec =>
      /\ [](\A r \in InFlight : Left(r) \in 1 .. 9 * Posts)
      /\ [][\A r \in InFlight : /\ Left(r)' <= Left(r)
                                /\ Unbounded(r) \/ Step(r) => Left(r)' < Left(r)]_vars
<1>1. TypeOK => \A r \in InFlight : Left(r) \in 1 .. 9 * Posts
  BY LeftRange
<1>2. TypeOK /\ [Next]_vars =>
         [\A r \in InFlight : /\ Left(r)' <= Left(r)
                              /\ Unbounded(r) \/ Step(r) => Left(r)' < Left(r)]_vars
  BY StepNearer, NeverFurther
<1> QED BY <1>1, <1>2, GatewayTypeCorrect, PTL DEF Spec
-----------------------------------------------------------------------------
(* Shutdown.  What is on the blocking pool belongs to a request that waits *)
(* for it or was dropped; the doors boot together; a signal tells both.    *)
JobsOwned == \A r \in jobs : pc[r] \in {"embedding", "gone"}

BootTogether ==
    (\E d \in Doors : door[d] = "booting") => \A d \in Doors : door[d] = "booting"

BothTold == signalled => \A d \in Doors : told[d]

ShutdownInv == GatewayInv /\ JobsOwned /\ BootTogether /\ BothTold

(* What a server that was told to stop may still do, whatever clients and  *)
(* queries do: bind its ports, notice the signal at a door, close one that *)
(* holds nobody, go on with a request that waits for the model, the index  *)
(* or the pool, finish an embedding of one that was dropped, or exit.      *)
CanGoOn ==
    \/ \A d \in Doors : door[d] = "booting"
    \/ \E d \in Doors : door[d] = "open" /\ told[d]
    \/ \E d \in Doors : door[d] = "draining" /\ \A r \in InFlight : DoorOf(entry[r]) # d
    \/ \E r \in Requests : pc[r] \in Awaits \ OpenEnded
    \/ \E r \in jobs : pc[r] = "gone"
    \/ jobs = {} /\ \A d \in Doors : door[d] = "closed"

(* How many steps a door has before it. *)
Ahead == [booting |-> 3, open |-> 2, draining |-> 1, closed |-> 0]

(* Doors only go on, each step of the life of the server takes one on or   *)
(* ends it, requests come through open doors only, and the pool is only    *)
(* given the embedding of a request that goes on to wait for it.           *)
ShutsDown ==
    /\ \A d \in Doors : Ahead[door'[d]] <= Ahead[door[d]]
    /\ Lifecycle => process' # "up" \/ \E d \in Doors : Ahead[door'[d]] < Ahead[door[d]]
    /\ \A r \in InFlight' \ InFlight : door[DoorOf(entry[r])] = "open"
    /\ \A r \in jobs' \ jobs : pc[r] = "parsing" /\ pc'[r] = "embedding"

LEMMA InitShutdown == Init => ShutdownInv
BY InitGatewayInv DEF Init, ShutdownInv, JobsOwned, BootTogether, BothTold

(* The pool has no job of a request that is elsewhere. *)
LEMMA JobsOwnedNext ==
  ASSUME TypeOK, JobsOwned, [Next]_vars
  PROVE  JobsOwned'
<1> SUFFICES ASSUME NEW q \in jobs' PROVE pc'[q] \in {"embedding", "gone"}
  BY DEF JobsOwned
<1> USE DEF TypeOK
<1>1. CASE UNCHANGED vars \/ Lifecycle \/ Signal
  BY <1>1
     DEF JobsOwned, vars, Lifecycle, Signal, Boot, Exit, Notice, Close, tasks
<1>2. ASSUME NEW r \in Requests, Connect(r) \/ Unbounded(r)
      PROVE  pc'[q] \in {"embedding", "gone"}
  BY <1>2 DEF JobsOwned, Connect, Unbounded, Shed, Admit, Receive, Execute, Deliver,
              Await, Reply
<1>3. ASSUME NEW r \in Requests, Disconnect(r)
      PROVE  pc'[q] \in {"embedding", "gone"}
  BY <1>3 DEF JobsOwned, Disconnect
<1>4. ASSUME NEW r \in Requests, Step(r)
      PROVE  pc'[q] \in {"embedding", "gone"}
  <2>1. CASE q = r
    BY <1>4, <2>1
       DEF JobsOwned, Step, Repost, Unheard, Heard, Prompting, EmbedIntent, Semantic,
           Await, Reply, Probe, Embed, Rescan, EndJob
  <2>2. CASE q # r
    BY <1>4, <2>2
       DEF JobsOwned, Step, Repost, Unheard, Heard, EmbedIntent, Semantic, Await, Reply,
           Probe, Embed, Rescan, EndJob
  <2> QED BY <2>1, <2>2
<1> QED BY <1>1, <1>2, <1>3, <1>4 DEF Next

(* Requests leave the doors, the signal and the process alone. *)
LEMMA ServerAlone ==
  ASSUME NEW r, Connect(r) \/ Unbounded(r) \/ Step(r) \/ Disconnect(r)
  PROVE  UNCHANGED server
BY DEF Connect, Unbounded, Shed, Admit, Receive, Execute, Deliver, Disconnect, Step,
       Repost, Unheard, Heard, Probe, Embed, Rescan, EndJob

LEMMA NextShutdown == ShutdownInv /\ [Next]_vars => ShutdownInv'
<1> SUFFICES ASSUME ShutdownInv, [Next]_vars PROVE ShutdownInv'
  OBVIOUS
<1>1. GatewayInv' /\ JobsOwned'
  BY NextGatewayInv, JobsOwnedNext DEF ShutdownInv, GatewayInv
<1>2. BootTogether' /\ BothTold'
  <2> USE DEF ShutdownInv, GatewayInv, TypeOK, BootTogether, BothTold, Doors
  <2>1. CASE UNCHANGED server
    BY <2>1 DEF server
  <2>2. CASE UNCHANGED vars
    BY <2>1, <2>2 DEF vars
  <2>3. CASE Lifecycle
    BY <2>3 DEF Lifecycle, Boot, Exit, Notice, Close
  <2>4. CASE Signal
    BY <2>4 DEF Signal
  <2> QED BY <2>1, <2>2, <2>3, <2>4, ServerAlone DEF Next
<1> QED BY <1>1, <1>2 DEF ShutdownInv

(* Nobody waits for somebody who waits for him: a closed door holds no     *)
(* request, so whoever is left on the pool was dropped.                    *)
LEMMA NeverStuck ==
  ASSUME ShutdownInv, signalled, process = "up",
         \A r \in InFlight : pc[r] \notin OpenEnded
  PROVE  CanGoOn
<1> SUFFICES ASSUME ~ CanGoOn PROVE FALSE
  OBVIOUS
<1>1. InFlight = {}
  BY Stages DEF CanGoOn, ShutdownInv, GatewayInv, InFlight
<1>2. \A d \in Doors : door[d] = "closed"
  BY <1>1 DEF CanGoOn, ShutdownInv, GatewayInv, TypeOK, BootTogether, BothTold
<1>3. PICK r \in jobs : TRUE
  BY <1>2 DEF CanGoOn
<1>4. pc[r] = "embedding" /\ r \in Requests
  BY <1>3 DEF CanGoOn, ShutdownInv, GatewayInv, JobsOwned, TypeOK
<1> QED BY <1>1, <1>4 DEF InFlight, Over

LEMMA StepShutsDown ==
  ASSUME TypeOK, [Next]_vars
  PROVE  ShutsDown
<1> USE DEF TypeOK
<1>1. /\ \A d \in Doors : Ahead[door'[d]] <= Ahead[door[d]]
      /\ Lifecycle => process' # "up" \/ \E d \in Doors : Ahead[door'[d]] < Ahead[door[d]]
  <2>1. CASE UNCHANGED door
    <3>1. \A d \in Doors : Ahead[door[d]] \in Int
      BY DEF Ahead
    <3>2. Lifecycle => process' # "up"
      BY <2>1 DEF Lifecycle, Boot, Exit, Notice, Close, Doors
    <3> QED BY <2>1, <3>1, <3>2
  <2>2. CASE Lifecycle
    BY <2>2 DEF Lifecycle, Boot, Exit, Notice, Close, Ahead, Doors
  <2> QED BY <2>1, <2>2, ServerAlone DEF Next, Signal, server, vars
<1>2. \A r \in InFlight' \ InFlight : door[DoorOf(entry[r])] = "open"
  <2> SUFFICES ASSUME NEW q \in InFlight' \ InFlight
               PROVE  door[DoorOf(entry[q])] = "open"
    OBVIOUS
  <2>1. q \in Requests /\ pc'[q] # pc[q] /\ pc[q] \in Over \cup {"idle"}
        /\ pc'[q] \notin Over
    BY DEF InFlight
  <2>2. ~ (UNCHANGED vars \/ Lifecycle \/ Signal)
    BY <2>1 DEF vars, Lifecycle, Signal, Boot, Exit, Notice, Close, tasks
  <2>3. ASSUME NEW r \in Requests, Unbounded(r) \/ Step(r) \/ Disconnect(r)
        PROVE  FALSE
    BY <2>1, <2>3
       DEF Unbounded, Shed, Admit, Receive, Execute, Deliver, Step, Repost, Unheard,
           Heard, Prompting, EmbedIntent, Semantic, Await, Reply, Probe, Embed, Rescan,
           EndJob, Disconnect, Over
  <2>4. ASSUME NEW r \in Requests, Connect(r)
        PROVE  door[DoorOf(entry[q])] = "open"
    BY <2>1, <2>4 DEF Connect
  <2> QED BY <2>2, <2>3, <2>4 DEF Next
<1>3. \A r \in jobs' \ jobs : pc[r] = "parsing" /\ pc'[r] = "embedding"
  <2> SUFFICES ASSUME NEW q \in jobs' \ jobs
               PROVE  pc[q] = "parsing" /\ pc'[q] = "embedding"
    OBVIOUS
  <2>1. ~ (UNCHANGED vars \/ Lifecycle \/ Signal)
    BY DEF vars, Lifecycle, Signal, Boot, Exit, Notice, Close, tasks
  <2>2. ASSUME NEW r \in Requests, Connect(r) \/ Unbounded(r) \/ Disconnect(r)
        PROVE  FALSE
    BY <2>2 DEF Connect, Unbounded, Shed, Admit, Receive, Execute, Deliver, Disconnect
  <2>3. ASSUME NEW r \in Requests, Step(r)
        PROVE  pc[q] = "parsing" /\ pc'[q] = "embedding"
    BY <2>3
       DEF Step, Repost, Unheard, Heard, EmbedIntent, Await, Probe, Embed, Rescan, EndJob
  <2> QED BY <2>1, <2>2, <2>3 DEF Next
<1> QED BY <1>1, <1>2, <1>3 DEF ShutsDown

(* Shutdown is never stuck by the server itself: while a process that was  *)
(* told to stop is up, either there is a step it can take that waits for   *)
(* nobody outside, or a request in flight waits for its client or for SQL, *)
(* and only those can hold it.  The steps lead only towards the exit: no   *)
(* door opens again, nothing comes through a door that is draining, and    *)
(* what is in flight runs out (RetriesRunOut).  That the steps are taken   *)
(* is fairness: ShutdownCompletes is left to the runs.                     *)
THEOREM ShutdownNeverStuck ==
  Spec =>
      /\ [](signalled /\ process = "up" =>
               CanGoOn \/ \E r \in InFlight : pc[r] \in OpenEnded)
      /\ [][ShutsDown]_vars
<1>1. ShutdownInv => /\ TypeOK
                     /\ signalled /\ process = "up" =>
                           CanGoOn \/ \E r \in InFlight : pc[r] \in OpenEnded
  BY NeverStuck DEF ShutdownInv, GatewayInv
<1>2. TypeOK /\ [Next]_vars => [ShutsDown]_vars
  BY StepShutsDown
<1> QED BY <1>1, <1>2, InitShutdown, NextShutdown, PTL DEF Spec
=============================================================================
