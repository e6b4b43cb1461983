------------------------- MODULE CatalogCacheProofs -------------------------
(***************************************************************************)
(* Proofs about CatalogCache, for any number of callers and namespaces,    *)
(* any capacity, and however fetches, refreshes, expiries and changes of   *)
(* the service's catalog interleave.                                       *)
(*                                                                         *)
(* The argument: the registered flight of a namespace is its latest one,   *)
(* and nothing is cached while it flies; an open flight that is not the    *)
(* registered one was superseded by a refresh; and the registered flight,  *)
(* when it has its answer, asked after everything cached so far.           *)
(***************************************************************************)
EXTENDS CatalogCache, FiniteSetTheorems, TLAPS

----------------------------------------------------------------------------
(* The inductive invariant.                                                *)

\* Nobody but the registered flight may fill the table, and it is the latest.
RegisteredLatest ==
  \A s \in Space :
    registered[s] # 0 =>
      /\ flights[registered[s]].space = s
      /\ flights[registered[s]].status = "open"
      /\ entries[s] = 0
      /\ \A n \in 1..started : flights[n].space = s => n <= registered[s]

\* An open flight nobody can join any more was superseded by a refresh.
SupersededByRefresh ==
  \A m \in 1..started :
    flights[m].status = "open" /\ registered[flights[m].space] # m =>
      \E k \in m + 1..started : flights[k].refresh /\ flights[k].space = flights[m].space

EntriesSeeRefresh ==
  \A s \in Space, n \in 1..started :
    entries[s] # 0 /\ flights[n].refresh /\ flights[n].space = s => n <= entries[s]

\* The service served everything that is cached.
CachedServed ==
  \A n \in 1..started :
    flights[n].status = "cached" => flights[n].version <= service[flights[n].space]

Owning(c) == caller[c].pc \in {"fetching", "publishing"}

OwnersDistinct ==
  \A c, d \in Caller :
    Owning(c) /\ Owning(d) /\ caller[c].flight = caller[d].flight => c = d

\* What the answer v to flight f may be cached over.
NewerThanCached(f, v) ==
  registered[flights[f].space] = f =>
    \A n \in 1..started :
      flights[n].status = "cached" /\ flights[n].space = flights[f].space
      => flights[n].version <= v

CallSound(c) ==
  /\ caller[c].pc # "idle" => caller[c].flight \in 1..started
  /\ Owning(c) => flights[caller[c].flight].status = "open"
  /\ caller[c].pc = "publishing" =>
       caller[c].reply.version <= service[flights[caller[c].flight].space]
  /\ caller[c].pc = "publishing" /\ caller[c].reply.kind = "catalog" =>
       NewerThanCached(caller[c].flight, caller[c].reply.version)

CallsSound == \A c \in Caller : CallSound(c)

IInv ==
  /\ CacheTypes
  /\ RegisteredLatest
  /\ SupersededByRefresh
  /\ SingleFlight
  /\ EntriesSeeRefresh
  /\ CachedServed
  /\ OwnersDistinct
  /\ CallsSound

----------------------------------------------------------------------------
(* CacheTypes.                                                                  *)

LEMMA RankTyped ==
  ASSUME CacheTypes, NEW s \in Space
  PROVE  MovedToEnd(s) \in [Space -> Nat]
<1>1. Cardinality(Space) \in Nat
  BY CacheAssumption, FS_CardinalityType
<1> QED  BY <1>1 DEF CacheTypes, MovedToEnd

LEMMA InitTyped ==
  ASSUME CacheInit
  PROVE  CacheTypes
<1>1. Cardinality(Space) \in Nat
  BY CacheAssumption, FS_CardinalityType
<1>2. rank \in [Space -> Nat]
  BY <1>1 DEF CacheInit
<1>3. flights \in [1..started -> Flight]
  BY DEF CacheInit
<1>4. caller \in [Caller -> CallState]
  BY CacheAssumption DEF CacheInit, CallState, Reply, NoReply, Version
<1> QED  BY <1>2, <1>3, <1>4, CacheAssumption DEF CacheInit, CacheTypes, Version

LEMMA InitInvariant ==
  ASSUME CacheInit
  PROVE  IInv
<1>1. CacheTypes
  BY InitTyped
<1>2. /\ started = 0
      /\ 1..started = {}
      /\ \A s \in Space : registered[s] = 0 /\ entries[s] = 0
      /\ \A c \in Caller : caller[c].pc = "idle"
  BY DEF CacheInit
<1>3. /\ RegisteredLatest
      /\ SupersededByRefresh
      /\ SingleFlight
      /\ EntriesSeeRefresh
      /\ CachedServed
  BY <1>2 DEF RegisteredLatest, SupersededByRefresh, SingleFlight, EntriesSeeRefresh, CachedServed
<1>4. OwnersDistinct /\ CallsSound
  BY <1>2 DEF OwnersDistinct, CallsSound, CallSound, Owning
<1> QED  BY <1>1, <1>3, <1>4 DEF IInv

\* What a step makes of a call.
LEMMA CallMoves ==
  ASSUME CacheTypes, NEW c \in Caller, NEW pc, NEW f, NEW reply, Continues(c, pc, f, reply)
  PROVE  \A d \in Caller :
           caller'[d] = IF d = c THEN [pc |-> pc, flight |-> f, reply |-> reply] ELSE caller[d]
BY DEF Continues, CacheTypes

LEMMA CallReturns ==
  ASSUME CacheTypes, NEW c \in Caller, Return(c)
  PROVE  /\ \A d \in Caller : d # c => caller'[d] = caller[d]
         /\ caller'[c].pc = "idle"
         /\ caller' \in [Caller -> CallState]
<1>1. [pc |-> "idle", flight |-> 0, reply |-> NoReply] \in CallState
  BY CacheAssumption DEF CallState, Reply, NoReply, Version
<1> QED  BY <1>1 DEF Return, CacheTypes

----------------------------------------------------------------------------
(* Steps that start and end no flight.                                     *)

\* The flights stand, and entries at most disappear.
Cruise ==
  /\ UNCHANGED <<flights, started, registered>>
  /\ \A s \in Space : entries'[s] \in {0, entries[s]} /\ service[s] <= service'[s]

LEMMA CruiseKeeps ==
  ASSUME IInv, CacheTypes', Cruise
  PROVE  /\ RegisteredLatest'
         /\ SupersededByRefresh'
         /\ SingleFlight'
         /\ EntriesSeeRefresh'
         /\ CachedServed'
<1> USE DEF Cruise, IInv
<1>1. RegisteredLatest'
  BY DEF RegisteredLatest
<1>2. SupersededByRefresh' /\ SingleFlight'
  BY DEF SupersededByRefresh, SingleFlight
<1>3. EntriesSeeRefresh'
  BY DEF EntriesSeeRefresh
<1>4. CachedServed'
  <2> SUFFICES ASSUME NEW n \in 1..started, flights[n].status = "cached"
               PROVE  flights[n].version <= service'[flights[n].space]
    BY DEF CachedServed
  <2> DEFINE s == flights[n].space
  <2>0. flights[n] \in Flight
    BY DEF CacheTypes
  <2>1. s \in Space /\ flights[n].version \in Nat
    BY <2>0, CacheAssumption DEF Flight, Version
  <2>2. service[s] \in Nat /\ service'[s] \in Nat
    BY <2>1, CacheAssumption DEF CacheTypes, Version
  <2>3. flights[n].version <= service[s] /\ service[s] <= service'[s]
    BY <2>1 DEF CachedServed
  <2> QED  BY <2>1, <2>2, <2>3
<1> QED  BY <1>1, <1>2, <1>3, <1>4

\* A call that a cruising step leaves alone.
LEMMA CruiseCall ==
  ASSUME IInv, CacheTypes', Cruise, NEW d \in Caller, caller'[d] = caller[d]
  PROVE  CallSound(d)'
<1> DEFINE f == caller[d].flight
<1>1. CallSound(d)
  BY DEF IInv, CallsSound
<1>2. Owning(d)' <=> Owning(d)
  BY DEF Owning
<1>3. caller[d].pc # "idle" => f \in 1..started
  BY <1>1 DEF CallSound
<1>4. ASSUME caller[d].pc = "publishing"
      PROVE  caller[d].reply.version <= service'[flights[f].space]
  <2> DEFINE s == flights[f].space
  <2>1. s \in Space
    BY <1>3, <1>4 DEF IInv, CacheTypes, Flight
  <2>2. caller[d].reply.version \in Nat /\ service[s] \in Nat /\ service'[s] \in Nat
    BY <2>1, CacheAssumption DEF IInv, CacheTypes, CallState, Reply, Version
  <2>3. caller[d].reply.version <= service[s] /\ service[s] <= service'[s]
    BY <1>1, <1>4, <2>1 DEF CallSound, Cruise
  <2> QED  BY <2>2, <2>3
<1>5. ASSUME NEW v
      PROVE  NewerThanCached(f, v)' <=> NewerThanCached(f, v)
  BY DEF NewerThanCached, Cruise
<1> QED  BY <1>1, <1>2, <1>3, <1>4, <1>5 DEF CallSound, Cruise

\* A cruising step of nobody, or one after which c owns no flight it did not own.
LEMMA CruiseInvariant ==
  ASSUME IInv, CacheTypes', Cruise, NEW c \in Caller,
         \A d \in Caller : d # c => caller'[d] = caller[d],
         Owning(c)' => Owning(c) /\ caller'[c].flight = caller[c].flight,
         CallSound(c)'
  PROVE  IInv'
<1>1. \A d \in Caller : Owning(d)' => Owning(d) /\ caller'[d].flight = caller[d].flight
  BY DEF Owning
<1>2. OwnersDistinct'
  BY <1>1 DEF OwnersDistinct, IInv
<1>3. CallsSound'
  BY CruiseCall DEF CallsSound
<1> QED  BY <1>2, <1>3, CruiseKeeps DEF IInv

----------------------------------------------------------------------------
(* The steps.                                                              *)

LEMMA StartTyped ==
  ASSUME IInv, NEW c \in Caller, NEW s \in Space, NEW refresh \in BOOLEAN, Start(c, s, refresh)
  PROVE  CacheTypes'
<1> DEFINE n == started + 1
<1>1. started \in Nat /\ n \in Number /\ started' = n
  BY CacheAssumption DEF IInv, CacheTypes, Number, Start
<1>2. [pc |-> "fetching", flight |-> n, reply |-> NoReply] \in CallState
  BY <1>1, CacheAssumption DEF CallState, Reply, NoReply, Version
<1>3. caller' \in [Caller -> CallState]
  BY <1>2 DEF Start, Continues, IInv, CacheTypes
<1>4. [space |-> s, refresh |-> refresh, status |-> "open", version |-> 0] \in Flight
  BY CacheAssumption DEF Flight, Version
<1>5. flights' \in [1..n -> Flight]
  <2>1. \A m \in 1..n : m # n => m \in 1..started
    BY <1>1
  <2> QED  BY <1>4, <2>1 DEF Start, IInv, CacheTypes
<1>6. registered' \in [Space -> 0..n] /\ entries' \in [Space -> 0..n]
  BY <1>1 DEF Start, Pop, IInv, CacheTypes
<1> QED  BY <1>1, <1>3, <1>5, <1>6 DEF Start, IInv, CacheTypes

\* What Start does to the tables.
Added(s, refresh) ==
  /\ started \in Nat
  /\ started' = started + 1
  /\ \A m \in 1..started' : m = started' \/ m \in 1..started
  /\ \A m \in 1..started : flights'[m] = flights[m] /\ m \in 1..started' /\ m < started'
  /\ started' \in 1..started'
  /\ flights'[started'] =
       [space |-> s, refresh |-> refresh, status |-> "open", version |-> 0]
  /\ \A t \in Space : registered'[t] = IF t = s THEN started' ELSE registered[t]
  /\ \A t \in Space : entries'[t] = IF t = s THEN 0 ELSE entries[t]
  /\ \A t \in Space : registered[t] \in 0..started /\ entries[t] \in 0..started
  /\ \A m \in 1..started : flights[m].space \in Space

LEMMA StartAdds ==
  ASSUME IInv, NEW c \in Caller, NEW s \in Space, NEW refresh \in BOOLEAN, Start(c, s, refresh)
  PROVE  Added(s, refresh)
<1>1. started \in Nat /\ started' = started + 1
  BY CacheAssumption DEF IInv, CacheTypes, Number, Start
<1>2. /\ \A m \in 1..started' : m = started' \/ m \in 1..started
      /\ \A m \in 1..started : m \in 1..started' /\ m < started' /\ m # started'
      /\ started' \in 1..started'
  BY <1>1
<1>3. \A m \in 1..started' :
        flights'[m] = IF m = started'
                      THEN [space |-> s, refresh |-> refresh, status |-> "open", version |-> 0]
                      ELSE flights[m]
  BY <1>1 DEF Start
<1>4. /\ \A m \in 1..started : flights'[m] = flights[m]
      /\ flights'[started'] = [space |-> s, refresh |-> refresh, status |-> "open", version |-> 0]
  BY <1>2, <1>3
<1>5. /\ \A t \in Space : registered'[t] = IF t = s THEN started' ELSE registered[t]
      /\ \A t \in Space : entries'[t] = IF t = s THEN 0 ELSE entries[t]
  BY <1>1 DEF Start, Pop, IInv, CacheTypes
<1>6. \A t \in Space : registered[t] \in 0..started /\ entries[t] \in 0..started
  BY DEF IInv, CacheTypes
<1>7. \A m \in 1..started : flights[m].space \in Space
  BY DEF IInv, CacheTypes, Flight
<1> QED  BY <1>1, <1>2, <1>4, <1>5, <1>6, <1>7 DEF Added

LEMMA StartFlights ==
  ASSUME IInv, NEW c \in Caller, NEW s \in Space, NEW refresh \in BOOLEAN, Start(c, s, refresh)
  PROVE  /\ RegisteredLatest'
         /\ SupersededByRefresh'
         /\ SingleFlight'
         /\ EntriesSeeRefresh'
         /\ CachedServed'
<1>0. Added(s, refresh)
  BY StartAdds
<1> USE DEF Added
<1>1. RegisteredLatest'
  <2> SUFFICES ASSUME NEW t \in Space, registered'[t] # 0
               PROVE  /\ flights'[registered'[t]].space = t
                      /\ flights'[registered'[t]].status = "open"
                      /\ entries'[t] = 0
                      /\ \A m \in 1..started' : flights'[m].space = t => m <= registered'[t]
    BY DEF RegisteredLatest
  <2>1. CASE t = s
    BY <1>0, <2>1
  <2>2. CASE t # s
    <3>1. registered'[t] = registered[t] /\ registered[t] \in 1..started
      BY <1>0, <2>2
    <3>2. /\ flights[registered[t]].space = t
          /\ flights[registered[t]].status = "open"
          /\ entries[t] = 0
          /\ \A m \in 1..started : flights[m].space = t => m <= registered[t]
      BY <3>1 DEF IInv, RegisteredLatest
    <3> QED  BY <1>0, <2>2, <3>1, <3>2
  <2> QED  BY <2>1, <2>2
<1>2. ASSUME NEW m \in 1..started, flights[m].status = "open", flights[m].space = s
      PROVE  \E k \in m + 1..started' : flights'[k].refresh /\ flights'[k].space = s
  <2>1. CASE refresh
    BY <1>0, <2>1
  <2>2. CASE ~refresh
    <3>1. registered[s] = 0 /\ m # 0
      BY <2>2 DEF Start, Owner
    <3>2. PICK k \in m + 1..started : flights[k].refresh /\ flights[k].space = s
      BY <1>2, <3>1 DEF IInv, SupersededByRefresh
    <3>3. k \in 1..started /\ k \in m + 1..started'
      BY <1>0, <3>2
    <3> QED  BY <1>0, <3>2, <3>3
  <2> QED  BY <2>1, <2>2
<1>3. SupersededByRefresh'
  <2> SUFFICES ASSUME NEW m \in 1..started', flights'[m].status = "open",
                      registered'[flights'[m].space] # m
               PROVE  \E k \in m + 1..started' :
                        flights'[k].refresh /\ flights'[k].space = flights'[m].space
    BY DEF SupersededByRefresh
  <2>1. m \in 1..started /\ flights'[m] = flights[m]
    BY <1>0
  <2>2. CASE flights[m].space = s
    BY <1>2, <2>1, <2>2
  <2>3. CASE flights[m].space # s
    <3>1. registered[flights[m].space] # m
      BY <1>0, <2>1, <2>3
    <3>2. PICK k \in m + 1..started : flights[k].refresh /\ flights[k].space = flights[m].space
      BY <2>1, <3>1 DEF IInv, SupersededByRefresh
    <3>3. k \in 1..started /\ k \in m + 1..started'
      BY <1>0, <2>1, <3>2
    <3> QED  BY <1>0, <2>1, <3>2, <3>3
  <2> QED  BY <2>2, <2>3
<1>4. SingleFlight'
  <2> SUFFICES ASSUME NEW m \in 1..started', NEW n \in 1..started', m < n,
                      flights'[m].space = flights'[n].space,
                      flights'[m].status = "open", flights'[n].status = "open"
               PROVE  \E k \in m + 1..n :
                        flights'[k].refresh /\ flights'[k].space = flights'[m].space
    BY DEF SingleFlight
  <2>1. m \in 1..started /\ flights'[m] = flights[m]
    BY <1>0
  <2>2. CASE n = started'
    BY <1>0, <1>2, <2>1, <2>2
  <2>3. CASE n \in 1..started
    <3>1. PICK k \in m + 1..n : flights[k].refresh /\ flights[k].space = flights[m].space
      BY <1>0, <2>1, <2>3 DEF IInv, SingleFlight
    <3>2. k \in 1..started
      BY <1>0, <2>1, <2>3, <3>1
    <3> QED  BY <1>0, <2>1, <3>1, <3>2
  <2> QED  BY <1>0, <2>2, <2>3
<1>5. EntriesSeeRefresh'
  <2> SUFFICES ASSUME NEW t \in Space, NEW n \in 1..started', entries'[t] # 0,
                      flights'[n].refresh, flights'[n].space = t
               PROVE  n <= entries'[t]
    BY DEF EntriesSeeRefresh
  <2>1. t # s /\ entries'[t] = entries[t]
    BY <1>0
  <2>2. n \in 1..started /\ flights'[n] = flights[n]
    BY <1>0, <2>1
  <2> QED  BY <2>1, <2>2 DEF IInv, EntriesSeeRefresh
<1>6. CachedServed'
  <2>1. service' = service
    BY DEF Start
  <2> QED  BY <1>0, <2>1 DEF IInv, CachedServed
<1> QED  BY <1>1, <1>3, <1>4, <1>5, <1>6

LEMMA StartCalls ==
  ASSUME IInv, NEW c \in Caller, NEW s \in Space, NEW refresh \in BOOLEAN, Start(c, s, refresh)
  PROVE  OwnersDistinct' /\ CallsSound'
<1>0. Added(s, refresh)
  BY StartAdds
<1> USE DEF Added
<1>1. \A d \in Caller :
        caller'[d] = IF d = c THEN [pc |-> "fetching", flight |-> started', reply |-> NoReply]
                     ELSE caller[d]
  BY CallMoves DEF Start, IInv
<1>2. \A d \in Caller : CallSound(d)
  BY DEF IInv, CallsSound
<1>3. \A d \in Caller : d # c /\ Owning(d)' => Owning(d) /\ caller'[d].flight \in 1..started
  BY <1>1, <1>2 DEF Owning, CallSound
<1>4. OwnersDistinct'
  <2> SUFFICES ASSUME NEW d \in Caller, NEW e \in Caller, Owning(d)', Owning(e)',
                      caller'[d].flight = caller'[e].flight
               PROVE  d = e
    BY DEF OwnersDistinct
  <2>1. CASE d = c
    BY <1>0, <1>1, <1>3, <2>1
  <2>2. CASE e = c
    BY <1>0, <1>1, <1>3, <2>2
  <2>3. CASE d # c /\ e # c
    BY <1>1, <1>3, <2>3 DEF IInv, OwnersDistinct
  <2> QED  BY <2>1, <2>2, <2>3
<1>5. ASSUME NEW d \in Caller
      PROVE  CallSound(d)'
  <2>1. CASE d = c
    BY <1>0, <1>1, <2>1 DEF CallSound, Owning
  <2>2. CASE d # c
    <3> DEFINE f == caller[d].flight
    <3>1. caller'[d] = caller[d] /\ CallSound(d) /\ service' = service
      BY <1>1, <1>2, <2>2 DEF Start
    <3>2. caller[d].pc # "idle" => f \in 1..started /\ f \in 1..started' /\ flights'[f] = flights[f]
      BY <1>0, <3>1 DEF CallSound
    <3>3. ASSUME NEW g \in 1..started, NEW v, NewerThanCached(g, v)
          PROVE  NewerThanCached(g, v)'
      <4> SUFFICES ASSUME registered'[flights'[g].space] = g, NEW n \in 1..started',
                          flights'[n].status = "cached", flights'[n].space = flights'[g].space
                   PROVE  flights'[n].version <= v
        BY DEF NewerThanCached
      <4>1. flights'[g] = flights[g] /\ flights[g].space # s
        BY <1>0
      <4>2. registered[flights[g].space] = g
        BY <1>0, <4>1
      <4>3. n \in 1..started /\ flights'[n] = flights[n]
        BY <1>0
      <4> QED  BY <3>3, <4>1, <4>2, <4>3 DEF NewerThanCached
    <3> QED  BY <3>1, <3>2, <3>3 DEF CallSound, Owning
  <2> QED  BY <2>1, <2>2
<1> QED  BY <1>4, <1>5 DEF CallsSound

\* What the owner's Publish, with answer reply to flight f, does to the tables.
Published(f, reply) ==
  LET s == flights[f].space
  IN /\ f \in 1..started
     /\ s \in Space
     /\ UNCHANGED <<started, service>>
     /\ \A m \in 1..started : m # f => flights'[m] = flights[m]
     /\ flights'[f].space = s
     /\ flights'[f].refresh = flights[f].refresh
     /\ flights'[f].status # "open"
     /\ flights'[f].version = reply.version
     /\ flights'[f].status = "cached" => registered[s] = f /\ reply.kind = "catalog"
     /\ \A t \in Space :
          registered'[t] = IF t = s /\ registered[s] = f THEN 0 ELSE registered[t]
     /\ \A t \in Space :
          entries'[t] \notin {0, entries[t]} =>
            t = s /\ entries'[t] = f /\ registered[s] = f /\ reply.kind = "catalog"
     /\ registered[s] # f => entries' = entries

LEMMA PublishWrites ==
  ASSUME IInv, NEW c \in Caller, Publish(c)
  PROVE  Published(caller[c].flight, caller[c].reply) /\ CacheTypes'
<1> DEFINE f == caller[c].flight
           s == flights[f].space
           reply == caller[c].reply
           status == Outcome(reply, Fenced(f))
<1>1. CallSound(c) /\ Owning(c) /\ caller[c].pc = "publishing"
  BY DEF IInv, CallsSound, Owning, Publish
<1>2. f \in 1..started /\ 0 \in 0..started
  BY <1>1, CacheAssumption DEF CallSound, IInv, CacheTypes, Number
<1>3. flights[f] \in Flight /\ s \in Space
  BY <1>2 DEF IInv, CacheTypes, Flight
<1>4. reply.version \in Version
  BY DEF IInv, CacheTypes, CallState, Reply
<1>5. /\ status \in {"cached", "value", "error"}
      /\ status = "cached" => registered[s] = f /\ reply.kind = "catalog"
  BY DEF Outcome, Fenced
<1>6. /\ \A m \in 1..started : m # f => flights'[m] = flights[m]
      /\ flights'[f] = [flights[f] EXCEPT !.status = status, !.version = reply.version]
      /\ flights' \in [1..started -> Flight]
  <2>1. flights' = [flights EXCEPT ![f].status = status, ![f].version = reply.version]
    BY DEF Publish
  <2>2. [flights[f] EXCEPT !.status = status, !.version = reply.version] \in Flight
    BY <1>3, <1>4, <1>5 DEF Flight
  <2> QED  BY <1>2, <2>1, <2>2 DEF IInv, CacheTypes
<1>7. /\ flights'[f].space = s
      /\ flights'[f].refresh = flights[f].refresh
      /\ flights'[f].status = status
      /\ flights'[f].version = reply.version
  BY <1>3, <1>6 DEF Flight
<1>8. /\ UNCHANGED <<started, service>>
      /\ caller' \in [Caller -> CallState]
  BY CallReturns DEF Publish, IInv
<1>9. CASE Fenced(f)
  <2>1. UNCHANGED <<registered, entries, fresh, rank>>
    BY <1>9 DEF Publish
  <2>2. registered[s] # f
    BY <1>9 DEF Fenced
  <2>3. CacheTypes'
    BY <1>6, <1>8, <2>1 DEF IInv, CacheTypes
  <2> QED  BY <1>2, <1>3, <1>5, <1>6, <1>7, <1>8, <2>1, <2>2, <2>3 DEF Published
<1>10. CASE ~Fenced(f)
  <2>1. registered[s] = f
    BY <1>10 DEF Fenced
  <2>2. /\ registered' = [registered EXCEPT ![s] = 0]
        /\ \/ Insert(s, f) /\ reply.kind = "catalog" /\ fresh' = fresh \union {s} /\ rank' = MovedToEnd(s)
           \/ (Pop(s) \/ UNCHANGED entries) /\ UNCHANGED <<fresh, rank>>
    BY <1>10 DEF Publish
  <2>3. \A t \in Space : registered'[t] = IF t = s THEN 0 ELSE registered[t]
    BY <2>2 DEF IInv, CacheTypes
  <2>4. ASSUME Insert(s, f)
        PROVE  /\ \A t \in Space : entries'[t] \in {0, IF t = s THEN f ELSE entries[t]}
               /\ entries' \in [Space -> 0..started]
    BY <1>2, <2>4 DEF Insert, IInv, CacheTypes
  <2>5. ASSUME Pop(s)
        PROVE  /\ \A t \in Space : entries'[t] \in {0, entries[t]}
               /\ entries' \in [Space -> 0..started]
    BY <1>2, <2>5 DEF Pop, IInv, CacheTypes
  <2>6. /\ \A t \in Space :
             entries'[t] \notin {0, entries[t]} => t = s /\ entries'[t] = f /\ reply.kind = "catalog"
        /\ entries' \in [Space -> 0..started]
    BY <2>2, <2>4, <2>5 DEF IInv, CacheTypes
  <2>7. fresh' \subseteq Space /\ rank' \in [Space -> Nat]
    BY <1>3, <2>2, RankTyped DEF IInv, CacheTypes
  <2>8. registered' \in [Space -> 0..started]
    BY <1>2, <2>2 DEF IInv, CacheTypes
  <2>9. CacheTypes'
    BY <1>6, <1>8, <2>6, <2>7, <2>8 DEF IInv, CacheTypes
  <2> QED  BY <1>2, <1>3, <1>5, <1>6, <1>7, <1>8, <2>1, <2>3, <2>6, <2>9 DEF Published
<1> QED  BY <1>9, <1>10

LEMMA PublishFlights ==
  ASSUME IInv, NEW c \in Caller, Publish(c)
  PROVE  /\ RegisteredLatest'
         /\ SupersededByRefresh'
         /\ SingleFlight'
         /\ EntriesSeeRefresh'
         /\ CachedServed'
<1>1. PICK f, reply : f = caller[c].flight /\ reply = caller[c].reply /\ Published(f, reply)
  BY PublishWrites
<1>2. reply.version <= service[flights[f].space]
  BY <1>1 DEF IInv, CallsSound, CallSound, Publish
<1> DEFINE s == flights[f].space
<1>0. /\ \A m \in 1..started : flights[m].space \in Space
      /\ started \in Nat
  BY CacheAssumption DEF IInv, CacheTypes, Flight, Number
<1>3. /\ \A m \in 1..started : flights'[m].space = flights[m].space
      /\ \A m \in 1..started : flights'[m].refresh = flights[m].refresh
      /\ \A m \in 1..started : flights'[m].status = "open" => m # f /\ flights[m].status = "open"
      /\ \A m \in 1..started : flights[m].space \in Space
      /\ started' = started /\ started \in Nat
  BY <1>0, <1>1 DEF Published
<1>4. RegisteredLatest'
  <2> SUFFICES ASSUME NEW t \in Space, registered'[t] # 0
               PROVE  /\ flights'[registered'[t]].space = t
                      /\ flights'[registered'[t]].status = "open"
                      /\ entries'[t] = 0
                      /\ \A m \in 1..started' : flights'[m].space = t => m <= registered'[t]
    BY DEF RegisteredLatest
  <2>1. registered'[t] = registered[t] /\ registered[t] \in 1..started
    BY <1>1, <1>3 DEF Published, IInv, CacheTypes
  <2>2. /\ flights[registered[t]].space = t
        /\ flights[registered[t]].status = "open"
        /\ entries[t] = 0
        /\ \A m \in 1..started : flights[m].space = t => m <= registered[t]
    BY <2>1 DEF IInv, RegisteredLatest
  <2>3. registered[t] # f
    BY <1>1, <2>1, <2>2 DEF Published
  <2>4. entries'[t] = 0
    BY <1>1, <2>1, <2>2, <2>3 DEF Published
  <2> QED  BY <1>1, <1>3, <2>1, <2>2, <2>3, <2>4 DEF Published
<1>5. SupersededByRefresh'
  <2> SUFFICES ASSUME NEW m \in 1..started, flights'[m].status = "open",
                      registered'[flights'[m].space] # m
               PROVE  \E k \in m + 1..started :
                        flights'[k].refresh /\ flights'[k].space = flights'[m].space
    BY <1>3 DEF SupersededByRefresh
  <2>1. m # f /\ flights[m].status = "open"
    BY <1>3
  <2>2. registered[flights[m].space] # m
    BY <1>1, <1>3, <2>1 DEF Published
  <2>3. PICK k \in m + 1..started : flights[k].refresh /\ flights[k].space = flights[m].space
    BY <2>1, <2>2 DEF IInv, SupersededByRefresh
  <2>4. k \in 1..started
    BY <1>3, <2>3
  <2> QED  BY <1>3, <2>3, <2>4
<1>6. SingleFlight'
  <2> SUFFICES ASSUME NEW m \in 1..started, NEW n \in 1..started, m < n,
                      flights'[m].space = flights'[n].space,
                      flights'[m].status = "open", flights'[n].status = "open"
               PROVE  \E k \in m + 1..n :
                        flights'[k].refresh /\ flights'[k].space = flights'[m].space
    BY <1>3 DEF SingleFlight
  <2>1. PICK k \in m + 1..n : flights[k].refresh /\ flights[k].space = flights[m].space
    BY <1>3 DEF IInv, SingleFlight
  <2>2. k \in 1..started
    BY <1>3, <2>1
  <2> QED  BY <1>3, <2>1, <2>2
<1>7. EntriesSeeRefresh'
  <2> SUFFICES ASSUME NEW t \in Space, NEW n \in 1..started, entries'[t] # 0,
                      flights'[n].refresh, flights'[n].space = t
               PROVE  n <= entries'[t]
    BY <1>3 DEF EntriesSeeRefresh
  <2>1. flights[n].refresh /\ flights[n].space = t
    BY <1>3
  <2>2. CASE entries'[t] = entries[t]
    BY <2>1, <2>2 DEF IInv, EntriesSeeRefresh
  <2>3. CASE entries'[t] # entries[t]
    <3>1. entries'[t] = f /\ t = s /\ registered[s] = f /\ f \in 1..started
      BY <1>1, <2>3 DEF Published
    <3> QED  BY <1>3, <2>1, <3>1 DEF IInv, RegisteredLatest
  <2> QED  BY <2>2, <2>3
<1>8. CachedServed'
  <2> SUFFICES ASSUME NEW n \in 1..started, flights'[n].status = "cached"
               PROVE  flights'[n].version <= service[flights'[n].space]
    BY <1>1, <1>3 DEF CachedServed, Published
  <2>1. CASE n = f
    BY <1>1, <1>2, <2>1 DEF Published
  <2>2. CASE n # f
    BY <1>1, <2>2 DEF Published, IInv, CachedServed
  <2> QED  BY <2>1, <2>2
<1> QED  BY <1>4, <1>5, <1>6, <1>7, <1>8

LEMMA PublishCalls ==
  ASSUME IInv, NEW c \in Caller, Publish(c)
  PROVE  OwnersDistinct' /\ CallsSound'
<1>1. PICK f, reply : f = caller[c].flight /\ reply = caller[c].reply /\ Published(f, reply)
  BY PublishWrites
<1>2. /\ \A d \in Caller : d # c => caller'[d] = caller[d]
      /\ caller'[c].pc = "idle"
  BY CallReturns DEF Publish, IInv
<1>3. \A d \in Caller : Owning(d)' => d # c /\ Owning(d)
  BY <1>2 DEF Owning
<1>4. OwnersDistinct'
  BY <1>2, <1>3 DEF OwnersDistinct, IInv
<1>5. Owning(c)
  BY DEF Owning, Publish
<1>6. ASSUME NEW g \in 1..started, NEW v, g # f, NewerThanCached(g, v)
      PROVE  NewerThanCached(g, v)'
  <2> SUFFICES ASSUME registered'[flights'[g].space] = g, NEW n \in 1..started,
                      flights'[n].status = "cached", flights'[n].space = flights'[g].space
               PROVE  flights'[n].version <= v
    BY <1>1 DEF NewerThanCached, Published
  <2>1. flights'[g] = flights[g] /\ flights[g].space \in Space
    BY <1>1, <1>6 DEF Published, IInv, CacheTypes, Flight
  <2>2. registered[flights[g].space] = g
    BY <1>1, <2>1, <1>6 DEF Published
  <2>3. n # f
    BY <1>1, <1>6, <2>1, <2>2 DEF Published
  <2>4. flights'[n] = flights[n]
    BY <1>1, <2>3 DEF Published
  <2> QED  BY <1>6, <2>1, <2>2, <2>4 DEF NewerThanCached
<1>7. ASSUME NEW d \in Caller
      PROVE  CallSound(d)'
  <2>1. CASE d = c
    BY <1>2, <2>1 DEF CallSound, Owning
  <2>2. CASE d # c
    <3>1. PICK g, pc, answer : caller[d].flight = g /\ caller[d].pc = pc /\ caller[d].reply = answer
      OBVIOUS
    <3>2. caller'[d].flight = g /\ caller'[d].pc = pc /\ caller'[d].reply = answer
      BY <1>2, <2>2, <3>1
    <3>3. CallSound(d)
      BY DEF IInv, CallsSound
    <3>4. pc # "idle" => g \in 1..started
      BY <3>1, <3>3 DEF CallSound
    <3>5. Owning(d) => g # f
      BY <1>1, <1>5, <2>2, <3>1 DEF IInv, OwnersDistinct
    <3>6. pc \in {"fetching", "publishing"} =>
            flights'[g] = flights[g] /\ flights[g].status = "open"
      BY <1>1, <3>1, <3>3, <3>4, <3>5 DEF Published, CallSound, Owning
    <3>7. pc = "publishing" => answer.version <= service'[flights'[g].space]
      BY <1>1, <3>1, <3>3, <3>6 DEF CallSound, Published
    <3>8. pc = "publishing" /\ answer.kind = "catalog" => NewerThanCached(g, answer.version)'
      BY <1>6, <3>1, <3>3, <3>4, <3>5 DEF CallSound, Owning
    <3>9. started' = started
      BY <1>1 DEF Published
    <3> QED  BY <3>2, <3>4, <3>6, <3>7, <3>8, <3>9 DEF CallSound, Owning, NewerThanCached
  <2> QED  BY <2>1, <2>2
<1> QED  BY <1>4, <1>7 DEF CallsSound

LEMMA CruiseOfNobody ==
  ASSUME IInv, CacheTypes', Cruise, UNCHANGED caller
  PROVE  IInv'
<1>1. OwnersDistinct'
  BY DEF OwnersDistinct, Owning, IInv
<1>2. CallsSound'
  BY CruiseCall DEF CallsSound
<1> QED  BY <1>1, <1>2, CruiseKeeps DEF IInv

\* A step of c alone that leaves flights, table and service be.
Quiet(c) ==
  /\ UNCHANGED <<flights, started, registered, entries, fresh, rank, service>>
  /\ \A d \in Caller : d # c => caller'[d] = caller[d]

LEMMA QuietCruises ==
  ASSUME IInv, NEW c \in Caller, Quiet(c)
  PROVE  Cruise
<1>1. \A s \in Space : service[s] \in Nat
  BY CacheAssumption DEF IInv, CacheTypes, Version
<1> QED  BY <1>1 DEF Quiet, Cruise

LEMMA HitKeeps ==
  ASSUME IInv, NEW c \in Caller, NEW s \in Space, Hit(c, s)
  PROVE  IInv'
<1>1. CacheTypes'
  BY RankTyped DEF Hit, IInv, CacheTypes
<1>2. \A t \in Space : service[t] \in Nat
  BY CacheAssumption DEF IInv, CacheTypes, Version
<1>3. Cruise
  BY <1>2 DEF Hit, Cruise
<1> QED  BY <1>1, <1>3, CruiseOfNobody DEF Hit

LEMMA JoinKeeps ==
  ASSUME IInv, NEW c \in Caller, NEW s \in Space, Join(c, s)
  PROVE  IInv'
<1>1. \A d \in Caller :
        caller'[d] = IF d = c THEN [pc |-> "waiting", flight |-> registered[s], reply |-> NoReply]
                     ELSE caller[d]
  BY CallMoves DEF Join, IInv
<1>2. registered[s] \in 1..started /\ started \in Nat /\ 1..started \subseteq Number
  BY CacheAssumption DEF Join, IInv, CacheTypes, Number
<1>3. entries' \in [Space -> 0..started] /\ \A t \in Space : entries'[t] \in {0, entries[t]}
  BY <1>2 DEF Join, Pop, IInv, CacheTypes
<1>4. [pc |-> "waiting", flight |-> registered[s], reply |-> NoReply] \in CallState
  BY <1>2, CacheAssumption DEF CallState, Reply, NoReply, Version
<1>5. CacheTypes'
  BY <1>3, <1>4 DEF Join, Continues, IInv, CacheTypes
<1>6. \A t \in Space : service[t] \in Nat
  BY CacheAssumption DEF IInv, CacheTypes, Version
<1>7. Cruise
  BY <1>3, <1>6 DEF Join, Cruise
<1>8. CallSound(c)'
  BY <1>1, <1>2, <1>7 DEF CallSound, Owning, Cruise
<1>9. ~Owning(c)'
  BY <1>1 DEF Owning
<1> QED  BY <1>1, <1>5, <1>7, <1>8, <1>9, CruiseInvariant

LEMMA ReadKeeps ==
  ASSUME IInv, NEW c \in Caller, Read(c)
  PROVE  IInv'
<1>1. PICK f, s : f = caller[c].flight /\ s = flights[f].space
  OBVIOUS
<1>2. CallSound(c) /\ Owning(c)
  BY DEF IInv, CallsSound, Owning, Read
<1>3. f \in 1..started /\ s \in Space
  BY <1>1, <1>2 DEF CallSound, Read, IInv, CacheTypes, Flight
<1>4. PICK reply \in Reply : Continues(c, "publishing", f, reply) /\ reply.version \in {0, service[s]}
                             /\ (reply.kind = "catalog" => reply.version = service[s])
  <2>1. PICK kind \in {"catalog", "legacy", "failed"} :
          Continues(c, "publishing", f,
               IF kind = "failed" THEN Failed ELSE [kind |-> kind, version |-> service[s]])
    BY <1>1 DEF Read
  <2>2. service[s] \in Version /\ 0 \in Version
    BY <1>3, CacheAssumption DEF IInv, CacheTypes, Version
  <2> QED  BY <2>1, <2>2 DEF Reply, Failed
<1>5. \A d \in Caller :
        caller'[d] = IF d = c THEN [pc |-> "publishing", flight |-> f, reply |-> reply]
                     ELSE caller[d]
  BY <1>4, CallMoves DEF IInv
<1>6. Quiet(c)
  BY <1>5 DEF Read, Quiet
<1>7. CacheTypes'
  <2>1. [pc |-> "publishing", flight |-> f, reply |-> reply] \in CallState
    BY <1>1, <1>4 DEF IInv, CacheTypes, CallState
  <2> QED  BY <1>4, <1>6, <2>1 DEF Continues, Quiet, IInv, CacheTypes
<1>8. CallSound(c)'
  <2>1. service[s] \in Nat
    BY <1>3, CacheAssumption DEF IInv, CacheTypes, Version
  <2>2. reply.version <= service[s]
    BY <1>4, <2>1
  <2>3. reply.kind = "catalog" => NewerThanCached(f, reply.version)'
    <3>1. \A n \in 1..started :
            flights[n].status = "cached" /\ flights[n].space = s => flights[n].version <= service[s]
      BY DEF IInv, CachedServed
    <3> QED  BY <1>1, <1>4, <1>6, <3>1 DEF NewerThanCached, Quiet
  <2>4. flights[f].status = "open"
    BY <1>1, <1>2 DEF CallSound
  <2>5. /\ caller'[c].pc = "publishing"
        /\ caller'[c].flight = f
        /\ caller'[c].reply = reply
    BY <1>5
  <2> QED  BY <1>1, <1>3, <1>6, <2>2, <2>3, <2>4, <2>5 DEF CallSound, Owning, NewerThanCached, Quiet
<1>9. caller'[c].flight = caller[c].flight
  BY <1>1, <1>5
<1> QED  BY <1>2, <1>6, <1>7, <1>8, <1>9, QuietCruises, CruiseInvariant DEF Quiet

LEMMA ReturnKeeps ==
  ASSUME IInv, NEW c \in Caller, Return(c),
         UNCHANGED <<flights, started, registered, entries, fresh, rank, service>>
  PROVE  IInv'
<1>1. /\ \A d \in Caller : d # c => caller'[d] = caller[d]
      /\ caller'[c].pc = "idle"
      /\ caller' \in [Caller -> CallState]
  BY CallReturns DEF IInv
<1>2. Quiet(c)
  BY <1>1 DEF Quiet
<1>3. CacheTypes'
  BY <1>1 DEF IInv, CacheTypes
<1>4. CallSound(c)' /\ ~Owning(c)'
  BY <1>1 DEF CallSound, Owning
<1> QED  BY <1>1, <1>2, <1>3, <1>4, QuietCruises, CruiseInvariant

LEMMA ClockKeeps ==
  ASSUME IInv, NEW s \in Space, Expire(s) \/ Change(s)
  PROVE  IInv'
<1>1. \A t \in Space : service[t] \in Nat
  BY CacheAssumption DEF IInv, CacheTypes, Version
<1>2. CASE Expire(s)
  <2>1. CacheTypes'
    BY <1>2 DEF Expire, IInv, CacheTypes
  <2>2. Cruise
    BY <1>1, <1>2 DEF Expire, Cruise
  <2> QED  BY <1>2, <2>1, <2>2, CruiseOfNobody DEF Expire
<1>3. CASE Change(s)
  <2>1. service[s] + 1 \in Version
    BY <1>1, <1>3, CacheAssumption DEF Change, Version
  <2>2. CacheTypes'
    BY <1>3, <2>1 DEF Change, IInv, CacheTypes
  <2>3. \A t \in Space : service[t] <= service'[t]
    BY <1>1, <1>3 DEF Change, IInv, CacheTypes
  <2>4. Cruise
    BY <1>3, <2>3 DEF Change, Cruise
  <2> QED  BY <1>3, <2>2, <2>4, CruiseOfNobody DEF Change
<1> QED  BY <1>2, <1>3

LEMMA NextKeeps ==
  ASSUME IInv, [CacheNext]_cacheVars
  PROVE  IInv'
<1>1. CASE UNCHANGED cacheVars
  BY <1>1 DEF cacheVars, IInv, CacheTypes, RegisteredLatest, SupersededByRefresh, SingleFlight,
              EntriesSeeRefresh, CachedServed, OwnersDistinct, CallsSound, CallSound,
              Owning, NewerThanCached
<1>2. ASSUME NEW c \in Caller, NEW s \in Space, NEW refresh \in BOOLEAN, Start(c, s, refresh)
      PROVE  IInv'
  BY <1>2, StartTyped, StartFlights, StartCalls DEF IInv
<1>3. ASSUME NEW c \in Caller, Publish(c)
      PROVE  IInv'
  BY <1>3, PublishWrites, PublishFlights, PublishCalls DEF IInv
<1>4. ASSUME NEW c \in Caller, Wake(c) \/ Timeout(c)
      PROVE  IInv'
  BY <1>4, ReturnKeeps DEF Wake, Timeout
<1> QED  BY <1>1, <1>2, <1>3, <1>4, HitKeeps, JoinKeeps, ReadKeeps, ClockKeeps DEF CacheNext

----------------------------------------------------------------------------
(* The theorems.                                                           *)

\* The inductive invariant holds throughout (read_strategy_catalog and all
\* that runs beside it).
THEOREM Invariance == CacheSpec => []IInv
<1>1. CacheInit => IInv
  BY InitInvariant
<1>2. IInv /\ [CacheNext]_cacheVars => IInv'
  BY NextKeeps
<1> QED  BY <1>1, <1>2, PTL DEF CacheSpec

\* Two fetches of one namespace overlap only because of a refresh between them:
\* a miss joins the registered flight.
THEOREM FlightsAreShared == CacheSpec => []SingleFlight
<1>1. IInv => SingleFlight
  BY DEF IInv
<1> QED  BY <1>1, Invariance, PTL

\* Whoever calls after a refresh began is served by it or by a later flight,
\* although fetches started before it may still be under way.
THEOREM RefreshIsSeen == CacheSpec => []RefreshSeen
<1>1. IInv => RefreshSeen
  <2> SUFFICES ASSUME IInv, NEW s \in Space, NEW n \in 1..started,
                      flights[n].refresh, flights[n].space = s, Serves(s) # 0
               PROVE  n <= Serves(s)
    BY DEF RefreshSeen
  <2>1. CASE Valid(s)
    BY <2>1 DEF Serves, Valid, IInv, EntriesSeeRefresh
  <2>2. CASE ~Valid(s)
    BY <2>2 DEF Serves, IInv, RegisteredLatest
  <2> QED  BY <2>1, <2>2
<1> QED  BY <1>1, Invariance, PTL

\* A slow fetch that ends after a newer catalog was cached does not bring the
\* older one back.
THEOREM TableNeverGoesBack == CacheSpec => ServedVersionsGrow
<1> DEFINE Newer(s) ==
      entries'[s] \notin {0, entries[s]} =>
        \A n \in 1..started :
          flights[n].space = s /\ flights[n].status = "cached"
          => flights[n].version <= flights'[entries'[s]].version
<1>1. ASSUME IInv, CacheNext, NEW s \in Space
      PROVE  Newer(s)
  <2>1. ASSUME NEW c \in Caller, Publish(c)
        PROVE  Newer(s)
    <3>1. PICK f, reply : f = caller[c].flight /\ reply = caller[c].reply /\ Published(f, reply)
      BY <1>1, <2>1, PublishWrites
    <3>2. reply.kind = "catalog" => NewerThanCached(f, reply.version)
      BY <1>1, <2>1, <3>1 DEF IInv, CallsSound, CallSound, Publish
    <3> QED  BY <3>1, <3>2 DEF Published, NewerThanCached
  <2>2. ASSUME \A t \in Space : entries'[t] \in {0, entries[t]}
        PROVE  Newer(s)
    BY <2>2
  <2>3. CASE \E c \in Caller, t \in Space :
               Hit(c, t) \/ Join(c, t) \/ \E refresh \in BOOLEAN : Start(c, t, refresh)
    BY <1>1, <2>2, <2>3 DEF Hit, Join, Start, Pop, IInv, CacheTypes
  <2>4. CASE \E c \in Caller : Read(c) \/ Wake(c) \/ Timeout(c)
    BY <2>2, <2>4 DEF Read, Wake, Timeout
  <2>5. CASE \E t \in Space : Expire(t) \/ Change(t)
    BY <2>2, <2>5 DEF Expire, Change
  <2> QED  BY <1>1, <2>1, <2>3, <2>4, <2>5 DEF CacheNext
<1>2. IInv /\ [CacheNext]_cacheVars => [\A s \in Space : Newer(s)]_cacheVars
  BY <1>1
<1> QED  BY <1>2, Invariance, PTL DEF CacheSpec, ServedVersionsGrow

=============================================================================
