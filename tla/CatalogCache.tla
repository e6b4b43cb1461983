---------------------------- MODULE CatalogCache ----------------------------
(***************************************************************************)
(* The process-wide cache of strategy catalogs (read_strategy_catalog):    *)
(* one bounded LRU table and one table of flights per process.  A caller   *)
(* is served from the table, joins the registered flight of its namespace, *)
(* or starts a flight of its own; an explicit refresh always starts one    *)
(* and supersedes the registered one.  The lock covers the table accesses, *)
(* never the network, so threads interleave between start, answer,         *)
(* publication and wake-up.                                                *)
(*                                                                         *)
(* Abstractions: a namespace stands for (base URL, credential); the 60     *)
(* seconds of an entry end at any time; a flight is named by its turn to   *)
(* be registered, and the table of flights keeps those that are over, so   *)
(* that what was cached when can be told.  Custom transports bypass all    *)
(* of this and are left out.                                               *)
(***************************************************************************)
EXTENDS Naturals, FiniteSets

CONSTANTS
  Caller,     \* threads that create Runs or discover strategies
  Space,      \* namespaces
  Capacity,   \* _CAPACITY
  MaxFlights, \* bound on flights
  MaxVersion  \* bound on changes of the service's catalog

ASSUME CacheAssumption ==
  /\ IsFiniteSet(Space)
  /\ Capacity \in Nat
  /\ MaxFlights \in Nat
  /\ MaxVersion \in Nat

VARIABLES
  caller,     \* each thread: where it is, its flight, the answer it fetched
  flights,    \* the flights by number
  started,    \* flights so far
  registered, \* _FLIGHTS: the flight of each namespace, 0 if none
  entries,    \* _ENTRIES: the flight each entry was fetched by, 0 if none
  fresh,      \* entries whose time has not run out
  rank,       \* position of each namespace in the LRU order
  service     \* the catalog version the service serves to each namespace

cacheVars == <<caller, flights, started, registered, entries, fresh, rank, service>>

----------------------------------------------------------------------------
(* State.                                                                  *)

Number == 1..MaxFlights
Version == 0..MaxVersion

\* "cached" and "value" have both published a value, the former into the table.
Flight ==
  [space: Space, refresh: BOOLEAN, status: {"open", "cached", "value", "error"},
   version: Version]

\* "legacy" is a valid response that is never cached, "failed" any exception.
Reply == [kind: {"none", "catalog", "legacy", "failed"}, version: Version]

NoReply == [kind |-> "none", version |-> 0]
Failed == [kind |-> "failed", version |-> 0]

\* flight is the one whose outcome the call returns, 0 between calls.
CallState == [pc: {"idle", "fetching", "publishing", "waiting"}, flight: {0} \union Number, reply: Reply]

CacheTypes ==
  /\ caller \in [Caller -> CallState]
  /\ started \in {0} \union Number
  /\ flights \in [1..started -> Flight]
  /\ registered \in [Space -> 0..started]
  /\ entries \in [Space -> 0..started]
  /\ fresh \subseteq Space
  /\ rank \in [Space -> Nat]
  /\ service \in [Space -> Version]

CacheInit ==
  /\ caller = [c \in Caller |-> [pc |-> "idle", flight |-> 0, reply |-> NoReply]]
  /\ started = 0
  /\ flights = [n \in 1..0 |-> {}]
  /\ registered = [s \in Space |-> 0]
  /\ entries = [s \in Space |-> 0]
  /\ fresh = {}
  /\ rank \in {f \in [Space -> 1..Cardinality(Space)] : \A s, t \in Space : f[s] = f[t] => s = t}
  /\ service = [s \in Space |-> 0]

----------------------------------------------------------------------------
(* Helpers.                                                                *)

Return(c) == caller' = [caller EXCEPT ![c] = [pc |-> "idle", flight |-> 0, reply |-> NoReply]]

Continues(c, pc, f, reply) ==
  caller' = [caller EXCEPT ![c] = [pc |-> pc, flight |-> f, reply |-> reply]]

\* An entry that may be served.
Valid(s) == entries[s] # 0 /\ s \in fresh

\* The flight a call that begins now would be answered from, 0 if it must start one.
Serves(s) == IF Valid(s) THEN entries[s] ELSE registered[s]

\* OrderedDict.move_to_end
MovedToEnd(s) ==
  [t \in Space |-> IF t = s THEN Cardinality(Space)
                   ELSE IF rank[t] > rank[s] THEN rank[t] - 1
                   ELSE rank[t]]

\* Mutant: a refresh keeps the entry it is about to replace.
MutPop(s) == UNCHANGED entries

Pop(s) == entries' = [entries EXCEPT ![s] = 0]

\* Insert an entry and evict the least recently used ones above the capacity.
Insert(s, f) ==
  LET with   == [entries EXCEPT ![s] = f]
      filled == {t \in Space : with[t] # 0}
      newer(t) == {u \in filled : MovedToEnd(s)[u] >= MovedToEnd(s)[t]}
  IN entries' = [t \in Space |-> IF Cardinality(newer(t)) > Capacity THEN 0 ELSE with[t]]

----------------------------------------------------------------------------
(* read_strategy_catalog under the lock.                                   *)

Hit(c, s) ==
  /\ caller[c].pc = "idle"
  /\ Valid(s)
  /\ rank' = MovedToEnd(s)
  /\ UNCHANGED <<caller, flights, started, registered, entries, fresh, service>>

\* Mutant: a miss fetches although somebody is fetching.
MutOwner(s, refresh) == refresh \/ ~Valid(s)

\* A refresh, or a miss while nobody fetches, starts a flight.
Owner(s, refresh) == refresh \/ (~Valid(s) /\ registered[s] = 0)

Start(c, s, refresh) ==
  LET n == started + 1
  IN /\ caller[c].pc = "idle"
     /\ n \in Number
     /\ Owner(s, refresh)
     /\ Pop(s)
     /\ started' = n
     /\ flights' = [m \in 1..n |-> IF m = n
                      THEN [space |-> s, refresh |-> refresh, status |-> "open", version |-> 0]
                      ELSE flights[m]]
     /\ registered' = [registered EXCEPT ![s] = n]
     /\ Continues(c, "fetching", n, NoReply)
     /\ UNCHANGED <<fresh, rank, service>>

\* A miss while a flight is registered waits for it.
Join(c, s) ==
  /\ caller[c].pc = "idle"
  /\ ~Valid(s)
  /\ registered[s] # 0
  /\ Pop(s)
  /\ Continues(c, "waiting", registered[s], NoReply)
  /\ UNCHANGED <<flights, started, registered, fresh, rank, service>>

----------------------------------------------------------------------------
(* The owner of a flight.                                                  *)

\* _read_validated: the service's answer, or any exception.
Read(c) ==
  /\ caller[c].pc = "fetching"
  /\ \E kind \in {"catalog", "legacy", "failed"} :
       Continues(c, "publishing", caller[c].flight,
            IF kind = "failed" THEN Failed
            ELSE [kind |-> kind, version |-> service[flights[caller[c].flight].space]])
  /\ UNCHANGED <<flights, started, registered, entries, fresh, rank, service>>

\* Mutant: an older flight publishes into the table all the same.
MutFenced(f) == FALSE

\* A later flight has taken over, or nothing is registered any more.
Fenced(f) == registered[flights[f].space] # f

\* Mutant: an error is handed to the owner only.
MutOutcome(reply, fenced) ==
  IF reply.kind = "failed" THEN "open"
  ELSE IF reply.kind = "catalog" /\ ~fenced THEN "cached"
  ELSE "value"

Outcome(reply, fenced) ==
  IF reply.kind = "failed" THEN "error"
  ELSE IF reply.kind = "catalog" /\ ~fenced THEN "cached"
  ELSE "value"

Publish(c) ==
  LET f == caller[c].flight
      s == flights[f].space
      reply == caller[c].reply
  IN /\ caller[c].pc = "publishing"
     /\ flights' = [flights EXCEPT ![f].status = Outcome(reply, Fenced(f)), ![f].version = reply.version]
     /\ IF Fenced(f) THEN UNCHANGED <<registered, entries, fresh, rank>>
        ELSE /\ registered' = [registered EXCEPT ![s] = 0]
             /\ IF reply.kind = "catalog"
                THEN Insert(s, f) /\ fresh' = fresh \union {s} /\ rank' = MovedToEnd(s)
                ELSE /\ IF reply.kind = "failed" THEN Pop(s) ELSE UNCHANGED entries
                     /\ UNCHANGED <<fresh, rank>>
     /\ Return(c)
     /\ UNCHANGED <<started, service>>

----------------------------------------------------------------------------
(* Those who wait (_await_flight).                                         *)

Wake(c) ==
  /\ caller[c].pc = "waiting"
  /\ flights[caller[c].flight].status # "open"
  /\ Return(c)
  /\ UNCHANGED <<flights, started, registered, entries, fresh, rank, service>>

\* After min(30 s, timeout); the flight goes on.
Timeout(c) ==
  /\ caller[c].pc = "waiting"
  /\ flights[caller[c].flight].status = "open"
  /\ Return(c)
  /\ UNCHANGED <<flights, started, registered, entries, fresh, rank, service>>

----------------------------------------------------------------------------
(* The clock and the service.                                              *)

\* _TTL has passed.
Expire(s) ==
  /\ Valid(s)
  /\ fresh' = fresh \ {s}
  /\ UNCHANGED <<caller, flights, started, registered, entries, rank, service>>

Change(s) ==
  /\ service[s] < MaxVersion
  /\ service' = [service EXCEPT ![s] = @ + 1]
  /\ UNCHANGED <<caller, flights, started, registered, entries, fresh, rank>>

----------------------------------------------------------------------------

CacheNext ==
  \/ \E c \in Caller, s \in Space :
       \/ Hit(c, s)
       \/ Join(c, s)
       \/ \E refresh \in BOOLEAN : Start(c, s, refresh)
  \/ \E c \in Caller : Read(c) \/ Publish(c) \/ Wake(c) \/ Timeout(c)
  \/ \E s \in Space : Expire(s) \/ Change(s)

CacheSpec == CacheInit /\ [][CacheNext]_cacheVars

\* Requests end (the transport has timeouts) and threads run; nobody's wait
\* has to time out.
CacheFairness ==
  \A c \in Caller : WF_cacheVars(Read(c) \/ Publish(c)) /\ WF_cacheVars(Wake(c))

----------------------------------------------------------------------------
(* Properties.                                                             *)

\* Two fetches of one namespace overlap only because of a refresh after the
\* first: a miss never repeats a request that is under way.
SingleFlight ==
  \A m, n \in 1..started :
    ( /\ m < n
      /\ flights[m].space = flights[n].space
      /\ flights[m].status = "open"
      /\ flights[n].status = "open" )
    => \E k \in m + 1..n : flights[k].refresh /\ flights[k].space = flights[m].space

\* However fetches overlap, what the table serves never goes back to an older
\* catalog: an answer is cached only if nothing newer was cached before it ("New
\* refresh generations fence older completions").
ServedVersionsGrow ==
  [][\A s \in Space :
       entries'[s] \notin {0, entries[s]} =>
         \A n \in 1..started :
           flights[n].space = s /\ flights[n].status = "cached"
           => flights[n].version <= flights'[entries'[s]].version]_cacheVars

\* A call that begins once a refresh has begun is served by that refresh or by
\* a later flight, whether it finds an entry or joins the registered flight.
RefreshSeen ==
  \A s \in Space, n \in 1..started :
    flights[n].refresh /\ flights[n].space = s => Serves(s) = 0 \/ n <= Serves(s)

\* Whoever waits is woken by the outcome of the flight it joined, superseded
\* or not, failed or not.
WaitersReleased ==
  \A c \in Caller : caller[c].pc = "waiting" ~> caller[c].pc = "idle"

=============================================================================
