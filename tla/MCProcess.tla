----------------------------- MODULE MCProcess -----------------------------
(* What the threads of one process share, side by side for TLC: its Runs,   *)
(* with the lease, the Evidence and the Trace windows, and its table of     *)
(* strategy catalogs.  A behaviour exercises one of the two, the other      *)
(* rests in an initial state.                                               *)
EXTENDS MCRunLifecycle, CatalogCache

\* A thread that fetches, one that refreshes over it and one that joins, on
\* two namespaces of which the table holds one.
Threads == {"main", "worker", "explorer"}

Namespaces == {"team", "guest"}

VARIABLE part  \* "runs" or "catalogs"

processVars == <<part, vars, cacheVars>>

\* The namespaces are alike: one of their two orders in the table will do.
ProcessInit ==
  /\ part \in {"runs", "catalogs"}
  /\ Init
  /\ CacheInit /\ rank["team"] = 1

ProcessNext ==
  /\ UNCHANGED part
  /\ \/ part = "runs" /\ Next /\ UNCHANGED cacheVars
     \/ part = "catalogs" /\ CacheNext /\ UNCHANGED vars

\* The two are fair on their own; neither waits for the other.
ProcessSpec == ProcessInit /\ [][ProcessNext]_processVars /\ Fairness /\ CacheFairness

=============================================================================
