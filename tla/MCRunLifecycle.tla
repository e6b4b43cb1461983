--------------------------- MODULE MCRunLifecycle ---------------------------
(* Small instances of RunLifecycle for TLC.                                *)
EXTENDS RunLifecycle, TLC

CONSTANTS a, b, p1

MCAlone == a :> p1

\* Two Runs of one process, which share its Trace capture.
MCTogether == (a :> p1) @@ (b :> p1)

=============================================================================
