--------------------------- MODULE MCTraceCapture ---------------------------
(* Small instances of TraceCapture for TLC: a root with two children, one   *)
(* of them a boundary with a failing child; bodies of one and two bytes.    *)
EXTENDS TraceCapture, TLC

\* 1 is the root; 2 and 3 are its children, 4 is a child of 3; 5 is alone.
MCParent == 1 :> 0 @@ 2 :> 1 @@ 3 :> 1 @@ 4 :> 3 @@ 5 :> 0

MCBodySize == 1 :> 0 @@ 2 :> 1 @@ 3 :> 2 @@ 4 :> 0 @@ 5 :> 2

MCPair == {{1, 3}}

MCWorkloads == {{1, 2, 3}, {1, 3, 4}, {2, 3, 11}, {11, 12, 13}}

=============================================================================
