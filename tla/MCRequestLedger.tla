-------------------------- MODULE MCRequestLedger --------------------------
(* Small instances of RequestLedger for TLC.                               *)
EXTENDS RequestLedger, TLC

CONSTANTS h1, run1, b1, b2, b3

Legacy   == [kind |-> "legacy", subject |-> None, body |-> b1]
Explicit == [kind |-> "explicit", subject |-> h1, body |-> b2]
Judge    == [kind |-> "judgment", subject |-> run1, body |-> b2]
\* The same Run with other Evidence.
Rejudge  == [kind |-> "judgment", subject |-> run1, body |-> b3]

MCLegacyJudge == {Legacy, Judge}
MCLegacy      == {Legacy}
MCJudge       == {Judge}
MCJudges      == {Judge, Rejudge}
MCExplicitJudges == {Explicit, Judge, Rejudge}
MCLegacyExplicit == {Legacy, Explicit}

Symmetry == Permutations(Key) \union Permutations(Op)

=============================================================================
