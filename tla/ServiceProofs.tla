---------------------------- MODULE ServiceProofs ----------------------------
(***************************************************************************)
(* Proofs about what a process asks of the service and what it keeps of    *)
(* it: how a Case is asked for (CaseGeneration), what a judgment uploads   *)
(* (JudgeUpload), and how a Case or an observation is saved (CaseFiles).   *)
(* The three share no state; each has an inductive invariant of its own.   *)
(*                                                                         *)
(* IInv, of saves, says of each call where the names of its file can be -  *)
(* the temporary name until the clean-up, the destination once it is       *)
(* published, both in the directory that is pinned - and what its          *)
(* descriptor's file holds at each step.  GInv, of Cases, says what the    *)
(* payload of every record and attempt is a payload of.  UInv, of uploads, *)
(* ties every body that was sealed or sent to the configuration its Judge  *)
(* call has read; what such a body says is then a matter of data.          *)
(***************************************************************************)
EXTENDS CaseFiles, CaseGeneration, JudgeUpload, DataLemmas, SequenceTheorems

----------------------------------------------------------------------------
(* Saving a file.                                                          *)


Early == {"idle", "resolved", "pinned", "open"}
Filled == {"full", "ready", "linked", "identified", "complete", "saved"}

\* A temporary name denotes the file of its call, unless a program took it.
TemporaryNames ==
  \A d \in Directory, s \in Saver : names[d][s] \in {s, "nobody", "foreign"}

\* How far a call is.
PhaseOf(s) ==
  /\ saves[s].created => saves[s].pc \notin Early \cup {"refused"}
  /\ saves[s].published =>
       /\ saves[s].created
       /\ saves[s].pc \in {"linked", "identified", "complete", "saved", "failed", "dead"}
  /\ saves[s].pc \in Filled => saves[s].created /\ written[s] = "whole"
  /\ saves[s].pc \in {"created", "verified"} => saves[s].created

\* Where the names of its file are.
NamesOf(s) ==
  \A d \in Directory, e \in Entry :
    names[d][e] = s =>
      /\ d = saves[s].dir /\ saves[s].created
      /\ e # s => saves[s].published /\ e = saves[s].target /\ written[s] = "whole"

\* Which of them are gone in the end.
ClearedOf(s) ==
  /\ saves[s].pc \in {"refused", "failed"} => \A d \in Directory, e \in Entry : names[d][e] # s
  /\ saves[s].pc = "saved" => \A d \in Directory : names[d][s] # s

Save ==
  [pc: Steps, target: FileName, dir: Directory, created: BOOLEAN, published: BOOLEAN,
   replaced: BOOLEAN]

\* No program took a name around the link of a call to this destination.
Untouched(n) == \A t \in Saver : saves[t].target = n => ~saves[t].replaced

\* Which of them are there, as long as no program took one.
HoldsOf(s) ==
  /\ ~saves[s].replaced /\ saves[s].pc = "ready" => names[saves[s].dir][s] = s
  /\ Untouched(saves[s].target) /\ saves[s].pc \in {"linked", "identified"} =>
       names[saves[s].dir][saves[s].target] = s

CallOf(s) == PhaseOf(s) /\ NamesOf(s) /\ ClearedOf(s) /\ HoldsOf(s)

IInv == CaseTypeOK /\ TemporaryNames /\ \A s \in Saver : CallOf(s)

----------------------------------------------------------------------------
(* The invariant holds.                                                    *)

LEMMA InitInvariant == CaseInit => IInv
<1> SUFFICES ASSUME CaseInit PROVE IInv  OBVIOUS
<1> USE CaseAssumption DEF CaseInit, NoSave, Entry, Holder, Directory
<1>1. CaseTypeOK
  BY DEF CaseTypeOK, Steps
<1>2. TemporaryNames
  BY DEF TemporaryNames
<1>3. ASSUME NEW s \in Saver PROVE CallOf(s)
  BY <1>3 DEF CallOf, PhaseOf, NamesOf, ClearedOf, HoldsOf, Filled
<1> QED  BY <1>1, <1>2, <1>3 DEF IInv

\* A call that refuses at once or resolves its path touches no name.
LEMMA ResolveKeeps ==
  ASSUME IInv, NEW s \in Saver, Resolve(s)
  PROVE  IInv'
<1> USE CaseAssumption DEF IInv, CaseTypeOK, Entry, Holder, Directory, Steps, Resolve, Proceed
<1>1. CaseTypeOK'  OBVIOUS
<1>2. TemporaryNames'  BY DEF TemporaryNames
<1>3. ASSUME NEW t \in Saver PROVE CallOf(t)'
  <2>0. CallOf(t)  OBVIOUS
  <2>1. PhaseOf(t)'
    BY <2>0 DEF CallOf, PhaseOf, Early, Filled
  <2>2. NamesOf(t)'
    BY <2>0 DEF CallOf, NamesOf, PhaseOf, TemporaryNames, Early, Filled
  <2>3. ClearedOf(t)'
    BY <2>0 DEF CallOf, ClearedOf, NamesOf, PhaseOf, TemporaryNames, Early
  <2>4. HoldsOf(t)'
    <3>1. \A x \in Saver : saves'[x].target = saves[x].target /\ saves'[x].replaced = saves[x].replaced
      OBVIOUS
    <3>2. Untouched(saves[t].target)' => Untouched(saves[t].target)
      BY <3>1 DEF Untouched
    <3>3. ~saves'[t].replaced /\ saves'[t].pc = "ready" => names'[saves'[t].dir][t] = t
      BY <2>0 DEF CallOf, HoldsOf
    <3>4. Untouched(saves[t].target) /\ saves'[t].pc \in {"linked", "identified"} =>
            names'[saves'[t].dir][saves'[t].target] = t
      BY <2>0 DEF CallOf, HoldsOf, Untouched
    <3> QED  BY <3>1, <3>2, <3>3, <3>4 DEF HoldsOf
  <2> QED  BY <2>1, <2>2, <2>3, <2>4 DEF CallOf
<1> QED  BY <1>1, <1>2, <1>3 DEF IInv

\* Pinning takes a directory in which the call has no name yet.
LEMMA PinKeeps ==
  ASSUME IInv, NEW s \in Saver, Pin(s)
  PROVE  IInv'
<1>1. CaseTypeOK'
  <2>1. saves \in [Saver -> Save] /\ s \in Saver /\ saves[s] \in Save
    BY DEF IInv, CaseTypeOK, Save
  <2>2. PICK r \in Save : saves' = [saves EXCEPT ![s] = r]
    <3> DEFINE r == [saves[s] EXCEPT !.pc = "pinned", !.dir = placed]
    <3>1. r \in Save
      BY <2>1 DEF Save, Steps, Pin, IInv, CaseTypeOK
    <3>2. saves' = [saves EXCEPT ![s] = r]
      BY <2>1 DEF Pin
    <3> QED  BY <3>1, <3>2
  <2>3. saves' \in [Saver -> Save]
    BY <2>1, <2>2
  <2>4. names' \in [Directory -> [Entry -> Holder]]
    BY DEF IInv, CaseTypeOK, Save, Entry, Holder, Pin
  <2> QED  BY <2>3, <2>4 DEF Save, IInv, CaseTypeOK, Pin
<1> USE CaseAssumption DEF IInv, CaseTypeOK, Entry, Holder, Directory, Steps, Pin
<1>2. TemporaryNames'  BY DEF TemporaryNames
<1>3. ASSUME NEW t \in Saver PROVE CallOf(t)'
  <2>0. CallOf(t)  OBVIOUS
  <2>1. PhaseOf(t)'
    BY <2>0 DEF CallOf, PhaseOf, Early, Filled
  <2>2. NamesOf(t)'
    BY <2>0 DEF CallOf, NamesOf, PhaseOf, TemporaryNames, Early, Filled
  <2>3. ClearedOf(t)'
    BY <2>0 DEF CallOf, ClearedOf, NamesOf, PhaseOf, TemporaryNames, Early
  <2>4. HoldsOf(t)'
    <3>1. \A x \in Saver : saves'[x].target = saves[x].target /\ saves'[x].replaced = saves[x].replaced
      OBVIOUS
    <3>2. Untouched(saves[t].target)' => Untouched(saves[t].target)
      BY <3>1 DEF Untouched
    <3>3. ~saves'[t].replaced /\ saves'[t].pc = "ready" => names'[saves'[t].dir][t] = t
      BY <2>0 DEF CallOf, HoldsOf
    <3>4. Untouched(saves[t].target) /\ saves'[t].pc \in {"linked", "identified"} =>
            names'[saves'[t].dir][saves'[t].target] = t
      BY <2>0 DEF CallOf, HoldsOf, Untouched
    <3> QED  BY <3>1, <3>2, <3>3, <3>4 DEF HoldsOf
  <2> QED  BY <2>1, <2>2, <2>3, <2>4 DEF CallOf
<1> QED  BY <1>1, <1>2, <1>3 DEF IInv

\* The comparison of the pinned directory decides before there is a file.
LEMMA CompareKeeps ==
  ASSUME IInv, NEW s \in Saver, Compare(s)
  PROVE  IInv'
<1> USE CaseAssumption DEF IInv, CaseTypeOK, Entry, Holder, Directory, Steps, Compare, Proceed
<1>1. CaseTypeOK'  OBVIOUS
<1>2. TemporaryNames'  BY DEF TemporaryNames
<1>3. ASSUME NEW t \in Saver PROVE CallOf(t)'
  <2>0. CallOf(t)  OBVIOUS
  <2>1. PhaseOf(t)'
    BY <2>0 DEF CallOf, PhaseOf, Early, Filled
  <2>2. NamesOf(t)'
    BY <2>0 DEF CallOf, NamesOf, PhaseOf, TemporaryNames, Early, Filled
  <2>3. ClearedOf(t)'
    BY <2>0 DEF CallOf, ClearedOf, NamesOf, PhaseOf, TemporaryNames, Early
  <2>4. HoldsOf(t)'
    BY <2>0 DEF CallOf, HoldsOf, NamesOf, PhaseOf, TemporaryNames, Untouched, Early, Filled
  <2> QED  BY <2>1, <2>2, <2>3, <2>4 DEF CallOf
<1> QED  BY <1>1, <1>2, <1>3 DEF IInv

\* The temporary name is the first of the file.
LEMMA CreateTemporaryKeeps ==
  ASSUME IInv, NEW s \in Saver, CreateTemporary(s)
  PROVE  IInv'
<1>1. CaseTypeOK'
  <2>1. saves \in [Saver -> Save] /\ s \in Saver /\ saves[s] \in Save
    BY DEF IInv, CaseTypeOK, Save
  <2>2. PICK r \in Save : saves' = [saves EXCEPT ![s] = r]
    <3> DEFINE r == [saves[s] EXCEPT !.pc = "created", !.created = TRUE]
    <3>1. r \in Save
      BY <2>1 DEF Save, Steps, CreateTemporary, Denotes, IInv, CaseTypeOK
    <3>2. saves' = [saves EXCEPT ![s] = r]
      BY <2>1 DEF CreateTemporary, Denotes
    <3> QED  BY <3>1, <3>2
  <2>3. saves' \in [Saver -> Save]
    BY <2>1, <2>2
  <2>4. names' \in [Directory -> [Entry -> Holder]]
    BY DEF IInv, CaseTypeOK, Save, Entry, Holder, CreateTemporary, Denotes
  <2> QED  BY <2>3, <2>4 DEF Save, IInv, CaseTypeOK, CreateTemporary, Denotes
<1> USE CaseAssumption DEF IInv, CaseTypeOK, Entry, Holder, Directory, Steps, CreateTemporary, Denotes
<1>2. TemporaryNames'  BY DEF TemporaryNames
<1>3. ASSUME NEW t \in Saver PROVE CallOf(t)'
  <2>0. CallOf(t)  OBVIOUS
  <2>1. PhaseOf(t)'
    BY <2>0 DEF CallOf, PhaseOf, Early, Filled
  <2>2. NamesOf(t)'
    BY <2>0 DEF CallOf, NamesOf, PhaseOf, TemporaryNames, Early, Filled
  <2>3. ClearedOf(t)'
    BY <2>0 DEF CallOf, ClearedOf, NamesOf, PhaseOf, TemporaryNames, Early
  <2>4. HoldsOf(t)'
    BY <2>0 DEF CallOf, HoldsOf, NamesOf, PhaseOf, TemporaryNames, Untouched, Early, Filled
  <2> QED  BY <2>1, <2>2, <2>3, <2>4 DEF CallOf
<1> QED  BY <1>1, <1>2, <1>3 DEF IInv

\* The file is written before it has the destination's name.
LEMMA WritePartsKeeps ==
  ASSUME IInv, NEW s \in Saver, WriteParts(s)
  PROVE  IInv'
<1> USE CaseAssumption DEF IInv, CaseTypeOK, Entry, Holder, Directory, Steps, WriteParts, Proceed
<1>1. CaseTypeOK'  OBVIOUS
<1>2. TemporaryNames'  BY DEF TemporaryNames
<1>3. ASSUME NEW t \in Saver PROVE CallOf(t)'
  <2>0. CallOf(t)  OBVIOUS
  <2>1. PhaseOf(t)'
    BY <2>0 DEF CallOf, PhaseOf, Early, Filled
  <2>2. NamesOf(t)'
    <3>1. written[t] = "whole" => written'[t] = "whole"
      OBVIOUS
    <3>2. \/ saves'[t] = saves[t]
          \/ saves'[t].dir = saves[t].dir /\ saves'[t].created = saves[t].created
             /\ saves'[t].published = saves[t].published /\ saves'[t].target = saves[t].target
      OBVIOUS
    <3> QED  BY <2>0, <3>1, <3>2 DEF CallOf, NamesOf
  <2>3. ClearedOf(t)'
    BY <2>0 DEF CallOf, ClearedOf, NamesOf, PhaseOf, TemporaryNames, Early
  <2>4. HoldsOf(t)'
    <3>1. \A x \in Saver : saves'[x].target = saves[x].target /\ saves'[x].replaced = saves[x].replaced
      OBVIOUS
    <3>2. Untouched(saves[t].target)' => Untouched(saves[t].target)
      BY <3>1 DEF Untouched
    <3>3. ~saves'[t].replaced /\ saves'[t].pc = "ready" => names'[saves'[t].dir][t] = t
      BY <2>0 DEF CallOf, HoldsOf
    <3>4. Untouched(saves[t].target) /\ saves'[t].pc \in {"linked", "identified"} =>
            names'[saves'[t].dir][saves'[t].target] = t
      BY <2>0 DEF CallOf, HoldsOf, Untouched
    <3> QED  BY <3>1, <3>2, <3>3, <3>4 DEF HoldsOf
  <2> QED  BY <2>1, <2>2, <2>3, <2>4 DEF CallOf
<1> QED  BY <1>1, <1>2, <1>3 DEF IInv

\* The destination gets the name's file, whole, where there was none.
LEMMA PublishNameKeeps ==
  ASSUME IInv, NEW s \in Saver, PublishName(s)
  PROVE  IInv'
<1>1. CaseTypeOK'
  <2>1. saves \in [Saver -> Save] /\ s \in Saver /\ saves[s] \in Save
    BY DEF IInv, CaseTypeOK, Save
  <2>2. PICK r \in Save : saves' = [saves EXCEPT ![s] = r]
    <3> DEFINE r == [saves[s] EXCEPT !.pc = "linked", !.published = TRUE]
    <3>1. r \in Save
      BY <2>1 DEF Save, Steps, PublishName, Denotes, Vacant, IInv, CaseTypeOK
    <3>2. saves' = [saves EXCEPT ![s] = r]
      BY <2>1 DEF PublishName, Denotes, Vacant
    <3> QED  BY <3>1, <3>2
  <2>3. saves' \in [Saver -> Save]
    BY <2>1, <2>2
  <2>4. names' \in [Directory -> [Entry -> Holder]]
    <3>1. names[saves[s].dir][s] \in Holder /\ saves[s].target \in Entry /\ saves[s].dir \in Directory
      BY <2>1 DEF IInv, CaseTypeOK, Save, Entry
    <3> QED  BY <3>1 DEF IInv, CaseTypeOK, PublishName, Denotes, Vacant
  <2> QED  BY <2>3, <2>4 DEF Save, IInv, CaseTypeOK, PublishName, Denotes, Vacant
<1> USE CaseAssumption DEF IInv, CaseTypeOK, Entry, Holder, Directory, Steps, PublishName, Denotes, Vacant
<1>2. TemporaryNames'  BY DEF TemporaryNames
<1>3. ASSUME NEW t \in Saver PROVE CallOf(t)'
  <2>0. CallOf(t)  OBVIOUS
  <2>1. PhaseOf(t)'
    BY <2>0 DEF CallOf, PhaseOf, Early, Filled
  <2>2. NamesOf(t)'
    BY <2>0 DEF CallOf, NamesOf, PhaseOf, TemporaryNames, Early, Filled
  <2>3. ClearedOf(t)'
    BY <2>0 DEF CallOf, ClearedOf, NamesOf, PhaseOf, TemporaryNames, Early
  <2>4. HoldsOf(t)'
    <3>1. \A x \in Saver : saves'[x].target = saves[x].target /\ saves'[x].replaced = saves[x].replaced
      OBVIOUS
    <3>2. Untouched(saves[t].target)' => Untouched(saves[t].target)
      BY <3>1 DEF Untouched
    <3>3. ~saves'[t].replaced /\ saves'[t].pc = "ready" => names'[saves'[t].dir][t] = t
      BY <2>0 DEF CallOf, HoldsOf
    <3>4. Untouched(saves[t].target) /\ saves'[t].pc \in {"linked", "identified"} =>
            names'[saves'[t].dir][saves'[t].target] = t
      <4>1. CASE t = s
        BY <2>0, <4>1 DEF CallOf, HoldsOf, Untouched
      <4>2. CASE t # s
        BY <2>0, <4>2 DEF CallOf, HoldsOf, Untouched
      <4> QED  BY <4>1, <4>2
    <3> QED  BY <3>1, <3>2, <3>3, <3>4 DEF HoldsOf
  <2> QED  BY <2>1, <2>2, <2>3, <2>4 DEF CallOf
<1> QED  BY <1>1, <1>2, <1>3 DEF IInv

\* A destination that was identified denotes the file.
LEMMA IdentifyKeeps ==
  ASSUME IInv, NEW s \in Saver, Identify(s)
  PROVE  IInv'
<1> USE CaseAssumption DEF IInv, CaseTypeOK, Entry, Holder, Directory, Steps, Identify, Denotes, Proceed
<1>1. CaseTypeOK'  OBVIOUS
<1>2. TemporaryNames'  BY DEF TemporaryNames
<1>3. ASSUME NEW t \in Saver PROVE CallOf(t)'
  <2>0. CallOf(t)  OBVIOUS
  <2>1. PhaseOf(t)'
    BY <2>0 DEF CallOf, PhaseOf, Early, Filled
  <2>2. NamesOf(t)'
    BY <2>0 DEF CallOf, NamesOf, PhaseOf, TemporaryNames, Early, Filled
  <2>3. ClearedOf(t)'
    BY <2>0 DEF CallOf, ClearedOf, NamesOf, PhaseOf, TemporaryNames, Early
  <2>4. HoldsOf(t)'
    BY <2>0 DEF CallOf, HoldsOf, NamesOf, PhaseOf, TemporaryNames, Untouched, Early, Filled
  <2> QED  BY <2>1, <2>2, <2>3, <2>4 DEF CallOf
<1> QED  BY <1>1, <1>2, <1>3 DEF IInv

\* The clean-up takes back every name of a file that was not verified, and the temporary name of any.
LEMMA CleanUpKeeps ==
  ASSUME IInv, NEW s \in Saver, CleanUp(s)
  PROVE  IInv'
<1> USE CaseAssumption DEF IInv, CaseTypeOK, Entry, Holder, Directory, Steps, CleanUp, Alive, Removed, Withdraws
<1>1. CaseTypeOK'  OBVIOUS
<1>2. TemporaryNames'  BY DEF TemporaryNames
<1>3. ASSUME NEW t \in Saver PROVE CallOf(t)'
  <2>0. CallOf(t)  OBVIOUS
  <2>1. PhaseOf(t)'
    <3>1. CASE t # s
      BY <2>0, <3>1 DEF CallOf, PhaseOf, Early, Filled
    <3>2. CASE t = s
      <4>1. saves'[s].created = saves[s].created /\ saves'[s].published = saves[s].published
        OBVIOUS
      <4>2. \/ saves[s].pc = "complete" /\ saves'[s].pc = "saved"
            \/ saves[s].pc # "complete" /\ saves[s].created /\ saves'[s].pc = "failed"
            \/ saves[s].pc # "complete" /\ ~saves[s].created /\ saves'[s].pc = "refused"
        OBVIOUS
      <4>3. saves[s].published => saves[s].created
        BY <2>0, <3>2 DEF CallOf, PhaseOf
      <4> QED  BY <2>0, <3>2, <4>1, <4>2, <4>3 DEF CallOf, PhaseOf, Early, Filled
    <3> QED  BY <3>1, <3>2
  <2>2. NamesOf(t)'
    BY <2>0 DEF CallOf, NamesOf, PhaseOf, TemporaryNames, Early, Filled
  <2>3. ClearedOf(t)'
    BY <2>0 DEF CallOf, ClearedOf, NamesOf, PhaseOf, TemporaryNames, Early
  <2>4. HoldsOf(t)'
    <3>1. \A x \in Saver : saves'[x].target = saves[x].target /\ saves'[x].replaced = saves[x].replaced
      OBVIOUS
    <3>2. Untouched(saves[t].target)' => Untouched(saves[t].target)
      BY <3>1 DEF Untouched
    <3>3. ~saves'[t].replaced /\ saves'[t].pc = "ready" => names'[saves'[t].dir][t] = t
      BY <2>0 DEF CallOf, HoldsOf
    <3>4. Untouched(saves[t].target) /\ saves'[t].pc \in {"linked", "identified"} =>
            names'[saves'[t].dir][saves'[t].target] = t
      <4> SUFFICES ASSUME Untouched(saves[t].target), saves'[t].pc \in {"linked", "identified"}
                   PROVE  names'[saves'[t].dir][saves'[t].target] = t
        OBVIOUS
      <4>1. t # s /\ saves'[t] = saves[t] /\ saves[t].pc \in {"linked", "identified"}
        OBVIOUS
      <4>2. names[saves[t].dir][saves[t].target] = t
        BY <2>0, <4>1 DEF CallOf, HoldsOf
      <4>3. CASE saves[s].dir = saves[t].dir /\ saves[t].target \in Removed(s)
        <5>1. saves[s].target = saves[t].target /\ Withdraws(s)
          BY <4>3
        <5>2. saves[s].pc \in {"linked", "identified"}
          BY <5>1 DEF CallOf, PhaseOf
        <5>3. names[saves[s].dir][saves[s].target] = s
          BY <5>1, <5>2 DEF CallOf, HoldsOf
        <5> QED  BY <4>1, <4>2, <4>3, <5>1, <5>3
      <4>4. CASE ~(saves[s].dir = saves[t].dir /\ saves[t].target \in Removed(s))
        <5> HIDE DEF Removed
        <5> QED  BY <4>1, <4>2, <4>4
      <4> QED  BY <4>3, <4>4
    <3> QED  BY <3>1, <3>2, <3>3, <3>4 DEF HoldsOf
  <2> QED  BY <2>1, <2>2, <2>3, <2>4 DEF CallOf
<1> QED  BY <1>1, <1>2, <1>3 DEF IInv

\* A process that dies leaves everything as it is.
LEMMA DieKeeps ==
  ASSUME IInv, NEW s \in Saver, Die(s)
  PROVE  IInv'
<1> USE CaseAssumption DEF IInv, CaseTypeOK, Entry, Holder, Directory, Steps, Die, Alive
<1>1. CaseTypeOK'  OBVIOUS
<1>2. TemporaryNames'  BY DEF TemporaryNames
<1>3. ASSUME NEW t \in Saver PROVE CallOf(t)'
  <2>0. CallOf(t)  OBVIOUS
  <2>1. PhaseOf(t)'
    BY <2>0 DEF CallOf, PhaseOf, Early, Filled
  <2>2. NamesOf(t)'
    BY <2>0 DEF CallOf, NamesOf, PhaseOf, TemporaryNames, Early, Filled
  <2>3. ClearedOf(t)'
    BY <2>0 DEF CallOf, ClearedOf, NamesOf, PhaseOf, TemporaryNames, Early
  <2>4. HoldsOf(t)'
    BY <2>0 DEF CallOf, HoldsOf, NamesOf, PhaseOf, TemporaryNames, Untouched, Early, Filled
  <2> QED  BY <2>1, <2>2, <2>3, <2>4 DEF CallOf
<1> QED  BY <1>1, <1>2, <1>3 DEF IInv

\* A foreign program can take a name, which is remembered, and never makes one for the file of a call.
LEMMA TouchKeeps ==
  ASSUME IInv, NEW d \in Directory, NEW e \in Entry, NEW owner \in {"nobody", "foreign"}, Touch(d, e, owner)
  PROVE  IInv'
<1> USE CaseAssumption DEF Entry, Holder, Directory
<1>0. \A x \in Saver :
        /\ saves'[x].pc = saves[x].pc /\ saves'[x].dir = saves[x].dir
        /\ saves'[x].target = saves[x].target
        /\ saves'[x].created = saves[x].created /\ saves'[x].published = saves[x].published
        /\ saves'[x].replaced = (saves[x].replaced \/ Unchecked(x, d, e))
  <2> TAKE x \in Saver
  <2>1. saves[x] \in Save
    BY DEF IInv, CaseTypeOK, Save
  <2>2. saves'[x] = [saves[x] EXCEPT !.replaced = saves[x].replaced \/ Unchecked(x, d, e)]
    BY DEF Touch
  <2> DEFINE taken == saves[x].replaced \/ Unchecked(x, d, e)
  <2>3. saves'[x] = [saves[x] EXCEPT !.replaced = taken]
    BY <2>2
  <2> HIDE DEF taken
  <2>4. saves'[x].replaced = taken /\ saves'[x].pc = saves[x].pc /\ saves'[x].dir = saves[x].dir
        /\ saves'[x].target = saves[x].target /\ saves'[x].created = saves[x].created
        /\ saves'[x].published = saves[x].published
    BY <2>1, <2>3 DEF Save
  <2> QED  BY <2>4 DEF taken
<1>a. names' = [names EXCEPT ![d][e] = owner] /\ written' = written /\ placed' = placed
  BY DEF Touch
<1>b. foreign' \in 0..MaxForeign
  BY DEF Touch, IInv, CaseTypeOK
<1>c. names \in [Directory -> [Entry -> Holder]] /\ written \in [Saver -> {"empty", "part", "whole"}]
      /\ placed \in Directory
  BY DEF IInv, CaseTypeOK
<1>1. CaseTypeOK'
  <2>1. saves \in [Saver -> Save]
    BY DEF Save, IInv, CaseTypeOK, Directory
  <2>2. ASSUME NEW x \in Saver PROVE saves'[x] \in Save
    <3>1. saves'[x] = [saves[x] EXCEPT !.replaced = saves[x].replaced \/ Unchecked(x, d, e)]
      BY DEF Touch
    <3>2. (saves[x].replaced \/ Unchecked(x, d, e)) \in BOOLEAN
      OBVIOUS
    <3> QED  BY <2>1, <3>1, <3>2 DEF Save
  <2>3. saves' \in [Saver -> Save]
    BY <2>2 DEF Touch
  <2>4. names' \in [Directory -> [Entry -> Holder]]
    BY <1>a, <1>c
  <2> QED  BY <1>a, <1>b, <1>c, <2>3, <2>4 DEF Save, CaseTypeOK
<1>2. TemporaryNames'
  BY <1>a, <1>c DEF TemporaryNames, IInv
<1>3. ASSUME NEW t \in Saver PROVE CallOf(t)'
  <2>0. CallOf(t)  BY DEF IInv
  <2>x. saves[t].target \in FileName /\ saves[t].dir \in Directory  BY DEF IInv, CaseTypeOK
  <2>1. PhaseOf(t)'
    BY <1>0, <1>a, <2>0 DEF CallOf, PhaseOf, Early, Filled
  <2>2. NamesOf(t)'
    BY <1>0, <1>a, <1>c, <2>0 DEF CallOf, NamesOf
  <2>3. ClearedOf(t)'
    BY <1>0, <1>a, <1>c, <2>0 DEF CallOf, ClearedOf
  <2>4. HoldsOf(t)'
    <3>1. Untouched(saves[t].target)' => Untouched(saves[t].target)
      BY <1>0 DEF Untouched
    <3>2. Untouched(saves[t].target)' => ~Unchecked(t, d, e)
      BY <1>0 DEF Untouched
    <3>3. ~saves'[t].replaced /\ saves'[t].pc = "ready" => names'[saves'[t].dir][t] = t
      BY <1>0, <1>a, <1>c, <2>0, <2>x DEF CallOf, HoldsOf, Unchecked
    <3>4. Untouched(saves[t].target)' /\ saves'[t].pc \in {"linked", "identified"} =>
            names'[saves'[t].dir][saves'[t].target] = t
      BY <1>0, <1>a, <1>c, <2>0, <2>x, <3>1, <3>2 DEF CallOf, HoldsOf, Unchecked
    <3> QED  BY <1>0, <3>3, <3>4 DEF HoldsOf
  <2> QED  BY <2>1, <2>2, <2>3, <2>4 DEF CallOf
<1> QED  BY <1>1, <1>2, <1>3 DEF IInv

\* Moving a directory away moves no name.
LEMMA SwapKeeps ==
  ASSUME IInv, Swap
  PROVE  IInv'
<1> USE CaseAssumption DEF IInv, CaseTypeOK, Entry, Holder, Directory, Steps, Swap
<1>1. CaseTypeOK'  OBVIOUS
<1>2. TemporaryNames'  BY DEF TemporaryNames
<1>3. ASSUME NEW t \in Saver PROVE CallOf(t)'
  <2>0. CallOf(t)  OBVIOUS
  <2>1. PhaseOf(t)'
    BY <2>0 DEF CallOf, PhaseOf, Early, Filled
  <2>2. NamesOf(t)'
    BY <2>0 DEF CallOf, NamesOf, PhaseOf, TemporaryNames, Early, Filled
  <2>3. ClearedOf(t)'
    BY <2>0 DEF CallOf, ClearedOf, NamesOf, PhaseOf, TemporaryNames, Early
  <2>4. HoldsOf(t)'
    BY <2>0 DEF CallOf, HoldsOf, NamesOf, PhaseOf, TemporaryNames, Untouched, Early, Filled
  <2> QED  BY <2>1, <2>2, <2>3, <2>4 DEF CallOf
<1> QED  BY <1>1, <1>2, <1>3 DEF IInv

\* Each verification is a step of a call that only moves it on.
LEMMA VerifyKeeps ==
  ASSUME IInv, NEW s \in Saver,
         \/ Verify(s, s, "created", "verified") \/ Verify(s, s, "full", "ready")
         \/ Verify(s, saves[s].target, "identified", "complete")
  PROVE  IInv'
<1> USE CaseAssumption DEF IInv, CaseTypeOK, Entry, Holder, Directory, Steps, Verify, Leads, Proceed
<1>1. CaseTypeOK'  OBVIOUS
<1>2. TemporaryNames'  BY DEF TemporaryNames
<1>3. ASSUME NEW t \in Saver PROVE CallOf(t)'
  <2>0. CallOf(t)  OBVIOUS
  <2>1. PhaseOf(t)'
    BY <2>0 DEF CallOf, PhaseOf, Early, Filled
  <2>2. NamesOf(t)'
    BY <2>0 DEF CallOf, NamesOf, PhaseOf, TemporaryNames, Early, Filled
  <2>3. ClearedOf(t)'
    BY <2>0 DEF CallOf, ClearedOf, NamesOf, PhaseOf, TemporaryNames, Early
  <2>4. HoldsOf(t)'
    BY <2>0 DEF CallOf, HoldsOf, NamesOf, PhaseOf, TemporaryNames, Untouched, Early, Filled
  <2> QED  BY <2>1, <2>2, <2>3, <2>4 DEF CallOf
<1> QED  BY <1>1, <1>2, <1>3 DEF IInv

\* Every step keeps the invariant.
LEMMA StepInvariant == IInv /\ [CaseNext]_caseVars => IInv'
<1> SUFFICES ASSUME IInv, [CaseNext]_caseVars PROVE IInv'  OBVIOUS
<1>1. ASSUME NEW s \in Saver, \/ Resolve(s) \/ Pin(s) \/ Compare(s) \/ CreateTemporary(s)
                             \/ WriteParts(s)
      PROVE  IInv'
  BY <1>1, ResolveKeeps, PinKeeps, CompareKeeps, CreateTemporaryKeeps, WritePartsKeeps
<1>2. ASSUME NEW s \in Saver, \/ PublishName(s) \/ Identify(s) \/ CleanUp(s) \/ Die(s)
      PROVE  IInv'
  BY <1>2, PublishNameKeeps, IdentifyKeeps, CleanUpKeeps, DieKeeps
<1>3. ASSUME NEW s \in Saver,
             \/ Verify(s, s, "created", "verified") \/ Verify(s, s, "full", "ready")
             \/ Verify(s, saves[s].target, "identified", "complete")
      PROVE  IInv'
  BY <1>3, VerifyKeeps
<1>4. ASSUME NEW d \in Directory, NEW e \in Entry, NEW owner \in {"nobody", "foreign"},
             Touch(d, e, owner)
      PROVE  IInv'
  BY <1>4, TouchKeeps
<1>5. CASE Swap
  BY <1>5, SwapKeeps
<1>6. CASE UNCHANGED caseVars
  BY <1>6 DEF caseVars, IInv, CaseTypeOK, TemporaryNames, CallOf, PhaseOf, NamesOf, ClearedOf,
              HoldsOf, Untouched
<1> QED  BY <1>1, <1>2, <1>3, <1>4, <1>5, <1>6 DEF CaseNext

\* The inductive invariant of saving a file holds in every reachable state, for
\* any savers, directories and names, whoever moves or takes a name meanwhile.
THEOREM CaseInvariance == CaseSpec => []IInv
BY InitInvariant, StepInvariant, PTL DEF CaseSpec

----------------------------------------------------------------------------
(* What it is for.                                                         *)

\* Every field keeps its type.
THEOREM CaseTypeCorrect == CaseSpec => []CaseTypeOK
<1>1. IInv => CaseTypeOK
  BY DEF IInv
<1> QED  BY <1>1, CaseInvariance, PTL

\* However calls, crashes and foreign programs interleave: no destination denotes
\* a part of a document, a failed call leaves no file, a successful one no
\* temporary name.
THEOREM SavesAreWhole == CaseSpec => []FilesAreWhole
<1>1. IInv => FilesAreWhole
  <2> SUFFICES ASSUME IInv PROVE FilesAreWhole  OBVIOUS
  <2>1. ASSUME NEW d \in Directory, NEW n \in FileName, names[d][n] \in Saver
        PROVE  written[names[d][n]] = "whole"
    BY <2>1, CaseAssumption DEF IInv, CallOf, NamesOf, Entry
  <2>2. ASSUME NEW d \in Directory, NEW s \in Saver
        PROVE  /\ saves[s].pc \in {"refused", "failed"} => \A e \in Entry : names[d][e] # s
               /\ saves[s].pc = "saved" => names[d][s] # s
    BY DEF IInv, CallOf, ClearedOf
  <2> QED  BY <2>1, <2>2 DEF FilesAreWhole
<1> QED  BY <1>1, CaseInvariance, PTL

\* What one step of a call may do to a destination.
OthersStep ==
  \A s \in Saver, d \in Directory, n \in FileName :
    saves'[s].pc # saves[s].pc /\ names'[d][n] # names[d][n] =>
      \/ names[d][n] = "nobody"
      \/ names[d][n] = s /\ saves[s].target = n
      \/ \E t \in Saver : saves[t].target = n /\ saves[t].replaced

\* No call takes a destination from the file of another one, unless a foreign
\* program took a name around the link of a call to that destination.
THEOREM SavesKeepOthers == CaseSpec => OthersAreKept
<1>1. IInv /\ [CaseNext]_caseVars => [OthersStep]_caseVars
  <2> SUFFICES ASSUME IInv, CaseNext,
                      NEW s \in Saver, NEW d \in Directory, NEW n \in FileName,
                      saves'[s].pc # saves[s].pc, names'[d][n] # names[d][n],
                      names[d][n] # "nobody", Untouched(n)
               PROVE  names[d][n] = s /\ saves[s].target = n
    BY DEF OthersStep, Untouched
  <2> USE CaseAssumption DEF IInv, CaseTypeOK, Entry, Holder
  <2>1. ASSUME NEW u \in Saver, PublishName(u) PROVE FALSE
    BY <2>1 DEF PublishName, Vacant, Denotes
  <2>2. ASSUME NEW u \in Saver, CleanUp(u) PROVE names[d][n] = s /\ saves[s].target = n
    <3>1. u = s
      BY <2>2 DEF CleanUp
    <3>2. d = saves[s].dir /\ n \in Removed(s)
      BY <2>2, <3>1 DEF CleanUp
    <3>3. n = saves[s].target /\ Withdraws(s)
      BY <3>2 DEF Removed
    <3>4. saves[s].pc \in {"linked", "identified"}
      BY <2>2, <3>1, <3>3 DEF CleanUp, Alive, Withdraws, CallOf, PhaseOf
    <3> QED  BY <3>2, <3>3, <3>4 DEF CallOf, HoldsOf
  <2>3. ASSUME NEW u \in Saver, CreateTemporary(u) PROVE FALSE
    BY <2>3 DEF CreateTemporary
  <2>4. ASSUME NEW u \in Saver, NEW e \in Entry, NEW owner \in {"nobody", "foreign"},
               NEW c \in Directory, Touch(c, e, owner)
        PROVE  FALSE
    BY <2>4 DEF Touch
  <2>5. names' = names \/ (\E u \in Saver : PublishName(u) \/ CleanUp(u) \/ CreateTemporary(u))
        \/ (\E c \in Directory, e \in Entry, owner \in {"nobody", "foreign"} : Touch(c, e, owner))
    BY DEF CaseNext, Resolve, Pin, Compare, WriteParts, Identify, Die, Verify, Swap
  <2> QED  BY <2>1, <2>2, <2>3, <2>4, <2>5
<1>2. CaseSpec => [][OthersStep]_caseVars
  BY <1>1, CaseInvariance, PTL DEF CaseSpec
<1> QED  BY <1>2 DEF OthersAreKept, OthersStep

----------------------------------------------------------------------------
(* Asking for a Case.                                                      *)

\* What a selection may be.
Selections == UNION {OfficialGroup(a, call) : a \in Adverts}

\* What the digest of this call's requests may be taken of.
Payloads ==
  {Payload(call, s, k, t) : s \in Selections, k \in {call.intrinsic, {}}, t \in 0..MaxChanges}

RequestOf(payload) == [payload |-> payload, validation |-> Validation(call, payload)]

\* A payload of the call as it would be asked for now, unless the service or the
\* repository changed.
Present(s, k) ==
  changes = 0 =>
    /\ s \in OfficialGroup(advert, call)
    /\ k = IF call.judged /\ call.intrinsic # {} /\ advert.bridged THEN call.intrinsic ELSE {}

Statuses == {"active", "succeeded", "failed"}
Remotes == {"none", "open", "done", "failed"}
Places == {"idle", "selected", "negotiated", "prepared", "starting", "polling"}

RecordType ==
  [payload: Payloads, validation: {Validation(call, p) : p \in Payloads}, status: Statuses,
   known: BOOLEAN, remote: Remotes, reply: Replies \cup {NoReply}]

Trying ==
  [pc: Places, selection: Selections \cup {NoSelection},
   capabilities: {call.intrinsic, {}}, limit: 0..DefaultSteps,
   request: {RequestOf(p) : p \in Payloads} \cup {Unasked}, record: 0..MaxAsked]

AttemptType == [now: Trying, catalogs: SUBSET Adverts]

StateType ==
  /\ call \in Calls /\ advert \in Adverts /\ asked \in Seq(RecordType)
  /\ Len(asked) <= MaxAsked /\ attempt \in AttemptType
  /\ changes \in 0..MaxChanges /\ tree \in 0..changes

\* A record binds its call's validation to its payload, and succeeded with a
\* Case that the validation takes; while nothing changed its payload is the
\* one there is.
RecordOf(r) ==
  /\ r.validation = Validation(call, r.payload)
  /\ r.status = "succeeded" =>
       r.remote = "done" /\ NormalizedCase(r.reply, r.validation)

PayloadNow(p) ==
  changes = 0 => \E s \in Selections, k \in {call.intrinsic, {}} :
                   Present(s, k) /\ p = Payload(call, s, k, 0)

\* How far an attempt is.
AttemptOf(now) ==
  /\ now.record = 0 \/ now.record \in DOMAIN asked
  /\ now.pc \in {"selected", "negotiated"} => now.selection \in Selections
  /\ now.pc \in {"selected", "negotiated"} /\ changes = 0 =>
       now.selection \in OfficialGroup(advert, call)
  /\ now.pc = "negotiated" => Present(now.selection, now.capabilities)
  /\ now.pc \in {"prepared", "starting", "polling"} =>
       /\ now.request \in {RequestOf(p) : p \in Payloads}
       /\ PayloadNow(now.request.payload)
  /\ now.pc = "prepared" /\ call.handle /\ asked # <<>> =>
       MatchingRecords(now.request.payload, now.request.validation) # {}
  /\ now.pc \in {"starting", "polling"} =>
       /\ now.record \in DOMAIN asked
       /\ asked[now.record].payload = now.request.payload

\* No payload has two active records, and a handle has one record.
OnePerPayload ==
  /\ \A i, j \in DOMAIN asked :
       asked[i].status = "active" /\ asked[j].status = "active"
         /\ asked[i].payload = asked[j].payload => i = j
  /\ call.handle => Len(asked) <= 1

GInv ==
  /\ StateType
  /\ \A i \in DOMAIN asked : RecordOf(asked[i]) /\ PayloadNow(asked[i].payload)
  /\ AttemptOf(attempt.now) /\ OnePerPayload
  /\ changes = 0 => attempt.catalogs \subseteq {advert}

LEMMA RecordFields ==
  ASSUME StateType, NEW i \in DOMAIN asked
  PROVE  /\ asked[i] \in RecordType /\ asked[i].payload \in Payloads
         /\ asked[i].validation \in {Validation(call, p) : p \in Payloads}
         /\ asked[i].status \in Statuses /\ asked[i].known \in BOOLEAN
         /\ asked[i].remote \in Remotes /\ asked[i].reply \in Replies \cup {NoReply}
<1>1. asked[i] \in RecordType
  BY ElementOfSeq DEF StateType
<1> QED  BY <1>1 DEF RecordType

LEMMA AttemptFields ==
  ASSUME StateType
  PROVE  /\ attempt.now \in Trying /\ attempt.catalogs \subseteq Adverts
         /\ attempt = [now |-> attempt.now, catalogs |-> attempt.catalogs]
         /\ attempt.now.pc \in Places /\ attempt.now.selection \in Selections \cup {NoSelection}
         /\ attempt.now.capabilities \in {call.intrinsic, {}} /\ attempt.now.limit \in 0..DefaultSteps
         /\ attempt.now.request \in {RequestOf(p) : p \in Payloads} \cup {Unasked}
         /\ attempt.now.record \in 0..MaxAsked
BY DEF StateType, AttemptType, Trying

LEMMA NotTryingType == GenerationAssumption => NotTrying \in Trying
BY DEF NotTrying, Trying, Places, GenerationAssumption

\* A record is found by its payload, whose validation it has.
LEMMA MatchingFacts ==
  ASSUME GInv, NEW p
  PROVE  MatchingRecords(p, Validation(call, p)) =
           {i \in DOMAIN asked : asked[i].payload = p /\ (call.handle \/ asked[i].status = "active")}
BY DEF MatchingRecords, GInv, RecordOf

\* The inputs of the call stay, and what it may ask for with them.
LEMMA SameCall ==
  ASSUME UNCHANGED call
  PROVE  /\ Selections' = Selections /\ Payloads' = Payloads
         /\ RecordType' = RecordType /\ Trying' = Trying /\ AttemptType' = AttemptType
         /\ {RequestOf(p) : p \in Payloads}' = {RequestOf(p) : p \in Payloads}
<1>1. Selections' = Selections
  BY DEF Selections
<1>2. Payloads' = Payloads
  BY <1>1 DEF Payloads
<1>3. {Validation(call, p) : p \in Payloads}' = {Validation(call, p) : p \in Payloads}
  BY <1>2
<1>4. {RequestOf(p) : p \in Payloads}' = {RequestOf(p) : p \in Payloads}
  BY <1>2 DEF RequestOf
<1>5. RecordType' = RecordType
  BY <1>2, <1>3 DEF RecordType
<1>6. Trying' = Trying
  BY <1>1, <1>4 DEF Trying
<1> QED  BY <1>1, <1>2, <1>4, <1>5, <1>6 DEF AttemptType

LEMMA SameService ==
  ASSUME UNCHANGED <<call, advert, changes>>
  PROVE  /\ \A s, k : Present(s, k)' <=> Present(s, k)
         /\ \A p : PayloadNow(p)' <=> PayloadNow(p)
<1>1. \A s, k : Present(s, k)' <=> Present(s, k)
  BY DEF Present
<1>2. Selections' = Selections /\ call.intrinsic' = call.intrinsic
  BY SameCall
<1>3. \A p : PayloadNow(p)' <=> PayloadNow(p)
  BY <1>1, <1>2 DEF PayloadNow
<1> QED  BY <1>1, <1>3

\* Steps of an attempt that leave the records alone.
LEMMA AttemptStep ==
  ASSUME GInv, UNCHANGED <<call, asked, advert, tree, changes>>, attempt' \in AttemptType,
         AttemptOf(attempt'.now), changes = 0 => attempt'.catalogs \subseteq {advert}
  PROVE  GInv'
<1>1. StateType'
  BY SameCall DEF GInv, StateType
<1>2. AttemptOf(attempt.now)'
  <2>1. \A p, v : MatchingRecords(p, v)' = MatchingRecords(p, v)
    BY DEF MatchingRecords
  <2> QED  BY <2>1, SameCall, SameService DEF AttemptOf
<1>3. OnePerPayload'
  BY DEF GInv, OnePerPayload
<1>4. \A i \in DOMAIN asked' : (RecordOf(asked[i]) /\ PayloadNow(asked[i].payload))'
  BY SameService DEF GInv, RecordOf
<1> QED  BY <1>1, <1>2, <1>3, <1>4 DEF GInv

\* Steps of a record that leave its request alone, with what they make of the
\* attempt.
LEMMA RecordStep ==
  ASSUME GInv, UNCHANGED <<call, advert, tree, changes>>, attempt' \in AttemptType,
         attempt'.catalogs \subseteq attempt.catalogs,
         \/ attempt'.now = attempt.now
         \/ attempt'.now = NotTrying
         \/ /\ attempt.now.pc = "starting" /\ attempt'.now.pc = "polling"
            /\ attempt'.now.record = attempt.now.record
            /\ attempt'.now.request = attempt.now.request,
         asked' \in Seq(RecordType), DOMAIN asked' = DOMAIN asked, Len(asked') = Len(asked),
         \A i \in DOMAIN asked :
           /\ asked'[i].payload = asked[i].payload
           /\ asked'[i].validation = asked[i].validation
           /\ asked'[i].status = "active" => asked[i].status = "active"
           /\ RecordOf(asked'[i])
  PROVE  GInv'
<1>1. StateType'
  BY SameCall DEF GInv, StateType
<1>2. AttemptOf(attempt.now)'
  <2>1. CASE attempt'.now = attempt.now
    <3>1. AttemptOf(attempt.now)
      BY DEF GInv
    <3>2. call.handle =>
            MatchingRecords(attempt.now.request.payload, attempt.now.request.validation)
              \subseteq MatchingRecords(attempt.now.request.payload, attempt.now.request.validation)'
      BY <2>1 DEF MatchingRecords
    <3>3. asked # <<>> <=> asked' # <<>>
      BY EmptySeq DEF GInv, StateType
    <3> QED
      BY <2>1, <3>1, <3>2, <3>3, SameCall, SameService DEF AttemptOf
  <2>2. CASE attempt'.now = NotTrying
    BY <2>2 DEF AttemptOf, NotTrying
  <2>3. CASE /\ attempt.now.pc = "starting" /\ attempt'.now.pc = "polling"
             /\ attempt'.now.record = attempt.now.record
             /\ attempt'.now.request = attempt.now.request
    <3>1. AttemptOf(attempt.now)
      BY DEF GInv
    <3> QED  BY <2>3, <3>1, SameCall, SameService DEF AttemptOf
  <2> QED  BY <2>1, <2>2, <2>3
<1>3. OnePerPayload'
  BY DEF GInv, OnePerPayload
<1>4. \A i \in DOMAIN asked' : (RecordOf(asked[i]) /\ PayloadNow(asked[i].payload))'
  BY SameService DEF GInv, RecordOf
<1> QED  BY <1>1, <1>2, <1>3, <1>4 DEF GInv

LEMMA SelectGroupKeeps ==
  ASSUME GenerationAssumption, GInv, SelectGroup
  PROVE  GInv'
<1>0. PICK a \in {advert} \cup attempt.catalogs :
        \E selection \in OfficialGroup(a, call) :
          attempt' = [now |-> [NotTrying EXCEPT !.pc = "selected", !.selection = selection],
                      catalogs |-> attempt.catalogs \cup {a}]
  BY DEF SelectGroup
<1>1. PICK selection \in OfficialGroup(a, call) :
        attempt' = [now |-> [NotTrying EXCEPT !.pc = "selected", !.selection = selection],
                    catalogs |-> attempt.catalogs \cup {a}]
  BY <1>0
<1> DEFINE now == [NotTrying EXCEPT !.pc = "selected", !.selection = selection]
<1>2. a \in Adverts /\ attempt.catalogs \subseteq Adverts
  BY AttemptFields DEF GInv, StateType
<1>3. selection \in Selections
  BY <1>2 DEF Selections
<1>4. changes = 0 => a = advert /\ attempt.catalogs \subseteq {advert}
  BY DEF GInv
<1>5. now \in Trying /\ now.pc = "selected" /\ now.selection = selection /\ now.record = 0
  <2>1. NotTrying \in Trying /\ NotTrying.record = 0
    BY NotTryingType DEF NotTrying
  <2> HIDE DEF now
  <2>2. now = [NotTrying EXCEPT !.pc = "selected", !.selection = selection]
    BY DEF now
  <2> QED  BY <1>3, <2>1, <2>2 DEF Trying, Places
<1> HIDE DEF now
<1>6. attempt' = [now |-> now, catalogs |-> attempt.catalogs \cup {a}]
  BY <1>1 DEF now
<1>7. attempt' \in AttemptType
  BY <1>2, <1>5, <1>6 DEF AttemptType
<1>8. AttemptOf(attempt'.now)
  BY <1>3, <1>4, <1>5, <1>6 DEF AttemptOf
<1>9. changes = 0 => attempt'.catalogs \subseteq {advert}
  BY <1>4, <1>6
<1>10. UNCHANGED <<call, asked, advert, tree, changes>>
  BY DEF SelectGroup
<1> QED  BY <1>7, <1>8, <1>9, <1>10, AttemptStep

\* A step of the attempt that keeps its catalogs.
LEMMA GoStep ==
  ASSUME GInv, UNCHANGED <<call, asked, advert, tree, changes>>, NEW now \in Trying, Go(now),
         AttemptOf(now)
  PROVE  GInv'
<1>1. attempt' = [now |-> now, catalogs |-> attempt.catalogs]
  BY AttemptFields DEF Go, GInv
<1>2. attempt' \in AttemptType
  BY <1>1, AttemptFields DEF AttemptType, GInv
<1>3. changes = 0 => attempt'.catalogs \subseteq {advert}
  BY <1>1 DEF GInv
<1> QED  BY <1>1, <1>2, <1>3, AttemptStep

LEMMA IdleOf == AttemptOf(NotTrying)
BY DEF AttemptOf, NotTrying

LEMMA NegotiateKeeps ==
  ASSUME GenerationAssumption, GInv, Negotiate
  PROVE  GInv'
<1> DEFINE asks == call.judged /\ call.intrinsic # {}
           capable == IF asks /\ advert.bridged THEN call.intrinsic ELSE {}
           limit == IF asks THEN advert.limit ELSE 0
           now == [attempt.now EXCEPT !.pc = "negotiated", !.capabilities = capable,
                                      !.limit = limit]
<1>1. attempt.now.pc = "selected" /\ Go(now) /\ UNCHANGED <<call, asked, advert, tree, changes>>
  BY DEF Negotiate
<1>2. capable \in {call.intrinsic, {}}
  OBVIOUS
<1>3. limit \in 0..DefaultSteps
  <2>1. advert.limit \in 1..DefaultSteps /\ DefaultSteps \in Nat
    BY DEF GenerationAssumption, GInv, StateType
  <2> QED  BY <2>1
<1>4. capable = IF call.judged /\ call.intrinsic # {} /\ advert.bridged THEN call.intrinsic ELSE {}
  OBVIOUS
<1> HIDE DEF asks, capable, limit
<1>5. now \in Trying /\ now.pc = "negotiated" /\ now.capabilities = capable
        /\ now.selection = attempt.now.selection /\ now.record = attempt.now.record
  BY <1>2, <1>3, AttemptFields DEF Trying, Places, GInv
<1> HIDE DEF now
<1>6. AttemptOf(now)
  BY <1>1, <1>4, <1>5 DEF AttemptOf, GInv, Present
<1> QED  BY <1>1, <1>5, <1>6, GoStep

LEMMA PrepareKeeps ==
  ASSUME GenerationAssumption, GInv, Prepare
  PROVE  GInv'
<1> DEFINE payload == Payload(call, attempt.now.selection, attempt.now.capabilities, tree)
           validation == Validation(call, payload)
           now == [attempt.now EXCEPT !.pc = "prepared", !.request = RequestOf(payload)]
<1>1. attempt.now.pc = "negotiated" /\ UNCHANGED <<call, asked, advert, tree, changes>>
  BY DEF Prepare
<1>2. \/ GiveUp
      \/ ~HandleTaken(payload, validation) /\ Go(now)
  BY DEF Prepare, RequestOf
<1>3. CASE GiveUp
  BY <1>1, <1>3, GoStep, IdleOf, NotTryingType DEF GiveUp
<1>4. CASE ~HandleTaken(payload, validation) /\ Go(now)
  <2>1. /\ attempt.now.selection \in Selections
        /\ attempt.now.capabilities \in {call.intrinsic, {}} /\ tree \in 0..MaxChanges
        /\ changes = 0 => tree = 0
        /\ Present(attempt.now.selection, attempt.now.capabilities)
    <3>1. tree \in 0..changes /\ changes \in 0..MaxChanges /\ MaxChanges \in Nat
      BY DEF GInv, StateType, GenerationAssumption
    <3> QED  BY <1>1, <3>1, AttemptFields DEF GInv, AttemptOf
  <2>2. payload \in Payloads
    <3>1. \E s \in Selections, k \in {call.intrinsic, {}}, t \in 0..MaxChanges :
            payload = Payload(call, s, k, t)
      BY <2>1
    <3> HIDE DEF payload
    <3> QED  BY <3>1 DEF Payloads
  <2>3. PayloadNow(payload)
    BY <2>1 DEF PayloadNow
  <2>4. call.handle /\ asked # <<>> => MatchingRecords(payload, validation) # {}
    BY <1>4 DEF HandleTaken
  <2>5. RequestOf(payload).payload = payload /\ RequestOf(payload).validation = validation
    BY DEF RequestOf
  <2> HIDE DEF payload, validation
  <2>6. now \in Trying /\ now.pc = "prepared" /\ now.request = RequestOf(payload)
          /\ now.record = attempt.now.record
    BY <2>2, AttemptFields DEF Trying, Places, GInv
  <2> HIDE DEF now
  <2>7. AttemptOf(now)
    BY <2>2, <2>3, <2>4, <2>5, <2>6 DEF AttemptOf, GInv
  <2> QED  BY <1>1, <1>4, <2>6, <2>7, GoStep
<1> QED  BY <1>2, <1>3, <1>4

LEMMA FindOrCreateKeeps ==
  ASSUME GenerationAssumption, GInv, FindOrCreate
  PROVE  GInv'
<1> DEFINE request == attempt.now.request
           found == MatchingRecords(request.payload, request.validation)
           fresh == NewRecord(request)
<1>1. attempt.now.pc = "prepared" /\ UNCHANGED <<call, advert, tree, changes>>
  BY DEF FindOrCreate
<1>2. PICK payload \in Payloads : request = RequestOf(payload)
  BY <1>1 DEF GInv, AttemptOf
<1>3. request.payload = payload /\ request.validation = Validation(call, payload)
  BY <1>2 DEF RequestOf
<1>4. found = {i \in DOMAIN asked : asked[i].payload = payload
                                      /\ (call.handle \/ asked[i].status = "active")}
  BY <1>3, MatchingFacts
<1>5. PayloadNow(payload)
  BY <1>1, <1>3 DEF GInv, AttemptOf
<1>6. asked \in Seq(RecordType) /\ Len(asked) \in Nat /\ DOMAIN asked = 1..Len(asked)
      /\ Len(asked) <= MaxAsked /\ MaxAsked \in Nat
  BY LenProperties DEF GInv, StateType, GenerationAssumption
<1>7. \/ \E i \in found : /\ asked' = asked
                          /\ Go([attempt.now EXCEPT !.record = i,
                                   !.pc = IF asked[i].known THEN "polling" ELSE "starting"])
      \/ /\ found = {} /\ Len(asked) < MaxAsked /\ asked' = Append(asked, fresh)
         /\ Go([attempt.now EXCEPT !.record = Len(asked'), !.pc = "starting"])
  BY DEF FindOrCreate
<1> HIDE DEF found, fresh
<1>8. ASSUME NEW i \in found, asked' = asked,
             Go([attempt.now EXCEPT !.record = i,
                   !.pc = IF asked[i].known THEN "polling" ELSE "starting"])
      PROVE  GInv'
  <2> DEFINE pc == IF asked[i].known THEN "polling" ELSE "starting"
             now == [attempt.now EXCEPT !.record = i, !.pc = pc]
  <2>1. i \in 1..Len(asked) /\ asked[i].payload = payload /\ i \in 0..MaxAsked
    BY <1>4, <1>6
  <2>2. pc \in {"polling", "starting"}
    OBVIOUS
  <2> HIDE DEF pc
  <2>3. now \in Trying /\ now.pc = pc /\ now.record = i /\ now.request = request
    BY <2>1, <2>2, AttemptFields DEF Trying, Places, GInv
  <2>4. Go(now)
    BY <1>8 DEF pc
  <2> HIDE DEF now, request
  <2>5. AttemptOf(now)
    BY <1>2, <1>3, <1>5, <1>6, <2>1, <2>2, <2>3 DEF AttemptOf
  <2> QED  BY <1>1, <1>8, <2>3, <2>4, <2>5, GoStep
<1>9. ASSUME found = {}, Len(asked) < MaxAsked, asked' = Append(asked, fresh),
             Go([attempt.now EXCEPT !.record = Len(asked'), !.pc = "starting"])
      PROVE  GInv'
  <2> DEFINE n == Len(asked) + 1
             now == [attempt.now EXCEPT !.record = n, !.pc = "starting"]
  <2>1. fresh \in RecordType /\ fresh.payload = payload /\ fresh.status = "active"
        /\ fresh.validation = Validation(call, payload)
    BY <1>2, <1>3 DEF fresh, NewRecord, RecordType, Statuses, Remotes
  <2>2. /\ asked' \in Seq(RecordType) /\ Len(asked') = n /\ DOMAIN asked' = 1..n
        /\ \A i \in DOMAIN asked : asked'[i] = asked[i]
        /\ asked'[n] = fresh /\ n \in 0..MaxAsked /\ n \in 1..n
    BY <1>6, <1>9, <2>1, AppendProperties
  <2>3. DOMAIN asked' = DOMAIN asked \cup {n} /\ n \notin DOMAIN asked
    BY <1>6, <2>2
  <2>4. attempt' = [now |-> now, catalogs |-> attempt.catalogs]
    BY <1>9, <2>2, AttemptFields DEF Go, GInv
  <2>5. now \in Trying /\ now.pc = "starting" /\ now.record = n /\ now.request = request
    BY <2>2, AttemptFields DEF Trying, Places, GInv
  <2> HIDE DEF n, now, request
  <2>6. StateType'
    <3>1. attempt' \in AttemptType
      BY <2>4, <2>5, AttemptFields DEF AttemptType, GInv
    <3>2. call \in Calls /\ advert \in Adverts /\ changes \in 0..MaxChanges /\ tree \in 0..changes
      BY DEF GInv, StateType
    <3>3. n <= MaxAsked
      BY <2>2
    <3> QED  BY <1>1, <2>2, <3>1, <3>2, <3>3, SameCall DEF StateType
  <2>7. \A i \in DOMAIN asked' : (RecordOf(asked[i]) /\ PayloadNow(asked[i].payload))'
    <3>1. \A i \in DOMAIN asked : RecordOf(asked[i]) /\ PayloadNow(asked[i].payload)
      BY DEF GInv
    <3>2. RecordOf(fresh)
      BY <2>1 DEF RecordOf
    <3>3. \A r : RecordOf(r)' <=> RecordOf(r)
      BY <1>1 DEF RecordOf
    <3> QED  BY <1>1, <1>5, <2>1, <2>2, <2>3, <3>1, <3>2, <3>3, SameService
  <2>8. AttemptOf(attempt.now)'
    <3>1. attempt'.now = now
      BY <2>4
    <3>2. now.request \in {RequestOf(p) : p \in Payloads}
      BY <1>2, <2>5
    <3> QED
      BY <1>1, <1>3, <1>5, <2>1, <2>2, <2>5, <3>1, <3>2, SameCall, SameService DEF AttemptOf
  <2>9. OnePerPayload'
    <3>1. \A i \in DOMAIN asked : asked[i].status = "active" => asked[i].payload # payload
      BY <1>4, <1>9
    <3>2. call.handle => asked = <<>>
      BY <1>1, <1>9 DEF GInv, AttemptOf, found, request
    <3>3. call.handle => n = 1
      BY <3>2 DEF n
    <3>4. \A i, j \in DOMAIN asked' :
            asked'[i].status = "active" /\ asked'[j].status = "active"
              /\ asked'[i].payload = asked'[j].payload => i = j
      BY <2>1, <2>2, <2>3, <3>1 DEF GInv, OnePerPayload
    <3> QED  BY <1>1, <2>2, <3>3, <3>4 DEF OnePerPayload
  <2>10. changes' = 0 => attempt'.catalogs \subseteq {advert'}
    BY <1>1, <2>4 DEF GInv
  <2> QED  BY <2>6, <2>7, <2>8, <2>9, <2>10 DEF GInv
<1> QED  BY <1>7, <1>8, <1>9

\* A record changed in its status, what is known of it and what the service has.
LEMMA RecordChanges ==
  ASSUME StateType, NEW i \in DOMAIN asked, NEW r \in RecordType,
         asked' = [asked EXCEPT ![i] = r]
  PROVE  /\ asked' \in Seq(RecordType) /\ DOMAIN asked' = DOMAIN asked /\ Len(asked') = Len(asked)
         /\ asked'[i] = r /\ \A j \in DOMAIN asked : j # i => asked'[j] = asked[j]
<1>1. asked \in Seq(RecordType)
  BY DEF StateType
<1>2. i \in 1..Len(asked)
  BY <1>1, LenProperties
<1> HIDE DEF RecordType
<1> QED  BY <1>1, <1>2, ExceptSeq

\* Such a change of one record, while the attempt does what RecordStep allows.
LEMMA OneRecordStep ==
  ASSUME GInv, UNCHANGED <<call, advert, tree, changes>>, attempt' \in AttemptType,
         attempt'.catalogs \subseteq attempt.catalogs,
         \/ attempt'.now = attempt.now
         \/ attempt'.now = NotTrying
         \/ /\ attempt.now.pc = "starting" /\ attempt'.now.pc = "polling"
            /\ attempt'.now.record = attempt.now.record
            /\ attempt'.now.request = attempt.now.request,
         NEW i \in DOMAIN asked, NEW r \in RecordType, asked' = [asked EXCEPT ![i] = r],
         r.payload = asked[i].payload, r.validation = asked[i].validation,
         r.status = "active" => asked[i].status = "active", RecordOf(r)
  PROVE  GInv'
<1>1. /\ asked' \in Seq(RecordType) /\ DOMAIN asked' = DOMAIN asked /\ Len(asked') = Len(asked)
      /\ asked'[i] = r /\ \A j \in DOMAIN asked : j # i => asked'[j] = asked[j]
  BY RecordChanges DEF GInv
<1>2. \A j \in DOMAIN asked :
        /\ asked'[j].payload = asked[j].payload
        /\ asked'[j].validation = asked[j].validation
        /\ asked'[j].status = "active" => asked[j].status = "active"
        /\ RecordOf(asked'[j])
  BY <1>1 DEF GInv
<1> QED  BY <1>1, <1>2, RecordStep

LEMMA IdleAttempt ==
  ASSUME GenerationAssumption, GInv, NEW c \in SUBSET attempt.catalogs,
         attempt' = [now |-> NotTrying, catalogs |-> c]
  PROVE  attempt' \in AttemptType /\ attempt'.catalogs \subseteq attempt.catalogs
         /\ attempt'.now = NotTrying
<1>1. NotTrying \in Trying
  BY NotTryingType
<1>2. attempt.catalogs \subseteq Adverts
  BY AttemptFields DEF GInv
<1> QED  BY <1>1, <1>2 DEF AttemptType

LEMMA GivesUp ==
  ASSUME GInv, GiveUp
  PROVE  attempt' = [now |-> NotTrying, catalogs |-> attempt.catalogs]
BY AttemptFields DEF GInv, GiveUp, Go

LEMMA StartOperationKeeps ==
  ASSUME GenerationAssumption, GInv, StartOperation
  PROVE  GInv'
<1> DEFINE i == attempt.now.record
           remote == IF asked[i].remote = "none" THEN "open" ELSE asked[i].remote
           sent == [asked[i] EXCEPT !.remote = remote]
           answered == [sent EXCEPT !.known = TRUE]
<1>1. attempt.now.pc = "starting" /\ UNCHANGED <<call, advert, tree, changes>>
  BY DEF StartOperation
<1>2. i \in DOMAIN asked
  BY <1>1 DEF GInv, AttemptOf
<1>3. /\ asked[i] \in RecordType /\ asked[i].remote \in Remotes
      /\ RecordOf(asked[i])
  BY <1>2, RecordFields DEF GInv
<1>4. remote \in Remotes /\ (asked[i].remote = "done" => remote = asked[i].remote)
  BY <1>3 DEF Remotes
<1>5. \/ asked' = [asked EXCEPT ![i] = answered] /\ Go([attempt.now EXCEPT !.pc = "polling"])
      \/ asked' = [asked EXCEPT ![i] = sent] /\ GiveUp
  <2>1. asked \in [DOMAIN asked -> RecordType]
    BY <1>2, RecordFields, ElementOfSeq, LenProperties DEF GInv, StateType
  <2>2. [asked EXCEPT ![i].remote = remote] = [asked EXCEPT ![i] = sent]
    BY <1>2
  <2>3. [[asked EXCEPT ![i].remote = remote] EXCEPT ![i].known = TRUE]
          = [asked EXCEPT ![i] = answered]
    BY <1>2, <2>1
  <2>4. [asked EXCEPT ![i].remote = IF @ = "none" THEN "open" ELSE @]
          = [asked EXCEPT ![i].remote = remote]
    OBVIOUS
  <2> HIDE DEF remote, sent, answered
  <2> QED  BY <2>2, <2>3, <2>4 DEF StartOperation
<1> HIDE DEF i, remote
<1>6. /\ sent \in RecordType /\ sent.payload = asked[i].payload
      /\ sent.validation = asked[i].validation /\ sent.status = asked[i].status
      /\ sent.reply = asked[i].reply /\ sent.remote = remote
  BY <1>3, <1>4 DEF RecordType
<1>7. /\ answered \in RecordType /\ answered.payload = asked[i].payload
      /\ answered.validation = asked[i].validation /\ answered.status = asked[i].status
      /\ answered.reply = asked[i].reply /\ answered.remote = remote
  BY <1>6 DEF RecordType
<1> HIDE DEF sent, answered
<1>8. RecordOf(sent) /\ RecordOf(answered)
  BY <1>3, <1>4, <1>6, <1>7 DEF RecordOf
<1>9. CASE asked' = [asked EXCEPT ![i] = answered] /\ Go([attempt.now EXCEPT !.pc = "polling"])
  <2> DEFINE now == [attempt.now EXCEPT !.pc = "polling"]
  <2>1. now \in Trying /\ now.pc = "polling" /\ now.record = attempt.now.record
          /\ now.request = attempt.now.request
    BY AttemptFields DEF GInv, Trying, Places
  <2> HIDE DEF now
  <2>2. attempt' = [now |-> now, catalogs |-> attempt.catalogs]
    BY <1>9, AttemptFields DEF GInv, Go, now
  <2>3. attempt' \in AttemptType
    BY <2>1, <2>2, AttemptFields DEF GInv, AttemptType
  <2> QED  BY <1>1, <1>2, <1>7, <1>8, <1>9, <2>1, <2>2, <2>3, OneRecordStep
<1>10. CASE asked' = [asked EXCEPT ![i] = sent] /\ GiveUp
  <2>1. attempt' \in AttemptType /\ attempt'.catalogs \subseteq attempt.catalogs
          /\ attempt'.now = NotTrying
    BY <1>10, GivesUp, IdleAttempt
  <2> QED  BY <1>1, <1>2, <1>6, <1>8, <1>10, <2>1, OneRecordStep
<1> QED  BY <1>5, <1>9, <1>10

\* What a terminal answer makes of a record of the invariant.
LEMMA SettledFacts ==
  ASSUME NEW r \in RecordType, RecordOf(r), r.remote \in {"done", "failed"}
  PROVE  LET s == Settled(r, r.validation)
         IN  /\ s \in RecordType /\ s.payload = r.payload /\ s.validation = r.validation
             /\ s.status = "active" => r.status = "active"
             /\ RecordOf(s)
<1>1. CASE r.remote = "failed"
  BY <1>1 DEF Settled, RecordType, RecordOf, Statuses
<1>2. CASE r.remote # "failed" /\ NormalizedCase(r.reply, r.validation)
  BY <1>2 DEF Settled, RecordType, RecordOf, Statuses
<1>3. CASE r.remote # "failed" /\ ~NormalizedCase(r.reply, r.validation)
  BY <1>3 DEF Settled
<1> QED  BY <1>1, <1>2, <1>3

LEMMA AcceptResultKeeps ==
  ASSUME GenerationAssumption, GInv, AcceptResult
  PROVE  GInv'
<1> DEFINE i == attempt.now.record
           s == Settled(asked[i], asked[i].validation)
<1>1. attempt.now.pc = "polling" /\ IsFinished(i) /\ UNCHANGED <<call, advert, tree, changes>>
      /\ GiveUp
      /\ asked' = [asked EXCEPT ![i] = Settled(asked[i], attempt.now.request.validation)]
  BY DEF AcceptResult
<1>2. i \in DOMAIN asked /\ asked[i].payload = attempt.now.request.payload
      /\ attempt.now.request \in {RequestOf(p) : p \in Payloads}
  BY <1>1 DEF GInv, AttemptOf
<1>3. attempt.now.request.validation = Validation(call, attempt.now.request.payload)
  BY <1>2 DEF RequestOf
<1>4. asked[i] \in RecordType /\ RecordOf(asked[i])
  BY <1>2, RecordFields DEF GInv
<1>5. asked[i].validation = attempt.now.request.validation
  BY <1>2, <1>3, <1>4 DEF RecordOf
<1>6. asked' = [asked EXCEPT ![i] = s]
  BY <1>1, <1>5
<1>7. attempt' \in AttemptType /\ attempt'.catalogs \subseteq attempt.catalogs
        /\ attempt'.now = NotTrying
  BY <1>1, GivesUp, IdleAttempt
<1>8. /\ s \in RecordType /\ s.payload = asked[i].payload /\ s.validation = asked[i].validation
      /\ s.status = "active" => asked[i].status = "active"
      /\ RecordOf(s)
  BY <1>1, <1>4, SettledFacts DEF IsFinished
<1> HIDE DEF i, s
<1> QED  BY <1>1, <1>2, <1>6, <1>7, <1>8, OneRecordStep

LEMMA AcceptRecoveredKeeps ==
  ASSUME GInv, NEW i \in DOMAIN asked, AcceptRecovered(i)
  PROVE  GInv'
<1> DEFINE s == Settled(asked[i], asked[i].validation)
<1>1. IsFinished(i) /\ UNCHANGED <<call, attempt, advert, tree, changes>>
      /\ asked' = [asked EXCEPT ![i] = s]
  BY DEF AcceptRecovered
<1>2. asked[i] \in RecordType /\ RecordOf(asked[i])
  BY RecordFields DEF GInv
<1>3. /\ s \in RecordType /\ s.payload = asked[i].payload /\ s.validation = asked[i].validation
      /\ s.status = "active" => asked[i].status = "active"
      /\ RecordOf(s)
  BY <1>1, <1>2, SettledFacts DEF IsFinished
<1>4. attempt' \in AttemptType /\ attempt'.catalogs \subseteq attempt.catalogs
  BY <1>1 DEF GInv, StateType
<1> HIDE DEF s
<1> QED  BY <1>1, <1>3, <1>4, OneRecordStep

LEMMA RecoverOperationKeeps ==
  ASSUME GInv, NEW i \in DOMAIN asked, RecoverOperation(i)
  PROVE  GInv'
<1> DEFINE r == [asked[i] EXCEPT !.known = TRUE]
<1>1. UNCHANGED <<call, attempt, advert, tree, changes>> /\ asked' = [asked EXCEPT ![i] = r]
  BY DEF RecoverOperation
<1>2. asked[i] \in RecordType /\ RecordOf(asked[i])
  BY RecordFields DEF GInv
<1>3. /\ r \in RecordType /\ r.payload = asked[i].payload /\ r.validation = asked[i].validation
      /\ r.status = asked[i].status /\ r.remote = asked[i].remote /\ r.reply = asked[i].reply
  BY <1>2 DEF RecordType
<1> HIDE DEF r
<1>4. RecordOf(r)
  BY <1>2, <1>3 DEF RecordOf
<1>5. attempt' \in AttemptType /\ attempt'.catalogs \subseteq attempt.catalogs
  BY <1>1 DEF GInv, StateType
<1> QED  BY <1>1, <1>3, <1>4, <1>5, OneRecordStep

\* The service answers an operation once.
LEMMA GenerateKeeps ==
  ASSUME GInv, NEW i \in DOMAIN asked, Generate(i)
  PROVE  GInv'
<1>1. asked[i].remote = "open" /\ UNCHANGED <<call, attempt, advert, tree, changes>>
  BY DEF Generate
<1>2. asked[i] \in RecordType /\ RecordOf(asked[i])
  BY RecordFields DEF GInv
<1>3. asked[i].status # "succeeded"
  BY <1>1, <1>2 DEF RecordOf
<1>4. attempt' \in AttemptType /\ attempt'.catalogs \subseteq attempt.catalogs
  BY <1>1 DEF GInv, StateType
<1>5. PICK r \in RecordType :
        /\ asked' = [asked EXCEPT ![i] = r]
        /\ r.payload = asked[i].payload /\ r.validation = asked[i].validation
        /\ r.status = asked[i].status
  <2>1. CASE asked' = [asked EXCEPT ![i].remote = "failed"]
    <3> DEFINE r == [asked[i] EXCEPT !.remote = "failed"]
    <3>1. r \in RecordType /\ r.payload = asked[i].payload /\ r.validation = asked[i].validation
          /\ r.status = asked[i].status
      BY <1>2 DEF RecordType, Remotes
    <3>2. asked' = [asked EXCEPT ![i] = r]
      BY <2>1
    <3> QED  BY <3>1, <3>2
  <2>2. ASSUME NEW reply \in Replies,
               asked' = [asked EXCEPT ![i].remote = "done", ![i].reply = reply]
        PROVE  \E r \in RecordType :
                 /\ asked' = [asked EXCEPT ![i] = r]
                 /\ r.payload = asked[i].payload /\ r.validation = asked[i].validation
                 /\ r.status = asked[i].status
    <3> DEFINE r == [asked[i] EXCEPT !.remote = "done", !.reply = reply]
    <3>1. r \in RecordType /\ r.payload = asked[i].payload /\ r.validation = asked[i].validation
          /\ r.status = asked[i].status
      BY <1>2 DEF RecordType, Remotes
    <3>2. asked' = [asked EXCEPT ![i] = r]
      BY <2>2
    <3> QED  BY <3>1, <3>2
  <2> QED  BY <2>1, <2>2 DEF Generate
<1>6. RecordOf(r)
  BY <1>2, <1>3, <1>5 DEF RecordOf
<1> QED  BY <1>1, <1>4, <1>5, <1>6, OneRecordStep

LEMMA AbandonKeeps ==
  ASSUME GenerationAssumption, GInv, Abandon
  PROVE  GInv'
<1>1. PICK kept \in {{}, attempt.catalogs} : attempt' = [now |-> NotTrying, catalogs |-> kept]
  BY DEF Abandon
<1>2. UNCHANGED <<call, asked, advert, tree, changes>>
  BY DEF Abandon
<1>3. attempt' \in AttemptType /\ attempt'.catalogs \subseteq attempt.catalogs
  BY <1>1, IdleAttempt
<1>4. AttemptOf(attempt'.now)
  BY <1>1, IdleOf
<1>5. changes = 0 => attempt'.catalogs \subseteq {advert}
  BY <1>3 DEF GInv
<1> QED  BY <1>2, <1>3, <1>4, <1>5, AttemptStep

\* After a change of the service or the repository nothing binds the payloads.
LEMMA ChangeKeeps ==
  ASSUME GenerationAssumption, GInv, Readvertise \/ EditRepository
  PROVE  GInv'
<1>1. /\ UNCHANGED <<call, attempt, asked>> /\ changes' = changes + 1 /\ changes < MaxChanges
      /\ advert' \in Adverts /\ tree' \in {tree, tree + 1}
  BY DEF Readvertise, EditRepository, GInv, StateType
<1>2. changes \in 0..MaxChanges /\ tree \in 0..changes /\ MaxChanges \in Nat
  BY DEF GInv, StateType, GenerationAssumption
<1>3. changes' \in 0..MaxChanges /\ tree' \in 0..changes' /\ changes' # 0
  BY <1>1, <1>2
<1>4. StateType'
  BY <1>1, <1>3, SameCall DEF GInv, StateType
<1>5. \A p : PayloadNow(p)'
  BY <1>3 DEF PayloadNow
<1>6. \A i \in DOMAIN asked' : (RecordOf(asked[i]) /\ PayloadNow(asked[i].payload))'
  BY <1>1, <1>5 DEF GInv, RecordOf
<1>7. AttemptOf(attempt.now)'
  <2>1. \A p, v : MatchingRecords(p, v)' = MatchingRecords(p, v)
    BY <1>1 DEF MatchingRecords
  <2>2. \A s, k : Present(s, k)'
    BY <1>3 DEF Present
  <2> QED  BY <1>1, <1>3, <1>5, <2>1, <2>2, SameCall DEF GInv, AttemptOf
<1>8. OnePerPayload'
  BY <1>1 DEF GInv, OnePerPayload
<1> QED  BY <1>3, <1>4, <1>6, <1>7, <1>8 DEF GInv

LEMMA GenerationStart == GenerationAssumption /\ GenerationInit => GInv
<1> SUFFICES ASSUME GenerationAssumption, GenerationInit PROVE GInv
  OBVIOUS
<1>1. /\ call \in Calls /\ advert \in Adverts /\ asked = <<>> /\ tree = 0 /\ changes = 0
      /\ attempt = [now |-> NotTrying, catalogs |-> {}]
  BY DEF GenerationInit
<1>2. asked \in Seq(RecordType) /\ Len(asked) = 0 /\ DOMAIN asked = {}
  BY <1>1, EmptySeq
<1>3. StateType
  BY <1>1, <1>2, NotTryingType DEF StateType, AttemptType, GenerationAssumption
<1>4. AttemptOf(attempt.now)
  BY <1>1, IdleOf
<1> QED  BY <1>1, <1>2, <1>3, <1>4 DEF GInv, OnePerPayload

LEMMA GenerationStep ==
  GenerationAssumption /\ GInv /\ [GenerationNext]_generationVars => GInv'
<1> SUFFICES ASSUME GenerationAssumption, GInv, [GenerationNext]_generationVars PROVE GInv'
  OBVIOUS
<1>1. CASE UNCHANGED generationVars
  <2>1. attempt' \in AttemptType /\ AttemptOf(attempt'.now)
        /\ (changes = 0 => attempt'.catalogs \subseteq {advert})
    BY <1>1 DEF generationVars, GInv, StateType
  <2> QED  BY <1>1, <2>1, AttemptStep DEF generationVars
<1>2. CASE SelectGroup \/ Negotiate \/ Prepare \/ FindOrCreate \/ StartOperation \/ AcceptResult
             \/ Abandon
  BY <1>2, SelectGroupKeeps, NegotiateKeeps, PrepareKeeps, FindOrCreateKeeps,
     StartOperationKeeps, AcceptResultKeeps, AbandonKeeps
<1>3. CASE \E i \in DOMAIN asked : RecoverOperation(i) \/ AcceptRecovered(i) \/ Generate(i)
  BY <1>3, RecoverOperationKeeps, AcceptRecoveredKeeps, GenerateKeeps
<1>4. CASE Readvertise \/ EditRepository
  BY <1>4, ChangeKeeps
<1> QED  BY <1>1, <1>2, <1>3, <1>4 DEF GenerationNext

\* The inductive invariant of asking for a Case: every record binds the
\* validation of the call to a payload the call may ask for, no payload has two
\* active records, a handle has one record at all, and while neither the service
\* nor the repository changed everything the attempt and the records hold is what
\* would be asked for now.
THEOREM GenerationInvariance == GenerationSpec => []GInv
BY GenerationAssumption, GenerationStart, GenerationStep, PTL DEF GenerationSpec

----------------------------------------------------------------------------
(* What it is for.                                                         *)

LEMMA GenerationTypes == GenerationAssumption /\ GInv => GenerationTypeOK
<1> SUFFICES ASSUME GenerationAssumption, GInv PROVE GenerationTypeOK
  OBVIOUS
<1>1. attempt.now.record \in 0..Len(asked)
  <2>1. asked \in Seq(RecordType) /\ Len(asked) \in Nat /\ DOMAIN asked = 1..Len(asked)
    BY LenProperties DEF GInv, StateType
  <2>2. attempt.now.record = 0 \/ attempt.now.record \in DOMAIN asked
    BY DEF GInv, AttemptOf
  <2> QED  BY <2>1, <2>2
<1>2. tree \in 0..MaxChanges /\ changes \in 0..MaxChanges
  BY DEF GInv, StateType, GenerationAssumption
<1> QED
  BY <1>1, <1>2, AttemptFields, RecordFields
     DEF GenerationTypeOK, GInv, StateType, Places, Statuses, Remotes

\* Unless the call samples its group, there is one payload it can ask for now.
LEMMA OnePayloadNow ==
  ASSUME GInv, changes = 0, call.strategy # "safety-baseline",
         NEW p, NEW q, PayloadNow(p), PayloadNow(q)
  PROVE  p = q
<1>1. \A s, t \in OfficialGroup(advert, call) : s = t
  <2>1. \A coordinate, source : \A s, t \in ResolveGroup(advert, call, coordinate, source) : s = t
    BY DEF ResolveGroup
  <2> SUFFICES ASSUME NEW s \in OfficialGroup(advert, call), NEW t \in OfficialGroup(advert, call)
               PROVE  s = t
    OBVIOUS
  <2>2. CASE advert.legacy
    BY <2>2 DEF OfficialGroup
  <2>3. CASE ~advert.legacy /\ ~ValidCatalog(advert)
    BY <2>3 DEF OfficialGroup
  <2>4. CASE ~advert.legacy /\ ValidCatalog(advert) /\ call.group # NoGroup
    <3>1. OfficialGroup(advert, call) = ResolveGroup(advert, call, call.group, "user")
      BY <2>4 DEF OfficialGroup
    <3> QED  BY <2>1, <3>1
  <2>5. CASE ~advert.legacy /\ ValidCatalog(advert) /\ call.group = NoGroup
    <3>1. OfficialGroup(advert, call)
            = IF call.strategy = "auto"
              THEN ResolveGroup(advert, call, advert.default, "general") ELSE {}
      BY <2>5 DEF OfficialGroup
    <3> QED  BY <2>1, <3>1
  <2> QED  BY <2>2, <2>3, <2>4, <2>5
<1>2. PICK s \in Selections, k \in {call.intrinsic, {}} :
        Present(s, k) /\ p = Payload(call, s, k, 0)
  BY DEF PayloadNow
<1>3. PICK t \in Selections, l \in {call.intrinsic, {}} :
        Present(t, l) /\ q = Payload(call, t, l, 0)
  BY DEF PayloadNow
<1>4. s = t /\ k = l
  BY <1>1, <1>2, <1>3 DEF Present
<1> QED  BY <1>2, <1>3, <1>4

\* Every field keeps its type, for any calls, services and answers.
THEOREM GenerationTypeCorrect == GenerationSpec => []GenerationTypeOK
BY GenerationAssumption, GenerationInvariance, GenerationTypes, PTL

\* A set of indices of which any two are the same has at most one element.
LEMMA AtMostOne ==
  ASSUME NEW S, \A i, j \in S : i = j
  PROVE  Cardinality(S) <= 1
<1>1. CASE S = {}
  <2>1. Cardinality(S) = 0
    BY <1>1, FS_EmptySet
  <2> QED  BY <2>1
<1>2. CASE S # {}
  <2>1. PICK i \in S : TRUE
    BY <1>2
  <2>2. S = {i}
    BY <2>1
  <2>3. Cardinality(S) = 1
    BY <2>2, FS_Singleton
  <2> QED  BY <2>3
<1> QED  BY <1>1, <1>2

\* However answers were lost, processes died and the catalog changed, a call
\* that is repeated does not pay for a second Case, unless it asks for something
\* else; never under a case_request_id.
THEOREM RepeatsAreShared == GenerationSpec => []RepeatBuysOnce
<1>1. GInv => RepeatBuysOnce
  <2> SUFFICES ASSUME GInv PROVE RepeatBuysOnce
    OBVIOUS
  <2>1. call.handle => Cardinality({i \in DOMAIN asked : asked[i].remote # "none"}) <= 1
    <3>1. asked \in Seq(RecordType) /\ Len(asked) \in Nat /\ DOMAIN asked = 1..Len(asked)
      BY LenProperties DEF GInv, StateType
    <3>2. call.handle => \A i, j \in DOMAIN asked : i = j
      BY <3>1 DEF GInv, OnePerPayload
    <3> QED  BY <3>2, AtMostOne
  <2>2. \A i, j \in Unsettled : i # j => asked[i].payload # asked[j].payload
    BY DEF Unsettled, GInv, OnePerPayload
  <2>3. ASSUME changes = 0, call.strategy # "safety-baseline"
        PROVE  Cardinality(Unsettled) <= 1
    <3>1. \A i, j \in Unsettled : asked[i].payload = asked[j].payload
      BY <2>3, OnePayloadNow DEF Unsettled, GInv
    <3> QED  BY <2>2, <3>1, AtMostOne
  <2> QED  BY <2>1, <2>2, <2>3 DEF RepeatBuysOnce
<1> QED  BY <1>1, GenerationInvariance, PTL

\* What may be selected for a call.
LEMMA SelectionFacts ==
  ASSUME NEW s \in Selections
  PROVE  /\ s = NoSelection => call.strategy # "safety-baseline" /\ call.group = NoGroup
         /\ call.group # NoGroup => s.group = call.group
         /\ call.strategy = "safety-baseline" /\ call.group = NoGroup => s.group.id \in Baseline
<1>1. PICK a \in Adverts : s \in OfficialGroup(a, call)
  BY DEF Selections
<1>2. \A coordinate, source : source # "none" =>
        \A t \in ResolveGroup(a, call, coordinate, source) :
          t.group = coordinate /\ t # NoSelection
  <2> SUFFICES ASSUME NEW coordinate, NEW source, source # "none",
                      NEW t \in ResolveGroup(a, call, coordinate, source)
               PROVE  t.group = coordinate /\ t # NoSelection
    OBVIOUS
  <2>1. t = [group |-> coordinate, source |-> source, release |-> a.release]
    BY DEF ResolveGroup
  <2>2. t.source = source /\ NoSelection.source = "none"
    BY <2>1 DEF NoSelection
  <2> QED  BY <2>1, <2>2
<1>3. CASE a.legacy
  <2>1. s = NoSelection /\ call.group = NoGroup /\ call.strategy # "safety-baseline"
    BY <1>1, <1>3 DEF OfficialGroup
  <2> QED  BY <2>1
<1>4. CASE ~a.legacy /\ ~ValidCatalog(a)
  BY <1>1, <1>4 DEF OfficialGroup
<1>5. CASE ~a.legacy /\ ValidCatalog(a) /\ call.group # NoGroup
  <2>1. s \in ResolveGroup(a, call, call.group, "user")
    BY <1>1, <1>5 DEF OfficialGroup
  <2> QED  BY <1>2, <1>5, <2>1
<1>6. CASE ~a.legacy /\ ValidCatalog(a) /\ call.group = NoGroup /\ call.strategy = "safety-baseline"
  <2>1. s \in SafetyBaseline(a, call)
    BY <1>1, <1>6 DEF OfficialGroup
  <2>2. PICK g \in a.groups : g.id \in Baseline /\ s \in ResolveGroup(a, call, Coordinate(g), "user")
    BY <2>1 DEF SafetyBaseline
  <2>3. s.group = Coordinate(g) /\ s # NoSelection
    BY <1>2, <2>2
  <2> QED  BY <1>6, <2>2, <2>3 DEF Coordinate
<1>7. CASE ~a.legacy /\ ValidCatalog(a) /\ call.group = NoGroup /\ call.strategy # "safety-baseline"
  <2>1. s \in IF call.strategy = "auto" THEN ResolveGroup(a, call, a.default, "general") ELSE {}
    BY <1>1, <1>7 DEF OfficialGroup
  <2>2. s # NoSelection
    BY <1>2, <2>1
  <2> QED  BY <1>7, <2>2
<1> QED  BY <1>3, <1>4, <1>5, <1>6, <1>7

\* A record succeeds only with a Case of what this call asked for: its steps, its
\* strategy and its group, whichever process took the answer.
THEOREM AcceptedCasesMatch == GenerationSpec => []AcceptedIsRequested
<1>1. GInv => AcceptedIsRequested
  <2> SUFFICES ASSUME GInv, NEW i \in DOMAIN asked, asked[i].status = "succeeded"
               PROVE  LET r == asked[i].reply
                          selection == asked[i].payload.group
                      IN  /\ r.intact /\ r.steps \in 1..StepsOf(call)
                          /\ selection # NoSelection => "other" \notin {r.echoed, r.executed}
                          /\ selection = NoSelection =>
                               r.strategy # "auto" /\ call.strategy \in {"auto", r.strategy}
                          /\ call.group # NoGroup => selection.group = call.group
                          /\ call.strategy = "safety-baseline" /\ call.group = NoGroup =>
                               selection.group.id \in Baseline
    BY DEF AcceptedIsRequested
  <2> DEFINE r == asked[i].reply
             p == asked[i].payload
             v == Validation(call, p)
             selection == p.group
  <2>1. asked[i].validation = v /\ NormalizedCase(r, v)
    BY DEF GInv, RecordOf
  <2>2. PICK s \in Selections, k \in {call.intrinsic, {}}, t \in 0..MaxChanges :
          p = Payload(call, s, k, t)
    BY RecordFields DEF GInv, Payloads
  <2>3. /\ selection = s
        /\ p.strategy = IF call.strategy = "safety-baseline" THEN "auto" ELSE call.strategy
    BY <2>2 DEF Payload
  <2> HIDE DEF p
  <2>4. v.max = StepsOf(call) /\ v.strategy = p.strategy /\ v.group = selection
    BY DEF Validation
  <2> HIDE DEF v, r, selection
  <2>5. r.intact /\ r.steps \in 1..StepsOf(call) /\ SelectedStrategy(r, v) /\ GroupAgrees(r, v)
    BY <2>1, <2>4 DEF NormalizedCase
  <2>6. selection # NoSelection => "other" \notin {r.echoed, r.executed}
    BY <2>4, <2>5 DEF GroupAgrees
  <2>7. selection = NoSelection =>
          r.strategy # "auto" /\ call.strategy \in {"auto", r.strategy}
    BY <2>3, <2>4, <2>5, SelectionFacts DEF SelectedStrategy
  <2>8. /\ call.group # NoGroup => selection.group = call.group
        /\ call.strategy = "safety-baseline" /\ call.group = NoGroup =>
             selection.group.id \in Baseline
    BY <2>3, SelectionFacts
  <2> QED  BY <2>5, <2>6, <2>7, <2>8 DEF r, selection, p
<1> QED  BY <1>1, GenerationInvariance, PTL

----------------------------------------------------------------------------
(* What a judgment uploads.                                                *)

Submissions == UNION {[1..n -> StepKinds] : n \in 0..MaxOutputs}
Contracts == {FALSE} \cup {c.assess : c \in Services}

Bodies ==
  {<<>>} \cup {Body(s, p, c, d) : s \in Submissions, p \in BOOLEAN, c \in Services, d \in Contracts}

Request ==
  [number: 0..MaxRequests, key: 0..MaxRequests, body: Bodies, assess: Contracts,
   first: Services \cup {Unread}, status: {"none", "prepared", "bound", "succeeded", "failed"}]

UploadType ==
  /\ offer \in Services /\ shifts \in 0..MaxShifts
  /\ run \in [steps: Submissions, policy: BOOLEAN, complete: BOOLEAN]
  /\ judge \in [discovery: Services \cup {Unread}, key: 0..MaxRequests, made: 0..MaxRequests,
                request: Request, posting: BOOLEAN]

\* The body is what the Run has to say to a service with this configuration,
\* which takes it.
Serves(c, body, detailed) ==
  /\ c \in Services /\ ~Refuses(run.steps, run.policy, c, detailed)
  /\ body = Body(run.steps, run.policy, c, detailed)

\* The request is the last one made, for a complete Run, and its assessment
\* contract is that of the first.
RequestOfRun ==
  /\ judge.request.number = judge.made
  /\ judge.made > 0 => run.complete /\ judge.request.assess = judge.request.first.assess
  /\ judge.made = 0 => judge.request.status = "none"
  /\ judge.posting =>
       /\ judge.request.status = "prepared"
       /\ Serves(judge.discovery, judge.request.body, judge.request.assess)

\* Every POST was of a request that was made, and of its bytes.
PostsOfRun ==
  /\ \A p \in posted :
       /\ p.number \in 1..judge.made /\ p.assess = p.first.assess
       /\ Serves(p.config, p.body, p.assess)
       /\ p.number = judge.request.number =>
            p.body = judge.request.body /\ p.key = judge.request.key
  /\ \A p, q \in posted : p.number = q.number => p.body = q.body /\ p.key = q.key

UInv == UploadType /\ RequestOfRun /\ PostsOfRun

----------------------------------------------------------------------------
(* Sums of a function over the first numbers.                              *)

LEMMA SumToIsSum ==
  ASSUME NEW n \in Nat, NEW f
  PROVE  SumTo(f, n) = SumOver(f, 1..n)
<1>0. IsFiniteSet(1..n)
  BY FS_Interval
<1>1. PICK g : IsSum(g, f, 1..n)
  BY <1>0, SumExists
<1> DEFINE step(h, s) == IF s = {} THEN 0
                         ELSE f[CHOOSE x \in s : TRUE] + h[s \ {CHOOSE x \in s : TRUE}]
<1>2. \A h : h = [s \in SUBSET (1..n) |-> step(h, s)] <=> IsSum(h, f, 1..n)
  BY DEF IsSum, AnyOf
<1>3. g = [s \in SUBSET (1..n) |-> step(g, s)]
  BY <1>1, <1>2
<1>4. \A h : h = [s \in SUBSET (1..n) |-> step(h, s)] => h = g
  BY <1>0, <1>1, <1>2, SumUnique
<1>5. SumTo(f, n) = g[1..n]
  BY <1>3, <1>4 DEF SumTo, MapThenSumSet, MapThenFoldSet
<1> QED  BY <1>0, <1>1, <1>5, SumIsFold

LEMMA SumToFacts ==
  ASSUME NEW n \in Nat, NEW f, \A i \in 1..n : f[i] \in Nat
  PROVE  /\ SumTo(f, n) \in Nat /\ SumTo(f, 0) = 0
         /\ n > 0 => SumTo(f, n) = SumTo(f, n - 1) + f[n]
<1>1. IsFiniteSet(1..n) /\ SumTo(f, n) = SumOver(f, 1..n)
  BY FS_Interval, SumToIsSum
<1>2. SumOver(f, 1..n) \in Nat /\ \A x \in 1..n : SumOver(f, 1..n) = f[x] + SumOver(f, (1..n) \ {x})
  BY <1>1, SumRemove
<1>3. SumTo(f, 0) = 0
  <2>1. SumTo(f, 0) = SumOver(f, 1..0) /\ 1..0 = {}
    BY SumToIsSum
  <2>2. PICK g : IsSum(g, f, {})
    BY SumExists, FS_EmptySet
  <2>3. g[{}] = 0
    BY <2>2 DEF IsSum
  <2> QED  BY <2>1, <2>2, <2>3, SumIsFold, FS_EmptySet
<1>4. ASSUME n > 0 PROVE SumTo(f, n) = SumTo(f, n - 1) + f[n]
  <2>1. (1..n) \ {n} = 1..(n - 1) /\ n \in 1..n /\ n - 1 \in Nat
    BY <1>4
  <2>2. SumTo(f, n - 1) = SumOver(f, 1..(n - 1))
    BY <2>1, SumToIsSum
  <2>3. SumTo(f, n) = f[n] + SumTo(f, n - 1)
    BY <1>1, <1>2, <2>1, <2>2
  <2>4. SumTo(f, n - 1) \in Nat /\ f[n] \in Nat
    <3>1. IsFiniteSet(1..(n - 1)) /\ \A i \in 1..(n - 1) : f[i] \in Nat
      BY <2>1, FS_Interval
    <3> QED  BY <2>1, <2>2, <3>1, SumRemove
  <2> QED  BY <2>3, <2>4
<1> QED  BY <1>1, <1>2, <1>3, <1>4

\* Sums of a sum, and of fewer terms.
LEMMA SumSplits ==
  ASSUME NEW n \in Nat, NEW f, NEW g, NEW h,
         \A i \in 1..n : f[i] \in Nat /\ g[i] \in Nat /\ h[i] = f[i] + g[i]
  PROVE  SumTo(h, n) = SumTo(f, n) + SumTo(g, n)
<1> DEFINE S == {m \in Nat : m <= n => SumTo(h, m) = SumTo(f, m) + SumTo(g, m)}
<1>1. 0 \in S
  <2>1. SumTo(h, 0) = 0 /\ SumTo(f, 0) = 0 /\ SumTo(g, 0) = 0
    BY SumToFacts
  <2> QED  BY <2>1
<1>2. ASSUME NEW m \in Nat, m \in S PROVE m + 1 \in S
  <2> SUFFICES ASSUME m + 1 <= n
               PROVE  SumTo(h, m + 1) = SumTo(f, m + 1) + SumTo(g, m + 1)
    OBVIOUS
  <2> DEFINE k == m + 1
  <2>1. k \in Nat /\ k > 0 /\ k - 1 = m /\ k \in 1..n /\ m <= n
        /\ \A i \in 1..k : i \in 1..n
    OBVIOUS
  <2>2. \A i \in 1..k : f[i] \in Nat /\ g[i] \in Nat /\ h[i] \in Nat
    BY <2>1
  <2>3. SumTo(h, m) = SumTo(f, m) + SumTo(g, m)
    BY <1>2, <2>1
  <2> HIDE DEF k, S
  <2>4. /\ SumTo(h, k) = SumTo(h, m) + h[k]
        /\ SumTo(f, k) = SumTo(f, m) + f[k]
        /\ SumTo(g, k) = SumTo(g, m) + g[k]
    BY <2>1, <2>2, SumToFacts
  <2>5. SumTo(f, m) \in Nat /\ SumTo(g, m) \in Nat
    <3>1. \A i \in 1..m : i \in 1..k
      BY <2>1
    <3> QED  BY <2>2, <3>1, SumToFacts
  <2>6. h[k] = f[k] + g[k] /\ f[k] \in Nat /\ g[k] \in Nat
    BY <2>1
  <2>7. SumTo(h, k) = SumTo(f, k) + SumTo(g, k)
    BY <2>3, <2>4, <2>5, <2>6
  <2> QED  BY <2>7 DEF k
<1> HIDE DEF S
<1>3. Nat \subseteq S
  BY <1>1, <1>2, SetInduction
<1> QED  BY <1>3 DEF S

LEMMA SumGrows ==
  ASSUME NEW n \in Nat, NEW f, \A i \in 1..n : f[i] \in Nat, NEW j \in 0..n
  PROVE  SumTo(f, j) <= SumTo(f, n) /\ SumTo(f, j) \in Nat
<1> DEFINE S == {m \in Nat : j <= m /\ m <= n => SumTo(f, j) <= SumTo(f, m)}
<1>0. \A m \in 0..n : SumTo(f, m) \in Nat /\ (m > 0 => SumTo(f, m) = SumTo(f, m - 1) + f[m])
  <2> SUFFICES ASSUME NEW m \in 0..n
               PROVE  SumTo(f, m) \in Nat /\ (m > 0 => SumTo(f, m) = SumTo(f, m - 1) + f[m])
    OBVIOUS
  <2>1. m \in Nat /\ \A i \in 1..m : f[i] \in Nat
    OBVIOUS
  <2> QED  BY <2>1, SumToFacts
<1>1. 0 \in S
  <2>1. j <= 0 => j = 0
    OBVIOUS
  <2>2. SumTo(f, 0) \in Nat
    BY <1>0
  <2> QED  BY <2>1, <2>2
<1>2. ASSUME NEW m \in Nat, m \in S PROVE m + 1 \in S
  <2> SUFFICES ASSUME j <= m + 1, m + 1 <= n PROVE SumTo(f, j) <= SumTo(f, m + 1)
    OBVIOUS
  <2>1. CASE j = m + 1
    BY <1>0, <2>1
  <2>2. CASE j # m + 1
    <3>1. j <= m /\ m <= n /\ m + 1 \in 0..n /\ m \in 0..n /\ m + 1 \in 1..n
      BY <2>2
    <3>2. SumTo(f, j) <= SumTo(f, m)
      BY <1>2, <3>1
    <3>3. SumTo(f, m + 1) = SumTo(f, m) + f[m + 1]
      BY <1>0, <3>1
    <3>4. SumTo(f, j) \in Nat /\ SumTo(f, m) \in Nat /\ f[m + 1] \in Nat
      BY <1>0, <3>1
    <3> QED  BY <3>2, <3>3, <3>4
  <2> QED  BY <2>1, <2>2
<1> HIDE DEF S
<1>3. Nat \subseteq S
  BY <1>1, <1>2, SetInduction
<1>4. n \in S
  BY <1>3
<1> QED  BY <1>0, <1>4 DEF S

----------------------------------------------------------------------------
(* The parts of an upload.                                                 *)

LEMMA StepsAreSequences ==
  ASSUME UploadAssumption, NEW steps \in Submissions
  PROVE  /\ Len(steps) \in Nat /\ DOMAIN steps = 1..Len(steps)
         /\ \A i \in DOMAIN steps : steps[i] \in StepKinds /\ steps[i].log \in Nat
<1>1. PICK n \in 0..MaxOutputs : steps \in [1..n -> StepKinds]
  BY DEF Submissions
<1>2. n \in Nat
  BY DEF UploadAssumption
<1>3. steps \in Seq(StepKinds) /\ Len(steps) = n
  BY <1>1, <1>2, LenProperties
<1> QED  BY <1>1, <1>2, <1>3 DEF UploadAssumption

LEMMA ClampedFacts ==
  ASSUME NEW n \in Int, NEW high \in Nat
  PROVE  /\ Clamped(n, high) \in 0..high
         /\ Clamped(n, high) < high => n < high
         /\ n < 0 => Clamped(n, high) = 0
BY DEF Clamped

LogsOf(steps) == [j \in DOMAIN steps |-> steps[j].log]

LEMMA KeptFacts ==
  ASSUME UploadAssumption, NEW steps \in Submissions, NEW room \in Int
  PROVE  /\ \A i \in DOMAIN steps : KeptLog(steps, i, room) \in 0..steps[i].log
         /\ \A j, k \in DOMAIN steps :
              j < k /\ KeptLog(steps, j, room) < steps[j].log => KeptLog(steps, k, room) = 0
<1> DEFINE n == Len(steps)
           logs == LogsOf(steps)
<1>1. /\ n \in Nat /\ DOMAIN steps = 1..n /\ \A i \in 1..n : logs[i] = steps[i].log
      /\ \A i \in 1..n : logs[i] \in Nat
  BY StepsAreSequences DEF LogsOf
<1>2. \A i \in 1..n : KeptLog(steps, i, room) = Clamped(room - SumTo(logs, i - 1), logs[i])
  BY <1>1 DEF KeptLog, LogsOf
<1> HIDE DEF n, logs
<1>3. \A i \in 0..n : /\ SumTo(logs, i) \in Nat
                      /\ i > 0 => SumTo(logs, i) = SumTo(logs, i - 1) + logs[i]
  <2> SUFFICES ASSUME NEW i \in 0..n
               PROVE  SumTo(logs, i) \in Nat
                        /\ (i > 0 => SumTo(logs, i) = SumTo(logs, i - 1) + logs[i])
    OBVIOUS
  <2>1. i \in Nat /\ \A j \in 1..i : logs[j] \in Nat
    BY <1>1
  <2> QED  BY <2>1, SumToFacts
<1>4. \A i \in 1..n : i - 1 \in 0..n /\ i \in 0..n /\ i > 0
  BY <1>1
<1>5. \A i \in 1..n : room - SumTo(logs, i - 1) \in Int
  BY <1>3, <1>4
<1>6. \A i \in 1..n : KeptLog(steps, i, room) \in 0..logs[i]
  BY <1>1, <1>2, <1>5, ClampedFacts
<1>7. ASSUME NEW j \in 1..n, NEW k \in 1..n, j < k, KeptLog(steps, j, room) < logs[j]
      PROVE  KeptLog(steps, k, room) = 0
  <2>1. room - SumTo(logs, j - 1) < logs[j]
    <3> DEFINE d == room - SumTo(logs, j - 1)
               high == logs[j]
    <3>1. d \in Int /\ high \in Nat
      BY <1>1, <1>5
    <3>2. Clamped(d, high) < high
      BY <1>2, <1>7
    <3> HIDE DEF d, high
    <3>3. d < high
      BY <3>1, <3>2, ClampedFacts
    <3> QED  BY <3>3 DEF d, high
  <2>2. /\ SumTo(logs, j) = SumTo(logs, j - 1) + logs[j]
        /\ SumTo(logs, j) \in Nat /\ SumTo(logs, j - 1) \in Nat /\ SumTo(logs, k - 1) \in Nat
        /\ logs[j] \in Nat
    BY <1>1, <1>3, <1>4
  <2>3. SumTo(logs, j) <= SumTo(logs, k - 1)
    <3>1. k - 1 \in Nat /\ j \in 0..(k - 1) /\ \A i \in 1..(k - 1) : logs[i] \in Nat
      BY <1>1, <1>7
    <3> QED  BY <3>1, SumGrows
  <2>4. room - SumTo(logs, k - 1) < 0
    BY <2>1, <2>2, <2>3
  <2> QED  BY <1>1, <1>2, <1>5, <2>4, ClampedFacts
<1> QED  BY <1>1, <1>6, <1>7 DEF logs, LogsOf

\* The bytes that are missing from the document of an old service are those its
\* logs lost, from the last ones.
LEMMA LegacyFacts ==
  ASSUME UploadAssumption, NEW steps \in Submissions, NEW c \in Services
  PROVE  LET part == LegacyPart(steps, c)
         IN  /\ part.bytes \in Nat /\ part.schema = "legacy" /\ part.uses = {} /\ ~part.model
             /\ part.redactions = {} /\ ~part.summary
             /\ part.dropped = SumTo(LogsOf(steps), Len(steps)) + Len(steps) - part.bytes
             /\ \A j, k \in DOMAIN steps :
                  j < k /\ part.kept[j] < steps[j].log => part.kept[k] = 0
<1> DEFINE n == Len(steps)
           logs == LogsOf(steps)
           room == Min({c.bytes, c.total}) - n
           kept == [i \in DOMAIN steps |-> KeptLog(steps, i, room)]
           cut == [i \in DOMAIN steps |-> steps[i].log - kept[i]]
           part == LegacyPart(steps, c)
<1>1. /\ n \in Nat /\ DOMAIN steps = 1..n /\ \A i \in 1..n : logs[i] = steps[i].log
      /\ \A i \in 1..n : logs[i] \in Nat
  BY StepsAreSequences DEF LogsOf
<1>2. room \in Int
  <2>1. {c.bytes, c.total} \subseteq Nat
    BY DEF UploadAssumption
  <2>2. Min({c.bytes, c.total}) \in Nat
    BY <2>1, MinIsLeast
  <2> QED  BY <1>1, <2>2
<1>3. /\ part.bytes = n + SumTo(kept, n) /\ part.dropped = SumTo(cut, n) /\ part.kept = kept
      /\ part.schema = "legacy" /\ part.uses = {} /\ ~part.model /\ part.redactions = {}
      /\ ~part.summary
  BY DEF LegacyPart
<1> HIDE DEF n, logs, room, part
<1>4. \A i \in 1..n : kept[i] \in 0..logs[i] /\ cut[i] = logs[i] - kept[i]
  BY <1>1, <1>2, KeptFacts
<1>5. \A j, k \in 1..n : j < k /\ kept[j] < steps[j].log => kept[k] = 0
  BY <1>1, <1>2, KeptFacts
<1> HIDE DEF kept, cut
<1>6. \A i \in 1..n : kept[i] \in Nat /\ cut[i] \in Nat /\ logs[i] = kept[i] + cut[i]
  <2> SUFFICES ASSUME NEW i \in 1..n
               PROVE  kept[i] \in Nat /\ cut[i] \in Nat /\ logs[i] = kept[i] + cut[i]
    OBVIOUS
  <2>1. logs[i] \in Nat /\ kept[i] \in 0..logs[i] /\ cut[i] = logs[i] - kept[i]
    BY <1>1, <1>4
  <2> QED  BY <2>1
<1>7. SumTo(logs, n) = SumTo(kept, n) + SumTo(cut, n)
  BY <1>1, <1>6, SumSplits
<1>8. SumTo(kept, n) \in Nat /\ SumTo(cut, n) \in Nat
  BY <1>1, <1>6, SumToFacts
<1>9. part.dropped = SumTo(logs, n) + n - part.bytes /\ part.bytes \in Nat
  BY <1>1, <1>3, <1>7, <1>8
<1> QED  BY <1>1, <1>3, <1>5, <1>9 DEF n, logs, part

LEMMA PartBytesType ==
  \A s, model, text : PartBytes(s, model, text) \in Nat
<1> SUFFICES ASSUME NEW s, NEW model, NEW text PROVE PartBytes(s, model, text) \in Nat
  OBVIOUS
<1> DEFINE a == IF s.trace # "none" THEN 1 ELSE 0
           b == IF model THEN ModelBytes ELSE 0
           d == IF text THEN DiffBytes ELSE 0
<1>1. a \in Nat /\ b \in Nat /\ d \in Nat
  BY DEF ModelBytes, DiffBytes
<1>2. PartBytes(s, model, text) = 1 + a + b + d
  BY DEF PartBytes
<1> HIDE DEF a, b, d
<1> QED  BY <1>1, <1>2

LEMMA PlainFacts ==
  ASSUME NEW s, NEW c
  PROVE  LET part == PlainPart(s, c)
         IN  /\ part.bytes \in Nat /\ part.schema = Schema(c) /\ part.uses = {} /\ ~part.model
             /\ part.redactions = {} /\ ~part.summary
BY PartBytesType DEF PlainPart

LEMMA MessageFacts ==
  /\ MessagePart.bytes \in Nat /\ MessagePart.schema = "messages" /\ MessagePart.uses = {}
  /\ ~MessagePart.model /\ MessagePart.redactions = {} /\ ~MessagePart.summary
BY DEF MessagePart

\* What a typed part asks a service for, that takes the Run at all.
LEMMA CapabilityFacts ==
  ASSUME NEW steps, NEW policy, NEW c, ValidConfig(c), ~Inexpressible(steps, policy, c),
         "v3" \in c.types, NEW i \in DOMAIN steps
  PROVE  LET s == steps[i]
             part == CapabilityPart(s, policy, c)
         IN  /\ part.bytes \in Nat /\ part.schema = "v3" /\ part.uses \subseteq Understood(c)
             /\ part.model => c.model
             /\ part.redactions # {} => Redacts(c) /\ "redaction" \in part.uses
             /\ part.summary <=> "file_observation_summary" \in part.uses
             /\ part.summary <=> Summarized(c)
<1> DEFINE s == steps[i]
           part == CapabilityPart(s, policy, c)
<1>1. part.bytes \in Nat /\ part.schema = "v3" /\ part.uses = Uses(s, policy, c)
      /\ part.redactions = Redactions(s, policy, c) /\ part.summary = Summarized(c)
  BY PartBytesType DEF CapabilityPart
<1>2. part.model => c.model
  BY DEF CapabilityPart
<1> HIDE DEF part
<1>3. Redactions(s, policy, c) # {} => "redaction" \in Advertised(c)
  <2>1. s.redact => Redacts(c)
    BY DEF Inexpressible
  <2> QED  BY <2>1 DEF Redactions, Redacts
<1>4. s.trace # "none" => "runtime_trace" \in Advertised(c)
  BY DEF Inexpressible, Traced
<1>5. policy => Advertised(c) = {} \/ "file_diff" \in Advertised(c)
  BY DEF Inexpressible
<1>6. Summarized(c) => "file_observation_summary" \in Advertised(c)
  BY DEF Summarized
<1>7. Advertised(c) # {} => "base" \in Advertised(c)
  BY DEF ValidConfig, Advertised, KnownCapabilities
<1>8. Uses(s, policy, c) \subseteq Understood(c)
  BY <1>3, <1>4, <1>5, <1>6, <1>7 DEF Uses, Understood
<1>9. "file_observation_summary" \in Uses(s, policy, c) <=> Summarized(c)
  BY DEF Uses
<1>10. Redactions(s, policy, c) # {} => "redaction" \in Uses(s, policy, c)
  BY DEF Uses
<1> QED  BY <1>1, <1>2, <1>3, <1>8, <1>9, <1>10 DEF Redacts, part

\* What a typed part admits.
LEMMA CapabilityLoss ==
  ASSUME NEW s, NEW policy, NEW c
  PROVE  LET part == CapabilityPart(s, policy, c)
         IN  /\ s.trace = "model" /\ ~part.model => part.lost > 0
             /\ s.trace = "redacted" => part.lost > 0 \/ "artifact_snapshot" \in part.redactions
             /\ policy /\ s.diff # "none" => part.diff # "none"
             /\ s.redact => "agent_response_claim" \in part.redactions
<1> DEFINE part == CapabilityPart(s, policy, c)
<1>1. /\ part.redactions = Redactions(s, policy, c)
      /\ part.lost = ModelLost(s, part.model) + ToolLost(s, c)
  BY DEF CapabilityPart
<1>2. policy /\ s.diff # "none" => part.diff # "none"
  BY DEF CapabilityPart
<1> HIDE DEF part
<1>3. ModelLost(s, part.model) \in Nat /\ ToolLost(s, c) \in Nat
  BY DEF ModelLost, ToolLost
<1>4. s.trace = "model" /\ ~part.model => part.lost > 0
  <2>1. s.trace = "model" /\ ~part.model => ModelLost(s, part.model) = 1
    BY DEF ModelLost
  <2> QED  BY <1>1, <1>3, <2>1
<1>5. s.trace = "redacted" => part.lost > 0 \/ "artifact_snapshot" \in part.redactions
  <2>1. CASE s.trace = "redacted" /\ "redaction" \notin Advertised(c)
    <3>1. ToolLost(s, c) = 1
      BY <2>1 DEF ToolLost
    <3> QED  BY <1>1, <1>3, <3>1
  <2>2. CASE s.trace = "redacted" /\ "redaction" \in Advertised(c)
    BY <1>1, <2>2 DEF Redactions
  <2> QED  BY <2>1, <2>2
<1>6. s.redact => "agent_response_claim" \in part.redactions
  BY <1>1 DEF Redactions
<1> QED  BY <1>2, <1>4, <1>5, <1>6 DEF part

\* Which part of a body is which.
PartOf(part, steps, policy, c, i) ==
  \/ part = MessagePart
  \/ Schema(c) = "legacy" /\ part = LegacyPart(steps, c)
  \/ /\ Schema(c) = "v3" /\ i \in DOMAIN steps /\ part = CapabilityPart(steps[i], policy, c)
  \/ /\ Schema(c) \in {"v1", "v2"} /\ i \in DOMAIN steps /\ part = PlainPart(steps[i], c)

LEMMA BodyParts ==
  ASSUME UploadAssumption, NEW steps \in Submissions, NEW policy, NEW c, NEW detailed
  PROVE  LET body == Body(steps, policy, c, detailed)
         IN  /\ Len(body) \in Nat /\ DOMAIN body = 1..Len(body)
             /\ \A i \in DOMAIN body : PartOf(body[i], steps, policy, c, i)
<1> DEFINE first == EvidenceParts(steps, policy, c)
           with == {i \in DOMAIN steps : steps[i].messages /\ detailed}
           k == Cardinality(with)
           second == [i \in 1..k |-> MessagePart]
           n == Len(steps)
           S == {first[i] : i \in DOMAIN first} \cup {MessagePart}
<1>1. n \in Nat /\ DOMAIN steps = 1..n
  BY StepsAreSequences
<1>2. k \in Nat
  <2>1. with \subseteq 1..n
    BY <1>1
  <2> HIDE DEF with
  <2>2. IsFiniteSet(1..n)
    BY <1>1, FS_Interval
  <2>3. IsFiniteSet(with)
    BY <2>1, <2>2, FS_Subset
  <2> QED  BY <2>3, FS_CardinalityType
<1>3. /\ \E m \in Nat : DOMAIN first = 1..m /\ first \in [1..m -> S]
      /\ \A i \in DOMAIN first : PartOf(first[i], steps, policy, c, i)
  <2>1. CASE Schema(c) = "legacy"
    <3>1. first = <<LegacyPart(steps, c)>>
      BY <2>1 DEF EvidenceParts
    <3>2. DOMAIN first = 1..1 /\ first \in [1..1 -> S]
      BY <3>1
    <3>3. \A i \in DOMAIN first : first[i] = LegacyPart(steps, c)
      BY <3>1
    <3> HIDE DEF first, S
    <3> QED  BY <2>1, <3>2, <3>3 DEF PartOf
  <2>2. CASE Schema(c) = "v3"
    <3>1. first = [i \in DOMAIN steps |-> CapabilityPart(steps[i], policy, c)]
      BY <2>2 DEF EvidenceParts
    <3>2. DOMAIN first = 1..n /\ first \in [1..n -> S]
      BY <1>1, <3>1
    <3>3. \A i \in DOMAIN first : i \in DOMAIN steps /\ first[i] = CapabilityPart(steps[i], policy, c)
      BY <3>1
    <3> HIDE DEF first, S
    <3> QED  BY <1>1, <2>2, <3>2, <3>3 DEF PartOf
  <2>3. CASE Schema(c) \notin {"legacy", "v3"}
    <3>1. first = [i \in DOMAIN steps |-> PlainPart(steps[i], c)]
      BY <2>3 DEF EvidenceParts
    <3>2. DOMAIN first = 1..n /\ first \in [1..n -> S]
      BY <1>1, <3>1
    <3>3. \A i \in DOMAIN first : i \in DOMAIN steps /\ first[i] = PlainPart(steps[i], c)
      BY <3>1
    <3>4. Schema(c) \in {"v1", "v2"}
      BY <2>3 DEF Schema
    <3> HIDE DEF first, S
    <3> QED  BY <1>1, <3>2, <3>3, <3>4 DEF PartOf
  <2> QED  BY <2>1, <2>2, <2>3
<1>4. first \in Seq(S)
  <2> HIDE DEF first, S
  <2> QED  BY <1>3
<1>5. second \in Seq(S) /\ Len(second) = k /\ \A i \in 1..k : second[i] = MessagePart
  <2>1. MessagePart \in S
    OBVIOUS
  <2> HIDE DEF S, k
  <2> QED  BY <1>2, <2>1
<1>6. Body(steps, policy, c, detailed) = first \o second
  BY DEF Body, AssessmentParts
<1> HIDE DEF first, second, S, k
<1>7. /\ Len(first) \in Nat /\ DOMAIN first = 1..Len(first)
      /\ Len(first \o second) = Len(first) + k
      /\ DOMAIN (first \o second) = 1..Len(first) + k
      /\ \A i \in 1..Len(first) : (first \o second)[i] = first[i]
      /\ \A i \in 1..k : (first \o second)[Len(first) + i] = second[i]
  BY <1>2, <1>4, <1>5, ConcatProperties, LenProperties
<1>8. ASSUME NEW i \in 1..Len(first) + k
      PROVE  PartOf((first \o second)[i], steps, policy, c, i)
  <2>1. CASE i \in 1..Len(first)
    <3>1. (first \o second)[i] = first[i] /\ i \in DOMAIN first
      BY <1>7, <2>1
    <3> QED  BY <1>3, <3>1
  <2>2. CASE i \notin 1..Len(first)
    <3>1. i - Len(first) \in 1..k /\ i = Len(first) + (i - Len(first))
      BY <1>2, <1>7, <2>2
    <3>2. (first \o second)[i] = MessagePart
      BY <1>5, <1>7, <3>1
    <3> QED  BY <3>2 DEF PartOf
  <2> QED  BY <2>1, <2>2
<1>9. Len(first) + k \in Nat
  BY <1>2, <1>7
<1> QED  BY <1>6, <1>7, <1>8, <1>9

\* What a service that takes a body can read of it.
LEMMA ServedIsNegotiated ==
  ASSUME UploadAssumption, run.steps \in Submissions, NEW c, NEW body, NEW detailed,
         Serves(c, body, detailed)
  PROVE  /\ Len(body) + 1 <= c.files
         /\ \A i \in DOMAIN body : body[i].bytes <= c.bytes
         /\ BodyBytes(body) <= c.total
         /\ \A i \in DOMAIN body :
              /\ body[i].schema \in c.types \cup {"legacy", "messages"}
              /\ body[i].uses \subseteq Understood(c)
              /\ body[i].model => c.model
              /\ body[i].redactions # {} => Redacts(c) /\ "redaction" \in body[i].uses
              /\ body[i].summary <=> "file_observation_summary" \in body[i].uses
<1>1. /\ Len(body) \in Nat /\ DOMAIN body = 1..Len(body)
      /\ \A i \in DOMAIN body : PartOf(body[i], run.steps, run.policy, c, i)
  BY BodyParts DEF Serves
<1>2. /\ c.files \in Nat /\ c.bytes \in Nat /\ c.total \in Nat /\ CaseBytes \in Nat
  BY DEF UploadAssumption, Serves
<1>3. /\ ~TooLarge(body, c, detailed) /\ ValidConfig(c) /\ ~Inexpressible(run.steps, run.policy, c)
  BY DEF Serves, Refuses
<1>4. c \in Services
  BY DEF Serves
<1>5. ASSUME NEW i \in DOMAIN body
      PROVE  /\ body[i].bytes \in Nat
             /\ body[i].schema \in c.types \cup {"legacy", "messages"}
             /\ body[i].uses \subseteq Understood(c)
             /\ body[i].model => c.model
             /\ body[i].redactions # {} => Redacts(c) /\ "redaction" \in body[i].uses
             /\ body[i].summary <=> "file_observation_summary" \in body[i].uses
  <2>1. CASE body[i] = MessagePart
    BY <2>1, MessageFacts
  <2>2. CASE Schema(c) = "legacy" /\ body[i] = LegacyPart(run.steps, c)
    BY <1>4, <2>2, LegacyFacts
  <2>3. CASE Schema(c) = "v3" /\ i \in DOMAIN run.steps
             /\ body[i] = CapabilityPart(run.steps[i], run.policy, c)
    <3>1. "v3" \in c.types
      BY <2>3 DEF Schema
    <3> QED  BY <1>3, <2>3, <3>1, CapabilityFacts
  <2>4. CASE Schema(c) \in {"v1", "v2"} /\ i \in DOMAIN run.steps
             /\ body[i] = PlainPart(run.steps[i], c)
    <3>1. Schema(c) \in c.types
      BY <2>4 DEF Schema
    <3> QED  BY <2>4, <3>1, PlainFacts
  <2> QED  BY <1>1, <2>1, <2>2, <2>3, <2>4 DEF PartOf
<1>6. BodyBytes(body) \in Nat
  <2> DEFINE f == [i \in DOMAIN body |-> body[i].bytes]
  <2>1. \A i \in 1..Len(body) : f[i] \in Nat
    BY <1>1, <1>5
  <2>2. BodyBytes(body) = SumTo(f, Len(body))
    BY DEF BodyBytes
  <2> HIDE DEF f
  <2> QED  BY <1>1, <2>1, <2>2, SumToFacts
<1>7. Len(body) + 1 <= c.files
  BY <1>1, <1>2, <1>3 DEF TooLarge
<1>8. \A i \in DOMAIN body : body[i].bytes <= c.bytes
  BY <1>2, <1>3, <1>5 DEF TooLarge
<1>9. BodyBytes(body) <= c.total
  <2> DEFINE extra == IF detailed THEN CaseBytes ELSE 0
  <2>1. ~(BodyBytes(body) + extra > c.total)
    BY <1>3 DEF TooLarge
  <2>2. extra \in Nat
    BY <1>2
  <2> HIDE DEF extra
  <2> QED  BY <1>2, <1>6, <2>1, <2>2
<1> QED  BY <1>5, <1>7, <1>8, <1>9

\* What it is told of the rest.
LEMMA ServedAdmitsLoss ==
  ASSUME UploadAssumption, run.steps \in Submissions, NEW c, NEW body, NEW detailed,
         Serves(c, body, detailed), NEW i \in DOMAIN body \cap DOMAIN run.steps
  PROVE  LET part == body[i]
             s == run.steps[i]
         IN /\ part.schema = "v3" =>
                 /\ s.trace = "model" /\ ~part.model => part.lost > 0
                 /\ s.trace = "redacted" => part.lost > 0 \/ "artifact_snapshot" \in part.redactions
                 /\ run.policy /\ s.diff # "none" => part.diff # "none"
                 /\ s.redact => "agent_response_claim" \in part.redactions
            /\ part.schema # "messages" /\ s.lossy => part.summary
            /\ part.schema = "legacy" =>
                 /\ part.dropped = SumTo([j \in DOMAIN run.steps |-> run.steps[j].log], Len(run.steps))
                                   + Len(run.steps) - part.bytes
                 /\ \A j, k \in DOMAIN run.steps :
                      j < k /\ part.kept[j] < run.steps[j].log => part.kept[k] = 0
<1>1. PartOf(body[i], run.steps, run.policy, c, i)
  BY BodyParts DEF Serves
<1>2. /\ ValidConfig(c) /\ ~Inexpressible(run.steps, run.policy, c) /\ c \in Services
  BY DEF Serves, Refuses
<1>3. run.steps[i].lossy => Summarized(c)
  BY <1>2 DEF Inexpressible
<1>4. Summarized(c) => Schema(c) = "v3"
  BY DEF Summarized
<1>5. CASE body[i] = MessagePart
  BY <1>5, MessageFacts
<1>6. CASE Schema(c) = "legacy" /\ body[i] = LegacyPart(run.steps, c)
  <2>1. body[i].schema = "legacy" /\ ~run.steps[i].lossy
    BY <1>2, <1>3, <1>4, <1>6, LegacyFacts
  <2>2. /\ body[i].dropped = SumTo(LogsOf(run.steps), Len(run.steps)) + Len(run.steps) - body[i].bytes
        /\ \A j, k \in DOMAIN run.steps :
             j < k /\ body[i].kept[j] < run.steps[j].log => body[i].kept[k] = 0
    BY <1>2, <1>6, LegacyFacts
  <2> QED  BY <2>1, <2>2 DEF LogsOf
<1>7. CASE Schema(c) = "v3" /\ body[i] = CapabilityPart(run.steps[i], run.policy, c)
  <2>1. "v3" \in c.types
    BY <1>7 DEF Schema
  <2>2. body[i].schema = "v3" /\ (body[i].summary <=> Summarized(c))
    BY <1>2, <1>7, <2>1, CapabilityFacts
  <2>3. /\ run.steps[i].trace = "model" /\ ~body[i].model => body[i].lost > 0
        /\ run.steps[i].trace = "redacted" =>
             body[i].lost > 0 \/ "artifact_snapshot" \in body[i].redactions
        /\ run.policy /\ run.steps[i].diff # "none" => body[i].diff # "none"
        /\ run.steps[i].redact => "agent_response_claim" \in body[i].redactions
    BY <1>7, CapabilityLoss
  <2> QED  BY <1>3, <2>2, <2>3
<1>8. CASE Schema(c) \in {"v1", "v2"} /\ body[i] = PlainPart(run.steps[i], c)
  <2>1. body[i].schema = Schema(c) /\ ~run.steps[i].lossy
    BY <1>3, <1>4, <1>8, PlainFacts
  <2> QED  BY <1>8, <2>1
<1> QED  BY <1>1, <1>5, <1>6, <1>7, <1>8 DEF PartOf

----------------------------------------------------------------------------
(* The invariant of uploads holds.                                         *)

JudgeType ==
  [discovery: Services \cup {Unread}, key: 0..MaxRequests, made: 0..MaxRequests,
   request: Request, posting: BOOLEAN]

LEMMA JudgeFields ==
  ASSUME UploadType
  PROVE  /\ judge \in JudgeType /\ judge.discovery \in Services \cup {Unread}
         /\ judge.key \in 0..MaxRequests /\ judge.made \in 0..MaxRequests
         /\ judge.request \in Request /\ judge.posting \in BOOLEAN
         /\ judge.request.number \in 0..MaxRequests /\ judge.request.key \in 0..MaxRequests
         /\ judge.request.body \in Bodies /\ judge.request.assess \in Contracts
         /\ judge.request.first \in Services \cup {Unread}
         /\ judge.request.status \in {"none", "prepared", "bound", "succeeded", "failed"}
         /\ run.steps \in Submissions /\ run.policy \in BOOLEAN /\ run.complete \in BOOLEAN
BY DEF UploadType, JudgeType, Request

\* Nothing is posted before there is a request.
LEMMA NoneBefore ==
  ASSUME UploadAssumption, UInv, judge.made = 0
  PROVE  posted = {} /\ ~judge.posting
BY DEF UInv, RequestOfRun, PostsOfRun

\* A step that only takes note of a configuration.
LEMMA NoteKeeps ==
  ASSUME UInv, UNCHANGED <<offer, shifts, run, posted>>, ~judge.posting,
         NEW c \in Services \cup {Unread}, judge' = [judge EXCEPT !.discovery = c]
  PROVE  UInv'
<1>1. judge' \in JudgeType
  BY JudgeFields DEF UInv, JudgeType
<1>2. /\ judge'.request = judge.request /\ judge'.made = judge.made
      /\ judge'.posting = judge.posting
  BY JudgeFields DEF UInv, JudgeType
<1>3. UploadType'
  BY <1>1 DEF UInv, UploadType, JudgeType
<1>4. RequestOfRun'
  BY <1>2 DEF UInv, RequestOfRun
<1>5. PostsOfRun'
  BY <1>2 DEF UInv, PostsOfRun, Serves
<1> QED  BY <1>3, <1>4, <1>5 DEF UInv

LEMMA ShiftKeeps ==
  ASSUME UploadAssumption, UInv, NEW c \in Services, Shift(c)
  PROVE  UInv'
<1>1. UNCHANGED <<run, judge, posted>> /\ offer' \in Services /\ shifts' \in 0..MaxShifts
  BY DEF Shift, UInv, UploadType, UploadAssumption
<1>2. UploadType'
  BY <1>1 DEF UInv, UploadType
<1>3. RequestOfRun' /\ PostsOfRun'
  BY <1>1 DEF UInv, RequestOfRun, PostsOfRun, Serves
<1> QED  BY <1>2, <1>3 DEF UInv

\* Submissions only come before the first request.
LEMMA SubmitKeeps ==
  ASSUME UploadAssumption, UInv, NEW s \in StepKinds, Submit(s)
  PROVE  UInv'
<1> DEFINE config == IF judge.discovery # Unread THEN judge.discovery ELSE offer
           read == s.redact /\ ValidConfig(config)
<1>1. ~run.complete /\ Len(run.steps) < MaxOutputs /\ UNCHANGED <<offer, shifts, posted>>
  BY DEF Submit
<1>2. config \in Services \cup {Unread}
  BY JudgeFields DEF UInv, UploadType
<1>3. judge' \in {judge, [judge EXCEPT !.discovery = config]}
  BY DEF Submit
<1>4. run' \in {run, [run EXCEPT !.steps = Append(run.steps, s)]}
  BY DEF Submit
<1>5. judge.made = 0
  BY <1>1, JudgeFields DEF UInv, RequestOfRun
<1>6. posted = {} /\ ~judge.posting
  BY <1>5, NoneBefore
<1> HIDE DEF config
<1>7. /\ judge' \in JudgeType /\ judge'.request = judge.request /\ judge'.made = judge.made
      /\ judge'.posting = judge.posting
  BY <1>2, <1>3, JudgeFields DEF UInv, JudgeType
<1>8. Append(run.steps, s) \in Submissions
  <2>1. PICK n \in 0..MaxOutputs : run.steps \in [1..n -> StepKinds]
    BY JudgeFields DEF UInv, Submissions
  <2>2. n \in Nat /\ MaxOutputs \in Nat
    BY DEF UploadAssumption
  <2>3. run.steps \in Seq(StepKinds) /\ Len(run.steps) = n
    BY <2>1, <2>2, LenProperties
  <2>4. Append(run.steps, s) \in [1..(n + 1) -> StepKinds]
    <3>1. /\ Append(run.steps, s) \in Seq(StepKinds) /\ Len(Append(run.steps, s)) = n + 1
      BY <2>3, AppendProperties
    <3> DEFINE more == Append(run.steps, s)
    <3> HIDE DEF more
    <3>2. more \in Seq(StepKinds) /\ Len(more) = n + 1
      BY <3>1 DEF more
    <3>3. more \in [1..(n + 1) -> StepKinds]
      BY <3>2, LenProperties
    <3> QED  BY <3>3 DEF more
  <2>5. n + 1 \in 0..MaxOutputs
    BY <1>1, <2>2, <2>3
  <2> QED  BY <2>4, <2>5 DEF Submissions
<1>9. run' \in [steps: Submissions, policy: BOOLEAN, complete: BOOLEAN]
  BY <1>4, <1>8 DEF UInv, UploadType
<1>10. UploadType'
  BY <1>1, <1>7, <1>9 DEF UInv, UploadType, JudgeType
<1>11. RequestOfRun'
  BY <1>5, <1>6, <1>7, JudgeFields DEF UInv, RequestOfRun
<1>12. PostsOfRun'
  BY <1>1, <1>6 DEF PostsOfRun
<1> QED  BY <1>10, <1>11, <1>12 DEF UInv

LEMMA CompleteRunKeeps ==
  ASSUME UInv, CompleteRun
  PROVE  UInv'
<1>1. /\ UNCHANGED <<offer, shifts, judge, posted>> /\ run' = [run EXCEPT !.complete = TRUE]
  BY DEF CompleteRun
<1>2. /\ run' \in [steps: Submissions, policy: BOOLEAN, complete: BOOLEAN]
      /\ run'.steps = run.steps /\ run'.policy = run.policy /\ run'.complete
  BY <1>1 DEF UInv, UploadType
<1>3. UploadType'
  BY <1>1, <1>2 DEF UInv, UploadType
<1>4. \A c, body, d : Serves(c, body, d)' <=> Serves(c, body, d)
  BY <1>2 DEF Serves
<1>5. RequestOfRun' /\ PostsOfRun'
  BY <1>1, <1>2, <1>4 DEF UInv, RequestOfRun, PostsOfRun
<1> QED  BY <1>3, <1>5 DEF UInv

LEMMA RefusedKeeps ==
  ASSUME UInv, NEW d, JudgeRefused(d), ~judge.posting
  PROVE  UInv'
<1> DEFINE c == IF ValidConfig(offer) THEN offer ELSE judge.discovery
<1>1. c \in Services \cup {Unread}
  BY JudgeFields DEF UInv, UploadType
<1>2. judge' = [judge EXCEPT !.discovery = c] /\ UNCHANGED <<offer, shifts, run, posted>>
  BY DEF JudgeRefused
<1> HIDE DEF c
<1> QED  BY <1>1, <1>2, NoteKeeps

LEMMA JudgeFirstKeeps ==
  ASSUME UploadAssumption, UInv, JudgeFirst
  PROVE  UInv'
<1> DEFINE again == judge.made > 0
           detailed == IF again THEN judge.request.assess ELSE Assesses(offer)
           key == IF judge.key = 0 THEN judge.made + 1 ELSE judge.key
           n == judge.made + 1
           body == Body(run.steps, run.policy, offer, detailed)
           first == IF again THEN judge.request.first ELSE offer
           request == [number |-> n, key |-> key, assess |-> detailed, body |-> body,
                       first |-> first, status |-> "prepared"]
<1>1. run.complete /\ ~judge.posting /\ judge.made < MaxRequests
  BY DEF JudgeFirst
<1>2. CASE JudgeRefused(detailed)
  BY <1>1, <1>2, RefusedKeeps
<1>3. ASSUME ~Refuses(run.steps, run.policy, offer, detailed),
             judge' = [judge EXCEPT !.discovery = offer, !.key = key, !.made = n,
                                    !.posting = TRUE, !.request = request],
             UNCHANGED <<offer, shifts, run, posted>>
      PROVE  UInv'
  <2>1. offer \in Services
    BY DEF UInv, UploadType
  <2>2. detailed \in Contracts
    BY <2>1, JudgeFields DEF UInv, Contracts, Assesses
  <2>3. first \in Services \cup {Unread} /\ detailed = first.assess
    <3>1. CASE again
      BY <3>1, JudgeFields DEF UInv, RequestOfRun
    <3>2. CASE ~again
      BY <2>1, <3>2 DEF Assesses
    <3> QED  BY <3>1, <3>2
  <2>4. n \in 0..MaxRequests /\ key \in 0..MaxRequests /\ n > 0
    BY <1>1, JudgeFields DEF UInv, UploadAssumption
  <2>5. Serves(offer, body, detailed)
    BY <1>3, <2>1 DEF Serves
  <2>6. body \in Bodies
    <3>1. \E s \in Submissions, p \in BOOLEAN, c \in Services, d \in Contracts :
            body = Body(s, p, c, d)
      BY <2>1, <2>2, JudgeFields DEF UInv
    <3> HIDE DEF body
    <3> QED  BY <3>1 DEF Bodies
  <2> HIDE DEF again, detailed, key, n, body, first
  <2>7. /\ request \in Request /\ request.number = n /\ request.body = body
        /\ request.assess = detailed /\ request.first = first /\ request.status = "prepared"
    BY <2>2, <2>3, <2>4, <2>6 DEF Request
  <2> HIDE DEF request
  <2>8. /\ judge' \in JudgeType /\ judge'.request = request /\ judge'.made = n
        /\ judge'.posting = TRUE /\ judge'.discovery = offer
    BY <1>3, <2>1, <2>4, <2>7, JudgeFields DEF UInv, JudgeType
  <2>9. UploadType'
    BY <1>3, <2>8 DEF UInv, UploadType, JudgeType
  <2>10. \A c, b, d : Serves(c, b, d)' <=> Serves(c, b, d)
    BY <1>3 DEF Serves
  <2>11. RequestOfRun'
    BY <1>1, <1>3, <2>3, <2>4, <2>5, <2>7, <2>8, <2>10 DEF RequestOfRun
  <2>12. PostsOfRun'
    <3>1. \A p \in posted : p.number \in 1..n /\ p.number # n
      BY JudgeFields DEF UInv, PostsOfRun, n
    <3> QED  BY <1>3, <2>7, <2>8, <2>10, <3>1 DEF UInv, PostsOfRun
  <2> QED  BY <2>9, <2>11, <2>12 DEF UInv
<1> QED  BY <1>2, <1>3 DEF JudgeFirst

\* A repeated call sends the bytes of the record or nothing.
LEMMA JudgeAgainKeeps ==
  ASSUME UploadAssumption, UInv, JudgeAgain
  PROVE  UInv'
<1> DEFINE detailed == judge.request.assess
           body == Body(run.steps, run.policy, offer, detailed)
           same == body = judge.request.body
<1>1. judge.request.status = "prepared" /\ ~judge.posting
  BY DEF JudgeAgain
<1>2. CASE JudgeRefused(detailed)
  BY <1>1, <1>2, RefusedKeeps
<1>3. ASSUME ~Refuses(run.steps, run.policy, offer, detailed),
             judge' = [judge EXCEPT !.discovery = offer, !.posting = same,
                         !.request.body = IF same THEN body ELSE judge.request.body],
             UNCHANGED <<offer, shifts, run, posted>>
      PROVE  UInv'
  <2>1. offer \in Services
    BY DEF UInv, UploadType
  <2>2. Serves(offer, body, detailed)
    BY <1>3, <2>1 DEF Serves
  <2>3. (IF same THEN body ELSE judge.request.body) = judge.request.body
    OBVIOUS
  <2>4. same \in BOOLEAN
    OBVIOUS
  <2> HIDE DEF body, same
  <2>5. judge' = [judge EXCEPT !.discovery = offer, !.posting = same,
                               !.request.body = judge.request.body]
    BY <1>3, <2>3
  <2>6. [judge.request EXCEPT !.body = judge.request.body] = judge.request
    BY JudgeFields DEF UInv, Request
  <2>7. judge' = [judge EXCEPT !.discovery = offer, !.posting = same]
    BY <2>5, <2>6, JudgeFields DEF UInv, JudgeType
  <2>8. /\ judge' \in JudgeType /\ judge'.request = judge.request /\ judge'.made = judge.made
        /\ judge'.posting = same /\ judge'.discovery = offer
    BY <2>1, <2>4, <2>7, JudgeFields DEF UInv, JudgeType
  <2>9. UploadType'
    BY <1>3, <2>8 DEF UInv, UploadType, JudgeType
  <2>10. \A c, b, d : Serves(c, b, d)' <=> Serves(c, b, d)
    BY <1>3 DEF Serves
  <2>11. same => body = judge.request.body
    BY DEF same
  <2>12. RequestOfRun'
    BY <1>1, <1>3, <2>2, <2>8, <2>10, <2>11 DEF UInv, RequestOfRun
  <2>13. PostsOfRun'
    BY <1>3, <2>8, <2>10 DEF UInv, PostsOfRun
  <2> QED  BY <2>9, <2>12, <2>13 DEF UInv
<1> QED  BY <1>2, <1>3 DEF JudgeAgain, SameBytes

\* The status of the request and the key of the next are all that changes.
LEMMA StatusKeeps ==
  ASSUME UInv, UNCHANGED <<offer, shifts, run>>, judge' \in JudgeType,
         judge'.made = judge.made, ~judge'.posting, judge.made > 0,
         judge'.request.number = judge.request.number, judge'.request.key = judge.request.key,
         judge'.request.body = judge.request.body, judge'.request.first = judge.request.first,
         judge'.request.assess = judge.request.assess
  PROVE  UploadType' /\ RequestOfRun'
<1>1. UploadType'
  BY DEF UInv, UploadType, JudgeType
<1>2. RequestOfRun'
  BY DEF UInv, RequestOfRun
<1> QED  BY <1>1, <1>2

LEMMA PostUploadKeeps ==
  ASSUME UploadAssumption, UInv, PostUpload
  PROVE  UInv'
<1> DEFINE p == [number |-> judge.request.number, key |-> judge.request.key,
                 assess |-> judge.request.assess, first |-> judge.request.first,
                 config |-> judge.discovery, body |-> judge.request.body]
<1>1. judge.posting /\ posted' = posted \cup {p} /\ UNCHANGED <<offer, shifts, run>>
  BY DEF PostUpload
<1>2. PICK status \in {"prepared", "bound"} :
        judge' = [judge EXCEPT !.posting = FALSE, !.request.status = status]
  BY DEF PostUpload
<1> DEFINE request == [judge.request EXCEPT !.status = status]
<1>3. /\ request \in Request /\ request.number = judge.request.number
      /\ request.key = judge.request.key /\ request.body = judge.request.body
      /\ request.first = judge.request.first /\ request.assess = judge.request.assess
  BY <1>2, JudgeFields DEF UInv, Request
<1>4. judge' = [judge EXCEPT !.posting = FALSE, !.request = request]
  BY <1>2
<1> HIDE DEF request
<1>5. /\ judge' \in JudgeType /\ judge'.made = judge.made /\ ~judge'.posting
      /\ judge'.request = request
  BY <1>3, <1>4, JudgeFields DEF UInv, JudgeType
<1>6. judge.made > 0 /\ judge.made \in Nat
  BY <1>1, JudgeFields DEF UInv, RequestOfRun
<1>7. UploadType' /\ RequestOfRun'
  BY <1>1, <1>3, <1>5, <1>6, StatusKeeps
<1>8. /\ p.number = judge.request.number /\ p.key = judge.request.key
      /\ p.assess = judge.request.assess /\ p.first = judge.request.first
      /\ p.config = judge.discovery /\ p.body = judge.request.body
  OBVIOUS
<1> HIDE DEF p
<1>9. /\ p.number \in 1..judge.made /\ p.assess = p.first.assess
      /\ Serves(p.config, p.body, p.assess)
  BY <1>1, <1>6, <1>8 DEF UInv, RequestOfRun
<1>10. \A c, b, d : Serves(c, b, d)' <=> Serves(c, b, d)
  BY <1>1 DEF Serves
<1>11. \A q \in posted : q.number = p.number => q.body = p.body /\ q.key = p.key
  BY <1>8 DEF UInv, PostsOfRun
<1>12. PostsOfRun'
  BY <1>1, <1>3, <1>5, <1>8, <1>9, <1>10, <1>11 DEF UInv, PostsOfRun
<1> QED  BY <1>7, <1>12 DEF UInv

LEMMA EndOperationKeeps ==
  ASSUME UploadAssumption, UInv, EndOperation
  PROVE  UInv'
<1>1. judge.request.status = "bound" /\ UNCHANGED <<offer, shifts, run, posted>>
  BY DEF EndOperation
<1>2. PICK status \in {"succeeded", "failed"}, key \in {0, judge.key} :
        judge' = [judge EXCEPT !.request.status = status, !.key = key]
  <2>1. CASE judge' = [judge EXCEPT !.request.status = "succeeded"]
    <3>1. judge' = [judge EXCEPT !.request.status = "succeeded", !.key = judge.key]
      BY <2>1, JudgeFields DEF UInv, JudgeType
    <3> QED  BY <3>1
  <2>2. ASSUME NEW retryable \in BOOLEAN,
               judge' = [judge EXCEPT !.request.status = "failed",
                                      !.key = IF retryable THEN 0 ELSE judge.key]
        PROVE  \E status \in {"succeeded", "failed"}, key \in {0, judge.key} :
                 judge' = [judge EXCEPT !.request.status = status, !.key = key]
    BY <2>2
  <2> QED  BY <2>1, <2>2 DEF EndOperation
<1> DEFINE request == [judge.request EXCEPT !.status = status]
<1>3. /\ request \in Request /\ request.number = judge.request.number
      /\ request.key = judge.request.key /\ request.body = judge.request.body
      /\ request.first = judge.request.first /\ request.assess = judge.request.assess
  BY <1>2, JudgeFields DEF UInv, Request
<1>4. judge' = [judge EXCEPT !.request = request, !.key = key]
  BY <1>2
<1> HIDE DEF request
<1>5. key \in 0..MaxRequests
  BY JudgeFields DEF UInv, UploadAssumption
<1>6. /\ judge' \in JudgeType /\ judge'.made = judge.made /\ judge'.posting = judge.posting
      /\ judge'.request = request
  BY <1>3, <1>4, <1>5, JudgeFields DEF UInv, JudgeType
<1>7. judge.made > 0 /\ ~judge.posting
  BY <1>1, JudgeFields DEF UInv, RequestOfRun
<1>8. UploadType' /\ RequestOfRun'
  BY <1>1, <1>3, <1>6, <1>7, StatusKeeps
<1>9. \A c, b, d : Serves(c, b, d)' <=> Serves(c, b, d)
  BY <1>1 DEF Serves
<1>10. PostsOfRun'
  BY <1>1, <1>3, <1>6, <1>9 DEF UInv, PostsOfRun
<1> QED  BY <1>8, <1>10 DEF UInv

LEMMA UploadStart == UploadAssumption /\ UploadInit => UInv
<1> SUFFICES ASSUME UploadAssumption, UploadInit PROVE UInv
  OBVIOUS
<1>1. <<>> \in Submissions
  <2>1. <<>> \in [1..0 -> StepKinds] /\ 0 \in 0..MaxOutputs
    BY DEF UploadAssumption
  <2> QED  BY <2>1 DEF Submissions
<1>2. NoRequest \in Request /\ NoRequest.number = 0 /\ NoRequest.status = "none"
  BY DEF NoRequest, Request, Bodies, Contracts, UploadAssumption
<1>3. judge \in JudgeType /\ judge.made = 0 /\ judge.request = NoRequest /\ ~judge.posting
  BY <1>2 DEF UploadInit, JudgeType, UploadAssumption
<1>4. UploadType
  <2>1. run \in [steps: Submissions, policy: BOOLEAN, complete: BOOLEAN]
    <3>1. run \in [steps: {<<>>}, policy: BOOLEAN, complete: {FALSE}]
      BY DEF UploadInit
    <3> QED  BY <1>1, <3>1
  <2>2. offer \in Services /\ shifts \in 0..MaxShifts
    BY DEF UploadInit, UploadAssumption
  <2> QED  BY <1>3, <2>1, <2>2 DEF UploadType, JudgeType
<1>5. RequestOfRun /\ PostsOfRun
  BY <1>2, <1>3 DEF UploadInit, RequestOfRun, PostsOfRun
<1> QED  BY <1>4, <1>5 DEF UInv

LEMMA UploadStep == UploadAssumption /\ UInv /\ [UploadNext]_uploadVars => UInv'
<1> SUFFICES ASSUME UploadAssumption, UInv, [UploadNext]_uploadVars PROVE UInv'
  OBVIOUS
<1>1. CASE UNCHANGED uploadVars
  BY <1>1 DEF uploadVars, UInv, UploadType, RequestOfRun, PostsOfRun, Serves
<1>2. CASE UploadNext
  BY <1>2, ShiftKeeps, SubmitKeeps, CompleteRunKeeps, JudgeFirstKeeps, JudgeAgainKeeps,
     PostUploadKeeps, EndOperationKeeps DEF UploadNext
<1> QED  BY <1>1, <1>2

\* The inductive invariant of uploads: a request is of a complete Run, whose
\* steps do not change any more; its body is what is to be said to the
\* configuration its Judge call has read, and every POST was of such a body.
THEOREM UploadInvariance == UploadSpec => []UInv
BY UploadAssumption, UploadStart, UploadStep, PTL DEF UploadSpec

----------------------------------------------------------------------------
(* What it is for.                                                         *)

\* Every field keeps its type, for any services, submissions and bounds.
THEOREM UploadTypeCorrect == UploadSpec => []UploadTypeOK
<1>1. UInv => UploadTypeOK
  BY JudgeFields DEF UInv, UploadTypeOK, UploadType, Submissions
<1> QED  BY <1>1, UploadInvariance, PTL

\* However the service is upgraded or rolled back meanwhile: an upload says
\* nothing that the configuration its Judge call has read does not take, and is
\* no larger than that allows.
THEOREM UploadsAreNegotiated == UploadSpec => []OnlyNegotiated
<1>1. UploadAssumption /\ UInv => OnlyNegotiated
  <2> SUFFICES ASSUME UploadAssumption, UInv PROVE OnlyNegotiated
    OBVIOUS
  <2>1. ASSUME NEW p \in posted
        PROVE  /\ Serves(p.config, p.body, p.assess) /\ p.assess = p.first.assess
               /\ run.steps \in Submissions
    BY JudgeFields DEF UInv, PostsOfRun
  <2> QED  BY <2>1, ServedIsNegotiated DEF OnlyNegotiated
<1> QED  BY <1>1, UploadAssumption, UploadInvariance, PTL

\* Every POST of a request, after lost answers and changed services too, has the
\* same key and the same bytes.
THEOREM RequestsBindBytes == UploadSpec => []RequestBindsBytes
<1>1. UInv => RequestBindsBytes
  BY DEF UInv, PostsOfRun, RequestBindsBytes
<1> QED  BY <1>1, UploadInvariance, PTL

\* Whatever an upload leaves out of what the Run captured it admits: bodies and
\* placeholders are counted, diffs have reasons, outputs markers, lossy
\* summaries are never dropped, and the bytes cut from logs are the missing ones.
THEOREM LossesAreAdmitted == UploadSpec => []LossIsAdmitted
<1>1. UploadAssumption /\ UInv => LossIsAdmitted
  <2> SUFFICES ASSUME UploadAssumption, UInv PROVE LossIsAdmitted
    OBVIOUS
  <2>1. ASSUME NEW p \in posted
        PROVE  Serves(p.config, p.body, p.assess) /\ run.steps \in Submissions
    BY JudgeFields DEF UInv, PostsOfRun
  <2> QED  BY <2>1, ServedAdmitsLoss DEF LossIsAdmitted
<1> QED  BY <1>1, UploadAssumption, UploadInvariance, PTL

=============================================================================
