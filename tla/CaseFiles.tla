------------------------------ MODULE CaseFiles ------------------------------
(***************************************************************************)
(* Run.save_case and LocalObservation.save: one validated document becomes *)
(* one new file (repository/case_artifact_io.py, observation_io.py) under  *)
(* a directory that is pinned by its descriptor                            *)
(* (_case_file_directory.py).  The bytes go to a temporary sibling, which  *)
(* is linked to the destination once it is whole and removed at the end.   *)
(*                                                                         *)
(* Several processes save at the same time, perhaps to one destination.    *)
(* Foreign programs place, replace and remove files under any name and     *)
(* move another directory to the path, between any two system calls; a     *)
(* call may fail at any system call and a process may die at any point.    *)
(*                                                                         *)
(* Modelled on POSIX: on Windows the pin keeps the directory in its place. *)
(* A call that removes a name fails only when the name is gone.  Crashes   *)
(* are of processes: the directory is not synced, so a power loss may take *)
(* a published name away.                                                  *)
(***************************************************************************)
EXTENDS Naturals

CONSTANTS
  Saver,        \* calls of save, each in a process of its own
  FileName,     \* destinations
  MaxForeign    \* bound on what foreign programs do

\* Names and calls are told apart, and from what stands for no call.
ASSUME CaseAssumption ==
  /\ FileName \cap Saver = {} /\ {"nobody", "foreign"} \cap Saver = {}
  /\ MaxForeign \in Nat

Directory == {"kept", "other"}

VARIABLES
  placed,  \* the directory at the path that the destinations are under
  names,   \* in each directory: whose file each name denotes
  written, \* the content of each saver's file
  saves,   \* the calls
  foreign  \* foreign steps so far

caseVars == <<placed, names, written, saves, foreign>>

----------------------------------------------------------------------------

\* A saver also stands for its temporary name (128 random bits) and its file.
Entry == FileName \cup Saver
Holder == Saver \cup {"nobody", "foreign"}

Steps ==
  {"idle", "resolved", "pinned", "open", "created", "verified", "full", "ready",
   "linked", "identified", "complete", "saved", "refused", "failed", "dead"}

\* replaced: a foreign program took a name between its check and the next.
NoSave(n) ==
  [pc |-> "idle", target |-> n, dir |-> "kept", created |-> FALSE,
   published |-> FALSE, replaced |-> FALSE]

CaseInit ==
  /\ placed = "kept" /\ foreign = 0
  /\ names = [d \in Directory |-> [e \in Entry |-> "nobody"]]
  /\ written = [s \in Saver |-> "empty"]
  /\ \E target \in [Saver -> FileName] : saves = [s \in Saver |-> NoSave(target[s])]

Denotes(s, e) == names[saves[s].dir][e]
Alive(s) == saves[s].pc \notin {"idle", "saved", "refused", "failed", "dead"}
Proceed(s, from, to) == saves[s].pc = from /\ saves' = [saves EXCEPT ![s].pc = to]

----------------------------------------------------------------------------
(* save_case_artifact, save_observation and _publish.                      *)

\* The document is validated and the path is resolved without links.
Resolve(s) ==
  /\ \/ Proceed(s, "idle", "resolved")
     \/ Proceed(s, "idle", "refused")
  /\ UNCHANGED <<placed, names, written, foreign>>

\* pinned_case_directory: every component is opened, then the path is compared.
Pin(s) ==
  /\ saves[s].pc = "resolved"
  /\ saves' = [saves EXCEPT ![s].pc = "pinned", ![s].dir = placed]
  /\ UNCHANGED <<placed, names, written, foreign>>

Compare(s) ==
  /\ Proceed(s, "pinned", IF placed = saves[s].dir THEN "open" ELSE "refused")
  /\ UNCHANGED <<placed, names, written, foreign>>

\* O_CREAT | O_EXCL in the pinned directory.
CreateTemporary(s) ==
  /\ saves[s].pc = "open" /\ Denotes(s, s) = "nobody"
  /\ saves' = [saves EXCEPT ![s].pc = "created", ![s].created = TRUE]
  /\ names' = [names EXCEPT ![saves[s].dir][s] = s]
  /\ UNCHANGED <<placed, written, foreign>>

\* _verify_open_descriptor: the path still leads to the open file.
Leads(s, e) == names[placed][e] = s

Verify(s, e, from, to) ==
  /\ Leads(s, e) /\ Proceed(s, from, to)
  /\ UNCHANGED <<placed, names, written, foreign>>

\* write, flush and fsync, in parts.
WriteParts(s) ==
  /\ \/ written[s] = "empty" /\ Proceed(s, "verified", "verified")
     \/ written[s] = "part" /\ Proceed(s, "verified", "full")
  /\ written' = [written EXCEPT ![s] = IF @ = "empty" THEN "part" ELSE "whole"]
  /\ UNCHANGED <<placed, names, foreign>>

\* Mutant: os.replace, which takes the name from whoever has it.
MutVacant(s) == TRUE

\* os.link makes a new name and never replaces one.
Vacant(s) == Denotes(s, saves[s].target) = "nobody"

\* What the temporary name denotes now gets the destination's name.
PublishName(s) ==
  /\ saves[s].pc = "ready" /\ Denotes(s, s) # "nobody" /\ Vacant(s)
  /\ saves' = [saves EXCEPT ![s].pc = "linked", ![s].published = TRUE]
  /\ names' = [names EXCEPT ![saves[s].dir][saves[s].target] = Denotes(s, s)]
  /\ UNCHANGED <<placed, written, foreign>>

Identify(s) ==
  /\ Denotes(s, saves[s].target) = s /\ Proceed(s, "linked", "identified")
  /\ UNCHANGED <<placed, names, written, foreign>>

\* Mutant: the name that was published stays when its verification fails.
MutWithdraws(s) == FALSE

\* A name that was published and not verified is taken back.
Withdraws(s) == saves[s].published /\ saves[s].pc # "complete"

Removed(s) ==
  (IF Withdraws(s) THEN {saves[s].target} ELSE {})
  \cup (IF saves[s].created THEN {s} ELSE {})

\* The end of the try block, after its last step or at any other.
CleanUp(s) ==
  /\ Alive(s)
  /\ saves' = [saves EXCEPT ![s].pc =
       CASE saves[s].pc = "complete" -> "saved"
         [] saves[s].pc # "complete" /\ saves[s].created -> "failed"
         [] OTHER -> "refused"]
  /\ names' = [names EXCEPT ![saves[s].dir] =
       [e \in Entry |-> IF e \in Removed(s) THEN "nobody" ELSE @[e]]]
  /\ UNCHANGED <<placed, written, foreign>>

Die(s) ==
  /\ Alive(s) /\ saves' = [saves EXCEPT ![s].pc = "dead"]
  /\ UNCHANGED <<placed, names, written, foreign>>

----------------------------------------------------------------------------
(* Foreign programs.                                                       *)

\* What a call is about to publish, or has published and not checked yet.
Unchecked(s, d, e) ==
  /\ saves[s].dir = d
  /\ \/ saves[s].pc = "ready" /\ e = s
     \/ saves[s].pc \in {"linked", "identified"} /\ e = saves[s].target

Touch(d, e, owner) ==
  /\ foreign < MaxForeign /\ names[d][e] # owner
  /\ foreign' = foreign + 1
  /\ names' = [names EXCEPT ![d][e] = owner]
  /\ saves' = [s \in Saver |-> [saves[s] EXCEPT !.replaced = @ \/ Unchecked(s, d, e)]]
  /\ UNCHANGED <<placed, written>>

Swap ==
  /\ foreign < MaxForeign /\ foreign' = foreign + 1
  /\ placed' \in Directory \ {placed}
  /\ UNCHANGED <<names, written, saves>>

CaseNext ==
  \/ \E s \in Saver :
       \/ Resolve(s) \/ Pin(s) \/ Compare(s) \/ CreateTemporary(s) \/ WriteParts(s)
       \/ PublishName(s) \/ Identify(s) \/ CleanUp(s) \/ Die(s)
       \/ Verify(s, s, "created", "verified") \/ Verify(s, s, "full", "ready")
       \/ Verify(s, saves[s].target, "identified", "complete")
  \/ \E d \in Directory, e \in Entry, owner \in {"nobody", "foreign"} : Touch(d, e, owner)
  \/ Swap

CaseSpec == CaseInit /\ [][CaseNext]_caseVars

----------------------------------------------------------------------------
(* Properties.                                                             *)

\* Every field has its type.
CaseTypeOK ==
  /\ placed \in Directory /\ foreign \in 0..MaxForeign
  /\ names \in [Directory -> [Entry -> Holder]]
  /\ written \in [Saver -> {"empty", "part", "whole"}]
  /\ saves \in [Saver -> [pc: Steps, target: FileName, dir: Directory,
                          created: BOOLEAN, published: BOOLEAN, replaced: BOOLEAN]]

\* Wherever the directory was moved, whoever died and whatever failed: a
\* destination never denotes a part of a document, a call that failed leaves no
\* file behind, and one that succeeded leaves no temporary name.
FilesAreWhole ==
  \A d \in Directory :
    /\ \A n \in FileName : names[d][n] \in Saver => written[names[d][n]] = "whole"
    /\ \A s \in Saver :
         /\ saves[s].pc \in {"refused", "failed"} => \A e \in Entry : names[d][e] # s
         /\ saves[s].pc = "saved" => names[d][s] # s

\* A call never takes a destination from a file that is not its own ("Concurrent
\* writers cannot overwrite a winner") - unless a foreign program took a name
\* around the link of a call to this destination, before it was checked again:
\* the clean-up then removes whatever is there, be it the file of a call that
\* has succeeded, and so may the clean-up of the next.
OthersAreKept ==
  [][\A s \in Saver, d \in Directory, n \in FileName :
       saves'[s].pc # saves[s].pc /\ names'[d][n] # names[d][n] =>
         \/ names[d][n] = "nobody"
         \/ names[d][n] = s /\ saves[s].target = n
         \/ \E t \in Saver : saves[t].target = n /\ saves[t].replaced]_caseVars

=============================================================================
