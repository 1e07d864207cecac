------------------------------ MODULE FileManager ------------------------------
(***************************************************************************)
(* The files of one install directory (torchgen/utils.py FileManager, and  *)
(* the end of torchgen/gen.py main): runs of the generator, real and dry,  *)
(* on one input after another, that may fail or be killed.                 *)
(*                                                                         *)
(* A plan is what a run on an input is going to write, file by file.  A    *)
(* file on the disk is the number of the input it was generated from, so   *)
(* that its text is known; a file a run was killed over is torn.  A step   *)
(* writes one file.  A dry run computes the names of the files and hardly  *)
(* any text, so it passes assertions a real run on the same input stops    *)
(* at: a plan names the files each of them stops at.                       *)
(***************************************************************************)
EXTENDS Naturals, Sequences

CONSTANTS Plans,        \* a sequence: what a run on each input does
          Repeated,     \* the inputs runs of which may follow one another
          MaxRuns       \* bound on the runs

\* What a run lists, of an input that is not refused, is the files of its listed writes.
ASSUME PlansAssumption ==
    /\ Len(Plans) \in Nat /\ DOMAIN Plans = 1..Len(Plans)
    /\ \A i \in DOMAIN Plans : Plans[i].accepted =>
         LET writes == Plans[i].writes
         IN  /\ Len(writes) \in Nat
             /\ Plans[i].listed = {writes[n].file : n \in {n \in 1..Len(writes) : writes[n].listed}}

VARIABLES run,          \* the run: its input, whether it is dry, how far it is
          disk,         \* the files there are
          listed,       \* FileManager.files of the run
          outputs       \* what the last list of outputs says

vars == <<run, disk, listed, outputs>>

Torn == 0

Init ==
    /\ run = [input |-> 0, dry |-> FALSE, at |-> 0, outcome |-> "none", runs |-> 0]
    /\ disk = [f \in {} |-> Torn]
    /\ listed = {}
    /\ outputs = {}

\* main: a new process, so new file managers.
Start(i, dry, plans) ==
    /\ run.outcome # "running"
    /\ run.runs < MaxRuns
    /\ run.runs > 0 => {run.input, i} \subseteq Repeated
    /\ dry => i \in Repeated
    /\ run' = [input |-> i, dry |-> dry, at |-> 0, runs |-> run.runs + 1,
               outcome |-> IF plans[i].accepted THEN "running" ELSE "failed"]
    /\ listed' = {}
    /\ UNCHANGED <<disk, outputs>>

\* Mutant.  A file that is there counts as written.
FileExists(d, file, i, plans) == file \in DOMAIN d

\* _write_if_changed: a file whose text is already there is left alone.
Holds(d, file, i, plans) ==
    /\ file \in DOMAIN d /\ d[file] # Torn
    /\ plans[d[file]].texts[file] = plans[i].texts[file]
OnDisk(d, file, i) == [f \in DOMAIN d \cup {file} |-> IF f = file THEN i ELSE d[f]]

NextWrite(plans) == plans[run.input].writes[run.at + 1]
Writing(plans) == run.outcome = "running" /\ run.at < Len(plans[run.input].writes)

\* Whether what has to be computed for this file, in this kind of run, fails.
Stops(plans) == NextWrite(plans).file \in plans[run.input].stops[run.dry]

\* write_with_template: the name is added to the outputs, of a dry run as well, and may
\* not be there before.
WriteFile(plans) ==
    /\ Writing(plans) /\ ~Stops(plans)
    /\ NextWrite(plans).file \notin listed
    /\ listed' = IF NextWrite(plans).listed THEN listed \cup {NextWrite(plans).file} ELSE listed
    /\ disk' = IF run.dry \/ Holds(disk, NextWrite(plans).file, run.input, plans) THEN disk
               ELSE OnDisk(disk, NextWrite(plans).file, run.input)
    /\ run' = [run EXCEPT !.at = @ + 1]
    /\ UNCHANGED outputs

DuplicateFile(plans) ==
    /\ Writing(plans) /\ NextWrite(plans).file \in listed
    /\ run' = [run EXCEPT !.outcome = "failed"]
    /\ UNCHANGED <<disk, listed, outputs>>

\* An assertion fails while the text is computed: what was written before stays.
TextFails(plans) ==
    /\ Writing(plans) /\ Stops(plans)
    /\ run' = [run EXCEPT !.outcome = "failed"]
    /\ UNCHANGED <<disk, listed, outputs>>

\* The process is killed, between two files or while it writes one.
Kill ==
    /\ run.outcome = "running" /\ run.input \in Repeated
    /\ run' = [run EXCEPT !.outcome = "killed"]
    /\ UNCHANGED <<disk, listed, outputs>>
KillTearing(plans) ==
    /\ Writing(plans) /\ ~Stops(plans) /\ run.input \in Repeated /\ ~run.dry
    /\ ~Holds(disk, NextWrite(plans).file, run.input, plans)
    /\ disk' = OnDisk(disk, NextWrite(plans).file, Torn)
    /\ run' = [run EXCEPT !.outcome = "killed"]
    /\ UNCHANGED <<listed, outputs>>

\* write_outputs, of every file manager.
Finish(plans) ==
    /\ run.outcome = "running" /\ ~Writing(plans)
    /\ outputs' = listed
    /\ run' = [run EXCEPT !.outcome = "done"]
    /\ UNCHANGED <<disk, listed>>

RunStep(plans) ==
    \/ \E i \in DOMAIN plans, dry \in BOOLEAN : Start(i, dry, plans)
    \/ WriteFile(plans)
    \/ DuplicateFile(plans)
    \/ TextFails(plans)
    \/ KillTearing(plans)
    \/ Finish(plans)
    \/ Kill

Next == RunStep(Plans)

Spec == Init /\ [][Next]_vars

-----------------------------------------------------------------------------
Current(plans) ==
    /\ outputs = plans[run.input].listed
    /\ ~run.dry => \A f \in outputs :
         /\ f \in DOMAIN disk /\ disk[f] # Torn
         /\ plans[disk[f]].texts[f] = plans[run.input].texts[f]

\* PROPERTY.  When a run comes to its end, whatever was there before, an earlier run, one an
\* assertion stopped half-way or one that was killed over a file: it lists what its yaml
\* file and options say, a dry run the files a real run would have to write, though on the
\* same input the real run may be stopped by a text; and every file a real run lists is on
\* the disk and holds what they give.
\* (FileManager.write_with_template, _write_if_changed, write_outputs)
CompleteRunIsCurrent == run.outcome = "done" => Current(Plans)
===============================================================================
