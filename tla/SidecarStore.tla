---------------------------- MODULE SidecarStore ----------------------------
(***************************************************************************)
(* The two files of one compiled model, <out>.pte and <out>.pte.json, and  *)
(* the processes that write and read them: `helia-torch compile' (and      *)
(* ExportResult.write_pte called from Python), `inspect' and `report'      *)
(* (src/aot/nsx_cortex_m/export.py, manifest.py and cli.py).               *)
(*                                                                         *)
(* The two files are written one after the other and not atomically: each  *)
(* is truncated when it is opened and filled afterwards, and a process may *)
(* die in between (an interrupt, a full disk).  The sidecar's SHA-256 is   *)
(* computed from the .pte as it is then found on disk.  The hash is taken  *)
(* to be injective: a manifest carries the bytes it was computed from.     *)
(***************************************************************************)
EXTENDS Integers, Sequences, FiniteSetsExt

CONSTANTS
  Procs,      \* the processes
  Models,     \* the models one may compile to this output path
  Blocks,     \* Blocks[m]: how many write calls m's .pte takes
  Serialized  \* is one compile to this path ended before the next is started

ASSUME StoreAssumption == /\ Blocks \in [Models -> Nat \ {0}]
                          /\ Serialized \in BOOLEAN
                          /\ "none" \notin Models /\ "absent" \notin Models

Absent == <<"absent">>     \* no such file
Hole == "hole"             \* bytes of a file nobody wrote
Garbled == [sha |-> <<>>, facts |-> "garbled"]      \* not a JSON document
Empty == [sha |-> <<>>, facts |-> "empty"]          \* truncated, not yet written

VARIABLES
  pte,    \* the bytes of the .pte: block i of model m at position i is m
  json,   \* the manifest in the sidecar: the bytes hashed, the model described
  proc,   \* the processes
  last    \* history: how the last compile to end ended, and what it compiled

vars == <<pte, json, proc, last>>

Idle == [pc |-> "idle", model |-> "none", sidecar |-> FALSE, at |-> 0,
         seen |-> <<>>, verify |-> FALSE, manifest |-> Empty, outcome |-> "none"]

Writing(p) == proc[p].pc \in {"open", "write", "hash", "truncate", "describe"}
Loading(p) == proc[p].pc \in {"load", "check"}
\* A compile ends with a load of its own.
Compiling(p) == Writing(p) \/ (Loading(p) /\ proc[p].model # "none")

Image(m) == [i \in 1..Blocks[m] |-> m]

Init == /\ pte = Absent
        /\ json = Absent
        /\ proc = [p \in Procs |-> Idle]
        /\ last = [how |-> "never", model |-> "none"]

Goto(p, l) == proc' = [proc EXCEPT ![p].pc = l]
----------------------------------------------------------------------------
(* Writing: ExportResult.write_pte and write_sidecar. *)

StartCompile(p, m, sidecar) ==
  /\ proc[p].pc = "idle"
  /\ Serialized => \A q \in Procs : ~Compiling(q)
  /\ proc' = [proc EXCEPT ![p] = [Idle EXCEPT !.pc = "open", !.model = m,
                                              !.sidecar = sidecar]]
  /\ UNCHANGED <<pte, json, last>>

\* open(path, "wb")
OpenPte(p) ==
  /\ proc[p].pc = "open"
  /\ pte' = <<>>
  /\ Goto(p, "write")
  /\ UNCHANGED <<json, last>>

BlocksLeft(p) == proc[p].at < Blocks[proc[p].model]

\* One block at the process's own offset, whatever the file now holds.
WriteBlock(p) ==
  /\ proc[p].pc = "write" /\ BlocksLeft(p)
  /\ LET n == proc[p].at + 1
     IN  pte' = [i \in 1..Max({n, Len(pte)}) |->
                   IF i = n THEN proc[p].model
                   ELSE IF i <= Len(pte) THEN pte[i] ELSE Hole]
  /\ proc' = [proc EXCEPT ![p].at = @ + 1]
  /\ UNCHANGED <<json, last>>

ClosePte(p) ==
  /\ proc[p].pc = "write" /\ ~BlocksLeft(p)
  /\ IF proc[p].sidecar
     THEN Goto(p, "hash") /\ UNCHANGED last
     ELSE /\ proc' = [proc EXCEPT ![p] = Idle]
          /\ last' = [how |-> "bare", model |-> proc[p].model]
  /\ UNCHANGED <<pte, json>>

\* pte_path.read_bytes(), then build_manifest.
HashBeforeWrite(p) ==                                            \* mutant
  /\ proc[p].pc = "hash"
  /\ proc' = [proc EXCEPT ![p].pc = "truncate", ![p].seen = <<>>]
  /\ UNCHANGED <<pte, json, last>>
HashPte(p) ==
  /\ proc[p].pc = "hash"
  /\ proc' = [proc EXCEPT ![p].pc = "truncate", ![p].seen = pte]
  /\ UNCHANGED <<pte, json, last>>

\* path.write_text(): the open truncates, the close writes the document.
TruncateSidecar(p) ==
  /\ proc[p].pc = "truncate"
  /\ json' = Empty
  /\ Goto(p, "describe")
  /\ UNCHANGED <<pte, last>>

\* A document written over another's, that got there after this process
\* truncated the file, may leave the tail of a longer one behind.
WriteSidecar(p) ==
  /\ proc[p].pc = "describe"
  /\ LET doc == [sha |-> proc[p].seen, facts |-> proc[p].model]
     IN  json' \in IF json = Empty THEN {doc} ELSE {doc, Garbled}
  /\ proc' = [proc EXCEPT ![p].pc = "load", ![p].verify = TRUE]
  /\ last' = [how |-> "done", model |-> proc[p].model]
  /\ UNCHANGED pte

\* The process dies: what it had written stays.
Crash(p) ==
  /\ Writing(p) \/ Loading(p)
  /\ proc' = [proc EXCEPT ![p] = [Idle EXCEPT !.outcome = "crashed"]]
  /\ last' = IF Writing(p) THEN [how |-> "crashed", model |-> proc[p].model] ELSE last
  /\ UNCHANGED <<pte, json>>
----------------------------------------------------------------------------
(* Reading: load_sidecar, by inspect and report, and by compile itself. *)

StartLoad(p, verify) ==
  /\ proc[p].pc = "idle"
  /\ proc' = [proc EXCEPT ![p] = [Idle EXCEPT !.pc = "load", !.verify = verify]]
  /\ UNCHANGED <<pte, json, last>>

End(p, outcome) ==
  proc' = [proc EXCEPT ![p].pc = "idle", ![p].outcome = outcome]

\* json.loads(path.read_text()) and the schema test.
ReadSidecar(p) ==
  /\ proc[p].pc = "load"
  /\ IF json \in {Absent, Empty, Garbled} THEN End(p, "error")
     ELSE IF proc[p].verify
     THEN proc' = [proc EXCEPT ![p].pc = "check", ![p].manifest = json]
     ELSE proc' = [proc EXCEPT ![p].pc = "idle", ![p].manifest = json,
                               ![p].outcome = "loaded"]
  /\ UNCHANGED <<pte, json, last>>

\* The SHA-256 of the .pte as it is now against the one in the manifest.
AnyNonEmpty(p) == pte # Absent /\ pte # <<>>                     \* mutant
ShaMatches(p) == pte # Absent /\ pte = proc[p].manifest.sha

CheckPte(p) ==
  /\ proc[p].pc = "check"
  /\ End(p, IF ShaMatches(p) THEN "loaded" ELSE "error")
  /\ UNCHANGED <<pte, json, last>>
----------------------------------------------------------------------------
Next == \E p \in Procs :
          \/ \E m \in Models, s \in BOOLEAN : StartCompile(p, m, s)
          \/ OpenPte(p) \/ WriteBlock(p) \/ ClosePte(p) \/ HashPte(p)
          \/ TruncateSidecar(p) \/ WriteSidecar(p) \/ Crash(p)
          \/ \E v \in BOOLEAN : StartLoad(p, v)
          \/ ReadSidecar(p) \/ CheckPte(p)

Spec == Init /\ [][Next]_vars
----------------------------------------------------------------------------
\* A verified load that succeeds describes the program the .pte really holds at
\* that moment, complete: whatever was interrupted, re-exported without a
\* sidecar or being written meanwhile, a stale or torn pair is refused
\* (load_sidecar's comparison; README: the sidecar is bound to that exact PTE).
VerifiedLoadIsTrue ==
  [][\A p \in Procs :
       proc[p].pc = "check" /\ proc'[p].outcome = "loaded" =>
         /\ proc[p].manifest.facts \in Models
         /\ pte = Image(proc[p].manifest.facts)]_vars

\* Once a compile has written its sidecar, and until the next one starts, the
\* pair on disk is that compile's and is one every verified load accepts, also
\* when earlier compiles died half-way: exporting again repairs everything.
CompletedPairIsBound ==
  (\A p \in Procs : ~Writing(p)) /\ last.how = "done" =>
    /\ pte = Image(last.model)
    /\ json = [sha |-> pte, facts |-> last.model]

\* The load with which a compile ends accepts what it has just written, when
\* compiles to one path do not overlap (_cmd_compile reports "wrote" after it).
CompileAcceptsItsOwn ==
  [][\A p \in Procs : Compiling(p) => proc'[p].outcome # "error"]_vars
=============================================================================
