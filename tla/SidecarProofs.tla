--------------------------- MODULE SidecarProofs ---------------------------
(***************************************************************************)
(* The promises of the two files, proved for every set of processes, every *)
(* set of models and every number of blocks, when compiles to one path do  *)
(* not overlap (Serialized).  With overlapping compiles they are false     *)
(* (MCSidecarStore_concurrent.cfg).                                        *)
(***************************************************************************)
EXTENDS SidecarStore, TLAPS

\* What a .pte that is being written holds after n blocks of m.
Prefix(m, n) == [i \in 1..n |-> m]
Files == {Absent} \cup UNION {{Prefix(m, n) : n \in Nat} : m \in Models}
Doc(m) == [sha |-> Image(m), facts |-> m]

Stages == {"idle", "open", "write", "hash", "truncate", "describe", "load", "check"}
Outcomes == {"none", "crashed", "error", "loaded"}
Manifests == [sha : Files \cup {<<>>}, facts : Models \cup {"garbled", "empty"}]
Process == [pc : Stages, model : Models \cup {"none"}, sidecar : BOOLEAN, at : Nat,
            seen : Files \cup {<<>>}, verify : BOOLEAN, manifest : Manifests,
            outcome : Outcomes]
Ending == [how : {"never", "bare", "done", "crashed"}, model : Models \cup {"none"}]

Typed == /\ pte \in Files \cup {<<>>}
         /\ json \in Manifests \cup {Absent}
         /\ proc \in [Procs -> Process]
         /\ last \in Ending

\* Nobody else compiles while a process does.
Alone == \A p, q \in Procs : Compiling(p) /\ Compiling(q) => p = q

\* What is on disk and in hand at each stage of a compile.
OpenOK(p) == proc[p].pc = "open" => proc[p].at = 0
WriteOK(p) == proc[p].pc = "write" =>
                /\ proc[p].at <= Blocks[proc[p].model]
                /\ pte = Prefix(proc[p].model, proc[p].at)
PteOK(p) == proc[p].pc \in {"hash", "truncate", "describe"} =>
              pte = Image(proc[p].model)
SeenOK(p) == proc[p].pc \in {"truncate", "describe"} =>
               proc[p].seen = Image(proc[p].model)
EmptyOK(p) == proc[p].pc = "describe" => json = Empty
OwnOK(p) == Loading(p) /\ proc[p].model # "none" =>
              /\ pte = Image(proc[p].model)
              /\ json = Doc(proc[p].model)
              /\ proc[p].pc = "check" => proc[p].manifest = json
ModelOK(p) == Writing(p) => proc[p].model \in Models
CheckOK(p) == proc[p].pc = "check" => \E m \in Models : proc[p].manifest = Doc(m)
EndOK(p) == proc[p].pc # "idle" => proc[p].outcome = "none"

StageOK(p) == /\ OpenOK(p) /\ WriteOK(p) /\ PteOK(p) /\ SeenOK(p) /\ EmptyOK(p)
              /\ OwnOK(p) /\ ModelOK(p) /\ CheckOK(p) /\ EndOK(p)
Staged == \A p \in Procs : StageOK(p)

\* Whatever document is on disk describes the program it was computed from.
Bound == json \in {Absent, Empty} \/ \E m \in Models : json = Doc(m)

IInv == Typed /\ Alone /\ Staged /\ Bound /\ CompletedPairIsBound
----------------------------------------------------------------------------
LEMMA Nonempty == ASSUME NEW m \in Models
                  PROVE  /\ Image(m) = Prefix(m, Blocks[m])
                         /\ Image(m) \in Files
                         /\ Image(m) # <<>> /\ Image(m) # Absent
<1>1. Blocks[m] \in Nat /\ Blocks[m] >= 1
  BY StoreAssumption
<1>2. Image(m) = Prefix(m, Blocks[m])
  BY DEF Image, Prefix
<1>3. Image(m) \in Files
  BY <1>1, <1>2 DEF Files
<1>4. 1 \in DOMAIN Image(m) /\ Image(m)[1] = m
  BY <1>1 DEF Image
<1>5. Image(m) # <<>>
  BY <1>4
<1>6. Image(m) # Absent
  <2>1. Absent[1] = "absent"
    BY DEF Absent
  <2> QED
    BY <1>4, <2>1, StoreAssumption
<1> QED
  BY <1>2, <1>3, <1>5, <1>6

\* A document is not one of the files that load_sidecar refuses.
LEMMA DocReadable == ASSUME NEW m \in Models
                     PROVE  /\ Doc(m) \in Manifests
                            /\ Doc(m) \notin {Absent, Empty, Garbled}
<1>1. Doc(m).sha = Image(m) /\ Doc(m).facts = m
  BY DEF Doc
<1>2. Doc(m) \in Manifests
  BY Nonempty DEF Doc, Manifests
<1>3. Doc(m) # Empty /\ Doc(m) # Garbled
  BY <1>1, Nonempty DEF Empty, Garbled
<1>4. Doc(m) # Absent
  <2>1. "sha" \in DOMAIN Doc(m) /\ "facts" \in DOMAIN Doc(m)
    BY DEF Doc
  <2>2. DOMAIN Absent = {1}
    BY DEF Absent
  <2> QED
    BY <2>1, <2>2
<1> QED
  BY <1>2, <1>3, <1>4
----------------------------------------------------------------------------
(* A step of p that does not touch the files, or that p takes compiling,   *)
(* leaves the other processes where they were.                             *)
StepOf(p) == /\ proc' = [proc EXCEPT ![p] = proc'[p]]
             /\ Compiling(p) \/ (pte' = pte /\ json' = json)

LEMMA OthersKept ==
  ASSUME IInv, NEW p \in Procs, StepOf(p), NEW q \in Procs, q # p
  PROVE  StageOK(q)'
<1>1. proc'[q] = proc[q]
  BY DEF StepOf, IInv, Typed
<1>2. StageOK(q)
  BY DEF IInv, Staged
<1>3. CASE pte' = pte /\ json' = json
  BY <1>1, <1>2, <1>3
  DEF StageOK, OpenOK, WriteOK, PteOK, SeenOK, EmptyOK, OwnOK, ModelOK, CheckOK,
      EndOK, Loading, Writing
<1>4. CASE Compiling(p)
  <2>1. ~Compiling(q)
    BY <1>4 DEF IInv, Alone
  <2> QED
    BY <1>1, <1>2, <2>1
    DEF StageOK, OpenOK, WriteOK, PteOK, SeenOK, EmptyOK, OwnOK, ModelOK, CheckOK,
        EndOK, Compiling, Loading, Writing
<1> QED
  BY <1>3, <1>4 DEF StepOf

LEMMA StagedKept ==
  ASSUME IInv, NEW p \in Procs, StepOf(p), StageOK(p)'
  PROVE  Staged'
BY OthersKept DEF Staged

\* A process that was compiling, or that does not start to, disturbs nobody.
LEMMA AloneKept ==
  ASSUME IInv, NEW p \in Procs, StepOf(p), Compiling(p)' => Compiling(p)
  PROVE  Alone'
<1>1. ASSUME NEW q \in Procs, Compiling(q)'
      PROVE  Compiling(q)
  <2>1. CASE q = p
    BY <1>1, <2>1
  <2>2. CASE q # p
    <3>1. proc'[q] = proc[q]
      BY <2>2 DEF StepOf, IInv, Typed
    <3> QED
      BY <1>1, <3>1 DEF Compiling, Writing, Loading
  <2> QED
    BY <2>1, <2>2
<1> QED
  BY <1>1 DEF Alone, IInv

\* While p writes, no compile is complete.
LEMMA PairOpen ==
  ASSUME NEW p \in Procs, Writing(p)'
  PROVE  CompletedPairIsBound'
BY DEF CompletedPairIsBound
----------------------------------------------------------------------------
LEMMA StartCompileStep ==
  ASSUME IInv, Serialized, NEW p \in Procs, NEW m \in Models, NEW s \in BOOLEAN,
         StartCompile(p, m, s)
  PROVE  IInv'
<1> DEFINE x == [Idle EXCEPT !.pc = "open", !.model = m, !.sidecar = s]
<1>1. /\ proc \in [Procs -> Process] /\ proc[p].pc = "idle"
      /\ proc' = [proc EXCEPT ![p] = x] /\ UNCHANGED <<pte, json, last>>
      /\ \A q \in Procs : ~Compiling(q)
  BY DEF StartCompile, IInv, Typed
<1>2. /\ x \in Process
      /\ x.pc = "open" /\ x.model = m /\ x.at = 0 /\ x.outcome = "none"
  BY DEF Idle, Process, Stages, Outcomes, Manifests, Empty
<1>3. proc'[p] = x /\ StepOf(p)
  BY <1>1 DEF StepOf
<1>4. StageOK(p)'
  BY <1>2, <1>3
  DEF StageOK, OpenOK, WriteOK, PteOK, SeenOK, EmptyOK, OwnOK, ModelOK, CheckOK,
      EndOK, Loading, Writing
<1>5. Typed'
  BY <1>1, <1>2 DEF Typed, IInv
<1>6. Alone'
  <2>1. ASSUME NEW q \in Procs, q # p
        PROVE  ~Compiling(q)'
    <3>1. proc'[q] = proc[q]
      BY <1>1, <2>1
    <3> QED
      BY <1>1, <3>1 DEF Compiling, Writing, Loading
  <2> QED
    BY <2>1 DEF Alone
<1>7. Writing(p)'
  BY <1>2, <1>3 DEF Writing
<1> QED
  BY <1>1, <1>3, <1>4, <1>5, <1>6, <1>7, StagedKept, PairOpen DEF IInv, Bound

LEMMA PrefixZero == ASSUME NEW m
                    PROVE  Prefix(m, 0) = <<>>
<1>1. 1..0 = {}
  OBVIOUS
<1> QED
  BY <1>1 DEF Prefix

LEMMA OpenPteStep == ASSUME IInv, NEW p \in Procs, OpenPte(p)
                     PROVE  IInv'
<1> DEFINE x == [proc[p] EXCEPT !.pc = "write"]
<1>1. /\ proc \in [Procs -> Process] /\ proc[p] \in Process /\ proc[p].pc = "open"
      /\ proc' = [proc EXCEPT ![p] = x] /\ pte' = <<>> /\ UNCHANGED <<json, last>>
  BY DEF OpenPte, Goto, IInv, Typed
<1>2. /\ x \in Process /\ x.pc = "write" /\ x.at = proc[p].at
      /\ x.model = proc[p].model /\ x.outcome = proc[p].outcome
  BY <1>1 DEF Process, Stages
<1>3. proc'[p] = x /\ Writing(p) /\ Writing(p)'
  BY <1>1, <1>2 DEF Writing
<1>4. StepOf(p) /\ Compiling(p)
  BY <1>1, <1>3 DEF StepOf, Compiling
<1>5. StageOK(p)'
  <2>1. proc[p].at = 0 /\ proc[p].model \in Models /\ proc[p].outcome = "none"
    BY <1>1, <1>3 DEF IInv, Staged, StageOK, OpenOK, ModelOK, EndOK
  <2>2. Blocks[proc[p].model] >= 0
    BY <2>1, StoreAssumption
  <2> QED
    BY <1>1, <1>2, <1>3, <2>1, <2>2, PrefixZero
    DEF StageOK, OpenOK, WriteOK, PteOK, SeenOK, EmptyOK, OwnOK, ModelOK, CheckOK,
        EndOK, Loading, Writing
<1>6. Typed'
  BY <1>1, <1>2 DEF Typed, IInv
<1> QED
  BY <1>1, <1>3, <1>4, <1>5, <1>6, StagedKept, AloneKept, PairOpen DEF IInv, Bound

LEMMA PrefixGrows ==
  ASSUME NEW m \in Models, NEW n \in Nat
  PROVE  [i \in 1..Max({n + 1, Len(Prefix(m, n))}) |->
            IF i = n + 1 THEN m
            ELSE IF i <= Len(Prefix(m, n)) THEN Prefix(m, n)[i] ELSE Hole]
         = Prefix(m, n + 1)
<1>1. Len(Prefix(m, n)) = n
  BY DEF Prefix
<1>2. Max({n + 1, n}) = n + 1
  BY DEF Max
<1>3. \A i \in 1..n : Prefix(m, n)[i] = m
  BY DEF Prefix
<1> QED
  BY <1>1, <1>2, <1>3 DEF Prefix

LEMMA WriteBlockStep == ASSUME IInv, NEW p \in Procs, WriteBlock(p)
                        PROVE  IInv'
<1> DEFINE m == proc[p].model
           n == proc[p].at
           x == [proc[p] EXCEPT !.at = @ + 1]
<1>1. /\ proc \in [Procs -> Process] /\ proc[p] \in Process /\ proc[p].pc = "write"
      /\ proc' = [proc EXCEPT ![p] = x] /\ UNCHANGED <<json, last>>
      /\ n < Blocks[m]
  BY DEF WriteBlock, BlocksLeft, IInv, Typed
<1>2. /\ x \in Process /\ x.pc = "write" /\ x.at = n + 1
      /\ x.model = m /\ x.outcome = proc[p].outcome /\ n \in Nat
  BY <1>1 DEF Process, Stages
<1>3. proc'[p] = x /\ Writing(p) /\ Writing(p)'
  BY <1>1, <1>2 DEF Writing
<1>4. StepOf(p) /\ Compiling(p)
  BY <1>1, <1>3 DEF StepOf, Compiling
<1>5. m \in Models /\ proc[p].outcome = "none" /\ pte = Prefix(m, n)
  BY <1>1, <1>3 DEF IInv, Staged, StageOK, WriteOK, ModelOK, EndOK
<1>6. pte' = Prefix(m, n + 1)
  <2>1. pte' = [i \in 1..Max({n + 1, Len(pte)}) |->
                  IF i = n + 1 THEN m
                  ELSE IF i <= Len(pte) THEN pte[i] ELSE Hole]
    BY DEF WriteBlock
  <2> QED
    BY <1>2, <1>5, <2>1, PrefixGrows
<1>7. StageOK(p)'
  <2>1. Blocks[m] \in Nat
    BY <1>5, StoreAssumption
  <2>2. n + 1 <= Blocks[m]
    BY <1>1, <1>2, <2>1
  <2> QED
    BY <1>2, <1>3, <1>5, <1>6, <2>2
    DEF StageOK, OpenOK, WriteOK, PteOK, SeenOK, EmptyOK, OwnOK, ModelOK, CheckOK,
        EndOK, Loading, Writing
<1>8. Typed'
  <2>1. pte' \in Files
    BY <1>2, <1>5, <1>6 DEF Files
  <2> QED
    BY <1>1, <1>2, <2>1 DEF Typed, IInv
<1> QED
  BY <1>1, <1>3, <1>4, <1>7, <1>8, StagedKept, AloneKept, PairOpen DEF IInv, Bound

LEMMA IdleRecord == /\ Idle \in Process
                    /\ Idle.pc = "idle"
BY DEF Idle, Process, Stages, Outcomes, Manifests, Empty

\* A process that goes idle owes nothing.
LEMMA EndStage ==
  ASSUME NEW p \in Procs, proc'[p].pc = "idle"
  PROVE  StageOK(p)' /\ ~Compiling(p)'
BY DEF StageOK, OpenOK, WriteOK, PteOK, SeenOK, EmptyOK, OwnOK, ModelOK, CheckOK,
       EndOK, Loading, Writing, Compiling

LEMMA ClosePteStep == ASSUME IInv, NEW p \in Procs, ClosePte(p)
                      PROVE  IInv'
<1> DEFINE m == proc[p].model
           x == [proc[p] EXCEPT !.pc = "hash"]
<1>1. /\ proc \in [Procs -> Process] /\ proc[p] \in Process /\ proc[p].pc = "write"
      /\ UNCHANGED <<pte, json>> /\ ~BlocksLeft(p)
  BY DEF ClosePte, IInv, Typed
<1>2. Writing(p) /\ Compiling(p)
  BY <1>1 DEF Writing, Compiling
<1>3. m \in Models /\ proc[p].outcome = "none" /\ pte = Prefix(m, proc[p].at)
      /\ proc[p].at <= Blocks[m]
  BY <1>1, <1>2 DEF IInv, Staged, StageOK, WriteOK, ModelOK, EndOK
<1>4. pte = Image(m)
  <2>1. proc[p].at \in Nat /\ Blocks[m] \in Nat
    BY <1>1, <1>3, StoreAssumption DEF Process
  <2>2. proc[p].at = Blocks[m]
    BY <1>1, <1>3, <2>1 DEF BlocksLeft
  <2> QED
    BY <1>3, <2>2, Nonempty
<1>5. CASE proc[p].sidecar
  <2>1. proc' = [proc EXCEPT ![p] = x] /\ last' = last
    BY <1>5 DEF ClosePte, Goto
  <2>2. /\ x \in Process /\ x.pc = "hash"
        /\ x.model = m /\ x.outcome = proc[p].outcome
    BY <1>1 DEF Process, Stages
  <2>3. proc'[p] = x /\ StepOf(p) /\ Writing(p)'
    BY <1>1, <2>1, <2>2 DEF StepOf, Writing
  <2>4. StageOK(p)'
    BY <1>1, <1>3, <1>4, <2>2, <2>3
    DEF StageOK, OpenOK, WriteOK, PteOK, SeenOK, EmptyOK, OwnOK, ModelOK, CheckOK,
        EndOK, Loading, Writing
  <2>5. Typed'
    BY <1>1, <2>1, <2>2 DEF Typed, IInv
  <2> QED
    BY <1>1, <1>2, <2>3, <2>4, <2>5, StagedKept, AloneKept, PairOpen DEF IInv, Bound
<1>6. CASE ~proc[p].sidecar
  <2>1. proc' = [proc EXCEPT ![p] = Idle] /\ last' = [how |-> "bare", model |-> m]
    BY <1>6 DEF ClosePte
  <2>2. proc'[p] = Idle /\ StepOf(p)
    BY <1>1, <2>1 DEF StepOf
  <2>3. StageOK(p)' /\ ~Compiling(p)'
    BY <2>2, IdleRecord, EndStage
  <2>4. Typed'
    <3>1. last' \in Ending
      BY <1>3, <2>1 DEF Ending
    <3> QED
      BY <1>1, <2>1, <3>1, IdleRecord DEF Typed, IInv
  <2>5. CompletedPairIsBound'
    BY <2>1 DEF CompletedPairIsBound
  <2> QED
    BY <1>1, <2>2, <2>3, <2>4, <2>5, StagedKept, AloneKept DEF IInv, Bound
<1> QED
  BY <1>5, <1>6

LEMMA HashPteStep == ASSUME IInv, NEW p \in Procs, HashPte(p)
                     PROVE  IInv'
<1> DEFINE x == [proc[p] EXCEPT !.pc = "truncate", !.seen = pte]
<1>1. /\ proc \in [Procs -> Process] /\ proc[p] \in Process /\ proc[p].pc = "hash"
      /\ proc' = [proc EXCEPT ![p] = x] /\ UNCHANGED <<pte, json, last>>
  BY DEF HashPte, IInv, Typed
<1>2. /\ x \in Process /\ x.pc = "truncate" /\ x.seen = pte
      /\ x.model = proc[p].model /\ x.outcome = proc[p].outcome
  BY <1>1 DEF Process, Stages, IInv, Typed
<1>3. proc'[p] = x /\ StepOf(p) /\ Writing(p)' /\ Compiling(p)
  BY <1>1, <1>2 DEF StepOf, Writing, Compiling
<1>4. StageOK(p)'
  <2>1. StageOK(p)
    BY DEF IInv, Staged
  <2> QED
    BY <1>1, <1>2, <1>3, <2>1
    DEF StageOK, OpenOK, WriteOK, PteOK, SeenOK, EmptyOK, OwnOK, ModelOK, CheckOK,
        EndOK, Loading, Writing
<1>5. Typed'
  BY <1>1, <1>2 DEF Typed, IInv
<1> QED
  BY <1>1, <1>3, <1>4, <1>5, StagedKept, AloneKept, PairOpen DEF IInv, Bound

LEMMA TruncateStep == ASSUME IInv, NEW p \in Procs, TruncateSidecar(p)
                      PROVE  IInv'
<1> DEFINE x == [proc[p] EXCEPT !.pc = "describe"]
<1>1. /\ proc \in [Procs -> Process] /\ proc[p] \in Process /\ proc[p].pc = "truncate"
      /\ proc' = [proc EXCEPT ![p] = x] /\ json' = Empty /\ UNCHANGED <<pte, last>>
  BY DEF TruncateSidecar, Goto, IInv, Typed
<1>2. /\ x \in Process /\ x.pc = "describe" /\ x.seen = proc[p].seen
      /\ x.model = proc[p].model /\ x.outcome = proc[p].outcome
  BY <1>1 DEF Process, Stages
<1>3. proc'[p] = x /\ StepOf(p) /\ Writing(p)' /\ Compiling(p)
  BY <1>1, <1>2 DEF StepOf, Writing, Compiling
<1>4. StageOK(p)'
  <2>1. StageOK(p)
    BY DEF IInv, Staged
  <2> QED
    BY <1>1, <1>2, <1>3, <2>1
    DEF StageOK, OpenOK, WriteOK, PteOK, SeenOK, EmptyOK, OwnOK, ModelOK, CheckOK,
        EndOK, Loading, Writing
<1>5. Typed'
  <2>1. Empty \in Manifests
    BY DEF Empty, Manifests
  <2> QED
    BY <1>1, <1>2, <2>1 DEF Typed, IInv
<1> QED
  BY <1>1, <1>3, <1>4, <1>5, StagedKept, AloneKept, PairOpen DEF IInv, Bound

LEMMA WriteSidecarStep == ASSUME IInv, NEW p \in Procs, WriteSidecar(p)
                          PROVE  IInv'
<1> DEFINE m == proc[p].model
           x == [proc[p] EXCEPT !.pc = "load", !.verify = TRUE]
<1>1. /\ proc \in [Procs -> Process] /\ proc[p] \in Process /\ proc[p].pc = "describe"
      /\ proc' = [proc EXCEPT ![p] = x] /\ last' = [how |-> "done", model |-> m]
      /\ pte' = pte
  BY DEF WriteSidecar, IInv, Typed
<1>2. /\ x \in Process /\ x.pc = "load" /\ x.model = m /\ x.outcome = proc[p].outcome
  BY <1>1 DEF Process, Stages
<1>3. proc'[p] = x /\ StepOf(p) /\ Writing(p) /\ Compiling(p)
  BY <1>1, <1>2 DEF StepOf, Writing, Compiling
<1>4. /\ m \in Models /\ proc[p].outcome = "none" /\ json = Empty
      /\ pte = Image(m) /\ proc[p].seen = Image(m)
  BY <1>1, <1>3 DEF IInv, Staged, StageOK, PteOK, SeenOK, EmptyOK, ModelOK, EndOK
<1>5. json' = Doc(m)
  BY <1>4 DEF WriteSidecar, Doc
<1>6. StageOK(p)'
  BY <1>1, <1>2, <1>3, <1>4, <1>5
  DEF StageOK, OpenOK, WriteOK, PteOK, SeenOK, EmptyOK, OwnOK, ModelOK, CheckOK,
      EndOK, Loading, Writing
<1>7. Typed'
  <2>1. json' \in Manifests
    BY <1>4, <1>5, DocReadable
  <2>2. last' \in Ending
    BY <1>1, <1>4 DEF Ending
  <2> QED
    BY <1>1, <1>2, <2>1, <2>2 DEF Typed, IInv
<1>8. CompletedPairIsBound'
  BY <1>1, <1>4, <1>5 DEF CompletedPairIsBound, Doc
<1>9. Bound'
  BY <1>4, <1>5 DEF Bound
<1> QED
  BY <1>3, <1>6, <1>7, <1>8, <1>9, StagedKept, AloneKept DEF IInv

\* Two kinds of step go from busy to idle and leave the files alone.
LEMMA GoesIdle ==
  ASSUME IInv, NEW p \in Procs, NEW x \in Process, x.pc = "idle",
         proc' = [proc EXCEPT ![p] = x], UNCHANGED <<pte, json>>, last' \in Ending,
         CompletedPairIsBound'
  PROVE  IInv'
<1>1. proc \in [Procs -> Process]
  BY DEF IInv, Typed
<1>2. proc'[p] = x /\ StepOf(p)
  BY <1>1 DEF StepOf
<1>3. StageOK(p)' /\ ~Compiling(p)'
  BY <1>2, EndStage
<1>4. Typed'
  BY <1>1 DEF Typed, IInv
<1> QED
  BY <1>2, <1>3, <1>4, StagedKept, AloneKept DEF IInv, Bound

LEMMA CrashStep == ASSUME IInv, NEW p \in Procs, Crash(p)
                   PROVE  IInv'
<1> DEFINE x == [Idle EXCEPT !.outcome = "crashed"]
<1>1. /\ proc \in [Procs -> Process] /\ proc' = [proc EXCEPT ![p] = x]
      /\ UNCHANGED <<pte, json>> /\ last \in Ending
      /\ last' = IF Writing(p) THEN [how |-> "crashed", model |-> proc[p].model] ELSE last
  BY DEF Crash, IInv, Typed
<1>2. x \in Process /\ x.pc = "idle"
  BY IdleRecord DEF Process, Outcomes
<1>3. CASE Writing(p)
  <2>1. proc[p].model \in Models \cup {"none"}
    BY <1>1 DEF IInv, Typed, Process
  <2>2. last' \in Ending /\ last'.how = "crashed"
    BY <1>1, <1>3, <2>1 DEF Ending
  <2>3. CompletedPairIsBound'
    BY <2>2 DEF CompletedPairIsBound
  <2> QED
    BY <1>1, <1>2, <2>2, <2>3, GoesIdle
<1>4. CASE ~Writing(p)
  <2>1. \A q \in Procs : Writing(q) => Writing(q)'
    <3>1. ASSUME NEW q \in Procs, Writing(q)
          PROVE  proc'[q] = proc[q]
      BY <1>1, <1>4, <3>1
    <3> QED
      BY <3>1 DEF Writing
  <2>2. CompletedPairIsBound'
    BY <1>1, <1>4, <2>1 DEF IInv, CompletedPairIsBound
  <2> QED
    BY <1>1, <1>2, <1>4, <2>2, GoesIdle
<1> QED
  BY <1>3, <1>4

\* A loading process moves on: what the writers rely on stays.
LEMMA LoadMoves ==
  ASSUME IInv, NEW p \in Procs, NEW x \in Process, ~Writing(p),
         x.pc \in {"idle", "load", "check"},
         proc' = [proc EXCEPT ![p] = x], UNCHANGED <<pte, json, last>>,
         Compiling(p)' => Compiling(p), StageOK(p)'
  PROVE  IInv'
<1>1. proc \in [Procs -> Process]
  BY DEF IInv, Typed
<1>2. StepOf(p)
  BY <1>1 DEF StepOf
<1>3. Typed'
  BY <1>1 DEF Typed, IInv
<1>4. \A q \in Procs : Writing(q) => Writing(q)'
  <2>1. ASSUME NEW q \in Procs, Writing(q)
        PROVE  proc'[q] = proc[q]
    BY <1>1, <2>1
  <2> QED
    BY <2>1 DEF Writing
<1>5. CompletedPairIsBound'
  BY <1>4 DEF IInv, CompletedPairIsBound
<1> QED
  BY <1>2, <1>3, <1>5, StagedKept, AloneKept DEF IInv, Bound

LEMMA StartLoadStep == ASSUME IInv, NEW p \in Procs, NEW v \in BOOLEAN, StartLoad(p, v)
                       PROVE  IInv'
<1> DEFINE x == [Idle EXCEPT !.pc = "load", !.verify = v]
<1>1. /\ proc \in [Procs -> Process] /\ proc[p].pc = "idle"
      /\ proc' = [proc EXCEPT ![p] = x] /\ UNCHANGED <<pte, json, last>>
  BY DEF StartLoad, IInv, Typed
<1>2. x \in Process /\ x.pc = "load" /\ x.model = "none" /\ x.outcome = "none"
  BY DEF Idle, Process, Stages, Outcomes, Manifests, Empty
<1>3. proc'[p] = x /\ ~Writing(p) /\ ~Compiling(p)'
  BY <1>1, <1>2 DEF Writing, Compiling
<1>4. StageOK(p)'
  BY <1>2, <1>3
  DEF StageOK, OpenOK, WriteOK, PteOK, SeenOK, EmptyOK, OwnOK, ModelOK, CheckOK,
      EndOK, Loading, Writing
<1> QED
  BY <1>1, <1>2, <1>3, <1>4, LoadMoves

\* The load that ends goes idle with an outcome.
LEMMA EndStep ==
  ASSUME IInv, NEW p \in Procs, Loading(p), NEW o \in Outcomes, End(p, o),
         UNCHANGED <<pte, json, last>>
  PROVE  IInv'
<1> DEFINE x == [proc[p] EXCEPT !.pc = "idle", !.outcome = o]
<1>1. /\ proc \in [Procs -> Process] /\ proc[p] \in Process
      /\ proc' = [proc EXCEPT ![p] = x]
  BY DEF End, IInv, Typed
<1>2. x \in Process /\ x.pc = "idle"
  BY <1>1 DEF Process, Stages
<1>3. proc'[p] = x /\ ~Writing(p)
  BY <1>1 DEF Writing, Loading
<1>4. StageOK(p)' /\ ~Compiling(p)'
  BY <1>2, <1>3, EndStage
<1> QED
  BY <1>1, <1>2, <1>3, <1>4, LoadMoves

LEMMA ReadSidecarStep == ASSUME IInv, NEW p \in Procs, ReadSidecar(p)
                         PROVE  IInv'
<1>1. /\ proc \in [Procs -> Process] /\ proc[p] \in Process /\ proc[p].pc = "load"
      /\ UNCHANGED <<pte, json, last>> /\ Loading(p) /\ ~Writing(p)
  BY DEF ReadSidecar, IInv, Typed, Loading, Writing
<1>2. CASE json \in {Absent, Empty, Garbled}
  BY <1>1, <1>2, EndStep DEF ReadSidecar, Outcomes
<1>3. ASSUME json \notin {Absent, Empty, Garbled}
      PROVE  json \in Manifests /\ \E m \in Models : json = Doc(m)
  BY <1>3 DEF IInv, Typed, Bound
<1>4. CASE json \notin {Absent, Empty, Garbled} /\ proc[p].verify
  <2> DEFINE x == [proc[p] EXCEPT !.pc = "check", !.manifest = json]
  <2>1. proc' = [proc EXCEPT ![p] = x]
    BY <1>4 DEF ReadSidecar
  <2>2. /\ x \in Process /\ x.pc = "check" /\ x.manifest = json
        /\ x.model = proc[p].model /\ x.outcome = proc[p].outcome
    BY <1>1, <1>3, <1>4 DEF Process, Stages
  <2>3. proc'[p] = x /\ (Compiling(p)' => Compiling(p))
    BY <1>1, <2>1, <2>2 DEF Compiling, Loading, Writing
  <2>4. StageOK(p)'
    <3>1. StageOK(p)
      BY DEF IInv, Staged
    <3> QED
      BY <1>1, <1>3, <1>4, <2>2, <2>3, <3>1
      DEF StageOK, OpenOK, WriteOK, PteOK, SeenOK, EmptyOK, OwnOK, ModelOK, CheckOK,
          EndOK, Loading, Writing
  <2> QED
    BY <1>1, <2>1, <2>2, <2>3, <2>4, LoadMoves
<1>5. CASE json \notin {Absent, Empty, Garbled} /\ ~proc[p].verify
  <2> DEFINE x == [proc[p] EXCEPT !.pc = "idle", !.manifest = json, !.outcome = "loaded"]
  <2>1. proc' = [proc EXCEPT ![p] = x]
    BY <1>5 DEF ReadSidecar
  <2>2. x \in Process /\ x.pc = "idle"
    BY <1>1, <1>3, <1>5 DEF Process, Stages, Outcomes
  <2>3. proc'[p] = x
    BY <1>1, <2>1
  <2>4. StageOK(p)' /\ ~Compiling(p)'
    BY <2>2, <2>3, EndStage
  <2> QED
    BY <1>1, <2>1, <2>2, <2>4, LoadMoves
<1> QED
  BY <1>2, <1>4, <1>5

LEMMA CheckPteStep == ASSUME IInv, NEW p \in Procs, CheckPte(p)
                      PROVE  IInv'
BY EndStep DEF CheckPte, Loading, Outcomes
----------------------------------------------------------------------------
LEMMA Initially == Init => IInv
<1> SUFFICES ASSUME Init PROVE IInv
  OBVIOUS
<1>1. \A p \in Procs : proc[p] = Idle
  BY DEF Init
<1>2. Typed
  BY IdleRecord DEF Init, Typed, Files, Ending
<1>3. \A p \in Procs : StageOK(p) /\ ~Compiling(p)
  BY <1>1, IdleRecord
  DEF StageOK, OpenOK, WriteOK, PteOK, SeenOK, EmptyOK, OwnOK, ModelOK, CheckOK,
      EndOK, Loading, Writing, Compiling
<1> QED
  BY <1>2, <1>3 DEF IInv, Staged, Alone, Bound, CompletedPairIsBound, Init

LEMMA Stutter == ASSUME IInv, UNCHANGED vars
                 PROVE  IInv'
BY DEF IInv, Typed, Alone, Staged, Bound, CompletedPairIsBound, vars, StageOK, OpenOK,
       WriteOK, PteOK, SeenOK, EmptyOK, OwnOK, ModelOK, CheckOK, EndOK, Loading,
       Writing, Compiling

LEMMA Step == ASSUME IInv, Serialized, [Next]_vars
              PROVE  IInv'
<1>1. ASSUME NEW p \in Procs, NEW m \in Models, NEW s \in BOOLEAN, StartCompile(p, m, s)
      PROVE  IInv'
  BY <1>1, StartCompileStep
<1>2. ASSUME NEW p \in Procs, OpenPte(p) \/ WriteBlock(p) \/ ClosePte(p)
      PROVE  IInv'
  BY <1>2, OpenPteStep, WriteBlockStep, ClosePteStep
<1>3. ASSUME NEW p \in Procs, HashPte(p) \/ TruncateSidecar(p) \/ WriteSidecar(p)
      PROVE  IInv'
  BY <1>3, HashPteStep, TruncateStep, WriteSidecarStep
<1>4. ASSUME NEW p \in Procs, Crash(p) \/ ReadSidecar(p) \/ CheckPte(p)
      PROVE  IInv'
  BY <1>4, CrashStep, ReadSidecarStep, CheckPteStep
<1>5. ASSUME NEW p \in Procs, NEW v \in BOOLEAN, StartLoad(p, v)
      PROVE  IInv'
  BY <1>5, StartLoadStep
<1> QED
  BY <1>1, <1>2, <1>3, <1>4, <1>5, Stutter DEF Next

LEMMA Invariance == ASSUME Serialized
                    PROVE  Spec => []IInv
BY Initially, Step, PTL DEF Spec

\* A completed compile repairs whatever earlier ones left, and until the next one
\* the pair on disk is its own (write_pte, write_sidecar).
THEOREM PairCorrect == ASSUME Serialized
                       PROVE  Spec => []CompletedPairIsBound
<1>1. IInv => CompletedPairIsBound
  BY DEF IInv
<1> QED
  BY <1>1, Invariance, PTL

\* A verified load that succeeds describes the program on disk (load_sidecar).
THEOREM LoadCorrect == ASSUME Serialized
                       PROVE  Spec => VerifiedLoadIsTrue
<1>1. ASSUME IInv, [Next]_vars, NEW p \in Procs, proc[p].pc = "check",
             proc'[p].outcome = "loaded"
      PROVE  /\ proc[p].manifest.facts \in Models
             /\ pte = Image(proc[p].manifest.facts)
  <2>1. PICK m \in Models : proc[p].manifest = Doc(m)
    BY <1>1 DEF IInv, Staged, StageOK, CheckOK
  <2>2. proc[p].outcome = "none" /\ proc[p] \in Process /\ proc \in [Procs -> Process]
    BY <1>1 DEF IInv, Staged, StageOK, EndOK, Typed
  <2>3. CheckPte(p)
    <3>1. PICK q \in Procs :
             \/ \E k \in Models, s \in BOOLEAN : StartCompile(q, k, s)
             \/ OpenPte(q) \/ WriteBlock(q) \/ ClosePte(q) \/ HashPte(q)
             \/ TruncateSidecar(q) \/ WriteSidecar(q) \/ Crash(q)
             \/ \E v \in BOOLEAN : StartLoad(q, v)
             \/ ReadSidecar(q) \/ CheckPte(q)
      BY <1>1, <2>2 DEF Next, vars
    <3>2. proc' = [proc EXCEPT ![q] = proc'[q]]
      BY <2>2, <3>1
      DEF StartCompile, OpenPte, WriteBlock, ClosePte, HashPte, TruncateSidecar,
          WriteSidecar, Crash, StartLoad, ReadSidecar, CheckPte, Goto, End
    <3>3. q = p
      BY <1>1, <2>2, <3>2
    <3>4. ~Crash(p)
      <4>1. Crash(p) => proc'[p].outcome = "crashed"
        BY <2>2 DEF Crash, Idle
      <4> QED
        BY <1>1, <4>1
    <3> QED
      BY <1>1, <3>1, <3>3, <3>4
      DEF StartCompile, OpenPte, WriteBlock, ClosePte, HashPte, TruncateSidecar,
          WriteSidecar, StartLoad, ReadSidecar
  <2>4. ShaMatches(p)
    BY <1>1, <2>2, <2>3 DEF CheckPte, End
  <2> QED
    BY <2>1, <2>4 DEF ShaMatches, Doc
<1>2. ASSUME IInv, [Next]_vars
      PROVE  [\A p \in Procs :
                proc[p].pc = "check" /\ proc'[p].outcome = "loaded" =>
                  /\ proc[p].manifest.facts \in Models
                  /\ pte = Image(proc[p].manifest.facts)]_vars
  BY <1>1, <1>2
<1> QED
  BY <1>2, Invariance, PTL DEF Spec, VerifiedLoadIsTrue

\* The load a compile ends with accepts what it has just written (_cmd_compile).
THEOREM OwnLoadCorrect == ASSUME Serialized
                          PROVE  Spec => CompileAcceptsItsOwn
<1>1. ASSUME IInv, [Next]_vars, NEW p \in Procs, Compiling(p)
      PROVE  proc'[p].outcome # "error"
  <2>1. StageOK(p) /\ proc \in [Procs -> Process] /\ proc[p] \in Process
    BY <1>1 DEF IInv, Staged, Typed
  <2>2. proc[p].outcome = "none" /\ proc[p].pc # "idle"
    BY <1>1, <2>1 DEF StageOK, EndOK, Compiling, Writing, Loading
  <2>3. ASSUME proc'[p].outcome = "error"
        PROVE  (ReadSidecar(p) /\ json \in {Absent, Empty, Garbled}) \/
               (CheckPte(p) /\ ~ShaMatches(p))
    <3>1. PICK q \in Procs :
             \/ \E k \in Models, s \in BOOLEAN : StartCompile(q, k, s)
             \/ OpenPte(q) \/ WriteBlock(q) \/ ClosePte(q) \/ HashPte(q)
             \/ TruncateSidecar(q) \/ WriteSidecar(q) \/ Crash(q)
             \/ \E v \in BOOLEAN : StartLoad(q, v)
             \/ ReadSidecar(q) \/ CheckPte(q)
      BY <1>1, <2>2, <2>3 DEF Next, vars
    <3>2. proc' = [proc EXCEPT ![q] = proc'[q]]
      BY <2>1, <3>1
      DEF StartCompile, OpenPte, WriteBlock, ClosePte, HashPte, TruncateSidecar,
          WriteSidecar, Crash, StartLoad, ReadSidecar, CheckPte, Goto, End
    <3>3. q = p
      BY <2>1, <2>2, <2>3, <3>2
    <3>4. ~Crash(p)
      <4>1. Crash(p) => proc'[p].outcome = "crashed"
        BY <2>1 DEF Crash, Idle
      <4> QED
        BY <2>3, <4>1
    <3>5. ~ClosePte(p)
      <4>1. ClosePte(p) => \/ proc' = [proc EXCEPT ![p].pc = "hash"]
                           \/ proc' = [proc EXCEPT ![p] = Idle]
        BY DEF ClosePte, Goto
      <4>2. proc' = [proc EXCEPT ![p].pc = "hash"] => proc'[p].outcome = proc[p].outcome
        BY <2>1 DEF Process
      <4>3. proc' = [proc EXCEPT ![p] = Idle] => proc'[p].outcome = "none"
        BY <2>1 DEF Idle
      <4> QED
        BY <2>2, <2>3, <4>1, <4>2, <4>3
    <3>6. ~(OpenPte(p) \/ WriteBlock(p) \/ HashPte(p) \/ TruncateSidecar(p)
            \/ WriteSidecar(p))
      <4>1. OpenPte(p) \/ TruncateSidecar(p) => proc'[p].outcome = proc[p].outcome
        BY <2>1 DEF OpenPte, TruncateSidecar, Goto, Process
      <4>2. WriteBlock(p) => proc'[p].outcome = proc[p].outcome
        BY <2>1 DEF WriteBlock, Process
      <4>3. HashPte(p) \/ WriteSidecar(p) => proc'[p].outcome = proc[p].outcome
        BY <2>1 DEF HashPte, WriteSidecar, Process
      <4> QED
        BY <2>2, <2>3, <4>1, <4>2, <4>3
    <3>7. ReadSidecar(p) \/ CheckPte(p)
      BY <2>2, <3>1, <3>3, <3>4, <3>5, <3>6 DEF StartCompile, StartLoad
    <3>8. ReadSidecar(p) => json \in {Absent, Empty, Garbled}
      <4>1. ASSUME ReadSidecar(p), json \notin {Absent, Empty, Garbled}
            PROVE  \/ proc' = [proc EXCEPT ![p].pc = "check", ![p].manifest = json]
                   \/ proc' = [proc EXCEPT ![p].pc = "idle", ![p].manifest = json,
                                           ![p].outcome = "loaded"]
        BY <4>1 DEF ReadSidecar
      <4>2. proc' = [proc EXCEPT ![p].pc = "check", ![p].manifest = json]
              => proc'[p].outcome = proc[p].outcome
        BY <2>1 DEF Process
      <4>3. proc' = [proc EXCEPT ![p].pc = "idle", ![p].manifest = json,
                                 ![p].outcome = "loaded"]
              => proc'[p].outcome = "loaded"
        BY <2>1 DEF Process
      <4> QED
        BY <2>2, <2>3, <4>1, <4>2, <4>3
    <3>9. CheckPte(p) => ~ShaMatches(p)
      BY <2>1, <2>3 DEF CheckPte, End
    <3> QED
      BY <3>7, <3>8, <3>9
  <2>4. ASSUME Loading(p)
        PROVE  /\ json \notin {Absent, Empty, Garbled}
               /\ proc[p].pc = "check" => ShaMatches(p)
    <3>1. proc[p].model # "none" /\ proc[p].model \in Models
      BY <1>1, <2>1, <2>4 DEF Compiling, Writing, Loading, Process
    <3>2. json = Doc(proc[p].model) /\ pte = Image(proc[p].model)
          /\ (proc[p].pc = "check" => proc[p].manifest = json)
      BY <2>1, <2>4, <3>1 DEF StageOK, OwnOK
    <3> QED
      BY <3>1, <3>2, DocReadable, Nonempty DEF ShaMatches, Doc
  <2>5. (ReadSidecar(p) => Loading(p)) /\ (CheckPte(p) => Loading(p) /\ proc[p].pc = "check")
    BY DEF ReadSidecar, CheckPte, Loading
  <2> QED
    BY <2>3, <2>4, <2>5
<1>2. ASSUME IInv, [Next]_vars
      PROVE  [\A p \in Procs : Compiling(p) => proc'[p].outcome # "error"]_vars
  BY <1>1, <1>2
<1> QED
  BY <1>2, Invariance, PTL DEF Spec, CompileAcceptsItsOwn
============================================================================
