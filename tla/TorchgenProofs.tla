----------------------------- MODULE TorchgenProofs -----------------------------
(***************************************************************************)
(* What is proved of the generator, in five parts: the selection of a      *)
(* build is the merge of those of its models, for all selections; the      *)
(* files of an install directory are those of the last complete run, for   *)
(* all plans; a generated structured kernel returns what its               *)
(* implementation computed, for any number of outputs and every set of     *)
(* keys, sizes, strides, types and devices; a run registers the operators  *)
(* the models select, for every yaml file; and these hold of SpecCode,     *)
(* where what a run generated is built and called.                         *)
(***************************************************************************)
EXTENDS GeneratedCode, RecursionLemmas, FiniteSetTheorems, FunctionTheorems,
        SequenceTheorems

-----------------------------------------------------------------------------
(* Selections *)

LEMMA MergedSelection ==
    ASSUME NEW s1, NEW s2
    PROVE  /\ CombineSelections(s1, s2).all = (s1.all \/ s2.all)
           /\ CombineSelections(s1, s2).nonop = (s1.nonop \/ s2.nonop)
           /\ CombineSelections(s1, s2).operators = MergeOperators(s1.operators, s2.operators)
           /\ CombineSelections(s1, s2).dtypes = MergeSets(s1.dtypes, s2.dtypes)
           /\ CombineSelections(s1, s2).kernels = MergeSets(s1.kernels, s2.kernels)
BY DEF CombineSelections, Selection

\* Each flag of a merged entry is that of one of the models.
LEMMA MergedEntry ==
    ASSUME NEW s1, NEW s2, NEW n, IsSelection(s1), IsSelection(s2),
           NEW f, f = CombineSelections(s1, s2).operators
    PROVE  /\ n \in DOMAIN f <=> n \in DOMAIN s1.operators \/ n \in DOMAIN s2.operators
           /\ n \in DOMAIN f =>
                /\ f[n].root <=> \/ n \in DOMAIN s1.operators /\ s1.operators[n].root
                                 \/ n \in DOMAIN s2.operators /\ s2.operators[n].root
                /\ f[n].training <=> \/ n \in DOMAIN s1.operators /\ s1.operators[n].training
                                     \/ n \in DOMAIN s2.operators /\ s2.operators[n].training
                /\ f[n].all <=> \/ n \in DOMAIN s1.operators /\ s1.operators[n].all
                                \/ n \in DOMAIN s2.operators /\ s2.operators[n].all
<1> DEFINE f1 == s1.operators
           f2 == s2.operators
<1>1. f = MergeOperators(f1, f2)
  BY MergedSelection
<1>2. /\ n \in DOMAIN f1 => f1[n] \in Operators
      /\ n \in DOMAIN f2 => f2[n] \in Operators
  BY DEF IsSelection
<1> HIDE DEF f1, f2
<1>3. DOMAIN f = DOMAIN f1 \cup DOMAIN f2
  BY <1>1 DEF MergeOperators
<1>4. CASE n \in DOMAIN f1 /\ n \in DOMAIN f2
  <2>1. f[n] = Operator(f1[n].root \/ f2[n].root, f1[n].training \/ f2[n].training,
                        f1[n].all \/ f2[n].all)
    BY <1>1, <1>4 DEF MergeOperators, CombineOperators
  <2> QED
    BY <1>2, <1>3, <1>4, <2>1 DEF Operator, Operators, f1, f2
<1>5. CASE n \in DOMAIN f1 /\ n \notin DOMAIN f2
  <2>1. f[n] = f1[n]
    BY <1>1, <1>5 DEF MergeOperators
  <2> QED
    BY <1>3, <1>5, <2>1 DEF f1, f2
<1>6. CASE n \notin DOMAIN f1 /\ n \in DOMAIN f2
  <2>1. f[n] = f2[n]
    BY <1>1, <1>6 DEF MergeOperators
  <2> QED
    BY <1>3, <1>6, <2>1 DEF f1, f2
<1>7. CASE n \notin DOMAIN f1 /\ n \notin DOMAIN f2
  BY <1>3, <1>7 DEF f1, f2
<1> QED
  BY <1>4, <1>5, <1>6, <1>7

\* An operator is in the build exactly when one of the models selects it: the merge loses
\* none and adds none, also where one model names an overload and the other all of them.
THEOREM MergeSelects ==
    ASSUME NEW s1, NEW s2, NEW n, IsSelection(s1), IsSelection(s2)
    PROVE  IsOperatorSelected(CombineSelections(s1, s2), n)
             <=> IsOperatorSelected(s1, n) \/ IsOperatorSelected(s2, n)
<1> DEFINE s == CombineSelections(s1, s2)
           b == StripOverload(n)
<1> HIDE DEF b
<1>1. s.all <=> s1.all \/ s2.all
  BY MergedSelection
<1>2. n \in DOMAIN s.operators <=> n \in DOMAIN s1.operators \/ n \in DOMAIN s2.operators
  BY MergedEntry
<1>3. b \in DOMAIN s.operators /\ s.operators[b].all
        <=> \/ b \in DOMAIN s1.operators /\ s1.operators[b].all
            \/ b \in DOMAIN s2.operators /\ s2.operators[b].all
  BY MergedEntry
<1> QED
  BY <1>1, <1>2, <1>3 DEF IsOperatorSelected, b

\* What a model needs for training the build has for training.  The converse fails: one model
\* may take all overloads and the other train the bare name.
THEOREM MergeTrains ==
    ASSUME NEW s1, NEW s2, NEW n, IsSelection(s1), IsSelection(s2),
           IsSelectedForTraining(s1, n) \/ IsSelectedForTraining(s2, n)
    PROVE  IsSelectedForTraining(CombineSelections(s1, s2), n)
<1> DEFINE s == CombineSelections(s1, s2)
           b == StripOverload(n)
<1> HIDE DEF b
<1>1. IsOperatorSelected(s, n)
  BY MergeSelects DEF IsSelectedForTraining
<1>2. s1.all \/ s2.all => s.all
  BY MergedSelection
<1>3. ASSUME \/ n \in DOMAIN s1.operators /\ s1.operators[n].training
             \/ n \in DOMAIN s2.operators /\ s2.operators[n].training
      PROVE  n \in DOMAIN s.operators /\ s.operators[n].training
  BY <1>3, MergedEntry
<1>4. ASSUME \/ b \in DOMAIN s1.operators /\ s1.operators[b].all /\ s1.operators[b].training
             \/ b \in DOMAIN s2.operators /\ s2.operators[b].all /\ s2.operators[b].training
      PROVE  b \in DOMAIN s.operators /\ s.operators[b].all /\ s.operators[b].training
  BY <1>4, MergedEntry
<1> QED
  BY <1>1, <1>2, <1>3, <1>4 DEF IsSelectedForTraining, b

\* A root operator of one model is a root operator of the build, unless that model roots it by
\* its bare name and the other model names the overload: that entry then answers alone.
THEOREM MergeKeepsRoots ==
    ASSUME NEW s1, NEW s2, NEW n, IsSelection(s1), IsSelection(s2),
           IsRootOperator(s1, n),
           s1.all \/ n \in DOMAIN s1.operators \/ n \notin DOMAIN s2.operators
    PROVE  IsRootOperator(CombineSelections(s1, s2), n)
<1> DEFINE s == CombineSelections(s1, s2)
           b == StripOverload(n)
<1> HIDE DEF b
<1>1. IsOperatorSelected(s, n)
  BY MergeSelects DEF IsRootOperator
<1>2. CASE s1.all
  BY <1>1, <1>2, MergedSelection DEF IsRootOperator
<1>3. CASE n \in DOMAIN s1.operators /\ s1.operators[n].root
  <2>1. n \in DOMAIN s.operators /\ s.operators[n].root
    BY <1>3, MergedEntry
  <2> QED
    BY <1>1, <2>1 DEF IsRootOperator
<1>4. CASE /\ n \notin DOMAIN s1.operators /\ n \notin DOMAIN s2.operators
           /\ b \in DOMAIN s1.operators /\ s1.operators[b].all /\ s1.operators[b].root
  <2>1. n \notin DOMAIN s.operators
    BY <1>4, MergedEntry
  <2>2. b \in DOMAIN s.operators /\ s.operators[b].all /\ s.operators[b].root
    BY <1>4, MergedEntry
  <2> QED
    BY <1>1, <2>1, <2>2 DEF IsRootOperator, b
<1> QED
  BY <1>2, <1>3, <1>4 DEF IsRootOperator, b

\* That case exists: the comment of combine_operators ("a root operator in any of the models")
\* holds of each entry and not of each operator.
THEOREM MergeHidesRoots ==
    \E s1, s2, n : /\ IsSelection(s1) /\ IsSelection(s2)
                   /\ IsRootOperator(s1, n)
                   /\ ~IsRootOperator(CombineSelections(s1, s2), n)
<1> DEFINE n == <<"add", <<"Tensor">>>>
           b == <<"add", <<>>>>
           s1 == Selection(FALSE, [m \in {b} |-> Operator(TRUE, TRUE, TRUE)],
                           NoEntries, NoEntries, {}, {}, FALSE)
           s2 == Selection(FALSE, [m \in {n} |-> Operator(FALSE, TRUE, TRUE)],
                           NoEntries, NoEntries, {}, {}, FALSE)
           s == CombineSelections(s1, s2)
<1>1. n # b
  OBVIOUS
<1>2. StripOverload(n) = b
  BY DEF StripOverload
<1>3. IsSelection(s1) /\ IsSelection(s2)
  BY DEF IsSelection, Selection, Operators, Operator, NoEntries
<1> HIDE DEF n, b
<1>4. IsRootOperator(s1, n)
  BY <1>1, <1>2 DEF IsRootOperator, IsOperatorSelected, Selection, Operator
<1>5. n \in DOMAIN s.operators /\ ~s.operators[n].root /\ ~s.all
  <2>1. /\ n \notin DOMAIN s1.operators /\ ~s1.all /\ ~s2.all
        /\ n \in DOMAIN s2.operators /\ ~s2.operators[n].root
    BY <1>1 DEF Selection, Operator
  <2> HIDE DEF s1, s2
  <2> DEFINE f == s.operators
  <2>2. ~s.all
    BY <2>1, MergedSelection
  <2>3. n \in DOMAIN f /\ ~f[n].root
    <3>1. f = CombineSelections(s1, s2).operators
      OBVIOUS
    <3> HIDE DEF f, s
    <3> QED
      BY <1>3, <2>1, <3>1, MergedEntry
  <2> QED
    BY <2>2, <2>3
<1>6. ~IsRootOperator(s, n)
  BY <1>5 DEF IsRootOperator
<1> QED
  BY <1>3, <1>4, <1>6

\* A dtype of a kernel is in the build exactly when one of the models has it.
THEOREM MergeKeepsDtypes ==
    ASSUME NEW s1, NEW s2, NEW tag, NEW dtype, IsSelection(s1), IsSelection(s2)
    PROVE  IsDtypeSelected(CombineSelections(s1, s2), tag, dtype)
             <=> IsDtypeSelected(s1, tag, dtype) \/ IsDtypeSelected(s2, tag, dtype)
<1> DEFINE f == CombineSelections(s1, s2).dtypes
<1>1. f = MergeSets(s1.dtypes, s2.dtypes)
  BY MergedSelection
<1> HIDE DEF f
<1>2. tag \in DOMAIN f /\ dtype \in f[tag]
        <=> \/ tag \in DOMAIN s1.dtypes /\ dtype \in s1.dtypes[tag]
            \/ tag \in DOMAIN s2.dtypes /\ dtype \in s2.dtypes[tag]
  BY <1>1 DEF MergeSets
<1> QED
  BY <1>2, MergedSelection DEF IsDtypeSelected, f

\* Where both models say which kernels of an operator they need, the build has the kernels of
\* both, and it finds them all exactly when each of the models would.
THEOREM MergeKeepsKernels ==
    ASSUME NEW s1, NEW s2, NEW n, NEW keys, IsSelection(s1), IsSelection(s2),
           n \in DOMAIN s1.kernels, n \in DOMAIN s2.kernels
    PROVE  /\ SelectedKernels(CombineSelections(s1, s2), n, keys)
                = SelectedKernels(s1, n, keys) \cup SelectedKernels(s2, n, keys)
           /\ KernelsFound(CombineSelections(s1, s2), n, keys)
                <=> KernelsFound(s1, n, keys) /\ KernelsFound(s2, n, keys)
<1> DEFINE f == CombineSelections(s1, s2).kernels
<1>1. f = MergeSets(s1.kernels, s2.kernels)
  BY MergedSelection
<1> HIDE DEF f
<1>2. n \in DOMAIN f /\ f[n] = s1.kernels[n] \cup s2.kernels[n]
  BY <1>1 DEF MergeSets
<1> QED
  BY <1>2 DEF SelectedKernels, KernelsFound, f

LEMMA CombinedCommute ==
    ASSUME NEW o1 \in Operators, NEW o2 \in Operators, NEW o3 \in Operators
    PROVE  /\ CombineOperators(o1, o2) \in Operators
           /\ CombineOperators(o1, o2) = CombineOperators(o2, o1)
           /\ CombineOperators(CombineOperators(o1, o2), o3)
                = CombineOperators(o1, CombineOperators(o2, o3))
BY DEF CombineOperators, Operator, Operators

LEMMA MergedIsSelection ==
    ASSUME NEW s1, NEW s2, IsSelection(s1), IsSelection(s2)
    PROVE  IsSelection(CombineSelections(s1, s2))
<1> DEFINE s == CombineSelections(s1, s2)
           f == MergeOperators(s1.operators, s2.operators)
<1>1. f = [n \in DOMAIN f |-> f[n]] /\ \A n \in DOMAIN f : f[n] \in Operators
  <2>1. /\ \A n \in DOMAIN s1.operators : s1.operators[n] \in Operators
        /\ \A n \in DOMAIN s2.operators : s2.operators[n] \in Operators
    BY DEF IsSelection
  <2>2. f = [n \in DOMAIN f |-> f[n]]
    BY DEF MergeOperators
  <2> QED
    BY <2>1, <2>2, CombinedCommute DEF MergeOperators
<1>2. \A g, h : MergeSets(g, h) = [n \in DOMAIN MergeSets(g, h) |-> MergeSets(g, h)[n]]
  BY DEF MergeSets
<1>3. s.all \in BOOLEAN /\ s.nonop \in BOOLEAN /\ s.operators = f
      /\ s.dtypes = MergeSets(s1.dtypes, s2.dtypes)
      /\ s.kernels = MergeSets(s1.kernels, s2.kernels)
  BY MergedSelection DEF IsSelection
<1>4. s = Selection(s.all, s.operators, s.dtypes, s.kernels, s.classes, s.features, s.nonop)
  BY DEF CombineSelections, Selection
<1> HIDE DEF s, f
<1>5. s.operators \in [DOMAIN s.operators -> Operators]
  BY <1>1, <1>3
<1>6. s.dtypes = [n \in DOMAIN s.dtypes |-> s.dtypes[n]]
      /\ s.kernels = [n \in DOMAIN s.kernels |-> s.kernels[n]]
  BY <1>2, <1>3
<1> QED
  BY <1>3, <1>4, <1>5, <1>6 DEF IsSelection, s

\* The merge of the first m models, for each m.
Step(f, models, i) == IF i = 1 THEN models[1] ELSE CombineSelections(f[i - 1], models[i])
Merging(f, models, m) == f = [i \in 1..m |-> Step(f, models, i)]

LEMMA MergingExists ==
    ASSUME NEW models, NEW n \in Nat
    PROVE  \E f : Merging(f, models, n)
<1> DEFINE S == {m \in Nat : \E f : Merging(f, models, m)}
<1>1. 0 \in S
  <2>1. Merging([i \in 1..0 |-> i], models, 0)
    BY DEF Merging
  <2> QED
    BY <2>1
<1>2. ASSUME NEW m \in Nat, m \in S PROVE m + 1 \in S
  <2>1. PICK f : Merging(f, models, m)
    BY <1>2
  <2> DEFINE g == [i \in 1..(m + 1) |-> Step(f, models, i)]
  <2>2. \A i \in 1..m : g[i] = f[i]
    BY <2>1 DEF Merging
  <2>3. \A i \in 1..(m + 1) : Step(g, models, i) = Step(f, models, i)
    <3> HIDE DEF g
    <3> SUFFICES ASSUME NEW i \in 1..(m + 1) PROVE Step(g, models, i) = Step(f, models, i)
      OBVIOUS
    <3>1. i # 1 => i - 1 \in 1..m
      OBVIOUS
    <3>2. i # 1 => g[i - 1] = f[i - 1]
      BY <2>2, <3>1
    <3> QED
      BY <3>2 DEF Step
  <2>4. Merging(g, models, m + 1)
    BY <2>3 DEF Merging
  <2> QED
    BY <2>4
<1> HIDE DEF S
<1>3. n \in S
  BY <1>1, <1>2, Induction
<1> QED
  BY <1>3 DEF S

\* MergeSelects for a build of any number of models: whatever their order, an operator is
\* in the build exactly when one of them selects it.  (combine_selective_builders)
THEOREM BuildSelects ==
    ASSUME NEW models, NEW n, Len(models) \in Nat \ {0},
           \A i \in 1..Len(models) : IsSelection(models[i])
    PROVE  /\ IsSelection(MergeAll(models))
           /\ IsOperatorSelected(MergeAll(models), n)
                <=> \E i \in 1..Len(models) : IsOperatorSelected(models[i], n)
<1> DEFINE f == CHOOSE f : Merging(f, models, Len(models))
<1>1. MergeAll(models) = f[Len(models)]
  BY DEF MergeAll, Merging, Step
<1>2. Merging(f, models, Len(models))
  BY MergingExists
<1> HIDE DEF f
<1> DEFINE Selects(m) == /\ IsSelection(f[m])
                         /\ IsOperatorSelected(f[m], n)
                              <=> \E i \in 1..m : IsOperatorSelected(models[i], n)
           S == {m \in Nat : m \in 1..Len(models) => Selects(m)}
<1>3. 0 \in S
  OBVIOUS
<1>4. ASSUME NEW m \in Nat, m \in S PROVE m + 1 \in S
  <2> SUFFICES ASSUME m + 1 \in 1..Len(models) PROVE Selects(m + 1)
    OBVIOUS
  <2>1. f[m + 1] = IF m = 0 THEN models[m + 1] ELSE CombineSelections(f[m], models[m + 1])
    <3>1. (m + 1) - 1 = m /\ (m + 1 = 1 <=> m = 0)
      OBVIOUS
    <3>2. f[m + 1] = Step(f, models, m + 1)
      BY <1>2 DEF Merging
    <3> QED
      BY <3>1, <3>2 DEF Step
  <2>2. 1..(m + 1) = (1..m) \cup {m + 1} /\ IsSelection(models[m + 1])
    OBVIOUS
  <2>3. CASE m = 0
    BY <2>1, <2>2, <2>3
  <2>4. CASE m # 0
    <3>1. Selects(m)
      BY <1>4, <2>4
    <3>2. /\ IsSelection(f[m + 1])
          /\ IsOperatorSelected(f[m + 1], n)
               <=> IsOperatorSelected(f[m], n) \/ IsOperatorSelected(models[m + 1], n)
      BY <2>1, <2>2, <2>4, <3>1, MergedIsSelection, MergeSelects
    <3> QED
      BY <2>2, <3>1, <3>2
  <2> QED
    BY <2>3, <2>4
<1> HIDE DEF S
<1>5. \A m \in Nat : m \in S
  BY <1>3, <1>4, Induction
<1>6. Selects(Len(models))
  BY <1>5 DEF S
<1> QED
  BY <1>1, <1>6

\* The order in which two models are merged makes no difference.
THEOREM MergeCommutes ==
    ASSUME NEW s1, NEW s2, IsSelection(s1), IsSelection(s2)
    PROVE  CombineSelections(s1, s2) = CombineSelections(s2, s1)
<1>1. MergeOperators(s1.operators, s2.operators) = MergeOperators(s2.operators, s1.operators)
  BY CombinedCommute DEF MergeOperators, IsSelection
<1>2. /\ MergeSets(s1.dtypes, s2.dtypes) = MergeSets(s2.dtypes, s1.dtypes)
      /\ MergeSets(s1.kernels, s2.kernels) = MergeSets(s2.kernels, s1.kernels)
  BY DEF MergeSets
<1>3. (s1.all \/ s2.all) = (s2.all \/ s1.all) /\ (s1.nonop \/ s2.nonop) = (s2.nonop \/ s1.nonop)
  BY DEF IsSelection
<1>4. s1.classes \cup s2.classes = s2.classes \cup s1.classes
      /\ s1.features \cup s2.features = s2.features \cup s1.features
  OBVIOUS
<1> QED
  BY <1>1, <1>2, <1>3, <1>4 DEF CombineSelections, Selection

\* Nor does the grouping of three: the build may merge its models pairwise in any way.
THEOREM MergeAssociates ==
    ASSUME NEW s1, NEW s2, NEW s3, IsSelection(s1), IsSelection(s2), IsSelection(s3)
    PROVE  CombineSelections(CombineSelections(s1, s2), s3)
             = CombineSelections(s1, CombineSelections(s2, s3))
<1> DEFINE f1 == s1.operators
           f2 == s2.operators
           f3 == s3.operators
<1>1. MergeOperators(MergeOperators(f1, f2), f3) = MergeOperators(f1, MergeOperators(f2, f3))
  <2>1. /\ \A n \in DOMAIN f1 : f1[n] \in Operators
        /\ \A n \in DOMAIN f2 : f2[n] \in Operators
        /\ \A n \in DOMAIN f3 : f3[n] \in Operators
    BY DEF IsSelection
  <2> HIDE DEF f1, f2, f3
  <2> QED
    BY <2>1, CombinedCommute DEF MergeOperators
<1>2. /\ MergeSets(MergeSets(s1.dtypes, s2.dtypes), s3.dtypes)
           = MergeSets(s1.dtypes, MergeSets(s2.dtypes, s3.dtypes))
      /\ MergeSets(MergeSets(s1.kernels, s2.kernels), s3.kernels)
           = MergeSets(s1.kernels, MergeSets(s2.kernels, s3.kernels))
  BY DEF MergeSets
<1> QED
  BY <1>1, <1>2 DEF CombineSelections, Selection

-----------------------------------------------------------------------------
(* Files of an install directory *)

Accepted == run.input \in DOMAIN Plans /\ Plans[run.input].accepted
Planned == Plans[run.input].writes

(* What a run has done so far: no assertion stopped it, it lists the files  *)
(* of its listed writes, and a real run has left at each file it passed the *)
(* text its input gives.                                                    *)
PassedSoFar == \A n \in 1..run.at : Planned[n].file \notin Plans[run.input].stops[run.dry]
WrittenSoFar ==
  /\ Accepted /\ run.at \in 0..Len(Planned)
  /\ PassedSoFar
  /\ listed = {Planned[n].file : n \in {n \in 1..run.at : Planned[n].listed}}
  /\ ~run.dry => \A n \in 1..run.at : Holds(disk, Planned[n].file, run.input, Plans)
FilesInv ==
  /\ run = [input |-> run.input, dry |-> run.dry, at |-> run.at,
            outcome |-> run.outcome, runs |-> run.runs]
  /\ run.dry \in BOOLEAN
  /\ run.outcome \in {"running", "done"} => WrittenSoFar
  /\ run.outcome = "done" => run.at = Len(Planned) /\ outputs = listed

(* Putting a file on the disk leaves the others, and writing one puts its   *)
(* text there.                                                              *)
LEMMA WritingHolds ==
  ASSUME NEW d, NEW file, NEW i \in DOMAIN Plans
  PROVE  /\ Holds(OnDisk(d, file, i), file, i, Plans)
         /\ \A f : Holds(d, f, i, Plans) => Holds(OnDisk(d, file, i), f, i, Plans)
<1>1. i # Torn
  BY PlansAssumption DEF PlansAssumption, Torn
<1> QED
  BY <1>1 DEF Holds, OnDisk

LEMMA FilesStep == ASSUME FilesInv, [Next]_vars PROVE FilesInv'
<1> USE PlansAssumption
<1>1. ASSUME NEW i \in DOMAIN Plans, NEW dry \in BOOLEAN, Start(i, dry, Plans)
      PROVE  FilesInv'
  <2>1. run' = [input |-> i, dry |-> dry, at |-> 0, runs |-> run.runs + 1,
                outcome |-> IF Plans[i].accepted THEN "running" ELSE "failed"]
        /\ listed' = {}
    BY <1>1 DEF Start
  <2>2. run'.outcome = "running" => Plans[i].accepted /\ Len(Plans[i].writes) \in Nat
    BY <2>1 DEF PlansAssumption
  <2>3. run'.input = i /\ run'.at = 0 /\ run'.outcome # "done" /\ 1..0 = {}
    BY <2>1
  <2> QED
    BY <2>1, <2>2, <2>3 DEF FilesInv, WrittenSoFar, PassedSoFar, Accepted, Planned
<1>2. CASE WriteFile(Plans)
  <2> DEFINE w == Planned[run.at + 1]
  <2>1. /\ run.outcome = "running" /\ WrittenSoFar /\ run.at < Len(Planned)
        /\ run' = [run EXCEPT !.at = @ + 1] /\ w = NextWrite(Plans)
    BY <1>2 DEF WriteFile, Writing, FilesInv, Planned, NextWrite
  <2>2. /\ run'.input = run.input /\ run'.dry = run.dry /\ run'.at = run.at + 1
        /\ run'.outcome = "running" /\ run'.runs = run.runs
        /\ run' = [input |-> run'.input, dry |-> run'.dry, at |-> run'.at,
                   outcome |-> run'.outcome, runs |-> run'.runs]
    BY <2>1 DEF FilesInv
  <2>3. Accepted' /\ UNCHANGED Planned /\ Len(Planned) \in Nat
    BY <2>1, <2>2 DEF WrittenSoFar, Accepted, Planned, PlansAssumption
  <2>4. run'.at \in 0..Len(Planned) /\ 1..run'.at = (1..run.at) \cup {run.at + 1}
    BY <2>1, <2>2, <2>3 DEF WrittenSoFar
  <2>5. listed' = {Planned[n].file : n \in {n \in 1..run'.at : Planned[n].listed}}
    <3>1. listed' = IF w.listed THEN listed \cup {w.file} ELSE listed
      BY <1>2, <2>1 DEF WriteFile
    <3>2. listed = {Planned[n].file : n \in {n \in 1..run.at : Planned[n].listed}}
      BY <2>1 DEF WrittenSoFar
    <3>3. CASE w.listed
      <4>1. {n \in 1..run'.at : Planned[n].listed}
              = {n \in 1..run.at : Planned[n].listed} \cup {run.at + 1}
        BY <2>4, <3>3
      <4> QED
        BY <3>1, <3>2, <3>3, <4>1
    <3>4. CASE ~w.listed
      <4>1. {n \in 1..run'.at : Planned[n].listed} = {n \in 1..run.at : Planned[n].listed}
        BY <2>4, <3>4
      <4> QED
        BY <3>1, <3>2, <3>4, <4>1
    <3> QED
      BY <3>3, <3>4
  <2>6. ASSUME ~run.dry, NEW n \in 1..run'.at
        PROVE  Holds(disk', Planned[n].file, run.input, Plans)
    <3>1. disk' = IF Holds(disk, w.file, run.input, Plans) THEN disk
                  ELSE OnDisk(disk, w.file, run.input)
      BY <1>2, <2>1, <2>6 DEF WriteFile
    <3>2. run.input \in DOMAIN Plans
      BY <2>1 DEF WrittenSoFar, Accepted
    <3>3. CASE n = run.at + 1
      BY <3>1, <3>2, <3>3, WritingHolds
    <3>4. CASE n \in 1..run.at
      <4>1. Holds(disk, Planned[n].file, run.input, Plans)
        BY <2>1, <2>6, <3>4 DEF WrittenSoFar
      <4> QED
        BY <3>1, <3>2, <4>1, WritingHolds
    <3> QED
      BY <2>4, <3>3, <3>4
  <2>7. PassedSoFar'
    <3>1. w.file \notin Plans[run.input].stops[run.dry]
      BY <1>2, <2>1 DEF WriteFile, Stops
    <3>2. PassedSoFar
      BY <2>1 DEF WrittenSoFar
    <3> QED
      BY <2>2, <2>3, <2>4, <3>1, <3>2 DEF PassedSoFar
  <2> HIDE DEF w
  <2>8. WrittenSoFar'
    BY <2>2, <2>3, <2>4, <2>5, <2>6, <2>7 DEF WrittenSoFar
  <2> QED
    BY <2>2, <2>8 DEF FilesInv
<1>3. ASSUME \/ DuplicateFile(Plans) \/ TextFails(Plans) \/ Kill \/ KillTearing(Plans)
      PROVE  FilesInv'
  <2>1. \E o \in {"failed", "killed"} : run' = [run EXCEPT !.outcome = o]
    BY <1>3 DEF DuplicateFile, TextFails, Kill, KillTearing
  <2> QED
    BY <2>1 DEF FilesInv
<1>4. CASE Finish(Plans)
  <2>1. /\ run.outcome = "running" /\ WrittenSoFar /\ ~(run.at < Len(Planned))
        /\ run' = [run EXCEPT !.outcome = "done"]
        /\ outputs' = listed /\ UNCHANGED <<disk, listed>>
    BY <1>4 DEF Finish, Writing, FilesInv, Planned
  <2>2. Len(Planned) \in Nat /\ run.at = Len(Planned)
    BY <2>1 DEF WrittenSoFar, Accepted, Planned, PlansAssumption
  <2>3. /\ run'.input = run.input /\ run'.dry = run.dry /\ run'.at = run.at
        /\ run' = [input |-> run'.input, dry |-> run'.dry, at |-> run'.at,
                   outcome |-> run'.outcome, runs |-> run'.runs]
    BY <2>1 DEF FilesInv
  <2>4. WrittenSoFar'
    <3>1. UNCHANGED Planned /\ Accepted'
      BY <2>1, <2>3 DEF WrittenSoFar, Accepted, Planned
    <3> QED
      BY <2>1, <2>3, <3>1 DEF WrittenSoFar, PassedSoFar
  <2> QED
    BY <2>1, <2>2, <2>3, <2>4 DEF FilesInv, Planned
<1>5. CASE UNCHANGED vars
  <2>1. UNCHANGED <<run, disk, listed, outputs, Accepted, Planned>>
    BY <1>5 DEF vars, Accepted, Planned
  <2>2. UNCHANGED WrittenSoFar
    BY <2>1 DEF WrittenSoFar, PassedSoFar
  <2> QED
    BY <2>1, <2>2 DEF FilesInv
<1> QED
  BY <1>1, <1>2, <1>3, <1>4, <1>5 DEF Next, RunStep

(* A run that ends lists what its input says, and a real one leaves each    *)
(* listed file with the text of its input.                                  *)
LEMMA FilesInvCurrent == FilesInv => CompleteRunIsCurrent
<1> SUFFICES ASSUME FilesInv, run.outcome = "done"
             PROVE  /\ outputs = Plans[run.input].listed
                    /\ ~run.dry => \A f \in outputs : Holds(disk, f, run.input, Plans)
  BY DEF CompleteRunIsCurrent, Current, Holds
<1>1. WrittenSoFar /\ run.at = Len(Planned) /\ outputs = listed
  BY DEF FilesInv
<1>2. outputs = Plans[run.input].listed
  BY <1>1, PlansAssumption DEF PlansAssumption, WrittenSoFar, Accepted, Planned
<1>3. ASSUME ~run.dry, NEW f \in outputs PROVE Holds(disk, f, run.input, Plans)
  BY <1>1, <1>3 DEF WrittenSoFar
<1> QED
  BY <1>2, <1>3

(* Whatever earlier runs left on the disk, complete, stopped at a text, dry *)
(* or killed over a file, a run that ends lists what its input says, and a  *)
(* real one leaves each listed file with the text of its input              *)
(* (FileManager.write_with_template, _write_if_changed, write_outputs).     *)
THEOREM FilesCorrect == Spec => []CompleteRunIsCurrent
<1>1. Init => FilesInv
  BY DEF Init, FilesInv
<1> QED
  BY <1>1, FilesInvCurrent, FilesStep, PTL DEF Spec

-----------------------------------------------------------------------------
(* Structured kernels *)

\* The wrappers there are: a default implementation is never generated for out (gen_one).
Wrapper(kind, key) == kind = "out" => key # CompositeKey

Given(kind, outs) == IF kind = "functional" THEN {<<>>} ELSE [1..outs -> Tensors]

\* One call after another, of any wrapper.
Begin == \E kind \in KernelKinds, key \in DispatchKeys, outs \in Nat, iterator \in BOOLEAN :
           /\ Wrapper(kind, key)
           /\ \E tensors \in Given(kind, outs) : BeginCall(kind, key, outs, iterator, tensors)
Again == call.stage \in {"returned", "failed"} /\ call' = CallNothing
CallSpec == CallInit /\ [][Begin \/ CallStep \/ Again]_call
-----------------------------------------------------------------------------
Held == [size : TensorSizes, strides : TensorStrides, type : TensorTypes,
         device : Devices, holds : Nat]
Stages == {"idle", "meta", "impl", "copy", "returned", "failed"}
Calls == [stage : Stages, kind : KernelKinds \cup {""}, key : DispatchKeys \cup {""},
          iterator : BOOLEAN, at : Nat, given : Seq(Held), outputs : Seq(Held), proxies : Seq(Seq(Held)),
          asked : Seq(Requests), guard : SUBSET Devices]

Types == /\ call \in Calls
         /\ \A i \in Outs : HasProxy(i) => 1 \in DOMAIN call.proxies[i]
         /\ call.stage # "idle" => call.kind \in KernelKinds /\ Wrapper(call.kind, call.key)

Callers == call.kind \in {"inplace", "out"}
Busy == call.stage \in {"meta", "impl", "copy", "returned"}

\* How long the sequences are while a call goes on.
Lengths ==
    /\ call.stage = "idle" => call.proxies = <<>>
    /\ Callers => /\ DOMAIN call.outputs = Outs
                  /\ DOMAIN call.given = Outs
    /\ call.stage = "meta" => /\ call.at <= Len(call.proxies)
                              /\ DOMAIN call.asked = 1..call.at
                              /\ ~Callers => DOMAIN call.outputs = 1..call.at
    /\ Busy /\ call.stage # "meta" => DOMAIN call.outputs = Outs /\ DOMAIN call.asked = Outs

\* The outputs the meta function has asked for.
Asked == IF call.stage = "meta" THEN 1..call.at ELSE Outs

\* What is asked for is there, in the output or in the proxy that stands in for it.
Fits(t, q) == t.size = q.size /\ t.type = q.type /\ t.device = q.device
Provided(i) ==
    LET q == call.asked[i]
    IN  /\ Fits(call.outputs[i], q)
        /\ HasProxy(i) => /\ Fits(call.proxies[i][1], q)
                          /\ call.proxies[i][1].strides = q.strides
                          /\ call.kind # "functional"
        /\ q.exact /\ ~HasProxy(i) => call.outputs[i].strides = q.strides
        /\ SetsGuard => call.guard = {q.device}

\* A tensor of the caller: as it was given before the meta function asked for it.
Kept(i) ==
    LET now == call.outputs[i]
        was == call.given[i]
    IN  /\ now.type = was.type /\ now.device = was.device
        /\ now.size = was.size => now.strides = was.strides

\* Nothing happens to a tensor before the meta function asks for it.
Waiting == call.stage = "meta" /\ Callers =>
             \A i \in Outs : i > call.at => call.outputs[i] = call.given[i]

\* Where the result of an output is.
Computed(i) == IF WritesProxy(i) THEN call.proxies[i][1].holds = i
                                 ELSE call.outputs[i].holds = i
Delivered(i) == Bypassed(i) \/ call.outputs[i].holds = i

Results ==
    /\ call.stage = "impl" => \A i \in Outs : i <= call.at => Computed(i)
    /\ call.stage = "copy" /\ call.key # "Meta" =>
         \A i \in Outs : IF i <= call.at THEN Delivered(i) ELSE Computed(i)
    /\ call.stage = "returned" /\ call.key # "Meta" => \A i \in Outs : Delivered(i)

IInv == /\ Types
        /\ Lengths
        /\ Busy => \A i \in Asked : Provided(i)
        /\ Callers => \A i \in Outs : Kept(i)
        /\ Waiting
        /\ Results
-----------------------------------------------------------------------------
LEMMA Begins == ASSUME IInv, Begin
                PROVE  IInv'
<1>1. PICK kind \in KernelKinds, key \in DispatchKeys, outs \in Nat, iterator \in BOOLEAN :
             /\ Wrapper(kind, key)
             /\ \E tensors \in Given(kind, outs) : BeginCall(kind, key, outs, iterator, tensors)
  BY DEF Begin
<1>2. PICK tensors \in Given(kind, outs) : BeginCall(kind, key, outs, iterator, tensors)
  BY <1>1
<1> DEFINE none == [i \in 1..outs |-> <<>>]
<1>3. call' = [stage |-> "meta", kind |-> kind, key |-> key, iterator |-> iterator,
               at |-> 0, given |-> tensors, outputs |-> tensors, proxies |-> none,
               asked |-> <<>>, guard |-> {}]
  BY <1>2 DEF BeginCall, CallNothing
<1>4. tensors \in Seq(Held) /\ (kind # "functional" => DOMAIN tensors = 1..outs)
      /\ (kind = "functional" => tensors = <<>>)
  <2>1. CASE kind = "functional"
    BY <2>1 DEF Given
  <2>2. CASE kind # "functional"
    <3>1. tensors \in [1..outs -> Held]
      BY <2>2 DEF Given, Tensors, Held, Before
    <3> QED
      BY <2>2, <3>1
  <2> QED
    BY <2>1, <2>2
<1>5. none \in Seq(Seq(Held)) /\ DOMAIN none = 1..outs /\ Len(none) = outs
  <2>1. <<>> \in Seq(Held)
    OBVIOUS
  <2> QED
    BY <2>1
<1> HIDE DEF none
<1>6. Types'
  <2>1. call' \in Calls
    <3>1. <<>> \in Seq(Requests)
      OBVIOUS
    <3>2. /\ "meta" \in Stages /\ kind \in KernelKinds \cup {""} /\ key \in DispatchKeys \cup {""}
          /\ {} \in SUBSET Devices /\ 0 \in Nat
      BY DEF Stages
    <3> QED
      BY <1>3, <1>4, <1>5, <3>1, <3>2 DEF Calls
  <2>2. \A i \in 1..outs : none[i] = <<>>
    BY DEF none
  <2> QED
    BY <1>1, <1>3, <1>5, <2>1, <2>2 DEF Types, Outs, HasProxy
<1>7. Lengths'
  BY <1>3, <1>4, <1>5 DEF Lengths, Callers, Outs, Busy, KernelKinds
<1>8. (Callers => \A i \in Outs : Kept(i))'
  BY <1>3 DEF Callers, Kept
<1>9. (\A i \in Asked : Provided(i))'
  BY <1>3 DEF Asked
<1>10. Results' /\ Waiting'
  BY <1>3 DEF Results, Waiting
<1> QED
  BY <1>6, <1>7, <1>8, <1>9, <1>10 DEF IInv

\* The call after its fields were assigned.
LEMMA Fields ==
  ASSUME call \in Calls
  PROVE  /\ call.stage \in Stages /\ call.kind \in KernelKinds \cup {""}
         /\ call.at \in Nat /\ call.given \in Seq(Held) /\ call.outputs \in Seq(Held)
         /\ call.proxies \in Seq(Seq(Held)) /\ call.asked \in Seq(Requests)
         /\ call.guard \in SUBSET Devices
         /\ Outs = 1..Len(call.proxies)
<1>1. call.proxies \in Seq(Seq(Held))
  BY DEF Calls
<1>2. Outs = 1..Len(call.proxies)
  BY <1>1 DEF Outs
<1> QED
  BY <1>1, <1>2 DEF Calls

\* What one output becomes, and the proxy that stands in for it.
LEMMA OneOutput ==
  ASSUME NEW q \in Requests, NEW i \in Nat, Accepts(q, i), call.kind \in KernelKinds,
         call.kind # "functional" => /\ call.outputs[i] \in Held
                                     /\ call.outputs[i] = call.given[i]
  PROVE  LET t == OutputFor(q, i)
             px == IF call.kind = "functional" THEN <<>> ELSE MaybeCreateProxy(t, q)
         IN  /\ t \in Held /\ Fits(t, q)
             /\ px \in Seq(Held)
             /\ px # <<>> => /\ 1 \in DOMAIN px /\ Fits(px[1], q) /\ px[1].strides = q.strides
                            /\ call.kind # "functional"
             /\ q.exact /\ px = <<>> => t.strides = q.strides
             /\ call.kind # "functional" =>
                  /\ t.type = call.given[i].type /\ t.device = call.given[i].device
                  /\ t.size = call.given[i].size => t.strides = call.given[i].strides
<1> DEFINE n == NewTensor(q)
           t == OutputFor(q, i)
           px == IF call.kind = "functional" THEN <<>> ELSE MaybeCreateProxy(t, q)
<1>1. n \in Held /\ Fits(n, q) /\ n.strides = q.strides
  BY DEF NewTensor, Held, Requests, Fits, Unset
<1>2. /\ t \in Held /\ Fits(t, q)
      /\ call.kind = "functional" => t.strides = q.strides
      /\ call.kind # "functional" =>
           /\ t.type = call.given[i].type /\ t.device = call.given[i].device
           /\ t.size = call.given[i].size => t.strides = call.given[i].strides
  <2>1. CASE call.kind = "functional"
    BY <1>1, <2>1 DEF OutputFor
  <2>2. CASE call.kind = "inplace"
    BY <2>2 DEF OutputFor, Accepts, CheckInplace, Fits
  <2>3. CASE call.kind = "out"
    <3> DEFINE o == call.outputs[i]
               r == [o EXCEPT !.size = q.size, !.strides = q.strides, !.holds = Unset]
    <3>1. o \in Held /\ o.type = q.type /\ o.device = q.device
          /\ o = call.given[i]
      BY <2>3 DEF Accepts, CheckOut
    <3>2. t = IF o.size = q.size THEN o ELSE r
      BY <2>3 DEF OutputFor, ResizeOut
    <3>3. /\ r \in Held /\ r.type = o.type /\ r.device = o.device
          /\ r.size = q.size /\ r.strides = q.strides
      BY <3>1 DEF Held, Requests, Unset
    <3>4. CASE o.size = q.size
      BY <2>3, <3>1, <3>2, <3>4 DEF Fits
    <3>5. CASE o.size # q.size
      BY <2>3, <3>1, <3>2, <3>3, <3>5 DEF Fits
    <3> QED
      BY <3>4, <3>5
  <2> QED
    BY <2>1, <2>2, <2>3 DEF KernelKinds
<1>3. px \in Seq(Held) /\ (px # <<>> => px = <<n>> /\ call.kind # "functional")
      /\ (q.exact /\ px = <<>> => t.strides = q.strides)
  BY <1>1, <1>2 DEF MaybeCreateProxy
<1> QED
  BY <1>1, <1>2, <1>3

LEMMA Replaced ==
  ASSUME NEW S, NEW s \in Seq(S), NEW i \in DOMAIN s, NEW x \in S,
         NEW r, r = [s EXCEPT ![i] = x]
  PROVE  /\ r \in Seq(S) /\ DOMAIN r = DOMAIN s /\ Len(r) = Len(s) /\ r[i] = x
         /\ \A j \in DOMAIN s : j # i => r[j] = s[j]
OBVIOUS

LEMMA SetsOutput == ASSUME IInv, NEW q \in Requests, SetOutput(q)
                    PROVE  IInv'
<1>0. /\ call \in Calls /\ call.stage = "meta" /\ call.kind \in KernelKinds /\ call.at \in Nat
  BY Fields DEF IInv, Types, SetOutput
<1> PICK i \in Nat : i = call.at + 1
  BY <1>0
<1> DEFINE t == OutputFor(q, i)
           px == IF call.kind = "functional" THEN <<>> ELSE MaybeCreateProxy(t, q)
           ts == IF call.kind = "functional" THEN Append(call.outputs, t)
                 ELSE [call.outputs EXCEPT ![i] = t]
           pxs == [call.proxies EXCEPT ![i] = px]
           qs == Append(call.asked, q)
           gd == IF SetsGuard THEN {q.device} ELSE call.guard
<1>1. /\ call \in Calls /\ call.stage = "meta" /\ i \in Outs /\ Accepts(q, i)
      /\ call' = [call EXCEPT !.at = i, !.asked = qs, !.outputs = ts, !.proxies = pxs,
                              !.guard = gd]
  BY <1>0 DEF SetOutput
<1>2. /\ call.kind \in KernelKinds /\ call.at \in Nat /\ i \in Nat
      /\ call.outputs \in Seq(Held) /\ call.given \in Seq(Held)
      /\ call.proxies \in Seq(Seq(Held)) /\ call.asked \in Seq(Requests)
      /\ Outs = 1..Len(call.proxies)
  BY <1>0, Fields
<1>3. Callers <=> call.kind # "functional"
  BY <1>2 DEF Callers, KernelKinds
<1>4. /\ i <= Len(call.proxies)
      /\ DOMAIN call.asked = 1..call.at
      /\ Callers => DOMAIN call.outputs = Outs /\ DOMAIN call.given = Outs
      /\ ~Callers => DOMAIN call.outputs = 1..call.at
  BY <1>1, <1>2 DEF IInv, Lengths
<1>5. call.kind # "functional" => /\ call.outputs[i] \in Held
                                  /\ call.outputs[i] = call.given[i]
  <2>1. Callers => i \in DOMAIN call.outputs /\ call.outputs[i] = call.given[i]
    <3>1. i > call.at
      BY <1>2
    <3>2. Callers => call.outputs[i] = call.given[i]
      BY <1>1, <3>1 DEF IInv, Waiting
    <3> QED
      BY <1>1, <1>4, <3>2
  <2> QED
    BY <1>2, <1>3, <2>1
<1>6. /\ t \in Held /\ Fits(t, q)
      /\ px \in Seq(Held)
      /\ px # <<>> => /\ 1 \in DOMAIN px /\ Fits(px[1], q) /\ px[1].strides = q.strides
                     /\ call.kind # "functional"
      /\ q.exact /\ px = <<>> => t.strides = q.strides
      /\ call.kind # "functional" =>
           /\ t.type = call.given[i].type /\ t.device = call.given[i].device
           /\ t.size = call.given[i].size => t.strides = call.given[i].strides
  BY <1>1, <1>2, <1>5, OneOutput
<1> HIDE DEF t, px
<1>7. /\ ts \in Seq(Held) /\ ts[i] = t
      /\ \A j \in 1..call.at : ts[j] = call.outputs[j]
      /\ Callers => /\ DOMAIN ts = Outs
                    /\ \A j \in Outs : j # i => ts[j] = call.outputs[j]
      /\ ~Callers => DOMAIN ts = 1..i
  <2>1. CASE call.kind = "functional"
    <3>1. Len(call.outputs) = call.at
      BY <1>2, <1>3, <1>4, <2>1
    <3> QED
      BY <1>2, <1>3, <1>6, <2>1, <3>1
  <2>2. CASE call.kind # "functional"
    <3>1. ts = [call.outputs EXCEPT ![i] = t] /\ DOMAIN call.outputs = Outs /\ i \in Outs
      BY <1>1, <1>3, <1>4, <2>2
    <3> HIDE DEF ts
    <3>2. /\ ts \in Seq(Held) /\ ts[i] = t /\ DOMAIN ts = Outs
          /\ \A j \in Outs : j # i => ts[j] = call.outputs[j]
      BY <1>2, <1>6, <3>1, Replaced
    <3>3. \A j \in 1..call.at : j \in Outs /\ j # i
      BY <1>1, <1>2
    <3> QED
      BY <1>3, <2>2, <3>2, <3>3
  <2> QED
    BY <2>1, <2>2
<1>8. /\ pxs \in Seq(Seq(Held)) /\ pxs[i] = px /\ DOMAIN pxs = Outs
      /\ Len(pxs) = Len(call.proxies)
      /\ \A j \in Outs : j # i => pxs[j] = call.proxies[j]
  BY <1>1, <1>2, <1>6 DEF Outs
<1>9. /\ qs \in Seq(Requests) /\ qs[i] = q /\ DOMAIN qs = 1..i
      /\ \A j \in 1..call.at : qs[j] = call.asked[j]
  <2>1. Len(call.asked) = call.at
    BY <1>2, <1>4
  <2> QED
    BY <1>2, <2>1
<1>10. gd \in SUBSET Devices
  BY <1>1, Fields DEF Requests
<1> HIDE DEF ts, pxs, qs, gd
<1>11. /\ call' \in Calls
       /\ call'.stage = "meta" /\ call'.kind = call.kind /\ call'.key = call.key
       /\ call'.at = i /\ call'.given = call.given /\ call'.outputs = ts
       /\ call'.proxies = pxs /\ call'.asked = qs /\ call'.guard = gd
       /\ call'.iterator = call.iterator
  BY <1>1, <1>2, <1>7, <1>8, <1>9, <1>10 DEF Calls
<1>12. Outs' = Outs /\ (Callers' <=> Callers) /\ (SetsGuard' <=> SetsGuard)
  BY <1>8, <1>11 DEF Outs, Callers, SetsGuard
<1>13. Types'
  <2>1. \A j \in Outs : pxs[j] # <<>> => 1 \in DOMAIN pxs[j]
    BY <1>6, <1>8 DEF IInv, Types, HasProxy
  <2>2. Wrapper(call.kind, call.key)
    BY <1>1 DEF IInv, Types
  <2> QED
    BY <1>2, <1>11, <1>12, <2>1, <2>2 DEF Types, HasProxy
<1>14. Lengths'
  BY <1>4, <1>7, <1>8, <1>9, <1>11, <1>12 DEF Lengths, Busy
<1>15. (\A j \in Asked : Provided(j))'
  <2>1. ASSUME NEW j \in 1..call.at
        PROVE  Provided(j)'
    <3>1. Provided(j) /\ j \in Outs /\ j # i
      BY <1>1, <1>2, <1>4, <2>1 DEF IInv, Busy, Asked
    <3>2. SetsGuard => gd = {call.asked[j].device}
      BY <1>1, <3>1 DEF Provided, Accepts, GuardOK, gd
    <3> QED
      BY <1>7, <1>8, <1>9, <1>11, <1>12, <2>1, <3>1, <3>2 DEF Provided, HasProxy, Fits
  <2>2. Provided(i)'
    <3>1. SetsGuard => gd = {q.device}
      BY DEF gd
    <3> QED
      BY <1>6, <1>7, <1>8, <1>9, <1>11, <1>12, <3>1 DEF Provided, HasProxy, Fits
  <2>3. \A j \in Asked' : j \in 1..call.at \/ j = i
    BY <1>2, <1>11 DEF Asked
  <2> QED
    BY <2>1, <2>2, <2>3
<1>16. (Callers => \A j \in Outs : Kept(j))'
  <2> SUFFICES ASSUME Callers, NEW j \in Outs PROVE Kept(j)'
    BY <1>12
  <2>1. CASE j = i
    BY <1>3, <1>6, <1>7, <1>11, <2>1 DEF Kept
  <2>2. CASE j # i
    <3>1. Kept(j)
      BY DEF IInv
    <3> QED
      BY <1>7, <1>11, <2>2, <3>1 DEF Kept
  <2> QED
    BY <2>1, <2>2
<1>17. Waiting'
  <2> SUFFICES ASSUME Callers, NEW j \in Outs, j > i PROVE ts[j] = call.given[j]
    BY <1>11, <1>12 DEF Waiting
  <2>1. j > call.at /\ j # i
    BY <1>2
  <2> QED
    BY <1>1, <1>7, <2>1 DEF IInv, Waiting
<1>18. Results'
  BY <1>11 DEF Results
<1> QED
  BY <1>13, <1>14, <1>15, <1>16, <1>17, <1>18 DEF IInv
-----------------------------------------------------------------------------
(* The other steps change the stage, the position and what tensors hold.   *)

SameShape(t, u) == /\ t.size = u.size /\ t.strides = u.strides
                   /\ t.type = u.type /\ t.device = u.device
SameTensors ==
    /\ call'.kind = call.kind /\ call'.key = call.key /\ call'.iterator = call.iterator
    /\ call'.given = call.given /\ call'.asked = call.asked /\ call'.guard = call.guard
    /\ DOMAIN call'.outputs = DOMAIN call.outputs
    /\ DOMAIN call'.proxies = DOMAIN call.proxies
    /\ Len(call'.proxies) = Len(call.proxies)
    /\ \A i \in DOMAIN call.outputs : SameShape(call'.outputs[i], call.outputs[i])
    /\ \A i \in Outs : /\ call'.proxies[i] # <<>> <=> call.proxies[i] # <<>>
                       /\ HasProxy(i) => /\ 1 \in DOMAIN call'.proxies[i]
                                         /\ SameShape(call'.proxies[i][1], call.proxies[i][1])

\* The call goes on, to the next output or the next stage.
GoesOn == /\ call.stage \in {"meta", "impl", "copy"}
          /\ call'.stage \in {"impl", "copy", "returned", "failed"}
          /\ call'.stage # "failed" /\ call.stage = "meta" => call.at = Len(call.proxies)

LEMMA Continues ==
  ASSUME IInv, call' \in Calls, SameTensors, GoesOn, Results'
  PROVE  IInv'
<1>1. call \in Calls /\ Outs = 1..Len(call.proxies)
  BY Fields DEF IInv, Types
<1>2. /\ Outs' = Outs /\ (Callers' <=> Callers) /\ (SetsGuard' <=> SetsGuard)
      /\ \A i \in Outs : HasProxy(i)' <=> HasProxy(i)
  BY DEF SameTensors, Outs, Callers, SetsGuard, HasProxy
<1>3. Busy /\ call.stage # "idle" /\ call'.stage # "idle" /\ call'.stage # "meta"
  BY DEF GoesOn, Busy
<1>4. Types'
  <2>1. \A i \in Outs : HasProxy(i)' => 1 \in DOMAIN call'.proxies[i]
    BY <1>2 DEF SameTensors
  <2>2. call.kind \in KernelKinds /\ Wrapper(call.kind, call.key)
    BY <1>3 DEF IInv, Types
  <2> QED
    BY <1>2, <2>1, <2>2 DEF Types, SameTensors
<1>5. Busy' => DOMAIN call.outputs = Outs /\ DOMAIN call.asked = Outs /\ Asked = Outs
  <2>1. CASE call.stage = "meta"
    <3>1. Busy' => call.at = Len(call.proxies)
      BY <2>1 DEF GoesOn, Busy
    <3> QED
      BY <1>1, <2>1, <3>1 DEF IInv, Lengths, Asked
  <2>2. CASE call.stage # "meta"
    BY <1>3, <2>2 DEF IInv, Lengths, Asked
  <2> QED
    BY <2>1, <2>2
<1>6. Lengths'
  BY <1>2, <1>3, <1>5 DEF Lengths, IInv, SameTensors
<1>7. (Busy => \A i \in Asked : Provided(i))'
  <2> SUFFICES ASSUME Busy', NEW i \in Asked' PROVE Provided(i)'
    OBVIOUS
  <2>1. i \in Outs
    BY <1>2, <1>3 DEF Asked
  <2>2. Provided(i) /\ i \in DOMAIN call.outputs
    BY <1>3, <1>5, <2>1 DEF IInv
  <2>3. SameShape(call'.outputs[i], call.outputs[i])
    BY <2>2 DEF SameTensors
  <2>4. HasProxy(i) => SameShape(call'.proxies[i][1], call.proxies[i][1])
    BY <2>1 DEF SameTensors
  <2> QED
    BY <1>2, <2>1, <2>2, <2>3, <2>4 DEF Provided, Fits, SameShape, SameTensors
<1>8. (Callers => \A i \in Outs : Kept(i))'
  <2> SUFFICES ASSUME Callers, NEW i \in Outs PROVE Kept(i)'
    BY <1>2
  <2>1. Kept(i) /\ i \in DOMAIN call.outputs
    BY DEF IInv, Lengths
  <2>2. SameShape(call'.outputs[i], call.outputs[i])
    BY <2>1 DEF SameTensors
  <2> QED
    BY <2>1, <2>2 DEF Kept, SameShape, SameTensors
<1>9. Waiting'
  BY <1>3 DEF Waiting
<1> QED
  BY <1>4, <1>6, <1>7, <1>8, <1>9 DEF IInv

\* Only the stage and the position change.
LEMMA Moves ==
  ASSUME call \in Calls, \A i \in Outs : HasProxy(i) => 1 \in DOMAIN call.proxies[i],
         NEW x \in Stages, NEW y \in Nat, call' = [call EXCEPT !.stage = x, !.at = y]
  PROVE  /\ call' \in Calls /\ SameTensors /\ call'.stage = x /\ call'.at = y
         /\ call'.outputs = call.outputs /\ call'.proxies = call.proxies
         /\ \A i \in Outs : /\ Computed(i)' <=> Computed(i)
                            /\ Delivered(i)' <=> Delivered(i)
<1>1. /\ call' \in Calls /\ call'.stage = x /\ call'.at = y
      /\ call'.outputs = call.outputs /\ call'.proxies = call.proxies
      /\ call'.kind = call.kind /\ call'.key = call.key /\ call'.iterator = call.iterator
      /\ call'.given = call.given /\ call'.asked = call.asked /\ call'.guard = call.guard
  BY DEF Calls
<1>2. SameTensors
  BY <1>1 DEF SameTensors, SameShape, HasProxy
<1>3. \A i \in Outs : /\ Computed(i)' <=> Computed(i)
                      /\ Delivered(i)' <=> Delivered(i)
  BY <1>1 DEF Computed, Delivered, WritesProxy, Bypassed, HasProxy
<1> QED
  BY <1>1, <1>2, <1>3

LEMMA Rejects == ASSUME IInv, (\E q \in Requests : RejectOutput(q)) \/ ImplThrows
                 PROVE  IInv'
<1>1. /\ call' = [call EXCEPT !.stage = "failed"] /\ call \in Calls
      /\ call.stage \in {"meta", "impl"}
  BY DEF RejectOutput, ImplThrows, IInv, Types
<1>2. call' = [call EXCEPT !.stage = "failed", !.at = call.at]
  BY <1>1 DEF Calls
<1>3. call' \in Calls /\ SameTensors /\ call'.stage = "failed"
  BY <1>1, <1>2, Moves, Fields DEF Stages, IInv, Types
<1>4. Results' /\ GoesOn
  BY <1>1, <1>3 DEF Results, GoesOn
<1> QED
  BY <1>3, <1>4, Continues

LEMMA MetaEnds == ASSUME IInv, MetaDone
                  PROVE  IInv'
<1> DEFINE x == IF call.key = "Meta" THEN "copy" ELSE "impl"
<1>1. /\ call' = [call EXCEPT !.stage = x, !.at = 0] /\ call \in Calls
      /\ call.stage = "meta" /\ call.at = Len(call.proxies) /\ x \in Stages
      /\ Outs = 1..Len(call.proxies)
  BY Fields DEF MetaDone, IInv, Types, Stages
<1>2. call' \in Calls /\ SameTensors /\ call'.stage = x /\ call'.at = 0
  BY <1>1, Moves DEF IInv, Types
<1>3. Results'
  <2>1. call'.key = call.key /\ Outs' = Outs
    BY <1>2 DEF SameTensors, Outs
  <2>2. \A i \in Outs : ~(i <= 0)
    BY <1>1
  <2> QED
    BY <1>2, <2>1, <2>2 DEF Results
<1>4. GoesOn
  BY <1>1, <1>2 DEF GoesOn
<1> QED
  BY <1>2, <1>3, <1>4, Continues

LEMMA ImplEnds == ASSUME IInv, ImplDone
                  PROVE  IInv'
<1>1. /\ call' = [call EXCEPT !.stage = "copy", !.at = 0] /\ call \in Calls
      /\ call.stage = "impl" /\ call.at = Len(call.proxies)
      /\ Outs = 1..Len(call.proxies)
  BY Fields DEF ImplDone, IInv, Types
<1>2. /\ call' \in Calls /\ SameTensors /\ call'.stage = "copy" /\ call'.at = 0
      /\ \A i \in Outs : Computed(i)' <=> Computed(i)
  BY <1>1, Moves DEF IInv, Types, Stages
<1>3. Results'
  <2>1. Outs' = Outs
    BY <1>2 DEF SameTensors, Outs
  <2>2. \A i \in Outs : ~(i <= 0) /\ Computed(i)'
    BY <1>1, <1>2 DEF IInv, Results
  <2> QED
    BY <1>2, <2>1, <2>2 DEF Results
<1>4. GoesOn
  BY <1>1, <1>2 DEF GoesOn
<1> QED
  BY <1>2, <1>3, <1>4, Continues

LEMMA Returns == ASSUME IInv, ReturnOutputs
                 PROVE  IInv'
<1>1. /\ call' = [call EXCEPT !.stage = "returned"] /\ call \in Calls
      /\ call.stage = "copy" /\ call.at = Len(call.proxies) /\ call.at \in Nat
      /\ Outs = 1..Len(call.proxies)
  BY Fields DEF ReturnOutputs, IInv, Types
<1>2. call' = [call EXCEPT !.stage = "returned", !.at = call.at]
  BY <1>1 DEF Calls
<1>3. /\ call' \in Calls /\ SameTensors /\ call'.stage = "returned"
      /\ \A i \in Outs : Delivered(i)' <=> Delivered(i)
  BY <1>1, <1>2, Moves DEF IInv, Types, Stages
<1>4. Results'
  <2>1. call'.key = call.key /\ Outs' = Outs
    BY <1>3 DEF SameTensors, Outs
  <2>2. call.key # "Meta" => \A i \in Outs : Delivered(i)'
    BY <1>1, <1>3 DEF IInv, Results
  <2> QED
    BY <1>3, <2>1, <2>2 DEF Results
<1>5. GoesOn
  BY <1>1, <1>3 DEF GoesOn
<1> QED
  BY <1>3, <1>4, <1>5, Continues

\* One output holds something else, or its proxy does.
LEMMA OutputHolds ==
  ASSUME IInv, call.stage \in {"impl", "copy"}, NEW i \in Outs, NEW h \in Nat,
         call' = [call EXCEPT !.at = i, !.outputs[i].holds = h]
  PROVE  /\ call' \in Calls /\ SameTensors /\ call'.stage = call.stage /\ call'.at = i
         /\ call'.proxies = call.proxies /\ call'.outputs[i].holds = h
         /\ \A j \in Outs : j # i => call'.outputs[j] = call.outputs[j]
<1>1. /\ call \in Calls /\ call.outputs \in Seq(Held) /\ DOMAIN call.outputs = Outs
      /\ i \in Nat
  <2>1. /\ call \in Calls /\ call.outputs \in Seq(Held) /\ Outs = 1..Len(call.proxies)
        /\ call.proxies \in Seq(Seq(Held))
    BY Fields DEF IInv, Types
  <2>2. DOMAIN call.outputs = Outs
    BY DEF IInv, Lengths, Busy
  <2> QED
    BY <2>1, <2>2
<1> DEFINE t == [call.outputs[i] EXCEPT !.holds = h]
           ts == [call.outputs EXCEPT ![i] = t]
<1>2. call.outputs[i] \in Held
  BY <1>1
<1>3. t \in Held /\ SameShape(t, call.outputs[i]) /\ t.holds = h
  BY <1>2 DEF Held, SameShape
<1> HIDE DEF t
<1>4. /\ ts \in Seq(Held) /\ DOMAIN ts = Outs /\ ts[i] = t
      /\ \A j \in Outs : j # i => ts[j] = call.outputs[j]
  BY <1>1, <1>3, Replaced
<1>5. call' = [call EXCEPT !.at = i, !.outputs = ts]
  BY <1>1 DEF t, Calls
<1> HIDE DEF ts
<1>6. /\ call' \in Calls /\ call'.stage = call.stage /\ call'.at = i
      /\ call'.outputs = ts /\ call'.proxies = call.proxies
      /\ call'.kind = call.kind /\ call'.key = call.key /\ call'.iterator = call.iterator
      /\ call'.given = call.given /\ call'.asked = call.asked /\ call'.guard = call.guard
  BY <1>1, <1>4, <1>5 DEF Calls
<1>7. \A j \in Outs : HasProxy(j) => 1 \in DOMAIN call.proxies[j]
  BY DEF IInv, Types
<1>8. \A j \in Outs : SameShape(ts[j], call.outputs[j])
  BY <1>3, <1>4 DEF SameShape
<1>9. SameTensors
  BY <1>1, <1>4, <1>6, <1>7, <1>8 DEF SameTensors, SameShape, HasProxy
<1> QED
  BY <1>3, <1>4, <1>6, <1>9

LEMMA ProxyHolds ==
  ASSUME IInv, call.stage = "impl", NEW i \in Outs, HasProxy(i), NEW h \in Nat,
         call' = [call EXCEPT !.at = i, !.proxies[i][1].holds = h]
  PROVE  /\ call' \in Calls /\ SameTensors /\ call'.stage = call.stage /\ call'.at = i
         /\ call'.outputs = call.outputs /\ call'.proxies[i][1].holds = h
         /\ \A j \in Outs : j # i => call'.proxies[j] = call.proxies[j]
<1>1. /\ call \in Calls /\ call.proxies \in Seq(Seq(Held))
      /\ DOMAIN call.proxies = Outs
      /\ i \in Nat /\ 1 \in DOMAIN call.proxies[i]
  <2>1. /\ call \in Calls /\ call.proxies \in Seq(Seq(Held)) /\ Outs = 1..Len(call.proxies)
    BY Fields DEF IInv, Types
  <2>2. 1 \in DOMAIN call.proxies[i]
    BY DEF IInv, Types
  <2>3. DOMAIN call.proxies = Outs
    BY DEF Outs
  <2> QED
    BY <2>1, <2>2, <2>3
<1> DEFINE px == call.proxies[i]
           t == [px[1] EXCEPT !.holds = h]
           new == [px EXCEPT ![1] = t]
           pxs == [call.proxies EXCEPT ![i] = new]
<1>2. px \in Seq(Held)
  BY <1>1
<1>3. px[1] \in Held
  BY <1>1, <1>2
<1>4. t \in Held /\ SameShape(t, px[1]) /\ t.holds = h
  BY <1>3 DEF Held, SameShape
<1> HIDE DEF t
<1>5. /\ new \in Seq(Held) /\ DOMAIN new = DOMAIN px /\ new[1] = t
  BY <1>1, <1>2, <1>4, Replaced
<1> HIDE DEF new
<1>6. /\ pxs \in Seq(Seq(Held)) /\ DOMAIN pxs = Outs /\ Len(pxs) = Len(call.proxies)
      /\ pxs[i] = new /\ \A j \in Outs : j # i => pxs[j] = call.proxies[j]
  BY <1>1, <1>5, Replaced
<1>7. call' = [call EXCEPT !.at = i, !.proxies = pxs]
  BY <1>1 DEF t, new, Calls
<1> HIDE DEF pxs
<1>8. /\ call' \in Calls /\ call'.stage = call.stage /\ call'.at = i
      /\ call'.outputs = call.outputs /\ call'.proxies = pxs
      /\ call'.kind = call.kind /\ call'.key = call.key /\ call'.iterator = call.iterator
      /\ call'.given = call.given /\ call'.asked = call.asked /\ call'.guard = call.guard
  BY <1>1, <1>6, <1>7 DEF Calls
<1>9. new # <<>> /\ 1 \in DOMAIN new
  BY <1>1, <1>5
<1>10. \A j \in Outs : HasProxy(j) => 1 \in DOMAIN call.proxies[j]
  BY DEF IInv, Types
<1>11. \A j \in Outs : /\ pxs[j] # <<>> <=> call.proxies[j] # <<>>
                       /\ HasProxy(j) => /\ 1 \in DOMAIN pxs[j]
                                         /\ SameShape(pxs[j][1], call.proxies[j][1])
  <2> SUFFICES ASSUME NEW j \in Outs
               PROVE  /\ pxs[j] # <<>> <=> call.proxies[j] # <<>>
                      /\ HasProxy(j) => /\ 1 \in DOMAIN pxs[j]
                                        /\ SameShape(pxs[j][1], call.proxies[j][1])
    OBVIOUS
  <2>1. CASE j = i
    BY <1>4, <1>5, <1>6, <1>9, <2>1 DEF HasProxy
  <2>2. CASE j # i
    BY <1>6, <1>10, <2>2 DEF SameShape
  <2> QED
    BY <2>1, <2>2
<1>12. SameTensors
  BY <1>1, <1>6, <1>8, <1>11 DEF SameTensors, SameShape
<1> QED
  BY <1>4, <1>5, <1>6, <1>8, <1>12

LEMMA Writes == ASSUME IInv, ImplWrites
                PROVE  IInv'
<1>0. /\ call \in Calls /\ call.stage = "impl" /\ call.at \in Nat
      /\ Outs = 1..Len(call.proxies)
  BY Fields DEF IInv, Types, ImplWrites
<1> PICK i \in Nat : i = call.at + 1
  BY <1>0
<1>1. /\ i \in Outs
      /\ call' = IF WritesProxy(i)
                 THEN [call EXCEPT !.at = i, !.proxies[i][1].holds = i]
                 ELSE [call EXCEPT !.at = i, !.outputs[i].holds = i]
  BY DEF ImplWrites
<1>2. /\ call' \in Calls /\ SameTensors /\ call'.stage = "impl" /\ call'.at = i
      /\ WritesProxy(i) => call'.proxies[i][1].holds = i
      /\ ~WritesProxy(i) => call'.outputs[i].holds = i
      /\ \A j \in Outs : j # i => call'.outputs[j] = call.outputs[j]
      /\ \A j \in Outs : j # i => call'.proxies[j] = call.proxies[j]
  <2>1. CASE WritesProxy(i)
    <3>1. HasProxy(i) /\ call' = [call EXCEPT !.at = i, !.proxies[i][1].holds = i]
      BY <1>1, <2>1 DEF WritesProxy
    <3>2. /\ call' \in Calls /\ SameTensors /\ call'.stage = call.stage /\ call'.at = i
          /\ call'.outputs = call.outputs /\ call'.proxies[i][1].holds = i
          /\ \A j \in Outs : j # i => call'.proxies[j] = call.proxies[j]
      <4>1. i \in Outs /\ call.stage = "impl"
        BY <1>0, <1>1
      <4> QED
        BY <3>1, <4>1, ProxyHolds, Zenon
    <3> QED
      BY <1>0, <2>1, <3>2
  <2>2. CASE ~WritesProxy(i)
    BY <1>0, <1>1, <2>2, OutputHolds
  <2> QED
    BY <2>1, <2>2
<1>3. \A j \in Outs : WritesProxy(j)' <=> WritesProxy(j)
  BY <1>2 DEF SameTensors, WritesProxy, HasProxy
<1>4. Results'
  <2>1. Outs' = Outs
    BY <1>2 DEF SameTensors, Outs
  <2>2. ASSUME NEW j \in Outs, j <= i
        PROVE  Computed(j)'
    <3>1. CASE j = i
      BY <1>1, <1>2, <1>3, <3>1 DEF Computed
    <3>2. CASE j # i
      <4>1. j <= call.at
        BY <1>0, <2>2, <3>2
      <4>2. Computed(j)
        BY <1>0, <4>1 DEF IInv, Results
      <4> QED
        BY <1>2, <1>3, <3>2, <4>2 DEF Computed
    <3> QED
      BY <3>1, <3>2
  <2> QED
    BY <1>2, <2>1, <2>2 DEF Results
<1>5. GoesOn
  BY <1>0, <1>2 DEF GoesOn
<1> QED
  BY <1>2, <1>4, <1>5, Continues

\* A proxy the implementation did not write is one of an output in place.
LEMMA Bypasses ==
  ASSUME IInv, call.stage = "copy", NEW i \in Outs, HasProxy(i), ~WritesProxy(i)
  PROVE  Bypassed(i)
<1>1. call.kind \in KernelKinds /\ Wrapper(call.kind, call.key) /\ Provided(i)
  BY DEF IInv, Types, Busy, Asked
<1>2. call.kind # "functional"
  BY <1>1 DEF Provided
<1>3. call.kind # "out"
  BY <1>1 DEF WritesProxy, Wrapper
<1> QED
  BY <1>1, <1>2, <1>3 DEF Bypassed, KernelKinds

LEMMA Copies == ASSUME IInv, CopyProxy
                PROVE  IInv'
<1>0. /\ call \in Calls /\ call.stage = "copy" /\ call.at \in Nat
      /\ Outs = 1..Len(call.proxies) /\ call.proxies \in Seq(Seq(Held))
      /\ DOMAIN call.outputs = Outs
  BY Fields DEF IInv, Types, CopyProxy, Lengths, Busy
<1> PICK i \in Nat : i = call.at + 1
  BY <1>0
<1>1. /\ i \in Outs
      /\ call' = IF HasProxy(i)
                 THEN [call EXCEPT !.at = i,
                                   !.outputs[i] = CopiedOver(@, call.proxies[i][1])]
                 ELSE [call EXCEPT !.at = i]
  BY DEF CopyProxy
<1>2. /\ call' \in Calls /\ SameTensors /\ call'.stage = "copy" /\ call'.at = i
      /\ call'.proxies = call.proxies
      /\ HasProxy(i) => call'.outputs[i].holds = call.proxies[i][1].holds
      /\ ~HasProxy(i) => call'.outputs[i] = call.outputs[i]
      /\ \A j \in Outs : j # i => call'.outputs[j] = call.outputs[j]
  <2>1. CASE HasProxy(i)
    <3> DEFINE h == call.proxies[i][1].holds
    <3>1. call.proxies[i] \in Seq(Held) /\ 1 \in DOMAIN call.proxies[i]
      BY <1>0, <1>1, <2>1 DEF IInv, Types
    <3>2. call.proxies[i][1] \in Held
      BY <3>1
    <3>3. h \in Nat
      BY <3>2 DEF Held
    <3>4. call' = [call EXCEPT !.at = i, !.outputs[i].holds = h]
      BY <1>0, <1>1, <2>1 DEF CopiedOver
    <3> HIDE DEF h
    <3>5. /\ call' \in Calls /\ SameTensors /\ call'.stage = call.stage /\ call'.at = i
          /\ call'.proxies = call.proxies /\ call'.outputs[i].holds = h
          /\ \A j \in Outs : j # i => call'.outputs[j] = call.outputs[j]
      BY <1>0, <1>1, <3>3, <3>4, OutputHolds
    <3> QED
      BY <1>0, <2>1, <3>5 DEF h
  <2>2. CASE ~HasProxy(i)
    <3>1. call' = [call EXCEPT !.stage = "copy", !.at = i]
      BY <1>0, <1>1, <2>2 DEF Calls
    <3> QED
      BY <1>0, <2>2, <3>1, Moves DEF IInv, Types, Stages
  <2> QED
    BY <2>1, <2>2
<1>3. \A j \in Outs : /\ WritesProxy(j)' <=> WritesProxy(j)
                      /\ Bypassed(j)' <=> Bypassed(j)
  BY <1>2 DEF SameTensors, WritesProxy, HasProxy, Bypassed
<1>4. Results'
  <2>1. Outs' = Outs /\ call'.key = call.key
    BY <1>2 DEF SameTensors, Outs
  <2>2. ASSUME call.key # "Meta", NEW j \in Outs
        PROVE  IF j <= i THEN Delivered(j)' ELSE Computed(j)'
    <3>1. IF j <= call.at THEN Delivered(j) ELSE Computed(j)
      BY <1>0, <2>2 DEF IInv, Results
    <3>2. CASE j = i
      <4>1. Computed(i) /\ i <= i
        BY <1>0, <3>1, <3>2
      <4>2. ASSUME WritesProxy(i) PROVE Delivered(i)'
        BY <1>2, <1>3, <4>1, <4>2 DEF Computed, Delivered, WritesProxy
      <4>3. ASSUME ~WritesProxy(i), HasProxy(i) PROVE Delivered(i)'
        BY <1>0, <1>1, <1>3, <4>3, Bypasses DEF Delivered
      <4>4. ASSUME ~WritesProxy(i), ~HasProxy(i) PROVE Delivered(i)'
        BY <1>2, <4>1, <4>4 DEF Computed, Delivered
      <4>5. Delivered(i)'
        BY <4>2, <4>3, <4>4
      <4> QED
        BY <3>2, <4>1, <4>5
    <3>3. CASE j # i
      <4>1. j <= i <=> j <= call.at
        BY <1>0, <3>3
      <4> QED
        BY <1>2, <1>3, <3>1, <3>3, <4>1 DEF Computed, Delivered
    <3> QED
      BY <3>2, <3>3
  <2> QED
    BY <1>2, <2>1, <2>2 DEF Results
<1>5. GoesOn
  BY <1>0, <1>2 DEF GoesOn
<1> QED
  BY <1>2, <1>4, <1>5, Continues

LEMMA Nothing == ASSUME call = CallNothing
                 PROVE  IInv
<1>1. /\ call.stage = "idle" /\ call.kind = "" /\ call.proxies = <<>> /\ Outs = {}
  <2>1. call.stage = "idle" /\ call.kind = "" /\ call.proxies = <<>>
    BY DEF CallNothing
  <2>2. DOMAIN <<>> = {}
    OBVIOUS
  <2>3. Outs = {}
    BY <2>1, <2>2 DEF Outs
  <2> QED
    BY <2>1, <2>3
<1>2. call \in Calls
  <2>1. /\ <<>> \in Seq(Held) /\ <<>> \in Seq(Seq(Held)) /\ <<>> \in Seq(Requests)
        /\ {} \in SUBSET Devices
    OBVIOUS
  <2> QED
    BY <2>1 DEF CallNothing, Calls, Stages
<1>3. ~Callers /\ ~Busy
  BY <1>1 DEF Callers, Busy
<1> QED
  BY <1>1, <1>2, <1>3 DEF IInv, Types, Lengths, Waiting, Results

LEMMA Restarts == ASSUME Again
                  PROVE  IInv'
<1>1. call' = CallNothing
  BY DEF Again
<1>2. (call = CallNothing => IInv)'
  BY Nothing, PTL
<1> QED
  BY <1>1, <1>2 DEF CallNothing

LEMMA CallsHold == ASSUME IInv, [Begin \/ CallStep \/ Again]_call
                   PROVE  IInv'
<1>1. CASE CallStep
  BY <1>1, SetsOutput, Rejects, MetaEnds, Writes, ImplEnds, Copies, Returns
  DEF CallStep
<1>2. CASE UNCHANGED call
  BY <1>2
  DEF IInv, Types, Lengths, Waiting, Results, Callers, Busy, Outs, Asked, Provided, Kept,
      Computed, Delivered, HasProxy, WritesProxy, Bypassed, SetsGuard, Fits
<1> QED
  BY <1>1, <1>2, Begins, Restarts

LEMMA Invariance == CallSpec => []IInv
<1>1. CallInit => IInv
  BY Nothing DEF CallInit
<1> QED
  BY <1>1, CallsHold, PTL DEF CallSpec

LEMMA ResultsHold == IInv => ResultsReturned
<1> SUFFICES ASSUME IInv, call.stage = "returned" PROVE ResultsReturned
  BY DEF ResultsReturned
<1>1. \A i \in Outs : Provided(i) /\ (call.key # "Meta" => Delivered(i))
  BY DEF IInv, Busy, Asked, Results
<1> QED
  BY <1>1 DEF ResultsReturned, Provided, Fits, Delivered

LEMMA TargetsHold == IInv => ImplGetsWhatMetaAsked
<1> SUFFICES ASSUME IInv, call.stage = "impl" PROVE ImplGetsWhatMetaAsked
  BY DEF ImplGetsWhatMetaAsked
<1>1. call.kind \in KernelKinds /\ Wrapper(call.kind, call.key)
  BY DEF IInv, Types
<1>2. ASSUME NEW i \in Outs
      PROVE  LET q == call.asked[i]
             IN  /\ Target(i).size = q.size /\ Target(i).type = q.type
                 /\ Target(i).device = q.device
                 /\ q.exact /\ ~Bypassed(i) /\ call.key # CompositeKey
                      => Target(i).strides = q.strides
                 /\ SetsGuard => call.guard = {Target(i).device}
  <2>1. Provided(i)
    BY DEF IInv, Busy, Asked
  <2>2. CASE WritesProxy(i)
    BY <2>1, <2>2 DEF Provided, Fits, Target, WritesProxy
  <2>3. CASE ~WritesProxy(i)
    <3>1. HasProxy(i) /\ call.key # CompositeKey => Bypassed(i)
      BY <1>1, <2>1, <2>3 DEF Provided, WritesProxy, Bypassed, KernelKinds
    <3> QED
      BY <2>1, <2>3, <3>1 DEF Provided, Fits, Target
  <2> QED
    BY <2>2, <2>3
<1> QED
  BY <1>2 DEF ImplGetsWhatMetaAsked

LEMMA StridesHold == IInv => CallersStridesKept
BY DEF IInv, Callers, Kept, CallersStridesKept

\* A call that returns hands back what was asked for and computed (gen_one).
THEOREM ResultsCorrect == CallSpec => []ResultsReturned
BY Invariance, ResultsHold, PTL

\* The implementation is given what the meta function asked for
\* (gen_class_set_output_body, gen_resize_out_helper, gen_maybe_create_proxy_helper).
THEOREM TargetsCorrect == CallSpec => []ImplGetsWhatMetaAsked
BY Invariance, TargetsHold, PTL

\* A tensor of the caller keeps its strides unless it is resized (resize_out).
THEOREM StridesCorrect == CallSpec => []CallersStridesKept
BY Invariance, StridesHold, PTL
-----------------------------------------------------------------------------
(* What a run registers: from the files it lists back to the kernels of the yaml file, the *)
(* keys the sources are written for and the models that select the operator. *)

\* Sequences of writes, whatever is in them.
IsSeq(s) == s \in Seq(ToSet(s))

LEMMA ToSets ==
    ASSUME NEW W, NEW s \in Seq(W)
    PROVE  IsSeq(s) /\ ToSet(s) \subseteq W
<1>1. Len(s) \in Nat /\ DOMAIN s = 1..Len(s) /\ \A i \in 1..Len(s) : s[i] \in W
  BY ElementOfSeq, LenProperties
<1>2. s = [i \in 1..Len(s) |-> s[i]]
  OBVIOUS
<1>3. \A i \in 1..Len(s) : s[i] \in ToSet(s)
  BY <1>1 DEF ToSet
<1>4. s \in [1..Len(s) -> ToSet(s)]
  BY <1>2, <1>3
<1>5. s \in Seq(ToSet(s))
  BY <1>1, <1>4, SeqDef
<1> QED
  BY <1>1, <1>5 DEF IsSeq, ToSet

LEMMA Concatenated ==
    ASSUME NEW s, NEW t, IsSeq(s), IsSeq(t)
    PROVE  IsSeq(s \o t) /\ ToSet(s \o t) = ToSet(s) \cup ToSet(t)
<1> DEFINE W == ToSet(s) \cup ToSet(t)
<1>1. s \in Seq(W) /\ t \in Seq(W)
  <2>1. \A a, b, u : u \in Seq(a) /\ a \subseteq b => u \in Seq(b)
    BY SeqDef
  <2> QED
    BY <2>1 DEF IsSeq
<1>2. s \o t \in Seq(W)
  BY <1>1
<1>3. W \subseteq ToSet(s \o t)
  <2>1. ASSUME NEW i \in DOMAIN s PROVE s[i] \in ToSet(s \o t)
    <3>1. i \in DOMAIN (s \o t) /\ (s \o t)[i] = s[i]
      BY <1>1
    <3> QED
      BY <3>1 DEF ToSet
  <2>2. ASSUME NEW i \in DOMAIN t PROVE t[i] \in ToSet(s \o t)
    <3>1. Len(s) + i \in DOMAIN (s \o t) /\ (s \o t)[Len(s) + i] = t[i]
      BY <1>1
    <3> QED
      BY <3>1 DEF ToSet
  <2> QED
    BY <2>1, <2>2 DEF ToSet
<1> HIDE DEF W
<1> QED
  BY <1>2, <1>3, ToSets DEF W

LEMMA Tuples ==
    ASSUME NEW a
    PROVE  /\ IsSeq(<<>>) /\ ToSet(<<>>) = {}
           /\ IsSeq(<<a>>) /\ ToSet(<<a>>) = {a}
<1>1. ToSet(<<>>) = {} /\ ToSet(<<a>>) = {a}
  BY DEF ToSet
<1> QED
  BY <1>1 DEF IsSeq

\* What ForEach writes: what is written for each element.
LEMMA ForEachWrites ==
    ASSUME NEW f, IsFiniteSet(DOMAIN f), \A x \in DOMAIN f : IsSeq(f[x])
    PROVE  /\ IsSeq(ForEach(f))
           /\ ToSet(ForEach(f)) = UNION {ToSet(f[x]) : x \in DOMAIN f}
<1> DEFINE D == DOMAIN f
           First(s) == CHOOSE x \in s : TRUE
           Body(h, s) == IF s = {} THEN <<>> ELSE f[First(s)] \o h[s \ {First(s)}]
           Iterates(h) == h = [s \in SUBSET D |-> Body(h, s)]
<1>1. \A s \in SUBSET D :
         /\ IsFiniteSet(s) /\ Cardinality(s) \in Nat /\ Cardinality(s) <= Cardinality(D)
         /\ s # {} => /\ First(s) \in s
                      /\ Cardinality(s \ {First(s)}) = Cardinality(s) - 1
         /\ Cardinality(s) = 0 <=> s = {}
  BY FS_Subset, FS_CardinalityType, FS_RemoveElement, FS_EmptySet
<1> HIDE DEF First
<1>2. \E h : Iterates(h)
  <2> DEFINE Upto(m) == \E h : /\ h = [s \in SUBSET D |-> h[s]]
                               /\ \A s \in SUBSET D : Cardinality(s) <= m => h[s] = Body(h, s)
             S == {m \in Nat : Upto(m)}
  <2>1. 0 \in S
    <3> DEFINE h == [s \in SUBSET D |-> <<>>]
    <3>1. h = [s \in SUBSET D |-> h[s]] /\ \A s \in SUBSET D : s = {} => h[s] = Body(h, s)
      OBVIOUS
    <3> HIDE DEF h
    <3>2. \A s \in SUBSET D : Cardinality(s) <= 0 => s = {}
      <4>1. \A n \in Nat : n <= 0 => n = 0
        OBVIOUS
      <4> QED
        BY <1>1, <4>1
    <3>3. Upto(0)
      BY <3>1, <3>2
    <3> HIDE DEF Upto
    <3> QED
      BY <3>3
  <2>2. ASSUME NEW m \in Nat, m \in S PROVE m + 1 \in S
    <3>1. PICK h : \A s \in SUBSET D : Cardinality(s) <= m => h[s] = Body(h, s)
      BY <2>2
    <3> DEFINE g == [s \in SUBSET D |-> Body(h, s)]
    <3>2. g = [s \in SUBSET D |-> g[s]] /\ \A s \in SUBSET D : g[s] = Body(h, s)
      OBVIOUS
    <3> HIDE DEF g
    <3>3. ASSUME NEW s \in SUBSET D, Cardinality(s) <= m + 1 PROVE g[s] = Body(g, s)
      <4>1. CASE s = {}
        BY <3>2, <4>1
      <4>2. CASE s # {}
        <5> DEFINE r == s \ {First(s)}
        <5>1. r \in SUBSET D /\ Cardinality(r) <= m
          BY <1>1, <3>3, <4>2
        <5> HIDE DEF r
        <5>2. g[r] = h[r]
          BY <3>1, <3>2, <5>1
        <5> QED
          BY <3>2, <4>2, <5>2 DEF r
      <4> QED
        BY <4>1, <4>2
    <3>4. Upto(m + 1)
      BY <3>2, <3>3
    <3> HIDE DEF Upto
    <3> QED
      BY <3>4
  <2> HIDE DEF S
  <2>3. Cardinality(D) \in S
    <3>1. Cardinality(D) \in Nat
      BY <1>1
    <3> QED
      BY <2>1, <2>2, <3>1, Induction
  <2>4. PICK h : /\ h = [s \in SUBSET D |-> h[s]]
                 /\ \A s \in SUBSET D : Cardinality(s) <= Cardinality(D) => h[s] = Body(h, s)
    BY <2>3 DEF S
  <2>5. \A s \in SUBSET D : h[s] = Body(h, s)
    BY <1>1, <2>4
  <2>6. [s \in SUBSET D |-> h[s]] = [s \in SUBSET D |-> Body(h, s)]
    BY <2>5
  <2> QED
    BY <2>4, <2>6
<1> DEFINE h == CHOOSE h : Iterates(h)
<1>3. ForEach(f) = h[D]
  BY DEF ForEach, FoldSet, MapThenFoldSet, First
<1>4. Iterates(h)
  BY <1>2
<1> HIDE DEF h
<1>5. \A s \in SUBSET D : h[s] = Body(h, s)
  BY <1>4
<1> DEFINE Good(s) == IsSeq(h[s]) /\ ToSet(h[s]) = UNION {ToSet(f[x]) : x \in s}
           S == {m \in Nat : \A s \in SUBSET D : Cardinality(s) = m => Good(s)}
<1>6. 0 \in S
  <2>1. \A s \in SUBSET D : Cardinality(s) = 0 => s = {} /\ h[s] = <<>>
    BY <1>1, <1>5
  <2> QED
    BY <2>1, Tuples
<1>7. ASSUME NEW m \in Nat, m \in S PROVE m + 1 \in S
  <2> SUFFICES ASSUME NEW s \in SUBSET D, Cardinality(s) = m + 1 PROVE Good(s)
    OBVIOUS
  <2> DEFINE r == s \ {First(s)}
  <2>1. s # {} /\ First(s) \in s /\ r \in SUBSET D /\ Cardinality(r) = m
    BY <1>1
  <2>2. Good(r)
    BY <1>7, <2>1
  <2>3. h[s] = f[First(s)] \o h[r]
    BY <1>5, <2>1
  <2>4. IsSeq(f[First(s)])
    BY <2>1
  <2>5. s = r \cup {First(s)}
    BY <2>1
  <2> HIDE DEF r
  <2> QED
    BY <2>2, <2>3, <2>4, <2>5, Concatenated
<1> HIDE DEF S
<1>8. \A m \in Nat : m \in S
  BY <1>6, <1>7, Induction
<1>9. Good(D)
  BY <1>1, <1>8 DEF S
<1> QED
  BY <1>3, <1>9

LEMMA FiniteImage ==
    ASSUME NEW g, IsFiniteSet(DOMAIN g)
    PROVE  IsFiniteSet({g[x] : x \in DOMAIN g})
<1> DEFINE S == DOMAIN g
           T == {g[x] : x \in S}
           F == [x \in S |-> g[x]]
<1>1. F \in [S -> T] /\ \A t \in T : \E x \in S : F[x] = t
  OBVIOUS
<1> HIDE DEF S, T, F
<1>2. F \in Surjection(S, T)
  BY <1>1, Fun_IsSurj
<1>3. IsFiniteSet(T)
  BY <1>2, FS_Surjection DEF S
<1> QED
  BY <1>3 DEF S, T

\* The variants of a signature, by their kinds.
LEMMA Variants ==
    ASSUME NEW class, NEW K(_)
    PROVE  Members(ByKind(class, K)) \subseteq class
BY DEF Members, ByKind

LEMMA PreGroupMembers ==
    ASSUME NEW rs, NEW d \in PreGroups(rs)
    PROVE  /\ Members(d) \subseteq rs
           /\ \A f \in Members(d) : KindOf(f) \in DOMAIN d /\ d[KindOf(f)] = f
           /\ \A k \in DOMAIN d : KindOf(d[k]) = k
           /\ Members(d) # {}
<1>1. PICK s \in {SignatureOf(f) : f \in rs} :
             d = ByKind({f \in rs : SignatureOf(f) = s}, KindOf)
  BY DEF PreGroups, Classes
<1> DEFINE class == {f \in rs : SignatureOf(f) = s}
<1>2. class \subseteq rs /\ class # {}
  BY <1>1
<1> HIDE DEF class
<1>3. d = [k \in {KindOf(f) : f \in class} |-> CHOOSE f \in class : KindOf(f) = k]
  BY <1>1 DEF ByKind, class
<1>4. \A k \in DOMAIN d : d[k] \in class /\ KindOf(d[k]) = k
  BY <1>3
<1>5. DOMAIN d # {}
  BY <1>2, <1>3
<1> QED
  BY <1>2, <1>4, <1>5 DEF Members

LEMMA PreGroupCovers ==
    ASSUME NEW rs, PreGroupsOK(rs), NEW f \in rs
    PROVE  \E d \in PreGroups(rs) : f \in Members(d)
<1> DEFINE class == {g \in rs : SignatureOf(g) = SignatureOf(f)}
           d == ByKind(class, KindOf)
<1>1. d \in PreGroups(rs)
  BY DEF PreGroups, Classes
<1>2. \A g \in class : KindOf(g) = KindOf(f) => g = f
  BY DEF PreGroupsOK
<1>3. f \in class
  OBVIOUS
<1> HIDE DEF class
<1>4. KindOf(f) \in DOMAIN d /\ d[KindOf(f)] = f
  BY <1>2, <1>3 DEF ByKind
<1> QED
  BY <1>1, <1>4 DEF Members

LEMMA FinitePreGroups ==
    ASSUME NEW rs, IsFiniteSet(rs)
    PROVE  IsFiniteSet(PreGroups(rs))
<1> DEFINE g == [f \in rs |-> ByKind({h \in rs : SignatureOf(h) = SignatureOf(f)}, KindOf)]
<1>1. PreGroups(rs) = {g[f] : f \in DOMAIN g}
  <2> DEFINE Class(f) == {h \in rs : SignatureOf(h) = SignatureOf(f)}
  <2>1. Classes(rs, SignatureOf) = {Class(f) : f \in rs}
    BY DEF Classes
  <2> DEFINE C == Classes(rs, SignatureOf)
             Kinded(c) == ByKind(c, KindOf)
  <2>2. PreGroups(rs) = {Kinded(c) : c \in C}
    BY DEF PreGroups
  <2>3. g = [f \in rs |-> Kinded(Class(f))]
    OBVIOUS
  <2> HIDE DEF C, Kinded, Class, g
  <2>4. C = {Class(f) : f \in rs}
    BY <2>1 DEF C
  <2> QED
    BY <2>2, <2>3, <2>4
<1>2. DOMAIN g = rs
  OBVIOUS
<1> HIDE DEF g
<1> QED
  BY <1>1, <1>2, FiniteImage

\* The units of a program are made of its functions, and every function is in one.
LEMMA ProgramUnits ==
    ASSUME NEW rs, NEW kernels, NEW u \in Program(rs, kernels).units
    PROVE  /\ Members(u) \subseteq rs
           /\ \A f \in Members(u) : KindOf(f) \in DOMAIN u /\ u[KindOf(f)] = f
           /\ Root(u) \in Roots(Program(rs, kernels))
<1> DEFINE pre == PreGroups(rs)
<1>1. u \in Groups(pre) \/ \E f \in Alone(pre) : u = ByKind({f}, KindOf)
  BY DEF Program, Units
<1>2. /\ Members(u) \subseteq rs /\ Members(u) # {}
      /\ \A f \in Members(u) : KindOf(f) \in DOMAIN u /\ u[KindOf(f)] = f
  <2>1. CASE u \in Groups(pre)
    BY <2>1, PreGroupMembers DEF Groups
  <2>2. ASSUME NEW f \in Alone(pre), u = ByKind({f}, KindOf)
        PROVE  /\ Members(u) = {f} /\ f \in rs
               /\ KindOf(f) \in DOMAIN u /\ u[KindOf(f)] = f
    <3>1. f \in rs
      BY PreGroupMembers DEF Alone, Groups
    <3>2. u = [k \in {KindOf(f)} |-> f]
      BY <2>2 DEF ByKind
    <3> QED
      BY <3>1, <3>2 DEF Members
  <2> QED
    BY <1>1, <2>1, <2>2
<1>3. \E f \in rs : Root(u) = f.func.name.base
  BY <1>2 DEF Root
<1> QED
  BY <1>2, <1>3 DEF Roots, Program

LEMMA ProgramCovered ==
    ASSUME NEW rs, NEW kernels, ProgramOK(Program(rs, kernels)), NEW f \in rs
    PROVE  \E u \in Program(rs, kernels).units : f \in Members(u)
<1> DEFINE pre == PreGroups(rs)
<1>1. PreGroupsOK(rs)
  BY DEF ProgramOK, GroupingOK, Program
<1>2. PICK d \in pre : f \in Members(d)
  BY <1>1, PreGroupCovers
<1>3. CASE d \in Groups(pre)
  BY <1>2, <1>3 DEF Program, Units
<1>4. CASE d \notin Groups(pre)
  <2>1. f \in Alone(pre)
    BY <1>2, <1>4 DEF Alone
  <2>2. ByKind({f}, KindOf) \in Program(rs, kernels).units
    BY <2>1 DEF Program, Units
  <2>3. f \in Members(ByKind({f}, KindOf))
    BY DEF Members, ByKind
  <2> QED
    BY <2>2, <2>3
<1> QED
  BY <1>3, <1>4

LEMMA FiniteProgram ==
    ASSUME NEW rs, NEW kernels, IsFiniteSet(rs)
    PROVE  IsFiniteSet(Roots(Program(rs, kernels))) /\ IsFiniteSet(Program(rs, kernels).units)
<1> DEFINE pre == PreGroups(rs)
           g == [f \in rs |-> f.func.name.base]
           h == [f \in Alone(pre) |-> ByKind({f}, KindOf)]
<1>1. IsFiniteSet({g[f] : f \in DOMAIN g})
  <2>1. DOMAIN g = rs
    OBVIOUS
  <2> HIDE DEF g
  <2> QED
    BY <2>1, FiniteImage
<1>2. Roots(Program(rs, kernels)) = {g[f] : f \in DOMAIN g}
  BY DEF Roots, Program
<1>3. IsFiniteSet({h[f] : f \in DOMAIN h})
  <2>1. Alone(pre) \subseteq rs
    BY PreGroupMembers DEF Alone, Groups
  <2>2. IsFiniteSet(Alone(pre)) /\ DOMAIN h = Alone(pre)
    BY <2>1, FS_Subset
  <2> HIDE DEF h
  <2> QED
    BY <2>2, FiniteImage
<1>4. IsFiniteSet(Groups(pre))
  <2>1. IsFiniteSet(pre) /\ Groups(pre) \subseteq pre
    BY FinitePreGroups DEF Groups
  <2> QED
    BY <2>1, FS_Subset
<1>5. Program(rs, kernels).units = Groups(pre) \cup {h[f] : f \in DOMAIN h}
  BY DEF Program, Units
<1> HIDE DEF g, h, pre
<1>6. IsFiniteSet(Groups(pre) \cup {h[f] : f \in DOMAIN h})
  BY <1>3, <1>4, FS_Union
<1> QED
  BY <1>1, <1>2, <1>5, <1>6

\* The tags of the registrations that are no kernel of a key and no schema.
OtherTags == {"BackendSelect", "Functionalize", "list", "declaration", "symbol", "ufunc", "yaml"}
\* A write that registers no kernel of a key and no schema, and whose file is none of those
\* that do, and none of at::_ops.
Plain(w) ==
    /\ w.file[1] \notin {"Register", "RegisterSchema", "Operators.cpp"}
    /\ \A r \in w.text.registers : r[1] \in OtherTags
AllPlain(s) == IsSeq(s) /\ \A w \in ToSet(s) : Plain(w)

LEMMA TagsDiffer == OtherTags \cap (DispatchKeys \cup {"schema"}) = {} /\ "schema" \notin DispatchKeys
BY DEF OtherTags, DispatchKeys, GenericKeys, StructuredKeys, CudaKeys, XpuKeys, CIA, CIANested,
       CEA, CENF

LEMMA TwoWrites ==
    ASSUME NEW a, NEW b
    PROVE  IsSeq(<<a, b>>) /\ ToSet(<<a, b>>) = {a, b}
<1>1. ToSet(<<a, b>>) = {a, b}
  BY DEF ToSet
<1> QED
  BY <1>1 DEF IsSeq

LEMMA PlainSequences ==
    /\ AllPlain(<<>>)
    /\ \A a : Plain(a) => AllPlain(<<a>>)
    /\ \A a, b : Plain(a) /\ Plain(b) => AllPlain(<<a, b>>)
    /\ \A s, t : AllPlain(s) /\ AllPlain(t) => AllPlain(s \o t)
<1>1. AllPlain(<<>>) /\ \A a : Plain(a) => AllPlain(<<a>>)
  BY Tuples DEF AllPlain
<1>2. \A a, b : Plain(a) /\ Plain(b) => AllPlain(<<a, b>>)
  BY TwoWrites DEF AllPlain
<1>3. ASSUME NEW s, NEW t, AllPlain(s), AllPlain(t) PROVE AllPlain(s \o t)
  <2>1. IsSeq(s) /\ IsSeq(t)
    BY <1>3 DEF AllPlain
  <2>2. IsSeq(s \o t) /\ ToSet(s \o t) = ToSet(s) \cup ToSet(t)
    BY <2>1, Concatenated
  <2> QED
    BY <1>3, <2>2 DEF AllPlain
<1> QED
  BY <1>1, <1>2, <1>3

LEMMA PlainTuples ==
    ASSUME NEW a, NEW b, NEW c, NEW d, Plain(a), Plain(b), Plain(c), Plain(d)
    PROVE  /\ AllPlain(<<a, b, c, d>>)
           /\ \A e : Plain(e) => AllPlain(<<a, b, c, d, e>>)
           /\ \A e, f : Plain(e) /\ Plain(f) => AllPlain(<<a, b, c, d, e, f>>)
<1>1. AllPlain(<<a, b, c, d>>)
  <2>1. ToSet(<<a, b, c, d>>) = {a, b, c, d}
    BY DEF ToSet
  <2>2. IsSeq(<<a, b, c, d>>)
    BY <2>1 DEF IsSeq
  <2> QED
    BY <2>1, <2>2 DEF AllPlain
<1>2. ASSUME NEW e, Plain(e) PROVE AllPlain(<<a, b, c, d, e>>)
  <2>1. ToSet(<<a, b, c, d, e>>) = {a, b, c, d, e}
    BY DEF ToSet
  <2>2. IsSeq(<<a, b, c, d, e>>)
    BY <2>1 DEF IsSeq
  <2> QED
    BY <1>2, <2>1, <2>2 DEF AllPlain
<1>3. ASSUME NEW e, NEW f, Plain(e), Plain(f) PROVE AllPlain(<<a, b, c, d, e, f>>)
  <2>1. ToSet(<<a, b, c, d, e, f>>) = {a, b, c, d, e, f}
    BY DEF ToSet
  <2>2. IsSeq(<<a, b, c, d, e, f>>)
    BY <2>1 DEF IsSeq
  <2> QED
    BY <1>3, <2>1, <2>2 DEF AllPlain
<1> QED
  BY <1>1, <1>2, <1>3

LEMMA PlainForEach ==
    ASSUME NEW f, IsFiniteSet(DOMAIN f), \A x \in DOMAIN f : AllPlain(f[x])
    PROVE  AllPlain(ForEach(f))
BY ForEachWrites DEF AllPlain

LEMMA PlainTexts ==
    ASSUME NEW kind, kind \notin {"Register", "RegisterSchema", "Operators.cpp"},
           NEW file, file[1] = kind
    PROVE  /\ \A a, b, c, d : Plain(Write(file, Text(a, b, c, d, {})))
           /\ \A symbols : /\ Plain(Write(file, Declaring(symbols)))
                            /\ Plain(Write(file, Including(symbols)))
           /\ \A tag \in OtherTags : \A fs : Plain(Write(file, Listing(tag, fs)))
<1>1. ASSUME NEW text, \A r \in text.registers : r[1] \in OtherTags PROVE Plain(Write(file, text))
  BY <1>1 DEF Plain, Write
<1>2. \A a, b, c, d, e : Text(a, b, c, d, e).registers = e
  BY DEF Text
<1>3. \A tag, fs : Listing(tag, fs).registers = {<<tag, f.func.name>> : f \in fs}
  BY <1>2 DEF Listing
<1> QED
  BY <1>1, <1>2, <1>3 DEF Declaring, Including

-----------------------------------------------------------------------------
LEMMA PlainRootHeaders ==
    ASSUME NEW p, NEW o, NEW root
    PROVE  AllPlain(RootHeaders(p, o, root))
<1> DEFINE fs == FunctionsOf(p, {root})
           us == UnitsOf(p, {root})
           meta == IF HasMeta(p, root) THEN {MetaHeader(root)} ELSE {}
           metas == [h \in meta |-> <<Write(h, Declaring(MetasDeclared(us)))>>]
           first == Write(OpHeader(root), Declaring(OpsDeclared(fs)))
           second == Write(OpsHeader(root, <<>>),
                Text(StaticHeaders(p, o, fs) \cup {OpHeader(root)}, ApisDeclared(fs), {},
                     ApisCalled(fs), {}))
           third == Write(NativeHeader(root),
                   Text(meta, NativesDeclared(us, p.kernels), {}, {}, {}))
<1>1. /\ OpHeader(root)[1] = "ops" /\ OpsHeader(root, <<>>)[1] = "ops"
      /\ NativeHeader(root)[1] = "ops" /\ MetaHeader(root)[1] = "ops"
  BY DEF OpHeader, NativeHeader, MetaHeader, OpsHeader
<1>2. Plain(first) /\ Plain(second) /\ Plain(third)
  BY <1>1, PlainTexts
<1>3. AllPlain(ForEach(metas))
  <2>1. \A h \in meta : h[1] = "ops" /\ metas[h] = <<Write(h, Declaring(MetasDeclared(us)))>>
    BY <1>1
  <2>2. IsFiniteSet(meta) /\ DOMAIN metas = meta
    BY FS_Singleton, FS_EmptySet
  <2> HIDE DEF metas, meta
  <2>3. \A h \in meta : AllPlain(metas[h])
    BY <2>1, PlainTexts, PlainSequences
  <2> QED
    BY <2>2, <2>3, PlainForEach
<1>4. RootHeaders(p, o, root) = <<first, second>> \o ForEach(metas) \o <<third>>
  BY DEF RootHeaders
<1> HIDE DEF first, second, third, metas
<1> QED
  BY <1>2, <1>3, <1>4, PlainSequences

LEMMA PlainKeyHeaders ==
    ASSUME NEW k, NEW symbols
    PROVE  /\ AllPlain(KeyHeaders(k, Including(symbols)))
           /\ AllPlain(KeyHeaders(k, Declaring(symbols)))
<1>1. KeyHeader(k)[1] = "Functions" /\ KeyInline(k)[1] = "Functions_inl"
  BY DEF KeyHeader, KeyInline
<1>2. \A text : KeyHeaders(k, text) = <<Write(KeyHeader(k), Including({KeyInline(k)})),
                                        Write(KeyInline(k), text)>>
  BY DEF KeyHeaders
<1>3. /\ Plain(Write(KeyHeader(k), Including({KeyInline(k)})))
      /\ Plain(Write(KeyInline(k), Including(symbols)))
      /\ Plain(Write(KeyInline(k), Declaring(symbols)))
  BY <1>1, PlainTexts
<1> QED
  BY <1>2, <1>3, PlainSequences

LEMMA PlainDispatchHeaders ==
    ASSUME NEW p, NEW k, IsFiniteSet(Roots(p))
    PROVE  AllPlain(RootDispatchHeaders(p, k))
<1> DEFINE roots == DispatchNames(p, k)
           each == [r \in roots |->
               <<Write(DispatchHeader(r, k),
                       Declaring(KeysDeclared(UnitsOf(p, {r}), p.kernels, k)))>>]
           keys == KeyHeaders(k, Including({DispatchHeader(r, k) : r \in roots}))
<1>1. RootDispatchHeaders(p, k) = ForEach(each) \o keys
  BY DEF RootDispatchHeaders
<1>2. IsFiniteSet(DOMAIN each)
  <2>1. DOMAIN each = roots /\ roots \subseteq Roots(p)
    BY DEF DispatchNames
  <2> HIDE DEF each, roots
  <2> QED
    BY <2>1, FS_Subset
<1>3. \A r \in DOMAIN each : AllPlain(each[r])
  <2>1. \A r \in roots : /\ DispatchHeader(r, k)[1] = "ops"
                         /\ each[r] = <<Write(DispatchHeader(r, k),
                                Declaring(KeysDeclared(UnitsOf(p, {r}), p.kernels, k)))>>
    BY DEF DispatchHeader, OpsHeader
  <2> QED
    BY <2>1, PlainTexts, PlainSequences
<1>4. AllPlain(keys)
  BY PlainKeyHeaders
<1> HIDE DEF each, keys
<1> QED
  BY <1>1, <1>2, <1>3, <1>4, PlainForEach, PlainSequences

LEMMA PlainHeaders ==
    ASSUME NEW p, NEW o, IsFiniteSet(Roots(p)), IsFiniteSet(o.keys)
    PROVE  AllPlain(HeaderFiles(p, o))
<1> DEFINE methods == {f \in p.functions : IsMethod(f)}
           keys == o.keys \cap o.functions
<1>1. \A c : Umbrella(c)[1] = c
  BY DEF Umbrella
<1>2. IsFiniteSet(keys)
  BY FS_Intersection
<1> HIDE DEF methods, keys
<1>3. AllPlain(PerOperatorHeaders(p, o))
  <2> DEFINE all(category, suffix) ==
               Write(Umbrella(category), Including({OpsHeader(r, suffix) : r \in Roots(p)}))
             perroot == [r \in Roots(p) |-> RootHeaders(p, o, r)]
             perkey == [k \in keys |-> RootDispatchHeaders(p, k)]
             last == Write(Umbrella("MethodOperators"),
                           Including({OpHeader(f.func.name.base) :
                                        f \in {h \in p.functions : IsMethod(h)}}))
  <2>1. PerOperatorHeaders(p, o) =
          ForEach(perroot)
            \o <<all("Functions", <<>>), all("Operators", <<"ops">>),
                 all("NativeMetaFunctions", <<"meta">>), all("NativeFunctions", <<"native">>)>>
            \o ForEach(perkey) \o <<last>>
    BY DEF PerOperatorHeaders, keys
  <2>2. /\ Plain(last) /\ Plain(all("Functions", <<>>)) /\ Plain(all("Operators", <<"ops">>))
        /\ Plain(all("NativeMetaFunctions", <<"meta">>))
        /\ Plain(all("NativeFunctions", <<"native">>))
    BY <1>1, PlainTexts
  <2>3. AllPlain(ForEach(perroot))
    <3>1. DOMAIN perroot = Roots(p) /\ \A r \in Roots(p) : AllPlain(perroot[r])
      BY PlainRootHeaders
    <3> HIDE DEF perroot
    <3> QED
      BY <3>1, PlainForEach
  <2>4. AllPlain(ForEach(perkey))
    <3>1. DOMAIN perkey = keys /\ \A k \in keys : AllPlain(perkey[k])
      BY PlainDispatchHeaders
    <3> HIDE DEF perkey
    <3> QED
      BY <1>2, <3>1, PlainForEach
  <2> HIDE DEF perroot, perkey, last, all
  <2>5. AllPlain(<<all("Functions", <<>>), all("Operators", <<"ops">>),
                  all("NativeMetaFunctions", <<"meta">>), all("NativeFunctions", <<"native">>)>>)
    BY <2>2, PlainTuples
  <2> QED
    BY <2>1, <2>2, <2>3, <2>4, <2>5, PlainSequences
<1>4. AllPlain(AggregatedHeaders(p, o))
  <2> DEFINE w1 == Write(Umbrella("NativeMetaFunctions"), Declaring(MetasDeclared(p.units)))
             w2 == Write(Umbrella("MethodOperators"), Declaring(OpsDeclared(methods)))
             w3 == Write(Umbrella("Operators"),
                Text({Umbrella("MethodOperators")}, OpsDeclared(p.functions \ methods),
                     {}, {}, {}))
             w4 == Write(Umbrella("Functions"),
                Text(StaticExtraHeaders(o) \cup {Umbrella("Operators")},
                     ApisDeclared(p.functions), {}, ApisCalled(p.functions), {}))
             w5 == Write(Umbrella("NativeFunctions"),
                Text({Umbrella("NativeMetaFunctions")},
                     NativesDeclared(p.units, p.kernels), {}, {}, {}))
             perkey == [k \in keys |->
                     KeyHeaders(k, Declaring(KeysDeclared(p.units, p.kernels, k)))]
  <2>1. AggregatedHeaders(p, o) = <<w1, w2, w3, w4, w5>> \o ForEach(perkey)
    BY DEF AggregatedHeaders, keys, methods
  <2>2. Plain(w1) /\ Plain(w2) /\ Plain(w3) /\ Plain(w4) /\ Plain(w5)
    BY <1>1, PlainTexts
  <2>3. AllPlain(ForEach(perkey))
    <3>1. DOMAIN perkey = keys /\ \A k \in keys : AllPlain(perkey[k])
      BY PlainKeyHeaders
    <3> HIDE DEF perkey
    <3> QED
      BY <1>2, <3>1, PlainForEach
  <2> HIDE DEF w1, w2, w3, w4, w5, perkey
  <2>4. AllPlain(<<w1, w2, w3, w4, w5>>)
    BY <2>2, PlainTuples
  <2> QED
    BY <2>1, <2>3, <2>4, PlainSequences
<1> DEFINE operators == {Umbrella("Operators")}
           calling(calls) == Text(operators, {}, {}, calls, {})
           v1 == Write(<<"TensorBody">>,
                   Text({Umbrella("MethodOperators")}, {}, {},
                        UNION {ApiCalls(f, TRUE) : f \in methods}, {}))
           v2 == Write(<<"RedispatchFunctions">>,
                   calling(UNION {ApiCalls(f, FALSE) : f \in p.functions}))
           v3 == Write(<<"RegistrationDeclarations">>, Listing("declaration", p.functions))
           v4 == Write(<<"VmapGeneratedPlumbing">>,
                   calling({CallOp(f, ToSet(Dispatcher(f))) :
                              f \in {h \in p.functions : Plumbed(h)}}))
           v5 == Write(<<"aten_interned_strings">>, Listing("symbol", p.functions))
           v6 == Write(<<"enum_tag">>, Declaring({<<"tag", t>> : t \in ValidTags}))
<1>5. HeaderFiles(p, o) =
        (IF o.perop THEN PerOperatorHeaders(p, o) ELSE AggregatedHeaders(p, o))
          \o <<v1, v2, v3, v4, v5, v6>>
  BY DEF HeaderFiles, methods
<1>6. Plain(v1) /\ Plain(v2) /\ Plain(v3) /\ Plain(v4) /\ Plain(v5) /\ Plain(v6)
  <2>1. "declaration" \in OtherTags /\ "symbol" \in OtherTags
    BY DEF OtherTags
  <2>2. /\ <<"TensorBody">>[1] = "TensorBody" /\ <<"RedispatchFunctions">>[1] = "RedispatchFunctions"
        /\ <<"RegistrationDeclarations">>[1] = "RegistrationDeclarations"
        /\ <<"VmapGeneratedPlumbing">>[1] = "VmapGeneratedPlumbing"
        /\ <<"aten_interned_strings">>[1] = "aten_interned_strings" /\ <<"enum_tag">>[1] = "enum_tag"
    OBVIOUS
  <2> QED
    BY <2>1, <2>2, PlainTexts
<1> HIDE DEF v1, v2, v3, v4, v5, v6
<1>7. AllPlain(<<v1, v2, v3, v4, v5, v6>>)
  BY <1>6, PlainTuples
<1> QED
  BY <1>3, <1>4, <1>5, <1>7, PlainSequences

LEMMA PlainDeclarations ==
    ASSUME NEW p
    PROVE  AllPlain(DeclarationFiles(p))
<1>1. "yaml" \in OtherTags /\ <<"Declarations">>[1] = "Declarations"
  BY DEF OtherTags
<1>2. Plain(Write(<<"Declarations">>, Listing("yaml", p.functions)))
  BY <1>1, PlainTexts
<1> QED
  BY <1>2, PlainSequences DEF DeclarationFiles

ShardsOf(k) == IF k = "CPU" THEN 4 ELSE 1
RegisterWhole(p, o, k) ==
    [file |-> Append(<<"Register", k>>, "Everything"), text |-> RegisterText(p, o, k, Roots(p)),
     listed |-> FALSE]
RegisterShard(p, o, k, i) ==
    Write(Append(<<"Register", k>>, ShardNames[i]),
          RegisterText(p, o, k, Shard(Roots(p), ShardsOf(k), i)))
RegisterWrites(p, o, k) ==
    {RegisterWhole(p, o, k)} \cup {RegisterShard(p, o, k, i) : i \in 1..ShardsOf(k)}
SchemaWrite(p, o) == Write(<<"RegisterSchema">>, SchemaText(p, o))

LEMMA Listed ==
    ASSUME NEW n \in Nat, NEW s, s = [i \in 1..n |-> s[i]]
    PROVE  IsSeq(s) /\ ToSet(s) = {s[i] : i \in 1..n}
<1>1. ToSet(s) = {s[i] : i \in 1..n}
  BY DEF ToSet
<1>2. s \in [1..n -> ToSet(s)]
  BY <1>1
<1>3. s \in Seq(ToSet(s))
  BY <1>2, SeqDef
<1> QED
  BY <1>1, <1>3 DEF IsSeq

LEMMA OneMore ==
    ASSUME NEW a, NEW s, IsSeq(s)
    PROVE  IsSeq(<<a>> \o s) /\ ToSet(<<a>> \o s) = {a} \cup ToSet(s)
BY Tuples, Concatenated

LEMMA KeyWrites ==
    ASSUME NEW p, NEW o, NEW k, IsFiniteSet(p.units)
    PROVE  /\ IsSeq(KeySources(p, o, k))
           /\ RegisterWrites(p, o, k) \subseteq ToSet(KeySources(p, o, k))
           /\ \A w \in ToSet(KeySources(p, o, k)) : Plain(w) \/ w \in RegisterWrites(p, o, k)
<1> DEFINE n == ShardsOf(k)
           shards == [i \in 1..n |-> RegisterShard(p, o, k, i)]
           sharded == <<RegisterWhole(p, o, k)>> \o shards
           loops == {g \in p.units : IsGroup(g) /\ g["out"].ufunc # {} /\ k \in UfuncKeys}
           kernel(g) == GetKernel(p.kernels, k, g["out"].func.name).kernel
           file(g, prefix) == <<"Ufunc", prefix, NameWords(g["functional"].func.name)>>
           first(g) == Write(file(g, k), Text({}, {}, {<<"struct", kernel(g)>>}, {}, {}))
           second(g) == Write(file(g, "CPUKernel"), Listing("ufunc", Members(g)))
           ufunc == [g \in loops |->
                       <<first(g)>> \o (IF k = "CPU" THEN <<second(g)>> ELSE <<>>)]
<1>1. KeySources(p, o, k) = sharded \o ForEach(ufunc)
  <2>1. UfuncWrites(p, k) = ForEach(ufunc)
    BY DEF UfuncWrites
  <2>4. WriteSharded(<<"Register", k>>, Roots(p), n, LAMBDA roots : RegisterText(p, o, k, roots))
          = sharded
    <3>1. shards = [i \in 1..n |-> Write(Append(<<"Register", k>>, ShardNames[i]),
                                   RegisterText(p, o, k, Shard(Roots(p), n, i)))]
      BY DEF RegisterShard
    <3> HIDE DEF shards, n
    <3> QED
      BY <3>1 DEF WriteSharded, RegisterWhole
  <2> HIDE DEF sharded, ufunc
  <2> QED
    BY <2>1, <2>4 DEF KeySources, ShardsOf
<1>2. IsSeq(sharded) /\ ToSet(sharded) = RegisterWrites(p, o, k)
  <2>1. n \in Nat /\ shards = [i \in 1..n |-> shards[i]]
    BY DEF ShardsOf
  <2>2. {shards[i] : i \in 1..n} = {RegisterShard(p, o, k, i) : i \in 1..n}
    OBVIOUS
  <2> HIDE DEF shards
  <2>3. IsSeq(shards) /\ ToSet(shards) = {RegisterShard(p, o, k, i) : i \in 1..n}
    BY <2>1, <2>2, Listed
  <2> QED
    BY <2>3, OneMore DEF RegisterWrites
<1>3. AllPlain(ForEach(ufunc))
  <2>1. \A g \in loops : Plain(first(g)) /\ Plain(second(g))
    <3>1. \A g, prefix : file(g, prefix)[1] = "Ufunc"
      OBVIOUS
    <3>2. "ufunc" \in OtherTags
      BY DEF OtherTags
    <3> HIDE DEF file
    <3> QED
      BY <3>1, <3>2, PlainTexts
  <2>2. DOMAIN ufunc = loops /\ \A g \in loops :
          ufunc[g] = <<first(g)>> \o (IF k = "CPU" THEN <<second(g)>> ELSE <<>>)
    OBVIOUS
  <2>3. IsFiniteSet(loops)
    BY FS_Subset
  <2> HIDE DEF ufunc, loops, first, second
  <2>4. ASSUME NEW g \in loops PROVE AllPlain(ufunc[g])
    <3>1. AllPlain(<<first(g)>>) /\ AllPlain(<<second(g)>>) /\ AllPlain(<<>>)
      BY <2>1, PlainSequences
    <3> QED
      BY <2>2, <3>1, PlainSequences
  <2> QED
    BY <2>2, <2>3, <2>4, PlainForEach
<1> HIDE DEF sharded, ufunc
<1> QED
  BY <1>1, <1>2, <1>3, Concatenated DEF AllPlain

LEMMA PlainSharded ==
    ASSUME NEW a, NEW n \in Nat, NEW s, s = [i \in 1..n |-> s[i]], Plain(a),
           \A i \in 1..n : Plain(s[i])
    PROVE  AllPlain(<<a>> \o s)
<1>1. IsSeq(s) /\ ToSet(s) = {s[i] : i \in 1..n}
  BY Listed
<1>2. IsSeq(<<a>> \o s) /\ ToSet(<<a>> \o s) = {a} \cup ToSet(s)
  BY <1>1, OneMore
<1> QED
  BY <1>1, <1>2 DEF AllPlain

OperatorsWrites(p, o) ==
    WriteSharded(<<"Operators.cpp">>, Roots(p), 5, LAMBDA roots : OperatorsText(p, o, roots))
FunctionalizationWrites(p, o) ==
    WriteSharded(<<"RegisterFunctionalization">>, Roots(p), 4,
                 LAMBDA roots : FunctionalizationText(p, o, roots))

OperatorsWhole(p, o) ==
    [file |-> Append(<<"Operators.cpp">>, "Everything"),
     text |-> OperatorsText(p, o, Roots(p)), listed |-> FALSE]
OperatorsShard(p, o, i) ==
    Write(Append(<<"Operators.cpp">>, ShardNames[i]), OperatorsText(p, o, Shard(Roots(p), 5, i)))
OperatorsShards(p, o) == {OperatorsWhole(p, o)} \cup {OperatorsShard(p, o, i) : i \in 1..5}

LEMMA OperatorsWritten ==
    ASSUME NEW p, NEW o
    PROVE  IsSeq(OperatorsWrites(p, o)) /\ ToSet(OperatorsWrites(p, o)) = OperatorsShards(p, o)
<1> DEFINE s == [i \in 1..5 |-> OperatorsShard(p, o, i)]
<1>1. s = [i \in 1..5 |-> s[i]] /\ {s[i] : i \in 1..5} = {OperatorsShard(p, o, i) : i \in 1..5}
  OBVIOUS
<1>2. OperatorsWrites(p, o) = <<OperatorsWhole(p, o)>> \o s
  BY DEF OperatorsWrites, WriteSharded, OperatorsWhole, OperatorsShard
<1> HIDE DEF s
<1>3. IsSeq(s) /\ ToSet(s) = {OperatorsShard(p, o, i) : i \in 1..5}
  BY <1>1, Listed
<1> QED
  BY <1>2, <1>3, OneMore DEF OperatorsShards

LEMMA OperatorsFile ==
    ASSUME NEW name
    PROVE  LET file == Append(<<"Operators.cpp">>, name)
           IN  file[1] = "Operators.cpp" /\ file[2] = name
OBVIOUS

\* What is in the shards of Operators.cpp, and under which name.
LEMMA OperatorsFiles ==
    ASSUME NEW p, NEW o
    PROVE  /\ \A w \in OperatorsShards(p, o) :
                /\ w.file[1] = "Operators.cpp" /\ w.text.registers = {}
                /\ w.listed <=> w.file[2] # "Everything"
                /\ w.listed => \E i \in 1..5 : w = OperatorsShard(p, o, i)
           /\ \A i \in 1..5 :
                /\ OperatorsShard(p, o, i) \in OperatorsShards(p, o)
                /\ OperatorsShard(p, o, i).listed
                /\ OperatorsShard(p, o, i).file[2] = ShardNames[i]
                /\ OperatorsShard(p, o, i).text.defines
                     = OpsDeclared(FunctionsOf(p, Shard(Roots(p), 5, i)))
<1>1. \A roots : /\ OperatorsText(p, o, roots).registers = {}
                 /\ OperatorsText(p, o, roots).defines = OpsDeclared(FunctionsOf(p, roots))
  BY DEF OperatorsText, Text
<1>2. \A i \in 1..5 : ShardNames[i] # "Everything"
  BY DEF ShardNames
<1>3. \A i \in 1..5 :
         /\ OperatorsShard(p, o, i).file[1] = "Operators.cpp"
         /\ OperatorsShard(p, o, i).file[2] = ShardNames[i]
         /\ OperatorsShard(p, o, i).listed
         /\ OperatorsShard(p, o, i).text.registers = {}
         /\ OperatorsShard(p, o, i).text.defines
              = OpsDeclared(FunctionsOf(p, Shard(Roots(p), 5, i)))
  BY <1>1, OperatorsFile DEF OperatorsShard, Write
<1>4. /\ OperatorsWhole(p, o).file[1] = "Operators.cpp"
      /\ OperatorsWhole(p, o).file[2] = "Everything"
      /\ ~OperatorsWhole(p, o).listed
      /\ OperatorsWhole(p, o).text.registers = {}
  BY <1>1, OperatorsFile DEF OperatorsWhole
<1> QED
  BY <1>2, <1>3, <1>4 DEF OperatorsShards

LEMMA PlainFunctionalization ==
    ASSUME NEW p, NEW o
    PROVE  AllPlain(FunctionalizationWrites(p, o))
<1> DEFINE a == [file |-> Append(<<"RegisterFunctionalization">>, "Everything"),
                 text |-> FunctionalizationText(p, o, Roots(p)), listed |-> FALSE]
           s == [i \in 1..4 |-> Write(Append(<<"RegisterFunctionalization">>, ShardNames[i]),
                                      FunctionalizationText(p, o, Shard(Roots(p), 4, i)))]
<1>1. \A roots : \A r \in FunctionalizationText(p, o, roots).registers : r[1] \in OtherTags
  <2>1. \A roots : \A r \in FunctionalizationText(p, o, roots).registers :
           \E x : r = <<"Functionalize", x>>
    BY DEF FunctionalizationText, Text
  <2> QED
    BY <2>1 DEF OtherTags
<1>2. \A name : Append(<<"RegisterFunctionalization">>, name)[1] = "RegisterFunctionalization"
  OBVIOUS
<1>3. Plain(a) /\ \A i \in 1..4 : Plain(s[i])
  BY <1>1, <1>2 DEF Plain, Write
<1>4. s = [i \in 1..4 |-> s[i]]
  OBVIOUS
<1>5. FunctionalizationWrites(p, o) = <<a>> \o s
  BY DEF FunctionalizationWrites, WriteSharded
<1> HIDE DEF a, s
<1> QED
  BY <1>3, <1>4, <1>5, PlainSharded

LEMMA PlainViewMetas ==
    ASSUME NEW p, NEW o
    PROVE  AllPlain(ViewMetaWrites(p, o))
<1> DEFINE views == ViewMetaViews(p, o)
           all(Of(_, _)) == UNION {UNION {Of(f, vg) : f \in ViewMembers(vg)} : vg \in views}
           classes == all(LAMBDA f, vg : {<<"viewmeta", UnambiguousName(f.func.name)>>})
           headers == BothHeaders(UNION {Members(vg) : vg \in p.views})
           a == Write(<<"FunctionalInverses">>,
                      Declaring(IF o.sel.all THEN InverseDeclared(p) ELSE {}))
           b == Write(<<"ViewMetaClasses">>, Declaring(classes))
           c == Write(<<"ViewMetaClasses.cpp">>,
                Text({<<"FunctionalInverses">>, <<"ViewMetaClasses">>} \cup
                       PerRoot(o, headers, {Umbrella("NativeFunctions"), Umbrella("Operators")}),
                     {}, classes,
                     all(ViewMetaCalls) \cup
                       all(LAMBDA f, vg : {ViewMetaBuilds(f)}), {}))
<1>1. ViewMetaWrites(p, o) = <<a, b, c>>
  BY DEF ViewMetaWrites
<1>2. Plain(a) /\ Plain(b) /\ Plain(c)
  <2>1. /\ <<"FunctionalInverses">>[1] = "FunctionalInverses"
        /\ <<"ViewMetaClasses">>[1] = "ViewMetaClasses"
        /\ <<"ViewMetaClasses.cpp">>[1] = "ViewMetaClasses.cpp"
    OBVIOUS
  <2> HIDE DEF views, classes, headers
  <2> QED
    BY <2>1, PlainTexts
<1> HIDE DEF a, b, c
<1>3. ToSet(<<a, b, c>>) = {a, b, c}
  BY DEF ToSet
<1>4. IsSeq(<<a, b, c>>)
  BY <1>3 DEF IsSeq
<1> QED
  BY <1>1, <1>2, <1>3, <1>4 DEF AllPlain

\* The sources: the kernels of each key, the schemas, at::_ops, and the other files.
LEMMA SourceWrites ==
    ASSUME NEW p, NEW o, IsFiniteSet(p.units), IsFiniteSet(o.keys)
    PROVE  /\ IsSeq(SourceFiles(p, o))
           /\ SchemaWrite(p, o) \in ToSet(SourceFiles(p, o))
           /\ OperatorsShards(p, o) \subseteq ToSet(SourceFiles(p, o))
           /\ \A k \in o.keys : RegisterWrites(p, o, k) \subseteq ToSet(SourceFiles(p, o))
           /\ \A w \in ToSet(SourceFiles(p, o)) :
                \/ Plain(w) \/ w = SchemaWrite(p, o) \/ w \in OperatorsShards(p, o)
                \/ \E k \in o.keys : w \in RegisterWrites(p, o, k)
<1> DEFINE each == [k \in o.keys |-> KeySources(p, o, k)]
           select == Write(<<"RegisterBackendSelect">>, BackendSelectText(p, o))
           schema == SchemaWrite(p, o)
           operators == OperatorsWrites(p, o)
           a == Write(<<"Functions.cpp">>, Declaring({}))
           b == Write(<<"TensorMethods.cpp">>, Declaring({}))
           c == Write(<<"ATenOpList">>, Listing("list", p.functions))
           functionalization == FunctionalizationWrites(p, o)
           last == Write(<<"CompositeViewCopyKernels">>, CompositeText(p, o))
           keys == ForEach(each)
           two == <<select, schema>>
           three == <<a, b, c>>
           metas == ViewMetaWrites(p, o)
<1>1. SourceFiles(p, o) =
        keys \o two \o operators \o three \o functionalization \o metas \o <<last>>
  BY DEF SourceFiles, SchemaWrite, OperatorsWrites, FunctionalizationWrites
<1>2. /\ IsSeq(keys)
      /\ ToSet(keys) = UNION {ToSet(KeySources(p, o, k)) : k \in o.keys}
  <2>1. DOMAIN each = o.keys /\ \A k \in o.keys : each[k] = KeySources(p, o, k)
    OBVIOUS
  <2> HIDE DEF each
  <2>2. \A k \in o.keys : IsSeq(each[k])
    BY <2>1, KeyWrites
  <2>3. IsSeq(keys) /\ ToSet(keys) = UNION {ToSet(each[k]) : k \in DOMAIN each}
    BY <2>1, <2>2, ForEachWrites
  <2> QED
    BY <2>1, <2>3
<1>3. Plain(select)
  <2>1. \A r \in BackendSelectText(p, o).registers : r[1] = "BackendSelect"
    <3>1. \A r \in BackendSelectText(p, o).registers : \E n : r = <<"BackendSelect", n>>
      BY DEF BackendSelectText, Text
    <3> QED
      BY <3>1
  <2>2. <<"RegisterBackendSelect">>[1] = "RegisterBackendSelect"
    OBVIOUS
  <2> QED
    BY <2>1, <2>2 DEF Plain, Write, OtherTags
<1>4. Plain(a) /\ Plain(b) /\ Plain(c) /\ Plain(last)
  <2>1. /\ <<"Functions.cpp">>[1] = "Functions.cpp" /\ <<"TensorMethods.cpp">>[1] = "TensorMethods.cpp"
        /\ <<"ATenOpList">>[1] = "ATenOpList"
        /\ <<"CompositeViewCopyKernels">>[1] = "CompositeViewCopyKernels"
        /\ "list" \in OtherTags
    BY DEF OtherTags
  <2> QED
    BY <2>1, PlainTexts DEF CompositeText
<1>5. AllPlain(functionalization) /\ AllPlain(metas)
  <2>1. AllPlain(functionalization)
    BY PlainFunctionalization
  <2> QED
    BY <2>1, PlainViewMetas
<1>op. IsSeq(operators) /\ ToSet(operators) = OperatorsShards(p, o)
  BY OperatorsWritten
<1>6. AllPlain(three)
  <2> HIDE DEF a, b, c
  <2>1. ToSet(<<a, b, c>>) = {a, b, c}
    BY DEF ToSet
  <2>2. IsSeq(<<a, b, c>>)
    BY <2>1 DEF IsSeq
  <2> QED
    BY <1>4, <2>1, <2>2 DEF AllPlain
<1>7. IsSeq(two) /\ ToSet(two) = {select, schema}
  BY TwoWrites
<1> HIDE DEF keys, two, three, metas, operators, functionalization, last, select, schema
<1> DEFINE own == ToSet(keys) \cup {schema} \cup OperatorsShards(p, o)
           Mixed(s) == /\ IsSeq(s) /\ own \subseteq ToSet(s)
                       /\ \A w \in ToSet(s) : Plain(w) \/ w \in own
<1>8. Mixed(keys \o two \o operators)
  <2>1. IsSeq(keys \o two) /\ ToSet(keys \o two) = ToSet(keys) \cup {select, schema}
    BY <1>2, <1>7, Concatenated
  <2>2. /\ IsSeq(keys \o two \o operators)
        /\ ToSet(keys \o two \o operators)
             = ToSet(keys) \cup {select, schema} \cup OperatorsShards(p, o)
    BY <1>op, <2>1, Concatenated
  <2> QED
    BY <1>3, <2>2
<1>9. ASSUME NEW s, NEW t, Mixed(s), AllPlain(t) PROVE Mixed(s \o t)
  <2>1. IsSeq(s \o t) /\ ToSet(s \o t) = ToSet(s) \cup ToSet(t)
    BY <1>9, Concatenated DEF AllPlain
  <2> QED
    BY <1>9, <2>1 DEF AllPlain
<1>10. AllPlain(<<last>>)
  BY <1>4, PlainSequences
<1> HIDE DEF Mixed
<1>11. Mixed(SourceFiles(p, o))
  <2>2. Mixed(keys \o two \o operators \o three)
    BY <1>6, <1>8, <1>9
  <2>3. Mixed(keys \o two \o operators \o three \o functionalization)
    BY <1>5, <1>9, <2>2
  <2>4. Mixed(keys \o two \o operators \o three \o functionalization \o metas)
    BY <1>5, <1>9, <2>3
  <2> QED
    BY <1>1, <1>9, <1>10, <2>4
<1>12. \A w \in ToSet(keys) : Plain(w) \/ \E k \in o.keys : w \in RegisterWrites(p, o, k)
  BY <1>2, KeyWrites
<1>13. \A k \in o.keys : RegisterWrites(p, o, k) \subseteq ToSet(keys)
  BY <1>2, KeyWrites
<1> QED
  BY <1>11, <1>12, <1>13 DEF schema, Mixed

\* What a generator run registers: the kernels of each key in its shards, and the schemas.
LEMMA PlanWrites ==
    ASSUME NEW p, NEW o, NEW generate, "sources" \in generate,
           IsFiniteSet(p.units), IsFiniteSet(Roots(p)), IsFiniteSet(o.keys)
    PROVE  LET W == ToSet(WritesOf(p, o, generate))
           IN  /\ IsSeq(WritesOf(p, o, generate))
               /\ SchemaWrite(p, o) \in W
               /\ OperatorsShards(p, o) \subseteq W
               /\ \A k \in o.keys : RegisterWrites(p, o, k) \subseteq W
               /\ \A w \in W : \/ Plain(w) \/ w = SchemaWrite(p, o) \/ w \in OperatorsShards(p, o)
                               \/ \E k \in o.keys : w \in RegisterWrites(p, o, k)
<1> DEFINE sources == SourceFiles(p, o)
           headers == IF "headers" \in generate THEN HeaderFiles(p, o) ELSE <<>>
           yaml == IF "declarations_yaml" \in generate THEN DeclarationFiles(p) ELSE <<>>
<1>1. WritesOf(p, o, generate) = sources \o headers \o yaml
  BY DEF WritesOf
<1>2. AllPlain(headers) /\ AllPlain(yaml)
  BY PlainHeaders, PlainDeclarations, PlainSequences
<1>3. /\ IsSeq(sources) /\ SchemaWrite(p, o) \in ToSet(sources)
      /\ OperatorsShards(p, o) \subseteq ToSet(sources)
      /\ \A k \in o.keys : RegisterWrites(p, o, k) \subseteq ToSet(sources)
      /\ \A w \in ToSet(sources) : \/ Plain(w) \/ w = SchemaWrite(p, o)
                                   \/ w \in OperatorsShards(p, o)
                                   \/ \E k \in o.keys : w \in RegisterWrites(p, o, k)
  BY SourceWrites
<1> HIDE DEF sources, headers, yaml
<1>4. /\ IsSeq(sources \o headers)
      /\ ToSet(sources \o headers) = ToSet(sources) \cup ToSet(headers)
  BY <1>2, <1>3, Concatenated DEF AllPlain
<1>5. /\ IsSeq(sources \o headers \o yaml)
      /\ ToSet(sources \o headers \o yaml) = ToSet(sources) \cup ToSet(headers) \cup ToSet(yaml)
  BY <1>2, <1>4, Concatenated DEF AllPlain
<1> QED
  BY <1>1, <1>2, <1>3, <1>5 DEF AllPlain

\* The text of a file is that of one of the writes to it.
LEMMA PlanTexts ==
    ASSUME NEW p, NEW o, NEW s, IsSeq(s)
    PROVE  LET plan == PlanOf(p, o, s)
           IN  /\ plan.listed = {w.file : w \in {w \in ToSet(s) : w.listed}}
               /\ \A w \in ToSet(s) : \E v \in ToSet(s) :
                    v.file = w.file /\ plan.texts[w.file] = v.text
<1>1. /\ PlanOf(p, o, s).listed = {w.file : w \in {w \in ToSet(s) : w.listed}}
      /\ PlanOf(p, o, s).texts = TextsOf(s)
  BY DEF PlanOf
<1>2. ASSUME NEW w \in ToSet(s)
      PROVE  \E v \in ToSet(s) : v.file = w.file /\ TextsOf(s)[w.file] = v.text
  <2>1. PICK m \in DOMAIN s : s[m] = w
    BY DEF ToSet
  <2> DEFINE n == CHOOSE n \in DOMAIN s : s[n].file = w.file
  <2>2. n \in DOMAIN s /\ s[n].file = w.file
    BY <2>1
  <2>3. TextsOf(s)[w.file] = s[n].text
    BY <2>1 DEF TextsOf
  <2> HIDE DEF n
  <2> QED
    BY <2>2, <2>3 DEF ToSet
<1> QED
  BY <1>1, <1>2

LEMMA ShardFiles ==
    ASSUME NEW k, NEW name
    PROVE  LET file == Append(<<"Register", k>>, name)
           IN  file[1] = "Register" /\ file[2] = k /\ file[3] = name
OBVIOUS

\* What the writes of a key register, and under which name.
LEMMA RegisterFiles ==
    ASSUME NEW p, NEW o, NEW k
    PROVE  /\ \A w \in RegisterWrites(p, o, k) :
                /\ w.file[1] = "Register" /\ w.file[2] = k
                /\ \A r \in w.text.registers : r[1] = k
                /\ w.listed <=> w.file[3] # "Everything"
                /\ w.listed => \E i \in 1..ShardsOf(k) : w = RegisterShard(p, o, k, i)
           /\ \A i \in 1..ShardsOf(k) :
                /\ RegisterShard(p, o, k, i) \in RegisterWrites(p, o, k)
                /\ RegisterShard(p, o, k, i).listed
                /\ RegisterShard(p, o, k, i).file[3] = ShardNames[i]
<1>1. \A roots : \A r \in RegisterText(p, o, k, roots).registers : r[1] = k
  <2>1. \A roots : \A r \in RegisterText(p, o, k, roots).registers : \E n : r = <<k, n>>
    BY DEF RegisterText, Text
  <2> QED
    BY <2>1
<1>2. \A i \in 1..ShardsOf(k) : ShardNames[i] # "Everything"
  BY DEF ShardNames, ShardsOf
<1>3. \A i \in 1..ShardsOf(k) :
         /\ RegisterShard(p, o, k, i).file[1] = "Register"
         /\ RegisterShard(p, o, k, i).file[2] = k
         /\ RegisterShard(p, o, k, i).file[3] = ShardNames[i]
         /\ RegisterShard(p, o, k, i).listed
         /\ \A r \in RegisterShard(p, o, k, i).text.registers : r[1] = k
  BY <1>1, ShardFiles DEF RegisterShard, Write
<1>4. /\ RegisterWhole(p, o, k).file[1] = "Register"
      /\ RegisterWhole(p, o, k).file[2] = k
      /\ RegisterWhole(p, o, k).file[3] = "Everything"
      /\ ~RegisterWhole(p, o, k).listed
      /\ \A r \in RegisterWhole(p, o, k).text.registers : r[1] = k
  BY <1>1, ShardFiles DEF RegisterWhole
<1> QED
  BY <1>2, <1>3, <1>4 DEF RegisterWrites

LEMMA ShardName ==
    ASSUME NEW p, NEW o, NEW k, NEW i
    PROVE  RegisterShard(p, o, k, i).file[3] = ShardNames[i]
BY ShardFiles DEF RegisterShard, Write

Registrations(plan) == UNION {plan.texts[f].registers : f \in plan.listed}

LEMMA PlanRegisters ==
    ASSUME NEW p, NEW o, NEW generate, "sources" \in generate,
           IsFiniteSet(p.units), IsFiniteSet(Roots(p)), IsFiniteSet(o.keys),
           o.keys \subseteq DispatchKeys
    PROVE  LET R == Registrations(PlanOf(p, o, WritesOf(p, o, generate)))
           IN  /\ \A n : <<"schema", n>> \in R <=> <<"schema", n>> \in SchemaText(p, o).registers
               /\ \A k \in o.keys : \A n :
                    <<k, n>> \in R <=> \E i \in 1..ShardsOf(k) :
                                          <<k, n>> \in RegisterShard(p, o, k, i).text.registers
<1> DEFINE s == WritesOf(p, o, generate)
           W == ToSet(s)
           plan == PlanOf(p, o, s)
           R == Registrations(plan)
<1>1. /\ IsSeq(s) /\ SchemaWrite(p, o) \in W
      /\ \A k \in o.keys : RegisterWrites(p, o, k) \subseteq W
      /\ \A w \in W : \/ Plain(w) \/ w = SchemaWrite(p, o) \/ w \in OperatorsShards(p, o)
                      \/ \E k \in o.keys : w \in RegisterWrites(p, o, k)
  BY PlanWrites
<1>2. /\ plan.listed = {w.file : w \in {w \in W : w.listed}}
      /\ \A w \in W : \E v \in W : v.file = w.file /\ plan.texts[w.file] = v.text
  <2> HIDE DEF s
  <2> QED
    BY <1>1, PlanTexts
<1> HIDE DEF s, W, plan
<1>3. /\ SchemaWrite(p, o).file[1] = "RegisterSchema" /\ SchemaWrite(p, o).listed
      /\ SchemaWrite(p, o).text = SchemaText(p, o)
      /\ \A r \in SchemaText(p, o).registers : r[1] = "schema"
  <2>1. \A r \in SchemaText(p, o).registers : \E n : r = <<"schema", n>>
    BY DEF SchemaText, Text
  <2>2. \A r \in SchemaText(p, o).registers : r[1] = "schema"
    BY <2>1
  <2> QED
    BY <2>2 DEF SchemaWrite, Write
<1>4. \A w \in W : Plain(w) => /\ w.file[1] \notin {"Register", "RegisterSchema"}
                               /\ \A r \in w.text.registers : r[1] \in OtherTags
  BY DEF Plain
<1>op. \A w \in OperatorsShards(p, o) : w.file[1] = "Operators.cpp" /\ w.text.registers = {}
  BY OperatorsFiles
<1>5. \A r : r \in R <=> \E f \in plan.listed : r \in plan.texts[f].registers
  BY DEF Registrations
<1>6. \A f \in plan.listed : \E w, v \in W :
         /\ w.listed /\ w.file = f /\ v.file = f /\ plan.texts[f] = v.text
  BY <1>2
<1>7. \A w \in W : w.listed => w.file \in plan.listed
  BY <1>2
<1> HIDE DEF R
<1>8. ASSUME NEW n PROVE <<"schema", n>> \in R <=> <<"schema", n>> \in SchemaText(p, o).registers
  <2>0. <<"schema", n>>[1] = "schema"
    OBVIOUS
  <2>1. ASSUME <<"schema", n>> \in R PROVE <<"schema", n>> \in SchemaText(p, o).registers
    <3>1. PICK f \in plan.listed : <<"schema", n>> \in plan.texts[f].registers
      BY <1>5, <2>1
    <3>2. PICK v \in W : plan.texts[f] = v.text
      BY <1>6
    <3>3. ~Plain(v)
      BY <1>4, <2>0, <3>1, <3>2, TagsDiffer
    <3>4. \A k \in o.keys : v \notin RegisterWrites(p, o, k)
      BY <2>0, <3>1, <3>2, RegisterFiles, TagsDiffer
    <3> QED
      BY <1>1, <1>3, <1>op, <3>1, <3>2, <3>3, <3>4
  <2>2. ASSUME <<"schema", n>> \in SchemaText(p, o).registers PROVE <<"schema", n>> \in R
    <3> DEFINE f == SchemaWrite(p, o).file
    <3>1. f \in plan.listed /\ f[1] = "RegisterSchema"
      BY <1>1, <1>3, <1>7
    <3> HIDE DEF f
    <3>2. PICK v \in W : v.file = f /\ plan.texts[f] = v.text
      BY <1>6, <3>1
    <3>3. v = SchemaWrite(p, o)
      BY <1>1, <1>4, <1>op, <3>1, <3>2, RegisterFiles
    <3> QED
      BY <1>3, <1>5, <2>2, <3>1, <3>2, <3>3
  <2> QED
    BY <2>1, <2>2
<1>9. ASSUME NEW k \in o.keys, NEW n
      PROVE  <<k, n>> \in R <=> \E i \in 1..ShardsOf(k) :
                                   <<k, n>> \in RegisterShard(p, o, k, i).text.registers
  <2>0. <<k, n>>[1] = k /\ k \in DispatchKeys
    OBVIOUS
  <2>3. \A j \in 1..ShardsOf(k) : RegisterShard(p, o, k, j).file[3] = ShardNames[j]
    BY ShardName
  <2>1. ASSUME <<k, n>> \in R
        PROVE  \E i \in 1..ShardsOf(k) : <<k, n>> \in RegisterShard(p, o, k, i).text.registers
    <3>1. PICK f \in plan.listed : <<k, n>> \in plan.texts[f].registers
      BY <1>5, <2>1
    <3>2. PICK w \in W, v \in W : w.listed /\ w.file = f /\ v.file = f /\ plan.texts[f] = v.text
      BY <1>6
    <3>3. ~Plain(v) /\ v # SchemaWrite(p, o)
      BY <1>3, <1>4, <2>0, <3>1, <3>2, TagsDiffer
    <3>4. PICK j \in o.keys : v \in RegisterWrites(p, o, j)
      BY <1>1, <1>op, <3>1, <3>2, <3>3
    <3>5. j = k /\ v.file[1] = "Register"
      BY <2>0, <3>1, <3>2, <3>4, RegisterFiles
    <3>6. ~Plain(w) /\ w # SchemaWrite(p, o) /\ w \notin OperatorsShards(p, o)
      BY <1>3, <1>4, <1>op, <3>2, <3>5
    <3>7. w.file[3] # "Everything"
      BY <1>1, <3>2, <3>6, RegisterFiles
    <3>8. v.listed
      BY <3>2, <3>4, <3>7, RegisterFiles
    <3> QED
      BY <3>1, <3>2, <3>4, <3>5, <3>8, RegisterFiles
  <2>2. ASSUME NEW i \in 1..ShardsOf(k), <<k, n>> \in RegisterShard(p, o, k, i).text.registers
        PROVE  <<k, n>> \in R
    <3> DEFINE u == RegisterShard(p, o, k, i)
    <3>1. /\ u \in W /\ u.listed /\ u.file[1] = "Register" /\ u.file[2] = k
          /\ u.file[3] = ShardNames[i]
      BY <1>1, RegisterFiles
    <3> HIDE DEF u
    <3>2. PICK v \in W : v.file = u.file /\ plan.texts[u.file] = v.text
      BY <1>2, <3>1
    <3>3. PICK j \in o.keys : v \in RegisterWrites(p, o, j)
      BY <1>1, <1>3, <1>4, <1>op, <3>1, <3>2
    <3>4. j = k
      BY <3>1, <3>2, <3>3, RegisterFiles
    <3>5. v.listed
      <4>1. ShardNames[i] # "Everything"
        BY DEF ShardNames, ShardsOf
      <4> QED
        BY <3>1, <3>2, <3>3, <4>1, RegisterFiles
    <3>6. PICK m \in 1..ShardsOf(k) : v = RegisterShard(p, o, k, m)
      BY <3>3, <3>4, <3>5, RegisterFiles
    <3>7. ShardNames[m] = ShardNames[i]
      BY <2>3, <3>1, <3>2, <3>6
    <3>8. m = i
      BY <3>7 DEF ShardNames, ShardsOf
    <3>9. u.file \in plan.listed
      BY <1>7, <3>1
    <3> QED
      BY <1>5, <2>2, <3>2, <3>6, <3>8, <3>9 DEF u
  <2> QED
    BY <2>1, <2>2
<1> QED
  BY <1>8, <1>9 DEF R, plan, s

\* The text of a shard of Operators.cpp is the one written for it.
LEMMA PlanDefines ==
    ASSUME NEW p, NEW o, NEW generate, "sources" \in generate,
           IsFiniteSet(p.units), IsFiniteSet(Roots(p)), IsFiniteSet(o.keys), NEW i \in 1..5
    PROVE  LET plan == PlanOf(p, o, WritesOf(p, o, generate))
               file == OperatorsShard(p, o, i).file
           IN  /\ file \in plan.listed
               /\ plan.texts[file].defines = OpsDeclared(FunctionsOf(p, Shard(Roots(p), 5, i)))
<1> DEFINE s == WritesOf(p, o, generate)
           W == ToSet(s)
           plan == PlanOf(p, o, s)
           shard == OperatorsShard(p, o, i)
<1>1. /\ IsSeq(s) /\ OperatorsShards(p, o) \subseteq W
      /\ \A w \in W : \/ Plain(w) \/ w = SchemaWrite(p, o) \/ w \in OperatorsShards(p, o)
                      \/ \E k \in o.keys : w \in RegisterWrites(p, o, k)
  BY PlanWrites
<1>2. /\ plan.listed = {w.file : w \in {w \in W : w.listed}}
      /\ \A w \in W : \E v \in W : v.file = w.file /\ plan.texts[w.file] = v.text
  <2> HIDE DEF s
  <2> QED
    BY <1>1, PlanTexts
<1>3. /\ shard \in OperatorsShards(p, o) /\ shard.listed
      /\ shard.file[1] = "Operators.cpp" /\ shard.file[2] = ShardNames[i]
  BY OperatorsFiles
<1> HIDE DEF s, W, plan, shard
<1>4. PICK v \in W : v.file = shard.file /\ plan.texts[shard.file] = v.text
  BY <1>1, <1>2, <1>3
<1>5. v \in OperatorsShards(p, o)
  <2>1. SchemaWrite(p, o).file[1] = "RegisterSchema"
    BY DEF SchemaWrite, Write
  <2>2. \A k \in o.keys : \A w \in RegisterWrites(p, o, k) : w.file[1] = "Register"
    BY RegisterFiles
  <2>3. ~Plain(v)
    BY <1>3, <1>4 DEF Plain
  <2> QED
    BY <1>1, <1>3, <1>4, <2>1, <2>2, <2>3
<1>6. PICK j \in 1..5 : v = OperatorsShard(p, o, j)
  <2>1. ShardNames[i] # "Everything"
    BY DEF ShardNames
  <2> QED
    BY <1>3, <1>4, <1>5, <2>1, OperatorsFiles
<1>7. j = i
  <2>1. ShardNames[j] = ShardNames[i]
    BY <1>3, <1>4, <1>6, OperatorsFiles
  <2> QED
    BY <2>1 DEF ShardNames
<1>8. plan.texts[shard.file].defines = OpsDeclared(FunctionsOf(p, Shard(Roots(p), 5, i)))
  BY <1>4, <1>6, <1>7, OperatorsFiles
<1> QED
  BY <1>1, <1>2, <1>3, <1>8 DEF shard, plan, s, W

\* Every operator is defined in one of the shards.
LEMMA PlanDefinesAll ==
    ASSUME NEW rs, NEW kernels, NEW o, NEW generate, "sources" \in generate,
           IsFiniteSet(rs), IsFiniteSet(o.keys),
           NEW f \in rs, Hash[f.func.name.base] \in Nat
    PROVE  LET plan == PlanOf(Program(rs, kernels), o, WritesOf(Program(rs, kernels), o, generate))
           IN  \E file \in plan.listed : OpDeclared(f) \subseteq plan.texts[file].defines
<1> DEFINE p == Program(rs, kernels)
           root == f.func.name.base
           i == (Hash[root] % 5) + 1
<1>1. IsFiniteSet(p.units) /\ IsFiniteSet(Roots(p)) /\ p.functions = rs
  BY FiniteProgram DEF Program
<1> HIDE DEF p
<1>2. i \in 1..5 /\ root \in Shard(Roots(p), 5, i)
  <2>1. root \in Roots(p)
    BY <1>1 DEF Roots
  <2>2. Hash[root] % 5 \in 0..4
    OBVIOUS
  <2>3. i \in 1..5 /\ Hash[root] % 5 = i - 1
    BY <2>2
  <2> QED
    BY <2>1, <2>3 DEF Shard
<1> HIDE DEF i
<1>3. f \in FunctionsOf(p, Shard(Roots(p), 5, i))
  BY <1>1, <1>2 DEF FunctionsOf
<1>4. OpDeclared(f) \subseteq OpsDeclared(FunctionsOf(p, Shard(Roots(p), 5, i)))
  BY <1>3 DEF OpsDeclared
<1> DEFINE file == OperatorsShard(p, o, i).file
           plan == PlanOf(p, o, WritesOf(p, o, generate))
<1>5. file \in plan.listed
      /\ plan.texts[file].defines = OpsDeclared(FunctionsOf(p, Shard(Roots(p), 5, i)))
  BY <1>1, <1>2, PlanDefines
<1> QED
  BY <1>4, <1>5 DEF p

\* What a key registers: the names of the functions its wrappers are written for, where
\* the build selects them.
LEMMA KeyRegisters ==
    ASSUME NEW p, NEW o, NEW k, NEW i \in 1..ShardsOf(k), ~o.skip, NEW n
    PROVE  <<k, n>> \in RegisterShard(p, o, k, i).text.registers <=>
             \E u \in UnitsOf(p, Shard(Roots(p), ShardsOf(k), i)) :
               \E f \in Wrapped(u, p.kernels, k) \cap SelectedFunctions(p, o) :
                 f.func.name = n
<1> DEFINE us == UnitsOf(p, Shard(Roots(p), ShardsOf(k), i))
           names == Impls(us, p.kernels, k, SelectedFunctions(p, o), o.skip)
<1>1. RegisterShard(p, o, k, i).text.registers = {<<k, m>> : m \in names}
  BY DEF RegisterShard, Write, RegisterText, Text
<1>2. names = {f.func.name : f \in AllWrapped(us, p.kernels, k) \cap SelectedFunctions(p, o)}
  BY DEF Impls
<1>3. AllWrapped(us, p.kernels, k) = UNION {Wrapped(u, p.kernels, k) : u \in us}
  BY DEF AllWrapped
<1> HIDE DEF us, names
<1>4. <<k, n>> \in {<<k, m>> : m \in names} <=> n \in names
  OBVIOUS
<1>5. n \in names <=> \E u \in us : \E f \in Wrapped(u, p.kernels, k) \cap SelectedFunctions(p, o) :
                         f.func.name = n
  BY <1>2, <1>3
<1> QED
  BY <1>1, <1>4, <1>5 DEF us

\* A function with a kernel for a key that is not written by hand gets a wrapper for it.
LEMMA KernelsWrapped ==
    ASSUME NEW p, NEW k, NEW u, NEW f \in Members(u), StructuredOK(u, p.kernels, k),
           KindOf(f) \in DOMAIN u => u[KindOf(f)] = f,
           HasKernel(p.kernels, k, f.func.name), ~f.manual
    PROVE  f \in Wrapped(u, p.kernels, k)
<1>1. CASE ~GeneratesClasses(u, p.kernels, k)
  BY <1>1 DEF Wrapped
<1>2. CASE GeneratesClasses(u, p.kernels, k)
  <2>1. ASSUME k = CENF, KindOf(f) = "out" PROVE FALSE
    <3>1. IsStructured(u) /\ "out" \in DOMAIN u
      BY <1>2 DEF GeneratesClasses, IsStructured, IsGroup
    <3>2. u["out"] = f
      BY <2>1, <3>1
    <3>3. IndexKey(p.kernels, k) = k
      BY DEF IndexKey, IndexedKeys, HasKernel
    <3> QED
      BY <1>2, <2>1, <3>2, <3>3 DEF StructuredOK
  <2> QED
    BY <1>2, <2>1 DEF Wrapped
<1> QED
  BY <1>1, <1>2

LEMMA ShardOf ==
    ASSUME NEW p, NEW k, NEW root \in Roots(p), Hash[root] \in Nat
    PROVE  \E i \in 1..ShardsOf(k) : root \in Shard(Roots(p), ShardsOf(k), i)
<1> DEFINE n == ShardsOf(k)
           i == (Hash[root] % n) + 1
<1>1. n \in Nat /\ n > 0
  BY DEF ShardsOf
<1> HIDE DEF n
<1>2. Hash[root] % n \in 0..(n - 1)
  BY <1>1
<1>3. i \in 1..n /\ Hash[root] % n = i - 1
  BY <1>1, <1>2
<1> HIDE DEF i
<1> QED
  BY <1>3 DEF Shard, n

\* The registrations of a plan are those the selection asks for.
LEMMA PlanSelects ==
    ASSUME NEW rs, NEW kernels, NEW o, NEW generate, "sources" \in generate,
           IsFiniteSet(rs), IsFiniteSet(o.keys), o.keys \subseteq DispatchKeys, ~o.skip,
           \A f \in rs : Hash[f.func.name.base] \in Nat,
           ProgramOK(Program(rs, kernels)), \A k \in o.keys : KeyOK(Program(rs, kernels), k)
    PROVE  LET p == Program(rs, kernels)
               R == Registrations(PlanOf(p, o, WritesOf(p, o, generate)))
           IN  \A k \in o.keys, f \in p.functions :
                 /\ <<k, f.func.name>> \in R =>
                      f \in SelectedFunctions(p, o) /\ <<"schema", f.func.name>> \in R
                 /\ f \in SelectedFunctions(p, o) /\ HasKernel(p.kernels, k, f.func.name)
                      /\ ~f.manual => <<k, f.func.name>> \in R
<1> DEFINE p == Program(rs, kernels)
           R == Registrations(PlanOf(p, o, WritesOf(p, o, generate)))
<1>1. p.functions = rs
  BY DEF Program
<1>2. IsFiniteSet(p.units) /\ IsFiniteSet(Roots(p))
  BY FiniteProgram
<1>3. /\ \A n : <<"schema", n>> \in R <=> <<"schema", n>> \in SchemaText(p, o).registers
      /\ \A k \in o.keys : \A n :
           <<k, n>> \in R <=> \E i \in 1..ShardsOf(k) :
                                 <<k, n>> \in RegisterShard(p, o, k, i).text.registers
  <2> HIDE DEF p
  <2> QED
    BY <1>2, PlanRegisters
<1>4. \A u \in p.units : /\ Members(u) \subseteq rs
                         /\ \A f \in Members(u) : KindOf(f) \in DOMAIN u /\ u[KindOf(f)] = f
                         /\ Root(u) \in Roots(p)
  BY ProgramUnits
<1>5. \A f \in rs : \E u \in p.units : f \in Members(u)
  BY ProgramCovered
<1>6. \A k \in o.keys : \A u \in p.units : StructuredOK(u, p.kernels, k)
  BY DEF KeyOK
<1>7. \A r \in Roots(p) : Hash[r] \in Nat
  BY <1>1 DEF Roots
<1> HIDE DEF p, R
<1>8. \A n : <<"schema", n>> \in SchemaText(p, o).registers <=>
               n \in {f.func.name : f \in IF o.force THEN rs ELSE SelectedFunctions(p, o)}
  <2>1. SchemaText(p, o).registers =
          {<<"schema", n>> : n \in Schemas(p.functions, SelectedFunctions(p, o), o.force, o.skip)}
    BY DEF SchemaText, Text
  <2>2. Schemas(p.functions, SelectedFunctions(p, o), o.force, o.skip)
          = {f.func.name : f \in IF o.force THEN rs ELSE SelectedFunctions(p, o)}
    BY <1>1 DEF Schemas
  <2> DEFINE names == {f.func.name : f \in IF o.force THEN rs ELSE SelectedFunctions(p, o)}
  <2> HIDE DEF names
  <2>3. \A n : <<"schema", n>> \in {<<"schema", m>> : m \in names} <=> n \in names
    OBVIOUS
  <2> QED
    BY <2>1, <2>2, <2>3 DEF names
<1>9. \A f, g \in rs : f.func.name = g.func.name /\ g \in SelectedFunctions(p, o) =>
                          f \in SelectedFunctions(p, o)
  BY <1>1 DEF SelectedFunctions
<1>10. ASSUME NEW k \in o.keys, NEW f \in rs
       PROVE  /\ <<k, f.func.name>> \in R =>
                   f \in SelectedFunctions(p, o) /\ <<"schema", f.func.name>> \in R
              /\ f \in SelectedFunctions(p, o) /\ HasKernel(p.kernels, k, f.func.name)
                   /\ ~f.manual => <<k, f.func.name>> \in R
  <2>1. ASSUME <<k, f.func.name>> \in R
        PROVE  f \in SelectedFunctions(p, o) /\ <<"schema", f.func.name>> \in R
    <3>1. PICK i \in 1..ShardsOf(k) :
                 <<k, f.func.name>> \in RegisterShard(p, o, k, i).text.registers
      BY <1>3, <2>1
    <3>2. PICK g \in SelectedFunctions(p, o) : g.func.name = f.func.name
      BY <3>1, KeyRegisters
    <3>3. g \in rs
      BY <1>1 DEF SelectedFunctions
    <3>4. f \in SelectedFunctions(p, o)
      BY <1>9, <3>2, <3>3
    <3> QED
      BY <1>3, <1>8, <3>4
  <2>2. ASSUME f \in SelectedFunctions(p, o), HasKernel(p.kernels, k, f.func.name), ~f.manual
        PROVE  <<k, f.func.name>> \in R
    <3>1. PICK u \in p.units : f \in Members(u)
      BY <1>5
    <3>2. f \in Wrapped(u, p.kernels, k)
      BY <1>4, <1>6, <2>2, <3>1, KernelsWrapped
    <3>3. PICK i \in 1..ShardsOf(k) : Root(u) \in Shard(Roots(p), ShardsOf(k), i)
      BY <1>4, <1>7, ShardOf
    <3>4. u \in UnitsOf(p, Shard(Roots(p), ShardsOf(k), i))
      BY <3>3 DEF UnitsOf
    <3>5. <<k, f.func.name>> \in RegisterShard(p, o, k, i).text.registers
      BY <2>2, <3>2, <3>4, KeyRegisters
    <3> QED
      BY <1>3, <3>5
  <2> QED
    BY <2>1, <2>2
<1> QED
  BY <1>1, <1>10 DEF p, R

HasName(s) == "name" \in DOMAIN s

\* The schema of a generated variant has the root name of the one it is made of.
LEMMA Renamed ==
    ASSUME NEW f, HasName(f)
    PROVE  /\ ToFunctional(f).name.base = f.name.base
           /\ Kind(f) \in {"inplace", "mutable", "functional"} => ToOut(f).name.base = f.name.base
<1>1. \A s, x, y : HasName(s) => /\ [s EXCEPT !.name = x].name = x
                                 /\ [s EXCEPT !.name = x, !.rets = y].name = x
  BY DEF HasName
<1>2. HasName(BareArguments(f)) /\ HasName(RemoveSelfAnnotation(f))
  BY DEF HasName, BareArguments, RemoveSelfAnnotation
<1>3. \A s, outs : HasName(s) => HasName(WithOutArgs(s, outs))
  BY DEF HasName, WithOutArgs
<1>4. \A n, overload : WithOverload(n, overload).base = n.base
  BY DEF WithOverload
<1>5. SelfToOut(f).name.base = f.name.base
  BY <1>1, <1>2, <1>3, <1>4 DEF SelfToOut
<1>6. FunctionalToOut(f).name.base = f.name.base
  BY <1>1, <1>2, <1>3, <1>4 DEF FunctionalToOut
<1>7. MutableToOut(f).name.base = f.name.base
  BY <1>1, <1>2, <1>3, <1>4 DEF MutableToOut
<1>8. ToFunctional(f).name.base = f.name.base
  BY <1>1, <1>2 DEF ToFunctional
<1> QED
  BY <1>5, <1>6, <1>7, <1>8 DEF ToOut

LEMMA BaseIsMember ==
    ASSUME NEW rs, NEW d \in PreGroups(rs), ~Skipped(d)
    PROVE  /\ BaseFn(d) \in rs
           /\ KindOf(BaseFn(d)) \in DOMAIN d \cap {"mutable", "inplace", "out", "functional"}
<1> DEFINE order == <<"mutable", "inplace", "out", "functional">>
           Earliest(i) == order[i] \in DOMAIN d /\ \A j \in 1..(i - 1) : order[j] \notin DOMAIN d
           first == CHOOSE i \in DOMAIN order : Earliest(i)
<1>1. DOMAIN d \cap {"mutable", "inplace", "out", "functional"} # {}
  BY DEF Skipped
<1>2. \E i \in DOMAIN order : Earliest(i)
  <2>1. CASE "mutable" \in DOMAIN d
    <3>1. Earliest(1)
      BY <2>1
    <3> QED
      BY <3>1
  <2>2. CASE "mutable" \notin DOMAIN d /\ "inplace" \in DOMAIN d
    <3>1. Earliest(2)
      BY <2>2
    <3> QED
      BY <3>1
  <2>3. CASE "mutable" \notin DOMAIN d /\ "inplace" \notin DOMAIN d /\ "out" \in DOMAIN d
    <3>1. Earliest(3)
      BY <2>3
    <3> QED
      BY <3>1
  <2>4. CASE DOMAIN d \cap {"mutable", "inplace", "out"} = {}
    <3>1. "functional" \in DOMAIN d
      BY <1>1, <2>4
    <3>2. Earliest(4)
      BY <2>4, <3>1
    <3> QED
      BY <3>2
  <2> QED
    BY <2>1, <2>2, <2>3, <2>4
<1>3. first \in DOMAIN order /\ Earliest(first)
  BY <1>2
<1> HIDE DEF first
<1>4. /\ BaseFn(d) = d[order[first]]
      /\ order[first] \in DOMAIN d \cap {"mutable", "inplace", "out", "functional"}
  BY <1>3 DEF BaseFn, first
<1> HIDE DEF order
<1>5. BaseFn(d) \in Members(d) /\ KindOf(BaseFn(d)) = order[first]
  BY <1>4, PreGroupMembers DEF Members
<1> QED
  BY <1>4, <1>5, PreGroupMembers

LEMMA AddedRoots ==
    ASSUME NEW rs, \A f \in rs : HasName(f.func), NEW d \in PreGroups(rs), NEW a \in AddedTo(d)
    PROVE  \E f \in rs : a.function.func.name.base = f.func.name.base
<1> DEFINE base == BaseFn(d)
<1>1. PICK kind \in (IF GetsOut(d) THEN {"out"} ELSE {})
                      \cup (IF GetsFunctional(d) THEN {"functional"} ELSE {}) :
             a = [function |-> GenerateFunction(base, kind),
                  kernel |-> GeneratedKernel(base, GenerateFunction(base, kind))]
  BY DEF AddedTo
<1>2. ~Skipped(d)
  BY <1>1 DEF GetsOut, GetsFunctional
<1>3. base \in rs /\ KindOf(base) \in DOMAIN d \cap {"mutable", "inplace", "out", "functional"}
  BY <1>2, BaseIsMember
<1>4. a.function.func = IF kind = "out" THEN ToOut(base.func) ELSE ToFunctional(base.func)
  BY <1>1 DEF GenerateFunction
<1>5. kind = "out" => Kind(base.func) \in {"inplace", "mutable", "functional"}
  <2>1. SUFFICES ASSUME kind = "out" PROVE Kind(base.func) \in {"inplace", "mutable", "functional"}
    OBVIOUS
  <2>2. "out" \notin DOMAIN d
    BY <1>1, <2>1 DEF GetsOut
  <2> QED
    BY <1>3, <2>2 DEF KindOf
<1> HIDE DEF base
<1> QED
  BY <1>3, <1>4, <1>5, Renamed

\* What the parse returns: finitely many functions, each under the root name of an entry,
\* and none of the generated ones in a structured group.
LEMMA Parsed ==
    ASSUME NEW yaml, NEW ignore, IsFiniteSet(yaml), Parse(yaml, ignore).ok
    PROVE  LET parsed == Parse(yaml, ignore)
           IN  /\ IsFiniteSet(parsed.functions)
               /\ \A f \in parsed.functions : \E e \in yaml :
                     /\ f.func.name.base = EntrySchema(e).name.base
                     /\ InStructuredGroup(f) => f.func = EntrySchema(e)
<1> DEFINE entries == {FromYaml(e, ignore) : e \in yaml}
           rs == {e.function : e \in entries}
           kernels == UNION {e.kernels : e \in entries}
           pre == PreGroups(rs)
           added == UNION {AddedTo(d) : d \in pre}
           new == {a.function : a \in added}
           parsed == Parse(yaml, ignore)
<1>1. parsed.functions = rs \cup new
  <2> HIDE DEF rs, kernels
  <2>1. \E ok : parsed = WithGroups(rs, kernels, pre, ok)
    BY DEF Parse, WithEntries, WithFunctions, rs, kernels
  <2>2. \E ok : parsed = WithAdded(rs, kernels, pre, added, ok)
    BY <2>1 DEF WithGroups
  <2> HIDE DEF added, pre
  <2>3. \E ok : parsed = Checked(rs \cup {a.function : a \in added},
                                 kernels \cup {a.kernel : a \in added}, ok)
    BY <2>2 DEF WithAdded
  <2> HIDE DEF parsed
  <2>4. \A fs, ks, ok : parsed = Checked(fs, ks, ok) /\ parsed.ok => parsed.functions = fs
    BY DEF Checked
  <2>5. parsed.ok
    BY DEF parsed
  <2> QED
    BY <2>3, <2>4, <2>5
<1>2. /\ \A f \in rs : \E e \in yaml : f.func = EntrySchema(e)
      /\ \A e : HasName(EntrySchema(e))
  <2>1. \A e : FromYaml(e, ignore).function.func = EntrySchema(e)
    BY DEF FromYaml, FromSchema, WithSchema, WithKernels, NativeFunction
  <2>2. \A e : HasName(EntrySchema(e))
    BY DEF HasName, EntrySchema, Schema
  <2> QED
    BY <2>1, <2>2
<1>3. IsFiniteSet(rs)
  <2> DEFINE g == [e \in yaml |-> FromYaml(e, ignore).function]
  <2>1. rs = {g[e] : e \in DOMAIN g} /\ DOMAIN g = yaml
    OBVIOUS
  <2> HIDE DEF g
  <2> QED
    BY <2>1, FiniteImage
<1> HIDE DEF rs
<1>4. IsFiniteSet(added)
  <2>1. ASSUME NEW d PROVE IsFiniteSet(AddedTo(d))
    <3> DEFINE kinds == (IF GetsOut(d) THEN {"out"} ELSE {})
                          \cup (IF GetsFunctional(d) THEN {"functional"} ELSE {})
               g == [kind \in kinds |->
                       [function |-> GenerateFunction(BaseFn(d), kind),
                        kernel |-> GeneratedKernel(BaseFn(d), GenerateFunction(BaseFn(d), kind))]]
    <3>1. AddedTo(d) = {g[kind] : kind \in DOMAIN g} /\ DOMAIN g = kinds
      BY DEF AddedTo
    <3>2. IsFiniteSet(kinds)
      <4>1. kinds \subseteq {"out", "functional"}
        OBVIOUS
      <4>2. IsFiniteSet({"out", "functional"})
        <5>1. IsFiniteSet({"out"}) /\ IsFiniteSet({"functional"})
          BY FS_Singleton
        <5>2. IsFiniteSet({"out"} \cup {"functional"})
          BY <5>1, FS_Union
        <5>3. {"out", "functional"} = {"out"} \cup {"functional"}
          OBVIOUS
        <5> QED
          BY <5>2, <5>3
      <4> QED
        BY <4>1, <4>2, FS_Subset
    <3> HIDE DEF g, kinds
    <3> QED
      BY <3>1, <3>2, FiniteImage
  <2> DEFINE h == [d \in pre |-> AddedTo(d)]
  <2>2. IsFiniteSet(pre)
    BY <1>3, FinitePreGroups
  <2> HIDE DEF pre
  <2>3. DOMAIN h = pre /\ \A d \in pre : h[d] = AddedTo(d)
    OBVIOUS
  <2>4. added = UNION {h[d] : d \in DOMAIN h}
    OBVIOUS
  <2> HIDE DEF h, added
  <2>5. IsFiniteSet({h[d] : d \in DOMAIN h})
    BY <2>2, <2>3, FiniteImage
  <2>6. \A T \in {h[d] : d \in DOMAIN h} : IsFiniteSet(T)
    BY <2>1, <2>3
  <2> QED
    BY <2>4, <2>5, <2>6, FS_UNION
<1>5. \A a \in added : \E f \in rs : a.function.func.name.base = f.func.name.base
  BY <1>2, AddedRoots
<1>9. \A a \in added : ~InStructuredGroup(a.function)
  <2>1. \A f, kind : ~InStructuredGroup(GenerateFunction(f, kind))
    BY DEF InStructuredGroup, GenerateFunction
  <2>2. \A a \in added : \E f, kind : a.function = GenerateFunction(f, kind)
    BY DEF AddedTo
  <2> QED
    BY <2>1, <2>2
<1> HIDE DEF added
<1>6. IsFiniteSet(new)
  <2> DEFINE g == [a \in added |-> a.function]
  <2>1. new = {g[a] : a \in DOMAIN g} /\ DOMAIN g = added
    OBVIOUS
  <2> HIDE DEF g
  <2> QED
    BY <1>4, <2>1, FiniteImage
<1>7. IsFiniteSet(rs \cup new)
  BY <1>3, <1>6, FS_Union
<1>8. \A f \in rs \cup new : \E e \in yaml :
        /\ f.func.name.base = EntrySchema(e).name.base
        /\ InStructuredGroup(f) => f.func = EntrySchema(e)
  BY <1>2, <1>5, <1>9
<1> QED
  BY <1>1, <1>7, <1>8

LEMMA SixFinite ==
    ASSUME NEW a, NEW b, NEW c, NEW d, NEW e, NEW f
    PROVE  IsFiniteSet({a, b, c, d, e, f})
<1> DEFINE t == <<a, b, c, d, e, f>>
<1>1. {t[x] : x \in DOMAIN t} = {a, b, c, d, e, f} /\ DOMAIN t = 1..6
  OBVIOUS
<1>2. IsFiniteSet(1..6)
  <2>1. 1 \in Int /\ 6 \in Int
    OBVIOUS
  <2> QED
    BY <2>1, FS_Interval
<1> HIDE DEF t
<1> QED
  BY <1>1, <1>2, FiniteImage

LEMMA FiniteKeys == IsFiniteSet(DispatchKeys)
<1> DEFINE first == {"SparseCPU", "SparseCsrCPU", "MkldnnCPU", "SparseMPS", "SparseCsrMPS",
                     "QuantizedCPU"}
           second == {"NestedTensorCPU", "NestedTensorHPU", "Meta", "SparseMeta",
                      "SparseCsrMeta", "QuantizedMeta"}
           third == {"NestedTensorMeta", "ZeroTensor"}
<1>1. IsFiniteSet(first) /\ IsFiniteSet(second)
  BY SixFinite
<1>2. IsFiniteSet(third)
  <2>1. third = {"NestedTensorMeta", "ZeroTensor", "ZeroTensor", "ZeroTensor", "ZeroTensor",
                 "ZeroTensor"}
    OBVIOUS
  <2> QED
    BY <2>1, SixFinite
<1>3. IsFiniteSet(CudaKeys) /\ IsFiniteSet(XpuKeys)
  BY SixFinite DEF CudaKeys, XpuKeys
<1>4. IsFiniteSet(GenericKeys)
  <2>1. GenericKeys = {CIA, CIANested, CEA, CENF, CENF, CENF}
    BY DEF GenericKeys
  <2> QED
    BY <2>1, SixFinite
<1>5. IsFiniteSet(StructuredKeys)
  <2>1. StructuredKeys = {"MPS", "CUDA", "CPU", "XPU", "MTIA", "MTIA"}
    BY DEF StructuredKeys
  <2> QED
    BY <2>1, SixFinite
<1> DEFINE all == GenericKeys \cup StructuredKeys \cup CudaKeys \cup XpuKeys
                    \cup first \cup second \cup third
<1>6. DispatchKeys \subseteq all
  BY DEF DispatchKeys
<1> HIDE DEF first, second, third
<1>7. IsFiniteSet(all)
  BY <1>1, <1>2, <1>3, <1>4, <1>5, FS_Union
<1> QED
  BY <1>6, <1>7, FS_Subset

\* The build selects what some model of it selects.
LEMMA SelectsWanted ==
    ASSUME NEW models, models \in Seq(ToSet(models)), \A m \in ToSet(models) : IsSelection(m),
           NEW f
    PROVE  IsOperatorSelected(SelectionOf(models), <<NameWords(f.func.name), f.func.name.overload>>)
             <=> Wanted(f, models)
<1> DEFINE n == <<NameWords(f.func.name), f.func.name.overload>>
<1>1. CASE models = <<>>
  <2>1. IsOperatorSelected(SelectionOf(models), n)
    BY <1>1 DEF SelectionOf, NopSelector, Selection, IsOperatorSelected
  <2> QED
    BY <1>1, <2>1 DEF Wanted
<1>2. CASE models # <<>>
  <2>1. /\ Len(models) \in Nat \ {0} /\ DOMAIN models = 1..Len(models)
        /\ \A i \in 1..Len(models) : models[i] \in ToSet(models)
    BY <1>2, EmptySeq, ElementOfSeq, LenProperties
  <2>2. Wanted(f, models) <=> \E i \in 1..Len(models) : IsOperatorSelected(models[i], n)
    BY <1>2, <2>1 DEF Wanted, Some
  <2> HIDE DEF n
  <2>3. \A i \in 1..Len(models) : IsSelection(models[i])
    BY <2>1
  <2>4. IsOperatorSelected(MergeAll(models), n)
          <=> \E i \in 1..Len(models) : IsOperatorSelected(models[i], n)
    BY <2>1, <2>3, BuildSelects
  <2> QED
    BY <1>2, <2>2, <2>4 DEF SelectionOf, n
<1> QED
  BY <1>1, <1>2

\* The kernels of every key pass their checks where no file stops a real run.
LEMMA KeysPass ==
    ASSUME NEW rs, NEW kernels, NEW o, NEW generate, "sources" \in generate,
           IsFiniteSet(rs), IsFiniteSet(o.keys), NEW k \in o.keys,
           LET p == Program(rs, kernels)
               writes == WritesOf(p, o, generate)
           IN  \A n \in 1..Len(writes) : writes[n].file \notin Stopping(p, o)[FALSE]
    PROVE  KeyOK(Program(rs, kernels), k)
<1> DEFINE p == Program(rs, kernels)
           writes == WritesOf(p, o, generate)
           w == RegisterWhole(p, o, k)
<1>1. IsFiniteSet(p.units) /\ IsFiniteSet(Roots(p))
  BY FiniteProgram
<1> HIDE DEF p
<1>2. IsSeq(writes) /\ w \in ToSet(writes)
  BY <1>1, PlanWrites DEF RegisterWrites
<1>3. w.file = Append(<<"Register", k>>, "Everything")
  BY DEF RegisterWhole
<1> HIDE DEF writes, w
<1>4. PICK n \in 1..Len(writes) : writes[n] = w
  BY <1>2 DEF ToSet, IsSeq
<1>5. Append(<<"Register", k>>, "Everything") \notin Stopping(p, o)[FALSE]
  BY <1>3, <1>4 DEF p, writes
<1>6. RejectedTexts(p, o) \subseteq Stopping(p, o)[FALSE]
  BY DEF Stopping
<1>7. ~KeyOK(p, k) => Append(<<"Register", k>>, "Everything") \in RejectedTexts(p, o)
  BY DEF RejectedTexts
<1> QED
  BY <1>5, <1>6, <1>7 DEF p

\* A real run on an input meets no assertion.
Passes(i) ==
    \A n \in 1..Len(Generations[i].writes) :
      Generations[i].writes[n].file \notin Generations[i].stops[FALSE]

\* What a run on an input that is not refused registers.
LEMMA GenerationRegisters ==
    ASSUME NEW i \in DOMAIN Inputs, Generations[i].accepted, Passes(i),
           "sources" \in Inputs[i].options.generate, ~Inputs[i].options.skip
    PROVE  LET plan == Generations[i]
               p == plan.program
               R == Registrations(plan)
           IN  \A k \in plan.settings.keys, f \in p.functions :
                 /\ <<k, f.func.name>> \in R =>
                      /\ Wanted(f, Inputs[i].options.models)
                      /\ <<"schema", f.func.name>> \in R
                 /\ Wanted(f, Inputs[i].options.models)
                      /\ HasKernel(p.kernels, k, f.func.name) /\ ~f.manual
                    => <<k, f.func.name>> \in R
<1> DEFINE input == Inputs[i]
           o == input.options
           parsed == Parse(input.yaml, IgnoredKeys(o))
           rs == parsed.functions
           p == Program(rs, parsed.kernels)
           s == Settings(o)
           plan == PlanOf(p, s, WritesOf(p, s, o.generate))
<1>1. parsed.ok /\ ProgramOK(p) /\ Generations[i] = plan
  <2>1. Generations[i] = PlanParsed(parsed, s, o.generate)
    BY DEF Generations, Generation
  <2> HIDE DEF parsed, s, o
  <2> QED
    BY <2>1 DEF PlanParsed, Plan
<1>2. /\ IsFiniteSet(input.yaml) /\ \A e \in input.yaml : Hash[EntrySchema(e).name.base] \in Nat
      /\ o.models \in Seq(ToSet(o.models)) /\ \A m \in ToSet(o.models) : IsSelection(m)
  BY InputsAssumption DEF InputsAssumption
<1>3. IsFiniteSet(rs) /\ \A f \in rs : Hash[f.func.name.base] \in Nat
  BY <1>1, <1>2, Parsed
<1>4. /\ s.keys \subseteq DispatchKeys /\ ~s.skip /\ s.sel = SelectionOf(o.models)
  BY DEF Settings, GenerateKeys
<1>5. IsFiniteSet(s.keys)
  BY <1>4, FiniteKeys, FS_Subset
<1>6. \A k \in s.keys : KeyOK(p, k)
  <2>1. Generations[i].writes = WritesOf(p, s, o.generate) /\ Generations[i].stops = Stopping(p, s)
    BY <1>1 DEF PlanOf
  <2> DEFINE kernels == parsed.kernels
             generate == o.generate
  <2>2. /\ \A n \in 1..Len(WritesOf(p, s, generate)) :
              WritesOf(p, s, generate)[n].file \notin Stopping(p, s)[FALSE]
        /\ p = Program(rs, kernels) /\ "sources" \in generate
    BY <2>1 DEF Passes
  <2> HIDE DEF p, s, rs, kernels, generate, o, parsed, input
  <2> QED
    BY <1>3, <1>5, <2>2, KeysPass
<1>7. plan.program = p /\ plan.settings = s /\ p.functions = rs
  BY DEF PlanOf, Program
<1>8. \A f \in rs : f \in SelectedFunctions(p, s) <=> Wanted(f, o.models)
  <2>1. \A f : f \in SelectedFunctions(p, s) <=>
          f \in rs /\ IsOperatorSelected(s.sel, <<NameWords(f.func.name), f.func.name.overload>>)
    BY <1>7 DEF SelectedFunctions
  <2> HIDE DEF p, s, rs, o
  <2> QED
    BY <1>2, <1>4, <2>1, SelectsWanted
<1>9. \A k \in s.keys, f \in rs :
        /\ <<k, f.func.name>> \in Registrations(plan) =>
             f \in SelectedFunctions(p, s) /\ <<"schema", f.func.name>> \in Registrations(plan)
        /\ f \in SelectedFunctions(p, s) /\ HasKernel(p.kernels, k, f.func.name)
             /\ ~f.manual => <<k, f.func.name>> \in Registrations(plan)
  <2>1. "sources" \in o.generate
    OBVIOUS
  <2> DEFINE kernels == parsed.kernels
             generate == o.generate
  <2>2. p = Program(rs, kernels)
    OBVIOUS
  <2> HIDE DEF rs, s, kernels, o, parsed, input, generate
  <2>3. "sources" \in generate
    BY <2>1 DEF generate
  <2>4. p.functions = rs
    BY <1>7
  <2> QED
    BY <1>1, <1>3, <1>4, <1>5, <1>6, <2>3, <2>4, PlanSelects DEF generate
<1> HIDE DEF rs, s, p, plan
<1> QED
  BY <1>1, <1>7, <1>8, <1>9

\* What a run on an input that is not refused defines.
LEMMA GenerationDefines ==
    ASSUME NEW i \in DOMAIN Inputs, Generations[i].accepted,
           "sources" \in Inputs[i].options.generate,
           NEW f \in Generations[i].program.functions
    PROVE  \E file \in Generations[i].listed :
             OpDeclared(f) \subseteq Generations[i].texts[file].defines
<1> DEFINE input == Inputs[i]
           o == input.options
           parsed == Parse(input.yaml, IgnoredKeys(o))
           rs == parsed.functions
           kernels == parsed.kernels
           p == Program(rs, kernels)
           s == Settings(o)
           generate == o.generate
<1>1. parsed.ok /\ Generations[i] = PlanOf(p, s, WritesOf(p, s, generate))
  <2>1. Generations[i] = PlanParsed(parsed, s, generate)
    BY DEF Generations, Generation
  <2> HIDE DEF parsed, s, o, generate
  <2> QED
    BY <2>1 DEF PlanParsed, Plan
<1>2. /\ IsFiniteSet(input.yaml) /\ \A e \in input.yaml : Hash[EntrySchema(e).name.base] \in Nat
  BY InputsAssumption DEF InputsAssumption
<1>3. IsFiniteSet(rs) /\ \A g \in rs : Hash[g.func.name.base] \in Nat
  BY <1>1, <1>2, Parsed
<1>4. s.keys \subseteq DispatchKeys
  BY DEF Settings, GenerateKeys
<1>5. IsFiniteSet(s.keys)
  BY <1>4, FiniteKeys, FS_Subset
<1>6. f \in rs
  BY <1>1 DEF PlanOf, Program
<1>7. "sources" \in generate
  OBVIOUS
<1> HIDE DEF rs, s, kernels, generate
<1> QED
  BY <1>1, <1>3, <1>5, <1>6, <1>7, PlanDefinesAll

-----------------------------------------------------------------------------
(* The generator and the calls of what it generated, together *)

\* A real run that comes to its end met no assertion.
LEMMA CompletePasses ==
    ASSUME FilesInv, Complete
    PROVE  Passes(run.input)
<1>1. PassedSoFar /\ run.at = Len(Planned) /\ run.dry = FALSE
  BY DEF FilesInv, Complete, WrittenSoFar
<1> QED
  BY <1>1, PlansAreGenerations DEF PassedSoFar, Passes, Planned

LEMMA CodeFiles == SpecCode => []FilesInv
<1>1. InitCode => FilesInv
  BY DEF InitCode, Init, FilesInv
<1>2. ASSUME FilesInv, [NextCode]_<<vars, call>> PROVE FilesInv'
  <2>1. CASE [Next]_vars
    BY <1>2, <2>1, FilesStep
  <2>2. CASE Build
    <3>1. /\ run' = [run EXCEPT !.outcome = "built"]
          /\ disk' = disk /\ listed' = listed /\ outputs' = outputs
      BY <2>2 DEF Build
    <3>2. /\ run' = [input |-> run.input, dry |-> run.dry, at |-> run.at,
                     outcome |-> "built", runs |-> run.runs]
          /\ run'.dry \in BOOLEAN
      BY <1>2, <3>1 DEF FilesInv
    <3> QED
      BY <3>2 DEF FilesInv
  <2> QED
    BY <1>2, <2>1, <2>2 DEF NextCode, GeneratorStep, CallGenerated, KernelStep, AnotherCall
<1> QED
  BY <1>1, <1>2, PTL DEF SpecCode

\* FilesCorrect where what was generated is built and called between the runs.
THEOREM CodeFilesCorrect == SpecCode => []CompleteRunIsCurrent
<1> QED
  BY CodeFiles, FilesInvCurrent, PTL

\* After a complete run an operator some model of the build selects, and no other, is
\* registered for every key it has a kernel for, whatever the yaml file, its tables of
\* kernels, the options and the models; and what is registered has a schema
\* (RegisterDispatchKey, RegisterSchema, SelectiveBuilder.is_native_function_selected).
THEOREM SelectionRegistered == SpecCode => []SelectedOperatorsRegistered
<1>1. FilesInv => SelectedOperatorsRegistered
  <2> SUFFICES ASSUME FilesInv, Complete, Generates({"sources"}),
                      ~Inputs[run.input].options.skip
               PROVE  RegisteredBy(Generations[run.input])
    BY DEF SelectedOperatorsRegistered
  <2>1. run.input \in DOMAIN Inputs /\ Generations[run.input].accepted /\ Passes(run.input)
    <3>1. run.input \in DOMAIN Plans /\ Plans[run.input].accepted
      BY DEF FilesInv, Complete, WrittenSoFar, Accepted
    <3> QED
      BY <3>1, CompletePasses, PlansAreGenerations DEF Generations
  <2>2. "sources" \in Inputs[run.input].options.generate
    BY DEF Generates
  <2> DEFINE i == run.input
  <2> HIDE DEF i
  <2>3. LET plan == Generations[i]
            p == plan.program
            R == Registrations(plan)
        IN  \A k \in plan.settings.keys, f \in p.functions :
              /\ <<k, f.func.name>> \in R =>
                   /\ Wanted(f, Inputs[i].options.models)
                   /\ <<"schema", f.func.name>> \in R
              /\ Wanted(f, Inputs[i].options.models)
                   /\ HasKernel(p.kernels, k, f.func.name) /\ ~f.manual
                 => <<k, f.func.name>> \in R
    BY <2>1, <2>2, GenerationRegisters DEF i
  <2> QED
    BY <2>3 DEF RegisteredBy, RegisteredAsWanted, Registrations, i
<1> QED
  BY <1>1, CodeFiles, PTL

\* The text a file of the install directory holds.
TextOnDisk(file) == Generations[disk[file]].texts[file]

\* The part of EveryCallResolves about definitions: after a complete run each operator of
\* the program has one in a listed file that is on the disk.
OperatorsOnDisk ==
    Complete /\ Generates({"sources"}) =>
        \A f \in Generations[run.input].program.functions :
          \E file \in outputs :
            /\ file \in DOMAIN disk /\ disk[file] # Torn
            /\ OpDeclared(f) \subseteq TextOnDisk(file).defines

\* No operator is lost between the shards of Operators.cpp, and whatever was in the install
\* directory, the shard that defines it is there and as this run generates it
\* (write_sharded_with_template, _write_if_changed, ComputeOperators).
THEOREM OperatorsDefined == SpecCode => []OperatorsOnDisk
<1>1. FilesInv /\ CompleteRunIsCurrent => OperatorsOnDisk
  <2> SUFFICES ASSUME FilesInv, CompleteRunIsCurrent, Complete, Generates({"sources"}),
                      NEW f \in Generations[run.input].program.functions
               PROVE  \E file \in outputs :
                        /\ file \in DOMAIN disk /\ disk[file] # Torn
                        /\ OpDeclared(f) \subseteq TextOnDisk(file).defines
    BY DEF OperatorsOnDisk
  <2>1. run.input \in DOMAIN Inputs /\ Generations[run.input].accepted
    <3>1. run.input \in DOMAIN Plans /\ Plans[run.input].accepted
      BY DEF FilesInv, Complete, WrittenSoFar, Accepted
    <3> QED
      BY <3>1, PlansAreGenerations DEF Generations
  <2>2. PICK file \in Generations[run.input].listed :
               OpDeclared(f) \subseteq Generations[run.input].texts[file].defines
    BY <2>1, GenerationDefines DEF Generates
  <2>3. file \in outputs /\ Holds(disk, file, run.input, Plans)
    BY <2>2, PlansAreGenerations DEF CompleteRunIsCurrent, Complete, Current, Holds
  <2> QED
    BY <2>2, <2>3, PlansAreGenerations DEF Holds, TextOnDisk
<1> QED
  BY <1>1, CodeFiles, FilesInvCurrent, PTL

\* A program that was accepted, and what its structured groups are.
LEMMA GenerationProgram ==
    ASSUME NEW i \in DOMAIN Inputs, Generations[i].accepted, Passes(i),
           "sources" \in Inputs[i].options.generate
    PROVE  LET plan == Generations[i]
               p == plan.program
           IN  /\ plan.settings.keys \subseteq DispatchKeys
               /\ \A u \in p.units : IsStructured(u) =>
                    \A f \in Members(u) : Len(f.func.rets) \in Nat
               /\ \A u \in p.units : \A k \in plan.settings.keys : ClassesOK(u, p.kernels, k)
<1> DEFINE input == Inputs[i]
           o == input.options
           parsed == Parse(input.yaml, IgnoredKeys(o))
           rs == parsed.functions
           kernels == parsed.kernels
           p == Program(rs, kernels)
           s == Settings(o)
<1>1. /\ parsed.ok /\ ProgramOK(p)
      /\ Generations[i] = PlanOf(p, s, WritesOf(p, s, o.generate))
  <2>1. Generations[i] = PlanParsed(parsed, s, o.generate)
    BY DEF Generations, Generation
  <2> HIDE DEF parsed, s, o
  <2> QED
    BY <2>1 DEF PlanParsed, Plan
<1>2. Generations[i].program = p /\ Generations[i].settings = s
  BY <1>1 DEF PlanOf
<1>3. s.keys \subseteq DispatchKeys
  BY DEF Settings, GenerateKeys
<1>4. \A u \in p.units : \A k \in s.keys : ClassesOK(u, p.kernels, k)
  <2>1. IsFiniteSet(rs) /\ IsFiniteSet(s.keys)
    <3>1. IsFiniteSet(input.yaml)
      BY InputsAssumption DEF InputsAssumption
    <3> QED
      BY <1>1, <1>3, <3>1, Parsed, FiniteKeys, FS_Subset
  <2>2. Generations[i].writes = WritesOf(p, s, o.generate) /\ Generations[i].stops = Stopping(p, s)
    BY <1>1 DEF PlanOf
  <2> DEFINE generate == o.generate
  <2>3. /\ \A n \in 1..Len(WritesOf(p, s, generate)) :
              WritesOf(p, s, generate)[n].file \notin Stopping(p, s)[FALSE]
        /\ p = Program(rs, kernels) /\ "sources" \in generate
    BY <2>2 DEF Passes
  <2> HIDE DEF p, s, rs, kernels, generate, o, parsed, input
  <2>4. \A k \in s.keys : KeyOK(p, k)
    BY <2>1, <2>3, KeysPass
  <2> QED
    BY <2>4 DEF KeyOK
<1>5. \A f \in rs : InStructuredGroup(f) => Len(f.func.rets) \in Nat
  <2>1. IsFiniteSet(input.yaml) /\ \A e \in input.yaml : Len(e.rets) \in Nat
    BY InputsAssumption DEF InputsAssumption
  <2>2. \A e : EntrySchema(e).rets = e.rets
    BY DEF EntrySchema, Schema
  <2>3. \A f \in rs : InStructuredGroup(f) => \E e \in input.yaml : f.func = EntrySchema(e)
    BY <1>1, <2>1, Parsed
  <2> QED
    BY <2>1, <2>2, <2>3
<1>6. ASSUME NEW u \in p.units, IsStructured(u), NEW f \in Members(u)
      PROVE  Len(f.func.rets) \in Nat
  <2>1. f \in rs
    BY <1>6, ProgramUnits
  <2>2. u \in PreGroups(rs)
    <3>1. CASE u \in Groups(PreGroups(rs))
      BY <3>1 DEF Groups
    <3>2. ASSUME NEW g, u = ByKind({g}, KindOf) PROVE FALSE
      <4>1. DOMAIN u = {KindOf(g)}
        BY <3>2 DEF ByKind
      <4>2. Cardinality({KindOf(g)}) = 1
        BY FS_Singleton
      <4> QED
        BY <1>6, <4>1, <4>2 DEF IsStructured, IsGroup, Singleton
    <3> QED
      BY <3>1, <3>2 DEF Program, Units
  <2>3. GroupOK(u)
    BY <1>1, <1>6, <2>2 DEF ProgramOK, GroupingOK, Program, IsStructured, IsGroup
  <2>4. InStructuredGroup(f)
    BY <1>6, <2>3 DEF GroupOK, IsStructured
  <2> QED
    BY <1>5, <2>1, <2>4
<1> HIDE DEF p, s
<1> QED
  BY <1>2, <1>3, <1>4, <1>6

Built == run.outcome = "built" => Accepted /\ Passes(run.input) /\ Generates({"sources"})

LEMMA CodeBuilt == SpecCode => []Built
<1>1. InitCode => Built
  BY DEF InitCode, Init, Built
<1>2. ASSUME FilesInv, FilesInv', Built, [NextCode]_<<vars, call>> PROVE Built'
  <2>1. CASE Next
    <3>1. run'.outcome # "built" \/ UNCHANGED run
      <4>1. run = [input |-> run.input, dry |-> run.dry, at |-> run.at,
                   outcome |-> run.outcome, runs |-> run.runs]
        BY <1>2 DEF FilesInv
      <4>2. CASE WriteFile(Plans)
        BY <4>1, <4>2 DEF WriteFile, Writing
      <4>3. CASE \/ DuplicateFile(Plans) \/ TextFails(Plans) \/ KillTearing(Plans)
                 \/ Finish(Plans) \/ Kill
        BY <4>1, <4>3 DEF DuplicateFile, TextFails, KillTearing, Finish, Kill
      <4>4. ASSUME NEW i \in DOMAIN Plans, NEW dry \in BOOLEAN, Start(i, dry, Plans)
            PROVE  run'.outcome # "built"
        BY <4>4 DEF Start
      <4> QED
        BY <2>1, <4>2, <4>3, <4>4 DEF Next, RunStep
    <3> QED
      BY <1>2, <3>1 DEF Built, Accepted, Generates, Passes
  <2>2. CASE Build
    <3>1. run'.input = run.input
      BY <2>2 DEF Build
    <3>2. Accepted /\ Generates({"sources"})
      BY <1>2, <2>2 DEF Build, Complete, FilesInv, WrittenSoFar
    <3>3. Passes(run.input)
      BY <1>2, <2>2, CompletePasses DEF Build
    <3> QED
      BY <3>1, <3>2, <3>3 DEF Built, Accepted, Generates, Passes
  <2>3. CASE UNCHANGED vars
    BY <1>2, <2>3 DEF Built, Accepted, Generates, Passes, vars
  <2> QED
    BY <1>2, <2>1, <2>2, <2>3 DEF NextCode, GeneratorStep, CallGenerated, KernelStep, AnotherCall
<1> QED
  BY <1>1, <1>2, CodeFiles, PTL DEF SpecCode

\* What is called is a wrapper the generator can write.
LEMMA CodeBegins ==
    ASSUME Built, CallGenerated
    PROVE  Begin
<1> DEFINE i == run.input
           plan == Generations[i]
           p == plan.program
<1>1. /\ run.outcome = "built"
      /\ \E w \in StructuredWrappers(plan), iterator \in BOOLEAN :
           \E tensors \in IF w.kind = "functional" THEN {<<>>} ELSE [1..w.outs -> Tensors] :
             BeginCall(w.kind, w.key, w.outs, iterator, tensors)
  BY DEF CallGenerated
<1>2. /\ i \in DOMAIN Inputs /\ plan.accepted /\ "sources" \in Inputs[i].options.generate
      /\ Passes(i)
  <2>1. Accepted /\ Generates({"sources"}) /\ Passes(run.input)
    BY <1>1 DEF Built
  <2> QED
    BY <2>1, PlansAreGenerations DEF Accepted, Generates, Generations
<1> HIDE DEF i
<1>3. /\ plan.settings.keys \subseteq DispatchKeys
      /\ \A u \in p.units : IsStructured(u) =>
           \A f \in Members(u) : Len(f.func.rets) \in Nat
      /\ \A u \in p.units : \A k \in plan.settings.keys : ClassesOK(u, p.kernels, k)
  BY <1>2, GenerationProgram
<1> HIDE DEF plan
<1>4. PICK w \in StructuredWrappers(plan), iterator \in BOOLEAN :
        \E tensors \in IF w.kind = "functional" THEN {<<>>} ELSE [1..w.outs -> Tensors] :
          BeginCall(w.kind, w.key, w.outs, iterator, tensors)
  BY <1>1
<1>5. PICK u \in p.units, k \in plan.settings.keys : \E f \in Wrapped(u, p.kernels, k) :
        /\ IsStructured(u) /\ GeneratesClasses(u, p.kernels, k)
        /\ w = [kind |-> KindOf(f), key |-> k, outs |-> Len(f.func.rets)]
  BY <1>4 DEF StructuredWrappers
<1>6. PICK f \in Wrapped(u, p.kernels, k) :
        w = [kind |-> KindOf(f), key |-> k, outs |-> Len(f.func.rets)]
  BY <1>5
<1>7. f \in Members(u) /\ ~(k = CENF /\ KindOf(f) = "out")
  BY <1>5 DEF Wrapped
<1>8. /\ w.kind \in KernelKinds /\ w.key \in DispatchKeys /\ w.outs \in Nat
      /\ Wrapper(w.kind, w.key)
  BY <1>3, <1>5, <1>6, <1>7, CompositeAssumption DEF ClassesOK, Wrapper, CompositeAssumption
<1> QED
  BY <1>4, <1>8 DEF Begin, Given

LEMMA CodeCalls == SpecCode => []IInv
<1>1. InitCode => IInv
  BY Nothing DEF InitCode, CallInit
<1>2. ASSUME IInv, Built, [NextCode]_<<vars, call>> PROVE IInv'
  <2>1. [Begin \/ CallStep \/ Again]_call
    BY <1>2, CodeBegins DEF NextCode, GeneratorStep, Build, KernelStep, AnotherCall, Again
  <2> QED
    BY <1>2, <2>1, CallsHold
<1> QED
  BY <1>1, <1>2, CodeBuilt, PTL DEF SpecCode

\* What a call of generated code returns is what was asked for and computed: the checks of
\* the generator leave no wrapper of another kind, and none of an out variant for the
\* default backend (gen_structured, gen_class, gen_one).
THEOREM CodeResultsCorrect == SpecCode => []ResultsReturned
BY CodeCalls, ResultsHold, PTL

\* In every wrapper a run generates the implementation is given what the meta function
\* asked for (gen_class_set_output_body, gen_resize_out_helper).
THEOREM CodeTargetsCorrect == SpecCode => []ImplGetsWhatMetaAsked
BY CodeCalls, TargetsHold, PTL

\* No wrapper a run generates changes the strides of a tensor of the caller that it need
\* not resize (resize_out).
THEOREM CodeStridesCorrect == SpecCode => []CallersStridesKept
BY CodeCalls, StridesHold, PTL

=============================================================================
