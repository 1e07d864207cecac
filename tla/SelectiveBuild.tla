----------------------------- MODULE SelectiveBuild -----------------------------
(***************************************************************************)
(* Which operators a selective build keeps, and the merge of the           *)
(* selections of several models (torchgen/selective_build/operator.py,     *)
(* selector.py).  A selection is a record; its dicts are functions.  An    *)
(* operator is a pair of a name and an overload, the overload empty where  *)
(* a selection names the operator without one.  The debug information a    *)
(* selection carries is left out: nothing reads it.                        *)
(***************************************************************************)
EXTENDS Naturals, Sequences

StripOverload(n) == <<n[1], <<>>>>

\* from_yaml_dict: what an entry leaves out is TRUE.
Operator(root, training, all) == [root |-> root, training |-> training, all |-> all]

Selection(all, operators, dtypes, kernels, classes, features, nonop) ==
    [all |-> all, operators |-> operators, dtypes |-> dtypes, kernels |-> kernels,
     classes |-> classes, features |-> features, nonop |-> nonop]

\* What from_yaml_dict checks of its input, and returns.
Operators == [root : BOOLEAN, training : BOOLEAN, all : BOOLEAN]
IsSelection(s) ==
    /\ s = Selection(s.all, s.operators, s.dtypes, s.kernels, s.classes, s.features, s.nonop)
    /\ s.all \in BOOLEAN /\ s.nonop \in BOOLEAN
    /\ s.operators \in [DOMAIN s.operators -> Operators]
    /\ s.dtypes = [n \in DOMAIN s.dtypes |-> s.dtypes[n]]
    /\ s.kernels = [n \in DOMAIN s.kernels |-> s.kernels[n]]

NoEntries == [n \in {} |-> {}]
NopSelector == Selection(TRUE, NoEntries, NoEntries, NoEntries, {}, {}, FALSE)

\* from_legacy_op_registration_allow_list
FromAllowList(ops, root, training) ==
    Selection(FALSE, [n \in ops |-> Operator(root, training, TRUE)],
              NoEntries, NoEntries, {}, {}, TRUE)

-----------------------------------------------------------------------------
(* Queries *)

IsOperatorSelected(s, n) ==
    \/ s.all
    \/ n \in DOMAIN s.operators
    \/ /\ StripOverload(n) \in DOMAIN s.operators
       /\ s.operators[StripOverload(n)].all

IsSelectedForTraining(s, n) ==
    /\ IsOperatorSelected(s, n)
    /\ \/ s.all
       \/ n \in DOMAIN s.operators /\ s.operators[n].training
       \/ /\ StripOverload(n) \in DOMAIN s.operators
          /\ s.operators[StripOverload(n)].all
          /\ s.operators[StripOverload(n)].training

\* The entry of the full name answers alone, whatever that of the bare name says.
IsRootOperator(s, n) ==
    /\ IsOperatorSelected(s, n)
    /\ \/ s.all
       \/ n \in DOMAIN s.operators /\ s.operators[n].root
       \/ /\ n \notin DOMAIN s.operators
          /\ StripOverload(n) \in DOMAIN s.operators
          /\ s.operators[StripOverload(n)].all
          /\ s.operators[StripOverload(n)].root

IsDtypeSelected(s, tag, dtype) ==
    \/ s.all \/ s.nonop
    \/ tag \in DOMAIN s.dtypes /\ dtype \in s.dtypes[tag]

\* et_get_selected_kernels: a kernel key is a version and a specialisation, "default" the
\* kernel without one.  A key of the model the build has no kernel for falls back to it.
SelectedKernels(s, n, keys) ==
    IF n \notin DOMAIN s.kernels THEN (IF s.all THEN keys ELSE {})
    ELSE {k \in keys \ {"default"} : \E m \in s.kernels[n] : m = k}
         \cup (IF s.kernels[n] \subseteq keys \ {"default"} THEN {} ELSE {"default"})

\* "Missing kernel for the model"
KernelsFound(s, n, keys) ==
    n \in DOMAIN s.kernels => "default" \in keys \/ s.kernels[n] \subseteq keys

-----------------------------------------------------------------------------
(* Merge *)

CombineOperators(o1, o2) ==
    Operator(o1.root \/ o2.root, o1.training \/ o2.training, o1.all \/ o2.all)

\* Mutant.  What only the second model needs is lost.
KeepsFirst(f, g) ==
    [n \in DOMAIN f |-> IF n \in DOMAIN g THEN CombineOperators(f[n], g[n]) ELSE f[n]]

MergeOperators(f, g) ==
    [n \in DOMAIN f \cup DOMAIN g |->
        IF n \in DOMAIN f \cap DOMAIN g THEN CombineOperators(f[n], g[n])
        ELSE IF n \in DOMAIN f THEN f[n] ELSE g[n]]

\* merge_kernel_metadata, merge_et_kernel_metadata
MergeSets(f, g) ==
    [n \in DOMAIN f \cup DOMAIN g |->
        (IF n \in DOMAIN f THEN f[n] ELSE {}) \cup (IF n \in DOMAIN g THEN g[n] ELSE {})]

CombineSelections(s1, s2) ==
    Selection(s1.all \/ s2.all, MergeOperators(s1.operators, s2.operators),
              MergeSets(s1.dtypes, s2.dtypes), MergeSets(s1.kernels, s2.kernels),
              s1.classes \cup s2.classes, s1.features \cup s2.features,
              s1.nonop \/ s2.nonop)

\* A build of several models merges them one after another.
MergeAll(models) ==
    LET merged[i \in 1..Len(models)] ==
            IF i = 1 THEN models[1] ELSE CombineSelections(merged[i - 1], models[i])
    IN  merged[Len(models)]
=============================================================================
