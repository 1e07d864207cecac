--------------------------- MODULE GeneratedFunctions ---------------------------
(***************************************************************************)
(* The operators the generator adds to those of native_functions.yaml, and *)
(* the kernels it writes for them (native_function_generation.py).  A      *)
(* value is named by the return of the functional variant it equals: the   *)
(* variants of an operator compute the same values and differ in where     *)
(* they leave them, which is what a generated kernel can get wrong.        *)
(***************************************************************************)
EXTENDS NativeFunctions

Letters == <<"a", "b", "c", "d", "e", "f">>
OutNames == <<"out0", "out1", "out2">>

OutOverload(overload) == overload \o <<"out">>
IsTensorLikeRet(r) == IsTensorLike(r.type)

-----------------------------------------------------------------------------
(* Schemas *)

FreeLetters(f) ==
    LET used == UNION {a.ann.alias : a \in ToSet(FlatAll(f))}
    IN  SelectSeq(Letters, LAMBDA l : l \notin used)

\* generate_out_args_from_schema: an out argument for each tensor-like return, under a
\* letter no argument uses.  They are returned only where every return is a plain tensor.
GeneratedOut(f, i) ==
    Arg(IF Len(f.rets) = 1 THEN "out" ELSE OutNames[i], f.rets[i].type,
        Mut(FreeLetters(f)[i]))

OutArgsOK(f) == ~Some(f.rets, IsWrite) /\ Some(f.rets, IsTensorLikeRet)

NewOutArgs(f) ==
    Map(SelectSeq([i \in DOMAIN f.rets |-> i], LAMBDA i : IsTensorLikeRet(f.rets[i])),
        LAMBDA i : GeneratedOut(f, i))

NewReturns(f) ==
    IF Every(f.rets, LAMBDA r : r.type = Tensor)
    THEN Map(NewOutArgs(f), LAMBDA a : Ret(a.type, a.ann))
    ELSE SelectSeq(f.rets, LAMBDA r : ~IsTensorLikeRet(r))

\* signature(): the arguments without annotations, tensor options and out arguments.
BareArguments(f) ==
    LET bare(args) == Map(args, LAMBDA a : [a EXCEPT !.ann = NoAnnotation])
    IN  [f EXCEPT !.pre = bare(f.pre), !.self = bare(f.self), !.post = bare(f.post),
                  !.prekw = bare(f.prekw \o f.postkw), !.opts = <<>>, !.postkw = <<>>,
                  !.out = <<>>]

SelfToOut(f) ==
    LET out == [f.self[1] EXCEPT !.name = "out"]
    IN  [WithOutArgs(RemoveSelfAnnotation(f), <<out>>)
           EXCEPT !.name = WithOverload(f.name, OutOverload(f.name.overload))]

FunctionalToOut(f) ==
    [WithOutArgs(BareArguments(f), NewOutArgs(f))
       EXCEPT !.name = WithOverload(f.name, OutOverload(f.name.overload)),
              !.rets = NewReturns(f)]

MutableToOut(f) ==
    [WithOutArgs(f, NewOutArgs(f))
       EXCEPT !.name = WithOverload(f.name, OutOverload(f.name.overload)),
              !.rets = NewReturns(f)]

ToOut(f) ==
    CASE Kind(f) = "inplace" -> SelfToOut(f)
      [] Kind(f) = "mutable" -> MutableToOut(f)
      [] Kind(f) = "functional" -> FunctionalToOut(f)

ToFunctional(f) ==
    [BareArguments(f) EXCEPT
        !.name = [base |-> f.name.base, inplace |-> FALSE,
                  functional |-> Kind(f) = "mutable", overload |-> f.name.overload],
        !.rets = Map(f.rets \o ReturnedByFunctional(f),
                     LAMBDA r : Ret(r.type, NoAnnotation))]

-----------------------------------------------------------------------------
(* add_generated_native_functions *)

KeptTags == {"nondeterministic_seeded", "view_copy", "pt2_compliant_tag"}

\* generate_function: the new function has one kernel, explicit for every backend.
GenerateFunction(f, kind) ==
    [func |-> IF kind = "out" THEN ToOut(f.func) ELSE ToFunctional(f.func),
     variants |-> {"function"}, structured |-> FALSE, delegate |-> <<>>, autogen |-> {},
     manual |-> FALSE, manualcpp |-> FALSE, guard |-> FALSE, ufunc |-> {},
     precomputed |-> NoPrecompute,
     composites |-> {CEA}, tags |-> {"generated"} \cup (f.tags \cap KeptTags)]

SymIntSuffix(s) == IF HasSymInt(s) THEN <<"symint">> ELSE <<>>

\* The kernel a new function f, made from base, is registered with.
GeneratedKernel(base, f) ==
    [key |-> CEA, op |-> f.func.name, structured |-> FALSE,
     kernel |-> (IF Kind(f.func) = "out" THEN UnambiguousName(f.func.name)
                 ELSE CppName(f.func)) \o SymIntSuffix(base.func)]

Skipped(d) ==
    \/ \A f \in Members(d) : f.manualcpp
    \/ \E f \in Members(d) : IsViewOp(f) /\ NameWords(f.func.name) # <<"set", "">>
    \/ /\ \A f \in Members(d) : CIA \in f.composites
       /\ ~\E f \in Members(d) : "core" \in f.tags
    \/ Singleton(d) /\ "out" \in DOMAIN d
    \/ "inplace" \in DOMAIN d /\ d["inplace"].func.name \in UngroupedOps
    \/ DOMAIN d \cap {"mutable", "inplace", "out", "functional"} = {}

BaseFn(d) ==
    LET order == <<"mutable", "inplace", "out", "functional">>
        first == CHOOSE i \in DOMAIN order : /\ order[i] \in DOMAIN d
                                             /\ \A j \in 1..(i - 1) : order[j] \notin DOMAIN d
    IN  d[order[first]]

BaseFnValid(f) == Kind(f.func) = "inplace" \/ Some(f.func.rets, IsTensorLikeRet)
NeedsOut(f) == \E n \in f.autogen : Contains(n.overload, "out") \/ Contains(n.base, "out")
GetsOut(d) ==
    /\ ~Skipped(d) /\ "out" \notin DOMAIN d
    /\ BaseFnValid(BaseFn(d)) /\ NeedsOut(BaseFn(d))
GetsFunctional(d) ==
    /\ ~Skipped(d) /\ "functional" \notin DOMAIN d
    /\ "out" \in DOMAIN d \/ GetsOut(d)

\* What a group of variants gets: functions, each with its kernel.
AddedTo(d) ==
    LET kinds == (IF GetsOut(d) THEN {"out"} ELSE {})
                   \cup (IF GetsFunctional(d) THEN {"functional"} ELSE {})
        new(kind) == GenerateFunction(BaseFn(d), kind)
    IN  {[function |-> new(kind), kernel |-> GeneratedKernel(BaseFn(d), new(kind))]
           : kind \in kinds}

\* The assertions of the generation: an out variant alone, an operator no out variant can
\* be written for, a generated schema that is not one, a kernel that is already there.
AddedOK(rs, pre) ==
    /\ PreGroupsOK(rs)
    /\ \A d \in pre :
         /\ Singleton(d) /\ "out" \in DOMAIN d /\ ~d["out"].manualcpp
              /\ ~IsViewOp(d["out"])
              /\ (CIA \notin d["out"].composites \/ "core" \in d["out"].tags)
              => d["out"].func.name \in UngroupedOps
         /\ ~Skipped(d) /\ "out" \notin DOMAIN d /\ ~BaseFnValid(BaseFn(d))
              => BaseFn(d).func.name \in UngroupedOps
         /\ GetsOut(d) /\ Kind(BaseFn(d).func) # "inplace" => OutArgsOK(BaseFn(d).func)

-----------------------------------------------------------------------------
(* parse_native_yaml_struct: the functions and the kernels of a yaml file *)

\* An operator may have several entries, with a kernel for no key in common.
NoClash(entries) ==
    \A e1, e2 \in entries :
        e1 # e2 /\ e1.function.func.name = e2.function.func.name => e1.keys \cap e2.keys = {}

\* The result says whether every assertion held.
Checked(functions, kernels, ok) ==
    IF ok /\ (\A f \in functions : FunctionOK(f)) /\ IndexOK(kernels)
    THEN [ok |-> TRUE, functions |-> functions, kernels |-> kernels]
    ELSE [ok |-> FALSE]
WithAdded(rs, kernels, pre, added, ok) ==
    Checked(rs \cup {a.function : a \in added}, kernels \cup {a.kernel : a \in added},
            ok /\ AddedOK(rs, pre) /\ \A a \in added : SchemaOK(a.function.func))
WithGroups(rs, kernels, pre, ok) ==
    WithAdded(rs, kernels, pre, UNION {AddedTo(d) : d \in pre}, ok)
WithFunctions(rs, kernels, ok) ==
    WithGroups(rs, kernels, PreGroups(rs), ok /\ ErrorCheckOK(rs))
WithEntries(entries) ==
    WithFunctions({e.function : e \in entries}, UNION {e.kernels : e \in entries},
                  (\A e \in entries : e.ok) /\ NoClash(entries))
Parse(yaml, ignore) == WithEntries({FromYaml(e, ignore) : e \in yaml})

-----------------------------------------------------------------------------
(* The kernels of the generated functions.  Value i is what return i of the *)
(* functional variant holds.                                                *)

\* The value a written argument of a kernel written by hand ends with: that of the return
\* it is, or its place among the arguments signature() appends to the returns.
FinalValue(f, a) ==
    LET as == {i \in DOMAIN f.rets : f.rets[i].ann = a.ann}
    IN  IF as # {} THEN CHOOSE i \in as : TRUE
        ELSE Len(f.rets) + CHOOSE i \in DOMAIN ReturnedByFunctional(f) :
                               ReturnedByFunctional(f)[i] = a

\* gather_nonaliased_inner_rets: what a call returns that is none of its arguments.
NonAliasedRets(f) ==
    SelectSeq([i \in DOMAIN f.rets |-> i], LAMBDA i : AliasedReturnNames(f)[i] = "")

\* gen_composite_functional_kernel calls the in-place or mutable variant on clones ...
FunctionalTarget(g) ==
    IF "inplace" \in DOMAIN g /\ ~IsGenerated(g["inplace"]) THEN g["inplace"]
    ELSE g["mutable"]

FunctionalKernelOK(g) ==
    \/ "inplace" \in DOMAIN g /\ ~IsGenerated(g["inplace"])
    \/ "mutable" \in DOMAIN g /\ ~IsGenerated(g["mutable"])

Clones(f) == SelectSeq(FlatAll(f), IsWrite)

\* Mutant.  The clones first.
ClonesFirst(g) ==
    LET target == FunctionalTarget(g).func
    IN  Map(Clones(target), LAMBDA a : FinalValue(target, a)) \o NonAliasedRets(target)

\* ... and returns what the call returned, then the clones.
FunctionalReturns(g) ==
    LET target == FunctionalTarget(g).func
    IN  NonAliasedRets(target)
          \o Map(Clones(target), LAMBDA a : FinalValue(target, a))

\* gen_composite_out_kernel calls the functional variant, copies its returns into the out
\* arguments one by one, and returns the arguments its own returns alias.
OutWritten(g) == [i \in DOMAIN g["out"].func.out |-> i]
OutReturns(g) ==
    LET f == g["out"].func
    IN  [i \in DOMAIN f.rets |->
            LET name == AliasedReturnNames(f)[i]
            IN  IF name = "" THEN i
                ELSE CHOOSE j \in DOMAIN f.out : f.out[j].name = name]

\* The kernels the generator writes, and the assertions it makes while writing them.
CompositeKernels(groups) ==
    {f \in UNION {{g["functional"], g["out"]} : g \in groups} : IsGenerated(f)}
CompositeKernelsOK(groups) ==
    \A g \in groups : IsGenerated(g["functional"]) =>
        /\ FunctionalKernelOK(g)
        /\ Len(FunctionalReturns(g)) = Len(g["functional"].func.rets)

\* The names both kernels are defined under.
CompositeKernelName(g, f) ==
    (IF f = g["out"] THEN UnambiguousName(f.func.name) ELSE CppName(f.func))
      \o SymIntSuffix(g["out"].func)

-----------------------------------------------------------------------------
\* PROPERTY (of the groups of a yaml file).  A generated functional variant returns,
\* in order, the values the variant it calls computed; a generated out variant leaves
\* them in its out arguments and returns those.  (gen_composite_functional_kernel,
\* gen_composite_out_kernel; the schemas of both come from another part of the file.)
KernelsAgree(groups) ==
    \A g \in groups :
        LET functional == g["functional"].func
            out == g["out"].func
        IN  /\ IsGenerated(g["functional"]) =>
                 FunctionalReturns(g) = [i \in DOMAIN functional.rets |-> i]
            /\ IsGenerated(g["out"]) =>
                 /\ \A i \in DOMAIN out.out :
                      /\ OutWritten(g)[i] = FinalValue(out, out.out[i])
                      /\ out.out[i].type = functional.rets[OutWritten(g)[i]].type
                 /\ OutReturns(g) = [i \in DOMAIN out.rets |-> i]
=============================================================================
