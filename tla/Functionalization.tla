---------------------------- MODULE Functionalization ----------------------------
(***************************************************************************)
(* The kernels of the functionalization pass: each mutating operator calls *)
(* its functional variant and hands the results to the arguments it would  *)
(* have written; each view calls its copy and records how to replay and to *)
(* invert itself (torchgen/gen_functionalization_type.py,                  *)
(* torchgen/api/functionalization.py).  Values are named as in             *)
(* GeneratedFunctions.                                                     *)
(***************************************************************************)
EXTENDS Registration

NotFunctionalized ==
    UngroupedOps \cup {OpName(<<"resize", "">>, <<>>), OpName(<<"resize", "as", "">>, <<>>)}

ModifiesAny(f) == Some(FlatAll(f.func), IsWrite)
IsSet(f) == NameWords(f.func.name) = <<"set", "">>
WrapperName(f) == CppName(f.func) \o f.func.name.overload
Has(d, k) == k \in DOMAIN d

-----------------------------------------------------------------------------
(* Which kernels are defined and registered *)

ViewMembers(vg) == {vg[k] : k \in DOMAIN vg \cap {"aliasing", "aliasing_inplace"}}
Mutating(g) == {g[k] : k \in DOMAIN g \cap {"out", "inplace", "mutable"}}

RegisteredOfView(vg) ==
    IF IsNamed(vg["aliasing"].func.name, <<"lift", "fresh">>) THEN {} ELSE ViewMembers(vg)

\* One lift or resize_ takes the registrations of its whole group with it.
RegisteredOf(fs) ==
    LET stops(f) == /\ CIA \notin f.composites
                    /\ \/ IsNamed(f.func.name, <<"lift">>)
                       \/ IsNamed(f.func.name, <<"resize", "">>)
    IN  IF \E f \in fs : stops(f) THEN {}
        ELSE {f \in fs : CIA \notin f.composites /\ ModifiesAny(f)}

RegisteredOfGroup(g) ==
    IF Has(g, "inplace") /\ IsSet(g["inplace"])
         /\ g["inplace"].func.name.overload = <<"source", "Tensor">>
    THEN {} ELSE RegisteredOf(Members(g))

RegisteredAlone(f) ==
    IF f.func.name \in NotFunctionalized THEN {} ELSE RegisteredOf({f})

FunctionalizeRegistered(p, all) ==
    IF ~all THEN {}
    ELSE UNION {RegisteredOfView(vg) : vg \in p.views}
         \cup UNION {RegisteredOfGroup(g) : g \in p.groups}
         \cup UNION {RegisteredAlone(f) : f \in p.alone}

FunctionalizeDefined(p, all) ==
    IF ~all THEN {}
    ELSE UNION {ViewMembers(vg) : vg \in {v \in p.views : ~IsComposite(v)}}
         \cup UNION {Mutating(g) : g \in p.groups}

\* A composite view is registered with the kernel that decomposes it.
RegistrationOf(f, bs) ==
    IF CIA \in f.composites
    THEN <<"native", GetKernel(bs, CIA, f.func.name).kernel>>
    ELSE <<"functionalize", WrapperName(f)>>

ViewPropertiesOK(f) ==
    LET args == FlatNonOut(f.func)
    IN  /\ args # <<>> /\ args[1].type = Tensor /\ args[1].ann # NoAnnotation
        /\ \A i \in 2..Len(args) : args[i].ann = NoAnnotation

\* The assertions made while these kernels are written.
FunctionalizationOK(p) ==
    /\ \A vg \in p.views : ~IsComposite(vg) =>
         /\ Has(vg, "functional")
         /\ \A f \in ViewMembers(vg) : ViewPropertiesOK(f)
    /\ \A vg \in p.views : Has(vg, "aliasing_inplace") =>
         IsViewOp(vg["aliasing_inplace"])
    /\ \A f \in p.alone :
         {f.func.name, [f.func.name EXCEPT !.overload = <<>>]} \cap NotFunctionalized = {}
           => CIA \in f.composites \/ ~ModifiesAny(f)
    /\ \A g \in p.groups : \A f \in Members(g) :
         CIA \notin f.composites /\ ~IsSet(f) => ~IsViewOp(f)

-----------------------------------------------------------------------------
(* What a mutating kernel leaves behind *)

\* get_mutable_redispatch_return_names: the returns that are new, and those that are not.
InnerReturns(g) == NonAliasedRets(g["functional"].func)
Fresh(f) == Len(NonAliasedRets(f.func))

PropagationOK(f, g) ==
    Len(MutableArgNames(f.func)) + Fresh(f) = Len(InnerReturns(g))

\* Mutant.  The first results go to the written arguments.
PropagatedFirst(f, g) == [i \in DOMAIN MutableArgNames(f.func) |-> InnerReturns(g)[i]]

\* wrap_propagate_mutations_and_return: the first results are the new returns, the others
\* go to the written arguments in the order of the schema.
Propagated(f, g) ==
    [i \in DOMAIN MutableArgNames(f.func) |-> InnerReturns(g)[Fresh(f) + i]]

\* The value of each return: that of the argument it is, or a new one.
Returned(f, g) ==
    LET names == MutableArgNames(f.func)
        aliased == SelectSeq(AliasedReturnNames(f.func), LAMBDA name : name # "")
        value(name) == Propagated(f, g)[CHOOSE i \in DOMAIN names : names[i] = name]
    IN  Map(aliased, value) \o SubSeq(InnerReturns(g), 1, Fresh(f))

WrittenArguments(f) == SelectSeq(FlatAll(f.func), IsWrite)

-----------------------------------------------------------------------------
(* The calls of the kernels *)

OpOf(f) == <<"op", UnambiguousName(f.func.name)>>
CallOp(f, ctx) == Calling(OpOf(f), ctx, Dispatcher(f))

\* emit_inplace_functionalization_body: the operator itself where the arguments are not
\* functional, otherwise its functional variant.
MutationCalls(f, g) ==
    {CallOp(f, ToSet(Dispatcher(f))), CallOp(g["functional"], ToSet(Dispatcher(f)))}

\* emit_view_functionalization_body: every call has the arguments of the copy.
ViewCalls(f, vg) ==
    LET copy == vg["functional"]
        args == Calling(OpOf(copy), ToSet(Dispatcher(f)), Dispatcher(copy))
    IN  {args, [args EXCEPT !.symbol = OpOf(f)]}

\* ViewMeta: what is kept of the arguments, and the two calls made from it.
BaseArgument == <<"base", ConstRef(TensorT)>>
ModeArguments == <<<<"reapply_views", <<"bool">>>>,
                   <<"inverse_return_mode", <<"InverseReturnMode">>>>>>
IsMultiOutput(f) ==
    \/ Len(f.func.rets) > 1
    \/ Len(f.func.rets) = 1 /\ IsListLike(f.func.rets[1].type)
OutIndex(f) == IF IsMultiOutput(f) THEN <<<<"out_index", <<"long">>>>>> ELSE <<>>
AttributeBindings(f, TypeOf(_)) ==
    ModeArguments \o Bindings(Tail(FlatAll(f.func)), TypeOf)
Attributes(f) ==
    AttributeBindings(f, LAMBDA a : OwningType(a.type, IsWrite(a), Ilist(f)))
CtorArguments(f) ==
    AttributeBindings(f, LAMBDA a : CppType(a.type, IsWrite(a), TRUE, Ilist(f)))
InverseName(vg) == UnambiguousName(vg["aliasing"].func.name) \o <<"inverse">>

ForwardArguments(f) == <<BaseArgument>> \o Tail(Dispatcher(f))
ReverseArguments(f) ==
    <<BaseArgument, <<"mutated_view", ConstRef(TensorT)>>, ModeArguments[2]>>
      \o OutIndex(f) \o Tail(Dispatcher(f))

ViewMetaCalls(f, vg) ==
    LET ctx == {BaseArgument, <<"mutated_view", ConstRef(TensorT)>>}
                 \cup ToSet(OutIndex(f)) \cup ToSet(Attributes(f))
        forward(callee) == Calling(OpOf(callee), ctx, ForwardArguments(vg["functional"]))
    IN  {forward(vg["aliasing"]), forward(vg["functional"]),
         Calling(<<"inverse", InverseName(vg)>>, ctx, ReverseArguments(vg["functional"]))}
ViewMetaBuilds(f) ==
    [Calling(<<"viewmeta", UnambiguousName(f.func.name)>>, ToSet(CtorArguments(f)),
             Attributes(f)) EXCEPT !.owned = TRUE]

InverseDeclared(p) ==
    {<<"inverse", InverseName(vg)>> : vg \in {v \in p.views : ~IsComposite(v)}}

-----------------------------------------------------------------------------
(* CompositeViewCopyKernels.cpp *)

\* GenCompositeViewCopyKernel: a copy named after its view clones what the view returns.
GeneratesViewCopy(vg) ==
    /\ Has(vg, "functional")
    /\ vg["functional"].func.name.base = NameWords(vg["aliasing"].func.name) \o <<"copy">>
ViewCopyOK(vg, bs) ==
    GeneratesViewCopy(vg) =>
        LET name == vg["functional"].func.name
        IN  /\ HasKernel(bs, CENF, name)
            /\ IF IsNamed(name, <<"view", "copy">>)
               THEN GetKernel(bs, CENF, name).kernel = <<"view", "copy", "symint">>
               ELSE LET rets == vg["aliasing"].func.rets
                    IN  Len(rets) = 1 /\ rets[1].type \in {Tensor, TensorList}

\* What the file defines, and what it calls: the view, the variant a generated functional
\* runs on clones, the functional a generated out variant copies from.
CompositeDefined(p) ==
    {<<"native", GetKernel(p.kernels, CENF, vg["functional"].func.name).kernel>>
        : vg \in {v \in p.views : GeneratesViewCopy(v)}}
    \cup UNION {{<<"native", CompositeKernelName(g, f)>>
                   : f \in {g["functional"], g["out"]} \cap CompositeKernels(p.groups)}
                  : g \in p.groups}

CompositeCalls(p) ==
    {CallOp(vg["aliasing"], ToSet(Dispatcher(vg["functional"])))
        : vg \in {v \in p.views : GeneratesViewCopy(v)}}
    \cup {CallOp(FunctionalTarget(g), ToSet(Dispatcher(g["functional"])))
            : g \in {h \in p.groups : IsGenerated(h["functional"])}}
    \cup {CallOp(g["functional"], ToSet(Dispatcher(g["out"])))
            : g \in {h \in p.groups : IsGenerated(h["out"])}}

-----------------------------------------------------------------------------
\* PROPERTY (of the functions of a program).  A functionalized mutating operator leaves
\* in each argument it would have written the value that argument would have had, and
\* returns what the operator returns.  Out variants that write a positional argument as
\* well are left out: they are handed their values in the wrong order.  (emit_inplace_functionalization_body,
\* wrap_propagate_mutations_and_return)
WritesOutAndPositional(f) == f.out # <<>> /\ Some(FlatNonOut(f), IsWrite)
Faithful(p) ==
    \A g \in p.groups :
        \A f \in {h \in Mutating(g) : ~WritesOutAndPositional(h.func)} :
            LET written == WrittenArguments(f)
            IN  /\ Propagated(f, g) = Map(written, LAMBDA a : FinalValue(f.func, a))
                /\ Returned(f, g) = [i \in DOMAIN f.func.rets |-> i]
=============================================================================
