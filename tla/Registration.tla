------------------------------ MODULE Registration ------------------------------
(***************************************************************************)
(* The kernels the generator registers for a dispatch key, the C++ it      *)
(* writes around them and what that C++ calls (torchgen/gen.py, torchgen/  *)
(* dest/register_dispatch_key.py, torchgen/dest/native_functions.py).      *)
(*                                                                         *)
(* Generated C++ is the set of symbols it declares and of the calls it     *)
(* makes.  A symbol is a pair <<where, what>>: "native" and "struct" for   *)
(* the kernels of at::native, "meta" for the meta functions, "op" for      *)
(* at::_ops, "api" for at::, "code" for the body of a kernel, and a        *)
(* dispatch key for at::<key>::.                                           *)
(* A call names a symbol, the bindings at hand and those it takes.         *)
(***************************************************************************)
EXTENDS CppApi, GeneratedFunctions

NoKey == "Undefined"

\* A unit of generation: the members of a group, or one function that stands alone.
Units(pre) == Groups(pre) \cup {ByKind({f}, KindOf) : f \in Alone(pre)}

\* A program: the functions and kernels of a yaml file, grouped.
Program(functions, kernels) ==
    LET pre == PreGroups(functions)
        groups == Groups(pre)
        views == ViewGroups(functions)
        grouped == UNION {Members(d) : d \in groups \cup views}
    IN  [functions |-> functions, kernels |-> kernels, groups |-> groups,
         units |-> Units(pre), views |-> views, alone |-> functions \ grouped]

\* The assertions made while the functions are grouped.
ProgramOK(p) ==
    /\ GroupingOK(p.functions, PreGroups(p.functions))
    /\ ViewGroupingOK(p.functions, p.views)

Root(u) == LET f == CHOOSE f \in Members(u) : TRUE IN f.func.name.base
IsStructured(u) == IsGroup(u) /\ u["out"].structured

\* The table of a key no kernel is registered for answers as that of no key.
IndexKey(bs, k) == IF k \in IndexedKeys(bs) THEN k ELSE NoKey

MetaName(g) == UnambiguousName(g["functional"].func.name)

\* native_function_manager: lists of tensors are references in structured operators.
Ilist(f) == InStructuredGroup(f)
Dispatcher(f) == DispatcherArguments(f.func, TRUE, Ilist(f))
Native(f, symint) == NativeArguments(f.func, symint, Ilist(f))
Cpp(f, sig) == CppArguments(f.func, sig, FALSE, Ilist(f))

Calling(symbol, args, goals) ==
    [symbol |-> symbol, args |-> args, goals |-> goals, owned |-> FALSE]

\* translate: whether what the symbol takes can be made from what is at hand; an object
\* that owns its members may copy.
Typed(c) == TranslatesWith(c.args, c.goals, FALSE, c.owned)

-----------------------------------------------------------------------------
(* RegisterDispatchKey: which functions get a kernel for a key *)

\* gen_structured: kernels with a class around meta and impl.  Meta and the default
\* backend have one for every structured operator and may not be named in its entry.
GeneratesClasses(u, bs, k) ==
    /\ IsStructured(u)
    /\ \/ IndexKey(bs, k) \in {"Meta", CENF}
       \/ /\ HasKernel(bs, k, u["out"].func.name)
          /\ GetKernel(bs, k, u["out"].func.name).structured

\* gen_one: no function with a class is registered by hand.
NoneByHand(u) == \A f \in Members(u) : ~f.manual

StructuredOK(u, bs, k) ==
    GeneratesClasses(u, bs, k) =>
        /\ IndexKey(bs, k) \in {"Meta", CENF} => ~HasKernel(bs, k, u["out"].func.name)
        /\ NoneByHand(u)

KernelKinds == {"functional", "inplace", "out"}

\* gen_class: there is no class for the other kinds of variants.
ClassesOK(u, bs, k) ==
    GeneratesClasses(u, bs, k) => \A f \in Members(u) : KindOf(f) \in KernelKinds

\* An in-place function without a kernel only checks that self is a meta tensor.
InplaceMeta(f, bs, k) ==
    /\ IndexKey(bs, k) = "Meta" /\ ~HasKernel(bs, k, f.func.name)
    /\ KindOf(f) = "inplace" /\ ~HasComposite(f) /\ Len(f.func.rets) = 1

Wrapped(u, bs, k) ==
    IF GeneratesClasses(u, bs, k)
    THEN {f \in Members(u) : ~(k = CENF /\ KindOf(f) = "out")}
    ELSE {f \in Members(u) : /\ ~f.manual
                             /\ HasKernel(bs, k, f.func.name) \/ InplaceMeta(f, bs, k)}

AllWrapped(us, bs, k) == UNION {Wrapped(u, bs, k) : u \in us}

KernelSymInt(f, bs, k) ==
    HasKernel(bs, k, f.func.name) /\ SupportsSymInt(GetKernel(bs, k, f.func.name).kernel)

\* The signature of the wrapper that is registered.
WrapperArguments(f, u, bs, k) ==
    IF GeneratesClasses(u, bs, k) THEN Native(f, KernelSymInt(f, bs, k)) ELSE Dispatcher(f)

\* gen_unstructured: the wrapper calls the kernel.
KernelCalls(f, bs, k) ==
    IF ~HasKernel(bs, k, f.func.name) THEN {}
    ELSE LET kernel == GetKernel(bs, k, f.func.name).kernel
         IN  {Calling(<<"native", kernel>>, ToSet(Dispatcher(f)),
                      Native(f, SupportsSymInt(kernel)))}

\* gen_one: the wrapper makes an object of the class, calls meta, then impl; the default
\* backend calls the out variant instead and Meta nothing.
ClassCalls(f, g, bs, k) ==
    LET kernel == IF k \in {"Meta", CENF} THEN <<>>
                  ELSE GetKernel(bs, k, g["out"].func.name).kernel
        parent == IF k \in {"Meta", CENF} THEN <<"meta", MetaName(g)>>
                  ELSE <<"struct", kernel>>
        args == ToSet(Native(f, KernelSymInt(f, bs, k)))
        outs == {<<a.name, MutRef(TensorT)>> : a \in ToSet(g["out"].func.out)}
        ctx == args \cup Precomputed(g) \cup outs
        out == g["out"]
    IN  {Calling(parent, args, MetaArguments(g))}
        \cup CASE k = "Meta" -> {}
               [] k = CENF -> {Calling(<<"api", CppName(out.func)>>, ctx,
                                       Cpp(out, MostFaithful(out.func)))}
               [] OTHER -> {Calling(<<"struct", kernel>>, ctx, ImplArguments(g))}

\* The definitions of at::<key>::: one per C++ signature, each calls the wrapper.
NamespacedCalls(f, u, bs, k) ==
    {Calling(<<"code", CppName(f.func)>>, ToSet(Cpp(f, sig)), WrapperArguments(f, u, bs, k))
       : sig \in CppSignatures(f.func)}

RegisterCalls(us, bs, k) ==
    UNION {UNION {(IF GeneratesClasses(u, bs, k) THEN ClassCalls(f, u, bs, k)
                   ELSE KernelCalls(f, bs, k)) \cup NamespacedCalls(f, u, bs, k)
                     : f \in Wrapped(u, bs, k)} : u \in us}

\* The kernels that are registered for the key, of the functions the build selects.
Impls(us, bs, k, selected, skip) ==
    IF skip THEN {} ELSE {f.func.name : f \in AllWrapped(us, bs, k) \cap selected}

\* RegisterSchema
Schemas(rs, selected, force, skip) ==
    IF skip THEN {} ELSE {f.func.name : f \in IF force THEN rs ELSE selected}

\* needs_backend_select: factories are dispatched on their options.  The flag that skips
\* the other registrations does not reach these.
NeedsBackendSelect(f) ==
    ~FactoryName(NameWords(f.func.name)) /\ HasTensorOptions(f.func)
BackendSelected(selected) == {f \in selected : NeedsBackendSelect(f)}

-----------------------------------------------------------------------------
(* Declarations *)

\* compute_native_function_declaration, for every table of kernels.
NativeDeclared(u, bs) ==
    UNION {LET structured == /\ IsGroup(u) /\ HasKernel(bs, k, u["out"].func.name)
                             /\ GetKernel(bs, k, u["out"].func.name).structured
           IN  IF structured
               THEN {<<"struct", GetKernel(bs, k, u["out"].func.name).kernel>>}
               ELSE {<<"native", m.kernel>> :
                       m \in {m \in bs : /\ m.key = k
                                         /\ \E f \in Members(u) : f.func.name = m.op}}
             : k \in IndexedKeys(bs)}
MetaDeclared(u) == IF IsStructured(u) THEN {<<"meta", MetaName(u)>>} ELSE {}
OpDeclared(f) == {<<"op", UnambiguousName(f.func.name)>>}
ApiDeclared(f) ==
    IF "function" \in f.variants THEN {<<"api", CppName(f.func)>>} ELSE {}
KeyDeclared(u, bs, k) == {<<k, f.func.name>> : f \in Wrapped(u, bs, k)}

\* ComputeFunction, ComputeTensorMethod, ComputeRedispatchFunction: the functions of at::
\* and the methods of Tensor call the operator.
ApiCalls(f, method) ==
    {Calling(<<"op", UnambiguousName(f.func.name)>>,
             ToSet(CppArguments(f.func, sig, method, Ilist(f)))
               \cup (IF method THEN Implicit(TRUE) ELSE {}), Dispatcher(f))
       : sig \in CppSignatures(f.func)}
MethodOK(f) == "method" \in f.variants => ~IsOutFn(f.func) /\ f.func.self # <<>>

-----------------------------------------------------------------------------
(* Static dispatch: at::_ops calls the kernel of a key itself *)

StaticKeys(static) ==
    IF static = {} THEN {} ELSE static \cup {CIA, CIANested, CEA, CENF}

\* generate_static_dispatch_fallback_call and get_static_dispatch_backend agree on the
\* order of the composite keys.
FallbackKey(f) ==
    CASE CEA \in f.composites -> {CEA}
      [] CENF \in f.composites -> {CENF}
      [] CIA \in f.composites -> {CIA}
      [] CIANested \in f.composites -> {CIANested}
      [] OTHER -> {}

\* static_dispatch_ops_header: the header of f includes those of these keys.
StaticHeaderKeys(f, bs, static) ==
    IF f.manual THEN {}
    ELSE UNION {IF f.delegate # <<>> \/ HasKernel(bs, k, f.func.name)
                THEN {IndexKey(bs, k)} ELSE FallbackKey(f) : k \in static}

\* static_dispatch: the keys the body may call: with one of the backends the fallback is
\* not reached, with several it is the default.
StaticCallKeys(f, bs, static) ==
    LET keys == {k \in static : \/ HasKernel(bs, k, f.func.name)
                                \/ f.delegate # <<>>
                                   /\ IndexKey(bs, k) \in StructuredKeys}
    IN  IF f.manual \/ static = {} THEN {}
        ELSE IF Cardinality(keys) = 1 THEN keys
        ELSE keys \cup FallbackKey(f)

\* translate_args: a memory format answers for the redundant one.
Redundant(args, goals) ==
    IF Some(goals, LAMBDA b : b[1] = "possibly_redundant_memory_format")
    THEN Map(args, LAMBDA b : IF b[1] = "memory_format"
                              THEN <<"possibly_redundant_memory_format", b[2]>> ELSE b)
    ELSE args

StaticCalls(f, bs, static) ==
    LET goals == Cpp(f, [faithful |-> FALSE, symint |-> HasSymInt(f.func)])
    IN  {Calling(<<k, f.func.name>>, ToSet(Redundant(Dispatcher(f), goals)), goals)
           : k \in StaticCallKeys(f, bs, static)}
=============================================================================
