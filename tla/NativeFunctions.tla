---------------------------- MODULE NativeFunctions ----------------------------
(***************************************************************************)
(* What native_functions.yaml becomes (torchgen/model.py: NativeFunction,  *)
(* the groups, BackendIndex; torchgen/gen.py: the parse and its checks).   *)
(* A table of kernels is one set of records, one per key and operator.  An *)
(* optional value is a sequence of at most one element; a dict from kinds  *)
(* to functions is a function whose domain is the kinds present.           *)
(***************************************************************************)
EXTENDS OperatorSchema

CONSTANTS ValidTags,      \* tags.yaml
          UngroupedOps    \* the operators the exclusion lists of the generation name

CIA == "CompositeImplicitAutograd"
CIANested == "CompositeImplicitAutogradNestedTensor"
CEA == "CompositeExplicitAutograd"
CENF == "CompositeExplicitAutogradNonFunctional"

GenericKeys == {CIA, CIANested, CEA, CENF}
CudaKeys == {"CUDA", "QuantizedCUDA", "SparseCUDA", "SparseCsrCUDA",
             "NestedTensorCUDA", "AutogradCUDA"}
XpuKeys == {"XPU", "QuantizedXPU", "SparseXPU", "SparseCsrXPU",
            "NestedTensorXPU", "AutogradXPU"}
StructuredKeys == {"MPS", "CUDA", "CPU", "XPU", "MTIA"}
UfuncKeys == {"CUDA", "CPU"}

\* dispatch_keys: the keys a dispatch table may name.
DispatchKeys ==
    GenericKeys \cup StructuredKeys
      \cup ((CudaKeys \cup XpuKeys) \ {"AutogradCUDA", "AutogradXPU", "QuantizedXPU"})
      \cup {"SparseCPU", "SparseCsrCPU", "MkldnnCPU", "SparseMPS", "SparseCsrMPS",
            "QuantizedCPU", "NestedTensorCPU", "NestedTensorHPU", "Meta", "SparseMeta",
            "SparseCsrMeta", "QuantizedMeta", "NestedTensorMeta", "ZeroTensor"}

\* torchgen/api/cpp.py name: out variants get a suffix of their own.
CppName(f) == NameWords(f.name) \o (IF IsOutFn(f) THEN <<"out">> ELSE <<>>)

\* A kernel takes symbolic integers where its name says so.
SupportsSymInt(kernel) == Contains(kernel, "symint")

\* The arguments of a structured kernel that are computed beforehand: those that take the
\* place of one of the schema's, and those that are added.
Precompute(replace, add) == [replace |-> replace, add |-> add]
NoPrecompute == Precompute([name \in {} |-> <<>>], <<>>)

IsNamed(n, words) == NameWords(n) = words /\ n.overload = <<>>

-----------------------------------------------------------------------------
(* NativeFunction.from_yaml: one entry *)

EntrySchema(e) ==
    Schema(OpName(e.words, e.overload), ParseArguments(e.pos, e.kwargs), e.rets)

FactoryName(words) == words[1] = "new" \/ LastWordIs(words, "like")

\* The kernels of an entry, with its schema and the keys of its table that count.  Without
\* a dispatch table it has the composite kernel of its own name; an inner loop brings
\* structured kernels for the ufunc keys.
Kernels(e, s, keys) ==
    {[key |-> k, op |-> s.name, kernel |-> e.dispatch[k],
      structured |-> e.structured /\ k \in StructuredKeys] : k \in keys}
    \cup {[key |-> k, op |-> s.name, kernel |-> CppName(s), structured |-> FALSE]
            : k \in {CIA} \ (IF e.table \/ e.structured \/ e.delegate # <<>> THEN {CIA} ELSE {})}
    \cup {[key |-> k, op |-> s.name, structured |-> TRUE,
           kernel |-> <<"ufunc">> \o NameWords(s.name) \o <<k>>]
            : k \in IF e.ufunc = {} THEN {} ELSE UfuncKeys}

\* The assertions on a dispatch table, and on an entry that has none.
TableOK(e, s, keys) ==
    IF e.table
    THEN /\ ~e.manual
         /\ keys \subseteq DispatchKeys
         /\ keys = {CIA} /\ Cardinality(DOMAIN e.dispatch) = 1 =>
              /\ e.dispatch[CIA] # CppName(s)
              /\ e.delegate # <<>> \/ SupportsSymInt(e.dispatch[CIA])
    ELSE ~e.structured /\ e.delegate = <<>> =>
         /\ ~FactoryName(NameWords(s.name))
         /\ ~(HasTensorOptions(s) /\ ~HasTensorArg(s))

\* A kernel has one composite key, or a nested one beside it.
CompositesOK(composites) ==
    \/ Cardinality(composites) <= 1
    \/ Cardinality(composites) = 2 /\ CENF \notin composites /\ CIANested \in composites

EntryOK(e, s, keys, kernelKeys) ==
    /\ BaseNameOK(e.words)
    /\ ArgumentsOK(e.pos, e.kwargs)
    /\ SchemaOK(s)
    /\ e.variants \subseteq {"function", "method"}
    /\ e.tags \subseteq ValidTags
    /\ TableOK(e, s, keys)
    /\ CompositesOK(kernelKeys \cap GenericKeys)
    /\ e.ufunc # {} => e.structured /\ (~e.table \/ UfuncKeys \cap keys = {})
    /\ e.delegate # <<>> => kernelKeys \cap StructuredKeys = {}
    /\ e.precomputed # NoPrecompute => e.structured

NativeFunction(e, s, kernelKeys) ==
    [func |-> s, variants |-> e.variants, structured |-> e.structured,
     delegate |-> e.delegate, autogen |-> e.autogen, manual |-> e.manual,
     manualcpp |-> e.manualcpp, guard |-> e.guard, ufunc |-> e.ufunc,
     precomputed |-> e.precomputed, composites |-> kernelKeys \cap GenericKeys,
     tags |-> e.tags \cup ({"pt2_compliant_tag"} \cap ValidTags)]

\* The function, its kernels, and whether every assertion held.
WithKernels(e, s, keys, kernels, kernelKeys) ==
    [function |-> NativeFunction(e, s, kernelKeys), kernels |-> kernels,
     keys |-> kernelKeys, ok |-> EntryOK(e, s, keys, kernelKeys)]
WithSchema(e, s, keys, kernels) ==
    WithKernels(e, s, keys, kernels, {m.key : m \in kernels})
FromSchema(e, s, keys) == WithSchema(e, s, keys, Kernels(e, s, keys))
FromYaml(e, ignore) == FromSchema(e, EntrySchema(e), DOMAIN e.dispatch \ ignore)

Draws(s) ==
    \/ Contains(s.name.base, "rand")
    \/ /\ Contains(s.name.base, "dropout") \/ Some(FlatAll(s), LAMBDA a : a.name = "dropout")
       /\ ~Contains(s.name.base, "backward")
    \/ HasGeneratorArg(s)

\* __post_init__, of parsed and of generated functions alike.
FunctionOK(f) ==
    /\ IsOutFn(f.func) => f.variants = {"function"}
    /\ f.structured => Kind(f.func) = "out" /\ f.guard /\ f.delegate = <<>>
    /\ f.delegate # <<>> => Kind(f.func) # "out" /\ f.guard
    /\ Draws(f.func) => "nondeterministic_seeded" \in f.tags

HasComposite(f) == f.composites \cap {CIA, CEA, CENF} # {}
InStructuredGroup(f) == f.structured \/ f.delegate # <<>>
IsGenerated(f) == "generated" \in f.tags

IsResize(n) == IsNamed(n, <<"resize", "">>) \/ IsNamed(n, <<"resize", "as", "">>)

IsViewOp(f) ==
    \/ Some(f.func.rets, LAMBDA r : r.ann # NoAnnotation /\ ~IsWrite(r))
    \/ "inplace_view" \in f.tags /\ ~IsResize(f.func.name)
    \/ Some(FlatAll(f.func), LAMBDA a : "*" \in a.ann.after)

ViewSchemaKind(f) ==
    IF ~IsViewOp(f) THEN "non_aliasing"
    ELSE IF f.func.name.inplace THEN "aliasing_inplace" ELSE "aliasing"

ViewSchemaOK(f) ==
    ViewSchemaKind(f) = "aliasing_inplace" => "inplace_view" \in f.tags

-----------------------------------------------------------------------------
(* BackendIndex: the kernels of one key, a subset of the table *)

HasKernel(bs, k, n) == \E m \in bs : m.key = k /\ m.op = n
GetKernel(bs, k, n) == CHOOSE m \in bs : m.key = k /\ m.op = n
IndexedKeys(bs) == {m.key : m \in bs}

\* grow_index: an operator has one kernel for a key.
IndexOK(bs) == \A m1, m2 \in bs : m1.key = m2.key /\ m1.op = m2.op => m1 = m2

-----------------------------------------------------------------------------
(* Groups of the variants of one operator *)

Classes(fs, Key(_)) == {{f \in fs : Key(f) = s} : s \in {Key(f) : f \in fs}}
ByKind(class, K(_)) ==
    [k \in {K(f) : f \in class} |-> CHOOSE f \in class : K(f) = k]

SignatureOf(f) == Signature(f.func)
KindOf(f) == Kind(f.func)

PreGroups(rs) == {ByKind(c, KindOf) : c \in Classes(rs, SignatureOf)}
PreGroupsOK(rs) ==
    \A f1, f2 \in rs : SignatureOf(f1) = SignatureOf(f2) /\ KindOf(f1) = KindOf(f2)
                          => f1 = f2

Members(g) == {g[k] : k \in DOMAIN g}
Singleton(d) == Cardinality(DOMAIN d) = 1
IsGroup(d) == ~Singleton(d) /\ "out" \in DOMAIN d

AutogenOf(g) == UNION {f.autogen : f \in Members(g)}
GeneratedOf(g) == {f.func.name : f \in {h \in Members(g) : IsGenerated(h)}}

\* from_dict and NativeFunctionsGroup.__post_init__.
GroupOK(g) ==
    LET delegates(f) == f.delegate = <<g["out"].func.name>>
    IN  /\ DOMAIN g \subseteq {"functional", "inplace", "mutable", "out"}
        /\ "functional" \in DOMAIN g
        /\ \A f \in Members(g) : InStructuredGroup(f) = g["out"].structured
        /\ "mutable" \in DOMAIN g => g["functional"].func.name.functional
        /\ g["out"].structured =>
             /\ g["out"].composites \cap {CIA, CIANested} = {}
             /\ delegates(g["functional"])
             /\ "inplace" \in DOMAIN g => delegates(g["inplace"])
        /\ AutogenOf(g) = GeneratedOf(g)

\* get_grouped_native_functions: what makes no group stands alone, and nothing that was
\* generated may.
Groups(pre) == {d \in pre : IsGroup(d)}
Alone(pre) == UNION {Members(d) : d \in pre \ Groups(pre)}
GroupingOK(rs, pre) ==
    /\ PreGroupsOK(rs)
    /\ \A d \in pre :
         IF Singleton(d) THEN \A f \in Members(d) : ~IsGenerated(f)
         ELSE /\ "functional" \in DOMAIN d
              /\ IF IsGroup(d) THEN GroupOK(d)
                 ELSE /\ DOMAIN d \subseteq {"functional", "inplace", "mutable"}
                      /\ \A f \in Members(d) : ~IsGenerated(f)

-----------------------------------------------------------------------------
(* Views: an aliasing operator, its in-place form and its copy *)

GetsGeneratedViewCopy(f) ==
    /\ IsViewOp(f)
    /\ CIA \notin f.composites
    /\ "inplace_view" \notin f.tags
    /\ ~LastWordIs(f.func.name.base, "inverse")

ViewSignatureOf(f) == ViewSignature(f.func)
ViewOrKind(f) == IF IsViewOp(f) THEN ViewSchemaKind(f) ELSE KindOf(f)
ByView(rs) == {ByKind(c, ViewOrKind) : c \in Classes(rs, ViewSignatureOf)}
IsViewGroup(d) == "aliasing" \in DOMAIN d

\* A view group keeps the view, its in-place form and its functional copy; the other
\* functions of the signature stand beside it.
ViewGroup(d) ==
    [k \in DOMAIN d \cap {"aliasing", "aliasing_inplace", "functional"} |-> d[k]]
ViewGroups(rs) == {ViewGroup(d) : d \in {c \in ByView(rs) : IsViewGroup(c)}}
IsComposite(vg) == CIA \in vg["aliasing"].composites

\* NativeFunctionsViewGroup.__post_init__
ViewGroupOK(vg) ==
    LET view == vg["aliasing"]
    IN  /\ IF "functional" \notin DOMAIN vg THEN ~GetsGeneratedViewCopy(view)
           ELSE LET copy == vg["functional"]
                IN  /\ LastWordIs(copy.func.name.base, "copy")
                         \/ LastWordIs(copy.func.name.base, "scatter")
                    /\ Signature(view.func) = ViewSignature(copy.func)
                    /\ "view_copy" \in copy.tags
        /\ "aliasing_inplace" \in DOMAIN vg =>
             LET inplace == vg["aliasing_inplace"]
             IN  /\ Signature(view.func) = Signature(inplace.func)
                 /\ view.composites \cap {CIA, CIANested} \subseteq inplace.composites

ViewGroupingOK(rs, views) ==
    /\ \A f \in rs : ViewSchemaOK(f)
    /\ \A f1, f2 \in rs :
         ViewSignatureOf(f1) = ViewSignatureOf(f2) /\ ViewOrKind(f1) = ViewOrKind(f2)
           => f1 = f2
    /\ \A vg \in views : ViewGroupOK(vg)

-----------------------------------------------------------------------------
(* error_check_native_functions: what ties one entry to another *)

ErrorCheckOK(rs) ==
    /\ \A f \in rs : f.delegate # <<>> =>
         \E g \in rs : g.func.name = f.delegate[1] /\ g.structured
    /\ \A f \in {h \in rs : "inplace_view" \in h.tags} :
         IsResize(f.func.name) \/ NameWords(f.func.name) = <<"set", "">> \/
            /\ f.func.name.inplace
            /\ \E g \in rs : NameWords(g.func.name) = f.func.name.base
=============================================================================
