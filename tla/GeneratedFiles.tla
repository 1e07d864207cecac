---------------------------- MODULE GeneratedFiles ----------------------------
(***************************************************************************)
(* The files one run of the generator writes and what is in each           *)
(* (torchgen/gen.py: gen_headers, gen_source_files, gen_declarations_yaml; *)
(* torchgen/gen_vmap_plumbing.py).                                         *)
(*                                                                         *)
(* A file is a tuple, the first element its kind.  Its text is what can go *)
(* wrong between files: the headers it includes, the symbols it declares   *)
(* and defines, the calls it makes and the registrations it performs.  The *)
(* templates are not part of the repository: the headers they include in   *)
(* both modes are taken from what the generated part needs.                *)
(***************************************************************************)
EXTENDS Functionalization, SelectiveBuild, FiniteSetsExt

CONSTANT Hash      \* string_stable_hash of the root names

ShardNames == <<"0", "1", "2", "3", "4">>

\* The assertions made while the kernels of a key, the mutating kernels and the composite
\* kernels are written.
KeyOK(p, k) ==
    \A u \in p.units : StructuredOK(u, p.kernels, k) /\ ClassesOK(u, p.kernels, k)
MutationsOK(p, o) ==
    o.sel.all => /\ FunctionalizationOK(p)
                 /\ \A g \in p.groups : \A f \in Mutating(g) : PropagationOK(f, g)
CompositeTextOK(p) ==
    CompositeKernelsOK(p.groups) /\ \A vg \in p.views : ViewCopyOK(vg, p.kernels)

Roots(p) == {f.func.name.base : f \in p.functions}
FunctionsOf(p, roots) == {f \in p.functions : f.func.name.base \in roots}
UnitsOf(p, roots) == {u \in p.units : Root(u) \in roots}

Text(includes, declares, defines, calls, registers) ==
    [includes |-> includes, declares |-> declares, defines |-> defines,
     calls |-> calls, registers |-> registers]
Declaring(symbols) == Text({}, symbols, {}, {}, {})
Including(files) == Text(files, {}, {}, {}, {})
Listing(where, fs) == Text({}, {}, {}, {}, {<<where, f.func.name>> : f \in fs})

\* The files of the headers of one root name, and the umbrella headers.
OpsHeader(root, suffix) == <<"ops", root \o suffix>>
OpHeader(root) == OpsHeader(root, <<"ops">>)
NativeHeader(root) == OpsHeader(root, <<"native">>)
MetaHeader(root) == OpsHeader(root, <<"meta">>)
DispatchHeader(root, k) == OpsHeader(root, <<k, "dispatch">>)
Umbrella(category) == <<category>>
KeyHeader(k) == <<"Functions", k>>
KeyInline(k) == <<"Functions_inl", k>>

SelectedFunctions(p, o) ==
    {f \in p.functions :
        IsOperatorSelected(o.sel, <<NameWords(f.func.name), f.func.name.overload>>)}

-----------------------------------------------------------------------------
(* Writes, in the order of the code *)

Write(file, text) == [file |-> file, text |-> text, listed |-> TRUE]

\* write_sharded_with_template: first everything in one file, which is then taken off the
\* list of outputs, then the items of each shard.
Shard(roots, shards, i) == {r \in roots : Hash[r] % shards = i - 1}
WriteSharded(file, roots, shards, TextOf(_)) ==
    <<[file |-> Append(file, "Everything"), text |-> TextOf(roots), listed |-> FALSE]>>
      \o [i \in 1..shards |->
            Write(Append(file, ShardNames[i]), TextOf(Shard(roots, shards, i)))]

\* The writes of each element of a set, one after another.
ForEach(writes) == FoldSet(LAMBDA x, rest : writes[x] \o rest, <<>>, DOMAIN writes)

-----------------------------------------------------------------------------
(* gen_headers *)

IsMethod(f) == "method" \in f.variants
OpsDeclared(fs) == UNION {OpDeclared(f) : f \in fs}
ApisDeclared(fs) == UNION {ApiDeclared(f) : f \in fs}
ApisCalled(fs) == UNION {ApiCalls(f, FALSE) : f \in {h \in fs : "function" \in h.variants}}
NativesDeclared(us, bs) == UNION {NativeDeclared(u, bs) : u \in us}
KeysDeclared(us, bs, k) == UNION {KeyDeclared(u, bs, k) : u \in us}
MetasDeclared(us) == UNION {MetaDeclared(u) : u \in us}

StaticHeaders(p, o, fs) ==
    UNION {{DispatchHeader(f.func.name.base, k) : k \in StaticHeaderKeys(f, p.kernels, o.static)}
             : f \in fs}
StaticExtraHeaders(o) == {KeyHeader(k) : k \in StaticKeys(o.static)}

HasMeta(p, root) == \E u \in UnitsOf(p, {root}) : IsStructured(u)

\* gen_per_operator_headers: the headers of one root name ...
RootHeaders(p, o, root) ==
    LET fs == FunctionsOf(p, {root})
        us == UnitsOf(p, {root})
        meta == IF HasMeta(p, root) THEN {MetaHeader(root)} ELSE {}
    IN  <<Write(OpHeader(root), Declaring(OpsDeclared(fs))),
          Write(OpsHeader(root, <<>>),
                Text(StaticHeaders(p, o, fs) \cup {OpHeader(root)}, ApisDeclared(fs), {},
                     ApisCalled(fs), {}))>>
        \o ForEach([h \in meta |-> <<Write(h, Declaring(MetasDeclared(us)))>>])
        \o <<Write(NativeHeader(root),
                   Text(meta, NativesDeclared(us, p.kernels), {}, {}, {}))>>

\* ... and those of one dispatch key, for the root names that have something to declare.
DispatchNames(p, k) == {r \in Roots(p) : KeysDeclared(UnitsOf(p, {r}), p.kernels, k) # {}}
KeyHeaders(k, inline) ==
    <<Write(KeyHeader(k), Including({KeyInline(k)})), Write(KeyInline(k), inline)>>
RootDispatchHeaders(p, k) ==
    ForEach([r \in DispatchNames(p, k) |->
               <<Write(DispatchHeader(r, k),
                       Declaring(KeysDeclared(UnitsOf(p, {r}), p.kernels, k)))>>])
      \o KeyHeaders(k, Including({DispatchHeader(r, k) : r \in DispatchNames(p, k)}))

PerOperatorHeaders(p, o) ==
    LET all(category, suffix) ==
          Write(Umbrella(category), Including({OpsHeader(r, suffix) : r \in Roots(p)}))
    IN  ForEach([r \in Roots(p) |-> RootHeaders(p, o, r)])
        \o <<all("Functions", <<>>), all("Operators", <<"ops">>),
             all("NativeMetaFunctions", <<"meta">>), all("NativeFunctions", <<"native">>)>>
        \o ForEach([k \in o.keys \cap o.functions |-> RootDispatchHeaders(p, k)])
        \o <<Write(Umbrella("MethodOperators"),
                   Including({OpHeader(f.func.name.base) :
                                f \in {h \in p.functions : IsMethod(h)}}))>>

\* gen_aggregated_headers
AggregatedHeaders(p, o) ==
    LET methods == {f \in p.functions : IsMethod(f)}
    IN  <<Write(Umbrella("NativeMetaFunctions"), Declaring(MetasDeclared(p.units))),
          Write(Umbrella("MethodOperators"), Declaring(OpsDeclared(methods))),
          Write(Umbrella("Operators"),
                Text({Umbrella("MethodOperators")}, OpsDeclared(p.functions \ methods),
                     {}, {}, {})),
          Write(Umbrella("Functions"),
                Text(StaticExtraHeaders(o) \cup {Umbrella("Operators")},
                     ApisDeclared(p.functions), {}, ApisCalled(p.functions), {})),
          Write(Umbrella("NativeFunctions"),
                Text({Umbrella("NativeMetaFunctions")},
                     NativesDeclared(p.units, p.kernels), {}, {}, {}))>>
        \o ForEach([k \in o.keys \cap o.functions |->
                     KeyHeaders(k, Declaring(KeysDeclared(p.units, p.kernels, k)))])

\* The functions a plumbing is generated for: it calls the operator where no argument is
\* batched, and otherwise a batch rule the operator's library has to bring.
OneWritten(f) == Len(MutableArgNames(f.func)) = 1
Plumbed(f) ==
    LET rets == f.func.rets
        tensors == Every(rets, LAMBDA r : r.type \in {Tensor, TensorList})
    IN  /\ Some(FlatAll(f.func), LAMBDA a : IsTensorLike(a.type))
        /\ \/ rets = <<>>
           \/ /\ Every(rets, LAMBDA r : IsTensorLike(r.type))
              /\ "inplace_view" \notin f.tags
              /\ \/ /\ KindOf(f) = "inplace" /\ IsWrite(FlatAll(f.func)[1])
                    /\ OneWritten(f) /\ tensors
                 \/ KindOf(f) = "functional"

HeaderFiles(p, o) ==
    LET operators == {Umbrella("Operators")}
        methods == {f \in p.functions : IsMethod(f)}
        calling(calls) == Text(operators, {}, {}, calls, {})
    IN  (IF o.perop THEN PerOperatorHeaders(p, o) ELSE AggregatedHeaders(p, o))
        \o <<Write(<<"TensorBody">>,
                   Text({Umbrella("MethodOperators")}, {}, {},
                        UNION {ApiCalls(f, TRUE) : f \in methods}, {})),
             Write(<<"RedispatchFunctions">>,
                   calling(UNION {ApiCalls(f, FALSE) : f \in p.functions})),
             Write(<<"RegistrationDeclarations">>, Listing("declaration", p.functions)),
             Write(<<"VmapGeneratedPlumbing">>,
                   calling({CallOp(f, ToSet(Dispatcher(f))) :
                              f \in {h \in p.functions : Plumbed(h)}})),
             Write(<<"aten_interned_strings">>, Listing("symbol", p.functions)),
             Write(<<"enum_tag">>, Declaring({<<"tag", t>> : t \in ValidTags}))>>

-----------------------------------------------------------------------------
(* gen_source_files *)

\* What a source includes of the headers of a root name, or the umbrella headers.
PerRoot(o, perop, umbrellas) == IF o.perop THEN perop ELSE umbrellas

\* gen_registration_headers: as_strided for the proxies, and the operators the helpers of a
\* key without an allocator of its own call.
AllocatingKeys == {"CPU", "Meta", "CUDA", "MPS", "XPU", "MTIA"}
HelperOperators ==
    {<<"empty">>, <<"empty", "strided">>, <<"", "copy", "from", "and", "resize">>,
     <<"", "copy", "from">>}
RegistrationHeaders(p, o, k) ==
    PerRoot(o, {NativeHeader(<<"as", "strided">>)}, {Umbrella("NativeFunctions")})
      \cup (IF IndexKey(p.kernels, k) \in AllocatingKeys THEN {}
            ELSE PerRoot(o, {OpsHeader(r, <<>>) : r \in HelperOperators},
                         {Umbrella("Functions")}))

\* Whether the file of a key includes the headers of a unit: it has a kernel for the key,
\* or gets one because it is structured.
IsRegistered(u, bs, k) ==
    \/ \E f \in Members(u) : HasKernel(bs, k, f.func.name)
    \/ IsStructured(u) /\ k \in {"Meta", CENF}

\* Mutant.  Without the functions of at:: the default backend calls.
NativeIncludes(p, o, k) ==
    RegistrationHeaders(p, o, k)
      \cup PerRoot(o, {NativeHeader(r) : r \in Roots(p)}, {Umbrella("NativeFunctions")})
      \cup (IF k \in o.functions THEN {KeyHeader(k)} ELSE {})

RegisterIncludes(p, o, k) ==
    LET roots == {Root(u) : u \in {v \in p.units : IsRegistered(v, p.kernels, k)}}
    IN  RegistrationHeaders(p, o, k) \cup
        PerRoot(o, {NativeHeader(r) : r \in roots}
                     \cup (IF k = CENF THEN {OpsHeader(r, <<>>) : r \in roots} ELSE {})
                     \cup (IF k \in o.functions THEN {DispatchHeader(r, k) : r \in roots}
                           ELSE {}),
                {Umbrella("NativeFunctions")}
                  \cup (IF k = CENF THEN {Umbrella("Functions")} ELSE {})
                  \cup (IF k \in o.functions THEN {KeyHeader(k)} ELSE {}))

\* Register<key>.cpp
RegisterText(p, o, k, roots) ==
    LET us == UnitsOf(p, roots)
        bs == p.kernels
    IN  Text(RegisterIncludes(p, o, k), {},
             {<<"code", CppName(f.func)>> : f \in AllWrapped(us, bs, k)},
             RegisterCalls(us, bs, k),
             {<<k, n>> : n \in Impls(us, bs, k, SelectedFunctions(p, o), o.skip)})

\* UfuncCPU_<name>.cpp, UfuncCUDA_<name>.cu: the kernels an inner loop brings.
UfuncWrites(p, k) ==
    LET loops == {g \in p.units : IsGroup(g) /\ g["out"].ufunc # {} /\ k \in UfuncKeys}
        kernel(g) == GetKernel(p.kernels, k, g["out"].func.name).kernel
        file(g, prefix) == <<"Ufunc", prefix, NameWords(g["functional"].func.name)>>
    IN  ForEach([g \in loops |->
          <<Write(file(g, k), Text({}, {}, {<<"struct", kernel(g)>>}, {}, {}))>>
            \o (IF k = "CPU" THEN <<Write(file(g, "CPUKernel"), Listing("ufunc", Members(g)))>>
                ELSE <<>>)])

KeySources(p, o, k) ==
    WriteSharded(<<"Register", k>>, Roots(p), IF k = "CPU" THEN 4 ELSE 1,
                 LAMBDA roots : RegisterText(p, o, k, roots))
      \o UfuncWrites(p, k)

BackendSelectText(p, o) ==
    LET fs == BackendSelected(SelectedFunctions(p, o))
    IN  Text(PerRoot(o, {OpHeader(f.func.name.base) : f \in fs}, {Umbrella("Operators")}),
             {}, {}, {CallOp(f, ToSet(Dispatcher(f))) : f \in fs},
             {<<"BackendSelect", f.func.name>> : f \in fs})

SchemaText(p, o) ==
    Text({}, {}, {}, {},
         {<<"schema", n>> :
            n \in Schemas(p.functions, SelectedFunctions(p, o), o.force, o.skip)})

\* Operators.cpp: at::_ops, dispatching through the dispatcher or statically.
OperatorsText(p, o, roots) ==
    Text(PerRoot(o, {OpsHeader(r, <<>>) : r \in roots},
                 {Umbrella("Functions"), Umbrella("Operators")}) \cup StaticExtraHeaders(o),
         {}, OpsDeclared(FunctionsOf(p, roots)),
         UNION {StaticCalls(f, p.kernels, o.static) : f \in FunctionsOf(p, roots)}, {})

\* gen_op_headers
BothHeaders(fs) ==
    UNION {{NativeHeader(f.func.name.base), OpHeader(f.func.name.base)} : f \in fs}

\* RegisterFunctionalization.cpp: groups, views and what is neither, by their root name.
FunctionalizationText(p, o, roots) ==
    LET at(fs) == \E f \in fs : f.func.name.base \in roots
        groups == {g \in p.groups : at({g["functional"]})}
        views == {vg \in p.views : at({vg["aliasing"]})}
        alone == {f \in p.alone : at({f})}
        here == UNION {Members(d) : d \in groups \cup views} \cup alone
        defined == FunctionalizeDefined(p, o.sel.all) \cap here
        registered == FunctionalizeRegistered(p, o.sel.all) \cap here
    IN  Text(PerRoot(o, BothHeaders(here), {Umbrella("NativeFunctions"), Umbrella("Operators")}),
             {}, {<<"functionalize", WrapperName(f)>> : f \in defined},
             UNION {UNION {MutationCalls(f, g) : f \in Mutating(g) \cap defined} : g \in groups}
               \cup UNION {UNION {ViewCalls(f, vg) : f \in ViewMembers(vg) \cap defined}
                             : vg \in views}
               \cup {Calling(RegistrationOf(f, p.kernels), {}, <<>>) : f \in registered},
             {<<"Functionalize", f.func.name>> : f \in registered})

\* FunctionalInverses.h, ViewMetaClasses: for the views that are not composite.
ViewMetaViews(p, o) ==
    {vg \in p.views : o.sel.all /\ ~IsComposite(vg)}
ViewMetaWrites(p, o) ==
    LET views == ViewMetaViews(p, o)
        all(Of(_, _)) == UNION {UNION {Of(f, vg) : f \in ViewMembers(vg)} : vg \in views}
        classes == all(LAMBDA f, vg : {<<"viewmeta", UnambiguousName(f.func.name)>>})
        headers == BothHeaders(UNION {Members(vg) : vg \in p.views})
    IN  <<Write(<<"FunctionalInverses">>,
                Declaring(IF o.sel.all THEN InverseDeclared(p) ELSE {})),
          Write(<<"ViewMetaClasses">>, Declaring(classes)),
          Write(<<"ViewMetaClasses.cpp">>,
                Text({<<"FunctionalInverses">>, <<"ViewMetaClasses">>} \cup
                       PerRoot(o, headers, {Umbrella("NativeFunctions"), Umbrella("Operators")}),
                     {}, classes,
                     all(ViewMetaCalls) \cup
                       all(LAMBDA f, vg : {ViewMetaBuilds(f)}), {}))>>

CompositeText(p, o) ==
    LET views == UNION {Members(vg) : vg \in p.views}
        fromGroups == UNION {{g[k] : k \in DOMAIN g \ {"out"}} : g \in p.groups}
    IN  Text(PerRoot(o, BothHeaders(views \cup {f \in fromGroups : ~IsGenerated(f)}),
                     {Umbrella("NativeFunctions"), Umbrella("Operators")}),
             {}, CompositeDefined(p), CompositeCalls(p), {})

SourceFiles(p, o) ==
    ForEach([k \in o.keys |-> KeySources(p, o, k)])
      \o <<Write(<<"RegisterBackendSelect">>, BackendSelectText(p, o)),
           Write(<<"RegisterSchema">>, SchemaText(p, o))>>
      \o WriteSharded(<<"Operators.cpp">>, Roots(p), 5,
                      LAMBDA roots : OperatorsText(p, o, roots))
      \o <<Write(<<"Functions.cpp">>, Declaring({})),
           Write(<<"TensorMethods.cpp">>, Declaring({})),
           Write(<<"ATenOpList">>, Listing("list", p.functions))>>
      \o WriteSharded(<<"RegisterFunctionalization">>, Roots(p), 4,
                      LAMBDA roots : FunctionalizationText(p, o, roots))
      \o ViewMetaWrites(p, o)
      \o <<Write(<<"CompositeViewCopyKernels">>, CompositeText(p, o))>>

\* The files whose text an assertion rejects.  The items of a file in shards are made
\* before its first shard, the one with everything, and a dry run has none.  The
\* declarations of a dispatch key are made outside of any text where each operator has a
\* header of its own, the last of them before the header of the key.
RejectedTexts(p, o) ==
    {Append(<<"Register", k>>, "Everything") : k \in {k \in o.keys : ~KeyOK(p, k)}}
      \cup (IF MutationsOK(p, o) THEN {} ELSE {<<"RegisterFunctionalization", "Everything">>})
      \cup (IF CompositeTextOK(p) THEN {} ELSE {<<"CompositeViewCopyKernels">>})
      \cup (IF \A f \in p.functions : MethodOK(f) THEN {} ELSE {<<"TensorBody">>})
RejectedKeys(p, o) ==
    {k \in o.keys \cap o.functions : \E u \in p.units : ~StructuredOK(u, p.kernels, k)}
Stopping(p, o) ==
    LET eager == IF o.perop THEN {KeyHeader(k) : k \in RejectedKeys(p, o)} ELSE {}
    IN  [dry \in BOOLEAN |->
           IF dry THEN eager
           ELSE eager \cup RejectedTexts(p, o) \cup {KeyInline(k) : k \in RejectedKeys(p, o)}]

\* gen_declarations_yaml
DeclarationFiles(p) == <<Write(<<"Declarations">>, Listing("yaml", p.functions))>>
=============================================================================
