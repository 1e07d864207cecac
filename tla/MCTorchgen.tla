------------------------------- MODULE MCTorchgen -------------------------------
(***************************************************************************)
(* Yaml files and options for the generator, tensors for its kernels.      *)
(***************************************************************************)
EXTENDS GeneratedCode

MCTags == {"core", "view_copy", "inplace_view", "nondeterministic_seeded",
           "pt2_compliant_tag", "generated"}
MCUngrouped == {}
Words == {<<"empty">>, <<"view">>, <<"view", "copy">>, <<"foo">>, <<"foo", "copy">>,
          <<"foo", "ops">>, <<"empty", "strided">>, <<"as", "strided">>,
          <<"as", "strided", "copy">>, <<"", "copy", "from">>,
          <<"", "copy", "from", "and", "resize">>}
MCHash == [r \in Words |-> CASE r = <<"empty">> -> 7 [] r = <<"view">> -> 4
                             [] r = <<"view", "copy">> -> 3 [] r = <<"foo">> -> 6
                             [] OTHER -> 1]

NoDispatch == [k \in {} |-> <<>>]
Entry(words, overload, pos, kwargs, rets) ==
    [words |-> words, overload |-> overload, pos |-> pos, kwargs |-> kwargs, rets |-> rets,
     variants |-> {"function"}, table |-> FALSE, dispatch |-> NoDispatch,
     structured |-> FALSE, delegate |-> <<>>, autogen |-> {}, manual |-> FALSE,
     manualcpp |-> FALSE, guard |-> TRUE, ufunc |-> {}, precomputed |-> NoPrecompute,
     tags |-> {}]
For(keys, kernel) == [k \in keys |-> kernel]
With(e, dispatch) == [e EXCEPT !.table = TRUE, !.dispatch = dispatch]
Plain(name, type) == Arg(name, type, NoAnnotation)
Out(type) == Ret(type, NoAnnotation)
Opt(t) == t \o <<"?">>
List(t) == t \o <<"[]">>
SymInts == <<"SymInt", "[]">>

\* empty, view and view_copy, which every yaml file has.
Options4 == <<Plain("dtype", Opt(<<"ScalarType">>)), Plain("layout", Opt(<<"Layout">>)),
              Plain("device", Opt(<<"Device">>)), Plain("pin_memory", Opt(<<"bool">>))>>
Empty ==
    With(Entry(<<"empty">>, <<"memory", "format">>, <<Plain("size", SymInts)>>,
               Options4 \o <<Plain("memory_format", Opt(<<"MemoryFormat">>))>>,
               <<Out(Tensor)>>),
         [k \in {"CPU", "CUDA", "Meta"} |->
             IF k = "Meta" THEN <<"empty", "meta", "symint">> ELSE <<"empty", k>>])
View ==
    [With(Entry(<<"view">>, <<>>, <<Arg("self", Tensor, Aliases("a")), Plain("size", SymInts)>>,
                <<>>, <<Ret(Tensor, Aliases("a"))>>),
          For({"CPU", "Meta"}, <<"view", "symint">>))
       EXCEPT !.variants = {"function", "method"}]
ViewCopy ==
    [With(Entry(<<"view", "copy">>, <<>>, <<Plain("self", Tensor), Plain("size", SymInts)>>,
                <<>>, <<Out(Tensor)>>),
          For({CENF}, <<"view", "copy", "symint">>))
       EXCEPT !.tags = {"view_copy"}, !.autogen = {OpName(<<"view", "copy">>, <<"out">>)}]

\* The operators the generated kernels allocate, stride and copy with.
EmptyStrided ==
    With(Entry(<<"empty", "strided">>, <<>>, <<Plain("size", SymInts), Plain("stride", SymInts)>>,
               Options4, <<Out(Tensor)>>),
         For({"CPU", "CUDA"}, <<"empty", "strided", "kernel">>))
AsStrided ==
    [With(Entry(<<"as", "strided">>, <<>>,
                <<Arg("self", Tensor, Aliases("a")), Plain("size", SymInts),
                  Plain("stride", SymInts)>>, <<>>, <<Ret(Tensor, Aliases("a"))>>),
          For({"CPU", "CUDA"}, <<"as", "strided", "tensorimpl">>)) EXCEPT !.guard = FALSE]
AsStridedCopy ==
    [With(Entry(<<"as", "strided", "copy">>, <<>>,
                <<Plain("self", Tensor), Plain("size", SymInts), Plain("stride", SymInts)>>,
                <<>>, <<Out(Tensor)>>),
          For({CENF}, <<"as", "strided", "copy", "symint">>)) EXCEPT !.tags = {"view_copy"}]
CopyFrom(words) ==
    With(Entry(words, <<>>, <<Plain("self", Tensor), Plain("dst", Tensor)>>, <<>>,
               <<Out(Tensor)>>), For({"MPS"}, words \o <<"mps">>))
Helpers == {EmptyStrided, AsStrided, AsStridedCopy, CopyFrom(<<"", "copy", "from">>),
            CopyFrom(<<"", "copy", "from", "and", "resize">>)}
Common == {Empty, View, ViewCopy} \cup Helpers

-----------------------------------------------------------------------------
\* foo, foo_ and foo.out with one more argument of each type.
Types == <<Tensor, Opt(Tensor), <<"Scalar">>, Opt(<<"Scalar">>), <<"int">>, <<"SymInt">>,
           SymInts, List(<<"int">>), Opt(List(<<"int">>)), TensorList, List(Opt(Tensor)),
           Opt(<<"SymInt">>)>>
Self == Plain("self", Tensor)
SelfW == Arg("self", Tensor, Mut("a"))
OutArg == Arg("out", Tensor, Mut("a"))
Foo(t) == [Entry(<<"foo">>, <<>>, <<Self, Plain("x", t)>>, <<>>, <<Out(Tensor)>>)
             EXCEPT !.variants = {"function", "method"}]
FooI(t) == Entry(<<"foo", "">>, <<>>, <<SelfW, Plain("x", t)>>, <<>>,
                 <<Ret(Tensor, Mut("a"))>>)
FooO(t) == Entry(<<"foo">>, <<"out">>, <<Self, Plain("x", t)>>, <<OutArg>>,
                 <<Ret(Tensor, Mut("a"))>>)
FooOut == OpName(<<"foo">>, <<"out">>)

Structured(t, keys, pre) ==
    {[Foo(t) EXCEPT !.delegate = <<FooOut>>], [FooI(t) EXCEPT !.delegate = <<FooOut>>],
     [With(FooO(t), For(keys, <<"foo", "kernel">>))
        EXCEPT !.structured = TRUE, !.precomputed = pre]}
Kernelled(t, key, symint) ==
    {With(Foo(t), For({key}, <<"foo", "kernel">> \o symint)),
     With(FooI(t), For({key}, <<"foo", "inplace">> \o symint)),
     With(FooO(t), For({key}, <<"foo", "out", "kernel">> \o symint))}
Autogen(t, symint) ==
    {[With(FooI(t), For({"CPU", "Meta"}, <<"foo", "inplace">> \o symint))
        EXCEPT !.autogen = {OpName(<<"foo">>, <<>>), FooOut}]}
FromFunctional(t, symint) ==
    {[With(Foo(t), For({"CPU"}, <<"foo", "kernel">> \o symint)) EXCEPT !.autogen = {FooOut}]}
Composite(t) == {Foo(t), FooI(t), FooO(t)}

Variants(t) ==
    <<Structured(t, {"CPU", "CUDA"}, NoPrecompute), Kernelled(t, "CPU", <<>>),
      Kernelled(t, CEA, <<"symint">>), Autogen(t, <<>>), Autogen(t, <<"symint">>),
      FromFunctional(t, <<"symint">>), Composite(t)>>

\* foo and foo.out with two outputs, for the devices that have a guard.
TwoOutputs ==
    {[Entry(<<"foo">>, <<>>, <<Self>>, <<>>, <<Out(Tensor), Out(Tensor)>>)
        EXCEPT !.delegate = <<FooOut>>],
     [With(Entry(<<"foo">>, <<"out">>, <<Self>>,
                 <<OutArg, Arg("other", Tensor, Mut("b"))>>,
                 <<Ret(Tensor, Mut("a")), Ret(Tensor, Mut("b"))>>),
           For({"CUDA"}, <<"foo", "kernel">>)) EXCEPT !.structured = TRUE]}

\* Several written arguments, several returns, lists, names.
Mutable(rets) ==
    {[With(Entry(<<"foo">>, <<>>, <<Self, Arg("running", Tensor, Mut("a")),
                                     Arg("saved", Tensor, Mut("b"))>>, <<>>, rets),
           For({"CPU"}, <<"foo", "kernel">>))
        EXCEPT !.autogen = {OpName(<<"foo", "functional">>, <<>>), FooOut}]}
Lists ==
    {[With(Entry(<<"foo", "">>, <<>>, <<Arg("self", TensorList, Mut("a")),
                                        Arg("running", TensorList, Mut("b"))>>, <<>>, <<>>),
           For({"CPU"}, <<"foo", "kernel">>))
        EXCEPT !.autogen = {OpName(<<"foo">>, <<>>), FooOut}]}
Two ==
    {[With(Entry(<<"foo">>, <<>>, <<Self>>, <<>>, <<Out(Tensor), Out(Tensor)>>),
           For({CEA}, <<"foo", "kernel">>)) EXCEPT !.autogen = {FooOut}]}

\* Views
ViewOf(type) ==
    Entry(<<"foo">>, <<>>, <<Arg("self", Tensor, Wildcard("a")), Plain("x", <<"int">>)>>, <<>>,
          <<Ret(type, Aliases("a"))>>)
InplaceView ==
    [Entry(<<"foo", "">>, <<>>, <<SelfW, Plain("x", <<"int">>)>>, <<>>, <<Ret(Tensor, Mut("a"))>>)
       EXCEPT !.tags = {"inplace_view"}]
CopyOf(type) ==
    [With(Entry(<<"foo", "copy">>, <<>>, <<Self, Plain("x", <<"int">>)>>, <<>>, <<Out(type)>>),
          For({CENF}, <<"foo", "copy">>))
       EXCEPT !.tags = {"view_copy"}, !.autogen = {OpName(<<"foo", "copy">>, <<"out">>)}]
Views ==
    <<{With(ViewOf(Tensor), For({"CPU"}, <<"foo", "kernel">>)),
       With(InplaceView, For({"CPU"}, <<"foo", "inplace">>)), CopyOf(Tensor)},
      {With(ViewOf(TensorList), For({CEA}, <<"foo", "kernel">>)), CopyOf(TensorList)},
      {ViewOf(Tensor)}>>

Ufunc == {[Foo(Tensor) EXCEPT !.delegate = <<FooOut>>], [FooI(Tensor) EXCEPT !.delegate = <<FooOut>>],
          [FooO(Tensor) EXCEPT !.structured = TRUE, !.ufunc = {"Generic"}]}
PrecomputeX == Precompute([name \in {"x"} |-> <<Plain("dim", <<"int">>)>>], <<Plain("n", <<"int">>)>>)
Others ==
    <<Mutable(<<>>), Mutable(<<Out(Tensor)>>), Lists, Two, Ufunc,
      Structured(<<"int">>, {"CPU"}, PrecomputeX),
      {With(Entry(<<"foo">>, <<>>, <<Self>>, Options4, <<Out(Tensor)>>),
            For({CEA}, <<"foo", "kernel">>))},
      {[Foo(Tensor) EXCEPT !.manual = TRUE]},
      {Foo(Tensor), Entry(<<"foo", "ops">>, <<>>, <<Self>>, <<>>, <<Out(Tensor)>>)}>>

\* Every choice of one element of each of two sequences.
Pairs(s, t, F(_, _)) ==
    [n \in 1..Len(s) * Len(t) |-> F(s[1 + (n - 1) \div Len(t)], t[1 + ((n - 1) % Len(t))])]
Foos == Pairs(Types, <<1, 2, 3, 4, 5, 6, 7>>, LAMBDA t, v : Variants(t)[v]) \o Views \o Others

-----------------------------------------------------------------------------
DefaultOptions ==
    [mps |-> FALSE, xpu |-> FALSE, mtia |-> FALSE, backends |-> {"CPU", "Meta"},
     static |-> {}, perop |-> TRUE, skip |-> FALSE, force |-> FALSE, models |-> <<>>,
     generate |-> Everything]
Static == [DefaultOptions EXCEPT !.static = {"CPU"}]
Aggregated == [Static EXCEPT !.perop = FALSE, !.backends = {"CPU", "CUDA", "Meta"}]
Cuda == [DefaultOptions EXCEPT !.backends = {"CUDA"}]
Xpu == [DefaultOptions EXCEPT !.backends = {"XPU", "Meta"}, !.xpu = TRUE]
ModelA == FromAllowList({<<<<"foo">>, <<>>>>}, TRUE, FALSE)
ModelB == Selection(FALSE, [n \in {<<<<"foo", "">>, <<>>>>} |-> Operator(TRUE, TRUE, FALSE)],
                    NoEntries, NoEntries, {}, {}, FALSE)
Selective == [DefaultOptions EXCEPT !.models = <<ModelA, ModelB>>]

Small == [DefaultOptions EXCEPT !.backends = {"none"}, !.perop = FALSE]
\* An operator without a variant that leaves its argument alone, and one with a kernel that
\* is registered by hand in a structured group.
Mutating1 == With(FooI(Tensor), For({CEA}, <<"foo", "inplace">>))
ByHand == {IF e.words = <<"foo", "">> THEN [e EXCEPT !.manual = TRUE] ELSE e
             : e \in Structured(Tensor, {"CPU"}, NoPrecompute)}
RepeatedInputs ==
    LET yaml == {Empty, ViewCopy, View}
        yaml2 == yaml \cup {With(Foo(Tensor), For({CEA}, <<"foo", "kernel">>))}
        headers == [Small EXCEPT !.perop = TRUE, !.generate = {"headers"}]
    IN  <<[yaml |-> yaml, options |-> Small], [yaml |-> yaml2, options |-> Small],
          [yaml |-> yaml2, options |-> headers],
          [yaml |-> yaml \cup {Mutating1}, options |-> Small],
          [yaml |-> yaml \cup ByHand, options |-> headers]>>
Generating(foos, options) == [yaml |-> Common \cup foos, options |-> options]
MCInputs ==
    RepeatedInputs \o Pairs(Foos, <<DefaultOptions>>, Generating)
      \o Pairs(Variants(Tensor) \o Views \o Others, <<Static, Aggregated>>, Generating)
      \o Pairs(Variants(Tensor), <<Selective>>, Generating)
      \o <<Generating(TwoOutputs, Cuda), Generating(Structured(Tensor, {"XPU"}, NoPrecompute), Xpu)>>
MCRepeated == DOMAIN RepeatedInputs
MCExecuted == {Len(RepeatedInputs) + 1, Len(MCInputs) - 1, Len(MCInputs)}
MCPlans == Generations
=============================================================================
