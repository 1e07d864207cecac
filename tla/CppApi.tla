------------------------------- MODULE CppApi -------------------------------
(***************************************************************************)
(* The C++ types and signatures an operator has in each API (torchgen/api: *)
(* cpp.py, dispatcher.py, native.py, structured.py, types/), and whether a *)
(* function of one API can call a function of another with the arguments   *)
(* it has (api/translate.py).                                              *)
(*                                                                         *)
(* A C++ type is the sequence of its constructors, outermost first; a      *)
(* binding is a pair of a name and a type.  Defaults, the text of an       *)
(* expression and use_const_ref_for_mutable_tensors are left out.          *)
(***************************************************************************)
EXTENDS NativeFunctions

Base(name) == CASE name = "int" -> "long" [] name = "float" -> "double" [] OTHER -> name
IntLike(symint) == IF symint THEN "SymInt" ELSE "long"
ConstRef(t) == <<"const&">> \o t
MutRef(t) == <<"&">> \o t
Optional(t) == <<"optional">> \o t
Vector(t) == <<"vector">> \o t
Elem(t) == Tail(t)

TensorT == <<"Tensor">>
OptionalTensor == Optional(TensorT)
ITensorList == ConstRef(<<"ITensorListRef">>)
TensorOptionalList == ConstRef(<<"List">> \o OptionalTensor)

-----------------------------------------------------------------------------
(* Argument types *)

\* What has a C++ type of its own is the longest such prefix of a type; each constructor
\* around it makes an optional or an array of what is inside.
Around(t, TypeOf(_)) ==
    LET prefix(n) == SubSeq(t, 1, n)
        own == CHOOSE n \in DOMAIN t : /\ TypeOf(prefix(n)) # <<>>
                                       /\ \A m \in DOMAIN t : m > n => TypeOf(prefix(m)) = <<>>
    IN  Map(Reverse(SubSeq(t, own + 1, Len(t))),
            LAMBDA c : IF c = "?" THEN "optional" ELSE "ArrayRef") \o TypeOf(prefix(own))

\* valuetype_type: empty for what is passed by reference.
ValueType(t, symint) ==
    CASE t = <<"bool", "[]">> -> <<"array", "bool">>
      [] Len(t) > 1 \/ t[1] \in {"Tensor", "Scalar"} -> <<>>
      [] t[1] = "SymInt" -> <<IntLike(symint)>>
      [] OTHER -> <<Base(t[1])>>

ArrayRef(symint) == IF symint THEN <<"SymIntArrayRef">> ELSE <<"IntArrayRef">>
OptionalArrayRef(symint) ==
    IF symint THEN <<"OptionalSymIntArrayRef">> ELSE <<"OptionalIntArrayRef">>

\* cpp.argumenttype_type; ilist says that a list of tensors is an ITensorListRef.
CppOwnType(t, mutable, symint, ilist) ==
    CASE t = Tensor -> IF mutable THEN MutRef(TensorT) ELSE ConstRef(TensorT)
      [] t = <<"Scalar">> -> ConstRef(<<"Scalar">>)
      [] t = <<"Tensor", "?">> ->
           IF mutable THEN MutRef(TensorT) ELSE ConstRef(OptionalTensor)
      [] t = <<"Scalar", "?">> -> ConstRef(Optional(<<"Scalar">>))
      [] t \in {<<"int", "[]", "?">>, <<"SymInt", "[]", "?">>} ->
           OptionalArrayRef(symint /\ t[1] = "SymInt")
      [] t \in {<<"int", "[]">>, <<"SymInt", "[]">>} -> ArrayRef(symint /\ t[1] = "SymInt")
      [] t = TensorList -> IF ilist THEN ITensorList ELSE <<"TensorList">>
      [] t = <<"Scalar", "[]">> -> <<"ArrayRef", "Scalar">>
      [] t = <<"Dimname", "[]">> -> <<"DimnameList">>
      [] t = <<"Tensor", "?", "[]">> -> TensorOptionalList
      [] OTHER -> ValueType(t, symint)
CppType(t, mutable, symint, ilist) ==
    Around(t, LAMBDA prefix : CppOwnType(prefix, mutable, symint, ilist))

\* native.argumenttype_type: an optional tensor that is written stays optional.
NativeType(t, mutable, symint, ilist) ==
    IF t = <<"Tensor", "?">> /\ mutable THEN MutRef(OptionalTensor)
    ELSE CppType(t, mutable, symint, ilist)

\* structured.argumenttype_type: never symbolic, and references where there are any.
StructuredOwnType(t) ==
    CASE t = Tensor -> ConstRef(TensorT)
      [] t = <<"Scalar">> -> ConstRef(<<"Scalar">>)
      [] t = <<"Tensor", "?">> -> <<"OptionalTensorRef">>
      [] t = <<"Scalar", "?">> -> <<"OptionalScalarRef">>
      [] t = <<"int", "[]", "?">> -> <<"OptionalIntArrayRef">>
      [] t = TensorList -> ITensorList
      [] t = <<"Tensor", "?", "[]">> -> <<"IOptTensorListRef">>
      [] t = <<"int", "[]">> -> <<"IntArrayRef">>
      [] t = <<"Dimname", "[]">> -> <<"DimnameList">>
      [] OTHER -> ValueType(t, FALSE)
StructuredType(t) == Around(t, StructuredOwnType)

\* dispatcher.argumenttype_type with remove_non_owning_ref_types: what an object keeps.
OwningType(t, mutable, ilist) ==
    CASE t = <<"int", "[]">> -> Vector(<<"long">>)
      [] t = <<"SymInt", "[]">> -> Vector(<<"SymInt">>)
      [] OTHER -> CppType(t, mutable, TRUE, ilist)

-----------------------------------------------------------------------------
(* Signatures *)

Bindings(args, TypeOf(_)) == Map(args, LAMBDA a : <<a.name, TypeOf(a)>>)

\* DispatcherSignature: every argument by itself, out arguments last.
DispatcherArguments(f, symint, ilist) ==
    Bindings(FlatAll(f), LAMBDA a : CppType(a.type, IsWrite(a), symint, ilist))

\* NativeSignature: the tensor options scattered, and optional whatever the schema says.
NativeOptions ==
    <<<<"dtype", Optional(<<"ScalarType">>)>>, <<"layout", Optional(<<"Layout">>)>>,
      <<"device", Optional(<<"Device">>)>>, <<"pin_memory", Optional(<<"bool">>)>>>>
NativeArguments(f, symint, ilist) ==
    LET bind(args) ==
          Bindings(args, LAMBDA a : NativeType(a.type, IsWrite(a), symint, ilist))
    IN  bind(FlatPositional(f) \o f.prekw)
          \o (IF HasTensorOptions(f) THEN NativeOptions ELSE <<>>)
          \o bind(f.postkw \o f.out)

\* CppSignature: a faithful one follows the schema, another gathers the tensor options and
\* has the out arguments first; a method has no self.
CppArguments(f, sig, method, ilist) ==
    LET redundant(a) == a.name = "memory_format" /\ HasTensorOptions(f)
        bind(args) ==
          Map(args, LAMBDA a :
                <<IF redundant(a) THEN "possibly_redundant_memory_format" ELSE a.name,
                  CppType(a.type, IsWrite(a), sig.symint, ilist)>>)
        options == IF sig.faithful THEN bind(f.opts)
                   ELSE IF HasTensorOptions(f) THEN <<<<"options", <<"TensorOptions">>>>>>
                   ELSE <<>>
        nonout == bind(f.pre) \o (IF method THEN <<>> ELSE bind(f.self)) \o bind(f.post)
                    \o bind(f.prekw) \o options \o bind(f.postkw)
    IN  IF sig.faithful THEN nonout \o bind(f.out) ELSE bind(f.out) \o nonout

\* CppSignatureGroup
CppSignatures(f) ==
    [faithful : {FALSE} \cup (IF HasTensorOptions(f) \/ IsOutFn(f) THEN {TRUE} ELSE {}),
     symint : {FALSE} \cup (IF HasSymInt(f) THEN {TRUE} ELSE {})]
MostFaithful(f) == [faithful |-> HasTensorOptions(f) \/ IsOutFn(f), symint |-> FALSE]

\* structured kernels: arguments an entry precomputes replace some of the schema's and
\* are added before the out arguments.
StructuredArguments(args) == Bindings(args, LAMBDA a : StructuredType(a.type))
MetaArguments(g) == StructuredArguments(FlatNonOut(g["functional"].func))
ImplArguments(g) ==
    LET f == g["out"].func
        replaced == g["out"].precomputed.replace
        args == Map(FlatNonOut(f), LAMBDA a :
                      IF a.name \in DOMAIN replaced \ {"self"} THEN replaced[a.name] ELSE <<a>>)
    IN  StructuredArguments(FlattenSeq(args) \o g["out"].precomputed.add \o f.out)
Precomputed(g) ==
    LET replaced == g["out"].precomputed.replace
    IN  UNION {ToSet(StructuredArguments(replaced[name])) : name \in DOMAIN replaced}
          \cup ToSet(StructuredArguments(g["out"].precomputed.add))

-----------------------------------------------------------------------------
(* translate *)

\* The context: the bindings, and what a step forward makes of them.
Forward(b) ==
    CASE b[2] = ConstRef(OptionalTensor) -> {<<b[1], <<"OptionalTensorRef">>>>}
      [] b[2] = ConstRef(Optional(<<"Scalar">>)) -> {<<b[1], <<"OptionalScalarRef">>>>}
      [] b[2] = TensorOptionalList -> {<<b[1], <<"IOptTensorListRef">>>>}
      [] OTHER -> {}
Implicit(method) ==
    IF method THEN {<<"self", MutRef(TensorT)>>, <<"self", ConstRef(TensorT)>>} ELSE {}
Context(bindings, method) ==
    bindings \cup UNION {Forward(b) : b \in bindings} \cup Implicit(method)

\* solve(direct=True): a reference takes a value, a const reference a mutable one.
Direct(ctx, name, t) ==
    LET goals == CASE t[1] = "const&" -> {t, MutRef(Elem(t)), Elem(t)}
                   [] t[1] = "&" -> {t, Elem(t)}
                   [] t = <<"ArrayRef", "long">> -> {t, <<"IntArrayRef">>}
                   [] OTHER -> {t}
    IN  \E goal \in goals : <<name, goal>> \in ctx

OptionsField(b) == \E i \in 1..4 : NativeOptions[i] = b
FromOptions(ctx) == Direct(ctx, "options", ConstRef(<<"TensorOptions">>))

\* The types a goal is made from where it is not in the context.
Sources(t) ==
    CASE t \in {<<"IntArrayRef">>, <<"ArrayRef", "long">>} ->
           {<<"IntArrayRef">>, Vector(<<"long">>), <<"SymIntArrayRef">>}
      [] t = <<"SymIntArrayRef">> -> {<<"IntArrayRef">>, Vector(<<"SymInt">>)}
      [] t = <<"SymInt">> -> {<<"long">>}
      [] t = Optional(<<"SymInt">>) -> {Optional(<<"long">>)}
      [] t = <<"long">> -> {<<"SymInt">>}
      [] t = Optional(<<"long">>) -> {Optional(<<"SymInt">>)}
      [] t = <<"OptionalIntArrayRef">> ->
           {Optional(Vector(<<"long">>)), <<"OptionalSymIntArrayRef">>}
      [] t = <<"OptionalSymIntArrayRef">> -> {<<"OptionalIntArrayRef">>}
      [] t = <<"OptionalScalarRef">> -> {Optional(<<"Scalar">>)}
      [] t = <<"OptionalTensorRef">> -> {OptionalTensor}
      [] t = MutRef(TensorT) -> {ConstRef(TensorT)}
      [] OTHER -> {}

\* allow_expensive_conversions: the values an object keeps, from references.
Expensive(t) ==
    CASE t = Vector(<<"long">>) -> {<<"IntArrayRef">>}
      [] t = Vector(<<"SymInt">>) -> {<<"SymIntArrayRef">>}
      [] t = Optional(Vector(<<"long">>)) -> {<<"OptionalIntArrayRef">>}
      [] t = Optional(<<"Scalar">>) -> {<<"OptionalScalarRef">>}
      [] OTHER -> {}

Solves(ctx, b, expensive) ==
    LET from(types) == \E t \in types : Direct(ctx, b[1], t)
    IN  CASE Direct(ctx, b[1], b[2]) -> TRUE
          [] b = <<"memory_format", Optional(<<"MemoryFormat">>)>> ->
               Direct(ctx, "possibly_redundant_memory_format", b[2])
          [] b = <<"options", <<"TensorOptions">>>> ->
               \A i \in 1..4 : Direct(ctx, NativeOptions[i][1], NativeOptions[i][2])
          [] OptionsField(b) ->
               FromOptions(ctx) \/ Direct(ctx, "out", ConstRef(TensorT))
          [] OTHER -> from(Sources(b[2]) \cup (IF expensive THEN Expensive(b[2]) ELSE {}))

TranslatesWith(bindings, goals, method, expensive) ==
    LET ctx == Context(bindings, method)
    IN  Every(goals, LAMBDA b : Solves(ctx, b, expensive))

=============================================================================
