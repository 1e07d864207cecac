---------------------------- MODULE OperatorSchema ----------------------------
(***************************************************************************)
(* The operator schemas of the vendored code generator (torchgen/model.py: *)
(* FunctionSchema and what it is made of), as values and predicates.       *)
(*                                                                         *)
(* A name is a sequence of words ("view_copy" is <<"view", "copy">>, a     *)
(* trailing underscore the empty word), a type the sequence of its         *)
(* constructors, innermost first ("Tensor?[]" is <<"Tensor", "?", "[]">>). *)
(* Defaults, C++ namespaces and dunder names are left out, and so is text: *)
(* a schema arrives split into its arguments.  An assertion of the code is *)
(* a conjunct of an ...OK predicate; one that fails stops the generator.   *)
(***************************************************************************)
EXTENDS Naturals, Sequences, FiniteSets, SequencesExt

Some(seq, P(_)) == \E i \in DOMAIN seq : P(seq[i])
Every(seq, P(_)) == \A i \in DOMAIN seq : P(seq[i])
Map(seq, F(_)) == [i \in DOMAIN seq |-> F(seq[i])]
LastWordIs(words, w) == Len(words) > 1 /\ Last(words) = w

-----------------------------------------------------------------------------
(* Types and alias annotations *)

Type(base) == <<base>>
Tensor == Type("Tensor")
TensorList == <<"Tensor", "[]">>
IsTensorLike(t) == t[1] = "Tensor"
IsGeneratorLike(t) == t[1] = "Generator"
IsListLike(t) == \E i \in 2..Len(t) : t[i] = "[]"

NoAnnotation == [alias |-> {}, write |-> FALSE, after |-> {}]
Mut(letter) == [alias |-> {letter}, write |-> TRUE, after |-> {}]
Aliases(letter) == [alias |-> {letter}, write |-> FALSE, after |-> {}]
Wildcard(letter) == [alias |-> {letter}, write |-> FALSE, after |-> {"*"}]

\* Annotation.parse: a written alias set is one letter, and one of the two sets is.
AnnotationOK(ann) ==
    /\ ann.write => Cardinality(ann.alias) = 1
    /\ Cardinality(ann.alias) <= 1 \/ Cardinality(ann.after) <= 1

Arg(name, type, ann) == [name |-> name, type |-> type, ann |-> ann]
Ret(type, ann) == [type |-> type, ann |-> ann]
IsWrite(a) == a.ann.write

\* Only Tensor, Tensor? and Tensor[] carry an annotation.
ArgumentOK(a) ==
    /\ AnnotationOK(a.ann)
    /\ a.ann # NoAnnotation => a.type \in {Tensor, <<"Tensor", "?">>, TensorList}

-----------------------------------------------------------------------------
(* Operator names *)

\* BaseOperatorName.parse of the words of a name.
BaseNameOK(words) ==
    LET base == IF Last(words) = "" THEN Front(words) ELSE words
    IN  /\ words # <<>> /\ base # <<>>
        /\ ~LastWordIs(words, "out")
        /\ ~(Last(words) = "" /\ LastWordIs(base, "functional"))

OpName(words, overload) ==
    LET inplace == Last(words) = ""
        base == IF inplace THEN Front(words) ELSE words
        functional == LastWordIs(base, "functional")
    IN  [base |-> IF functional THEN Front(base) ELSE base,
         inplace |-> inplace, functional |-> functional, overload |-> overload]

\* str(name.name): the words of the name without its overload.
NameWords(n) ==
    n.base \o (IF n.inplace THEN <<"">>
               ELSE IF n.functional THEN <<"functional">> ELSE <<>>)

UnambiguousName(n) == NameWords(n) \o n.overload
WithOverload(n, overload) ==
    [base |-> n.base, inplace |-> FALSE, functional |-> FALSE, overload |-> overload]

-----------------------------------------------------------------------------
(* Arguments *)

FirstOut(kwargs) ==
    LET written == {i \in DOMAIN kwargs : IsWrite(kwargs[i])}
    IN  IF written = {} THEN Len(kwargs) + 1
        ELSE CHOOSE i \in written : \A j \in written : i <= j

\* _preparse: the written keyword-only arguments are the out arguments, and
\* nothing that is not written may follow them.
PreparseOK(kwargs) ==
    \A i \in DOMAIN kwargs : i >= FirstOut(kwargs) => IsWrite(kwargs[i])

TensorOptions == <<<<"dtype", "ScalarType">>, <<"layout", "Layout">>,
                   <<"device", "Device">>, <<"pin_memory", "bool">>>>

OptionsAt(kwargs, i) ==
    /\ i + 3 <= Len(kwargs)
    /\ \A j \in 1..4 : /\ kwargs[i + j - 1].name = TensorOptions[j][1]
                       /\ kwargs[i + j - 1].type \in {<<TensorOptions[j][2]>>,
                                                      <<TensorOptions[j][2], "?">>}

\* Arguments.parse: positional arguments around self, keyword-only arguments around
\* the four tensor options, which have to be adjacent and in this order.
ParseArguments(pos, kwargs) ==
    LET selves == {i \in DOMAIN pos : pos[i].name = "self"}
        me == IF selves = {} THEN 0 ELSE CHOOSE i \in selves : \A j \in selves : i <= j
        kw == SubSeq(kwargs, 1, FirstOut(kwargs) - 1)
        at == {i \in DOMAIN kw : OptionsAt(kw, i)}
        opt == IF at = {} THEN Len(kw) + 1 ELSE CHOOSE i \in at : \A j \in at : i <= j
        has == opt <= Len(kw)
    IN  [pre |-> SubSeq(pos, 1, me - 1),
         self |-> IF me = 0 THEN <<>> ELSE <<pos[me]>>,
         post |-> SubSeq(pos, me + 1, Len(pos)),
         prekw |-> SubSeq(kw, 1, opt - 1),
         opts |-> IF has THEN SubSeq(kw, opt, opt + 3) ELSE <<>>,
         postkw |-> IF has THEN SubSeq(kw, opt + 4, Len(kw)) ELSE <<>>,
         out |-> SubSeq(kwargs, FirstOut(kwargs), Len(kwargs))]

ArgumentsOK(pos, kwargs) ==
    LET args == ParseArguments(pos, kwargs)
    IN  /\ Every(pos \o kwargs, ArgumentOK)
        /\ PreparseOK(kwargs)
        /\ ~\E i \in DOMAIN args.postkw : OptionsAt(args.postkw, i)
        /\ ~Some(args.pre, IsWrite)

FlatPositional(f) == f.pre \o f.self \o f.post
FlatKwargOnly(f) == f.prekw \o f.opts \o f.postkw
FlatNonOut(f) == FlatPositional(f) \o FlatKwargOnly(f)
FlatAll(f) == FlatNonOut(f) \o f.out
MutableArgNames(f) == Map(SelectSeq(FlatAll(f), IsWrite), LAMBDA a : a.name)
HasTensorArg(f) == Some(FlatNonOut(f), LAMBDA a : IsTensorLike(a.type))
HasGeneratorArg(f) == Some(FlatNonOut(f), LAMBDA a : IsGeneratorLike(a.type))
HasTensorOptions(f) == f.opts # <<>>
HasSymInt(f) == Some(FlatNonOut(f), LAMBDA a : a.type[1] = "SymInt")

\* with_out_args, remove_self_annotation: the same arguments with other out arguments, or
\* with a self that is not written.
WithOutArgs(f, outs) == [f EXCEPT !.out = outs]
RemoveSelfAnnotation(f) ==
    [f EXCEPT !.self = Map(f.self, LAMBDA a : [a EXCEPT !.ann = NoAnnotation])]

-----------------------------------------------------------------------------
(* FunctionSchema *)

IsOutFn(f) == f.out # <<>>
IsFunctionalFn(f) == Contains(f.name.overload, "functional")
IsScratch(a) == a.name = "_scratch_"

Kind(f) ==
    IF f.name.inplace THEN "inplace"
    ELSE IF Some(f.out, IsScratch) THEN "scratch"
    ELSE IF IsOutFn(f) THEN "out"
    ELSE IF Some(f.post, IsWrite) THEN "mutable"
    ELSE "functional"

\* __post_init__: what ties the written arguments of a schema to its returns.
SchemaOK(f) ==
    LET outAndSelf == f.out \o SelectSeq(FlatPositional(f), LAMBDA a : a.name = "self")
        returned == SelectSeq(f.rets, IsWrite)
    IN  /\ \A i \in DOMAIN f.out \cap DOMAIN f.rets : f.out[i].ann = f.rets[i].ann
        /\ ~Some(f.post, LAMBDA a : IsWrite(a) /\ Some(f.rets, LAMBDA r : r.ann = a.ann))
        /\ returned = <<>> \/ Len(returned) = Len(f.rets)
        /\ Every(returned, LAMBDA r : Some(outAndSelf, LAMBDA a : a.ann = r.ann))
        /\ IsOutFn(f) => IF Every(f.out, LAMBDA a : a.type = Tensor)
                         THEN Len(SelectSeq(f.out, LAMBDA a : ~IsScratch(a))) = Len(f.rets)
                         ELSE f.rets = <<>>
        /\ f.name.inplace => /\ f.out = <<>>
                             /\ f.self # <<>> /\ IsWrite(f.self[1])
                             /\ IF f.self[1].type = Tensor
                                THEN Map(f.rets, LAMBDA r : r.ann) = <<f.self[1].ann>>
                                ELSE f.rets = <<>>
        /\ HasTensorOptions(f) => Kind(f) = "functional"
        /\ IsFunctionalFn(f) => Kind(f) = "functional"

Schema(name, args, rets) ==
    [name |-> name, pre |-> args.pre, self |-> args.self, post |-> args.post,
     prekw |-> args.prekw, opts |-> args.opts, postkw |-> args.postkw,
     out |-> args.out, rets |-> rets]

\* aliased_return_names: for each return the argument it aliases, or "".
AliasedReturnNames(f) ==
    [i \in DOMAIN f.rets |->
        LET args == SelectSeq(FlatAll(f), LAMBDA a : a.ann # NoAnnotation
                                                    /\ a.ann = f.rets[i].ann)
        IN  IF args = <<>> THEN "" ELSE args[1].name]

\* The arguments signature() turns into returns: those written and not returned.
ReturnedByFunctional(f) ==
    SelectSeq(f.self \o f.out \o f.post,
              LAMBDA a : IsWrite(a) /\ ~Some(f.rets, LAMBDA r : r.ann = a.ann))

SignatureBase(base, stripViewCopy) ==
    IF ~stripViewCopy THEN base
    ELSE IF LastWordIs(base, "copy") THEN Front(base)
    ELSE IF LastWordIs(base, "scatter") THEN Front(base) \o <<"inverse">>
    ELSE base

\* signature: what the variants of one operator have in common.  Overload, annotations,
\* out arguments and tensor options go; what is written comes back as a return.
SignatureWith(f, stripViewCopy) ==
    LET bare(args) == Map(args, LAMBDA a : <<a.name, a.type>>)
    IN  [base |-> SignatureBase(f.name.base, stripViewCopy),
         args |-> <<bare(f.pre), bare(f.self), bare(f.post), bare(f.prekw \o f.postkw)>>,
         rets |-> Map(f.rets \o ReturnedByFunctional(f), LAMBDA r : r.type)]

Signature(f) == SignatureWith(f, FALSE)
ViewSignature(f) == SignatureWith(f, TRUE)
=============================================================================
