-------------------------------- MODULE Torchgen --------------------------------
(***************************************************************************)
(* What a run of the code generator does (torchgen/gen.py main): its        *)
(* options, the checks of the parse and of each part, what it writes, and   *)
(* what must hold of the files of a complete run.  FileManager runs it.     *)
(***************************************************************************)
EXTENDS GeneratedFiles, FileManager

CONSTANT Inputs         \* a sequence: a yaml file and the options of a run

\* A file has finitely many entries, an entry finitely many returns, the hash of a name is a
\* number, and the models of a build are a sequence of selections.
ASSUME InputsAssumption ==
    \A i \in DOMAIN Inputs :
        LET models == Inputs[i].options.models
        IN  /\ IsFiniteSet(Inputs[i].yaml)
            /\ \A e \in Inputs[i].yaml :
                 Len(e.rets) \in Nat /\ Hash[EntrySchema(e).name.base] \in Nat
            /\ models \in Seq(ToSet(models))
            /\ \A m \in ToSet(models) : IsSelection(m)

-----------------------------------------------------------------------------
(* Options *)

MpsKeys == {"MPS", "SparseMPS", "SparseCsrMPS"}
IgnoredKeys(o) ==
    (IF o.mps THEN {} ELSE MpsKeys) \cup (IF o.xpu THEN {} ELSE {"XPU"})
      \cup (IF o.mtia THEN {} ELSE {"MTIA"})

\* The keys files are generated for, and those whose functions get a namespace.
GenerateKeys(o) ==
    LET known == DispatchKeys \ IgnoredKeys(o)
    IN  IF o.backends = {} THEN known ELSE known \cap (GenericKeys \cup o.backends)
FunctionKeys(o) ==
    {"CPU", "CUDA", "Meta", "MTIA"} \cup GenericKeys \cup o.static
      \cup (IF o.mps THEN MpsKeys ELSE {}) \cup (IF o.xpu THEN {"XPU"} ELSE {})

\* get_custom_build_selector: all operators, or what the models of a build need.
SelectionOf(models) ==
    IF models = <<>> THEN NopSelector ELSE MergeAll(models)

Settings(o) ==
    [keys |-> GenerateKeys(o), functions |-> FunctionKeys(o), static |-> o.static,
     perop |-> o.perop, skip |-> o.skip, force |-> o.force, sel |-> SelectionOf(o.models)]

\* What is generated: sources, headers and declarations, in this order.
WritesOf(p, s, generate) ==
    (IF "sources" \in generate THEN SourceFiles(p, s) ELSE <<>>)
      \o (IF "headers" \in generate THEN HeaderFiles(p, s) ELSE <<>>)
      \o (IF "declarations_yaml" \in generate THEN DeclarationFiles(p) ELSE <<>>)

\* What a run on an input computes and is going to write, and where it stops.
TextsOf(writes) ==
    [f \in {writes[n].file : n \in DOMAIN writes} |->
        writes[CHOOSE n \in DOMAIN writes : writes[n].file = f].text]
PlanOf(p, s, writes) ==
    [accepted |-> TRUE, program |-> p, settings |-> s, writes |-> writes,
     texts |-> TextsOf(writes), stops |-> Stopping(p, s),
     listed |-> {w.file : w \in {w \in ToSet(writes) : w.listed}}]
Plan(p, s, generate) ==
    IF ProgramOK(p) THEN PlanOf(p, s, WritesOf(p, s, generate))
    ELSE [accepted |-> FALSE]
PlanParsed(parsed, s, generate) ==
    IF parsed.ok THEN Plan(Program(parsed.functions, parsed.kernels), s, generate)
    ELSE [accepted |-> FALSE]
Generation(input) ==
    PlanParsed(Parse(input.yaml, IgnoredKeys(input.options)), Settings(input.options),
               input.options.generate)
Generations == [i \in DOMAIN Inputs |-> Generation(Inputs[i])]

ASSUME PlansAreGenerations == Plans = Generations

-----------------------------------------------------------------------------
(* Properties of a complete run *)

Complete == run.outcome = "done" /\ ~run.dry
Everything == {"sources", "headers", "declarations_yaml"}
Generates(what) == what \subseteq Inputs[run.input].options.generate

\* The root names with a wrapper for a key, or a kernel, all of them registered by hand.
OnlyByHand(p, k) ==
    LET with(r) == {f \in FunctionsOf(p, {r}) : \/ HasKernel(p.kernels, k, f.func.name)
                                                \/ InplaceMeta(f, p.kernels, k)}
    IN  {r \in Roots(p) : with(r) # {} /\ \A f \in with(r) : f.manual}

\* Headers that are named and never written: of the meta functions of a root name without
\* structured operators, and of a key under which only functions registered by hand are.
NeverWritten(p) ==
    {MetaHeader(r) : r \in {r \in Roots(p) : ~HasMeta(p, r)}}
      \cup UNION {{DispatchHeader(r, k) : r \in OnlyByHand(p, k)} : k \in IndexedKeys(p.kernels)}

\* The headers a file reaches, through at most four others.
Reached(texts, f) ==
    LET included(S) == UNION {texts[h].includes : h \in S}
        step[n \in 0..5] == IF n = 0 THEN {f}
                            ELSE step[n - 1] \cup (included(step[n - 1]) \cap DOMAIN texts)
    IN  step[5]

Finds(texts, f, c) ==
    /\ \E h \in Reached(texts, f) : c.symbol \in texts[h].declares \/ c.symbol \in texts[f].defines
    /\ Typed(c)

GeneratedKernels(p) ==
    {<<"native", m.kernel>> :
       m \in {m \in p.kernels : \E f \in p.functions : IsGenerated(f) /\ f.func.name = m.op}}

Resolved(plan, texts, defined) ==
    /\ \A f \in plan.listed :
         /\ texts[f].includes \subseteq plan.listed \cup NeverWritten(plan.program)
         /\ \A c \in texts[f].calls : Finds(texts, f, c)
    /\ GeneratedKernels(plan.program) \subseteq defined
    /\ \A g \in plan.program.functions : OpDeclared(g) \subseteq defined
ResolvedIn(plan, texts) == Resolved(plan, texts, UNION {texts[f].defines : f \in plan.listed})
ResolvedBy(plans) == ResolvedIn(plans[run.input], [f \in DOMAIN disk |-> plans[disk[f]].texts[f]])

\* PROPERTY.  After a complete run each header a file includes is among the listed files,
\* and every call finds its symbol: declared in a header the file reaches or defined in
\* the file itself, taking arguments that can be made from those at hand; every operator
\* has one definition, and so has every kernel the generator invented for itself.
\* (gen_headers and gen_source_files decide what is declared and included, dest/, api/ and
\* gen_functionalization_type.py what is called)
EveryCallResolves == Complete /\ Generates(Everything) => ResolvedBy(Generations)

Wanted(f, models) ==
    models = <<>> \/ Some(models, LAMBDA m :
        IsOperatorSelected(m, <<NameWords(f.func.name), f.func.name.overload>>))
RegisteredAsWanted(p, keys, registrations) ==
    \A k \in keys, f \in p.functions :
        LET registered == <<k, f.func.name>> \in registrations
            wanted == Wanted(f, Inputs[run.input].options.models)
        IN  /\ registered => wanted /\ <<"schema", f.func.name>> \in registrations
            /\ wanted /\ HasKernel(p.kernels, k, f.func.name) /\ ~f.manual => registered
RegisteredBy(plan) ==
    RegisteredAsWanted(plan.program, plan.settings.keys,
                       UNION {plan.texts[f].registers : f \in plan.listed})

\* PROPERTY.  After a complete run an operator some model of the build selects, and no
\* other, is registered for every key it has a kernel for, and whatever is registered
\* has a schema.  (SelectiveBuilder.merge, RegisterDispatchKey, RegisterSchema)
SelectedOperatorsRegistered ==
    Complete /\ Generates({"sources"}) /\ ~Inputs[run.input].options.skip =>
        RegisteredBy(Generations[run.input])

\* PROPERTY.  What a generated functional or out variant returns and writes is what the
\* operator written by hand computes.  (native_function_generation.py)
GeneratedKernelsAgree == Complete => KernelsAgree(Generations[run.input].program.groups)

\* PROPERTY.  After a complete run the kernel of a mutating operator in
\* RegisterFunctionalization.cpp leaves in every argument the operator writes the value it
\* would have had, and returns what the operator returns.  (gen_functionalization_type.py)
FunctionalizationFaithful ==
    Complete /\ Generates({"sources"}) => Faithful(Generations[run.input].program)
=============================================================================
