------------------------------ MODULE GeneratedCode ------------------------------
(***************************************************************************)
(* The generator and what it generates: once a run is complete, the        *)
(* structured kernels it wrote may be called, one call after another.      *)
(***************************************************************************)
EXTENDS Torchgen, StructuredKernel

CONSTANT Executed      \* the inputs the kernels of which are called

ASSUME CompositeAssumption == CompositeKey = CENF

\* A wrapper of a structured operator, as the generator wrote it for a key.
StructuredWrappers(plan) ==
    LET p == plan.program
        units == {u \in p.units : IsStructured(u)}
        wrapper(f, k) == [kind |-> KindOf(f), key |-> k, outs |-> Len(f.func.rets)]
    IN  UNION {UNION {{wrapper(f, k) : f \in Wrapped(u, p.kernels, k)}
                        : k \in {key \in plan.settings.keys : GeneratesClasses(u, p.kernels, key)}}
                 : u \in units}

\* External: the files of a complete run are compiled.
Build ==
    /\ Complete /\ run.input \in Executed /\ Generates({"sources"})
    /\ run' = [run EXCEPT !.outcome = "built"]
    /\ UNCHANGED <<disk, listed, outputs, call>>

CallGenerated ==
    /\ run.outcome = "built"
    /\ \E w \in StructuredWrappers(Generations[run.input]), iterator \in BOOLEAN :
         LET given == IF w.kind = "functional" THEN {<<>>} ELSE [1..w.outs -> Tensors]
         IN  \E tensors \in given : BeginCall(w.kind, w.key, w.outs, iterator, tensors)
    /\ UNCHANGED vars

AnotherCall ==
    /\ call.stage \in {"returned", "failed"}
    /\ call' = CallNothing
    /\ UNCHANGED vars

GeneratorStep == call = CallNothing /\ Next /\ UNCHANGED call
KernelStep == CallStep /\ UNCHANGED vars

InitCode == Init /\ CallInit
NextCode ==
    \/ GeneratorStep
    \/ Build
    \/ CallGenerated
    \/ KernelStep
    \/ AnotherCall
SpecCode == InitCode /\ [][NextCode]_<<vars, call>>
=============================================================================
