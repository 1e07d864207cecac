------------------------------ MODULE RunOnce ------------------------------
(***************************************************************************)
(* One caller thread that keeps calling run_once_profiled                  *)
(* (src/src/nsx_executorch.cpp), the adapter between an application and    *)
(* ExecuTorch.  A call walks the stages of the function in the order of    *)
(* the code: check the arguments, load the program, inspect its first      *)
(* method, check the planned arena, load the method, copy the inputs into  *)
(* the arena, execute the instructions, copy the outputs out.  Every early *)
(* return is a way out of its stage, and `outputs' is the caller's memory: *)
(* its `size' fields are read as capacities and overwritten as results, on *)
(* failure too, so what one call leaves there is what the next one reads.  *)
(*                                                                         *)
(* ExecuTorch itself is not part of the repository.  A .pte is a record of *)
(* what loading and inspecting it yields, and Method::execute is modelled  *)
(* from how the adapter uses it: the instructions of each chain in order,  *)
(* each call bracketed by profiling scopes that are closed on failure too. *)
(***************************************************************************)
EXTENDS Integers, Sequences

CONSTANTS
  Calls,          \* the argument lists the caller may pass
  Names,          \* operator names and backend ids a program may contain
  NBuffers,       \* how many output Buffer objects the caller owns
  Capacities,     \* the sizes those buffers may be allocated with at first
  TracerEnabled,  \* is ET_EVENT_TRACER_ENABLED defined in this build
  SizeMod,        \* 2^w for a size_t of w bits
  CycleMod,       \* 2^w for the w-bit cycle counter (DWT->CYCCNT)
  Ticks,          \* how many cycles one instruction may take
  Handles,        \* what begin_operator may return
  KernelErrors,   \* the errors a kernel may end with; {} for kernels that never fail
  CanAbort        \* may ExecuTorch reach et_pal_abort (a failed ET_CHECK)

Slot == [tensor : BOOLEAN, mapped : BOOLEAN, nbytes : Nat]
Instr == [kind : {"kernel", "delegate", "control"}, index : Nat]

\* What a .pte holds: does Program::load accept it, does its first method have
\* a name and metadata, how many memory-planned buffers and of how many bytes
\* (negative: the query fails), how far into them its tensors really reach, how
\* much method arena it needs, are its kernels registered in this firmware, its
\* I/O, and its execution plan.
Program == [loads : BOOLEAN, inspects : BOOLEAN, buffers : Nat, planned : Int,
            reach : Nat, arena : Nat, linked : BOOLEAN, ins : Seq(Slot), outs : Seq(Slot),
            operators : Seq(Names), delegates : Seq(Names),
            chains : Seq(Seq(Instr))]

Pointers == {"program", "method", "planned", "temporary", "inputs", "outputs"}

Call == [prog : Program, nulls : SUBSET Pointers, programSize : Nat,
         methodSize : Nat, plannedSize : Nat,
         ins : Seq([null : BOOLEAN, size : Nat]), nout : 0..NBuffers,
         callbacks : SUBSET {"begin", "end"}]

ASSUME CallsAssumption == Calls \subseteq Call
ASSUME SizesAssumption == /\ NBuffers \in Nat
                          /\ Capacities \subseteq Nat
                          /\ SizeMod \in Nat \ {0}
                          /\ CycleMod \in Nat \ {0}
                          /\ Ticks \subseteq Nat
                          /\ Handles \subseteq Nat
                          /\ "Ok" \notin KernelErrors
                          /\ TracerEnabled \in BOOLEAN
                          /\ CanAbort \in BOOLEAN
\* A program whose kernels are all found names them through its own tables.
ASSUME PlanAssumption ==
  \A c \in Calls : c.prog.linked =>
    \A ch \in 1..Len(c.prog.chains) : \A i \in 1..Len(c.prog.chains[ch]) :
      LET at == c.prog.chains[ch][i]
      IN  /\ at.kind = "kernel" => at.index \in 1..Len(c.prog.operators)
          /\ at.kind = "delegate" => at.index \in 1..Len(c.prog.delegates)

VARIABLES
  pc,        \* the stage the call is in; "idle" between calls
  args,      \* the arguments of the current or last call
  outputs,   \* the caller's output Buffers: null, cap (bytes really behind
             \* data), size (the field), val (what the bytes are)
  told,      \* history: which Buffers hold a size that a call wrote there
             \* because it needs it, and that the caller has not answered
  offered,   \* history: the sizes the current call was entered with
  staged,    \* which inputs of this call were copied into the planned arena
  computed,  \* has the method run to its end on this call's inputs
  idx,       \* index of the input and output loops
  chain, instr,   \* the instruction Method::execute is at
  kerror,    \* the error the current instruction ended with
  scopes,    \* the open profiling scopes, innermost last (event_id of each)
  trace,     \* history: the callbacks made during this call
  cycles,    \* DWT->CYCCNT
  start,     \* execute_start
  elapsed,   \* history: the cycles execute really took
  result     \* the RunResult returned last

vars == <<pc, args, outputs, told, offered, staged, computed, idx, chain, instr,
          kerror, scopes, trace, cycles, start, elapsed, result>>

prog == args.prog

NoResult == [stage |-> "none", error |-> "Ok", ins |-> 0, outs |-> 0,
             planned |-> 0, cycles |-> 0]

\* fail(): the result record, and the return to the caller.
Return(stage, error, ins, outs, planned, cyc) ==
  /\ result' = [stage |-> stage, error |-> error, ins |-> ins, outs |-> outs,
                planned |-> planned, cycles |-> cyc]
  /\ pc' = "idle"

Profiled(c) == "begin" \in c.callbacks

PlannedBytes(p) == p.planned % SizeMod
----------------------------------------------------------------------------
(* The caller. *)

Init ==
  /\ pc = "idle"
  /\ args \in Calls
  /\ outputs \in [1..NBuffers -> {[null |-> c = 0, cap |-> c, size |-> c,
                                   val |-> "old"] : c \in Capacities}]
  /\ told = [i \in 1..NBuffers |-> FALSE]
  /\ offered = [i \in 1..NBuffers |-> 0]
  /\ staged = [i \in 1..Len(args.ins) |-> FALSE]
  /\ computed = FALSE
  /\ idx = 1 /\ chain = 1 /\ instr = 1
  /\ kerror = "Ok" /\ scopes = <<>> /\ trace = <<>>
  /\ cycles = 0 /\ start = 0 /\ elapsed = 0
  /\ result = NoResult

\* The Buffer b with other bytes and another size field.
Holding(b, val, size) == [null |-> b.null, cap |-> b.cap, size |-> size, val |-> val]

\* A call.  The Buffers are offered as they are: one that was told a size and
\* not grown claims more bytes than it has.
Enter(c) ==
  /\ pc = "idle"
  /\ args' = c
  /\ outputs' = [i \in 1..NBuffers |->
                   Holding(outputs[i], "old", outputs[i].size)]
  /\ offered' = [i \in 1..NBuffers |-> outputs[i].size]
  /\ staged' = [i \in 1..Len(c.ins) |-> FALSE]
  /\ computed' = FALSE
  /\ idx' = 1 /\ chain' = 1 /\ instr' = 1
  /\ kerror' = "Ok" /\ scopes' = <<>> /\ trace' = <<>>
  /\ start' = 0 /\ elapsed' = 0
  /\ result' = NoResult
  /\ pc' = "check"
  /\ UNCHANGED <<told, cycles>>

\* The caller obeys a size it was told it needs.
Grow(i) ==
  /\ pc = "idle"
  /\ outputs[i].size > outputs[i].cap \/ outputs[i].null
  /\ outputs' = [outputs EXCEPT ![i] =
                   [null |-> FALSE, cap |-> outputs[i].size,
                    size |-> outputs[i].size, val |-> outputs[i].val]]
  /\ told' = [told EXCEPT ![i] = FALSE]
  /\ UNCHANGED <<pc, args, offered, staged, computed, idx, chain, instr,
                 kerror, scopes, trace, cycles, start, elapsed, result>>

\* The caller puts the capacity back into a Buffer a call wrote a size to.
Restore(i) ==
  /\ pc = "idle"
  /\ outputs[i].size # outputs[i].cap
  /\ outputs' = [outputs EXCEPT ![i] =
                   Holding(outputs[i], outputs[i].val, outputs[i].cap)]
  /\ told' = [told EXCEPT ![i] = FALSE]
  /\ UNCHANGED <<pc, args, offered, staged, computed, idx, chain, instr,
                 kerror, scopes, trace, cycles, start, elapsed, result>>
----------------------------------------------------------------------------
(* Before execution. *)

BadPointers(c) ==
  \/ c.nulls \cap {"program", "method", "planned", "temporary"} # {}
  \/ c.programSize = 0
  \/ c.methodSize = 0
  \/ Len(c.ins) # 0 /\ "inputs" \in c.nulls
  \/ c.nout # 0 /\ "outputs" \in c.nulls

HalfCallbacks(c) == ("begin" \in c.callbacks) # ("end" \in c.callbacks)

\* The test that is compiled in when ET_EVENT_TRACER_ENABLED is not defined.
NeverUnavailable(c) == FALSE                                     \* mutant
Unavailable(c) == ~TracerEnabled /\ Profiled(c)

CheckArguments ==
  /\ pc = "check"
  /\ \/ /\ BadPointers(args) \/ HalfCallbacks(args)
        /\ Return("kInvalidArgument", "Ok", 0, 0, 0, 0)
        /\ UNCHANGED cycles
     \/ /\ ~BadPointers(args) /\ ~HalfCallbacks(args)
        /\ Unavailable(args)
        /\ Return("kProfilingUnavailable", "NotSupported", 0, 0, 0, 0)
        /\ UNCHANGED cycles
     \/ /\ ~BadPointers(args) /\ ~HalfCallbacks(args)
        /\ ~Unavailable(args)
        /\ cycles' = 0                   \* runtime_init() runs et_pal_init()
        /\ pc' = "load"
        /\ UNCHANGED result
  /\ UNCHANGED <<args, outputs, told, offered, staged, computed, idx, chain, instr,
                 kerror, scopes, trace, start, elapsed>>

LoadProgram ==
  /\ pc = "load"
  /\ \/ /\ ~prog.loads
        /\ Return("kLoadProgram", "Runtime", 0, 0, 0, 0)
     \/ /\ prog.loads /\ ~prog.inspects
        /\ Return("kInspectMethod", "Runtime", 0, 0, 0, 0)
     \/ /\ prog.loads /\ prog.inspects
        /\ pc' = "plan"
        /\ UNCHANGED result
  /\ UNCHANGED <<args, outputs, told, offered, staged, computed, idx, chain, instr,
                 kerror, scopes, trace, cycles, start, elapsed>>

PlanMemory ==
  /\ pc = "plan"
  /\ \/ /\ prog.buffers # 1
        /\ Return("kMemoryPlan", "NotSupported", 0, 0, 0, 0)
     \/ /\ prog.buffers = 1 /\ prog.planned < 0
        /\ Return("kMemoryPlan", "Runtime", 0, 0, 0, 0)
     \/ /\ prog.buffers = 1 /\ prog.planned >= 0
        /\ args.plannedSize < PlannedBytes(prog)
        /\ Return("kMemoryPlan", "MemoryAllocationFailed", 0, 0,
                  PlannedBytes(prog), 0)
     \/ /\ prog.buffers = 1 /\ prog.planned >= 0
        /\ args.plannedSize >= PlannedBytes(prog)
        /\ pc' = "method"
        /\ UNCHANGED result
  /\ UNCHANGED <<args, outputs, told, offered, staged, computed, idx, chain, instr,
                 kerror, scopes, trace, cycles, start, elapsed>>

\* Program::load_method: the method's structures go into the method arena,
\* every tensor into the planned span, and every kernel must be registered.
MethodLoads(c) ==
  /\ c.prog.linked
  /\ c.prog.arena <= c.methodSize
  /\ c.prog.reach <= c.plannedSize

CountsMatch(c) == Len(c.prog.ins) = Len(c.ins) /\ Len(c.prog.outs) = c.nout

LoadMethod ==
  /\ pc = "method"
  /\ \/ /\ ~MethodLoads(args)
        /\ Return("kLoadMethod", "Runtime", 0, 0, PlannedBytes(prog), 0)
     \/ /\ MethodLoads(args) /\ ~CountsMatch(args)
        /\ Return("kInvalidArgument", "InvalidArgument", Len(prog.ins),
                  Len(prog.outs), PlannedBytes(prog), 0)
     \/ /\ MethodLoads(args) /\ CountsMatch(args)
        /\ pc' = "input"
        /\ UNCHANGED result
  /\ UNCHANGED <<args, outputs, told, offered, staged, computed, idx, chain, instr,
                 kerror, scopes, trace, cycles, start, elapsed>>

InputFits(c, i) == /\ ~c.ins[i].null
                   /\ c.ins[i].size >= c.prog.ins[i].nbytes
                   /\ c.prog.ins[i].mapped

StopsOneEarly == idx < Len(args.ins)                             \* mutant
InputsLeft == idx <= Len(args.ins)

CopyInput ==
  /\ pc = "input" /\ InputsLeft
  /\ \/ /\ ~prog.ins[idx].tensor
        /\ Return("kInput", "InvalidType", Len(args.ins), args.nout,
                  PlannedBytes(prog), 0)
        /\ UNCHANGED <<staged, idx>>
     \/ /\ prog.ins[idx].tensor /\ ~InputFits(args, idx)
        /\ Return("kInput", "InvalidArgument", Len(args.ins), args.nout,
                  PlannedBytes(prog), 0)
        /\ UNCHANGED <<staged, idx>>
     \/ /\ prog.ins[idx].tensor /\ InputFits(args, idx)
        /\ staged' = [staged EXCEPT ![idx] = TRUE]
        /\ idx' = idx + 1
        /\ UNCHANGED <<pc, result>>
  /\ UNCHANGED <<args, outputs, told, offered, computed, chain, instr, kerror,
                 scopes, trace, cycles, start, elapsed>>
----------------------------------------------------------------------------
(* Execution: Method::execute, with the adapter's event tracer attached. *)

\* resolve_identity(): the name of what an instruction runs, through the
\* operator or the delegate table of the execution plan.
OperatorTableOnly(p, kind, c, i) ==                              \* mutant
  IF p.chains[c][i].index \in 1..Len(p.operators)
  THEN p.operators[p.chains[c][i].index] ELSE "nullptr"
Identity(p, kind, c, i) ==
  IF c \notin 1..Len(p.chains) \/ i \notin 1..Len(p.chains[c]) THEN "nullptr"
  ELSE LET table == IF kind = "kernel" THEN p.operators ELSE p.delegates
           at == p.chains[c][i]
       IN  IF at.kind = kind /\ at.index \in 1..Len(table)
           THEN table[at.index] ELSE "nullptr"

\* start_profiling(): only operator and delegate calls reach the callback;
\* any other scope gets the event_id -1.  Without ET_EVENT_TRACER_ENABLED the
\* hooks that call it are compiled out of ExecuTorch.
StartProfiling(kind) ==
  IF TracerEnabled /\ Profiled(args) /\ kind \in {"kernel", "delegate"}
  THEN \E h \in Handles :
         /\ trace' = Append(trace, [ev |-> "begin", kind |-> kind,
              chain |-> chain, instr |-> instr, handle |-> h,
              name |-> Identity(prog, kind, chain, instr)])
         /\ scopes' = Append(scopes, h)
  ELSE /\ scopes' = Append(scopes, -1)
       /\ UNCHANGED trace

\* end_profiling(): the callback gets the handle back as a uint32_t.
EndsEveryScope(entry) ==                                         \* mutant
  trace' = IF TracerEnabled /\ Profiled(args)
           THEN Append(trace, [ev |-> "end", handle |-> entry]) ELSE trace
EndProfiling(entry) ==
  trace' = IF Profiled(args) /\ entry >= 0
           THEN Append(trace, [ev |-> "end", handle |-> entry])
           ELSE trace

StartExecute ==
  /\ pc = "input" /\ ~InputsLeft
  /\ \E t \in 0..(CycleMod - 1) : cycles' = t /\ start' = t
  /\ pc' = "execute"
  /\ UNCHANGED <<args, outputs, told, offered, staged, computed, idx, chain, instr,
                 kerror, scopes, trace, elapsed, result>>

Spend(t) == cycles' = (cycles + t) % CycleMod /\ elapsed' = elapsed + t

NoWrap == IF cycles >= start THEN cycles - start ELSE 0          \* mutant
ExecutionCycles == (cycles - start) % CycleMod

SameChain ==                                                     \* mutant
  /\ pc = "execute" /\ chain <= Len(prog.chains)
  /\ instr > Len(prog.chains[chain])
  /\ instr' = 1
  /\ UNCHANGED <<pc, args, outputs, told, offered, staged, computed, idx, chain,
                 kerror, scopes, trace, cycles, start, elapsed, result>>
NextChain ==
  /\ pc = "execute" /\ chain <= Len(prog.chains)
  /\ instr > Len(prog.chains[chain])
  /\ chain' = chain + 1 /\ instr' = 1
  /\ UNCHANGED <<pc, args, outputs, told, offered, staged, computed, idx, kerror,
                 scopes, trace, cycles, start, elapsed, result>>

\* Method::execute opens the scope of the instruction it is at: a call's under
\* a name the tracer reports, a move's, jump's or free's under one it does not.
OpenInstruction ==
  /\ pc = "execute" /\ chain <= Len(prog.chains)
  /\ instr <= Len(prog.chains[chain])
  /\ StartProfiling(prog.chains[chain][instr].kind)
  /\ pc' = IF prog.chains[chain][instr].kind = "kernel"
           THEN "wrapper" ELSE "body"
  /\ UNCHANGED <<args, outputs, told, offered, staged, computed, idx, chain, instr,
                 kerror, cycles, start, elapsed, result>>

\* The registered wrapper of a kernel opens its own "native_call_..." scope
\* inside the instruction's.
OpenWrapper ==
  /\ pc = "wrapper"
  /\ StartProfiling("native_call")
  /\ pc' = "body"
  /\ UNCHANGED <<args, outputs, told, offered, staged, computed, idx, chain, instr,
                 kerror, cycles, start, elapsed, result>>

RunBody ==
  /\ pc = "body"
  /\ \E t \in Ticks : Spend(t)
  /\ kerror' \in {"Ok"} \cup KernelErrors
  /\ pc' = "unwind"
  /\ UNCHANGED <<args, outputs, told, offered, staged, computed, idx, chain, instr,
                 scopes, trace, start, result>>

\* The scopes are C++ objects: they close, innermost first, however the
\* instruction ended.
CloseScope ==
  /\ pc = "unwind" /\ scopes # <<>>
  /\ EndProfiling(scopes[Len(scopes)])
  /\ scopes' = SubSeq(scopes, 1, Len(scopes) - 1)
  /\ UNCHANGED <<pc, args, outputs, told, offered, staged, computed, idx, chain,
                 instr, kerror, cycles, start, elapsed, result>>

\* execute stops at the first instruction that fails.
EndInstruction ==
  /\ pc = "unwind" /\ scopes = <<>>
  /\ \/ /\ kerror = "Ok"
        /\ instr' = instr + 1
        /\ pc' = "execute"
        /\ UNCHANGED result
     \/ /\ kerror # "Ok"
        /\ Return("kExecute", kerror, Len(args.ins), args.nout,
                  PlannedBytes(prog), ExecutionCycles)
        /\ UNCHANGED instr
  /\ UNCHANGED <<args, outputs, told, offered, staged, computed, idx, chain, kerror,
                 scopes, trace, cycles, start, elapsed>>

ExecuteOk ==
  /\ pc = "execute" /\ chain > Len(prog.chains)
  /\ computed' = (\A i \in DOMAIN staged : staged[i])
  /\ idx' = 1
  /\ pc' = "output"
  /\ UNCHANGED <<args, outputs, told, offered, staged, chain, instr, kerror, scopes,
                 trace, cycles, start, elapsed, result>>

\* A failed ET_CHECK anywhere in a kernel: et_pal_abort() never returns.
Abort ==
  /\ CanAbort /\ pc = "body"
  /\ pc' = "abort"
  /\ UNCHANGED <<args, outputs, told, offered, staged, computed, idx, chain, instr,
                 kerror, scopes, trace, cycles, start, elapsed, result>>

\* Neither comes back from an abort, and nothing is claimed of a program whose
\* memory was written past a Buffer.
Spin == pc \in {"abort", "overrun"} /\ UNCHANGED vars
----------------------------------------------------------------------------
(* After execution. *)

\* The test of the output loop: the Buffer has somewhere to copy to, and it
\* claims to be large enough.
FitsAnyBuffer(b, slot) == ~b.null                                \* mutant
OutputFits(b, slot) == ~b.null /\ b.size >= slot.nbytes

\* The size a Buffer that is too small is given back with.
KeepsSize(b, slot) == b.size                                     \* mutant
SizeTold(b, slot) == slot.nbytes

CopyOutput ==
  /\ pc = "output" /\ idx <= args.nout
  /\ \/ /\ ~prog.outs[idx].tensor
        /\ Return("kOutput", "InvalidType", Len(args.ins), args.nout,
                  PlannedBytes(prog), 0)
        /\ UNCHANGED <<outputs, told, idx>>
     \/ /\ prog.outs[idx].tensor
        /\ ~OutputFits(outputs[idx], prog.outs[idx])
        /\ outputs' = [outputs EXCEPT ![idx] =
             Holding(outputs[idx], outputs[idx].val,
                     SizeTold(outputs[idx], prog.outs[idx]))]
        /\ told' = [told EXCEPT ![idx] = TRUE]
        /\ Return("kOutput", "InvalidArgument", Len(args.ins), args.nout,
                  PlannedBytes(prog), 0)
        /\ UNCHANGED idx
     \/ /\ prog.outs[idx].tensor
        /\ OutputFits(outputs[idx], prog.outs[idx])
        /\ prog.outs[idx].nbytes <= outputs[idx].cap
        /\ outputs' = [outputs EXCEPT ![idx] =
             Holding(outputs[idx], IF computed THEN "new" ELSE "garbage",
                     prog.outs[idx].nbytes)]
        /\ told' = [told EXCEPT ![idx] = FALSE]
        /\ idx' = idx + 1
        /\ UNCHANGED <<pc, result>>
  /\ UNCHANGED <<args, offered, staged, computed, chain, instr, kerror,
                 scopes, trace, cycles, start, elapsed>>

\* The same memcpy, when the Buffer has less room than it claims.
Overrun ==
  /\ pc = "output" /\ idx <= args.nout
  /\ prog.outs[idx].tensor
  /\ OutputFits(outputs[idx], prog.outs[idx])
  /\ prog.outs[idx].nbytes > outputs[idx].cap
  /\ pc' = "overrun"
  /\ UNCHANGED <<args, outputs, told, offered, staged, computed, idx, chain,
                 instr, kerror, scopes, trace, cycles, start, elapsed, result>>

Finish ==
  /\ pc = "output" /\ idx > args.nout
  /\ Return("kOk", "Ok", Len(args.ins), args.nout, PlannedBytes(prog),
            ExecutionCycles)
  /\ UNCHANGED <<args, outputs, told, offered, staged, computed, idx, chain, instr,
                 kerror, scopes, trace, cycles, start, elapsed>>
----------------------------------------------------------------------------
CallerStep == \/ \E c \in Calls : Enter(c)
              \/ \E i \in 1..NBuffers : Grow(i) \/ Restore(i)

\* One step of the call in progress.
RunStep ==
  \/ CheckArguments \/ LoadProgram \/ PlanMemory \/ LoadMethod \/ CopyInput
  \/ StartExecute \/ NextChain \/ OpenInstruction \/ OpenWrapper \/ RunBody
  \/ CloseScope \/ EndInstruction \/ ExecuteOk \/ CopyOutput \/ Overrun \/ Finish

Next == CallerStep \/ RunStep \/ Abort \/ Spin

Spec == Init /\ [][Next]_vars

\* Nothing in the adapter blocks and kernels terminate, so a call that can take
\* a step takes it.
FairSpec == Spec /\ WF_vars(RunStep)

\* A caller that keeps calling, and that sooner or later obeys a size it was
\* told.
InsistentSpec == /\ FairSpec
                 /\ WF_vars(\E c \in Calls : Enter(c))
                 /\ \A i \in 1..NBuffers : SF_vars(Grow(i))
----------------------------------------------------------------------------
(* Properties. *)

Stages == {"none", "kOk", "kInvalidArgument", "kLoadProgram", "kInspectMethod",
           "kMemoryPlan", "kLoadMethod", "kInput", "kExecute", "kOutput",
           "kProfilingUnavailable"}
Errors == {"Ok", "NotSupported", "InvalidArgument", "InvalidType",
           "MemoryAllocationFailed", "Runtime"} \cup KernelErrors

Buffer == [null : BOOLEAN, cap : Nat, size : Nat,
           val : {"old", "new", "garbage"}]
BeginEvent == [ev : {"begin"}, kind : {"kernel", "delegate"}, chain : Nat,
               instr : Nat, handle : Handles,
               name : Names \cup {"nullptr"}]
EndEvent == [ev : {"end"}, handle : Nat]

\* Every variable holds a value of the type the code gives it.
TypeOK ==
  /\ pc \in {"idle", "check", "load", "plan", "method", "input", "execute",
             "wrapper", "body", "unwind", "output", "abort", "overrun"}
  /\ args \in Calls
  /\ outputs \in [1..NBuffers -> Buffer]
  /\ told \in [1..NBuffers -> BOOLEAN]
  /\ offered \in [1..NBuffers -> Nat]
  /\ staged \in [1..Len(args.ins) -> BOOLEAN]
  /\ computed \in BOOLEAN
  /\ idx \in Nat \ {0} /\ chain \in Nat \ {0} /\ instr \in Nat \ {0}
  /\ kerror \in {"Ok"} \cup KernelErrors
  /\ scopes \in Seq(Handles \cup {-1})
  /\ trace \in Seq(BeginEvent \cup EndEvent)
  /\ cycles \in 0..(CycleMod - 1) /\ start \in 0..(CycleMod - 1)
  /\ elapsed \in Nat
  /\ result \in [stage : Stages, error : Errors, ins : Nat, outs : Nat,
                 planned : Nat, cycles : 0..(CycleMod - 1)]

Delivered(i) == /\ outputs[i].val = "new"
                /\ outputs[i].size = prog.outs[i].nbytes
                /\ outputs[i].size <= offered[i]
Untouched(i) == outputs[i].val = "old" /\ outputs[i].size = offered[i]
\* What the output loop leaves of the Buffer it stops at.
Refused(i) == \/ Untouched(i) /\ ~prog.outs[i].tensor
              \/ /\ outputs[i].val = "old"
                 /\ outputs[i].size = prog.outs[i].nbytes
                 /\ outputs[i].null \/ offered[i] < prog.outs[i].nbytes

\* What a caller may conclude about its Buffers from the stage it was returned.
ReturnContract ==
  /\ result.stage = "kOk" =>
       \A i \in 1..NBuffers : IF i <= args.nout THEN Delivered(i) ELSE Untouched(i)
  /\ result.stage = "kOutput" =>
       \E k \in 1..args.nout :
         /\ Refused(k)
         /\ \A i \in 1..NBuffers : /\ i < k => Delivered(i)
                                   /\ i > k => Untouched(i)
  /\ result.stage \notin {"kOk", "kOutput"} =>
       \A i \in 1..NBuffers : Untouched(i)

\* A call that returns kOk has replaced every output with what this call
\* computed from this call's inputs; one that returns kOutput has replaced
\* exactly the outputs before the one it stopped at and told that one's size;
\* any other failure has not touched an output Buffer, field or bytes
\* (the early returns and the two loops of run_once_profiled).
ReturnKeepsContract ==
  [][pc # "idle" /\ pc' = "idle" => ReturnContract']_vars

\* The copy at line 404 goes past a Buffer only when the caller offers it with a
\* size an earlier call wrote there (line 400), larger than what is behind it,
\* and has neither grown nor restored it since: a first offer, an answered one
\* and a Buffer another call has filled are never overrun, and no call copies
\* into a Buffer whose size it has raised itself.
OverrunsWereTold ==
  pc = "overrun" =>
    /\ told[idx]
    /\ outputs[idx].cap < offered[idx]
    /\ outputs[idx].val = "old" /\ ~outputs[idx].null

\* At every moment of a call, and however it ends, the callbacks made so far
\* are begin, end, begin, end, ...; each end carries the handle its begin
\* returned, and none is left open on return (start_profiling and
\* end_profiling, with the scopes ExecuTorch nests inside a kernel call).
BracketsMatch ==
  /\ \A k \in 1..Len(trace) :
       IF k % 2 = 1 THEN trace[k].ev = "begin"
       ELSE trace[k].ev = "end" /\ trace[k].handle = trace[k - 1].handle
  /\ pc = "idle" => Len(trace) % 2 = 0

Before(c, i) == c < chain \/ (c = chain /\ i < instr)
At(c, i) == c = chain /\ i = instr

\* The calls among the instructions execute has gone through; the one it
\* failed at is one of them.
CallsReached ==
  UNION {{<<c, i>> : i \in {j \in 1..Len(prog.chains[c]) :
            /\ prog.chains[c][j].kind # "control"
            /\ Before(c, j) \/ (result.stage = "kExecute" /\ At(c, j))}}
           : c \in 1..Len(prog.chains)}

\* When a profiled call returns, every kernel and delegate call that ran has
\* been bracketed exactly once, under its own chain and instruction index and
\* the name the execution plan gives it; a call that did not execute made no
\* callback, and one without callbacks never does (resolve_identity).
EveryCallBracketedOnce ==
  pc = "idle" =>
    LET begins == {k \in 1..Len(trace) : trace[k].ev = "begin"}
    IN  IF Profiled(args) /\ result.stage \in {"kOk", "kOutput", "kExecute"}
        THEN /\ {<<trace[k].chain, trace[k].instr>> : k \in begins} = CallsReached
             /\ \A k, l \in begins :
                  <<trace[k].chain, trace[k].instr>> =
                    <<trace[l].chain, trace[l].instr>> => k = l
             /\ \A k \in begins :
                  LET at == prog.chains[trace[k].chain][trace[k].instr]
                  IN  /\ trace[k].kind = at.kind
                      /\ trace[k].name = IF at.kind = "kernel"
                                          THEN prog.operators[at.index]
                                          ELSE prog.delegates[at.index]
        ELSE trace = <<>>

\* The cycles reported are the cycles execute took, wherever the counter stood
\* and whether or not it wrapped, as long as it did not wrap twice (line 386).
CyclesExact ==
  result.stage \in {"kOk", "kExecute"} /\ elapsed < CycleMod =>
    result.cycles = elapsed

\* Every call returns, unless ExecuTorch aborts inside it or the caller offered
\* a Buffer that is smaller than it claims.
CallsReturn == (pc # "idle") ~> (pc \in {"idle", "abort", "overrun"})

\* Growing the one Buffer a kOutput result names and calling again gets a
\* well-formed program's outputs delivered in the end, however many Buffers
\* were too small or null (each call names only the first of them): a caller
\* whose calls from some moment on neither fail otherwise nor abort, and which
\* does not overrun a Buffer it should have grown, is given its outputs again and
\* again.
GrowAndRetryConverges ==
  <>[](result.stage \in {"none", "kOk", "kOutput"} /\ pc \notin {"abort", "overrun"})
    => []<>(result.stage = "kOk")
----------------------------------------------------------------------------
(* The promise to the caller, as a specification of its own. *)

Phase == CASE pc = "idle" -> "idle"
           [] pc = "output" -> "delivering"
           [] pc \in {"abort", "overrun"} -> "dead"
           [] OTHER -> "running"

DoneOutputs == IF \/ pc \in {"output", "overrun"}
                  \/ pc = "idle" /\ result.stage \in {"kOk", "kOutput"}
               THEN idx - 1 ELSE 0

Contract == INSTANCE RunContract WITH
  phase <- Phase, wanted <- args.nout, done <- DoneOutputs, buf <- outputs,
  stage <- result.stage

\* Every behaviour of the adapter and its caller is one the contract allows.
ImplementsContract == Contract!Contract
=============================================================================
