--------------------------- MODULE RunOnceProofs ---------------------------
(***************************************************************************)
(* Proofs about RunOnce, for all programs, argument lists, numbers and     *)
(* capacities of Buffers and integer widths: what a call does with the     *)
(* caller's Buffers, the contract it implements, and what a profiled call  *)
(* reports, wherever a kernel fails or aborts.                             *)
(***************************************************************************)
EXTENDS RunOnce, SequenceTheorems, TLAPS

USE SizesAssumption

(* An index within a sequence's length reads an element of its set: the span *)
(* accesses of nsx_executorch.cpp, each behind a bound.                        *)
LEMMA ElementTyped ==
  ASSUME NEW S, NEW s \in Seq(S), NEW i \in 1..Len(s)
  PROVE  s[i] \in S
  OBVIOUS

\* What the type of an argument list says of its parts.
LEMMA CallTyped ==
  ASSUME NEW c \in Calls
  PROVE  /\ c.prog \in Program
         /\ c.ins \in Seq([null : BOOLEAN, size : Nat])
         /\ c.nout \in 0..NBuffers /\ c.nout \in Nat
         /\ c.plannedSize \in Nat /\ c.methodSize \in Nat
         /\ Len(c.ins) \in Nat
         /\ Len(c.prog.ins) \in Nat /\ Len(c.prog.outs) \in Nat
         /\ \A i \in 1..Len(c.prog.outs) : c.prog.outs[i] \in Slot
         /\ c.prog.planned \in Int
         /\ PlannedBytes(c.prog) \in Nat
<1>1. c \in Call
  BY CallsAssumption
<1>2. /\ c.prog \in Program
      /\ c.ins \in Seq([null : BOOLEAN, size : Nat])
      /\ c.nout \in 0..NBuffers /\ c.nout \in Nat
      /\ c.plannedSize \in Nat /\ c.methodSize \in Nat
  BY <1>1 DEF Call
<1>3. /\ c.prog.ins \in Seq(Slot) /\ c.prog.outs \in Seq(Slot)
      /\ c.prog.planned \in Int
  BY <1>2 DEF Program
<1>4. PlannedBytes(c.prog) \in Nat
  BY <1>3 DEF PlannedBytes
<1> QED BY <1>2, <1>3, <1>4

\* ... and of its execution plan.
LEMMA PlanTyped ==
  ASSUME NEW c \in Calls
  PROVE  /\ c.prog.chains \in Seq(Seq(Instr))
         /\ c.prog.operators \in Seq(Names)
         /\ c.prog.delegates \in Seq(Names)
<1>1. c.prog \in Program
  BY CallTyped
<1> QED BY <1>1 DEF Program

LEMMA IdentityTyped ==
  ASSUME NEW c \in Calls, NEW kind, NEW ch \in Nat, NEW i \in Nat
  PROVE  Identity(c.prog, kind, ch, i) \in Names \cup {"nullptr"}
<1> DEFINE table == IF kind = "kernel" THEN c.prog.operators ELSE c.prog.delegates
           at == c.prog.chains[ch][i]
<1>1. table \in Seq(Names)
  BY PlanTyped
<1>2. at.index \in 1..Len(table) => table[at.index] \in Names
  <2> HIDE DEF table, at
  <2> QED BY <1>1
<1>4. CASE ch \notin 1..Len(c.prog.chains) \/ i \notin 1..Len(c.prog.chains[ch])
  BY <1>4 DEF Identity
<1>5. CASE ~(ch \notin 1..Len(c.prog.chains) \/ i \notin 1..Len(c.prog.chains[ch]))
  <2>1. Identity(c.prog, kind, ch, i) =
          IF at.kind = kind /\ at.index \in 1..Len(table) THEN table[at.index] ELSE "nullptr"
    BY <1>5 DEF Identity
  <2> HIDE DEF table, at
  <2> QED BY <1>2, <2>1
<1> QED BY <1>4, <1>5

\* The counter and every difference of two readings stay within its width.
LEMMA CycleTyped ==
  /\ \A a \in Int : a % CycleMod \in 0..(CycleMod - 1)
  /\ 0 \in 0..(CycleMod - 1)
OBVIOUS

LEMMA ExecutionCyclesTyped ==
  ASSUME cycles \in Int, start \in Int
  PROVE  ExecutionCycles \in 0..(CycleMod - 1)
<1>1. cycles - start \in Int
  OBVIOUS
<1> QED BY <1>1, CycleTyped DEF ExecutionCycles

LEMMA TypeInit == Init => TypeOK
<1> SUFFICES ASSUME Init PROVE TypeOK
  OBVIOUS
<1>1. outputs \in [1..NBuffers -> Buffer]
  <2>1. ASSUME NEW c \in Capacities
        PROVE  [null |-> c = 0, cap |-> c, size |-> c, val |-> "old"] \in Buffer
    BY DEF Buffer
  <2>2. {[null |-> c = 0, cap |-> c, size |-> c, val |-> "old"] : c \in Capacities}
          \subseteq Buffer
    BY <2>1
  <2> QED BY <2>2 DEF Init
<1>2. args \in Calls /\ Len(args.ins) \in Nat
  BY CallTyped DEF Init
<1>3. /\ offered \in [1..NBuffers -> Nat]
      /\ staged \in [1..Len(args.ins) -> BOOLEAN]
  BY <1>2 DEF Init
<1>4. result \in [stage : Stages, error : Errors, ins : Nat, outs : Nat,
                  planned : Nat, cycles : 0..(CycleMod - 1)]
  BY CycleTyped DEF Init, NoResult, Stages, Errors
<1>5. /\ scopes \in Seq(Handles \cup {-1})
      /\ trace \in Seq(BeginEvent \cup EndEvent)
  BY DEF Init
<1>6. args \in Calls /\ computed \in BOOLEAN
  BY DEF Init
<1>7. /\ pc = "idle" /\ kerror \in {"Ok"} \cup KernelErrors
      /\ idx \in Nat \ {0} /\ chain \in Nat \ {0} /\ instr \in Nat \ {0}
      /\ cycles \in 0..(CycleMod - 1) /\ start \in 0..(CycleMod - 1)
      /\ elapsed \in Nat
  BY CycleTyped DEF Init
<1>8. told \in [1..NBuffers -> BOOLEAN]
  BY DEF Init
<1> QED BY <1>1, <1>3, <1>4, <1>5, <1>6, <1>7, <1>8 DEF TypeOK

\* fail() builds a well-typed result from well-typed parts.
LEMMA ReturnTyped ==
  ASSUME NEW s \in Stages, NEW e \in Errors, NEW i \in Nat, NEW o \in Nat,
         NEW p \in Nat, NEW c \in 0..(CycleMod - 1),
         Return(s, e, i, o, p, c)
  PROVE  /\ result' \in [stage : Stages, error : Errors, ins : Nat, outs : Nat,
                         planned : Nat, cycles : 0..(CycleMod - 1)]
         /\ pc' = "idle"
BY DEF Return

\* Opening a scope keeps the stack and the callback history well typed.
LEMMA ProfilingTyped ==
  ASSUME TypeOK, NEW kind, StartProfiling(kind)
  PROVE  /\ scopes' \in Seq(Handles \cup {-1})
         /\ trace' \in Seq(BeginEvent \cup EndEvent)
<1> USE DEF TypeOK
<1>1. CASE UNCHANGED trace /\ scopes' = Append(scopes, -1)
  BY <1>1
<1>2. CASE ~(UNCHANGED trace /\ scopes' = Append(scopes, -1))
  <2> DEFINE event(h) == [ev |-> "begin", kind |-> kind, chain |-> chain,
                          instr |-> instr, handle |-> h,
                          name |-> Identity(prog, kind, chain, instr)]
  <2>1. PICK h \in Handles : /\ kind \in {"kernel", "delegate"}
                             /\ trace' = Append(trace, event(h))
                             /\ scopes' = Append(scopes, h)
    BY <1>2 DEF StartProfiling
  <2>2. Identity(prog, kind, chain, instr) \in Names \cup {"nullptr"}
    BY IdentityTyped DEF prog
  <2>3. event(h) \in BeginEvent
    BY <2>1, <2>2 DEF BeginEvent
  <2> HIDE DEF event
  <2> QED BY <2>1, <2>3
<1> QED BY <1>1, <1>2

\* The stages of a call whose method is loaded and whose inputs are staged.
Executing == pc \in {"execute", "wrapper", "body", "unwind", "output", "overrun"}

\* Past load_method, the call and the method agree on their counts.
Matched ==
  pc = "input" \/ Executing => MethodLoads(args) /\ CountsMatch(args)

LEMMA MatchedStep == Matched /\ [Next]_vars => Matched'
<1> SUFFICES ASSUME Matched, [Next]_vars PROVE Matched'
  OBVIOUS
<1> USE DEF Matched, Executing
<1>1. CASE CallerStep
  BY <1>1 DEF CallerStep, Enter, Grow, Restore
<1>2. CASE RunStep
  <2>1. CASE CheckArguments \/ LoadProgram \/ PlanMemory
    BY <2>1 DEF CheckArguments, LoadProgram, PlanMemory, Return
  <2>2. CASE LoadMethod
    BY <2>2 DEF LoadMethod, Return, MethodLoads, CountsMatch
  <2>3. CASE CopyInput \/ StartExecute
    BY <2>3 DEF CopyInput, StartExecute, Return, MethodLoads, CountsMatch
  <2>4. CASE NextChain \/ OpenInstruction \/ OpenWrapper \/ RunBody
    BY <2>4 DEF NextChain, OpenInstruction, OpenWrapper, RunBody, MethodLoads,
                CountsMatch
  <2>5. CASE CloseScope \/ EndInstruction \/ ExecuteOk
    BY <2>5 DEF CloseScope, EndInstruction, ExecuteOk, Return, MethodLoads,
                CountsMatch
  <2>6. CASE CopyOutput \/ Overrun \/ Finish
    BY <2>6 DEF CopyOutput, Overrun, Finish, Return, MethodLoads, CountsMatch
  <2> QED BY <1>2, <2>1, <2>2, <2>3, <2>4, <2>5, <2>6 DEF RunStep
<1>3. CASE Abort \/ Spin \/ UNCHANGED vars
  BY <1>3 DEF Abort, Spin, vars, MethodLoads, CountsMatch
<1> QED BY <1>1, <1>2, <1>3 DEF Next

LEMMA TypeStep == TypeOK /\ Matched /\ [Next]_vars => TypeOK'
<1> SUFFICES ASSUME TypeOK, Matched, [Next]_vars PROVE TypeOK'
  OBVIOUS
<1> USE DEF TypeOK
<1>a. /\ args \in Calls /\ Len(args.ins) \in Nat /\ args.nout \in Nat
      /\ args.nout \in 0..NBuffers
      /\ Len(prog.ins) \in Nat /\ Len(prog.outs) \in Nat
      /\ \A i \in 1..Len(prog.outs) : prog.outs[i] \in Slot
      /\ PlannedBytes(prog) \in Nat
  BY CallTyped DEF prog
<1>b. ExecutionCycles \in 0..(CycleMod - 1) /\ 0 \in 0..(CycleMod - 1)
  BY CycleTyped, ExecutionCyclesTyped
<1>1. ASSUME NEW c \in Calls, Enter(c) PROVE TypeOK'
  <2>1. outputs' \in [1..NBuffers -> Buffer]
    BY <1>1 DEF Enter, Buffer, Holding
  <2>2. offered' \in [1..NBuffers -> Nat]
    BY <1>1 DEF Enter, Buffer, Holding
  <2>3. args' \in Calls /\ staged' \in [1..Len(args'.ins) -> BOOLEAN]
    BY <1>1 DEF Enter
  <2>4. result' \in [stage : Stages, error : Errors, ins : Nat, outs : Nat,
                     planned : Nat, cycles : 0..(CycleMod - 1)]
    BY <1>1, <1>b DEF Enter, NoResult, Stages, Errors
  <2>5. /\ scopes' \in Seq(Handles \cup {-1})
        /\ trace' \in Seq(BeginEvent \cup EndEvent)
    BY <1>1 DEF Enter
  <2>6. /\ pc' = "check" /\ computed' \in BOOLEAN /\ kerror' = "Ok"
        /\ told' = told
        /\ idx' = 1 /\ chain' = 1 /\ instr' = 1
        /\ start' = 0 /\ elapsed' = 0 /\ cycles' = cycles
    BY <1>1 DEF Enter
  <2>7. /\ pc' = "check" /\ computed' \in BOOLEAN
        /\ idx' \in Nat \ {0} /\ chain' \in Nat \ {0} /\ instr' \in Nat \ {0}
        /\ kerror' \in {"Ok"} \cup KernelErrors /\ elapsed' \in Nat
        /\ cycles' \in 0..(CycleMod - 1) /\ start' \in 0..(CycleMod - 1)
    BY <1>b, <2>6
  <2>8. told' \in [1..NBuffers -> BOOLEAN]
    BY <2>6
  <2> QED BY <2>1, <2>2, <2>3, <2>4, <2>5, <2>7, <2>8
<1>2. ASSUME NEW i \in 1..NBuffers, Grow(i) \/ Restore(i) PROVE TypeOK'
  <2>1. outputs' \in [1..NBuffers -> Buffer]
    <3>1. /\ outputs[i] \in Buffer /\ outputs[i].size \in Nat
          /\ outputs[i].cap \in Nat
          /\ outputs[i].val \in {"old", "new", "garbage"}
          /\ outputs[i].null \in BOOLEAN
      BY DEF Buffer
    <3>2. PICK b \in Buffer : outputs' = [outputs EXCEPT ![i] = b]
      <4>1. CASE Grow(i)
        BY <3>1, <4>1 DEF Grow, Buffer
      <4>2. CASE Restore(i)
        BY <3>1, <4>2 DEF Restore, Buffer, Holding
      <4> QED BY <1>2, <4>1, <4>2
    <3> QED BY <3>2
  <2>2. told' \in [1..NBuffers -> BOOLEAN]
    BY <1>2 DEF Grow, Restore
  <2> QED BY <1>2, <2>1, <2>2 DEF Grow, Restore
<1>3. CASE CheckArguments
  BY <1>3, <1>b DEF CheckArguments, Return, Stages, Errors
<1>4. CASE LoadProgram
  BY <1>4, <1>b DEF LoadProgram, Return, Stages, Errors
<1>5. CASE PlanMemory
  <2>1. /\ {"kMemoryPlan"} \subseteq Stages
        /\ {"NotSupported", "Runtime", "MemoryAllocationFailed"} \subseteq Errors
    BY DEF Stages, Errors
  <2>2. \/ UNCHANGED result /\ pc' = "method"
        \/ \E e \in Errors, p \in Nat : Return("kMemoryPlan", e, 0, 0, p, 0)
    BY <1>5, <1>a, <2>1 DEF PlanMemory
  <2>3. /\ result' \in [stage : Stages, error : Errors, ins : Nat, outs : Nat,
                        planned : Nat, cycles : 0..(CycleMod - 1)]
        /\ pc' \in {"method", "idle"}
    BY <1>b, <2>1, <2>2, ReturnTyped
  <2> QED BY <1>5, <2>3 DEF PlanMemory
<1>6. CASE LoadMethod
  <2>1. /\ {"kLoadMethod", "kInvalidArgument"} \subseteq Stages
        /\ {"Runtime", "InvalidArgument"} \subseteq Errors
    BY DEF Stages, Errors
  <2>2. \/ UNCHANGED result /\ pc' = "input"
        \/ \E s \in Stages, e \in Errors, i \in Nat, o \in Nat :
             Return(s, e, i, o, PlannedBytes(prog), 0)
    BY <1>6, <1>a, <2>1 DEF LoadMethod
  <2>3. /\ result' \in [stage : Stages, error : Errors, ins : Nat, outs : Nat,
                        planned : Nat, cycles : 0..(CycleMod - 1)]
        /\ pc' \in {"input", "idle"}
    BY <1>a, <1>b, <2>2, ReturnTyped
  <2> QED BY <1>6, <2>3 DEF LoadMethod
<1>7. CASE CopyInput
  <2>1. "kInput" \in Stages /\ {"InvalidType", "InvalidArgument"} \subseteq Errors
    BY DEF Stages, Errors
  <2>2. \/ UNCHANGED <<pc, result>>
        \/ \E e \in Errors : Return("kInput", e, Len(args.ins), args.nout,
                                    PlannedBytes(prog), 0)
    BY <1>7, <2>1 DEF CopyInput
  <2>3. /\ result' \in [stage : Stages, error : Errors, ins : Nat, outs : Nat,
                        planned : Nat, cycles : 0..(CycleMod - 1)]
        /\ pc' \in {"input", "idle"}
    BY <1>7, <1>a, <1>b, <2>1, <2>2, ReturnTyped DEF CopyInput
  <2>4. staged' \in [1..Len(args.ins) -> BOOLEAN] /\ idx' \in Nat \ {0}
    <3>1. staged' \in {staged, [staged EXCEPT ![idx] = TRUE]} /\ idx' \in {idx, idx + 1}
      BY <1>7 DEF CopyInput
    <3>2. [staged EXCEPT ![idx] = TRUE] \in [1..Len(args.ins) -> BOOLEAN]
      OBVIOUS
    <3>3. staged' \in [1..Len(args.ins) -> BOOLEAN]
      BY <3>1, <3>2
    <3>4. idx' \in Nat \ {0}
      BY <3>1
    <3> QED BY <3>3, <3>4
  <2> QED BY <1>7, <2>3, <2>4 DEF CopyInput
<1>8. CASE StartExecute
  BY <1>8 DEF StartExecute
<1>9. CASE NextChain
  BY <1>9 DEF NextChain
<1>10. CASE OpenInstruction
  <2>1. PICK kind : StartProfiling(kind) /\ kind \in {"kernel", "delegate", "control"}
    <3>1. prog.chains[chain][instr] \in Instr
      <4>1. prog.chains \in Seq(Seq(Instr))
        BY PlanTyped DEF prog
      <4>2. prog.chains[chain] \in Seq(Instr)
        BY <1>10, <4>1 DEF OpenInstruction
      <4>3. instr \in 1..Len(prog.chains[chain])
        BY <1>10, <1>a, <4>2 DEF OpenInstruction
      <4> QED BY <4>2, <4>3, ElementTyped
    <3> QED BY <1>10, <3>1 DEF OpenInstruction, Instr
  <2>2. /\ scopes' \in Seq(Handles \cup {-1})
        /\ trace' \in Seq(BeginEvent \cup EndEvent)
    BY <2>1, ProfilingTyped
  <2> QED BY <1>10, <2>2 DEF OpenInstruction
<1>11. CASE OpenWrapper
  <2>1. /\ scopes' \in Seq(Handles \cup {-1})
        /\ trace' \in Seq(BeginEvent \cup EndEvent)
    BY <1>11, ProfilingTyped DEF OpenWrapper
  <2> QED BY <1>11, <2>1 DEF OpenWrapper
<1>12. CASE RunBody
  <2>1. PICK t \in Nat : cycles' = (cycles + t) % CycleMod /\ elapsed' = elapsed + t
    BY <1>12 DEF RunBody, Spend
  <2>2. cycles + t \in Int
    OBVIOUS
  <2>3. cycles' \in 0..(CycleMod - 1) /\ elapsed' \in Nat
    <3>1. (cycles + t) % CycleMod \in 0..(CycleMod - 1)
      BY <2>2, CycleTyped
    <3> QED BY <2>1, <3>1
  <2> QED BY <1>12, <2>3 DEF RunBody
<1>13. CASE CloseScope
  <2> DEFINE entry == scopes[Len(scopes)]
  <2>1. entry \in Handles \cup {-1}
    BY <1>13 DEF CloseScope
  <2>2. scopes' \in Seq(Handles \cup {-1})
    BY <1>13 DEF CloseScope
  <2>3. entry >= 0 => [ev |-> "end", handle |-> entry] \in EndEvent
    <3> HIDE DEF entry
    <3> QED BY <2>1 DEF EndEvent
  <2>4. trace' \in Seq(BeginEvent \cup EndEvent)
    <3>1. EndProfiling(entry)
      BY <1>13 DEF CloseScope
    <3> HIDE DEF entry
    <3> QED BY <3>1, <2>3 DEF EndProfiling
  <2> QED BY <1>13, <2>2, <2>4 DEF CloseScope
<1>14. CASE EndInstruction
  <2>1. kerror \in Errors
    BY DEF Errors
  <2>2. CASE kerror = "Ok"
    BY <1>14, <2>2 DEF EndInstruction
  <2>3. CASE kerror # "Ok"
    <3>1. Return("kExecute", kerror, Len(args.ins), args.nout,
                 PlannedBytes(prog), ExecutionCycles)
      BY <1>14, <2>3 DEF EndInstruction
    <3>2. "kExecute" \in Stages
      BY DEF Stages
    <3>3. /\ result' \in [stage : Stages, error : Errors, ins : Nat, outs : Nat,
                          planned : Nat, cycles : 0..(CycleMod - 1)]
          /\ pc' = "idle"
      BY <1>a, <1>b, <2>1, <3>1, <3>2, ReturnTyped
    <3> QED BY <1>14, <2>3, <3>3 DEF EndInstruction
  <2> QED BY <2>2, <2>3
<1>15. CASE ExecuteOk
  BY <1>15 DEF ExecuteOk
<1>16. CASE CopyOutput
  <2>1. "kOutput" \in Stages /\ {"InvalidType", "InvalidArgument"} \subseteq Errors
    BY DEF Stages, Errors
  <2>2. \/ UNCHANGED <<pc, result>>
        \/ \E e \in Errors : Return("kOutput", e, Len(args.ins), args.nout,
                                    PlannedBytes(prog), 0)
    BY <1>16, <2>1 DEF CopyOutput
  <2>3. /\ result' \in [stage : Stages, error : Errors, ins : Nat, outs : Nat,
                        planned : Nat, cycles : 0..(CycleMod - 1)]
        /\ pc' \in {"output", "idle"}
    BY <1>16, <1>a, <1>b, <2>1, <2>2, ReturnTyped DEF CopyOutput
  <2>4. outputs' \in [1..NBuffers -> Buffer]
    <3>1. \/ UNCHANGED outputs
          \/ \E val \in {outputs[idx].val, "new", "garbage"} :
               outputs' = [outputs EXCEPT ![idx] =
                             Holding(outputs[idx], val, prog.outs[idx].nbytes)]
      BY <1>16 DEF CopyOutput, SizeTold
    <3>2. idx \in 1..NBuffers
      BY <1>16, <1>a DEF CopyOutput
    <3>3. outputs[idx] \in Buffer
      BY <3>2
    <3>4. CASE UNCHANGED outputs
      BY <3>4
    <3>5. CASE ~UNCHANGED outputs
      <4>1. PICK val \in {"old", "new", "garbage"} :
              outputs' = [outputs EXCEPT ![idx] =
                            Holding(outputs[idx], val, prog.outs[idx].nbytes)]
        BY <3>1, <3>3, <3>5 DEF Buffer
      <4>2. prog.outs[idx].nbytes \in Nat
        <5>0. CountsMatch(args)
          BY <1>16 DEF CopyOutput, Matched, Executing
        <5>1. idx \in 1..Len(prog.outs)
          BY <1>16, <1>a, <5>0 DEF CopyOutput, CountsMatch, prog
        <5> QED BY <1>a, <5>1 DEF Slot
      <4>3. Holding(outputs[idx], val, prog.outs[idx].nbytes) \in Buffer
        BY <3>3, <4>2 DEF Holding, Buffer
      <4> QED BY <4>1, <4>3
    <3> QED BY <3>4, <3>5
  <2>5. idx' \in Nat \ {0}
    BY <1>16 DEF CopyOutput
  <2>6. told' \in [1..NBuffers -> BOOLEAN]
    BY <1>16 DEF CopyOutput
  <2> QED BY <1>16, <2>3, <2>4, <2>5, <2>6 DEF CopyOutput
<1>17. CASE Overrun \/ Finish
  <2>1. CASE Overrun
    BY <2>1 DEF Overrun
  <2>2. CASE Finish
    BY <2>2, <1>a, <1>b DEF Finish, Return, Stages, Errors
  <2> QED BY <1>17, <2>1, <2>2
<1>18. CASE Abort
  BY <1>18 DEF Abort
<1>19. CASE Spin \/ UNCHANGED vars
  BY <1>19 DEF Spin, vars
<1> QED BY <1>1, <1>2, <1>3, <1>4, <1>5, <1>6, <1>7, <1>8, <1>9, <1>10, <1>11,
           <1>12, <1>13, <1>14, <1>15, <1>16, <1>17, <1>18, <1>19
        DEF Next, CallerStep, RunStep

\* Every variable keeps the type the code gives it, in every build and for every
\* program and argument list.
THEOREM TypeCorrect == Spec => [](TypeOK /\ Matched)
<1>1. Init => TypeOK /\ Matched
  BY TypeInit DEF Init, Matched, Executing
<1>2. (TypeOK /\ Matched) /\ [Next]_vars => (TypeOK /\ Matched)'
  BY TypeStep, MatchedStep
<1> QED BY <1>1, <1>2, PTL DEF Spec

----------------------------------------------------------------------------
(* The output Buffers. *)

Waiting == {"check", "load", "plan", "method"}
Running == {"execute", "wrapper", "body", "unwind"}

\* What is true of the caller's Buffers and of the staged inputs at each stage:
\* nothing is written before the output loop, which runs only after execution
\* on inputs that were all staged, and has then delivered the Buffers before
\* idx and left the others alone.
Progress ==
  /\ pc \notin {"idle", "output", "overrun"} => \A i \in 1..NBuffers : Untouched(i)
  /\ pc \in Waiting => idx = 1
  /\ pc = "input" => /\ idx <= Len(args.ins) + 1
                     /\ \A j \in 1..(idx - 1) : staged[j]
  /\ pc \in Running => \A j \in 1..Len(args.ins) : staged[j]
  /\ pc \in {"output", "overrun"} =>
       /\ computed
       /\ idx <= args.nout + 1
       /\ \A i \in 1..NBuffers : IF i < idx THEN Delivered(i) ELSE Untouched(i)

\* A Buffer claims more than it has only where a call wrote the size it needs,
\* and is overrun only then.
Claims ==
  /\ \A i \in 1..NBuffers : told[i] \/ outputs[i].size <= outputs[i].cap
  /\ OverrunsWereTold

IInv == TypeOK /\ Matched /\ Progress /\ Claims

\* A step that leaves the Buffers, the offer and the arguments alone leaves
\* their condition alone.
LEMMA SameBuffers ==
  ASSUME UNCHANGED <<outputs, offered, args>>, NEW i \in 1..NBuffers
  PROVE  /\ Untouched(i)' <=> Untouched(i)
         /\ Delivered(i)' <=> Delivered(i)
BY DEF Untouched, Delivered, prog

\* The step of the output loop that delivers a Buffer.
LEMMA DeliverStep ==
  ASSUME IInv, CopyOutput, pc' = "output"
  PROVE  /\ prog.outs[idx].nbytes <= offered[idx]
         /\ ~outputs[idx].null
         /\ idx \in 1..args.nout /\ idx \in 1..NBuffers /\ idx' = idx + 1
         /\ outputs' = [outputs EXCEPT ![idx] =
                          Holding(outputs[idx], "new", prog.outs[idx].nbytes)]
         /\ \A i \in 1..NBuffers : i = idx => Delivered(i)'
         /\ \A i \in 1..NBuffers : i # idx =>
              (Untouched(i)' <=> Untouched(i)) /\ (Delivered(i)' <=> Delivered(i))
<1>1. /\ pc = "output" /\ idx <= args.nout
      /\ OutputFits(outputs[idx], prog.outs[idx])
      /\ outputs' = [outputs EXCEPT ![idx] =
           Holding(outputs[idx], IF computed THEN "new" ELSE "garbage",
                   prog.outs[idx].nbytes)]
      /\ idx' = idx + 1
      /\ UNCHANGED <<args, offered>>
  BY DEF CopyOutput, Return
<1>2. idx \in 1..args.nout /\ idx \in 1..NBuffers
  BY <1>1, CallTyped DEF IInv, TypeOK
<1>3. computed /\ Untouched(idx)
  BY <1>1, <1>2 DEF IInv, Progress
<1>4. prog.outs[idx].nbytes <= offered[idx] /\ ~outputs[idx].null
  BY <1>1, <1>3 DEF OutputFits, Untouched
<1>5. outputs' = [outputs EXCEPT ![idx] =
                    Holding(outputs[idx], "new", prog.outs[idx].nbytes)]
  BY <1>1, <1>3
<1>6. /\ outputs'[idx] = Holding(outputs[idx], "new", prog.outs[idx].nbytes)
      /\ \A i \in 1..NBuffers : i # idx => outputs'[i] = outputs[i]
  BY <1>2, <1>5 DEF IInv, TypeOK
<1>7. ASSUME NEW i \in 1..NBuffers, i = idx PROVE Delivered(i)'
  <2>1. /\ outputs'[i].val = "new"
        /\ outputs'[i].size = prog.outs[i].nbytes
    BY <1>6, <1>7 DEF Holding
  <2>2. prog' = prog /\ offered' = offered
    BY <1>1 DEF prog
  <2> QED BY <1>4, <1>7, <2>1, <2>2 DEF Delivered
<1>8. ASSUME NEW i \in 1..NBuffers, i # idx
      PROVE  (Untouched(i)' <=> Untouched(i)) /\ (Delivered(i)' <=> Delivered(i))
  <2>1. outputs'[i] = outputs[i]
    BY <1>6, <1>8
  <2>2. prog' = prog /\ offered' = offered
    BY <1>1 DEF prog
  <2> QED BY <2>1, <2>2 DEF Untouched, Delivered
<1> QED BY <1>1, <1>2, <1>4, <1>5, <1>7, <1>8

LEMMA ProgressStep == IInv /\ [Next]_vars => Progress'
<1> SUFFICES ASSUME IInv, [Next]_vars PROVE Progress'
  OBVIOUS
<1>a. TypeOK /\ Matched /\ Progress
  BY DEF IInv
<1>0. Len(args.ins) \in Nat /\ args.nout \in Nat
  BY <1>a, CallTyped DEF TypeOK
<1>1. CASE CallerStep
  <2>1. ASSUME NEW c \in Calls, Enter(c) PROVE Progress'
    <3>1. /\ pc' = "check" /\ idx' = 1
          /\ outputs' = [i \in 1..NBuffers |->
                           Holding(outputs[i], "old", outputs[i].size)]
          /\ offered' = [i \in 1..NBuffers |-> outputs[i].size]
      BY <2>1 DEF Enter
    <3>2. ASSUME NEW i \in 1..NBuffers
          PROVE  Untouched(i)'
      BY <3>1 DEF Untouched, Holding
    <3> QED BY <3>1, <3>2 DEF Progress, Waiting, Running
  <2>2. ASSUME NEW i \in 1..NBuffers, Grow(i) \/ Restore(i) PROVE Progress'
    <3>1. pc' = "idle"
      BY <2>2 DEF Grow, Restore
    <3> QED BY <3>1 DEF Progress, Waiting, Running
  <2> QED BY <1>1, <2>1, <2>2 DEF CallerStep
<1>2. CASE pc' = "idle"
  BY <1>2 DEF Progress, Waiting, Running
<1>3. CASE UNCHANGED <<outputs, offered, args>> /\ pc # "idle" /\ pc' # "idle"
  <2>1. \A i \in 1..NBuffers : (Untouched(i)' <=> Untouched(i)) /\
                               (Delivered(i)' <=> Delivered(i))
    BY <1>3, SameBuffers
  <2>3. CASE CheckArguments \/ LoadProgram \/ PlanMemory \/ LoadMethod
    <3>1. pc \in Waiting /\ pc' \in Waiting \cup {"input"} /\ idx' = idx
      BY <1>3, <2>3 DEF CheckArguments, LoadProgram, PlanMemory, LoadMethod, Return,
                        Waiting
    <3> QED BY <1>a, <1>0, <1>3, <2>1, <3>1 DEF Progress, Waiting, Running
  <2>4. CASE CopyInput
    <3>1. /\ pc = "input" /\ pc' = "input" /\ idx <= Len(args.ins) /\ idx' = idx + 1
          /\ staged' = [staged EXCEPT ![idx] = TRUE]
      BY <1>3, <2>4 DEF CopyInput, Return, InputsLeft
    <3>2. idx \in Nat \ {0} /\ staged \in [1..Len(args.ins) -> BOOLEAN]
      BY <1>a DEF TypeOK
    <3>3. \A j \in 1..(idx' - 1) : staged'[j]
      BY <1>a, <1>0, <3>1, <3>2 DEF Progress
    <3> QED BY <1>a, <1>0, <1>3, <2>1, <3>1, <3>2, <3>3
            DEF Progress, Waiting, Running
  <2>5. CASE StartExecute
    <3>1. pc = "input" /\ pc' = "execute" /\ idx > Len(args.ins) /\ UNCHANGED staged
      BY <1>a, <1>0, <2>5 DEF StartExecute, InputsLeft, TypeOK
    <3>2. \A j \in 1..Len(args.ins) : staged[j]
      BY <1>a, <1>0, <3>1 DEF Progress, TypeOK
    <3> QED BY <1>a, <1>3, <2>1, <3>1, <3>2 DEF Progress, Waiting, Running
  <2>6. CASE \/ NextChain \/ OpenInstruction \/ OpenWrapper \/ RunBody
             \/ CloseScope \/ EndInstruction
    <3>1. pc \in Running /\ pc' \in Running /\ UNCHANGED staged
      BY <1>3, <2>6 DEF NextChain, OpenInstruction, OpenWrapper, RunBody, CloseScope,
                        EndInstruction, Return, Running
    <3> QED BY <1>a, <1>3, <2>1, <3>1 DEF Progress, Waiting, Running
  <2>7. CASE ExecuteOk
    <3>1. /\ pc = "execute" /\ pc' = "output" /\ idx' = 1
          /\ computed' = (\A j \in DOMAIN staged : staged[j])
      BY <2>7 DEF ExecuteOk
    <3>2. computed'
      BY <1>a, <3>1 DEF Progress, Running, TypeOK
    <3>3. \A i \in 1..NBuffers : ~(i < idx') /\ Untouched(i)'
      BY <1>a, <2>1, <3>1 DEF Progress
    <3>4. \A i \in 1..NBuffers : IF i < idx' THEN Delivered(i)' ELSE Untouched(i)'
      BY <3>3
    <3>5. idx' <= args'.nout + 1
      BY <1>0, <1>3, <3>1
    <3> QED BY <3>1, <3>2, <3>4, <3>5 DEF Progress, Waiting, Running
  <2>8. CASE Abort \/ Spin \/ UNCHANGED vars
    <3>1. CASE Abort \/ Spin
      <4>1. \/ pc' = "abort" /\ pc \notin {"idle", "output", "overrun"}
            \/ pc = "overrun" /\ UNCHANGED <<pc, idx, computed, args>>
        BY <3>1 DEF Abort, Spin, vars
      <4> QED BY <1>a, <2>1, <4>1 DEF Progress, Waiting, Running
    <3>2. CASE UNCHANGED vars
      <4>1. UNCHANGED <<pc, idx, staged, computed, args>>
        BY <3>2 DEF vars
      <4> QED BY <1>a, <2>1, <4>1 DEF Progress
    <3> QED BY <2>8, <3>1, <3>2
  <2>9. CASE CopyOutput \/ Overrun \/ Finish
    <3>1. CASE CopyOutput
      <4>1. pc' = "output"
        BY <1>3, <3>1 DEF CopyOutput, Return
      <4>2. idx \in 1..NBuffers /\ \A i \in 1..NBuffers : i = idx => Delivered(i)'
        BY <3>1, <4>1, DeliverStep
      <4>3. \A i \in 1..NBuffers : i = idx => Untouched(i)
        BY <1>a, <3>1 DEF Progress, CopyOutput
      <4> QED BY <2>1, <4>2, <4>3 DEF Delivered, Untouched
    <3>2. CASE Finish
      BY <1>3, <3>2 DEF Finish, Return
    <3>3. CASE Overrun
      <4>1. pc = "output" /\ pc' = "overrun" /\ UNCHANGED <<idx, computed, args>>
        BY <3>3 DEF Overrun
      <4> QED BY <1>a, <2>1, <4>1 DEF Progress, Waiting, Running
    <3> QED BY <2>9, <3>1, <3>2, <3>3
  <2> QED BY <1>3, <2>3, <2>4, <2>5, <2>6, <2>7, <2>8, <2>9
          DEF Next, CallerStep, RunStep, Enter, Grow, Restore
<1>4. CASE CopyOutput /\ pc' = "output"
  <2>1. /\ idx \in 1..args.nout /\ idx \in 1..NBuffers /\ idx' = idx + 1
        /\ \A i \in 1..NBuffers : i = idx => Delivered(i)'
        /\ \A i \in 1..NBuffers : i # idx =>
             (Untouched(i)' <=> Untouched(i)) /\ (Delivered(i)' <=> Delivered(i))
    BY <1>4, DeliverStep
  <2>2. pc = "output" /\ UNCHANGED <<computed, args, offered>>
    BY <1>4 DEF CopyOutput
  <2>3. \A i \in 1..NBuffers : IF i < idx' THEN Delivered(i)' ELSE Untouched(i)'
    BY <1>a, <2>1, <2>2 DEF Progress
  <2>4. computed' /\ idx' <= args'.nout + 1
    BY <1>a, <1>0, <2>1, <2>2 DEF Progress
  <2> QED BY <1>4, <2>3, <2>4 DEF Progress, Waiting, Running
<1>5. \/ CallerStep \/ UNCHANGED <<outputs, offered, args>>
      \/ CopyOutput
  BY DEF Next, RunStep, CheckArguments, LoadProgram, PlanMemory, LoadMethod,
         CopyInput, StartExecute, NextChain, OpenInstruction, OpenWrapper, RunBody,
         CloseScope, EndInstruction, ExecuteOk, Overrun, Finish, Abort, Spin, vars
<1>6. CASE pc = "idle" /\ UNCHANGED vars
  BY <1>2, <1>6 DEF vars
<1>7. pc = "idle" => CallerStep \/ UNCHANGED vars
  BY DEF Next, RunStep, CheckArguments, LoadProgram, PlanMemory, LoadMethod,
         CopyInput, StartExecute, NextChain, OpenInstruction, OpenWrapper, RunBody,
         CloseScope, EndInstruction, ExecuteOk, CopyOutput, Overrun, Finish, Abort, Spin
<1>8. CopyOutput => pc' \in {"output", "idle"}
  BY DEF CopyOutput, Return
<1> QED BY <1>1, <1>2, <1>3, <1>4, <1>5, <1>6, <1>7, <1>8

LEMMA ProgressInit == Init => Progress
BY DEF Init, Progress, Waiting, Running

\* The caller's Buffers and the output loop: a size is raised past a capacity
\* only where `told' says so, and a Buffer is overrun only in that state.
LEMMA ClaimsStep == IInv /\ [Next]_vars => Claims'
<1> SUFFICES ASSUME IInv, [Next]_vars PROVE Claims'
  OBVIOUS
<1>a. TypeOK /\ Matched /\ Progress /\ Claims
  BY DEF IInv
<1>b. \A i \in 1..NBuffers : /\ outputs[i] \in Buffer /\ told[i] \in BOOLEAN
                             /\ outputs[i].cap \in Nat /\ outputs[i].size \in Nat
  BY <1>a DEF TypeOK, Buffer
<1>1. ASSUME NEW c \in Calls, Enter(c) PROVE Claims'
  <2>1. /\ pc' = "check" /\ told' = told
        /\ outputs' = [i \in 1..NBuffers |-> Holding(outputs[i], "old", outputs[i].size)]
    BY <1>1 DEF Enter
  <2> QED BY <1>a, <2>1 DEF Claims, OverrunsWereTold, Holding
<1>2. ASSUME NEW i \in 1..NBuffers, Grow(i) \/ Restore(i) PROVE Claims'
  <2>1. pc' = "idle" /\ told' = [told EXCEPT ![i] = FALSE]
    BY <1>2 DEF Grow, Restore
  <2>2. /\ outputs'[i].size <= outputs'[i].cap
        /\ \A j \in 1..NBuffers \ {i} : outputs'[j] = outputs[j]
    <3>1. DOMAIN outputs = 1..NBuffers
      BY <1>a DEF TypeOK
    <3>2. PICK b : /\ outputs' = [outputs EXCEPT ![i] = b]
                   /\ b.size = b.cap
                   /\ b.cap \in {outputs[i].cap, outputs[i].size}
      BY <1>2 DEF Grow, Restore, Holding
    <3>3. outputs'[i] = b /\ \A j \in 1..NBuffers \ {i} : outputs'[j] = outputs[j]
      BY <3>1, <3>2
    <3>4. b.size \in Nat /\ b.size = b.cap
      BY <1>b, <3>2
    <3> QED BY <3>3, <3>4
  <2>3. \A j \in 1..NBuffers \ {i} : told'[j] = told[j]
    BY <1>a, <2>1 DEF TypeOK
  <2> QED BY <1>a, <2>1, <2>2, <2>3 DEF Claims, OverrunsWereTold
<1>3. CASE CopyOutput
  <2>1. /\ pc = "output" /\ idx \in 1..NBuffers
        /\ prog.outs[idx].nbytes \in Nat
    <3>1. pc = "output" /\ idx \in 1..NBuffers /\ idx <= args.nout
      BY <1>a, <1>3, CallTyped DEF CopyOutput, TypeOK
    <3>2. CountsMatch(args) /\ args.nout \in Nat
      BY <1>a, <3>1, CallTyped DEF Matched, Executing, TypeOK
    <3>3. prog.outs[idx] \in Slot
      BY <1>a, <3>1, <3>2, CallTyped DEF CountsMatch, prog, TypeOK
    <3> QED BY <3>1, <3>3 DEF Slot
  <2>2. pc' # "overrun"
    BY <1>3, <2>1 DEF CopyOutput, Return
  <2>3. ASSUME NEW i \in 1..NBuffers PROVE told'[i] \/ outputs'[i].size <= outputs'[i].cap
    <3>1. CASE UNCHANGED <<outputs, told>>
      BY <1>a, <3>1 DEF Claims
    <3>2. CASE told' = [told EXCEPT ![idx] = TRUE] /\ i = idx
      BY <1>a, <3>2, <2>1 DEF TypeOK
    <3>3. CASE /\ i = idx
               /\ prog.outs[idx].nbytes <= outputs[idx].cap
               /\ outputs' = [outputs EXCEPT ![idx] =
                    Holding(outputs[idx], IF computed THEN "new" ELSE "garbage",
                            prog.outs[idx].nbytes)]
      BY <1>a, <2>1, <3>3 DEF TypeOK, Holding
    <3>4. CASE i # idx
      <4>1. told'[i] = told[i] /\ outputs'[i] = outputs[i]
        BY <1>a, <1>3, <2>1, <3>4 DEF CopyOutput, TypeOK
      <4> QED BY <1>a, <4>1 DEF Claims
    <3> QED BY <1>3, <3>1, <3>2, <3>3, <3>4 DEF CopyOutput
  <2> QED BY <2>2, <2>3 DEF Claims, OverrunsWereTold
<1>4. CASE Overrun
  <2>0. args.nout \in 0..NBuffers /\ idx \in Nat \ {0}
    BY <1>a, CallTyped DEF TypeOK
  <2>1. /\ pc = "output" /\ idx \in 1..NBuffers /\ idx <= args.nout
        /\ UNCHANGED <<args, outputs, told, offered, idx>>
        /\ OutputFits(outputs[idx], prog.outs[idx])
        /\ prog.outs[idx].nbytes > outputs[idx].cap
    BY <2>0, <1>4 DEF Overrun
  <2>2. Untouched(idx)
    BY <1>a, <2>1 DEF Progress, TypeOK
  <2>3. prog.outs[idx].nbytes \in Nat
    <3>1. CountsMatch(args)
      BY <1>a, <2>1 DEF Matched, Executing
    <3>2. idx \in 1..Len(prog.outs)
      BY <2>0, <2>1, <3>1 DEF CountsMatch, prog
    <3>3. prog.outs[idx] \in Slot
      BY <1>a, <3>2, CallTyped DEF prog, TypeOK
    <3> QED BY <3>3 DEF Slot
  <2>4. /\ outputs[idx].size > outputs[idx].cap /\ ~outputs[idx].null
        /\ outputs[idx].val = "old" /\ offered[idx] = outputs[idx].size
    BY <1>b, <2>1, <2>2, <2>3 DEF OutputFits, Untouched
  <2>5. told[idx]
    BY <1>a, <1>b, <2>1, <2>4 DEF Claims
  <2> QED BY <1>a, <1>b, <2>1, <2>4, <2>5 DEF Claims, OverrunsWereTold
<1>5. CASE /\ UNCHANGED <<outputs, told>>
           /\ \/ pc' # "overrun"
              \/ UNCHANGED <<pc, offered, idx>>
  BY <1>a, <1>5 DEF Claims, OverrunsWereTold
<1>6. CASE RunStep
  <2>1. CASE CheckArguments \/ LoadProgram \/ PlanMemory \/ LoadMethod \/ CopyInput
    BY <1>5, <2>1 DEF CheckArguments, LoadProgram, PlanMemory, LoadMethod,
                      CopyInput, Return
  <2>2. CASE StartExecute \/ NextChain \/ OpenInstruction \/ OpenWrapper \/ RunBody
    BY <1>5, <2>2 DEF StartExecute, NextChain, OpenInstruction, OpenWrapper, RunBody
  <2>3. CASE CloseScope \/ EndInstruction \/ ExecuteOk \/ Finish
    BY <1>5, <2>3 DEF CloseScope, EndInstruction, ExecuteOk, Finish, Return
  <2> QED BY <1>3, <1>4, <1>6, <2>1, <2>2, <2>3 DEF RunStep
<1>7. CASE Abort \/ Spin \/ UNCHANGED vars
  BY <1>5, <1>7 DEF Abort, Spin, vars
<1> QED BY <1>1, <1>2, <1>6, <1>7 DEF Next, CallerStep

LEMMA ClaimsInit == Init => Claims
<1> SUFFICES ASSUME Init, NEW i \in 1..NBuffers PROVE outputs[i].size <= outputs[i].cap
  BY DEF Init, Claims, OverrunsWereTold
<1>0. outputs[i] \in {[null |-> c = 0, cap |-> c, size |-> c, val |-> "old"] :
                         c \in Capacities}
  BY DEF Init
<1>1. PICK c \in Capacities : outputs[i].size = c /\ outputs[i].cap = c
  BY <1>0
<1>2. c \in Nat
  OBVIOUS
<1> QED BY <1>1, <1>2

\* The invariant the theorems below rest on.
THEOREM InvariantHolds == Spec => []IInv
<1>1. Init => IInv
  BY TypeInit, ProgressInit, ClaimsInit DEF Init, IInv, Matched, Executing
<1>2. IInv /\ [Next]_vars => IInv'
  BY TypeStep, MatchedStep, ProgressStep, ClaimsStep DEF IInv
<1> QED BY <1>1, <1>2, PTL DEF Spec

\* Every return of the function, on success and on each of its failures.
LEMMA ReturnStep ==
  IInv /\ [Next]_vars => (pc # "idle" /\ pc' = "idle" => ReturnContract')
<1> SUFFICES ASSUME IInv, [Next]_vars, pc # "idle", pc' = "idle"
             PROVE  ReturnContract'
  OBVIOUS
<1>a. TypeOK /\ Matched /\ Progress
  BY DEF IInv
<1>0. args.nout \in 0..NBuffers /\ idx \in Nat \ {0}
  BY <1>a, CallTyped DEF TypeOK
<1>1. CASE \/ CheckArguments \/ LoadProgram \/ PlanMemory \/ LoadMethod
           \/ CopyInput \/ EndInstruction
  <2>1. /\ UNCHANGED <<outputs, offered, args>>
        /\ pc \notin {"idle", "output", "overrun"}
        /\ result'.stage \notin {"kOk", "kOutput"}
    BY <1>1 DEF CheckArguments, LoadProgram, PlanMemory, LoadMethod, CopyInput,
                EndInstruction, Return
  <2>2. \A i \in 1..NBuffers : Untouched(i)'
    BY <1>a, <2>1, SameBuffers DEF Progress
  <2> QED BY <2>1, <2>2 DEF ReturnContract
<1>2. CASE Finish
  <2>1. /\ UNCHANGED <<outputs, offered, args>> /\ pc = "output"
        /\ idx > args.nout /\ result'.stage = "kOk"
    BY <1>2 DEF Finish, Return
  <2>2. \A i \in 1..NBuffers :
          IF i <= args.nout THEN Delivered(i) ELSE Untouched(i)
    BY <1>a, <1>0, <2>1 DEF Progress
  <2>3. \A i \in 1..NBuffers :
          IF i <= args'.nout THEN Delivered(i)' ELSE Untouched(i)'
    BY <2>1, <2>2, SameBuffers
  <2> QED BY <2>1, <2>3 DEF ReturnContract
<1>3. CASE CopyOutput
  <2>1. /\ pc = "output" /\ idx <= args.nout /\ result'.stage = "kOutput"
        /\ UNCHANGED <<args, offered, prog>>
    BY <1>3 DEF CopyOutput, Return, prog
  <2>2. idx \in 1..args.nout /\ idx \in 1..NBuffers
    BY <1>0, <2>1
  <2>3. \A i \in 1..NBuffers : IF i < idx THEN Delivered(i) ELSE Untouched(i)
    BY <1>a, <2>1 DEF Progress
  <2>4. \A i \in 1..NBuffers : i # idx => outputs'[i] = outputs[i]
    BY <1>3, <1>a DEF CopyOutput, TypeOK
  <2>5. ASSUME NEW k \in 1..args.nout, k = idx
        PROVE  ReturnContract'
    <3>1. Refused(k)'
      <4>1. CASE UNCHANGED outputs /\ ~prog.outs[idx].tensor
        BY <2>1, <2>2, <2>3, <2>5, <4>1 DEF Refused, Untouched
      <4>2. CASE /\ ~OutputFits(outputs[idx], prog.outs[idx])
                 /\ outputs' = [outputs EXCEPT ![idx] =
                      Holding(outputs[idx], outputs[idx].val,
                              SizeTold(outputs[idx], prog.outs[idx]))]
        <5>1. outputs'[k] = Holding(outputs[k], outputs[k].val, prog.outs[k].nbytes)
          BY <1>a, <2>2, <2>5, <4>2 DEF TypeOK, SizeTold
        <5>2. /\ outputs'[k].val = outputs[k].val
              /\ outputs'[k].size = prog.outs[k].nbytes
              /\ outputs'[k].null = outputs[k].null
          BY <5>1 DEF Holding
        <5>3. outputs[k].val = "old" /\ outputs[k].size = offered[k]
          BY <2>2, <2>3, <2>5 DEF Untouched
        <5>4. /\ prog.outs[k].nbytes \in Nat /\ offered[k] \in Nat
              /\ outputs[k].null \in BOOLEAN
          <6>1. CountsMatch(args)
            BY <1>a, <2>1 DEF Matched, Executing
          <6>2. k \in 1..Len(prog.outs)
            BY <2>1, <2>2, <2>5, <6>1 DEF CountsMatch, prog
          <6>3. prog.outs[k] \in Slot
            BY <1>a, <6>2, CallTyped DEF prog, TypeOK
          <6> QED BY <1>a, <2>2, <2>5, <6>3 DEF Slot, TypeOK, Buffer
        <5>5. outputs[k].null \/ offered[k] < prog.outs[k].nbytes
          BY <2>5, <4>2, <5>3, <5>4 DEF OutputFits
        <5> QED BY <2>1, <5>2, <5>3, <5>5 DEF Refused
      <4> QED BY <1>3, <4>1, <4>2 DEF CopyOutput
    <3>2. \A i \in 1..NBuffers : (i < k => Delivered(i)') /\ (i > k => Untouched(i)')
      BY <2>1, <2>2, <2>3, <2>4, <2>5 DEF Delivered, Untouched
    <3>3. k \in 1..args'.nout /\ result'.stage = "kOutput"
      BY <2>1
    <3> QED BY <3>1, <3>2, <3>3 DEF ReturnContract
  <2> QED BY <2>2, <2>5
<1>4. pc' = pc \/ pc' # "idle" \/ \/ CheckArguments \/ LoadProgram \/ PlanMemory
                                  \/ LoadMethod \/ CopyInput \/ EndInstruction
                                  \/ Finish \/ CopyOutput
  BY DEF Next, CallerStep, RunStep, Enter, Grow, Restore, StartExecute, NextChain,
         OpenInstruction, OpenWrapper, RunBody, CloseScope, ExecuteOk, Overrun, Abort,
         Spin, vars
<1> QED BY <1>1, <1>2, <1>3, <1>4

\* What a caller may conclude from the stage it is returned holds for every
\* program, argument list, number of Buffers and sequence of earlier calls.
THEOREM ReturnCorrect == Spec => ReturnKeepsContract
<1>1. IInv /\ [Next]_vars => [pc # "idle" /\ pc' = "idle" => ReturnContract']_vars
  BY ReturnStep
<1> QED BY <1>1, InvariantHolds, PTL DEF Spec, ReturnKeepsContract

\* A call writes past a Buffer only if the caller offers it with the size an
\* earlier call wrote there, unanswered: for every program, caller and sequence of
\* calls that reuse their Buffers.
THEOREM OverrunsCorrect == Spec => []OverrunsWereTold
<1>1. IInv => OverrunsWereTold
  BY DEF IInv, Claims
<1> QED BY <1>1, InvariantHolds, PTL
----------------------------------------------------------------------------
(* The adapter implements its contract. *)

LEMMA ContractInitMaps == Init => Contract!ContractInit
<1> SUFFICES ASSUME Init PROVE Contract!ContractInit
  OBVIOUS
<1>1. args.nout \in 0..NBuffers
  BY CallTyped DEF Init
<1> QED BY <1>1 DEF Init, NoResult, Contract!ContractInit, Phase, DoneOutputs

LEMMA ContractStepMaps == IInv /\ [Next]_vars => [Contract!ContractNext]_(Contract!cvars)
<1> SUFFICES ASSUME IInv, [Next]_vars
             PROVE  Contract!ContractNext \/ UNCHANGED Contract!cvars
  BY DEF Contract!cvars
<1>a. TypeOK /\ Matched /\ Progress
  BY DEF IInv
<1>0. args.nout \in 0..NBuffers /\ idx \in Nat \ {0}
  BY <1>a, CallTyped DEF TypeOK
<1>1. ASSUME NEW c \in Calls, Enter(c) PROVE Contract!Ask
  <2>1. c.nout \in 0..NBuffers
    BY CallTyped
  <2> QED BY <1>1, <2>1 DEF Enter, NoResult, Holding, Contract!Ask, Contract!Filled,
                            Phase, DoneOutputs
<1>2. ASSUME NEW i \in 1..NBuffers, Grow(i) \/ Restore(i) PROVE Contract!Resize(i)
  BY <1>2 DEF Grow, Restore, Holding, Contract!Resize, Contract!Filled, Phase,
              DoneOutputs
<1>3. CASE \/ CheckArguments \/ LoadProgram \/ PlanMemory \/ LoadMethod
           \/ CopyInput \/ EndInstruction
  <2>1. /\ pc \in Waiting \cup Running \cup {"input"}
        /\ UNCHANGED <<outputs, args>>
    BY <1>3 DEF CheckArguments, LoadProgram, PlanMemory, LoadMethod, CopyInput,
                EndInstruction, Waiting, Running
  <2>2. CASE pc' = "idle"
    <3>1. result'.stage \in Stages \ {"none", "kOk", "kOutput"}
      BY <1>3, <2>1, <2>2
         DEF CheckArguments, LoadProgram, PlanMemory, LoadMethod, CopyInput,
             EndInstruction, Return, Stages, Waiting, Running
    <3> QED BY <2>1, <2>2, <3>1
            DEF Contract!ContractNext, Contract!Refuse, Phase, DoneOutputs, Waiting, Running
  <2>3. CASE pc' # "idle"
    <3>1. pc' \in Waiting \cup Running \cup {"input"} /\ UNCHANGED result
      BY <1>3, <2>3 DEF CheckArguments, LoadProgram, PlanMemory, LoadMethod, CopyInput,
                EndInstruction, Return, Waiting, Running
    <3> QED BY <2>1, <3>1 DEF Contract!cvars, Phase, DoneOutputs, Waiting, Running
  <2> QED BY <2>2, <2>3
<1>4. CASE \/ StartExecute \/ NextChain \/ OpenInstruction \/ OpenWrapper \/ RunBody
           \/ CloseScope
  <2>1. /\ pc \in Running \cup {"input"} /\ pc' \in Running
        /\ UNCHANGED <<outputs, args, result>>
    BY <1>4 DEF StartExecute, NextChain, OpenInstruction, OpenWrapper, RunBody,
                CloseScope, Running
  <2> QED BY <2>1 DEF Contract!cvars, Phase, DoneOutputs, Running
<1>5. CASE ExecuteOk
  BY <1>5 DEF ExecuteOk, Contract!ContractNext, Contract!Compute, Phase, DoneOutputs
<1>6. CASE CopyOutput
  <2>1. CASE pc' = "output"
    <3>1. pc = "output" /\ DoneOutputs + 1 = idx /\ DoneOutputs' = DoneOutputs + 1
          /\ UNCHANGED <<args, result>> /\ idx <= args.nout
      BY <1>0, <1>6, <2>1, DeliverStep DEF CopyOutput, DoneOutputs, Return
    <3>2. /\ ~outputs[idx].null
          /\ outputs' = [outputs EXCEPT ![idx] =
                           Holding(outputs[idx], "new", prog.outs[idx].nbytes)]
          /\ idx \in 1..NBuffers
      BY <1>6, <2>1, DeliverStep
    <3>3. /\ prog.outs[idx].nbytes \in 0..outputs[idx].size
          /\ prog.outs[idx].nbytes <= outputs[idx].cap
      <4>0. prog.outs[idx].nbytes <= outputs[idx].cap
        BY <1>6, <2>1, <3>1 DEF CopyOutput, Return
      <4>1. CountsMatch(args) /\ OutputFits(outputs[idx], prog.outs[idx])
        BY <1>a, <1>6, <2>1, <3>1 DEF CopyOutput, Return, Matched, Executing
      <4>2. idx \in 1..Len(prog.outs)
        BY <1>0, <3>1, <4>1 DEF CountsMatch, prog
      <4>3. prog.outs[idx] \in Slot
        BY <1>a, <4>2, CallTyped DEF prog, TypeOK
      <4> QED BY <1>a, <3>2, <4>0, <4>1, <4>3 DEF OutputFits, Slot, TypeOK, Buffer
    <3>4. Contract!Deliver
      <4>1. DoneOutputs < args.nout
        BY <1>0, <3>1 DEF DoneOutputs
      <4>2. Phase = "delivering" /\ Phase' = "delivering"
        BY <2>1, <3>1 DEF Phase
      <4>3. ~outputs[DoneOutputs + 1].null
        BY <3>1, <3>2
      <4>4. \E n \in 0..outputs[DoneOutputs + 1].size :
              /\ n <= outputs[DoneOutputs + 1].cap
              /\ outputs' = [outputs EXCEPT ![DoneOutputs + 1] =
                            Contract!Filled(outputs[DoneOutputs + 1], "new", n)]
        BY <3>1, <3>2, <3>3 DEF Contract!Filled, Holding
      <4>5. UNCHANGED <<Phase, args.nout, result.stage>>
        BY <3>1, <4>2
      <4> QED BY <3>1, <4>1, <4>2, <4>3, <4>4, <4>5 DEF Contract!Deliver
    <3> QED BY <3>4 DEF Contract!ContractNext
  <2>2. CASE pc' # "output"
    <3>1. /\ pc = "output" /\ pc' = "idle" /\ idx <= args.nout
          /\ result'.stage = "kOutput" /\ UNCHANGED <<idx, args>>
      BY <1>6, <2>2 DEF CopyOutput, Return
    <3>2. DoneOutputs + 1 = idx /\ DoneOutputs' = DoneOutputs
          /\ DoneOutputs < args.nout
      BY <1>0, <3>1 DEF DoneOutputs
    <3>3. CASE UNCHANGED outputs
      BY <3>1, <3>2, <3>3 DEF Contract!ContractNext, Contract!Stop, Phase
    <3>4. CASE /\ ~OutputFits(outputs[idx], prog.outs[idx])
               /\ outputs' = [outputs EXCEPT ![idx] =
                    Holding(outputs[idx], outputs[idx].val,
                            SizeTold(outputs[idx], prog.outs[idx]))]
      <4>1. idx \in 1..NBuffers
        BY <1>0, <3>1
      <4>2. outputs'[idx].size = prog.outs[idx].nbytes
        BY <1>a, <3>4, <4>1 DEF Holding, SizeTold, TypeOK
      <4>3. outputs[idx].null \/ outputs'[idx].size > outputs[idx].size
        <5>1. CountsMatch(args)
          BY <1>a, <3>1 DEF Matched, Executing
        <5>2. idx \in 1..Len(prog.outs)
          BY <1>0, <3>1, <5>1 DEF CountsMatch, prog
        <5>3. prog.outs[idx] \in Slot
          BY <1>a, <5>2, CallTyped DEF prog, TypeOK
        <5>4. prog.outs[idx].nbytes \in Nat /\ outputs[idx].size \in Nat
          BY <1>a, <4>1, <5>3 DEF Slot, TypeOK, Buffer
        <5> QED BY <3>4, <4>2, <5>4 DEF OutputFits
      <4>4. outputs' = [outputs EXCEPT ![idx] =
                 Holding(outputs[idx], outputs[idx].val, outputs'[idx].size)]
        BY <3>4, <4>2 DEF SizeTold
      <4>5. Contract!Stop
        BY <3>1, <3>2, <4>3, <4>4 DEF Contract!Stop, Contract!Filled, Holding, Phase
      <4> QED BY <4>5 DEF Contract!ContractNext
    <3> QED BY <1>6, <2>2, <3>3, <3>4 DEF CopyOutput
  <2> QED BY <2>1, <2>2
<1>7. CASE Finish
  <2>1. idx = args.nout + 1
    BY <1>a, <1>0, <1>7 DEF Finish, Progress
  <2> QED BY <1>0, <1>7, <2>1 DEF Finish, Return, Contract!ContractNext,
                              Contract!Complete, Phase, DoneOutputs
<1>8. CASE Abort
  BY <1>8 DEF Abort, Contract!ContractNext, Contract!Die, Phase, DoneOutputs
<1>10. CASE Overrun
  <2>1. /\ pc = "output" /\ pc' = "overrun" /\ idx <= args.nout
        /\ UNCHANGED <<args, outputs, idx, result>>
        /\ ~outputs[idx].null
    BY <1>10 DEF Overrun, OutputFits
  <2>2. DoneOutputs + 1 = idx /\ DoneOutputs' = DoneOutputs /\ DoneOutputs < args.nout
    BY <1>0, <2>1 DEF DoneOutputs
  <2>3. outputs[idx].size > outputs[idx].cap
    <3>1. idx \in 1..NBuffers /\ CountsMatch(args) /\ args.nout \in Nat
      BY <1>a, <1>0, <2>1 DEF Matched, Executing
    <3>2. idx \in 1..Len(prog.outs)
      BY <1>0, <2>1, <3>1 DEF CountsMatch, prog
    <3>3. prog.outs[idx] \in Slot
      BY <1>a, <3>2, CallTyped DEF prog, TypeOK
    <3>4. prog.outs[idx].nbytes \in Nat /\ outputs[idx].size \in Nat /\ outputs[idx].cap \in Nat
      BY <1>a, <3>1, <3>3 DEF Slot, TypeOK, Buffer
    <3> QED BY <1>10, <3>4 DEF Overrun, OutputFits
  <2>4. Contract!Spill
    BY <2>1, <2>2, <2>3 DEF Contract!Spill, Phase
  <2> QED BY <2>4 DEF Contract!ContractNext
<1>9. CASE Spin \/ UNCHANGED vars
  BY <1>9 DEF Spin, vars, Contract!cvars, Phase, DoneOutputs
<1> QED BY <1>1, <1>2, <1>3, <1>4, <1>5, <1>6, <1>7, <1>8, <1>9, <1>10
        DEF Next, CallerStep, RunStep, Contract!ContractNext

\* The adapter and its caller implement the contract, for every constant.
THEOREM Refinement == Spec => ImplementsContract
<1>1. Init => Contract!ContractInit
  BY ContractInitMaps
<1>2. IInv /\ [Next]_vars => [Contract!ContractNext]_(Contract!cvars)
  BY ContractStepMaps
<1> QED BY <1>1, <1>2, InvariantHolds, PTL
        DEF Spec, ImplementsContract, Contract!Contract
----------------------------------------------------------------------------
(* What a profiled call reports: its cycles. *)

\* Division with remainder is unique.
LEMMA UniqueRemainder ==
  ASSUME NEW m \in Nat \ {0}, NEW a \in Int, NEW k \in Int, NEW r \in 0..(m - 1),
         a = m * k + r
  PROVE  a % m = r
<1> DEFINE q == a \div m
           d == a % m
<1>1. d \in 0..(m - 1) /\ q \in Int /\ a = m * q + d
  OBVIOUS
<1> HIDE DEF q, d
<1>2. k = q
  <2>1. m * k \in Int /\ m * q \in Int /\ m * k - m * q = d - r
    BY <1>1
  <2>2. CASE k > q
    <3>1. PICK e \in Nat : k = q + 1 + e
      BY <1>1, <2>2
    <3>2. m * k = m * q + m + m * e /\ m * e >= 0
      BY <1>1, <3>1
    <3> QED
      BY <1>1, <2>1, <3>2
  <2>3. CASE k < q
    <3>1. PICK e \in Nat : q = k + 1 + e
      BY <1>1, <2>3
    <3>2. m * q = m * k + m + m * e /\ m * e >= 0
      BY <1>1, <3>1
    <3> QED
      BY <1>1, <2>1, <3>2
  <2> QED
    BY <1>1, <2>2, <2>3
<1> QED
  BY <1>1, <1>2 DEF d

\* The counter has gone round some number of times since execution started.
Turns(c, s, e) == \E k \in Int : s + e = c + CycleMod * k

LEMMA TurnsAdvance ==
  ASSUME NEW c \in Int, NEW s \in Int, NEW e \in Int, NEW t \in Nat, Turns(c, s, e)
  PROVE  Turns((c + t) % CycleMod, s, e + t)
<1> DEFINE r == (c + t) % CycleMod
           d == (c + t) \div CycleMod
<1>1. r \in Int /\ d \in Int /\ c + t = CycleMod * d + r
  OBVIOUS
<1>2. PICK k \in Int : s + e = c + CycleMod * k
  BY DEF Turns
<1> HIDE DEF r, d
<1>3. s + (e + t) = r + CycleMod * (k + d)
  <2>1. CycleMod * (k + d) = CycleMod * k + CycleMod * d
    BY <1>1, <1>2
  <2> QED
    BY <1>1, <1>2, <2>1
<1>4. Turns(r, s, e + t)
  <2>1. k + d \in Int
    BY <1>1, <1>2
  <2> QED
    BY <2>1, <1>3, Zenon DEF Turns
<1> QED
  BY <1>4 DEF r

LEMMA TurnsMeasure ==
  ASSUME NEW c \in Int, NEW s \in Int, NEW e \in Nat, e < CycleMod, Turns(c, s, e)
  PROVE  (c - s) % CycleMod = e
<1>1. PICK k \in Int : s + e = c + CycleMod * k
  BY DEF Turns
<1>2. c - s = CycleMod * (-k) + e
  <2>1. CycleMod * (-k) = -(CycleMod * k)
    BY <1>1
  <2> QED
    BY <1>1, <2>1
<1> QED
  BY <1>2, UniqueRemainder

\* The counter while a call runs, and nothing reported before it returns.
Measured ==
  /\ pc \in Running \cup {"output"} => Turns(cycles, start, elapsed)
  /\ pc \in Waiting \cup {"input"} => elapsed = 0
  /\ pc # "idle" => result.stage = "none"
  /\ CyclesExact

\* A call that returns now reports the cycles it took.
LEMMA MeasuredReturn ==
  ASSUME TypeOK, Measured, pc \in Running \cup {"output"}, UNCHANGED elapsed,
         NEW s, NEW e, NEW i, NEW o, NEW p, Return(s, e, i, o, p, ExecutionCycles)
  PROVE  Measured'
<1>1. Turns(cycles, start, elapsed) /\ cycles \in Int /\ start \in Int /\ elapsed \in Nat
  BY DEF Measured, TypeOK
<1>2. elapsed < CycleMod => ExecutionCycles = elapsed
  BY <1>1, TurnsMeasure DEF ExecutionCycles
<1>3. pc' = "idle" /\ result'.cycles = ExecutionCycles
  BY DEF Return
<1>4. CyclesExact'
  BY <1>2, <1>3 DEF CyclesExact
<1> QED
  BY <1>3, <1>4 DEF Measured, Running, Waiting

LEMMA MeasuredStep == TypeOK /\ Measured /\ [Next]_vars => Measured'
<1> SUFFICES ASSUME TypeOK, Measured, [Next]_vars
             PROVE  Measured'
  OBVIOUS
<1>1. cycles \in Int /\ start \in Int /\ elapsed \in Nat
  BY DEF TypeOK
<1>2. CASE CallerStep
  <2>1. ASSUME NEW c \in Calls, Enter(c)
        PROVE  Measured'
    BY <2>1 DEF Enter, Measured, Running, Waiting, CyclesExact, NoResult
  <2>2. ASSUME NEW i \in 1..NBuffers, Grow(i) \/ Restore(i)
        PROVE  Measured'
    BY <2>2 DEF Grow, Restore, Measured, Running, Waiting, CyclesExact
  <2> QED
    BY <1>2, <2>1, <2>2 DEF CallerStep
<1>3. CASE CheckArguments \/ LoadProgram \/ PlanMemory \/ LoadMethod \/ CopyInput
  BY <1>3 DEF CheckArguments, LoadProgram, PlanMemory, LoadMethod, CopyInput, Return,
              Measured, Running, Waiting, CyclesExact
<1>4. CASE StartExecute
  <2>1. \A t \in Int : t + 0 = t + CycleMod * 0
    OBVIOUS
  <2>2. pc = "input" /\ pc' = "execute" /\ elapsed' = 0 /\ UNCHANGED result
        /\ \E t \in Int : cycles' = t /\ start' = t
    BY <1>4 DEF StartExecute, Measured, Waiting
  <2>3. Turns(cycles', start', elapsed')
    BY <2>1, <2>2 DEF Turns
  <2> QED
    BY <2>2, <2>3 DEF Measured, Running, Waiting, CyclesExact, Turns
<1>5. CASE NextChain \/ OpenInstruction \/ OpenWrapper \/ CloseScope \/ ExecuteOk
  BY <1>5 DEF NextChain, OpenInstruction, OpenWrapper, CloseScope, ExecuteOk,
              Measured, Running, Waiting, CyclesExact, Turns
<1>6. CASE RunBody
  <2>1. PICK t \in Ticks : cycles' = (cycles + t) % CycleMod /\ elapsed' = elapsed + t
    BY <1>6 DEF RunBody, Spend
  <2>2. /\ pc = "body" /\ pc' = "unwind" /\ UNCHANGED <<start, result>>
        /\ Turns(cycles, start, elapsed) /\ result.stage = "none"
    BY <1>6 DEF RunBody, Measured, Running
  <2>3. Turns(cycles', start', elapsed')
    <3>1. t \in Nat /\ cycles \in Int /\ start \in Int /\ elapsed \in Int
      BY <1>1
    <3>2. Turns((cycles + t) % CycleMod, start, elapsed + t)
      BY <2>2, <3>1, TurnsAdvance, Zenon
    <3> QED
      BY <2>1, <2>2, <3>2
  <2>4. Turns(cycles, start, elapsed)'
    BY <2>3 DEF Turns
  <2> QED
    BY <2>2, <2>4 DEF Measured, Running, Waiting, CyclesExact
<1>7. CASE EndInstruction
  <2>1. pc = "unwind" /\ UNCHANGED <<cycles, start, elapsed>>
    BY <1>7 DEF EndInstruction
  <2>2. CASE kerror = "Ok"
    BY <1>7, <2>1, <2>2 DEF EndInstruction, Measured, Running, Waiting, CyclesExact, Turns
  <2>3. CASE kerror # "Ok"
    BY <1>7, <2>1, <2>3, MeasuredReturn DEF EndInstruction, Running
  <2> QED
    BY <2>2, <2>3
<1>8. CASE CopyOutput
  BY <1>8 DEF CopyOutput, Return, Measured, Running, Waiting, CyclesExact, Turns
<1>9. CASE Finish
  BY <1>9, MeasuredReturn DEF Finish
<1>10. CASE Overrun \/ Abort \/ Spin \/ UNCHANGED vars
  BY <1>10 DEF Overrun, Abort, Spin, vars, Measured, Running, Waiting, CyclesExact, Turns
<1> QED
  BY <1>2, <1>3, <1>4, <1>5, <1>6, <1>7, <1>8, <1>9, <1>10 DEF Next, RunStep

\* The cycles a call reports are those execution took, whatever the width of the
\* counter and wherever it stood, unless it went round more than once (the
\* unsigned subtraction of line 386).
THEOREM CyclesCorrect == Spec => []CyclesExact
<1>1. Init => Measured
  BY DEF Init, Measured, Running, Waiting, CyclesExact, NoResult
<1>2. Measured => CyclesExact
  BY DEF Measured
<1> QED
  BY <1>1, <1>2, TypeCorrect, MeasuredStep, PTL DEF Spec
-----------------------------------------------------------------------------
(* Callbacks come in pairs. *)

Alternates(tr) ==
  \A k \in 1..Len(tr) :
    IF k % 2 = 1 THEN tr[k].ev = "begin"
    ELSE tr[k].ev = "end" /\ tr[k].handle = tr[k - 1].handle

LEMMA AlternatesBegin ==
  ASSUME NEW S, NEW tr \in Seq(S), NEW b \in S, Alternates(tr), Len(tr) % 2 = 0,
         b.ev = "begin"
  PROVE  /\ Alternates(Append(tr, b)) /\ Len(Append(tr, b)) % 2 = 1
         /\ Append(tr, b)[Len(Append(tr, b))] = b
<1> DEFINE n == Len(tr)
           new == Append(tr, b)
<1>1. n \in Nat /\ Len(new) = n + 1 /\ new[n + 1] = b
      /\ \A k \in 1..n : new[k] = tr[k]
  OBVIOUS
<1>2. (n + 1) % 2 = 1
  BY <1>1
<1>3. ASSUME NEW k \in 1..(n + 1)
      PROVE  IF k % 2 = 1 THEN new[k].ev = "begin"
             ELSE new[k].ev = "end" /\ new[k].handle = new[k - 1].handle
  <2> HIDE DEF new
  <2>1. CASE k = n + 1
    BY <1>1, <1>2, <2>1
  <2>2. CASE k \in 1..n
    <3>1. new[k] = tr[k] /\ (k % 2 # 1 => k - 1 \in 1..n)
      BY <1>1, <2>2
    <3> QED
      BY <1>1, <2>2, <3>1 DEF Alternates
  <2> QED
    BY <1>1, <2>1, <2>2
<1> QED
  BY <1>1, <1>2, <1>3 DEF Alternates

LEMMA AlternatesEnd ==
  ASSUME NEW S, NEW tr \in Seq(S), NEW e \in S, Alternates(tr), Len(tr) % 2 = 1,
         e.ev = "end", e.handle = tr[Len(tr)].handle
  PROVE  Alternates(Append(tr, e)) /\ Len(Append(tr, e)) % 2 = 0
<1> DEFINE n == Len(tr)
           new == Append(tr, e)
<1>1. n \in Nat /\ n >= 1 /\ Len(new) = n + 1 /\ new[n + 1] = e
      /\ \A k \in 1..n : new[k] = tr[k]
  OBVIOUS
<1>2. (n + 1) % 2 = 0
  BY <1>1
<1>3. ASSUME NEW k \in 1..(n + 1)
      PROVE  IF k % 2 = 1 THEN new[k].ev = "begin"
             ELSE new[k].ev = "end" /\ new[k].handle = new[k - 1].handle
  <2> HIDE DEF new
  <2>1. CASE k = n + 1
    <3>1. new[k] = e /\ new[k - 1] = tr[n] /\ k % 2 = 0
      BY <1>1, <1>2, <2>1
    <3> QED
      BY <3>1
  <2>2. CASE k \in 1..n
    <3>1. new[k] = tr[k] /\ (k % 2 # 1 => k - 1 \in 1..n)
      BY <1>1, <2>2
    <3> QED
      BY <1>1, <2>2, <3>1 DEF Alternates
  <2> QED
    BY <1>1, <2>1, <2>2
<1> QED
  BY <1>1, <1>2, <1>3 DEF Alternates

\* At most the scope of an instruction and that of its wrapper are open; only the
\* first is ever reported, and the last callback is its begin.
Reported == Len(scopes) >= 1 /\ scopes[1] # -1
Nested ==
  /\ Alternates(trace)
  /\ pc \notin {"wrapper", "body", "unwind", "abort"} => Len(scopes) = 0
  /\ pc = "wrapper" => Len(scopes) = 1
  /\ Len(scopes) <= 2 /\ (Len(scopes) = 2 => scopes[2] = -1)
  /\ Reported => /\ Profiled(args) /\ Len(trace) % 2 = 1
                 /\ trace[Len(trace)].handle = scopes[1]
  /\ ~Reported => Len(trace) % 2 = 0

\* Opening a scope.
LEMMA NestedOpen ==
  ASSUME TypeOK, Nested, NEW kind, StartProfiling(kind), UNCHANGED args,
         \/ Len(scopes) = 0
         \/ Len(scopes) = 1 /\ kind \notin {"kernel", "delegate"}
  PROVE  /\ Alternates(trace') /\ Len(scopes') = Len(scopes) + 1
         /\ Len(scopes') = 2 => scopes'[2] = -1
         /\ Reported' => /\ Profiled(args') /\ Len(trace') % 2 = 1
                         /\ trace'[Len(trace')].handle = scopes'[1]
         /\ ~Reported' => Len(trace') % 2 = 0
<1> DEFINE event(h) == [ev |-> "begin", kind |-> kind, chain |-> chain, instr |-> instr,
                        handle |-> h, name |-> Identity(prog, kind, chain, instr)]
<1>1. scopes \in Seq(Handles \cup {-1}) /\ trace \in Seq(BeginEvent \cup EndEvent)
  BY DEF TypeOK
<1>2. CASE UNCHANGED trace /\ scopes' = Append(scopes, -1)
  <2>1. /\ Len(scopes') = Len(scopes) + 1 /\ scopes'[Len(scopes) + 1] = -1
        /\ Len(scopes) = 1 => scopes'[1] = scopes[1]
    BY <1>1, <1>2
  <2>2. Reported' <=> Reported
    BY <1>1, <2>1 DEF Reported
  <2> QED
    BY <1>1, <1>2, <2>1, <2>2 DEF Nested, Reported
<1>3. CASE ~(UNCHANGED trace /\ scopes' = Append(scopes, -1))
  <2>1. PICK h \in Handles : /\ Profiled(args) /\ kind \in {"kernel", "delegate"}
                             /\ trace' = Append(trace, event(h))
                             /\ scopes' = Append(scopes, h)
    BY <1>3 DEF StartProfiling
  <2>2. Len(scopes) = 0 /\ Len(scopes') = 1 /\ scopes'[1] = h /\ h # -1
    BY <1>1, <2>1
  <2>3. event(h) \in BeginEvent \cup EndEvent
    <3>1. Identity(prog, kind, chain, instr) \in Names \cup {"nullptr"}
      BY IdentityTyped DEF prog, TypeOK
    <3> QED
      BY <2>1, <3>1 DEF BeginEvent, TypeOK
  <2>4. event(h).ev = "begin" /\ event(h).handle = h
    OBVIOUS
  <2> HIDE DEF event
  <2>5. Alternates(trace) /\ Len(trace) % 2 = 0
    BY <2>2 DEF Nested, Reported
  <2>6. /\ Alternates(trace') /\ Len(trace') % 2 = 1
        /\ trace'[Len(trace')] = event(h)
    BY <1>1, <2>1, <2>3, <2>4, <2>5, AlternatesBegin
  <2> QED
    BY <2>1, <2>2, <2>4, <2>6 DEF Reported, Profiled
<1> QED
  BY <1>2, <1>3

LEMMA LastOf ==
  ASSUME NEW S, NEW s \in Seq(S), s # <<>>
  PROVE  /\ Len(s) \in Nat /\ Len(s) >= 1 /\ s[Len(s)] \in S
         /\ Len(SubSeq(s, 1, Len(s) - 1)) = Len(s) - 1
         /\ Len(s) = 2 => SubSeq(s, 1, Len(s) - 1)[1] = s[1]
<1>1. Len(s) \in Nat /\ Len(s) # 0
  OBVIOUS
<1>2. s[Len(s)] \in S
  BY <1>1
<1> DEFINE n == Len(s) - 1
<1>3. Len(SubSeq(s, 1, n)) = n /\ (n = 1 => SubSeq(s, 1, n)[1] = s[1])
  <2>1. n \in Nat /\ \A i \in 1..n : s[i] \in S
    BY <1>1
  <2> HIDE DEF n
  <2>2. /\ Len(SubSeq(s, 1, n)) = IF 1 <= n THEN n - 1 + 1 ELSE 0
        /\ \A i \in 1..(n - 1 + 1) : SubSeq(s, 1, n)[i] = s[1 + i - 1]
    BY <2>1, SubSeqProperties
  <2> QED
    BY <2>1, <2>2
<1>4. Len(s) = 2 => n = 1
  OBVIOUS
<1> QED
  BY <1>1, <1>2, <1>3, <1>4

LEMMA NestedClose == ASSUME TypeOK, Nested, CloseScope
                     PROVE  Nested'
<1> DEFINE n == Len(scopes)
           entry == scopes[n]
           event == [ev |-> "end", handle |-> entry]
<1>1. /\ scopes \in Seq(Handles \cup {-1}) /\ trace \in Seq(BeginEvent \cup EndEvent)
      /\ scopes # <<>> /\ n <= 2 /\ pc = "unwind" /\ pc' = "unwind" /\ args' = args
      /\ EndProfiling(entry) /\ scopes' = SubSeq(scopes, 1, n - 1)
  BY DEF TypeOK, Nested, CloseScope
<1>2. /\ n \in Nat /\ n >= 1 /\ entry \in Handles \cup {-1}
      /\ Len(scopes') = n - 1
      /\ n = 2 => scopes'[1] = scopes[1]
  BY <1>1, LastOf
<1>3. /\ n = 1 \/ n = 2
      /\ n = 2 => entry = -1
      /\ entry = -1 \/ entry >= 0
  <2>1. n <= 2 /\ (n = 2 => entry = -1)
    BY DEF Nested
  <2> HIDE DEF n, entry
  <2> QED
    BY <1>2, <2>1
<1>4. CASE Reported /\ n = 1
  <2>1. Profiled(args) /\ entry # -1 /\ Len(trace) % 2 = 1
        /\ trace[Len(trace)].handle = entry /\ Alternates(trace)
    BY <1>4 DEF Nested, Reported
  <2>2. trace' = Append(trace, event)
    <3>1. entry >= 0
      BY <1>3, <2>1
    <3> QED
      BY <1>1, <2>1, <3>1, Zenon DEF EndProfiling
  <2>3. event \in BeginEvent \cup EndEvent
    BY <1>2, <2>1 DEF EndEvent
  <2>4. event.ev = "end" /\ event.handle = entry
    OBVIOUS
  <2> HIDE DEF event
  <2>5. Alternates(trace') /\ Len(trace') % 2 = 0
    BY <1>1, <2>1, <2>2, <2>3, <2>4, AlternatesEnd
  <2> QED
    BY <1>1, <1>2, <1>3, <1>4, <2>5 DEF Nested, Reported, Alternates
<1>5. CASE ~(Reported /\ n = 1)
  <2>1. entry = -1
    BY <1>3, <1>5 DEF Nested, Reported
  <2>2. UNCHANGED trace
    BY <1>1, <2>1 DEF EndProfiling
  <2>3. Reported' <=> Reported
    BY <1>1, <1>2, <1>3, <1>5 DEF Reported
  <2>4. /\ Len(scopes') <= 2 /\ Len(scopes') # 2
        /\ Reported => n = 2 /\ scopes'[1] = scopes[1]
    BY <1>2, <1>3, <1>5
  <2>5. Reported' => /\ Profiled(args') /\ Len(trace') % 2 = 1
                     /\ trace'[Len(trace')].handle = scopes'[1]
    BY <1>1, <2>2, <2>3, <2>4 DEF Nested, Profiled
  <2>6. Alternates(trace)' /\ (~Reported' => Len(trace') % 2 = 0)
    BY <2>2, <2>3 DEF Nested, Alternates
  <2> QED
    BY <1>1, <2>4, <2>5, <2>6, Zenon DEF Nested
<1> QED
  BY <1>4, <1>5

LEMMA NestedStep == TypeOK /\ Nested /\ [Next]_vars => Nested'
<1> SUFFICES ASSUME TypeOK, Nested, [Next]_vars
             PROVE  Nested'
  OBVIOUS
<1>1. scopes \in Seq(Handles \cup {-1}) /\ Len(scopes) \in Nat
      /\ trace \in Seq(BeginEvent \cup EndEvent)
  BY DEF TypeOK
<1>2. ASSUME UNCHANGED <<args, scopes, trace>>,
             pc' \in {"wrapper", "body", "unwind", "abort"} \/ Len(scopes) = 0,
             pc' = "wrapper" => Len(scopes) = 1
      PROVE  Nested'
  BY <1>2 DEF Nested, Reported, Alternates, Profiled
<1>3. CASE CallerStep
  <2>1. ASSUME NEW c \in Calls, Enter(c)
        PROVE  Nested'
    BY <2>1 DEF Enter, Nested, Reported, Alternates
  <2>2. ASSUME NEW i \in 1..NBuffers, Grow(i) \/ Restore(i)
        PROVE  Nested'
    BY <1>2, <2>2 DEF Grow, Restore, Nested
  <2> QED
    BY <1>3, <2>1, <2>2 DEF CallerStep
<1>4. CASE CheckArguments \/ LoadProgram \/ PlanMemory \/ LoadMethod
  BY <1>2, <1>4 DEF CheckArguments, LoadProgram, PlanMemory, LoadMethod, Return, Nested
<1>5. CASE CopyInput \/ StartExecute \/ NextChain \/ ExecuteOk
  BY <1>2, <1>5 DEF CopyInput, StartExecute, NextChain, ExecuteOk, Return, Nested
<1>6. CASE OpenInstruction
  <2>1. /\ pc = "execute" /\ pc' \in {"wrapper", "body"} /\ UNCHANGED args
        /\ StartProfiling(prog.chains[chain][instr].kind)
    BY <1>6 DEF OpenInstruction
  <2>2. Len(scopes) = 0
    BY <2>1 DEF Nested
  <2> DEFINE kind == prog.chains[chain][instr].kind
  <2> HIDE DEF kind
  <2>3. StartProfiling(kind)
    BY <2>1 DEF kind
  <2>4. /\ Alternates(trace') /\ Len(scopes') = 1
        /\ Reported' => /\ Profiled(args') /\ Len(trace') % 2 = 1
                        /\ trace'[Len(trace')].handle = scopes'[1]
        /\ ~Reported' => Len(trace') % 2 = 0
    BY <2>1, <2>2, <2>3, NestedOpen
  <2>5. Len(scopes') <= 2 /\ Len(scopes') # 2
    BY <2>4
  <2> QED
    BY <2>1, <2>4, <2>5, Zenon DEF Nested, Reported, Alternates, Profiled
<1>7. CASE OpenWrapper
  <2>1. /\ pc = "wrapper" /\ pc' = "body" /\ UNCHANGED args
        /\ StartProfiling("native_call") /\ Len(scopes) = 1
    BY <1>7 DEF OpenWrapper, Nested
  <2>2. /\ Alternates(trace') /\ Len(scopes') = 2 /\ scopes'[2] = -1
        /\ Reported' => /\ Profiled(args') /\ Len(trace') % 2 = 1
                        /\ trace'[Len(trace')].handle = scopes'[1]
        /\ ~Reported' => Len(trace') % 2 = 0
    BY <2>1, NestedOpen
  <2> QED
    BY <2>1, <2>2 DEF Nested, Reported, Alternates, Profiled
<1>8. CASE RunBody \/ Abort \/ Spin \/ UNCHANGED vars
  BY <1>2, <1>8 DEF RunBody, Abort, Spin, vars, Nested
<1>9. CASE CloseScope
  BY <1>9, NestedClose
<1>10. CASE EndInstruction
  BY <1>1, <1>2, <1>10 DEF EndInstruction, Return, Nested
<1>11. CASE CopyOutput \/ Overrun \/ Finish
  BY <1>2, <1>11 DEF CopyOutput, Overrun, Finish, Return, Nested
<1> QED
  BY <1>3, <1>4, <1>5, <1>6, <1>7, <1>8, <1>9, <1>10, <1>11 DEF Next, RunStep

\* At every moment of a call, and however it ends, the callbacks are begin, end,
\* begin, end, each end with the handle of its begin, and none is open on return:
\* an instruction that fails and the wrapper's own scope included.
THEOREM BracketsCorrect == Spec => []BracketsMatch
<1>1. Init => Nested
  BY DEF Init, Nested, Alternates, Reported
<1>2. Nested => BracketsMatch
  BY DEF Nested, Alternates, Reported, BracketsMatch
<1> QED
  BY <1>1, <1>2, TypeCorrect, NestedStep, PTL DEF Spec
----------------------------------------------------------------------------
(* Every call is bracketed once. *)

CallSites(p) == {w \in Nat \X Nat : /\ w[1] \in 1..Len(p.chains)
                                   /\ w[2] \in 1..Len(p.chains[w[1]])
                                   /\ p.chains[w[1]][w[2]].kind # "control"}
Where(e) == <<e.chain, e.instr>>
Begins(tr) == {k \in 1..Len(tr) : tr[k].ev = "begin"}

\* The begin event e names the call it was made for.
NamedIn(p, e) == LET at == p.chains[e.chain][e.instr]
                 IN  /\ e.kind = at.kind
                     /\ e.name = IF at.kind = "kernel" THEN p.operators[at.index]
                                                       ELSE p.delegates[at.index]

\* The begin events of tr are one for each place of S, under its name.
Bracketed(p, tr, S) ==
  /\ \A k \in Begins(tr) : Where(tr[k]) \in S /\ NamedIn(p, tr[k])
  /\ \A w \in S : \E k \in Begins(tr) : Where(tr[k]) = w
  /\ \A k, l \in Begins(tr) : Where(tr[k]) = Where(tr[l]) => k = l

LEMMA BracketedBegin ==
  ASSUME NEW T, NEW tr \in Seq(T), NEW b \in T, NEW p, NEW S, Bracketed(p, tr, S),
         b.ev = "begin", Where(b) \notin S, NamedIn(p, b)
  PROVE  Bracketed(p, Append(tr, b), S \cup {Where(b)})
<1> DEFINE n == Len(tr)
           new == Append(tr, b)
<1>1. n \in Nat /\ Len(new) = n + 1 /\ new[n + 1] = b /\ \A k \in 1..n : new[k] = tr[k]
  OBVIOUS
<1> HIDE DEF new
<1>2. Begins(new) = Begins(tr) \cup {n + 1}
  BY <1>1 DEF Begins
<1>3. \A k \in Begins(tr) : new[k] = tr[k] /\ k # n + 1
  BY <1>1 DEF Begins
<1>4. \A k \in Begins(tr) : Where(new[k]) \in S /\ NamedIn(p, new[k])
  BY <1>3 DEF Bracketed
<1>5. \A w \in S \cup {Where(b)} : \E k \in Begins(new) : Where(new[k]) = w
  BY <1>1, <1>2, <1>3 DEF Bracketed
<1>6. \A k, l \in Begins(new) : Where(new[k]) = Where(new[l]) => k = l
  BY <1>1, <1>2, <1>3, <1>4 DEF Bracketed
<1>7. Bracketed(p, new, S \cup {Where(b)})
  BY <1>1, <1>2, <1>4, <1>5, <1>6 DEF Bracketed
<1> QED BY <1>7 DEF new

LEMMA BracketedEnd ==
  ASSUME NEW T, NEW tr \in Seq(T), NEW e \in T, NEW p, NEW S, Bracketed(p, tr, S),
         e.ev # "begin"
  PROVE  Bracketed(p, Append(tr, e), S)
<1> DEFINE n == Len(tr)
           new == Append(tr, e)
<1>1. n \in Nat /\ Len(new) = n + 1 /\ new[n + 1] = e /\ \A k \in 1..n : new[k] = tr[k]
  OBVIOUS
<1> HIDE DEF new
<1>2. Begins(new) = Begins(tr)
  BY <1>1 DEF Begins
<1>3. \A k \in Begins(tr) : new[k] = tr[k]
  BY <1>1 DEF Begins
<1>4. Bracketed(p, new, S)
  BY <1>2, <1>3 DEF Bracketed
<1> QED BY <1>4 DEF new

\* What execute has gone through, the call it is at included.
Working == pc \in {"wrapper", "body", "unwind"} \/ result.stage = "kExecute"
Reached == {w \in CallSites(prog) : Before(w[1], w[2]) \/ (Working /\ At(w[1], w[2]))}
Executed == \/ pc \in Running \cup {"output", "overrun"}
            \/ pc = "idle" /\ result.stage \in {"kOk", "kOutput", "kExecute"}

\* Throughout execution the begin events are those of the calls gone through;
\* without callbacks, and before execution, there are none.
Logged ==
  /\ pc \notin {"idle", "check"} /\ Profiled(args) => TracerEnabled
  /\ pc # "idle" => result.stage = "none"
  /\ pc \in Waiting \cup {"input"} => chain = 1 /\ instr = 1
  /\ pc \in Running \ {"execute"} =>
       chain \in 1..Len(prog.chains) /\ instr \in 1..Len(prog.chains[chain])
  /\ Executed /\ Profiled(args) => Bracketed(prog, trace, Reached)
  /\ pc # "abort" /\ ~(Executed /\ Profiled(args)) => trace = <<>>

LEMMA LoggedInit == Init => Logged
BY DEF Init, Logged, Executed, Running, Waiting, NoResult

\* A step that touches neither the callbacks nor the place execute is at.
LEMMA LoggedKept ==
  ASSUME Logged, UNCHANGED <<args, trace>>,
         pc' \notin {"idle", "check"} => (pc \notin {"idle", "check"} \/ ~Profiled(args)),
         pc' # "idle" => result'.stage = "none",
         pc' \in Waiting \cup {"input"} => chain' = 1 /\ instr' = 1,
         pc' \in Running \ {"execute"} =>
           chain' \in 1..Len(prog.chains) /\ instr' \in 1..Len(prog.chains[chain']),
         Executed' /\ Profiled(args) => Executed /\ Reached' = Reached,
         pc' # "abort" => pc # "abort" /\ (Executed => Executed')
  PROVE  Logged'
BY DEF Logged, Profiled, prog

LEMMA LoggedOpen == ASSUME TypeOK, Matched, Logged, OpenInstruction PROVE Logged'
<1> DEFINE at == prog.chains[chain][instr]
           here == <<chain, instr>>
<1>1. /\ pc = "execute" /\ pc' \in {"wrapper", "body"} /\ UNCHANGED <<args, chain, instr, result>>
      /\ chain \in 1..Len(prog.chains) /\ instr \in 1..Len(prog.chains[chain])
      /\ StartProfiling(at.kind)
  BY DEF OpenInstruction, TypeOK
<1>2. /\ result.stage = "none" /\ Executed /\ Executed'
      /\ Profiled(args) => TracerEnabled /\ Bracketed(prog, trace, Reached)
      /\ ~Profiled(args) => trace = <<>>
  BY <1>1 DEF Logged, Executed, Running
<1>3. Reached' = Reached \cup (IF at.kind # "control" THEN {here} ELSE {})
  <2>1. ~Working /\ Working' /\ prog' = prog
    BY <1>1, <1>2 DEF Working, prog
  <2>2. \A w \in CallSites(prog) : At(w[1], w[2]) <=> w = here
    BY DEF CallSites, At
  <2>3. here \in CallSites(prog) <=> at.kind # "control"
    BY <1>1 DEF CallSites, TypeOK
  <2>4. \A w \in CallSites(prog) : Before(w[1], w[2])' <=> Before(w[1], w[2])
    BY <1>1 DEF Before
  <2>5. \A w \in CallSites(prog) : At(w[1], w[2])' <=> At(w[1], w[2])
    BY <1>1 DEF At
  <2>6. Reached' = {w \in CallSites(prog) : Before(w[1], w[2]) \/ At(w[1], w[2])}
    BY <2>1, <2>4, <2>5 DEF Reached
  <2>7. Reached = {w \in CallSites(prog) : Before(w[1], w[2])}
    BY <2>1 DEF Reached
  <2> HIDE DEF here, at
  <2> QED BY <2>2, <2>3, <2>6, <2>7
<1>4. here \notin Reached
  <2>1. ~Working /\ chain \in Nat /\ instr \in Nat
    BY <1>1, <1>2 DEF Working, TypeOK
  <2> QED BY <2>1 DEF Reached, Before
<1>5. CASE ~Profiled(args) \/ at.kind = "control"
  <2>1. UNCHANGED trace
    BY <1>1, <1>5 DEF StartProfiling
  <2>2. Profiled(args) => Reached' = Reached
    BY <1>3, <1>5
  <2> QED BY <1>1, <1>2, <2>1, <2>2 DEF Logged, Executed, Running, Waiting, Profiled, prog
<1>6. CASE Profiled(args) /\ at.kind # "control"
  <2> DEFINE event(h) == [ev |-> "begin", kind |-> at.kind, chain |-> chain, instr |-> instr,
                          handle |-> h, name |-> Identity(prog, at.kind, chain, instr)]
  <2>1. args \in Calls /\ prog.linked
    BY <1>1 DEF TypeOK, Matched, Executing, MethodLoads, prog
  <2>2. at \in Instr
    <3>1. prog.chains \in Seq(Seq(Instr))
      BY <2>1, PlanTyped DEF prog
    <3>2. prog.chains[chain] \in Seq(Instr)
      BY <1>1, <3>1
    <3> QED BY <1>1, <3>2
  <2>3. at.kind \in {"kernel", "delegate"}
    BY <1>6, <2>2 DEF Instr
  <2>4. PICK h \in Handles : trace' = Append(trace, event(h))
    BY <1>1, <1>2, <1>6, <2>3 DEF StartProfiling
  <2>5. /\ at.kind = "kernel" => at.index \in 1..Len(prog.operators)
        /\ at.kind = "delegate" => at.index \in 1..Len(prog.delegates)
    BY <1>1, <2>1, PlanAssumption DEF prog
  <2>6. Identity(prog, at.kind, chain, instr) =
          IF at.kind = "kernel" THEN prog.operators[at.index] ELSE prog.delegates[at.index]
    BY <1>1, <2>3, <2>5 DEF Identity
  <2>7. /\ event(h).ev = "begin" /\ Where(event(h)) = here /\ NamedIn(prog, event(h))
    BY <2>6 DEF Where, NamedIn
  <2>8. event(h) \in BeginEvent \cup EndEvent
    <3>1. Identity(prog, at.kind, chain, instr) \in Names \cup {"nullptr"}
      BY <2>1, IdentityTyped DEF prog, TypeOK
    <3> QED BY <2>3, <2>4, <3>1 DEF BeginEvent, TypeOK
  <2>9. trace \in Seq(BeginEvent \cup EndEvent)
    BY DEF TypeOK
  <2>10. Bracketed(prog, trace, Reached)
    BY <1>2, <1>6
  <2> HIDE DEF event, here
  <2>11. Bracketed(prog, trace', Reached \cup {here})
    BY <1>4, <2>4, <2>7, <2>8, <2>9, <2>10, BracketedBegin
  <2>12. Bracketed(prog, trace, Reached)'
    BY <1>1, <1>3, <1>6, <2>11 DEF prog
  <2> QED BY <1>1, <1>2, <1>6, <2>12 DEF Logged, Executed, Running, Waiting, Profiled, prog
<1> QED BY <1>5, <1>6

LEMMA LoggedClose == ASSUME TypeOK, Nested, Logged, CloseScope PROVE Logged'
<1> DEFINE entry == scopes[Len(scopes)]
           event == [ev |-> "end", handle |-> entry]
<1>1. /\ pc = "unwind" /\ UNCHANGED <<pc, args, chain, instr, result>> /\ EndProfiling(entry)
      /\ scopes \in Seq(Handles \cup {-1}) /\ scopes # <<>>
  BY DEF CloseScope, TypeOK
<1>2. /\ Executed /\ Executed' /\ UNCHANGED <<prog, Reached>>
  BY <1>1 DEF Executed, Running, Reached, Working, Before, At, prog
<1>3. CASE UNCHANGED trace
  BY <1>1, <1>2, <1>3 DEF Logged, Running, Waiting, Profiled
<1>4. CASE trace' = Append(trace, event) /\ Profiled(args) /\ entry >= 0
  <2>1. entry \in Handles \cup {-1}
    BY <1>1, LastOf
  <2>2. event \in BeginEvent \cup EndEvent
    <3> HIDE DEF entry
    <3>1. entry \in Nat
      BY <1>4, <2>1
    <3> QED BY <3>1 DEF EndEvent
  <2>3. event.ev # "begin"
    OBVIOUS
  <2>4. trace \in Seq(BeginEvent \cup EndEvent) /\ Bracketed(prog, trace, Reached)
    BY <1>2, <1>4 DEF TypeOK, Logged
  <2> HIDE DEF event
  <2>5. Bracketed(prog, Append(trace, event), Reached)
    BY <2>2, <2>3, <2>4, BracketedEnd
  <2>6. Bracketed(prog, trace, Reached)'
    BY <1>2, <1>4, <2>5
  <2> QED BY <1>1, <1>2, <1>4, <2>6 DEF Logged, Running, Waiting, Profiled
<1> QED BY <1>1, <1>3, <1>4 DEF EndProfiling

LEMMA LoggedStep == TypeOK /\ Matched /\ Nested /\ Logged /\ [Next]_vars => Logged'
<1> SUFFICES ASSUME TypeOK, Matched, Nested, Logged, [Next]_vars
             PROVE  Logged'
  OBVIOUS
<1> USE DEF Waiting, Running
<1>1. chain \in Nat \ {0} /\ instr \in Nat \ {0} /\ Len(scopes) \in Nat
  BY DEF TypeOK
<1>2. CASE CallerStep
  <2>1. ASSUME NEW c \in Calls, Enter(c)
        PROVE  Logged'
    BY <2>1 DEF Enter, Logged, Executed, NoResult
  <2>2. ASSUME NEW i \in 1..NBuffers, Grow(i) \/ Restore(i)
        PROVE  Logged'
    <3>1. UNCHANGED <<pc, args, chain, instr, result, trace, prog, Reached, Executed>>
          /\ pc = "idle"
      BY <2>2 DEF Grow, Restore, Executed, Reached, Working, Before, At, prog
    <3> QED BY <3>1, LoggedKept
  <2> QED BY <1>2, <2>1, <2>2 DEF CallerStep
<1>3. CASE CheckArguments
  BY <1>3 DEF CheckArguments, Unavailable, Return, Logged, Executed, Profiled
<1>4. CASE LoadProgram \/ PlanMemory \/ LoadMethod \/ CopyInput
  BY <1>4 DEF LoadProgram, PlanMemory, LoadMethod, CopyInput, Return, Logged, Executed,
              Profiled
<1>5. CASE StartExecute
  <2>1. /\ pc = "input" /\ pc' = "execute" /\ UNCHANGED <<args, chain, instr, trace, result>>
        /\ trace = <<>> /\ chain = 1 /\ instr = 1 /\ result.stage = "none"
    BY <1>5 DEF StartExecute, Logged, Executed
  <2>2. Reached' = {}
    BY <2>1 DEF Reached, Working, Before, CallSites
  <2>3. Bracketed(prog, trace, Reached)'
    BY <2>1, <2>2 DEF Bracketed, Begins
  <2> QED BY <2>1, <2>3 DEF Logged, Executed, Profiled
<1>6. CASE NextChain
  <2>1. /\ pc = "execute" /\ UNCHANGED <<pc, args, trace, result>>
        /\ chain <= Len(prog.chains) /\ instr > Len(prog.chains[chain])
        /\ chain' = chain + 1 /\ instr' = 1 /\ result.stage = "none"
    BY <1>6 DEF NextChain, Logged
  <2>2. prog' = prog /\ ~Working /\ ~Working'
    BY <2>1 DEF Working, prog
  <2>3. \A w \in CallSites(prog) : Before(w[1], w[2])' <=> Before(w[1], w[2])
    <3> SUFFICES ASSUME NEW w \in CallSites(prog)
                 PROVE  Before(w[1], w[2])' <=> Before(w[1], w[2])
      OBVIOUS
    <3>1. w[1] \in Nat /\ w[2] \in Nat /\ w[2] >= 1 /\ w[2] <= Len(prog.chains[w[1]])
      BY DEF CallSites
    <3>2. Before(w[1], w[2])' <=> w[1] < chain + 1 \/ (w[1] = chain + 1 /\ w[2] < 1)
      BY <2>1 DEF Before
    <3>3. Before(w[1], w[2])' <=> w[1] < chain \/ w[1] = chain
      BY <1>1, <3>1, <3>2
    <3>4. Len(prog.chains[chain]) \in Int
      <4>1. prog.chains \in Seq(Seq(Instr))
        BY PlanTyped DEF TypeOK, prog
      <4>2. chain \in 1..Len(prog.chains)
        BY <1>1, <2>1
      <4>3. prog.chains[chain] \in Seq(Instr)
        BY <4>1, <4>2
      <4> QED BY <4>3
    <3>5. w[1] = chain => w[2] < instr
      BY <1>1, <2>1, <3>1, <3>4
    <3> QED BY <3>3, <3>5 DEF Before
  <2>4. Reached' = Reached
    BY <2>2, <2>3 DEF Reached
  <2> QED BY <2>1, <2>4, LoggedKept DEF Executed
<1>7. CASE OpenInstruction
  BY <1>7, LoggedOpen
<1>8. CASE OpenWrapper
  <2>1. /\ pc = "wrapper" /\ pc' = "body" /\ UNCHANGED <<args, chain, instr, trace, result>>
    BY <1>8 DEF OpenWrapper, StartProfiling
  <2>2. UNCHANGED Reached
    BY <2>1 DEF Reached, Working, Before, At, prog
  <2> QED BY <2>1, <2>2, LoggedKept DEF Executed, Logged
<1>9. CASE RunBody
  <2>1. /\ pc = "body" /\ pc' = "unwind" /\ UNCHANGED <<args, chain, instr, trace, result>>
    BY <1>9 DEF RunBody
  <2>2. UNCHANGED Reached
    BY <2>1 DEF Reached, Working, Before, At, prog
  <2> QED BY <2>1, <2>2, LoggedKept DEF Executed, Logged
<1>10. CASE CloseScope
  BY <1>10, LoggedClose
<1>11. CASE EndInstruction
  <2>1. /\ pc = "unwind" /\ UNCHANGED <<args, chain, trace>> /\ result.stage = "none"
        /\ \/ pc' = "execute" /\ instr' = instr + 1 /\ UNCHANGED result
           \/ pc' = "idle" /\ result'.stage = "kExecute" /\ UNCHANGED instr
    BY <1>11 DEF EndInstruction, Return, Logged
  <2>2. UNCHANGED Reached
    <3>1. \A w \in CallSites(prog) : w[1] \in Nat /\ w[2] \in Nat
      BY DEF CallSites
    <3>2. \A w \in CallSites(prog) :
            (Before(w[1], w[2]) \/ (Working /\ At(w[1], w[2])))'
              <=> Before(w[1], w[2]) \/ (Working /\ At(w[1], w[2]))
      BY <1>1, <2>1, <3>1 DEF Before, At, Working
    <3>3. UNCHANGED prog
      BY <2>1 DEF prog
    <3> QED BY <3>2, <3>3 DEF Reached
  <2> QED BY <2>1, <2>2, LoggedKept DEF Executed
<1>12. CASE ExecuteOk \/ CopyOutput \/ Overrun \/ Finish
  <2>1. /\ pc \in {"execute", "output"} /\ UNCHANGED <<args, chain, instr, trace>>
        /\ result.stage = "none"
        /\ \/ pc' \in {"output", "overrun"} /\ UNCHANGED result
           \/ pc' = "idle" /\ result'.stage \in {"kOk", "kOutput"}
    <3>1. CASE ExecuteOk
      BY <3>1 DEF ExecuteOk, Logged
    <3>2. CASE CopyOutput
      BY <3>2 DEF CopyOutput, Return, Logged
    <3>3. CASE Finish
      BY <3>3 DEF Finish, Return, Logged
    <3>4. CASE Overrun
      BY <3>4 DEF Overrun, Logged
    <3> QED BY <1>12, <3>1, <3>2, <3>3, <3>4
  <2>2. UNCHANGED Reached
    BY <2>1 DEF Reached, Working, Before, At, prog
  <2> QED BY <2>1, <2>2, LoggedKept DEF Executed
<1>13. CASE Abort
  BY <1>13, LoggedKept DEF Abort, Executed, Logged
<1>14. CASE Spin \/ UNCHANGED vars
  <2>1. UNCHANGED <<pc, args, chain, instr, result, trace, prog, Reached, Executed>>
    BY <1>14 DEF Spin, vars, Executed, Reached, Working, Before, At, prog
  <2> QED BY <2>1 DEF Logged, Profiled
<1> QED BY <1>2, <1>3, <1>4, <1>5, <1>6, <1>7, <1>8, <1>9, <1>10, <1>11, <1>12, <1>13,
           <1>14 DEF Next, RunStep

\* For every program and wherever execute stops: each kernel and delegate call
\* it went through has exactly one begin callback, under its own chain,
\* instruction and name, and no other call of the function makes a callback.
THEOREM NamesCorrect == Spec => []EveryCallBracketedOnce
<1>1. Logged => EveryCallBracketedOnce
  <2> SUFFICES ASSUME Logged, pc = "idle" PROVE EveryCallBracketedOnce
    BY DEF EveryCallBracketedOnce
  <2>1. CASE ~(Profiled(args) /\ result.stage \in {"kOk", "kOutput", "kExecute"})
    <3>1. trace = <<>>
      BY <2>1 DEF Logged, Executed, Running
    <3> QED BY <2>1, <3>1 DEF EveryCallBracketedOnce
  <2>2. CASE Profiled(args) /\ result.stage \in {"kOk", "kOutput", "kExecute"}
    <3>1. Bracketed(prog, trace, Reached)
      BY <2>2 DEF Logged, Executed
    <3>2. Reached = CallsReached
      <4>1. \A c, i : <<c, i>> \in Reached <=>
              /\ c \in 1..Len(prog.chains) /\ i \in 1..Len(prog.chains[c])
              /\ prog.chains[c][i].kind # "control"
              /\ Before(c, i) \/ (result.stage = "kExecute" /\ At(c, i))
        BY DEF Reached, CallSites, Working
      <4>2. \A w \in Reached : w = <<w[1], w[2]>>
        BY DEF Reached, CallSites
      <4> DEFINE Here(c) == {j \in 1..Len(prog.chains[c]) :
                               /\ prog.chains[c][j].kind # "control"
                               /\ Before(c, j) \/ (result.stage = "kExecute" /\ At(c, j))}
      <4>a. CallsReached = UNION {{<<c, i>> : i \in Here(c)} : c \in 1..Len(prog.chains)}
        BY DEF CallsReached
      <4>b. \A c, i : <<c, i>> \in Reached <=> c \in 1..Len(prog.chains) /\ i \in Here(c)
        BY <4>1
      <4> HIDE DEF Here
      <4>3. \A c, i : <<c, i>> \in CallsReached <=> <<c, i>> \in Reached
        <5>1. \A c, i : <<c, i>> \in CallsReached <=> c \in 1..Len(prog.chains) /\ i \in Here(c)
          BY <4>a
        <5> QED BY <4>b, <5>1
      <4>4. \A w \in CallsReached : w = <<w[1], w[2]>>
        BY DEF CallsReached
      <4> QED BY <4>2, <4>3, <4>4
    <3>3. {<<trace[k].chain, trace[k].instr>> : k \in Begins(trace)} = Reached
      BY <3>1 DEF Bracketed, Where
    <3>4. \A k, l \in Begins(trace) :
            <<trace[k].chain, trace[k].instr>> = <<trace[l].chain, trace[l].instr>> => k = l
      BY <3>1 DEF Bracketed, Where
    <3>5. \A k \in Begins(trace) : NamedIn(prog, trace[k])
      BY <3>1 DEF Bracketed
    <3> QED BY <2>2, <3>2, <3>3, <3>4, <3>5 DEF EveryCallBracketedOnce, Begins, NamedIn
  <2> QED BY <2>1, <2>2
<1>2. Init => Nested
  BY DEF Init, Nested, Alternates, Reported
<1> QED BY <1>1, <1>2, LoggedInit, LoggedStep, NestedStep, TypeCorrect, PTL DEF Spec
=============================================================================
