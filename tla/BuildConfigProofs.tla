-------------------------- MODULE BuildConfigProofs --------------------------
(***************************************************************************)
(* Proofs about BuildConfig, for every set of knobs, every order in which   *)
(* an application adds its modules, any board options and any number of     *)
(* configure runs of one build directory.                                   *)
(***************************************************************************)
EXTENDS BuildConfig, RecursionLemmas, SequenceTheorems

-----------------------------------------------------------------------------
(* Which source the provider's target was made from.                        *)

USE KnobsAssumption

Created == {"flags", "finish", "nsops", "adapter"} \cup Configured
Checked == {"order", "options", "subtree"} \cup Created

(* A cmsis-nn target that is there is the application's own, or             *)
(* arm-cmsis-nn's, which names it too; after the adapter ran, the selected  *)
(* provider's or one it was right to leave.                                 *)
Selected == \/ targets["cmsis-nn"] = knobs.provider
            \/ /\ targets["cmsis-nn"] = "foreign"
               /\ ~(knobs.nsxApp /\ knobs.provider = "ns")
Sourced ==
  /\ knobs \in Knob /\ DOMAIN targets = ProviderTargets
  /\ pc \in {"app", "knobs", "provider", "fatal"} \cup Checked
  /\ pc \in Checked => knobs.provider \in {"arm", "ns"}
  /\ pc \in {"options", "subtree"} => OrderAccepted
  /\ targets["nsx::arm_cmsis_nn"] \in {"none", targets["cmsis-nn"]}
  /\ targets["nsx::cmsis_nn"] \in {"none", "ns"}
  /\ pc \notin Created \cup {"fatal"} =>
       /\ targets["cmsis-nn"] \in {"none", "arm", "foreign"}
       /\ targets["cmsis-nn"] = "arm" => targets["nsx::arm_cmsis_nn"] = "arm"
  /\ pc \in Created => Selected

LEMMA SourcedInit == Init => Sourced
BY DEF Init, Sourced, ProviderTargets, Checked, Created, Configured

LEMMA SourcedAdd == ASSUME Sourced, AddModule PROVE Sourced'
<1> USE DEF Sourced, ProviderTargets, Exists, Checked, Created, Configured
<1>1. pc = "app" /\ UNCHANGED <<pc, knobs>>
  BY DEF AddModule
<1>2. CASE AddArm
  BY <1>1, <1>2 DEF AddArm
<1>3. CASE AddNs
  BY <1>1, <1>3 DEF AddNs
<1>4. CASE AddForeign
  BY <1>1, <1>4 DEF AddForeign
<1> QED
  BY <1>2, <1>3, <1>4 DEF AddModule

LEMMA SourcedSubtree == ASSUME Sourced, AddSubtree PROVE Sourced'
<1> USE DEF Sourced, ProviderTargets, Exists, Checked, Created, Configured
<1>1. pc = "subtree" /\ UNCHANGED knobs /\ OrderAccepted
  BY DEF AddSubtree
<1>2. CASE AdapterReturns
  <2>1. pc' = "flags" /\ UNCHANGED targets
    BY <1>2 DEF AddSubtree
  <2>2. Selected'
    BY <1>1, <1>2, <2>1 DEF AdapterReturns, OrderAccepted, Selected
  <2> QED
    BY <1>1, <2>1, <2>2
<1>3. CASE ~AdapterReturns
  <2>1. pc' = "flags" /\ targets' = [targets EXCEPT !["cmsis-nn"] = knobs.provider]
        /\ targets["cmsis-nn"] = "none"
    BY <1>3 DEF AddSubtree, AdapterReturns
  <2> QED
    BY <1>1, <2>1 DEF Selected
<1> QED
  BY <1>2, <1>3

LEMMA SourcedStep == Sourced /\ [Next]_vars => Sourced'
<1> SUFFICES ASSUME Sourced, [Next]_vars
             PROVE  Sourced'
  OBVIOUS
<1> USE DEF Sourced, ProviderTargets, Checked, Created, Configured
<1>1. CASE AddModule
  BY <1>1, SourcedAdd
<1>2. CASE AddExecutorch
  BY <1>2 DEF AddExecutorch
<1>3. CASE Reconfigure
  BY <1>3 DEF Reconfigure
<1>4. CASE CheckKnobs
  BY <1>4 DEF CheckKnobs, Fatal
<1>5. CASE CheckProvider
  <2>1. knobs.provider \in {"arm", "ns", "other"}
    BY DEF Knob
  <2> QED
    BY <1>5, <2>1 DEF CheckProvider, Fatal
<1>6. CASE CheckOrder
  BY <1>6 DEF CheckOrder, Fatal, OrderAccepted, Exists
<1>7. CASE SetOptions
  BY <1>7 DEF SetOptions, Fatal, OrderAccepted, Exists
<1>8. CASE AddSubtree
  BY <1>8, SourcedSubtree
<1>9. CASE ApplyFlags
  BY <1>9 DEF ApplyFlags, Selected
<1>10. CASE FinishArm
  <2>1. pc = "finish" /\ pc' = "nsops" /\ UNCHANGED knobs /\ Selected
    BY <1>10 DEF FinishArm
  <2>2. targets["cmsis-nn"] # "none"
    BY <2>1 DEF Selected
  <2>3. CASE UNCHANGED targets
    BY <2>1, <2>3 DEF Selected
  <2>4. CASE AddArm
    BY <2>1, <2>2, <2>4 DEF AddArm, Exists, Selected
  <2> QED
    BY <1>10, <2>3, <2>4 DEF FinishArm
<1>11. CASE AddNsOps
  BY <1>11 DEF AddNsOps, Fatal, Selected
<1>12. CASE AddAdapter
  BY <1>12 DEF AddAdapter, Fatal, Selected
<1>13. CASE Boot
  BY <1>13 DEF Boot, Selected
<1>14. CASE Register
  BY <1>14 DEF Register, Selected
<1>15. CASE UNCHANGED vars
  BY <1>15 DEF vars, OrderAccepted, Exists, Selected
<1> QED
  BY <1>1, <1>2, <1>3, <1>4, <1>5, <1>6, <1>7, <1>8, <1>9, <1>10, <1>11, <1>12, <1>13,
     <1>14, <1>15 DEF Next

(* Whatever the application added before and in which order, an accepted    *)
(* build has one cmsis-nn target, made from the provider it selects or, but *)
(* not in an NSX application that selects ns, the application's own         *)
(* (CMakeLists.txt:149-175 and the provider adapter's first lines).         *)
THEOREM ProviderCorrect == Spec => []SelectedProviderLinked
<1>1. Sourced => SelectedProviderLinked
  BY DEF Sourced, SelectedProviderLinked, Checked, Created, Configured, Selected
<1> QED
  BY <1>1, SourcedInit, SourcedStep, PTL DEF Spec
-----------------------------------------------------------------------------
(* What the build remembers: the forced cache entries, who compiles with    *)
(* the tracer, and the libraries that register kernels.                     *)

Subtree == {"executorch_core", "cortex_m_kernels", "portable_kernels", "cmsis-nn"}
Booted == {"booting", "main", "trapped"}
TracedRight == traced = IF knobs.profiling THEN DOMAIN links \ {"cmsis-nn"} ELSE {}
Remembered ==
  /\ knobs \in Knob
  /\ cache.slots \in Nat /\ DOMAIN cache = {"slots", "tracer"}
  /\ pc \in Created \cup {"subtree"} =>
       cache.tracer = knobs.profiling /\ RegisteredKernels <= cache.slots
  /\ pc \in Created =>
       /\ TracedRight
       /\ "portable_kernels" \in DOMAIN links <=> knobs.portable > 0
  /\ pc \in {"flags", "finish", "nsops"} => DOMAIN links \subseteq Subtree
  /\ pc \in {"adapter"} \cup Configured =>
       ("cortex_m_ns_ops_lib" \in DOMAIN links <=> knobs.nsOps)
  /\ pc \notin Booted => DOMAIN kernels = {}
  /\ pc \in Booted => /\ DOMAIN kernels \subseteq DOMAIN Registers
                      /\ \A lib \in DOMAIN kernels : kernels[lib] = Registers[lib]
  /\ pc # "trapped"

LEMMA WithTarget ==
  ASSUME NEW f, NEW t, NEW v
  PROVE  DOMAIN With(f, t, v) = DOMAIN f \cup {t}
BY DEF With

LEMMA RememberedInit == Init => Remembered
BY DEF Init, Remembered, Created, Configured, Booted

(* The count that the configuration compares with the slots.                *)
LEMMA Counted ==
  ASSUME knobs \in Knob
  PROVE  RegisteredKernels = 41 + (IF knobs.nsOps THEN 5 ELSE 0) + knobs.portable
BY DEF Knob, RegisteredKernels, BuiltInKernels, NsKernels

(* The libraries of one firmware, and what each of them registers.          *)
LEMMA RegistersOf ==
  ASSUME knobs \in Knob, "portable_kernels" \in DOMAIN links <=> knobs.portable > 0,
         "cortex_m_ns_ops_lib" \in DOMAIN links <=> knobs.nsOps
  PROVE  /\ DOMAIN Registers = {"prim_ops", "cortex_m_ops"}
              \cup (IF knobs.nsOps THEN {"cortex_m_ns_ops"} ELSE {})
              \cup (IF knobs.portable > 0 THEN {"portable_ops"} ELSE {})
         /\ Registers["prim_ops"] = 25 /\ Registers["cortex_m_ops"] = 16
         /\ knobs.nsOps => Registers["cortex_m_ns_ops"] = 5
         /\ knobs.portable > 0 => Registers["portable_ops"] = knobs.portable
BY DEF Registers

(* Whatever has registered so far, there is room for one more library.      *)
LEMMA Room ==
  ASSUME Remembered, pc = "booting", NEW lib \in DOMAIN Registers \ DOMAIN kernels
  PROVE  ~(InRegistry + Registers[lib] > cache.slots)
<1>1. /\ knobs \in Knob /\ RegisteredKernels <= cache.slots /\ cache.slots \in Nat
      /\ "portable_kernels" \in DOMAIN links <=> knobs.portable > 0
      /\ "cortex_m_ns_ops_lib" \in DOMAIN links <=> knobs.nsOps
      /\ DOMAIN kernels \subseteq DOMAIN Registers
      /\ \A l \in DOMAIN kernels : kernels[l] = Registers[l]
  BY DEF Remembered, Created, Configured, Booted
<1>2. knobs.portable \in Nat /\ knobs.nsOps \in BOOLEAN
  BY <1>1 DEF Knob
<1> DEFINE R(l) == Registered(l) + (IF l = lib THEN Registers[l] ELSE 0)
           ns == IF knobs.nsOps THEN 5 ELSE 0
<1>3. RegisteredKernels = 41 + ns + knobs.portable
  BY <1>1, Counted
<1>4. /\ R("prim_ops") \in Nat /\ R("prim_ops") <= 25
      /\ R("cortex_m_ops") \in Nat /\ R("cortex_m_ops") <= 16
  BY <1>1, <1>2, RegistersOf DEF Registered
<1>5. R("cortex_m_ns_ops") \in Nat /\ R("cortex_m_ns_ops") <= ns
  BY <1>1, <1>2, RegistersOf DEF Registered
<1>6. R("portable_ops") \in Nat /\ R("portable_ops") <= knobs.portable
  BY <1>1, <1>2, RegistersOf DEF Registered
<1>7. InRegistry + Registers[lib] =
        R("prim_ops") + R("cortex_m_ops") + R("cortex_m_ns_ops") + R("portable_ops")
  <2>1. lib \in {"prim_ops", "cortex_m_ops", "cortex_m_ns_ops", "portable_ops"}
    BY <1>1, RegistersOf
  <2>2. \A l \in {"prim_ops", "cortex_m_ops", "cortex_m_ns_ops", "portable_ops"} :
          Registered(l) \in Nat /\ (l \in DOMAIN Registers => Registers[l] \in Nat)
    BY <1>1, <1>2, RegistersOf DEF Registered
  <2> QED
    BY <2>1, <2>2 DEF InRegistry
<1>8. ns \in Nat
  BY <1>2
<1> DEFINE T == InRegistry + Registers[lib]
<1>9. T = R("prim_ops") + R("cortex_m_ops") + R("cortex_m_ns_ops") + R("portable_ops")
  BY <1>7
<1> HIDE DEF R, ns, T
<1>10. T \in Nat /\ T <= 41 + ns + knobs.portable
  BY <1>2, <1>4, <1>5, <1>6, <1>8, <1>9
<1>11. ~(T > cache.slots)
  BY <1>1, <1>2, <1>3, <1>8, <1>10
<1> QED
  BY <1>11 DEF T

LEMMA RememberedRegister == ASSUME Remembered, Register PROVE Remembered'
<1>1. /\ pc = "booting"
      /\ UNCHANGED <<knobs, targets, links, traced, cache, configures>>
      /\ UNCHANGED <<Registers, RegisteredKernels, TracedRight>>
  BY DEF Register, Registers, RegisteredKernels, TracedRight
<1>2. PICK lib \in DOMAIN Registers \ DOMAIN kernels :
        /\ kernels' = With(kernels, lib, Registers[lib])
        /\ pc' \in {"main", "booting"}
  BY <1>1, Room DEF Register
<1>3. DOMAIN kernels' = DOMAIN kernels \cup {lib}
  BY <1>2, WithTarget
<1>4. \A l \in DOMAIN kernels' : kernels'[l] = Registers[l]
  BY <1>1, <1>2, <1>3 DEF With, Remembered, Booted
<1> QED
  BY <1>1, <1>2, <1>3, <1>4 DEF Remembered, Created, Configured, Booted

LEMMA RememberedOptions == ASSUME Remembered, SetOptions PROVE Remembered'
<1>1. pc = "options" /\ UNCHANGED <<knobs, kernels>> /\ pc' \in {"fatal", "subtree"}
  BY DEF SetOptions, Fatal
<1>2. knobs.portable \in Nat /\ knobs.nsOps \in BOOLEAN /\ RegisteredKernels \in Nat
      /\ MaxKernelNum \in Nat /\ RegisteredKernels' = RegisteredKernels
  BY <1>1 DEF Remembered, Knob, RegisteredKernels, BuiltInKernels, NsKernels, MaxKernelNum
<1>3. cache'.slots \in Nat /\ DOMAIN cache' = {"slots", "tracer"}
  BY <1>2 DEF SetOptions, Fatal, Remembered, Forced
<1>4. pc' = "subtree" => cache'.tracer = knobs.profiling /\ RegisteredKernels <= cache'.slots
  BY <1>1, <1>2 DEF SetOptions, Fatal, Forced
<1> QED
  BY <1>1, <1>2, <1>3, <1>4 DEF Remembered, Created, Configured, Booted

LEMMA RememberedSubtree == ASSUME Remembered, AddSubtree PROVE Remembered'
<1>1. /\ pc = "subtree" /\ pc' \in {"flags", "duplicate"}
      /\ UNCHANGED <<knobs, cache, kernels, RegisteredKernels>>
  BY DEF AddSubtree, RegisteredKernels
<1>2. /\ DOMAIN links' = {"executorch_core", "cortex_m_kernels"}
                 \cup (IF knobs.portable > 0 THEN {"portable_kernels"} ELSE {})
                 \cup (IF AdapterReturns \/ Bridges THEN {} ELSE {"cmsis-nn"})
      /\ traced' = IF cache.tracer THEN DOMAIN links' \ {"cmsis-nn"} ELSE {}
  BY DEF AddSubtree
<1>3. cache.tracer = knobs.profiling /\ RegisteredKernels <= cache.slots
  BY <1>1 DEF Remembered
<1>4. TracedRight'
  BY <1>1, <1>2, <1>3 DEF TracedRight
<1>5. /\ DOMAIN links' \subseteq Subtree
      /\ "portable_kernels" \in DOMAIN links' <=> knobs.portable > 0
  BY <1>2 DEF Subtree
<1> QED
  BY <1>1, <1>3, <1>4, <1>5 DEF Remembered, Created, Configured, Booted

LEMMA RememberedNsOps == ASSUME Remembered, AddNsOps PROVE Remembered'
<1>1. /\ pc = "nsops" /\ UNCHANGED <<knobs, kernels, cache, RegisteredKernels>>
      /\ pc' \in {"adapter", "fatal"}
  BY DEF AddNsOps, Fatal, RegisteredKernels
<1>2. /\ TracedRight /\ DOMAIN links \subseteq Subtree
      /\ "portable_kernels" \in DOMAIN links <=> knobs.portable > 0
  BY <1>1 DEF Remembered, Created
<1>3. CASE pc' = "fatal"
  BY <1>1, <1>3 DEF Remembered, Created, Configured, Booted
<1>4. CASE ~knobs.nsOps /\ pc' = "adapter"
  <2>1. UNCHANGED <<links, traced>>
    BY <1>4 DEF AddNsOps
  <2> QED
    BY <1>1, <1>2, <1>4, <2>1
       DEF Remembered, Created, Configured, Booted, Subtree, TracedRight
<1>5. CASE knobs.nsOps /\ pc' = "adapter"
  <2>1. DOMAIN links' = DOMAIN links \cup {"cortex_m_ns_kernels", "cortex_m_ns_ops_lib"}
    BY <1>5 DEF AddNsOps, Fatal, With
  <2>2. traced' = traced \cup (IF knobs.profiling
                                  THEN {"cortex_m_ns_kernels", "cortex_m_ns_ops_lib"}
                                  ELSE {})
    BY <1>5 DEF AddNsOps, Fatal
  <2>3. TracedRight'
    BY <1>1, <1>2, <2>1, <2>2 DEF TracedRight
  <2> QED
    BY <1>1, <1>2, <1>5, <2>1, <2>3 DEF Remembered, Created, Configured, Booted
<1>6. knobs.nsOps \in BOOLEAN
  BY DEF Remembered, Knob
<1> QED
  BY <1>1, <1>3, <1>4, <1>5, <1>6

LEMMA RememberedAdapter == ASSUME Remembered, AddAdapter PROVE Remembered'
<1>1. /\ pc = "adapter" /\ UNCHANGED <<knobs, kernels, cache, RegisteredKernels>>
      /\ pc' \in {"ready", "fatal"}
  BY DEF AddAdapter, Fatal, RegisteredKernels
<1>2. CASE pc' = "fatal"
  BY <1>1, <1>2 DEF Remembered, Created, Configured, Booted
<1>3. CASE pc' = "ready"
  <2>1. DOMAIN links' = DOMAIN links \cup {"nsx_executorch"}
    BY <1>3 DEF AddAdapter, Fatal, With
  <2>2. traced' = traced \cup (IF knobs.profiling THEN {"nsx_executorch"} ELSE {})
    BY <1>3 DEF AddAdapter, Fatal
  <2>3. TracedRight'
    BY <1>1, <2>1, <2>2 DEF TracedRight, Remembered, Created
  <2> QED
    BY <1>1, <1>3, <2>1, <2>3 DEF Remembered, Created, Configured, Booted
<1> QED
  BY <1>1, <1>2, <1>3

(* Steps that leave the names of the targets as they are.                   *)
LEMMA RememberedKept ==
  ASSUME Remembered,
         UNCHANGED <<knobs, cache, traced, kernels>>, DOMAIN links' = DOMAIN links,
         \/ pc' = "fatal" /\ pc \notin Booted
         \/ {pc, pc'} \subseteq {"app", "knobs", "provider", "order", "options"}
         \/ {pc, pc'} \subseteq {"flags", "finish", "nsops"}
  PROVE  Remembered'
<1>1. UNCHANGED <<RegisteredKernels, TracedRight>>
  BY DEF RegisteredKernels, TracedRight
<1> QED
  BY <1>1 DEF Remembered, Created, Configured, Booted

LEMMA RememberedStep == Remembered /\ [Next]_vars => Remembered'
<1> SUFFICES ASSUME Remembered, [Next]_vars
             PROVE  Remembered'
  OBVIOUS
<1> USE DEF Booted
<1>1. CASE AddModule
  BY <1>1, RememberedKept DEF AddModule
<1>2. CASE AddExecutorch
  BY <1>2, RememberedKept DEF AddExecutorch
<1>3. CASE Reconfigure
  BY <1>3 DEF Reconfigure, Remembered, Created, Configured
<1>4. CASE CheckKnobs
  BY <1>4, RememberedKept DEF CheckKnobs, Fatal
<1>5. CASE CheckProvider
  BY <1>5, RememberedKept DEF CheckProvider, Fatal
<1>6. CASE CheckOrder
  BY <1>6, RememberedKept DEF CheckOrder, Fatal
<1>7. CASE SetOptions
  BY <1>7, RememberedOptions
<1>8. CASE AddSubtree
  BY <1>8, RememberedSubtree
<1>9. CASE ApplyFlags
  BY <1>9, RememberedKept DEF ApplyFlags
<1>10. CASE FinishArm
  <2>1. DOMAIN links' = DOMAIN links
    BY <1>10 DEF FinishArm
  <2> QED
    BY <1>10, <2>1, RememberedKept DEF FinishArm
<1>11. CASE AddNsOps
  BY <1>11, RememberedNsOps
<1>12. CASE AddAdapter
  BY <1>12, RememberedAdapter
<1>13. CASE Boot
  <2>1. UNCHANGED <<knobs, cache, links, traced, kernels, RegisteredKernels, Registers,
                    TracedRight>>
    BY <1>13 DEF Boot, RegisteredKernels, Registers, TracedRight
  <2> QED
    BY <1>13, <2>1 DEF Boot, Remembered, Created, Configured
<1>14. CASE Register
  BY <1>14, RememberedRegister
<1>15. CASE UNCHANGED vars
  <2>1. UNCHANGED <<pc, knobs, cache, links, traced, kernels, RegisteredKernels, Registers,
                    TracedRight>>
    BY <1>15 DEF vars, RegisteredKernels, Registers, TracedRight
  <2> QED
    BY <2>1 DEF Remembered, Created, Configured
<1> QED
  BY <1>1, <1>2, <1>3, <1>4, <1>5, <1>6, <1>7, <1>8, <1>9, <1>10, <1>11, <1>12, <1>13,
     <1>14, <1>15 DEF Next

(* The runtime, the ns libraries and the adapter agree on the tracer after  *)
(* any number of changes of the knob in one build directory: the option is  *)
(* forced by the run that creates them (CMakeLists.txt:279-317).            *)
THEOREM TracerCorrect == Spec => []TracerAgrees
<1>1. Remembered => TracerAgrees
  BY DEF Remembered, TracerAgrees, TracedRight, Created, Configured
<1> QED
  BY <1>1, RememberedInit, RememberedStep, PTL DEF Spec

(* Whatever order the linker chose for the static initializers, and however *)
(* many portable kernels were selected, firmware that configured has a slot *)
(* for every kernel it registers before main().                             *)
THEOREM BootCorrect == Spec => []EveryBootReachesMain
<1>1. Remembered => EveryBootReachesMain
  BY DEF Remembered, EveryBootReachesMain
<1> QED
  BY <1>1, RememberedInit, RememberedStep, PTL DEF Spec
-----------------------------------------------------------------------------
(* The flags.                                                               *)

(* What is left of a board's options without its optimization policy.       *)
LEMMA AbiOptionsKept ==
  ASSUME knobs \in Knob
  PROVE  AbiOptions \in Seq({"abi"})
<1>0. PICK board \in Boards : board = knobs.board
  BY DEF Knob
<1> DEFINE V == Seq({"abi"})
           Drop(i) == board[i] \in Levels \cup {"-ffast-math"}
           next == [i \in 1..Len(board) |->
                      [v \in V |-> IF Drop(i) THEN v ELSE Append(v, board[i])]]
           Kept(f) == [i \in 0..Len(board) |->
                         IF i = 0 THEN << >>
                         ELSE IF Drop(i) THEN f[i - 1] ELSE Append(f[i - 1], board[i])]
           kept == CHOOSE f : f = Kept(f)
<1>1. PICK level \in Levels : board \in Seq({"abi", "-ffast-math", level})
  BY BoardAssumption
<1>2. \A i \in 1..Len(board) : ~Drop(i) => board[i] = "abi"
  BY <1>1
<1>3. Len(board) \in Nat
  BY <1>1
<1>4. next \in [1..Len(board) -> [V -> V]] /\ << >> \in V
  BY <1>2
<1>5. PICK f \in [0..Len(board) -> V] :
        /\ f[0] = << >>
        /\ \A i \in 1..Len(board) : f[i] = next[i][f[i - 1]]
  <2> DEFINE n == Len(board)
             first == << >>
  <2>1. n \in Nat /\ first \in V /\ next \in [1..n -> [V -> V]]
    BY <1>3, <1>4
  <2> HIDE DEF next, V, n, first
  <2>2. Iterated(n, V, first, next)
    BY <2>1, Recursion
  <2> QED
    BY <2>2 DEF n, first, Iterated
<1>6. f = Kept(f)
  <2>1. \A i \in 1..Len(board) :
          f[i] = IF Drop(i) THEN f[i - 1] ELSE Append(f[i - 1], board[i])
    <3> SUFFICES ASSUME NEW i \in 1..Len(board)
                 PROVE  f[i] = IF Drop(i) THEN f[i - 1] ELSE Append(f[i - 1], board[i])
      OBVIOUS
    <3>1. f[i - 1] \in V
      BY <1>3, <1>5
    <3> QED
      BY <1>5, <3>1
  <2>2. f \in [0..Len(board) -> V] /\ f[0] = << >>
    BY <1>5
  <2> HIDE DEF V
  <2>3. \A i \in 0..Len(board) :
          f[i] = IF i = 0 THEN << >>
                 ELSE IF Drop(i) THEN f[i - 1] ELSE Append(f[i - 1], board[i])
    <3> HIDE DEF Drop
    <3>1. \A i \in 0..Len(board) : i = 0 \/ i \in 1..Len(board)
      BY <1>3
    <3>2. \A i \in 1..Len(board) : i # 0
      BY <1>3
    <3> QED
      BY <2>1, <2>2, <3>1, <3>2, Zenon
  <2>4. f = [i \in 0..Len(board) |-> f[i]]
    BY <2>2
  <2>5. \A i \in 0..Len(board) : f[i] = Kept(f)[i]
    BY <2>3
  <2> QED
    BY <2>4, <2>5
<1>7. kept = Kept(kept)
  BY <1>6
<1>8. \A n \in Nat : n <= Len(board) => kept[n] \in V
  <2> DEFINE S == {n \in Nat : n <= Len(board) => kept[n] \in V}
  <2>1. 0 \in S
    <3> HIDE DEF kept
    <3> QED
      BY <1>3, <1>7
  <2>2. ASSUME NEW n \in Nat, n \in S PROVE n + 1 \in S
    <3> SUFFICES ASSUME n + 1 <= Len(board) PROVE kept[n + 1] \in V
      OBVIOUS
    <3>1. kept[n] \in V
      BY <1>3, <2>2
    <3>2. kept[n + 1] = IF Drop(n + 1) THEN kept[n] ELSE Append(kept[n], board[n + 1])
      <4> HIDE DEF kept
      <4>1. n + 1 \in 0..Len(board) /\ n + 1 # 0 /\ (n + 1) - 1 = n
        BY <1>3
      <4>2. Kept(kept)[n + 1] =
              IF Drop(n + 1) THEN kept[(n + 1) - 1] ELSE Append(kept[(n + 1) - 1], board[n + 1])
        BY <4>1
      <4> QED
        BY <1>7, <4>1, <4>2
    <3> HIDE DEF kept
    <3> QED
      BY <1>2, <1>3, <3>1, <3>2
  <2> HIDE DEF S
  <2>3. \A n \in Nat : n \in S
    BY <2>1, <2>2, Induction
  <2> QED
    BY <2>3 DEF S
<1>9. AbiOptions = kept[Len(board)]
  BY <1>0 DEF AbiOptions
<1> HIDE DEF kept
<1> QED
  BY <1>3, <1>8, <1>9

(* The last word is the last option's, though CMake drops an option that    *)
(* was given before: what precedes the k-th option of q on the same matter  *)
(* differs from it or is the same option only, and nothing follows it.      *)
LEMMA LastWord ==
  ASSUME NEW A, NEW B, NEW p \in Seq(A), NEW q \in Seq(B), NEW Which, NEW C,
         A \cap Which \subseteq C,
         NEW k \in 1..Len(q), q[k] \in Which, q[k] \notin C \/ C = {q[k]},
         \A i \in 1..(k - 1) : q[i] \in Which => q[i] \in C,
         \A i \in (k + 1)..Len(q) : q[i] \notin Which
  PROVE  LastIs(Given(p \o q), Which, q[k])
<1> DEFINE all == p \o q
           m == Len(p) + k
           o == q[k]
<1>1. /\ Len(p) \in Nat /\ Len(q) \in Nat
      /\ all \in Seq(A \cup B) /\ Len(all) = Len(p) + Len(q)
      /\ \A i \in 1..Len(all) : all[i] = IF i <= Len(p) THEN p[i] ELSE q[i - Len(p)]
  <2>1. p \in Seq(A \cup B) /\ q \in Seq(A \cup B)
    OBVIOUS
  <2> QED
    BY <2>1, ConcatProperties
<1>2. m \in 1..Len(all) /\ all[m] = o
  BY <1>1
<1>3. \A i \in 1..(m - 1) : all[i] \in Which => all[i] \in C
  <2> SUFFICES ASSUME NEW i \in 1..(m - 1), all[i] \in Which PROVE all[i] \in C
    OBVIOUS
  <2>1. CASE i <= Len(p)
    <3>1. i \in 1..Len(p) /\ all[i] = p[i]
      BY <1>1, <2>1
    <3>2. p[i] \in A
      BY <3>1, ElementOfSeq
    <3> QED
      BY <3>1, <3>2
  <2>2. CASE ~(i <= Len(p))
    <3>1. i - Len(p) \in 1..(k - 1) /\ all[i] = q[i - Len(p)]
      BY <1>1, <2>2
    <3> QED
      BY <3>1
  <2> QED
    BY <2>1, <2>2
<1>4. \A i \in (m + 1)..Len(all) : all[i] \notin Which
  <2> SUFFICES ASSUME NEW i \in (m + 1)..Len(all) PROVE all[i] \notin Which
    OBVIOUS
  <2>1. i - Len(p) \in (k + 1)..Len(q) /\ all[i] = q[i - Len(p)]
    BY <1>1
  <2> QED
    BY <2>1
<1>5. DOMAIN all = 1..Len(all) /\ Len(all) \in Nat /\ m \in Nat
  BY <1>1, <1>2, LenProperties
<1> HIDE DEF all, m, o
<1> DEFINE T == {i \in 1..Len(all) : all[i] = o}
<1>6. PICK x \in T : \A y \in T : x <= y
  <2>1. T \subseteq Nat /\ m \in T
    BY <1>2, <1>5
  <2> HIDE DEF T
  <2> QED
    BY <2>1, LeastNatural
<1>7. x \in 1..Len(all) /\ all[x] = o /\ x <= m
  BY <1>2, <1>6
<1> DEFINE line == Given(all)
<1>8. DOMAIN line = {i \in 1..Len(all) : \A j \in 1..(i - 1) : all[j] # all[i]}
  BY <1>5 DEF Given
<1>9. \A i \in DOMAIN line : line[i] = all[i]
  BY DEF Given
<1>10. x \in DOMAIN line /\ line[x] = o
  <2>1. \A j \in 1..(x - 1) : all[j] # all[x]
    BY <1>5, <1>6, <1>7
  <2> QED
    BY <1>7, <1>8, <1>9, <2>1
<1>11. ASSUME NEW j \in DOMAIN line, line[j] \in Which
       PROVE  j <= x
  <2>1. j \in 1..Len(all) /\ all[j] \in Which /\ \A i \in 1..(j - 1) : all[i] # all[j]
    BY <1>8, <1>9, <1>11
  <2> SUFFICES ASSUME x < j PROVE FALSE
    BY <1>5, <1>7, <2>1
  <2>2. all[j] # o
    BY <1>5, <1>7, <2>1
  <2>3. j \in 1..(m - 1)
    BY <1>2, <1>4, <1>5, <2>1, <2>2
  <2>4. all[j] \in C
    BY <1>3, <2>1, <2>3
  <2>5. x \in 1..(m - 1)
    BY <1>5, <1>7, <2>3
  <2>6. o \in Which
    BY DEF o
  <2>7. o \in C
    BY <1>3, <1>7, <2>5, <2>6
  <2>8. o \notin C \/ C = {o}
    BY DEF o
  <2> QED
    BY <2>2, <2>4, <2>7, <2>8
<1>12. o \in Which
  BY DEF o
<1> HIDE DEF line
<1>13. LastIs(line, Which, o)
  BY <1>10, <1>11, <1>12 DEF LastIs
<1> QED
  BY <1>13 DEF line, all, o

(* What each target links: ExecuTorch's own are linked as they were made    *)
(* until the flags are carried, every target of this module carries them    *)
(* last, and only the provider may get the board's after them.              *)
Linked(t) ==
  CASE t = "cortex_m_kernels" -> {<<"cmsis-nn", "module_flags">>}
    [] t = "portable_kernels" -> {<<"module_flags", "math_flags">>}
    [] t = "cmsis-nn" -> {<<"abi_flags">>, <<"abi_flags", "nsx::board_flags">>}
    [] t = "cortex_m_ns_kernels" -> {<<"cmsis-nn", "executorch", "module_flags">>}
    [] t = "cortex_m_ns_ops_lib" -> {<<"executorch", "module_flags">>}
    [] t = "nsx_executorch" -> {<<"nsx::core", "executorch", "module_flags">>}
    [] t = "executorch_core" -> {<<"module_flags">>}
    [] OTHER -> {}
Carried ==
  /\ knobs \in Knob
  /\ pc = "flags" => \A t \in DOMAIN links :
       /\ t \in Subtree
       /\ links[t] = IF t = "cortex_m_kernels" THEN <<"cmsis-nn">> ELSE << >>
  /\ pc = "finish" /\ "cmsis-nn" \in DOMAIN links => links["cmsis-nn"] = <<"abi_flags">>
  /\ pc \in Created \ {"flags"} => \A t \in DOMAIN links : links[t] \in Linked(t)

LEMMA AppendTwo ==
  ASSUME NEW a, NEW b
  PROVE  Append(<<a>>, b) = <<a, b>>
<1>1. <<a>> \in Seq({a, b}) /\ <<a, b>> \in Seq({a, b}) /\ Len(<<a>>) = 1 /\ Len(<<a, b>>) = 2
  OBVIOUS
<1>2. Append(<<a>>, b) \in Seq({a, b}) /\ Len(Append(<<a>>, b)) = 2
  BY <1>1
<1>3. \A i \in 1..2 : Append(<<a>>, b)[i] = <<a, b>>[i]
  BY <1>1
<1> QED
  BY <1>1, <1>2, <1>3, SeqEqual

LEMMA AppendThree ==
  ASSUME NEW a, NEW b, NEW c
  PROVE  Append(<<a, b>>, c) = <<a, b, c>>
<1>1. /\ <<a, b>> \in Seq({a, b, c}) /\ <<a, b, c>> \in Seq({a, b, c})
      /\ Len(<<a, b>>) = 2 /\ Len(<<a, b, c>>) = 3
  OBVIOUS
<1>2. Append(<<a, b>>, c) \in Seq({a, b, c}) /\ Len(Append(<<a, b>>, c)) = 3
  BY <1>1
<1>3. \A i \in 1..3 : Append(<<a, b>>, c)[i] = <<a, b, c>>[i]
  BY <1>1
<1> QED
  BY <1>1, <1>2, <1>3, SeqEqual

LEMMA CarriedInit == Init => Carried
BY DEF Init, Carried, Created, Configured

LEMMA CarriedFlags == ASSUME Carried, ApplyFlags PROVE Carried'
<1>1. pc = "flags" /\ pc' = "finish" /\ UNCHANGED knobs /\ DOMAIN links' = DOMAIN links
  BY DEF ApplyFlags
<1>2. ASSUME NEW t \in DOMAIN links
      PROVE  links'[t] \in Linked(t) /\ (t = "cmsis-nn" => links'[t] = <<"abi_flags">>)
  <2> DEFINE carrier == IF \E i \in DOMAIN OwnOptions(t) : OwnOptions(t)[i] \in Levels
                        THEN "abi_flags" ELSE "module_flags"
             carried == Append(links[t], carrier)
  <2>1. links'[t] = IF t = "portable_kernels" THEN Append(carried, "math_flags") ELSE carried
    BY <1>2 DEF ApplyFlags, Carry
  <2>2. carrier = IF t = "cmsis-nn" THEN "abi_flags" ELSE "module_flags"
    <3>1. CASE t = "cmsis-nn"
      <4>1. OwnOptions(t) = <<"-Ofast">>
        BY <3>1 DEF OwnOptions
      <4>2. 1 \in DOMAIN OwnOptions(t) /\ OwnOptions(t)[1] \in Levels
        BY <4>1 DEF Levels
      <4> QED
        BY <3>1, <4>2
    <3>2. CASE t # "cmsis-nn"
      <4>1. OwnOptions(t) = << >>
        BY <3>2 DEF OwnOptions
      <4>2. DOMAIN OwnOptions(t) = {}
        BY <4>1
      <4> QED
        BY <3>2, <4>2
    <3> QED
      BY <3>1, <3>2
  <2>3. t \in Subtree /\ links[t] = IF t = "cortex_m_kernels" THEN <<"cmsis-nn">> ELSE << >>
    BY <1>1, <1>2 DEF Carried
  <2> HIDE DEF carrier
  <2>4. CASE t = "cortex_m_kernels"
    <3>1. carried = <<"cmsis-nn", "module_flags">>
      BY <2>2, <2>3, <2>4, AppendTwo
    <3> QED
      BY <2>1, <2>4, <3>1 DEF Linked
  <2>5. CASE t # "cortex_m_kernels"
    <3>1. carried = <<IF t = "cmsis-nn" THEN "abi_flags" ELSE "module_flags">>
      BY <2>2, <2>3, <2>5
    <3>2. t = "portable_kernels" => Append(carried, "math_flags") = <<"module_flags", "math_flags">>
      BY <3>1, AppendTwo
    <3> HIDE DEF carried
    <3> QED
      BY <2>1, <2>3, <2>5, <3>1, <3>2 DEF Linked, Subtree
  <2> QED
    BY <2>4, <2>5
<1> QED
  BY <1>1, <1>2 DEF Carried

LEMMA CarriedArm == ASSUME Carried, FinishArm PROVE Carried'
<1>1. pc = "finish" /\ pc' = "nsops" /\ UNCHANGED knobs
      /\ \A t \in DOMAIN links : links[t] \in Linked(t)
  BY DEF FinishArm, Carried, Created
<1>2. \/ UNCHANGED links
      \/ /\ "cmsis-nn" \in DOMAIN links
         /\ links' = [links EXCEPT !["cmsis-nn"] = Append(links["cmsis-nn"], "nsx::board_flags")]
  BY DEF FinishArm
<1>3. CASE UNCHANGED links
  BY <1>1, <1>3 DEF Carried
<1>4. CASE /\ "cmsis-nn" \in DOMAIN links
           /\ links' = [links EXCEPT !["cmsis-nn"] = Append(links["cmsis-nn"], "nsx::board_flags")]
  <2>1. Append(links["cmsis-nn"], "nsx::board_flags") = <<"abi_flags", "nsx::board_flags">>
    BY <1>1, <1>4, AppendTwo DEF Carried
  <2>2. \A t \in DOMAIN links' :
          links'[t] = IF t = "cmsis-nn" THEN <<"abi_flags", "nsx::board_flags">> ELSE links[t]
    BY <1>4, <2>1
  <2>3. DOMAIN links' = DOMAIN links
    BY <1>4
  <2>4. \A t \in DOMAIN links' : links'[t] \in Linked(t)
    BY <1>1, <2>2, <2>3 DEF Linked
  <2> QED
    BY <1>1, <2>4 DEF Carried
<1> QED
  BY <1>2, <1>3, <1>4

LEMMA CarriedLibraries ==
  ASSUME Carried, AddNsOps \/ AddAdapter
  PROVE  Carried'
<1>1. /\ pc \in {"nsops", "adapter"} /\ pc' \in {"adapter", "ready", "fatal"}
      /\ UNCHANGED knobs /\ \A t \in DOMAIN links : links[t] \in Linked(t)
  BY DEF AddNsOps, AddAdapter, Fatal, Carried, Created, Configured
<1>2. /\ Carry(<<"cmsis-nn", "executorch">>, "module_flags")
           = <<"cmsis-nn", "executorch", "module_flags">>
      /\ Carry(<<"executorch">>, "module_flags") = <<"executorch", "module_flags">>
      /\ Carry(<<"nsx::core", "executorch">>, "module_flags")
           = <<"nsx::core", "executorch", "module_flags">>
  BY AppendTwo, AppendThree DEF Carry
<1>3. \/ pc' = "fatal"
      \/ UNCHANGED links
      \/ links' = With(With(links, "cortex_m_ns_kernels", <<"cmsis-nn", "executorch", "module_flags">>),
                       "cortex_m_ns_ops_lib", <<"executorch", "module_flags">>)
      \/ links' = With(links, "nsx_executorch", <<"nsx::core", "executorch", "module_flags">>)
  BY <1>2 DEF AddNsOps, AddAdapter, Fatal
<1>4. ASSUME pc' # "fatal" PROVE \A t \in DOMAIN links' : links'[t] \in Linked(t)
  <2>1. CASE UNCHANGED links
    BY <1>1, <2>1
  <2>2. CASE links' = With(With(links, "cortex_m_ns_kernels", <<"cmsis-nn", "executorch", "module_flags">>),
                           "cortex_m_ns_ops_lib", <<"executorch", "module_flags">>)
    BY <1>1, <2>2 DEF With, Linked
  <2>3. CASE links' = With(links, "nsx_executorch", <<"nsx::core", "executorch", "module_flags">>)
    BY <1>1, <2>3 DEF With, Linked
  <2> QED
    BY <1>3, <1>4, <2>1, <2>2, <2>3
<1> QED
  BY <1>1, <1>4 DEF Carried, Created, Configured

LEMMA CarriedStep == Carried /\ [Next]_vars => Carried'
<1> SUFFICES ASSUME Carried, [Next]_vars
             PROVE  Carried'
  OBVIOUS
<1> USE DEF Created, Configured, Carried
<1>1. CASE AddModule \/ AddExecutorch \/ CheckKnobs \/ CheckProvider \/ CheckOrder \/ SetOptions
  BY <1>1 DEF AddModule, AddExecutorch, CheckKnobs, CheckProvider, CheckOrder, SetOptions, Fatal
<1>2. CASE Reconfigure
  BY <1>2 DEF Reconfigure
<1>3. CASE AddSubtree
  BY <1>3 DEF AddSubtree, Subtree
<1>4. CASE ApplyFlags
  BY <1>4, CarriedFlags
<1>5. CASE FinishArm
  BY <1>5, CarriedArm
<1>6. CASE AddNsOps \/ AddAdapter
  BY <1>6, CarriedLibraries
<1>7. CASE Boot
  BY <1>7 DEF Boot
<1>8. CASE Register
  BY <1>8 DEF Register
<1>9. CASE UNCHANGED vars
  BY <1>9 DEF vars
<1> QED
  BY <1>1, <1>2, <1>3, <1>4, <1>5, <1>6, <1>7, <1>8, <1>9 DEF Next

(* What this module puts last, and what a target has before it.             *)
Own == <<OptFlag, "-fno-fast-math", "hygiene">>
Relaxed == <<OptFlag, "-fno-fast-math", "hygiene",
             "-funsafe-math-optimizations", "-ffinite-math-only">>
Options == {"abi", "-ffast-math", "-fno-fast-math", "hygiene", "-funsafe-math-optimizations",
            "-ffinite-math-only"} \cup Levels

LEMMA OptionsTyped ==
  ASSUME knobs \in Knob
  PROVE  /\ knobs.board \in Seq(Options) /\ AbiOptions \in Seq(Options)
         /\ Own \in Seq(Options) /\ Relaxed \in Seq(Options)
         /\ <<"-funsafe-math-optimizations", "-ffinite-math-only">> \in Seq(Options)
<1>1. AbiOptions \in Seq({"abi"})
  BY AbiOptionsKept
<1>2. PICK level \in Levels : knobs.board \in Seq({"abi", "-ffast-math", level})
  BY BoardAssumption DEF Knob
<1>3. OptFlag \in Options
  BY DEF OptFlag, Options, Levels
<1>4. AbiOptions \in Seq(Options)
  BY <1>1, SeqMonotonic DEF Options
<1>5. knobs.board \in Seq(Options)
  <2>1. {"abi", "-ffast-math", level} \subseteq Options
    BY DEF Options
  <2> QED
    BY <1>2, <2>1, SeqMonotonic
<1>6. Own \in Seq(Options) /\ Relaxed \in Seq(Options)
      /\ <<"-funsafe-math-optimizations", "-ffinite-math-only">> \in Seq(Options)
  BY <1>3 DEF Own, Relaxed, Options
<1> QED
  BY <1>4, <1>5, <1>6

LEMMA RelaxedIs ==
  Own \o <<"-funsafe-math-optimizations", "-ffinite-math-only">> = Relaxed
<1> DEFINE s == <<"-funsafe-math-optimizations", "-ffinite-math-only">>
           E == Options \cup {OptFlag}
<1>1. /\ Own \in Seq(E) /\ s \in Seq(E) /\ Relaxed \in Seq(E)
      /\ Len(Own) = 3 /\ Len(s) = 2 /\ Len(Relaxed) = 5
  BY DEF Own, Relaxed, Options
<1>2. /\ Own \o s \in Seq(E) /\ Len(Own \o s) = 5
      /\ \A i \in 1..5 : (Own \o s)[i] = IF i <= 3 THEN Own[i] ELSE s[i - 3]
  <2> HIDE DEF s, E
  <2>1. /\ Own \o s \in Seq(E) /\ Len(Own \o s) = Len(Own) + Len(s)
        /\ \A i \in 1..Len(Own) + Len(s) :
             (Own \o s)[i] = IF i <= Len(Own) THEN Own[i] ELSE s[i - Len(Own)]
    BY <1>1, ConcatProperties
  <2> QED
    BY <1>1, <2>1
<1>3. \A i \in 1..5 : (Own \o s)[i] = Relaxed[i]
  BY <1>2 DEF Own, Relaxed
<1> QED
  BY <1>1, <1>2, <1>3, SeqEqual

(* A target of this module collects nothing, or the board's options from    *)
(* whatever links the provider, then the module's own.                      *)
LEMMA CollectedOf ==
  ASSUME knobs \in Knob, NEW t \in DOMAIN links, links[t] \in Linked(t), t # "cmsis-nn"
  PROVE  \E p \in {AbiOptions, knobs.board \o AbiOptions} :
           Collected(t) = p \o (IF t = "portable_kernels" THEN Relaxed ELSE Own)
<1> DEFINE board == knobs.board
           math == <<"-funsafe-math-optimizations", "-ffinite-math-only">>
           module == AbiOptions \o Own
<1>1. /\ board \in Seq(Options) /\ AbiOptions \in Seq(Options) /\ Own \in Seq(Options)
      /\ math \in Seq(Options) /\ << >> \in Seq(Options) /\ module \in Seq(Options)
  BY OptionsTyped, ConcatProperties
<1>2. /\ InterfaceOptions("cmsis-nn") = board /\ InterfaceOptions("nsx::core") = board
      /\ InterfaceOptions("module_flags") = module /\ InterfaceOptions("math_flags") = math
      /\ InterfaceOptions("executorch") = << >>
  BY DEF InterfaceOptions, Own
<1>3. Collected(t) = ((<< >> \o FromLink(t, 1)) \o FromLink(t, 2)) \o FromLink(t, 3)
  BY DEF Collected, OwnOptions
<1>4. /\ << >> \o << >> = << >>
      /\ << >> \o board = board /\ board \o << >> = board
      /\ << >> \o module = module /\ module \o << >> = module
      /\ (board \o module) \o << >> = board \o module
      /\ (module \o math) \o << >> = module \o math
  <2>1. board \o module \in Seq(Options) /\ module \o math \in Seq(Options)
    BY <1>1, ConcatProperties
  <2> HIDE DEF board, module, math
  <2> QED
    BY <1>1, <2>1, ConcatEmptySeq
<1>5. /\ board \o module = (board \o AbiOptions) \o Own
      /\ module \o math = AbiOptions \o Relaxed
  <2>1. (board \o AbiOptions) \o Own = board \o (AbiOptions \o Own)
    <3> HIDE DEF board
    <3> QED
      BY <1>1, ConcatAssociative
  <2>2. (AbiOptions \o Own) \o math = AbiOptions \o (Own \o math)
    BY <1>1, ConcatAssociative
  <2> QED
    BY <2>1, <2>2, RelaxedIs
<1> DEFINE l == links[t]
<1>6. /\ FromLink(t, 1) = IF 1 \in DOMAIN l THEN InterfaceOptions(l[1]) ELSE << >>
      /\ FromLink(t, 2) = IF 2 \in DOMAIN l THEN InterfaceOptions(l[2]) ELSE << >>
      /\ FromLink(t, 3) = IF 3 \in DOMAIN l THEN InterfaceOptions(l[3]) ELSE << >>
  BY DEF FromLink
<1> HIDE DEF board, module, math
<1>7. CASE t = "portable_kernels"
  <2>1. l = <<"module_flags", "math_flags">>
    BY <1>7 DEF Linked
  <2>2. FromLink(t, 1) = module /\ FromLink(t, 2) = math /\ FromLink(t, 3) = << >>
    BY <1>2, <1>6, <2>1
  <2>3. Collected(t) = AbiOptions \o Relaxed
    BY <1>3, <1>4, <1>5, <2>2
  <2> QED
    BY <1>7, <2>3
<1>8. CASE t # "portable_kernels"
  <2>1. \/ l = <<"cmsis-nn", "module_flags">>
        \/ l = <<"cmsis-nn", "executorch", "module_flags">>
        \/ l = <<"executorch", "module_flags">>
        \/ l = <<"nsx::core", "executorch", "module_flags">>
        \/ l = <<"module_flags">>
    BY <1>8 DEF Linked
  <2>2. CASE l = <<"cmsis-nn", "module_flags">>
    <3>1. FromLink(t, 1) = board /\ FromLink(t, 2) = module /\ FromLink(t, 3) = << >>
      BY <1>2, <1>6, <2>2
    <3>2. Collected(t) = (board \o AbiOptions) \o Own
      BY <1>3, <1>4, <1>5, <3>1
    <3> QED
      BY <1>8, <3>2 DEF board
  <2>3. CASE l = <<"cmsis-nn", "executorch", "module_flags">>
                \/ l = <<"nsx::core", "executorch", "module_flags">>
    <3>1. FromLink(t, 1) = board /\ FromLink(t, 2) = << >> /\ FromLink(t, 3) = module
      BY <1>2, <1>6, <2>3
    <3>2. Collected(t) = (board \o AbiOptions) \o Own
      BY <1>3, <1>4, <1>5, <3>1
    <3> QED
      BY <1>8, <3>2 DEF board
  <2>4. CASE l = <<"executorch", "module_flags">> \/ l = <<"module_flags">>
    <3>1. /\ FromLink(t, 3) = << >>
          /\ \/ FromLink(t, 1) = << >> /\ FromLink(t, 2) = module
             \/ FromLink(t, 1) = module /\ FromLink(t, 2) = << >>
      BY <1>2, <1>6, <2>4
    <3>2. Collected(t) = module
      BY <1>3, <1>4, <3>1
    <3> QED
      BY <1>8, <3>2 DEF module
  <2> QED
    BY <2>1, <2>2, <2>3, <2>4
<1> QED
  BY <1>7, <1>8

LEMMA OwnedByModule ==
  ASSUME knobs \in Knob, NEW t \in DOMAIN links, links[t] \in Linked(t), t # "cmsis-nn"
  PROVE  /\ LastIs(CommandLine(t), Levels, OptFlag)
         /\ LastIs(CommandLine(t), Switches,
                   IF t = "portable_kernels" THEN "-funsafe-math-optimizations"
                                             ELSE "-fno-fast-math")
<1>1. PICK p \in {AbiOptions, knobs.board \o AbiOptions} :
        Collected(t) = p \o (IF t = "portable_kernels" THEN Relaxed ELSE Own)
  BY CollectedOf
<1>2. PICK level \in Levels : knobs.board \in Seq({"abi", "-ffast-math", level})
  BY BoardAssumption DEF Knob
<1> DEFINE A == {"abi", "-ffast-math", level}
<1>3. p \in Seq(A)
  <2>1. AbiOptions \in Seq(A)
    BY AbiOptionsKept, SeqMonotonic
  <2> HIDE DEF A
  <2> QED
    BY <1>1, <1>2, <2>1, ConcatProperties DEF A
<1>4. A \cap Levels \subseteq {level} /\ A \cap Switches \subseteq {"-ffast-math"}
  BY DEF Levels, Switches
<1>5. OptFlag \in Levels /\ OptFlag \notin Switches /\ OptFlag \in Options
  BY DEF OptFlag, Levels, Switches, Options
<1> HIDE DEF A
<1>6. CASE t # "portable_kernels"
  <2> DEFINE q == Own
  <2>1. q \in Seq(Options) /\ Len(q) = 3 /\ q[1] = OptFlag /\ q[2] = "-fno-fast-math"
        /\ q[3] = "hygiene"
    BY <1>5, OptionsTyped DEF Own
  <2>2. CommandLine(t) = Given(p \o q)
    BY <1>1, <1>6 DEF CommandLine
  <2> HIDE DEF q
  <2>3. LastIs(Given(p \o q), Levels, q[1])
    <3>1. \A i \in 2..3 : q[i] \notin Levels
      BY <2>1 DEF Levels
    <3>2. 1 \in 1..Len(q) /\ q[1] \in Levels /\ (q[1] \notin {level} \/ {level} = {q[1]})
          /\ (\A i \in 1..(1 - 1) : q[i] \in Levels => q[i] \in {level})
          /\ \A i \in (1 + 1)..Len(q) : q[i] \notin Levels
      BY <1>5, <2>1, <3>1
    <3> QED
      BY <1>3, <1>4, <2>1, <3>2, LastWord
  <2>4. LastIs(Given(p \o q), Switches, q[2])
    <3>1. 2 \in 1..Len(q) /\ q[2] \in Switches /\ q[2] \notin {"-ffast-math"}
          /\ (\A i \in 1..(2 - 1) : q[i] \in Switches => q[i] \in {"-ffast-math"})
          /\ \A i \in (2 + 1)..Len(q) : q[i] \notin Switches
      BY <1>5, <2>1 DEF Switches
    <3> QED
      BY <1>3, <1>4, <2>1, <3>1, LastWord
  <2> QED
    BY <1>6, <2>1, <2>2, <2>3, <2>4
<1>7. CASE t = "portable_kernels"
  <2> DEFINE q == Relaxed
             C == {"-ffast-math", "-fno-fast-math"}
  <2>1. q \in Seq(Options) /\ Len(q) = 5 /\ q[1] = OptFlag /\ q[2] = "-fno-fast-math"
        /\ q[3] = "hygiene" /\ q[4] = "-funsafe-math-optimizations"
        /\ q[5] = "-ffinite-math-only"
    BY <1>5, OptionsTyped DEF Relaxed
  <2>2. CommandLine(t) = Given(p \o q)
    BY <1>1, <1>7 DEF CommandLine
  <2> HIDE DEF q
  <2>3. LastIs(Given(p \o q), Levels, q[1])
    <3>1. \A i \in 2..5 : q[i] \notin Levels
      BY <2>1 DEF Levels
    <3>2. 1 \in 1..Len(q) /\ q[1] \in Levels /\ (q[1] \notin {level} \/ {level} = {q[1]})
          /\ (\A i \in 1..(1 - 1) : q[i] \in Levels => q[i] \in {level})
          /\ \A i \in (1 + 1)..Len(q) : q[i] \notin Levels
      BY <1>5, <2>1, <3>1
    <3> QED
      BY <1>3, <1>4, <2>1, <3>2, LastWord
  <2>4. LastIs(Given(p \o q), Switches, q[4])
    <3>1. 4 \in 1..Len(q) /\ q[4] \in Switches /\ q[4] \notin C /\ A \cap Switches \subseteq C
      BY <1>4, <2>1 DEF Switches
    <3>2. \A i \in 1..(4 - 1) : q[i] \in Switches => q[i] \in C
      BY <1>5, <2>1 DEF Switches
    <3>3. \A i \in (4 + 1)..Len(q) : q[i] \notin Switches
      BY <2>1 DEF Switches
    <3> HIDE DEF C
    <3> QED
      BY <1>3, <2>1, <3>1, <3>2, <3>3, LastWord
  <2> QED
    BY <1>7, <2>1, <2>2, <2>3, <2>4
<1> QED
  BY <1>6, <1>7

(* Of a line that starts with -Ofast and has at most one other level, that  *)
(* level is the last one where it occurs, and -Ofast where it does not.     *)
LEMMA LastLevel ==
  ASSUME NEW A, NEW all \in Seq(A), Len(all) >= 1, all[1] = "-Ofast",
         NEW level \in Levels,
         \A i \in 1..Len(all) : all[i] \in Levels => all[i] \in {"-Ofast", level}
  PROVE  LastIs(Given(all), Levels,
                IF \E i \in 1..Len(all) : all[i] = level THEN level ELSE "-Ofast")
<1>1. DOMAIN all = 1..Len(all) /\ Len(all) \in Nat
  BY LenProperties
<1>2. "-Ofast" \in Levels
  BY DEF Levels
<1>3. /\ \A i \in DOMAIN Given(all) : Given(all)[i] = all[i] /\ i \in 1..Len(all)
      /\ \A i \in 1..Len(all) : i \in DOMAIN Given(all)
                                 <=> \A k \in 1..(i - 1) : all[k] # all[i]
  BY <1>1 DEF Given
<1>4. \A i \in DOMAIN Given(all) : all[i] = "-Ofast" => i = 1
  BY <1>1, <1>3
<1>5. CASE \E i \in 1..Len(all) : all[i] = level
  <2> DEFINE T == {i \in 1..Len(all) : all[i] = level}
  <2>1. PICK x \in T : \A y \in T : x <= y
    <3>1. T \subseteq Nat /\ T # {}
      BY <1>1, <1>5
    <3> HIDE DEF T
    <3> QED
      BY <3>1, LeastNatural
  <2>2. x \in 1..Len(all) /\ all[x] = level
    OBVIOUS
  <2>3. \A k \in 1..(x - 1) : all[k] # all[x]
    BY <1>1, <2>1, <2>2
  <2>4. x \in DOMAIN Given(all) /\ Given(all)[x] = level
    BY <1>3, <2>2, <2>3
  <2>5. ASSUME NEW k \in DOMAIN Given(all), Given(all)[k] \in Levels
        PROVE  k <= x
    <3>1. k \in 1..Len(all) /\ Given(all)[k] = all[k]
      BY <1>3
    <3>2. CASE all[k] = level
      <4>1. \A y \in 1..(k - 1) : all[y] # all[k]
        BY <1>3, <3>1
      <4> QED
        BY <1>1, <2>2, <3>1, <3>2, <4>1
    <3>3. CASE all[k] = "-Ofast"
      BY <1>1, <1>4, <2>2, <3>3
    <3> QED
      BY <2>5, <3>1, <3>2, <3>3
  <2> QED
    BY <1>5, <2>4, <2>5 DEF LastIs
<1>6. CASE ~\E i \in 1..Len(all) : all[i] = level
  <2>1. 1 \in DOMAIN Given(all) /\ Given(all)[1] = "-Ofast"
    BY <1>1, <1>3
  <2>2. ASSUME NEW k \in DOMAIN Given(all), Given(all)[k] \in Levels
        PROVE  k <= 1
    BY <1>3, <1>4, <1>6, <2>2
  <2> QED
    BY <1>2, <1>6, <2>1, <2>2 DEF LastIs
<1> QED
  BY <1>5, <1>6

(* The provider has its own level or the board's last, and meets no word    *)
(* against fast math: of this module it gets the board's ABI options only.  *)
LEMMA PinnedByProvider ==
  ASSUME knobs \in Knob, NEW t \in DOMAIN links, links[t] \in Linked(t), t = "cmsis-nn"
  PROVE  /\ \E level \in Levels : OfProvider(level) /\ LastIs(CommandLine(t), Levels, level)
         /\ \A i \in DOMAIN CommandLine(t) : CommandLine(t)[i] # "-fno-fast-math"
<1> DEFINE A == {"abi", "-ffast-math"} \cup Levels
           board == knobs.board
           l == links[t]
<1>1. AbiOptions \in Seq(A) /\ board \in Seq(A) /\ <<"-Ofast">> \in Seq(A) /\ << >> \in Seq(A)
  <2>1. AbiOptions \in Seq({"abi"})
    BY AbiOptionsKept
  <2>2. PICK level \in Levels : board \in Seq({"abi", "-ffast-math", level})
    BY BoardAssumption DEF Knob
  <2>3. <<"-Ofast">> \in Seq(A) /\ << >> \in Seq(A)
    BY DEF Levels
  <2>4. {"abi"} \subseteq A /\ {"abi", "-ffast-math", level} \subseteq A
    OBVIOUS
  <2> HIDE DEF A, board
  <2>5. AbiOptions \in Seq(A)
    BY <2>1, <2>4, SeqMonotonic
  <2>6. board \in Seq(A)
    BY <2>2, <2>4, SeqMonotonic
  <2> QED
    BY <2>3, <2>5, <2>6
<1>2. /\ InterfaceOptions("abi_flags") = AbiOptions
      /\ InterfaceOptions("nsx::board_flags") = board
  BY DEF InterfaceOptions
<1>3. Collected(t) = ((<<"-Ofast">> \o FromLink(t, 1)) \o FromLink(t, 2)) \o FromLink(t, 3)
  BY DEF Collected, OwnOptions
<1>4. /\ FromLink(t, 1) = IF 1 \in DOMAIN l THEN InterfaceOptions(l[1]) ELSE << >>
      /\ FromLink(t, 2) = IF 2 \in DOMAIN l THEN InterfaceOptions(l[2]) ELSE << >>
      /\ FromLink(t, 3) = IF 3 \in DOMAIN l THEN InterfaceOptions(l[3]) ELSE << >>
  BY DEF FromLink
<1>5. l = <<"abi_flags">> \/ l = <<"abi_flags", "nsx::board_flags">>
  BY DEF Linked
<1> HIDE DEF board, A
<1>6. FromLink(t, 1) \in Seq(A) /\ FromLink(t, 2) \in Seq(A) /\ FromLink(t, 3) \in Seq(A)
  <2>1. CASE l = <<"abi_flags">>
    <3>1. FromLink(t, 1) = AbiOptions /\ FromLink(t, 2) = << >> /\ FromLink(t, 3) = << >>
      BY <1>2, <1>4, <2>1
    <3> QED
      BY <1>1, <3>1
  <2>2. CASE l = <<"abi_flags", "nsx::board_flags">>
    <3>1. FromLink(t, 1) = AbiOptions /\ FromLink(t, 2) = board /\ FromLink(t, 3) = << >>
      BY <1>2, <1>4, <2>2
    <3> QED
      BY <1>1, <3>1
  <2> QED
    BY <1>5, <2>1, <2>2
<1> DEFINE s1 == <<"-Ofast">> \o FromLink(t, 1)
           s2 == s1 \o FromLink(t, 2)
           all == s2 \o FromLink(t, 3)
<1>7. ASSUME NEW s \in Seq(A), s[1] = "-Ofast", Len(s) >= 1, NEW r \in Seq(A)
      PROVE  s \o r \in Seq(A) /\ (s \o r)[1] = "-Ofast" /\ Len(s \o r) >= 1
  BY <1>7, ConcatProperties
<1>8. s1 \in Seq(A) /\ s1[1] = "-Ofast" /\ Len(s1) >= 1
  <2> DEFINE o == <<"-Ofast">>
  <2>1. o \in Seq(A) /\ Len(o) >= 1 /\ o[1] = "-Ofast"
    BY <1>1
  <2> HIDE DEF o
  <2>2. /\ o \o FromLink(t, 1) \in Seq(A) /\ (o \o FromLink(t, 1))[1] = "-Ofast"
        /\ Len(o \o FromLink(t, 1)) >= 1
    BY <1>6, <1>7, <2>1
  <2> QED
    BY <2>2 DEF o
<1> HIDE DEF s1
<1>9. s2 \in Seq(A) /\ s2[1] = "-Ofast" /\ Len(s2) >= 1
  BY <1>6, <1>7, <1>8
<1> HIDE DEF s2
<1>10. all \in Seq(A) /\ all[1] = "-Ofast" /\ Len(all) >= 1
  BY <1>6, <1>7, <1>9
<1>11. CommandLine(t) = Given(all)
  BY <1>3 DEF CommandLine, s1, s2
<1> HIDE DEF all
<1>12. DOMAIN all = 1..Len(all) /\ Len(all) \in Nat
  BY <1>10, LenProperties
<1>14. \A i \in DOMAIN Given(all) : Given(all)[i] = all[i] /\ i \in 1..Len(all)
  BY <1>12 DEF Given
<1>15. \A i \in 1..Len(all) : all[i] \in A
  BY <1>10, ElementOfSeq
<1>16. "-fno-fast-math" \notin A
  BY DEF A, Levels
<1>17. \A i \in DOMAIN CommandLine(t) : CommandLine(t)[i] # "-fno-fast-math"
  BY <1>11, <1>14, <1>15, <1>16
<1>18. PICK level \in Levels : board \in Seq({"abi", "-ffast-math", level})
  BY BoardAssumption DEF Knob, board
<1>19. /\ DOMAIN board = 1..Len(board) /\ Len(board) \in Nat
       /\ \A i \in 1..Len(board) : board[i] \in Levels => board[i] = level
  <2>1. \A i \in 1..Len(board) : board[i] \in {"abi", "-ffast-math", level}
    BY <1>18, ElementOfSeq
  <2> QED
    BY <1>18, <2>1, LenProperties DEF Levels
<1>20. \A i \in 1..Len(AbiOptions) : AbiOptions[i] = "abi"
  BY AbiOptionsKept, ElementOfSeq
<1>21. CASE l = <<"abi_flags">>
  <2>1. all = <<"-Ofast">> \o AbiOptions
    <3>1. FromLink(t, 1) = AbiOptions /\ FromLink(t, 2) = << >> /\ FromLink(t, 3) = << >>
      BY <1>2, <1>4, <1>21
    <3>2. <<"-Ofast">> \o AbiOptions \in Seq(A)
      BY <1>1, ConcatProperties
    <3> QED
      BY <3>1, <3>2 DEF all, s1, s2
  <2>2. \A i \in 1..Len(all) : all[i] \in {"-Ofast", "abi"}
    BY <1>1, <1>20, <2>1
  <2>3. LastIs(Given(all), Levels, "-Ofast")
    <3>1. \A i \in 1..Len(all) : all[i] \in Levels => all[i] \in {"-Ofast", "-Ofast"}
      BY <2>2 DEF Levels
    <3>2. "-Ofast" \in Levels
      BY DEF Levels
    <3> QED
      BY <1>10, <3>1, <3>2, LastLevel
  <2>4. OfProvider("-Ofast")
    BY <1>21 DEF OfProvider
  <2> QED
    BY <1>11, <1>17, <2>3, <2>4 DEF Levels
<1>22. CASE l = <<"abi_flags", "nsx::board_flags">>
  <2>1. all = (<<"-Ofast">> \o AbiOptions) \o board
    <3>1. FromLink(t, 1) = AbiOptions /\ FromLink(t, 2) = board /\ FromLink(t, 3) = << >>
      BY <1>2, <1>4, <1>22
    <3> DEFINE first == <<"-Ofast">> \o AbiOptions
    <3>2. first \in Seq(A)
      BY <1>1, ConcatProperties
    <3> HIDE DEF first
    <3>3. first \o board \in Seq(A)
      BY <1>1, <3>2, ConcatProperties
    <3> DEFINE line == first \o board
    <3>4. s1 = first
      BY <3>1 DEF first, s1
    <3>5. s2 = line
      BY <3>1, <3>4 DEF s2
    <3> HIDE DEF line
    <3>6. line \o << >> = line
      BY <3>3, ConcatEmptySeq DEF line
    <3>7. all = line
      BY <3>1, <3>5, <3>6 DEF all
    <3> QED
      BY <3>7 DEF first, line
  <2> DEFINE n == 1 + Len(AbiOptions)
             first == <<"-Ofast">> \o AbiOptions
  <2>2. /\ first \in Seq(A) /\ Len(first) = n /\ n \in Nat
        /\ \A i \in 1..n : first[i] \in {"-Ofast", "abi"}
    BY <1>1, <1>20
  <2> HIDE DEF first
  <2>3. /\ Len(all) = n + Len(board)
        /\ \A i \in 1..Len(all) : all[i] = IF i <= n THEN first[i] ELSE board[i - n]
    BY <1>1, <2>1, <2>2, ConcatProperties DEF first
  <2> HIDE DEF n
  <2>4. \A i \in 1..Len(all) : all[i] \in Levels => all[i] \in {"-Ofast", level}
    <3> SUFFICES ASSUME NEW i \in 1..Len(all), all[i] \in Levels
                 PROVE  all[i] \in {"-Ofast", level}
      OBVIOUS
    <3>1. CASE i <= n
      BY <2>2, <2>3, <3>1 DEF Levels
    <3>2. CASE ~(i <= n)
      <4>1. i - n \in 1..Len(board) /\ all[i] = board[i - n]
        BY <1>12, <1>19, <2>2, <2>3, <3>2
      <4> QED
        BY <1>19, <4>1
    <3> QED
      BY <3>1, <3>2
  <2> DEFINE last == IF \E i \in 1..Len(all) : all[i] = level THEN level ELSE "-Ofast"
  <2>5. LastIs(Given(all), Levels, last)
    BY <1>10, <2>4, LastLevel
  <2>6. OfProvider(last) /\ last \in Levels
    <3>1. \E i \in DOMAIN links["cmsis-nn"] : links["cmsis-nn"][i] = "nsx::board_flags"
      BY <1>22
    <3>2. CASE \E i \in DOMAIN knobs.board : knobs.board[i] \in Levels
      <4>1. PICK i \in 1..Len(board) : board[i] = level
        BY <1>19, <3>2 DEF board
      <4>2. n + i \in 1..Len(all) /\ all[n + i] = level
        BY <1>19, <2>2, <2>3, <4>1
      <4>3. last = level
        BY <4>2
      <4> QED
        BY <1>19, <3>1, <3>2, <4>1, <4>3 DEF OfProvider, board
    <3>3. CASE ~\E i \in DOMAIN knobs.board : knobs.board[i] \in Levels
      <4>1. \A i \in 1..Len(all) : all[i] = level => level = "-Ofast"
        <5> SUFFICES ASSUME NEW i \in 1..Len(all), all[i] = level, i > n PROVE FALSE
          BY <2>2, <2>3 DEF Levels
        <5>1. i - n \in 1..Len(board) /\ board[i - n] = level
          BY <1>12, <1>19, <2>2, <2>3
        <5> QED
          BY <1>19, <3>3, <5>1 DEF board
      <4>2. last = "-Ofast"
        BY <4>1
      <4> QED
        BY <3>3, <4>2 DEF OfProvider, Levels
    <3> QED
      BY <3>2, <3>3
  <2> QED
    BY <1>11, <1>17, <2>5, <2>6
<1> QED
  BY <1>5, <1>21, <1>22

(* On every target of an accepted build, whatever the board gives and       *)
(* through however many links it arrives: the optimization level and the    *)
(* float semantics are the ones CMakeLists.txt:430-470 decides.             *)
THEOREM OptimizationCorrect == Spec => []OptimizationOwned
<1>1. Carried => OptimizationOwned
  <2> SUFFICES ASSUME Carried, pc \in Configured, NEW t \in DOMAIN links
               PROVE  IF t = "cmsis-nn"
                      THEN /\ \E level \in Levels :
                                OfProvider(level) /\ LastIs(CommandLine(t), Levels, level)
                           /\ \A i \in DOMAIN CommandLine(t) :
                                CommandLine(t)[i] # "-fno-fast-math"
                      ELSE /\ LastIs(CommandLine(t), Levels, OptFlag)
                           /\ LastIs(CommandLine(t), Switches,
                                     IF t = "portable_kernels"
                                     THEN "-funsafe-math-optimizations"
                                     ELSE "-fno-fast-math")
    BY DEF OptimizationOwned
  <2>1. knobs \in Knob /\ links[t] \in Linked(t)
    BY DEF Carried, Created, Configured
  <2> QED
    BY <2>1, OwnedByModule, PinnedByProvider
<1> QED
  BY <1>1, CarriedInit, CarriedStep, PTL DEF Spec

=============================================================================
