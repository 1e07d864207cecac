---------------------------- MODULE BuildConfig ----------------------------
(***************************************************************************)
(* CMakeLists.txt and cmake/cmsis-nn-provider/CMakeLists.txt: one           *)
(* application configures a build directory, possibly several times with    *)
(* other knobs, and boots what it built.  Targets live for one configure    *)
(* run, the cache outlives it.  The application adds provider modules in    *)
(* any order before this one.  Only the flags that decide the optimization  *)
(* level and the float semantics are kept; "abi" stands for all others the  *)
(* board gives, "hygiene" for the rest of the module's own.                 *)
(***************************************************************************)
EXTENDS Naturals, Sequences

CONSTANTS Knobs,          \* the settings an application may choose from
          AppModules,     \* what it may add: subset of {"arm", "ns", "foreign"}
          Boards,         \* option lists of nsx::board_flags
          MaxConfigures   \* bound on configure runs of one build directory

Knob == [provider : {"arm", "ns", "other"}, nsOps : BOOLEAN, portable : Nat,
         needsEntropy : BOOLEAN, profiling : BOOLEAN,
         optimization : {"speed", "size", "other"}, root : {"unset", "good", "bad"},
         nsxApp : BOOLEAN, selectsModel : BOOLEAN, clang : BOOLEAN,
         board : Boards]

Levels == {"-O3", "-Os", "-Ofast"}

(* A board gives one optimization level at most, and of the switches of the *)
(* float semantics -ffast-math only.                                        *)
ASSUME BoardAssumption ==
  \A board \in Boards : \E level \in Levels :
    board \in Seq({"abi", "-ffast-math", level})
ASSUME KnobsAssumption == Knobs \subseteq Knob
ASSUME BoundAssumption == MaxConfigures \in Nat

VARIABLES pc,          \* the next block of CMakeLists.txt, or the booted state
          knobs,       \* NSX_EXECUTORCH_* and the surroundings of this run
          targets,     \* whose source each provider target was made from
          links,       \* LINK_LIBRARIES of every concrete target, in order
          traced,      \* targets that compile with ET_EVENT_TRACER_ENABLED
          cache,       \* the forced cache entries
          kernels,     \* registrations done before main(), by library
          configures

vars == <<pc, knobs, targets, links, traced, cache, kernels, configures>>

ProviderTargets == {"cmsis-nn", "nsx::arm_cmsis_nn", "nsx::cmsis_nn"}
Sources == {"none", "arm", "ns", "foreign"}
Configured == {"ready", "booting", "main", "trapped"}

Exists(t) == targets[t] # "none"
Fatal == pc' = "fatal" /\ UNCHANGED <<targets, links, traced, cache>>
With(f, t, v) == [x \in DOMAIN f \cup {t} |-> IF x = t THEN v ELSE f[x]]

-----------------------------------------------------------------------------
(* The application.                                                         *)

Init ==
  /\ pc = "app" /\ knobs \in Knobs /\ configures = 1
  /\ targets = [t \in ProviderTargets |-> "none"]
  /\ links = << >> /\ traced = {} /\ kernels = << >>
  /\ cache = [slots |-> 0, tracer |-> FALSE]

(* arm-cmsis-nn reuses a cmsis-nn target it finds, and names it.            *)
AddArm ==
  /\ ~Exists("nsx::arm_cmsis_nn")
  /\ LET source == IF Exists("cmsis-nn") THEN targets["cmsis-nn"] ELSE "arm"
     IN targets' = [targets EXCEPT !["cmsis-nn"] = source,
                                   !["nsx::arm_cmsis_nn"] = source]

(* nsx-cmsis-nn makes only its own target.                                  *)
AddNs == ~Exists("nsx::cmsis_nn") /\ targets' = [targets EXCEPT !["nsx::cmsis_nn"] = "ns"]

(* A cmsis-nn target of the application's own, whatever its source.         *)
AddForeign == ~Exists("cmsis-nn") /\ targets' = [targets EXCEPT !["cmsis-nn"] = "foreign"]

AddModule ==
  /\ pc = "app"
  /\ \/ "arm" \in AppModules /\ AddArm
     \/ "ns" \in AppModules /\ AddNs
     \/ "foreign" \in AppModules /\ AddForeign
  /\ UNCHANGED <<pc, knobs, links, traced, cache, kernels, configures>>

AddExecutorch ==
  /\ pc = "app" /\ pc' = "knobs"
  /\ UNCHANGED <<knobs, targets, links, traced, cache, kernels, configures>>

(* A new configure run of the same build directory: the targets are gone,   *)
(* the cache is not.                                                        *)
Reconfigure ==
  /\ pc \in Configured \cup {"fatal"} /\ configures < MaxConfigures
  /\ pc' = "app" /\ knobs' \in Knobs /\ configures' = configures + 1
  /\ targets' = [t \in ProviderTargets |-> "none"]
  /\ links' = << >> /\ traced' = {} /\ kernels' = << >>
  /\ UNCHANGED cache

-----------------------------------------------------------------------------
(* The checks before anything is created.                                   *)

CheckKnobs ==
  /\ pc = "knobs"
  /\ IF \/ knobs.optimization = "other"
        \/ knobs.nsOps /\ knobs.provider # "ns"
     THEN Fatal
     ELSE pc' = "provider" /\ UNCHANGED <<targets, links, traced, cache>>
  /\ UNCHANGED <<knobs, kernels, configures>>

(* An override wins, right or wrong; otherwise the module directory of the  *)
(* NSX application, which is there when the application has the module.     *)
RootFound ==
  \/ knobs.root = "good"
  \/ /\ knobs.root = "unset" /\ knobs.nsxApp
     /\ Exists(IF knobs.provider = "arm" THEN "nsx::arm_cmsis_nn" ELSE "nsx::cmsis_nn")

CheckProvider ==
  /\ pc = "provider"
  /\ IF knobs.provider = "other" \/ ~RootFound
     THEN Fatal
     ELSE pc' = "order" /\ UNCHANGED <<targets, links, traced, cache>>
  /\ UNCHANGED <<knobs, kernels, configures>>

(* The selected provider must come first in an NSX application, and a       *)
(* cmsis-nn target that is already there must be the selected provider's.   *)
ReusesAnyTarget ==                                                  \* mutant
  /\ knobs.nsxApp /\ knobs.provider = "arm" => Exists("nsx::arm_cmsis_nn")
  /\ knobs.nsxApp /\ knobs.provider = "ns"
       => Exists("nsx::cmsis_nn") /\ ~Exists("cmsis-nn")
  /\ knobs.provider = "arm" /\ Exists("cmsis-nn") => Exists("nsx::arm_cmsis_nn")
OrderAccepted ==
  /\ knobs.nsxApp /\ knobs.provider = "arm" => Exists("nsx::arm_cmsis_nn")
  /\ knobs.nsxApp /\ knobs.provider = "ns"
       => Exists("nsx::cmsis_nn") /\ ~Exists("cmsis-nn")
  /\ knobs.provider = "arm" /\ Exists("cmsis-nn") => Exists("nsx::arm_cmsis_nn")
  /\ ~(knobs.provider = "ns" /\ Exists("cmsis-nn") /\ Exists("nsx::arm_cmsis_nn"))

CheckOrder ==
  /\ pc = "order"
  /\ IF OrderAccepted
     THEN pc' = "options" /\ UNCHANGED <<targets, links, traced, cache>>
     ELSE Fatal
  /\ UNCHANGED <<knobs, kernels, configures>>

-----------------------------------------------------------------------------
(* Options, the kernel registry and ExecuTorch's own build.                 *)

BuiltInKernels == 25 + 16    \* prim ops, cortex_m ops
NsKernels == 5

(* set(... CACHE ... FORCE): the value of this run, whatever the cache had. *)
FirstValueSticks(old, new) == IF cache.slots = 0 THEN new ELSE old  \* mutant
Forced(old, new) == new

MaxKernelNum == IF knobs.nsOps THEN 96 ELSE 64

ForgetsNsKernels == BuiltInKernels + knobs.portable                 \* mutant
RegisteredKernels ==
  BuiltInKernels + (IF knobs.nsOps THEN NsKernels ELSE 0) + knobs.portable

(* Stops without torchgen on the host, on another selection of operators    *)
(* (the tracer option is forced by then) or on more kernels than slots.     *)
SetOptions ==
  /\ pc = "options"
  /\ \/ Fatal
     \/ LET tracer == Forced(cache.tracer, knobs.profiling)
            slots == Forced(cache.slots, MaxKernelNum)
        IN /\ cache' = IF knobs.selectsModel THEN [cache EXCEPT !.tracer = tracer]
                       ELSE [slots |-> slots, tracer |-> tracer]
           /\ pc' = IF knobs.selectsModel \/ RegisteredKernels > slots
                    THEN "fatal" ELSE "subtree"
           /\ UNCHANGED <<targets, links, traced>>
  /\ UNCHANGED <<knobs, kernels, configures>>

(* The provider adapter, run by ExecuTorch's cortex_m build: leave a        *)
(* cmsis-nn that exists, bridge to nsx::cmsis_nn, or build the source.      *)
AdapterReturns == Exists("cmsis-nn")
Bridges == knobs.provider = "ns" /\ Exists("nsx::cmsis_nn")

AddSubtree ==
  /\ pc = "subtree"
  /\ IF AdapterReturns
     THEN pc' = "flags" /\ UNCHANGED targets
     ELSE /\ pc' = IF Exists("cmsis-nn") THEN "duplicate" ELSE "flags"
          /\ targets' = [targets EXCEPT !["cmsis-nn"] = knobs.provider]
  /\ links' =
       [t \in {"executorch_core", "cortex_m_kernels"}
                 \cup (IF knobs.portable > 0 THEN {"portable_kernels"} ELSE {})
                 \cup (IF AdapterReturns \/ Bridges THEN {} ELSE {"cmsis-nn"}) |->
          IF t = "cortex_m_kernels" THEN <<"cmsis-nn">> ELSE << >>]
  /\ traced' = IF cache.tracer THEN DOMAIN links' \ {"cmsis-nn"} ELSE {}
  /\ UNCHANGED <<knobs, cache, kernels, configures>>

-----------------------------------------------------------------------------
(* Compile flags: carried by INTERFACE targets that are linked last.        *)

(* _nsx_executorch_abi_options: the board's, less the optimization policy.  *)
AbiOptions ==
  LET board == knobs.board
      kept[i \in 0..Len(board)] ==
        IF i = 0 THEN << >>
        ELSE IF board[i] \in Levels \cup {"-ffast-math"} THEN kept[i - 1]
        ELSE Append(kept[i - 1], board[i])
  IN  kept[Len(board)]
OptFlag == IF knobs.optimization = "speed" THEN "-O3" ELSE "-Os"

(* COMPILE_OPTIONS a target sets itself: the provider pins -Ofast.          *)
OwnOptions(t) == IF t = "cmsis-nn" THEN <<"-Ofast">> ELSE << >>

(* What a target gets from one it links.                                    *)
InterfaceOptions(name) ==
  CASE name \in {"cmsis-nn", "nsx::core", "nsx::board_flags"} -> knobs.board
    [] name = "abi_flags" -> AbiOptions
    [] name = "module_flags" ->
         AbiOptions \o <<OptFlag, "-fno-fast-math", "hygiene">>
    [] name = "math_flags" -> <<"-funsafe-math-optimizations", "-ffinite-math-only">>
    [] OTHER -> << >>

(* What CMake collects: a target's own options, then those of each target  *)
(* it links, of which there are three at most, in order.                    *)
FromLink(t, i) ==
  IF i \in DOMAIN links[t] THEN InterfaceOptions(links[t][i]) ELSE << >>
Collected(t) == OwnOptions(t) \o FromLink(t, 1) \o FromLink(t, 2) \o FromLink(t, 3)

(* The command line, by position: an option already given is dropped.       *)
Given(all) ==
  [i \in {i \in DOMAIN all : \A j \in 1..(i - 1) : all[j] # all[i]} |-> all[i]]
CommandLine(t) == Given(Collected(t))

CarriedFirst(list, carrier) == <<carrier>> \o list                  \* mutant
Carry(list, carrier) == Append(list, carrier)

ApplyFlags ==
  /\ pc = "flags" /\ pc' = "finish"
  /\ links' = [t \in DOMAIN links |->
       LET carried ==
             Carry(links[t],
                   IF \E i \in DOMAIN OwnOptions(t) : OwnOptions(t)[i] \in Levels
                   THEN "abi_flags" ELSE "module_flags")
       IN IF t = "portable_kernels" THEN Append(carried, "math_flags") ELSE carried]
  /\ UNCHANGED <<knobs, targets, traced, cache, kernels, configures>>

(* Outside an NSX application arm-cmsis-nn is added now: it reuses the      *)
(* cmsis-nn target and links the board flags into it.                       *)
FinishArm ==
  /\ pc = "finish" /\ pc' = "nsops"
  /\ IF knobs.provider = "arm" /\ ~Exists("nsx::arm_cmsis_nn")
     THEN /\ AddArm
          /\ links' = IF "cmsis-nn" \in DOMAIN links
                      THEN [links EXCEPT !["cmsis-nn"] = Append(@, "nsx::board_flags")]
                      ELSE links
     ELSE UNCHANGED <<targets, links>>
  /\ UNCHANGED <<knobs, traced, cache, kernels, configures>>

-----------------------------------------------------------------------------
(* The libraries of this repository.                                        *)

AddNsOps ==
  /\ pc = "nsops"
  /\ \/ ~knobs.nsOps /\ pc' = "adapter" /\ UNCHANGED <<targets, links, traced, cache>>
     \/ knobs.nsOps /\ Fatal                               \* no PyYAML on the host
     \/ /\ knobs.nsOps /\ pc' = "adapter"
        /\ links' =
             With(With(links, "cortex_m_ns_kernels",
                       Carry(<<"cmsis-nn", "executorch">>, "module_flags")),
                  "cortex_m_ns_ops_lib", Carry(<<"executorch">>, "module_flags"))
        /\ traced' = traced \cup (IF knobs.profiling
                                  THEN {"cortex_m_ns_kernels", "cortex_m_ns_ops_lib"}
                                  ELSE {})
        /\ UNCHANGED <<targets, cache>>
  /\ UNCHANGED <<knobs, kernels, configures>>

(* ... and the adapter, with the toolchain's last word: libc++ on bare      *)
(* metal has no entropy source for rand, randn and native_dropout.          *)
AddAdapter ==
  /\ pc = "adapter"
  /\ IF knobs.clang /\ knobs.portable > 0 /\ knobs.needsEntropy
     THEN Fatal
     ELSE /\ pc' = "ready"
          /\ links' = With(links, "nsx_executorch",
                           Carry(<<"nsx::core", "executorch">>, "module_flags"))
          /\ traced' = traced \cup (IF knobs.profiling THEN {"nsx_executorch"} ELSE {})
          /\ UNCHANGED <<targets, cache>>
  /\ UNCHANGED <<knobs, kernels, configures>>

-----------------------------------------------------------------------------
(* Static initializers of the firmware, in the order the linker chose.      *)

Registers ==
  [lib \in {"prim_ops", "cortex_m_ops"}
             \cup (IF "cortex_m_ns_ops_lib" \in DOMAIN links THEN {"cortex_m_ns_ops"} ELSE {})
             \cup (IF "portable_kernels" \in DOMAIN links THEN {"portable_ops"} ELSE {}) |->
     CASE lib = "prim_ops" -> 25
       [] lib = "cortex_m_ops" -> 16
       [] lib = "cortex_m_ns_ops" -> 5
       [] lib = "portable_ops" -> knobs.portable]

Registered(lib) == IF lib \in DOMAIN kernels THEN kernels[lib] ELSE 0
InRegistry == Registered("prim_ops") + Registered("cortex_m_ops")
                + Registered("cortex_m_ns_ops") + Registered("portable_ops")

Boot ==
  /\ pc = "ready" /\ pc' = "booting"
  /\ UNCHANGED <<knobs, targets, links, traced, cache, kernels, configures>>

(* A registration past the last slot aborts, before main() and silently.    *)
Register ==
  /\ pc = "booting"
  /\ \E lib \in DOMAIN Registers \ DOMAIN kernels :
       IF InRegistry + Registers[lib] > cache.slots
       THEN pc' = "trapped" /\ UNCHANGED kernels
       ELSE /\ kernels' = With(kernels, lib, Registers[lib])
            /\ pc' = IF DOMAIN kernels' = DOMAIN Registers THEN "main" ELSE pc
  /\ UNCHANGED <<knobs, targets, links, traced, cache, configures>>

Next ==
  \/ AddModule \/ AddExecutorch \/ Reconfigure
  \/ CheckKnobs \/ CheckProvider \/ CheckOrder \/ SetOptions
  \/ AddSubtree \/ ApplyFlags \/ FinishArm \/ AddNsOps \/ AddAdapter
  \/ Boot \/ Register

Spec == Init /\ [][Next]_vars

-----------------------------------------------------------------------------
(* Properties.                                                              *)

(* A build that is accepted links its kernels with the provider it selects, *)
(* whatever the application added before and in which order: the compat     *)
(* header and the ns operators go by the selection.  Only a cmsis-nn target *)
(* of the application's own escapes CMakeLists.txt:149-175, and not in an   *)
(* NSX application that selects ns.  And no order of modules makes a second *)
(* cmsis-nn target, which CMake refuses: what the adapter's first lines are *)
(* for.                                                                     *)
SelectedProviderLinked ==
  /\ pc # "duplicate"
  /\ pc \in Configured =>
       \/ targets["cmsis-nn"] = knobs.provider
       \/ /\ targets["cmsis-nn"] = "foreign"
          /\ ~(knobs.nsxApp /\ knobs.provider = "ns")

(* Firmware that configured never runs out of registry slots before main(): *)
(* the count of CMakeLists.txt:296-317 covers what is really registered.    *)
EveryBootReachesMain == pc # "trapped"

Switches == {"-fno-fast-math", "-ffast-math", "-funsafe-math-optimizations"}
LastIs(line, Which, o) ==
  \E i \in DOMAIN line : /\ line[i] = o /\ o \in Which
                         /\ \A j \in DOMAIN line : line[j] \in Which => j <= i

(* The level the provider is compiled with: its own, unless the board's     *)
(* options are linked into it and have one.                                 *)
OfProvider(level) ==
  IF /\ \E i \in DOMAIN links["cmsis-nn"] : links["cmsis-nn"][i] = "nsx::board_flags"
     /\ \E i \in DOMAIN knobs.board : knobs.board[i] \in Levels
  THEN \E i \in DOMAIN knobs.board : knobs.board[i] = level
  ELSE level = "-Ofast"

(* The last -O and the last word on float semantics are this module's on    *)
(* every target but the provider, though the board's options arrive through *)
(* whatever links it; only portable_kernels is relaxed.  Of the provider    *)
(* this module has neither word: the last -O is the provider's own or, when *)
(* arm-cmsis-nn is added after it, the board's, and nothing says            *)
(* -fno-fast-math.                                                          *)
OptimizationOwned ==
  pc \in Configured =>
    \A t \in DOMAIN links :
      LET line == CommandLine(t)
      IN IF t = "cmsis-nn"
         THEN /\ \E level \in Levels : OfProvider(level) /\ LastIs(line, Levels, level)
              /\ \A i \in DOMAIN line : line[i] # "-fno-fast-math"
         ELSE /\ LastIs(line, Levels, OptFlag)
              /\ LastIs(line, Switches,
                        IF t = "portable_kernels" THEN "-funsafe-math-optimizations"
                                                  ELSE "-fno-fast-math")

(* What CMakeLists.txt and docs/build-options.md say of the provider: it    *)
(* keeps the -Ofast it pinned, for either provider.                         *)
ProviderKeepsItsLevel ==
  pc \in Configured /\ "cmsis-nn" \in DOMAIN links =>
    LastIs(CommandLine("cmsis-nn"), Levels, "-Ofast")

(* ET_EVENT_TRACER_ENABLED changes the layout inline code relies on: the    *)
(* runtime, the ns libraries and the adapter all have it or none has, in    *)
(* the run that follows a change of the knob too.                           *)
TracerAgrees ==
  pc \in Configured =>
    traced = IF knobs.profiling THEN DOMAIN links \ {"cmsis-nn"} ELSE {}

=============================================================================
