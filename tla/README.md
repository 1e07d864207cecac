# Verification of nsx-executorch

TLA+ models of this repository, the TLC configurations that check them on small
instances, and TLAPS proofs of the properties that matter most for every value
of the constants. Paths are relative to the repository root; `PROJECT.json` maps
every definition to the lines it models, lists the hazards of the code with the
properties that watch them, and names for every checked property a mutant of the
model that it catches.

To check a module, `tlc -config X.cfg MCModule`; to check the proofs about a
module, `tlapm XProofs.tla` (seven modules and their common `RecursionLemmas`, section 4).

## 1. The system

nsx-executorch has two halves that meet in two files, and carries a code
generator for the firmware build.

On the host, the Python package `aot/nsx_cortex_m` (the `helia-torch` command)
takes an exported PyTorch program, quantizes it if it is not quantized yet,
lowers it to ExecuTorch's `cortex_m::` operators or, for the ns provider, to
`cortex_m_ns::` operators too, and writes a `.pte` and a sidecar that describes
it. CMake builds ExecuTorch, one CMSIS-NN provider (arm or ns) and the adapter
into firmware. On the target, `run_once` loads the `.pte`, runs it once and
copies the outputs into the caller's buffers; inside, ExecuTorch's kernels call
the provider through a compatibility header.

The firmware registers only the portable kernels the application names.
ExecuTorch selects and generates those with torchgen, the code generator of
PyTorch, which a firmware build machine does not have; the repository therefore
vendors the package (`tools/python/PROVENANCE.md`). ExecuTorch's scripts import
its parser, selection, signatures and file manager; `torchgen.gen` itself drives
the same parts, and is what the model runs.

| Part | State | Operations | Talks to |
| --- | --- | --- | --- |
| Runtime adapter, `src/nsx_executorch.cpp`, `includes-api/nsx_executorch.h` | the caller's `Buffer`s, its arenas, open tracer scopes, the cycle counter | `run_once`, `run_once_profiled`, `start_profiling`, `end_profiling`, the platform hooks | calls ExecuTorch; ExecuTorch calls back the tracer, and the tracer the caller |
| Compatibility header, `includes-private/nsx_cmsis_nn_compat.h` | one scratch buffer per convolution | three size queries, three convolutions, `split_context` | between ExecuTorch's kernels and ns-cmsis-nn |
| PTE and sidecar, `aot/nsx_cortex_m/manifest.py`, `export.py`, `cli.py` | two files | `write_pte`, `write_sidecar`, `load_sidecar`, `compile`, `inspect`, `report` | other processes, through the file system |
| Export, `export.py`, `cli.py` | the graph, the observers, the report | `export`, `quantize`, `is_pt2e_quantized`, the command line | torch, torchao, ExecuTorch |
| ns quantizer and passes, `quantizer_ns.py`, `passes_ns.py`, `pass_manager_ns.py` | the annotations and form of each node | three checks, five passes | run inside export and inside ExecuTorch's pass manager |
| ns operators, `ops-ns/*.cpp`, `operators_ns.py` | none between calls | sub, mean, relu, leaky_relu, hardswish | lowered to by the passes, called by ExecuTorch, call ns-cmsis-nn |
| Build, `CMakeLists.txt`, `cmake/cmsis-nn-provider` | targets, cache, link lists | one configure run | the provider modules, ExecuTorch's build |
| torchgen, `tools/python/torchgen` | an install directory, the files of a run | parse, complete, select, generate; `FileManager` | reads yaml and selections, writes C++ |
| Generated structured kernels, `dest/register_dispatch_key.py` | one object per call: outputs, proxies, guard | `meta`, `set_output_*`, `impl`, copy back | the dispatcher calls them, they call the hand-written kernel |

What is hard here:

- *State that outlives a call.* `outputs[i].size` is a capacity on entry and a
  length on return, on failure too. A caller that reuses its Buffers hands the
  leftovers of one call to the next.
- *Failure in the middle.* A call can stop at any output, a compile between its
  two files, an export between two passes.
- *Other processes.* Two compiles to one path, or a compile and a load.
- *Nesting.* Tracer scopes nest and are closed on error paths; callbacks to the
  caller must still come in pairs.
- *Width.* 32-bit cycle counters wrap, a plan's int64 size is cut to `size_t`,
  scratch sizes near INT32_MAX overflow.
- *Things agreed on twice.* The size query and the call compute the layout
  separately; the quantizer's checks and the passes' qualifiers are written
  separately; the registry count and the registrations are.
- *Fixed point.* A float operator becomes a multiplier, a shift and a mask, in
  Python; C++ validates them again, months later, on the target.
- *Generated text.* What a generated file declares, includes, calls and registers
  is decided in different functions by different conditions, and values are
  matched with arguments by position.
- *Incremental output.* A generator run leaves files alone whose text did not
  change, over whatever an earlier or a killed run left.
- *Order nobody fixes.* Which project makes the `cmsis-nn` target first, which
  static initializer runs first, where the board's flags land on a command line.

Nothing in the runtime is concurrent: one call runs on one thread, and the
header documents no reentrancy. The concurrency of the system is that of
processes over the two files.

Hazard by hazard, with its line, its properties or the reason it has none:
`PROJECT.json`, `hazards`.

## 2. Modules

| Module | Models | Checked by | Proved in |
| --- | --- | --- | --- |
| `RunOnce` | the runtime adapter and a caller that reuses its Buffers | `MCRunOnce`, two configurations | `RunOnceProofs` |
| `RunContract` | what the adapter promises about output Buffers, abstractly | as a property of `RunOnce` | `RunOnceProofs` |
| `ScratchLayout` | size and split arithmetic of the compatibility header | through `ConvCall` | `ConvCallProofs` |
| `ConvCall` | one scratch buffer from the size query to the end of the kernel | `MCConvCall` | `ConvCallProofs` |
| `SidecarStore` | the two files and the processes that use them | `MCSidecarStore`, two configurations | `SidecarProofs` |
| `NsLowering` | annotation and rewriting of one operator | through `AotFlow` | `AotFlowProofs` |
| `AotFlow` | quantize, export, the command line, the pass pipeline, the report | `MCAotFlow`, three configurations | `AotFlowProofs` |
| `NsKernels` | one operator from its scales to its int8 result | `MCNsKernels` | `NsKernelsProofs` |
| `BuildConfig` | configure runs of one build directory, and the boot of the result | `MCBuildConfig`, two configurations | `BuildConfigProofs` |
| `OperatorSchema`, `NativeFunctions` | an operator's schema, an entry of the yaml file, its groups and kernels, and the checks on them | through `Torchgen` | |
| `GeneratedFunctions` | the variants the generator adds and the kernels it invents for them | through `Torchgen` | |
| `SelectiveBuild` | the queries of a selection, and the merge of several | through `Torchgen` | `TorchgenProofs` |
| `CppApi` | the bindings of the four C++ signatures, and `translate` | through `Torchgen` | |
| `Registration`, `Functionalization` | what is registered for each key and what the written C++ calls | through `Torchgen` | |
| `GeneratedFiles` | which files there are and the text of each | through `Torchgen` | |
| `FileManager` | runs of the generator, real, dry and killed, on one directory | through `Torchgen` | `TorchgenProofs` |
| `Torchgen` | what a run does: options, checks, writes | through `GeneratedCode` | `TorchgenProofs` |
| `StructuredKernel` | one call of a generated structured kernel | through `GeneratedCode` | `TorchgenProofs` |
| `GeneratedCode` | composes the two: run the generator, then call what it wrote | `MCTorchgen` | `TorchgenProofs` |

The torchgen modules extend one another in the order of the table, but for
`SelectiveBuild`, `FileManager` and `StructuredKernel`, which extend none.
`FileManager` runs any `Plans`; those of `Torchgen` are what `main` makes of its
inputs.

### RunOnce

`pc` is the stage of `run_once_profiled`, `args` its arguments, `outputs` the
caller's Buffers with the capacity the caller really allocated beside the `size`
field the code reads and writes. Tensor contents are one mark per Buffer ("old",
"new", "garbage"), and a `.pte` is what loading it yields: sizes, I/O slots,
execution plan. Each block of the function is one action with all its early
returns (`CheckArguments`, `LoadProgram`, `PlanMemory`, `LoadMethod`); each
iteration of the two copy loops is one (`CopyInput`, `CopyOutput`).
`Method::execute` is ExecuTorch's and modelled from how the adapter uses it: an
instruction opens a profiling scope (`OpenInstruction`), a kernel a second one
inside it (`OpenWrapper`), the body takes some cycles and may fail (`RunBody`),
scopes close in order (`CloseScope`), also on failure. `StartProfiling` and
`EndProfiling` are the tracer with its name lookup (`Identity`). `Abort` is a
failed check of ExecuTorch, which ends in the loop of `et_pal_abort` (`Spin`).
Between calls the caller may enlarge a Buffer that was refused (`Grow`) or
restore the size of one that a call wrote to (`Restore`), or do neither: `Enter`
offers the Buffers as they are. A Buffer that was told a size and not grown then
claims more bytes than it has, the adapter believes it, and its copy goes past the
allocation (`Overrun`, after which nothing more is claimed of the program). The
history variable `told` remembers which Buffers hold such a size. The counter and
`size_t` keep their widths as `CycleMod` and `SizeMod`.

That the planned arena holds the method's tensors is ExecuTorch's own check at
`load_method` (`MethodLoads`). The adapter compares with a size cut to `size_t`,
which may let a plan through that does not fit, and then is told so by that check;
no property credits the adapter with it.

`RunContract` knows none of this: Buffers, a phase, and how many outputs were
delivered. `ImplementsContract` is the refinement; its mapping takes `phase`
from `pc` and `done` from the loop index. A caller that offers more than it has may
end it (`Spill`), as an abort may (`Die`).

### ScratchLayout and ConvCall

ns-cmsis-nn wants a weight-sum area that stock CMSIS-NN does not know, so the
header answers the size query with both areas together and cuts the buffer when
the convolution runs. `ScratchLayout` is that arithmetic, over unbounded
integers with `MaxInt` for INT32_MAX, so that an overflow shows as a value out
of `Int32`. `ConvCall` follows a call of each of the three kinds and keeps the
memory byte by byte, marked by who wrote it last. The sizes the provider
answers, errors included, are the constants `Sizes` and `WeightSums`.

### SidecarStore

`pte` and `json` are the files, `proc` the processes. `write_pte` truncates,
writes block by block and closes; `write_sidecar` reads the `.pte` back, hashes
it, truncates the sidecar, writes it; `load_sidecar` reads the sidecar and, when
asked to verify, hashes the `.pte`. `Crash` is possible between any two steps.
The hash is injective: a manifest carries the bytes it was computed from.

### NsLowering and AotFlow

A graph is a sequence of nodes that keep what the checks and qualifiers look at:
the operator, its form now (aten, stub, ns, cortex_m, fused), whether its
arguments are supported, whether its shifts fit, whether it is quantized and
whether its inputs are int8 already. `NsLowering` says what the quantizer
annotates and what each pass makes of a node. `AotFlow` is the order: the
command line and its calibration options, at unusable ones of which it exits
(`Usable`), the refusals of `export`, prepare, calibration one sample at a time,
convert, the passes in `NS_PASS_LIST` order between the stock ones, `int8_io`, the
report and the manifest. A qualifier that computes with the scales of an operator
raises on a list of them (`QualifierRaises`). Scales, multipliers and shapes are
left to `NsKernels`.

### BuildConfig

Targets live for one configure run, the cache outlives it. The application adds
arm-cmsis-nn, nsx-cmsis-nn and possibly a `cmsis-nn` target of its own in any
order; then each block of `CMakeLists.txt` is one action that goes on or stops
with an error. `links` keeps the link list of every concrete target, and
`CommandLine` evaluates it as CMake does: own options, then those of each linked
target, a repeated option dropped. The provider is made inside the
ExecuTorch subtree with its own options; the arm module, added after it, links the
board's options into it (`FinishArm`). `Boot` and `Register` are the firmware's
static initializers, which take registry slots library by library in any order.
The contracts of the provider packages are those of the fixtures under `tests/`.

### NsKernels

`prob` is a float operator with its quantization, its shapes and its data; `pc`
follows it from `lower` (the replacements of `passes_ns.py`, which compute
multipliers, shifts, masks and bounds or decline) over `check` (the `ET_CHECK`s
of the kernel) to `run`, where `SubBlock` is one iteration of the broadcast loop
of `quantized_sub_out` and `SingleCall` the call the other four kernels make.
`CallFails` is a status ns-cmsis-nn may return from any call. Scales are exact
rationals; the rounding of `quantize_multiplier_aot`, `requantize_cmsis` and
Python's `round` is modelled by what it does, and an exponent past what any check
accepts stays there (`Exponents`). Of a tensor's dimension order the model keeps
whether it is channels_last, which the broadcasts of sub need and mean declines, and
`Accepted` has the checks of the stock validators on zero points too. `Reference` is what
`operators_ns.py` computes, written from that file and not from the kernels;
`FloatResult` is the float operator.

### The torchgen modules

A yaml file is a set of entries. `NativeFunctions` makes operators and kernels
of them with every check of the parse (an assertion that fails stops the run),
`GeneratedFunctions` adds the functional and out variants and says, value by
value, what the body generated for a variant returns and writes. `SelectiveBuild`
answers which operators a build keeps. `CppApi` is the type translation: which
bindings each signature has, and whether `translate` can make one type of those
at hand (`Typed`). `Registration` and `Functionalization` give, per dispatch key
and operator group, the symbols declared and defined, the calls made and the
registrations performed; `GeneratedFiles` lays these out over the files of a run
with their includes. The text of C++ is thus a set of symbols and calls. An operator
with a class (`GeneratesClasses`) must pass the assertions of `gen_structured`,
`gen_one` and `gen_class` (`StructuredOK`, `NoneByHand`, `ClassesOK`): no kernel of its
own for Meta or the default backend, none of its functions registered by hand, no
mutable or scratch variant.

`Torchgen` is `main`: what the options of a run mean, which checks stop it, and
the plan of an input, which is the files it writes in order with the text of each.
`FileManager` runs plans: `Start` begins a run, real or dry, on any of the inputs;
`WriteFile` is `write_with_template` with its comparison with what is there;
a run may be killed over a file and leave it torn; the last step writes the list
of outputs. A file on disk is remembered by the input it was generated from.

A check of a yaml file stops a run before it writes anything. An assertion about a
text stops it where the text is made, with the files before it written (`TextFails`).
A dry run makes hardly any text: `write_with_template` does not call the function
that yields it and the items of a sharded file are none (`utils.py:210`, `286`). It
comes to its end, and lists every file, on an input whose real run dies. What a dry
run does evaluate are the declarations of the per-operator headers of a key
(`gen.py:2027`). `Stopping` gives both kinds of run the files they stop at.

Each `Register<key>.cpp` includes what `gen_registration_headers` adds whatever the
operators are (`RegistrationHeaders`): `as_strided`, and for a key without an
allocator of its own `empty`, `empty_strided`, `_copy_from` and
`_copy_from_and_resize`. The yaml files of the runs contain these operators, as every
yaml file has to that generates such sources.

`StructuredKernel` is the class and wrapper the generator writes for a structured
operator, run on tensors: the meta function asks for each output once and in
order (`SetOutput`: allocate, or resize and maybe restride, or put a proxy in
front), the guard is set, the implementation writes or throws, proxies are copied
back. `GeneratedCode` calls the wrappers that the last complete run wrote.

Three behaviours of the generator are excepted in the properties, each by a
definition that says when it occurs:

- `Bypassed` (`register_dispatch_key.py:931`): an in-place wrapper hands the
  implementation `outputs_[i]` although a proxy stands in for it, and then
  copies the proxy, which nobody wrote, over the output.
- `NeverWritten` (`gen.py`): the umbrella of the meta headers names one for a root
  name without a structured operator, and a key's source names the header of a root
  whose functions with a kernel for the key are all registered by hand
  (`OnlyByHand`); no step writes these. A root without any function for the key is not
  excepted.
- `WritesOutAndPositional` (`gen_functionalization_type.py`): an out variant that
  writes a positional argument as well gets its values in another order.

No document of the repository speaks about them, so section 5 does not list them.

## 3. What the runs show

| Run | Distinct states | Question |
| --- | --- | --- |
| `run_contract` | 32,662 | What may a caller conclude from a return, whatever the program, the arguments and earlier calls? |
| `run_profiling` | 252,058 | Are callbacks and cycle counts right when scopes nest, kernels fail or abort, the counter wraps? Does every call return, and does a caller that obeys the sizes it is told get its outputs in the end? |
| `conv_scratch` | 2,024 | Do the two areas fit, align and keep apart for every pair of sizes? |
| `sidecar_serialized` | 17,764 | Are stale and torn pairs refused when compiles to one path do not overlap? |
| `sidecar_concurrent` | violation | ... and when they overlap? |
| `aot_recipes` | 454,242 | What holds for any program, quantized by this package or by others, for each provider and calibration? |
| `aot_fallback_report`, `aot_declined` | violation | Two statements of the documentation the code does not keep |
| `build_config` | 155,432 | Which builds are accepted, and are they what was selected? |
| `build_config_provider` | violation | Does the provider keep its own optimization level? |
| `ns_kernels` | 81,836 | Does an ns operator that was lowered run, inside its operands, and compute what it should? |
| `torchgen` | 497,438 | Do the files of a generator run agree with one another, and the kernels in them with the operators they stand for? |

**Runtime.** `ReturnKeepsContract`: after kOk every output is this call's and
fits; after kOutput exactly the outputs before the refused one are, and the
refused one has been told its size; after any other stage nothing was touched.
`OverrunsWereTold`: the copy compares with the `size` field, not with what the
caller allocated, so a Buffer reused after kOutput can be overrun; that is the only
way. Its size must have been raised by a call that needed it, and been neither grown
nor restored since: no call overruns a Buffer it has told itself, and one that
another call has filled in between is safe again.
`BracketsMatch`, `EveryCallBracketedOnce`: callbacks come in pairs, once per
kernel or delegate call, under the right name, in untraced builds never.
`CyclesExact`: the reported count survives a wrap. `CallsReturn`,
`GrowAndRetryConverges`: liveness.

**Scratch.** `AreasInsideBuffer`, `WeightSumsAligned`, `WeightSumsSurvive` (the
depthwise weight-sum kernel scribbles on the scratch area first),
`RefusedOnlyIfUnrepresentable` (a layer that was answered a size is never
refused) and `NoOverflow`.

**Files.** `VerifiedLoadIsTrue`: a verified load that succeeds describes the
bytes on disk. `CompletedPairIsBound`: a completed compile repairs whatever
earlier ones left. `CompileAcceptsItsOwn`: the load a compile ends with succeeds.

**Export.** `OwnRecipeLowers`: what the ns quantizer annotates the ns passes
lower, although checks and qualifiers are written apart. `SamplesUsed`: an export
with samples was calibrated with all of them. `NoStubLeft`, `NsOpsAreInt8`:
whatever a qualifier declines, no stub and no float operand of an ns operator
reaches the program.

**Build.** `SelectedProviderLinked`, `EveryBootReachesMain` (the configure-time
count covers what is registered), `OptimizationOwned` (the board's
`-O3 -ffast-math` arrives through whatever links it and must not have the last word:
the last level and the last word on float semantics of each target are this
module's. Of the provider it has neither: the last `-O` on that line is the
provider's `-Ofast` or the board's, and no `-fno-fast-math` reaches it; which of the
two it is, is what `ProviderKeepsItsLevel` asks and `build_config_provider` refutes),
`TracerAgrees` (every object has the same layout, also after a reconfigure with
another knob).

**ns operators.** `InBounds`: no kernel call reaches past an operand.
`MatchesReference`: what was written, also before a failed call, is what the
Python reference computes, and a finished operator has written everything.
`CloseToFloat`: the result is within one quantum of the float operator's, for
every pair of scales the qualifiers accept (hardswish also pays for rounding 3
and 6). `LoweredIsAccepted`: the target refuses what was lowered only if it is a sub
whose float scales are further apart than a shift reaches (`ScalesApart`, said of
the scales and not of the shifts the passes computed): shapes, dimension orders, zero
points and all other shifts are as the kernels want them. That such a sub is lowered
at all is part of disagreement 3. `NoInt32Overflow`: products and shifted inputs fit.

**torchgen.** `CompleteRunIsCurrent`: after a run that ends, whatever was on disk,
what it lists is what these inputs give, a dry run the files a real one has to write
(even where that is stopped by a text), and each listed file of a real run holds its
text, also after runs that were killed or stopped half-way. `EveryCallResolves`: each include is a
listed file, each call finds a declaration the file reaches, with arguments
`translate` can make, and one definition. `SelectedOperatorsRegistered`:
an operator some model of the build selects is registered, and no other.
`GeneratedKernelsAgree`, `FunctionalizationFaithful`: generated variants and
functionalized operators return and leave in their arguments what the
hand-written operator does. `ResultsReturned`, `ImplGetsWhatMetaAsked`,
`CallersStridesKept`: one call of a generated structured kernel. The first two except
`Bypassed`, where they are not true.

### Bounds, and why they are enough

- `RunOnce`: two Buffers (a refused one has one before it or after it), capacities
  below, at and above the tensors' sizes; eleven programs, one failing at each
  stage and two well formed (one with a kernel, a move and a delegate in one
  chain, one with an empty chain and two calls to one operator); `size_t` of 3
  bits and a counter of 2, so that truncation and wrap happen. Buffers are reused
  by every later call without bound.
- `ConvCall`: `MaxInt` = 15, every scratch size of that width against seven
  weight-sum sizes. The proofs remove this bound.
- `SidecarStore`: two processes, two models, one of which takes two writes. Two
  suffice for an overlap. The proofs remove the bound for serialized compiles.
- `AotFlow`: two operators per graph, as passes look at one operator and its
  neighbour at most; one in the violating runs. At most two samples. The proofs
  remove the bound on the graph.
- `BuildConfig`: two configure runs (`MaxConfigures`), portable lists at both
  edges of the registry: 64 - 41 = 23 and 96 - 46 = 50, and one more.
- `NsKernels`: int8 is 4 bits wide (`QMin` = -8, `QMax` = 7), a multiplier has
  `Frac` = 8 bits, sub shifts by `Left` = 4, shifts reach `MaxShift` = 7,
  `MaxQ6` = 64 and `IntMax` = 1023, in the proportions of the code. Every value
  of an element against eight quantizations on each side, scales on both sides of
  every qualifier, every 4-dimensional shape of sizes 1 and 2 with each of its
  channel broadcasts, empty tensors, ranks 0 to 5, and eight axis sets. Data
  tells the elements of a tensor apart, so a wrong index is a wrong value.
- `Torchgen`: one yaml file for each kind of operator (structured, with a kernel
  per variant, composite, generated from the in-place or the functional variant,
  views, lists, ufunc, precomputed, several outputs) with an argument of each of
  twelve types, against the option sets (default, static dispatch, aggregated
  headers, selective, CUDA, XPU). `MaxRuns` = 2 runs on one directory, over five
  small inputs that share some files and not others: a real run on the fourth is
  stopped at a text while a dry run ends, and on the fifth both are stopped; a third run sees nothing a
  second does not, since a run reads only what is on disk. Kernels are called for
  three of the inputs, on tensors of two sizes, two strides, two types and two
  devices.

Deadlock is checked in the runtime, scratch and sidecar runs. An export, a booted
firmware, an operator and a generator end, so `MCAotFlow`, `MCBuildConfig`,
`MCNsKernels` and `MCTorchgen` say `CHECK_DEADLOCK FALSE`.

### Fairness

`InsistentSpec`, which `run_profiling` uses, is weak fairness of `RunStep`, the
adapter's own steps: the function never waits for anything, and kernels are loops
over a tensor. `Abort` is not fair, and `CallsReturn` allows it, as it allows a
copy past a Buffer. `InsistentSpec` adds the assumption on the caller that
`GrowAndRetryConverges` is about: it calls again, and a Buffer that is refused again
and again is enlarged in the end (strong fairness of each `Grow`, which a call in
progress disables). That property speaks of callers whose calls from some moment on
neither fail otherwise, nor abort, nor overrun a Buffer that should have been grown.
No other property needs fairness.

## 4. What is proved

Every theorem holds for all values of the constants under the named assumptions
of its module, which TLC evaluates in the runs.

**`RunOnceProofs`**: every set of calls, number and capacity of Buffers, counter
and `size_t` width.

- `TypeCorrect`, then the inductive invariant `IInv == TypeOK /\ Matched /\
  Progress /\ Claims`. The checked properties are not inductive: `Matched` carries
  the argument checks of the load stage to the copy loops (counts of inputs and
  outputs agree with the method), `Progress` says which Buffers the output loop has
  delivered and that the others are as they were offered, and `Claims` that a Buffer
  claims no more than its capacity unless it was told the size.
- `ReturnCorrect` and `OverrunsCorrect`: `ReturnKeepsContract` and
  `OverrunsWereTold`, from `IInv`, for careless callers too.
- `Refinement`: `Spec => Contract!Contract`. Each action maps to a stutter,
  `Ask`, `Compute`, `Deliver`, `Stop`, `Complete`, `Refuse`, `Resize`, `Die` or
  `Spill`.
- `CyclesCorrect`: the invariant `Measured` says that start plus elapsed is the
  counter plus a whole number of turns; division with remainder is unique
  (`UniqueRemainder`).
- `BracketsCorrect`: `Nested` says that at most two scopes are open, that only the
  first may have been reported, and that if it was the last callback is its begin.
- `NamesCorrect`: `EveryCallBracketedOnce`. `Logged` follows execution: the begin
  callbacks are one for each kernel and delegate call gone through so far
  (`Reached`), under its own name (`Bracketed`), and elsewhere there are none. An
  event is told from another by its place, so the invariant also orders the places
  of a program. `PlanAssumption` is the one assumption on programs: a program whose
  operators `load_method` has all resolved indexes its own tables.

**`ConvCallProofs`**, for every integer width divisible into words and every set of
sizes: `TypeCorrect`, `AreasCorrect`, `AlignmentCorrect`, `WeightSumsCorrect`,
`RefusalCorrect`, `OverflowFree`. `LayoutInvariant` is inductive: the size
answered is the one the split computes again, the buffer is the one that size
allocated, nothing was cut unless the size was representable. The lemmas on
`AlignedSize` and `CombinedSize` carry the arithmetic (a rounded size is a
multiple of four, at least the size, and in range).

**`SidecarProofs`**, for any number of processes, models and blocks, under the
assumption `Serialized` that compiles do not overlap (without it
`sidecar_concurrent` refutes them): `PairCorrect`, `LoadCorrect`,
`OwnLoadCorrect`. The invariant knows what is on disk at each stage of the one
compile there is (`Staged`), and that whatever document exists describes some
model completely (`Bound`), also when the `.pte` beside it is another's.

**`AotFlowProofs`**, for graphs of any length: `TypeCorrect`, `SamplesCorrect`,
`StubsCorrect`, `NsOpsCorrect`, `OwnRecipeCorrect`. The invariant follows each node through the passes: `Lowering` says which forms can
still be there at each pass, `OwnLowering` what the nodes this package annotated
keep qualifying for.

**`BuildConfigProofs`**, for any set of knobs, every board of `BoardAssumption` and
any number of configure runs.

- `ProviderCorrect`: `Sourced` says whose target `cmsis-nn` can be at each block,
  for every order in which an application adds modules and its own targets.
- `TracerCorrect`, `BootCorrect`: `Remembered` says what the cache and the targets
  of this run have to do with the knobs of this run, whatever an earlier run left,
  and that the registry holds all libraries that register, at any size of the
  portable selection. `Room` adds their counts, `RegistersOf` names them.
- `OptimizationCorrect`: `Carried` gives the link list of every target. The command
  line is its own options and those of its links without the repeated ones, and
  `LastWord` says which option of a class is the last of it. For the provider
  `LastLevel` does, which is its own level or, through arm's link, the board's.
  `BoardAssumption` says that a
  board gives at most one `-O` level, and of the switches of float semantics only
  `-ffast-math`. It is needed: of `-O3 -Os` in a board's flags, a module level
  `-O3` behind them would be dropped as repeated and `-Os` stand last.

**`NsKernelsProofs`**, for every shape, width, scale, zero point and datum.

- `BoundsCorrect`: no access leaves an operand. `Looping` puts the broadcast loop
  of `quantized_sub_out` at the start of a block; `BlocksOf` shows that result and
  advancing operand are a number of blocks and the other operand is one.
- `ReferenceCorrect`: `MatchesReference`, for all five operators. For sub,
  `BlockIndex` shows that a block takes the elements that broadcasting gives. For
  mean, `MeanAligned` shows that on the shape right-aligned in four dimensions,
  with the mask the pass made of the axes, the kernel sums the elements the
  reference sums (`MeanPartIsSummed`). relu's shortcut is the full computation
  because `Lowered` keeps the condition under which the pass chose it; `Written`
  says what a single call leaves.
- `AcceptanceCorrect`: every `ET_CHECK` of a kernel follows from what the
  qualifier tested or, for sub's shifts, which no qualifier tests, from the float
  scales: `ExponentIs` places the exponent of `frexp` between two powers of two, and
  `SubShiftsFit` adds up what rounding the multiplier can do to it, so that the shifts
  fit unless the scales are apart. `WidthsCorrect`: no int32 overflows.

`WidthAssumption` bounds the difference of two int8 values times
`_HARDSWISH_MAX_RELU_Q6`, and shifted by `SHIFT_INT8`, by the largest int32, as the
constants of the code are. `ProblemAssumption` says that data are as large as
their shapes, that zero points are int8, that two operands of sub have the shapes
`quantized_sub_meta` asserts and are channels_last if one is broadcast, which is when
the stock check annotates it, and that both have elements or both have none: `quantized_sub_out` takes the shape of
the operand with more elements, so a batch of size zero beside a vector of channels
would be given the vector's shape.

**`TorchgenProofs`**, in five parts. The last two are about `SpecCode`, the
specification the run checks.

- Selections, for all of them, without states: the merge selects an operator exactly
  when one of the two does (`MergeSelects`), so that a build of any number of models
  does when one of them does (`BuildSelects`); likewise training, dtypes and
  specialised kernels; the merge is commutative and associative. Roots are the
  exception: `MergeHidesRoots` shows that a model that roots an operator by its bare
  name loses the root when another model names the overload (`selector.py:246`), and
  `MergeKeepsRoots` that nothing else does.
- `FilesCorrect`: `CompleteRunIsCurrent` for any plans, any number of runs, any
  kills and any files a real or a dry run stops at. The invariant `WrittenSoFar` says
  that every file the run has passed holds its text, and is none of those the run
  stops at (`PassedSoFar`): a file left alone had it already, and a write leaves other
  files alone (`WritingHolds`). `PlansAssumption` says that what a plan lists is the files of
  its listed writes. `Torchgen` assumes that the plans are those `main` makes
  (`PlansAreGenerations`), and TLC evaluates both for every input of the run.
- `ResultsCorrect`, `TargetsCorrect`, `StridesCorrect`, for any number of outputs,
  any keys, sizes, strides and devices, and meta functions that ask for anything.
  The invariant says of each output asked for what it and its proxy are
  (`Provided`), and of each tensor of the caller that it is as given or was resized
  (`Kept`). `CallSpec` calls wrappers of every kind and key.
- `SelectionRegistered` and `OperatorsDefined`, for every yaml file, table of kernels,
  option and list of models. No invariant of their own: a run that ends has listed
  what its plan says (`FilesInv`) and met no assertion about a text (`CompletePasses`,
  `KeysPass`), so what remains is what a plan registers and defines. That is followed
  forward. Each parsed or added function is in one unit
  (`ProgramCovered`), and each unit in one shard of the file of its key (`ShardOf`).
  The kernels of a unit are wrapped unless written by hand (`KernelsWrapped`; the
  default backend leaves out an out variant, which by the check of `gen_structured`
  has no kernel for it). No other file registers for a key and no two writes to a
  listed file differ (`PlanRegisters`, `PlanDefines`). The merged selection selects
  what some model does (`SelectsWanted`, which rests on `BuildSelects`).
  `InputsAssumption` says that a yaml file has finitely many entries, that hashes of
  names are numbers and that the models are selections `from_yaml_dict` returns.
- `CodeFilesCorrect`, `CodeResultsCorrect`, `CodeTargetsCorrect`, `CodeStridesCorrect`:
  the properties of the second and third part where a complete run is built and its
  wrappers are called. `Built` says that calls run only after a complete run on an
  accepted input with sources. `CodeBegins` says that each of the wrappers is one
  `CallSpec` knows: of the three kinds that `gen_class` has a template for, for a
  dispatch key, and of no out variant for the default backend.
  `CompositeAssumption` says that the two modules mean the same key by that.

**`RecursionLemmas`** is what the arguments about recursive functions stand on. The
library's induction theorems take an operator as a parameter, which the provers
cannot instantiate; its theorem that every set of naturals has a least element is
first-order. From it follow induction for a set in place of a predicate
(`Induction`) and that a function on 0..n may be defined from each value to the next
(`Recursion`). Sizes, powers, sums and merges are recursive functions over 0..n, so
this covers them.

Model-checked only:

- the liveness properties of `RunOnce`, which the provers do not do;
- `CloseToFloat`: an error analysis of actual multipliers, which TLC makes over
  every scale of the instance; for all widths and scales the bound itself would
  have to be a formula in them;
- `EveryCallResolves`, but for the definitions (`OperatorsDefined`): that a header is
  written and that `translate` finds an expression is decided per operator and type, by
  tables of special cases that no shorter statement describes. It is also not
  true of all options: with a static dispatch key that the backend whitelist excludes,
  the headers of that key are named and not written.
- `FunctionalizationFaithful` and `GeneratedKernelsAgree`: values are matched with
  arguments by `SelectSeq`, which takes an operator, and by names and annotations that
  no check of the parse makes distinct; the theorems would be about well-named schemas.

## 5. Disagreements found

1. *Fallbacks are not reported* (`aot_fallback_report`). `_EDGE_TO_PORTABLE`
   (`export.py:45`) is keyed by names ending in `.default`, which edge names do
   not have. A relu, clamp, hardtanh, hardswish or leaky_relu that stays portable
   is missing from `portable_fallback_ops`, which README.md:159-163 promises to
   name. The manifest's select list is made from the serialized plan instead.
2. *Declined operators* (`aot_declined`). `passes_ns.py:5-8` says a failed qualifier
   leaves the aten operator on the correct portable path. By then its inputs
   are int8: hardswish stays on int8 tensors, mean and leaky_relu stop the
   export, as does a list of scales.
3. *Sub with shifts out of range* (the last conjunct of `DeclinedStaysCorrect`, and
   the exception `LoweredIsAccepted` has to state). The same lines promise never a
   broken `cortex_m_ns` operator. `_get_sub_replacement` (`passes_ns.py:218`) tests
   none of its three shifts, where its four siblings do: a sub of scales more than
   2^31 apart is lowered, and the kernel on the target aborts.
4. *Overlapping compiles* (`sidecar_concurrent`). The README binds the sidecar to
   the exact PTE its compile wrote; the hash is taken of whatever the file holds
   when it is read back.
5. *The provider's optimization level* (`build_config_provider`).
   `CMakeLists.txt:436-438` and `docs/build-options.md:50-51` say that a provider
   keeps its own `-Ofast` and that arm and ns are byte-identical in flags.
   arm-cmsis-nn, added after the target exists (`CMakeLists.txt:508`), links the
   board's options into it, and a board's `-O3` is then the last level on its line:
   arm's kernels are compiled at `-O3`, those of ns at `-Ofast`.

One is noted and has no run: the docstring of `quantize` (`export.py:164`) says it
falls back to the example inputs when no samples are given. An empty sequence is
not None, so nothing runs, and observers that saw no data are converted; the model
has the case (`calibration = "empty"`).

Two more things the build does that a reader may not expect, both in the model:
a `cmsis-nn` target of the application's own is accepted if arm-cmsis-nn was
added after it, or outside an NSX application by ns (the exception in
`SelectedProviderLinked`); and `CMSIS_PATH`, forced for arm, is left in the cache
of a build directory that changes to ns.

## 6. Not modelled

- How observers choose a scale, and the passes of ExecuTorch's own cortex_m
  backend: a scale is an input of `NsKernels`, a stock pass a step of `AotFlow`.
- The registration of `operators_ns.py` with torch and the shapes of its meta
  implementations.
- Formatting of reports and command-line help; parsing of `.npz` files beyond
  how many samples they give.
- Headers that `CMakeLists.txt` materializes and the definitions it passes on
  that change no layout.
- torchgen: the text of schemas and of C++, default values, the templates, the
  bodies of ufunc loops, the lambdas of functionalized views, and the generators
  the firmware build never runs (Python bindings, autograd, lazy tensors, AOTI
  shims, static runtime, mobile upgraders, the heuristics' training).
- ExecuTorch, torch, CMSIS-NN and CMake themselves, except as the code uses them.
- The fixtures' own tests and `verify_source_pins.py`: checks of the repository,
  no part of the program.

## 7. Plan

Done, in this order: `RunContract` and `RunOnce`; `ScratchLayout` and `ConvCall`;
`SidecarStore`; `NsLowering` and `AotFlow`; `BuildConfig`; `NsKernels` (the
broadcast loop, the axis mask and the numbers of the replacements); the torchgen
modules, from schemas to the calls of generated kernels; the proofs, now of every
safety property of the runtime, the scratch layout, the serialized files, the
export and the build, of all but `CloseToFloat` of the ns operators, and of
torchgen the selection, the files, what is registered and defined for any yaml file,
and the calls of structured kernels.

Left:

1. `Deployment`: sidecar, build and `Method::load` together: a build configured
   from a verified sidecar finds every operator of the program; composes
   `AotFlow`'s manifest with `BuildConfig`'s registry.
2. `GeneratedKernelsAgree` for schemas whose arguments have distinct names.
3. The lambdas of functionalized views, whose replay is what
   `FunctionalizationFaithful` does not reach.
