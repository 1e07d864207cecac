---------------------------- MODULE StructuredKernel ----------------------------
(***************************************************************************)
(* One call of the wrapper the generator writes for a structured operator  *)
(* (torchgen/dest/register_dispatch_key.py): an object of a generated      *)
(* class whose set_output_* functions the meta function calls, once for    *)
(* each output, then the implementation, then the copies out of the        *)
(* proxies, then the return.                                               *)
(*                                                                         *)
(* A tensor is its size, strides, type and device and what it holds: the   *)
(* result of output i is i.  The out tensors of a caller are distinct.     *)
(* External: the meta function, which asks for each output once and in     *)
(* order, and the implementation, which may throw.                         *)
(***************************************************************************)
EXTENDS Naturals, Sequences

CONSTANTS TensorSizes, TensorStrides, TensorTypes, Devices,
          CompositeKey          \* CompositeExplicitAutogradNonFunctional

VARIABLE call

Unset == 8          \* what a tensor holds that nobody wrote
Before == 9         \* what a tensor of the caller holds

NewTensor(q) ==
    [size |-> q.size, strides |-> q.strides, type |-> q.type, device |-> q.device,
     holds |-> Unset]
Tensors == [size : TensorSizes, strides : TensorStrides, type : TensorTypes,
            device : Devices, holds : {Before}]

\* What the meta function asks for: set_output_strided wants these strides, the
\* set_output_raw_strided of an implementation that takes any strides suggests them.
Requests == [exact : BOOLEAN, size : TensorSizes, strides : TensorStrides,
             type : TensorTypes, device : Devices]

CallNothing == [stage |-> "idle", kind |-> "", key |-> "", iterator |-> FALSE, at |-> 0,
                given |-> <<>>, outputs |-> <<>>, proxies |-> <<>>, asked |-> <<>>,
                guard |-> {}]
CallInit == call = CallNothing

\* The wrapper: `iterator` says that the class inherits TensorIterator, which keeps the
\* outputs it is told about.  A functional call has no output yet.
BeginCall(kind, key, outs, iterator, tensors) ==
    /\ call.stage = "idle"
    /\ call' = [CallNothing EXCEPT !.stage = "meta", !.kind = kind, !.key = key,
                                   !.iterator = iterator, !.given = tensors,
                                   !.outputs = tensors, !.proxies = [i \in 1..outs |-> <<>>]]

Outs == DOMAIN call.proxies

-----------------------------------------------------------------------------
(* gen_class_set_output_body *)

SetsGuard == call.key \in {"CUDA", "MPS", "XPU", CompositeKey}
GuardOK(q) == SetsGuard => call.guard \subseteq {q.device}

CheckInplace(t, q) == q.type = t.type /\ q.device = t.device /\ q.size = t.size
CheckOut(t, q) == q.type = t.type /\ q.device = t.device

\* Mutant.  The strides of the meta function, whether or not a resize occurred.
AlwaysRestrides(t, q) ==
    [t EXCEPT !.size = q.size, !.strides = q.strides, !.holds = Unset]

\* resize_out: the strides are advice, followed where the size changed.
ResizeOut(t, q) ==
    IF t.size = q.size THEN t
    ELSE [t EXCEPT !.size = q.size, !.strides = q.strides, !.holds = Unset]

\* The output once the meta function asked for it, and the proxy that stands in for one
\* whose strides are not those asked for.
OutputFor(q, i) ==
    CASE call.kind = "functional" -> NewTensor(q)
      [] call.kind = "inplace" -> call.outputs[i]
      [] call.kind = "out" -> ResizeOut(call.outputs[i], q)
MaybeCreateProxy(t, q) ==
    IF q.exact /\ t.strides # q.strides THEN <<NewTensor(q)>> ELSE <<>>

Accepts(q, i) ==
    /\ GuardOK(q)
    /\ call.kind = "inplace" => CheckInplace(call.outputs[i], q)
    /\ call.kind = "out" => CheckOut(call.outputs[i], q)

SetOutput(q) ==
    LET i == call.at + 1
        t == OutputFor(q, i)
    IN  /\ call.stage = "meta" /\ i \in Outs
        /\ Accepts(q, i)
        /\ call' = [call EXCEPT
             !.at = i, !.asked = Append(@, q),
             !.outputs = IF call.kind = "functional" THEN Append(@, t) ELSE [@ EXCEPT ![i] = t],
             !.proxies[i] = IF call.kind = "functional" THEN <<>> ELSE MaybeCreateProxy(t, q),
             !.guard = IF SetsGuard THEN {q.device} ELSE @]

RejectOutput(q) ==
    /\ call.stage = "meta" /\ call.at + 1 \in Outs
    /\ ~Accepts(q, call.at + 1)
    /\ call' = [call EXCEPT !.stage = "failed"]

\* The default backend has no implementation: it calls the out variant.  Meta has none.
MetaDone ==
    /\ call.stage = "meta" /\ call.at = Len(call.proxies)
    /\ call' = [call EXCEPT !.stage = IF call.key = "Meta" THEN "copy" ELSE "impl", !.at = 0]

-----------------------------------------------------------------------------
(* gen_one: the implementation, the copies, the return *)

HasProxy(i) == call.proxies[i] # <<>>

\* Mutant.  Every wrapper passes outputs_[i].
IteratorWritesProxy(i) == HasProxy(i) /\ call.key # CompositeKey /\ call.iterator

\* Whether the implementation writes maybe_get_output(i), the proxy if there is one, or
\* outputs_[i]: an iterator was told the former, the wrapper of an out variant passes the
\* former and every other wrapper the latter.
WritesProxy(i) ==
    /\ HasProxy(i)
    /\ call.key # CompositeKey
    /\ call.iterator \/ call.kind = "out"

Target(i) == IF WritesProxy(i) THEN call.proxies[i][1] ELSE call.outputs[i]

ImplWrites ==
    LET i == call.at + 1
    IN  /\ call.stage = "impl" /\ i \in Outs
        /\ call' = IF WritesProxy(i)
                   THEN [call EXCEPT !.at = i, !.proxies[i][1].holds = i]
                   ELSE [call EXCEPT !.at = i, !.outputs[i].holds = i]

ImplThrows == call.stage = "impl" /\ call' = [call EXCEPT !.stage = "failed"]

ImplDone ==
    /\ call.stage = "impl" /\ call.at = Len(call.proxies)
    /\ call' = [call EXCEPT !.stage = "copy", !.at = 0]

\* Mutant.  The proxy is dropped.
ProxyDropped(t, proxy) == t

\* Tensor::copy_ keeps the strides of the tensor it writes.
CopiedOver(t, proxy) == [t EXCEPT !.holds = proxy.holds]

CopyProxy ==
    LET i == call.at + 1
    IN  /\ call.stage = "copy" /\ i \in Outs
        /\ call' = IF HasProxy(i)
                   THEN [call EXCEPT !.at = i,
                                     !.outputs[i] = CopiedOver(@, call.proxies[i][1])]
                   ELSE [call EXCEPT !.at = i]

ReturnOutputs ==
    /\ call.stage = "copy" /\ call.at = Len(call.proxies)
    /\ call' = [call EXCEPT !.stage = "returned"]

CallStep ==
    \/ \E q \in Requests : SetOutput(q) \/ RejectOutput(q)
    \/ MetaDone
    \/ ImplWrites
    \/ ImplThrows
    \/ ImplDone
    \/ CopyProxy
    \/ ReturnOutputs

-----------------------------------------------------------------------------
(* Properties *)

\* An output whose proxy the implementation does not write: in place, where the wrapper
\* passes outputs_[i] or the default backend calls the out variant on it.
Bypassed(i) == call.kind = "inplace" /\ HasProxy(i) /\ ~WritesProxy(i)

\* PROPERTY.  A call that returns hands back tensors of the size the meta function asked
\* for, and but for a meta call each holds its own result, also where it went through a
\* proxy; a bypassed one is overwritten by a proxy nobody wrote and is excepted.
\* (gen_class_set_output_body, and gen_one: "Go over each output, and check if there is a
\* proxy created for it.  If so, copy it over to the original output.")
ResultsReturned ==
    call.stage = "returned" =>
        \A i \in Outs : /\ call.outputs[i].size = call.asked[i].size
                        /\ call.key # "Meta" /\ ~Bypassed(i) => call.outputs[i].holds = i

\* PROPERTY.  What the implementation is given has the size, type and device the meta
\* function asked for, and the strides where it insisted; where the device is guarded, the
\* guard is on the device of every output.  (set_output_strided, the device guard)
ImplGetsWhatMetaAsked ==
    call.stage = "impl" =>
        \A i \in Outs :
            LET q == call.asked[i]
            IN  /\ Target(i).size = q.size /\ Target(i).type = q.type
                /\ Target(i).device = q.device
                /\ q.exact /\ ~Bypassed(i) /\ call.key # CompositeKey
                     => Target(i).strides = q.strides
                /\ SetsGuard => call.guard = {Target(i).device}

\* PROPERTY.  A tensor of the caller keeps its type, its device and, as long as it keeps its
\* size, its strides, whatever the meta function suggests and however far the call gets.
\* (resize_out: "Only restride if a resize occurred; otherwise we ignore the (advisory)
\* strides from the meta function and directly use the output tensor's preexisting strides")
CallersStridesKept ==
    call.kind \in {"inplace", "out"} =>
        \A i \in Outs :
            LET now == call.outputs[i]
                was == call.given[i]
            IN  /\ now.type = was.type /\ now.device = was.device
                /\ now.size = was.size => now.strides = was.strides
=============================================================================
