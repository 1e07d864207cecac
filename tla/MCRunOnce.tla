----------------------------- MODULE MCRunOnce -----------------------------
(***************************************************************************)
(* Small instances of RunOnce: eleven programs, of which two are well      *)
(* formed and each of the others fails at one stage, and the argument      *)
(* lists that reach every early return.                                    *)
(***************************************************************************)
EXTENDS RunOnce

Tensor(n) == [tensor |-> TRUE, mapped |-> TRUE, nbytes |-> n]
Scalar == [tensor |-> FALSE, mapped |-> FALSE, nbytes |-> 0]
Unmapped(n) == [tensor |-> TRUE, mapped |-> FALSE, nbytes |-> n]
Kernel(k) == [kind |-> "kernel", index |-> k]
Delegate(k) == [kind |-> "delegate", index |-> k]
Control == [kind |-> "control", index |-> 1]

\* Two outputs, one chain: an operator, a move, a delegate.
Wide == [loads |-> TRUE, inspects |-> TRUE, buffers |-> 1, planned |-> 3,
         reach |-> 3, arena |-> 2, linked |-> TRUE, ins |-> <<Tensor(2)>>,
         outs |-> <<Tensor(1), Tensor(3)>>,
         operators |-> <<"cortex_m::quantized_add", "aten::mean">>,
         delegates |-> <<"EthosU">>,
         chains |-> <<<<Kernel(2), Control, Delegate(1)>>>>]

\* One output, two chains, the first of them empty.
Narrow == [Wide EXCEPT !.outs = <<Tensor(2)>>, !.ins = <<Tensor(0), Tensor(1)>>,
                       !.chains = <<<<>>, <<Kernel(1), Kernel(1)>>>>]

Broken == {[Wide EXCEPT !.loads = FALSE],
           [Wide EXCEPT !.inspects = FALSE],
           [Wide EXCEPT !.buffers = 2],
           [Wide EXCEPT !.planned = -1],
           [Wide EXCEPT !.planned = 9, !.reach = 9],  \* 1 when cut to size_t
           [Wide EXCEPT !.linked = FALSE],
           [Wide EXCEPT !.ins = <<Scalar>>],
           [Wide EXCEPT !.ins = <<Unmapped(1)>>],
           [Wide EXCEPT !.outs = <<Tensor(1), Scalar>>]}

\* The argument list a caller that knows the program passes.
Fitting(p) == [prog |-> p, nulls |-> {}, programSize |-> 1, methodSize |-> 2,
               plannedSize |-> 3,
               ins |-> [i \in 1..Len(p.ins) |->
                          [null |-> FALSE, size |-> p.ins[i].nbytes]],
               nout |-> Len(p.outs), callbacks |-> {}]

Hooks == {{}, {"begin"}, {"begin", "end"}}
Profiling == {[Fitting(p) EXCEPT !.callbacks = h] : p \in {Wide, Narrow}, h \in Hooks}

Careless ==
  {[Fitting(Wide) EXCEPT !.nulls = {x}] : x \in {"temporary", "inputs", "outputs"}}
  \cup {[Fitting(Wide) EXCEPT !.programSize = 0],
        [Fitting(Wide) EXCEPT !.methodSize = 1],
        [Fitting(Wide) EXCEPT !.plannedSize = 2],
        [Fitting(Wide) EXCEPT !.nout = 1],
        [Fitting(Wide) EXCEPT !.ins[1].size = 1],
        [Fitting(Wide) EXCEPT !.ins[1].null = TRUE]}

Hopeful == {[Fitting(Wide) EXCEPT !.callbacks = h] : h \in Hooks \ {{}}}
AnyCalls == Careless \cup Hopeful \cup {Fitting(p) : p \in Broken \cup {Wide, Narrow}}
=============================================================================
