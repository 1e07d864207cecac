---------------------------- MODULE MCNsKernels ----------------------------
(* Every value of a 4-bit tensor element under pairs of scales and zero      *)
(* points, and tensors of every small shape with values that tell all of     *)
(* their elements apart.                                                     *)
EXTENDS NsKernels

Lowest == -8

Scales == {<<1, 8>>, <<1, 3>>, <<1, 1>>, <<5, 2>>}
Quants == [s : Scales, z : {-8, 1}]
Unit(z) == [s |-> <<1, 1>>, z |-> z]
One(v) == [i \in {0} |-> v]
Spread(shape, step) == [i \in Offsets(shape) |-> ((i * step + 3) % 16) - 8]

Elementwise(op) ==
  {[op |-> op, x |-> <<1>>, y |-> <<>>, xs |-> One(v), ys |-> <<>>, qx |-> qx,
    qy |-> Unit(0), qo |-> qo, alpha |-> 1, slope |-> slope, lo |-> lo, hi |-> hi,
    dims |-> {}, channelsLast |-> FALSE] :
     v \in QMin..QMax, qx \in Quants, qo \in Quants,
     slope \in IF op = "leaky_relu" THEN {<<1, 8>>, <<2, 1>>, <<0, 1>>} ELSE {<<1, 1>>},
     lo \in IF op = "relu" THEN {<<>>, <<0, 1>>} ELSE {<<>>},
     hi \in IF op = "relu" THEN {<<>>, <<6, 1>>} ELSE {<<>>}}

\* Scales at which 6 / s is at the guards of hardswish.
Fine == {[p EXCEPT !.qx.s = s, !.qo.s = t] : p \in Elementwise("hardswish"),
           s \in {<<3, 32>>, <<1, 11>>, <<1, 40>>, <<12, 1>>, <<13, 1>>},
           t \in {<<1, 1>>, <<1, 8>>, <<1, 40>>}}

Sub(x, y, xs, ys, qx, qy, qo, alpha) ==
  [op |-> "sub", x |-> x, y |-> y, xs |-> xs, ys |-> ys, qx |-> qx, qy |-> qy,
   qo |-> qo, alpha |-> alpha, slope |-> <<1, 1>>, lo |-> <<>>, hi |-> <<>>,
   dims |-> {}, channelsLast |-> Len(x) = 4]

Shapes4 == [1..4 -> 1..2]
SubShapes == {<<x, y>> \in Shapes4 \X Shapes4 :
                x = y \/ (x[2] = y[2] /\ (ChannelsOnly(x) \/ ChannelsOnly(y)))}
             \cup {<<<<>>, <<>>>>, <<<<3>>, <<3>>>>, <<<<0, 2>>, <<0, 2>>>>,
                   <<<<2, 0, 2, 1>>, <<1, 0, 1, 1>>>>}
\* Some of the scales are at the ends of what a shift reaches.
Subs == {Sub(s[1], s[2], Spread(s[1], 5), Spread(s[2], 7), Unit(-8), Unit(1),
             Unit(0), a) : s \in SubShapes, a \in {1, 2}}
        \cup {Sub(<<1>>, <<1>>, One(v), One(w), qx, qy, qo, 1) :
                v \in {-8, -1, 4, 7}, w \in {-8, 0, 7}, qx \in Quants,
                qy \in Quants, qo \in Quants}
        \cup {Sub(<<1>>, <<1>>, One(v), One(2), [s |-> <<1, 512>>, z |-> 0], qy,
                  qo, 1) : v \in {-8, 7}, qy \in Quants, qo \in Quants}
        \cup {Sub(<<1>>, <<1>>, One(v), One(2), [s |-> fine, z |-> 0], Unit(1),
                  [s |-> coarse, z |-> -8], 1) :
                v \in {-8, 7}, fine \in {<<1, 127>>, <<1, 128>>, <<1, 129>>},
                coarse \in {<<1, 511>>, <<1, 512>>, <<1, 1024>>, <<31, 1>>, <<32, 1>>,
                           <<33, 1>>}}

Shapes == UNION {[1..n -> 1..3] : n \in 1..2} \cup [1..3 -> 1..2]
          \cup {<<2, 1, 2, 2>>, <<1, 2, 1, 3>>, <<2, 2, 2, 1>>, <<2, 0>>,
                <<1, 1, 2, 1, 2>>}
Means == {[op |-> "mean", x |-> x, y |-> <<>>, xs |-> Spread(x, 7), ys |-> <<>>,
           qx |-> qx, qy |-> Unit(0), qo |-> qo, alpha |-> 1, slope |-> <<1, 1>>,
           lo |-> <<>>, hi |-> <<>>, dims |-> dims, channelsLast |-> last] :
            x \in Shapes, qx \in {Unit(-8), [s |-> <<1, 3>>, z |-> 1]},
            qo \in {Unit(1), [s |-> <<1, 8>>, z |-> -8]},
            dims \in {{}, {0}, {-1}, {1}, {0, -1}, {1, 2}, {0, 1, 2, 3}, {-2}},
            last \in BOOLEAN}
OfRank == {m \in Means : /\ \A d \in m.dims : d \in -Len(m.x)..(Len(m.x) - 1)
                          /\ m.channelsLast => Len(m.x) = 4}
SmallProblems == {Subs, Fine, OfRank}
                 \cup {Elementwise(op) : op \in {"relu", "leaky_relu", "hardswish"}}
=============================================================================
