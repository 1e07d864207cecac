--------------------------- MODULE MCBuildConfig ---------------------------
(* Both providers and an unknown one, inside and outside an NSX application, *)
(* the portable lists at both edges of the registry (64 - 41 = 23 and        *)
(* 96 - 46 = 50), and the boards' two kinds of options.                      *)
EXTENDS BuildConfig

Gcc == <<"abi", "-O3", "-ffast-math">>
Armclang == <<"abi", "-Ofast">>
TwoBoards == {Gcc, Armclang}

Settings(providers, roots, portables, boards, rare) ==
  {k \in [provider : providers, nsOps : BOOLEAN, portable : portables,
          needsEntropy : rare, profiling : BOOLEAN,
          optimization : {"speed", "size"}, root : roots, nsxApp : BOOLEAN,
          selectsModel : rare, clang : rare, board : boards] :
     k.needsEntropy => k.portable > 0}

Usual == Settings({"arm", "ns"}, {"good", "unset"}, {0, 23, 24, 50, 51}, {Gcc}, {FALSE})
Unusual == Settings({"arm", "ns", "other"}, {"good", "bad"}, {23}, {Armclang}, BOOLEAN)
Refused == {[k EXCEPT !.optimization = "other"] : k \in Usual}
AllKnobs == {k \in Usual : k.optimization = "speed" \/ k.portable \in {23, 50}}
              \cup {k \in Unusual : k.optimization = "size"}
              \cup {k \in Refused : k.portable = 0 /\ ~k.profiling}
=============================================================================
