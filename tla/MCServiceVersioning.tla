------------------------- MODULE MCServiceVersioning -------------------------
(* Instance of ServiceVersioning: a and b depend on each other, b on a     *)
(* line of a that is never released; b has two releases of one line and a  *)
(* prerelease.                                                             *)
EXTENDS ServiceVersioning, TLC

CONSTANTS a, b, v001, v010rc1, v010rc2, v010, v011

V(minor, patch, prerelease) ==
  [major |-> 0, minor |-> minor, patch |-> patch, prerelease |-> prerelease]

rc(n) == <<[numeric |-> FALSE, rank |-> 1], Number(n)>>

MCParsed ==
  v001 :> V(0, 1, << >>) @@ v010rc1 :> V(1, 0, rc(1)) @@ v010rc2 :> V(1, 0, rc(2))
    @@ v010 :> V(1, 0, << >>) @@ v011 :> V(1, 1, << >>)

Body(s, v, specs) == [service |-> s, version |-> v, dependencies |-> specs]

MCRequests == {
  Body(a, v010, {[service |-> b, min_version |-> v010rc1]}),
  Body(b, v010, {[service |-> a, min_version |-> v001]}),
  Body(b, v011, {}),
  Body(b, v010rc2, {})}

Symmetry == Permutations(Threads)

==============================================================================
