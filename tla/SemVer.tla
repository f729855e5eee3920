-------------------------------- MODULE SemVer --------------------------------
(***************************************************************************)
(* Semantic versions of apexquant-service-versioning (semver.py).  The     *)
(* text of a version is a value that parse_version maps to its parts.  A   *)
(* prerelease is the sequence of its identifiers, empty for a stable       *)
(* version; an identifier is numeric or not and has a rank, its value or   *)
(* its place among the others in the order of strings.  Build metadata     *)
(* tells versions apart and is not compared.                               *)
(***************************************************************************)
EXTENDS Integers, Sequences, FiniteSetsExt

CONSTANTS Parsed   \* the parts of each version text

(* What the pattern of a version lets through.                             *)
SemVerParts ==
  [major : Nat, minor : Nat, patch : Nat,
   prerelease : Seq([numeric : BOOLEAN, rank : Nat])]

ASSUME ParsedAssumption == \A text \in DOMAIN Parsed : Parsed[text] \in SemVerParts

parse_version(text) == Parsed[text]

is_stable(v) == v.prerelease = << >>

Number(n) == [numeric |-> TRUE, rank |-> n]

numeric_tuple(v) == <<Number(v.major), Number(v.minor), Number(v.patch)>>

(* Numeric identifiers are smaller than the others.                        *)
IdentifierLess(a, b) ==
  \/ a.numeric /\ ~b.numeric
  \/ a.numeric = b.numeric /\ a.rank < b.rank

(* The sign of the first difference of two tuples or lists, as Python      *)
(* compares them: a list that ends first is smaller.                       *)
FirstDifference(left, right) ==
  LET n == Min({Len(left), Len(right)})
      differing == {i \in 1..n : left[i] # right[i]}
  IN  IF differing # {}
      THEN IF IdentifierLess(left[Min(differing)], right[Min(differing)]) THEN -1 ELSE 1
      ELSE IF Len(left) = Len(right) THEN 0 ELSE IF Len(left) < Len(right) THEN -1 ELSE 1

compare(v, w) ==
  LET numbers == FirstDifference(numeric_tuple(v), numeric_tuple(w)) IN
  IF numbers # 0 THEN numbers
  ELSE IF is_stable(v) /\ ~is_stable(w) THEN 1
  ELSE IF ~is_stable(v) /\ is_stable(w) THEN -1
  ELSE FirstDifference(v.prerelease, w.prerelease)

(* Defect: 0.x releases are taken for compatible with each other.          *)
BugIsBackwardCompatible(candidate, minimum) ==
  LET c == parse_version(candidate)
      m == parse_version(minimum) IN
  is_stable(c) /\ c.major = m.major /\ compare(c, m) >= 0

is_backward_compatible(candidate, minimum) ==
  LET c == parse_version(candidate)
      m == parse_version(minimum) IN
  /\ is_stable(c)
  /\ c.major = m.major
  /\ c.major = 0 => c.minor = m.minor
  /\ compare(c, m) >= 0

(* The versions highest_compatible may return: the first of those that     *)
(* sort highest, in an order the query leaves open.                        *)
highest_compatible(candidates, minimum) ==
  LET compatible == {c \in candidates : is_backward_compatible(c, minimum)}
  IN  {c \in compatible :
         \A d \in compatible : compare(parse_version(c), parse_version(d)) >= 0}

===============================================================================
