--------------------------------- MODULE Rbac ---------------------------------
(***************************************************************************)
(* The permission language and the forbidden matrix: rbac.py, which the    *)
(* crate apex-rbac repeats in Rust, and permissions.py.  A permission is   *)
(* the sequence of its segments, "execution:submit" is                     *)
(* <<"execution", "submit">>.                                              *)
(***************************************************************************)
EXTENDS Integers, Sequences

CONSTANTS Planes, RestrictedPlanes,
          Forbidden,    \* plane -> the patterns forbidden_matrix.yaml has for it
          MinSegments, MaxSegments

WILDCARD == "*"
GLOBAL_WILDCARD == <<WILDCARD>>

ASSUME RbacAssumption ==
  /\ RestrictedPlanes \subseteq Planes
  /\ DOMAIN Forbidden = Planes
  /\ \A plane \in Planes : \A d \in Forbidden[plane] : d \in Seq(STRING) /\ Len(d) > 0
  /\ MinSegments \in Nat /\ MaxSegments \in Nat

is_restricted(plane) == plane \in RestrictedPlanes

(* Of the grammar the number of segments is kept, not their characters.    *)
validate_permission(perm) ==
  perm = GLOBAL_WILDCARD \/ Len(perm) \in MinSegments..MaxSegments

(* A wildcard in the last place stands for the rest of the target, even    *)
(* for none; elsewhere it stands for one segment.                          *)
covers(pattern, target) ==
  \A i \in 1..Len(pattern) :
    \/ pattern[i] = WILDCARD /\ i = Len(pattern)
    \/ i <= Len(target) /\ pattern[i] \in {WILDCARD, target[i]}

(* Defect: only a grant that is broader than the forbidden pattern counts. *)
BugOverlaps(a, b) == covers(a, b)

overlaps(a, b) == covers(a, b) \/ covers(b, a)

Bad(plane, g) ==
  g = GLOBAL_WILDCARD \/ \E d \in Forbidden[plane] : overlaps(g, d)

(* Grant-time enforcement.                                                 *)
validate_grant(plane, permission) ==
  /\ validate_permission(permission)
  /\ is_restricted(plane) => ~Bad(plane, permission)

evaluate(plane, permissions, has_roles) ==
  IF ~has_roles THEN "UNPROVISIONED"
  ELSE IF is_restricted(plane) /\ \E g \in permissions : Bad(plane, g)
       THEN "INVARIANT_VIOLATION" ELSE "GRANTED"

IsForbidden(plane, request) ==
  is_restricted(plane) /\ \E d \in Forbidden[plane] : covers(d, request)

authorize(plane, granted, request) ==
  ~IsForbidden(plane, request) /\ \E g \in granted : covers(g, request)

(* permissions.py: a literal prefix, and no wildcard inside.               *)
Prefixes(perm, required) ==
  LET n == Len(perm) IN
  /\ n > 1 /\ perm[n] = WILDCARD /\ Len(required) >= n
  /\ \A i \in 1..n - 1 : perm[i] = required[i]

has_permission(granted, required) ==
  \E g \in granted : g = GLOBAL_WILDCARD \/ g = required \/ Prefixes(g, required)

(* A pattern of the form that the matrix and, but for "*:read", the seeded *)
(* roles use: a wildcard only in the last place.                           *)
TrailingOnly(p) == \A i \in 1..Len(p) : p[i] = WILDCARD => i = Len(p)

===============================================================================
