------------------------------ MODULE AuthProofs ------------------------------
(***************************************************************************)
(* What the permission language of rbac.py and permissions.py guarantees   *)
(* for every matrix, every set of planes and every permission, and what    *)
(* AuthService and the RBAC tables guarantee for any number of replicas,   *)
(* administrators, sweeps, subjects, keys and roles.                       *)
(***************************************************************************)
EXTENDS Auth, SequenceTheorems, TLAPS

-------------------------------------------------------------------------------
(* The permission language.                                                *)

Permission == Seq(STRING)

(* A covering pattern with its wildcard in the last place agrees with the  *)
(* request in every segment that it spells out.                            *)
LEMMA CoversAgrees ==
  ASSUME NEW p \in Permission, NEW r \in Permission, TrailingOnly(p), covers(p, r),
         NEW i \in 1..Len(p), p[i] # WILDCARD
  PROVE  i <= Len(r) /\ p[i] = r[i]
BY DEF covers, TrailingOnly, Permission

(* Of two patterns that cover the same request, the shorter one covers the *)
(* longer one, unless both end in the same place and the longer is the     *)
(* broader one.                                                            *)
LEMMA ShorterOverlaps ==
  ASSUME NEW p \in Permission, NEW d \in Permission, NEW r \in Permission,
         TrailingOnly(p), TrailingOnly(d), covers(p, r), covers(d, r), Len(p) <= Len(d)
  PROVE  overlaps(p, d)
<1>0. Len(p) \in Nat /\ Len(d) \in Nat
  BY DEF Permission
<1>1. ASSUME NEW i \in 1..Len(p), p[i] # WILDCARD, d[i] # WILDCARD
      PROVE  p[i] = d[i]
  <2>1. i \in 1..Len(d)
    BY <1>0
  <2>. QED
    BY <1>1, <2>1, CoversAgrees
<1>2. ASSUME NEW i \in 1..Len(p), i # Len(p)
      PROVE  p[i] # WILDCARD /\ d[i] # WILDCARD
  BY <1>0, <1>2 DEF TrailingOnly
<1>. SUFFICES ASSUME Len(p) > 0
              PROVE  overlaps(p, d)
  BY <1>0 DEF overlaps, covers
<1>3. CASE p[Len(p)] = WILDCARD
  <2>1. covers(p, d)
    BY <1>0, <1>1, <1>2, <1>3 DEF covers
  <2>. QED
    BY <2>1 DEF overlaps
<1>4. CASE p[Len(p)] # WILDCARD /\ d[Len(p)] # WILDCARD
  <2>1. covers(p, d)
    BY <1>0, <1>1, <1>2, <1>4 DEF covers
  <2>. QED
    BY <2>1 DEF overlaps
<1>5. CASE p[Len(p)] # WILDCARD /\ d[Len(p)] = WILDCARD
  <2>1. Len(d) = Len(p)
    BY <1>0, <1>5 DEF TrailingOnly
  <2>2. covers(d, p)
    BY <1>0, <1>1, <1>2, <1>5, <2>1 DEF covers
  <2>. QED
    BY <2>2 DEF overlaps
<1>. QED
  BY <1>3, <1>4, <1>5

(* The overlap test of validate_grant and evaluate is complete: whenever a *)
(* granted and a forbidden pattern have a request in common, one of them   *)
(* covers the other.  (Patterns with an inner wildcard, such as *:read     *)
(* beside execution:*, are where it is not.)                               *)
THEOREM OverlapComplete ==
  ASSUME NEW p \in Permission, NEW d \in Permission, NEW r \in Permission,
         TrailingOnly(p), TrailingOnly(d), covers(p, r), covers(d, r)
  PROVE  overlaps(p, d)
<1>1. Len(p) <= Len(d) \/ Len(d) <= Len(p)
  BY DEF Permission
<1>2. CASE Len(p) <= Len(d)
  BY <1>2, ShorterOverlaps
<1>3. CASE Len(d) <= Len(p)
  <2>1. overlaps(d, p)
    BY <1>3, ShorterOverlaps
  <2>. QED
    BY <2>1 DEF overlaps
<1>. QED
  BY <1>1, <1>2, <1>3

(* As in forbidden_matrix.yaml.                                            *)
TrailingMatrix == \A plane \in Planes : \A d \in Forbidden[plane] : TrailingOnly(d)

(* What the matrix forbids are permissions.                                *)
LEMMA MatrixIsOfPermissions ==
  ASSUME NEW plane \in Planes, NEW d \in Forbidden[plane]
  PROVE  d \in Permission
BY RbacAssumption DEF Permission

(* What grant-time enforcement achieves, for every matrix: a permission    *)
(* that validate_grant accepts and a pattern that the matrix forbids to    *)
(* the plane have a request in common only if one of the two has a         *)
(* wildcard inside.                                                        *)
THEOREM GrantsMissOnlyInnerWildcards ==
  ASSUME NEW plane \in Planes, NEW g \in Permission, NEW r \in Permission,
         is_restricted(plane), validate_grant(plane, g), covers(g, r),
         NEW d \in Forbidden[plane], covers(d, r)
  PROVE  ~TrailingOnly(g) \/ ~TrailingOnly(d)
<1>. SUFFICES ASSUME TrailingOnly(g), TrailingOnly(d) PROVE FALSE
  OBVIOUS
<1>1. d \in Permission
  BY MatrixIsOfPermissions
<1>2. overlaps(g, d)
  BY <1>1, OverlapComplete
<1>. QED
  BY <1>2 DEF validate_grant, Bad

(* The gap is there with the matrix that is shipped: validate_grant        *)
(* accepts *:read for a restricted plane, it covers execution:read, and    *)
(* the matrix forbids that; authorize, which asks the matrix again at      *)
(* every request, is what refuses it.                                      *)
THEOREM InnerWildcardIsAccepted ==
  ASSUME NEW plane \in Planes, is_restricted(plane), MinSegments = 2, MaxSegments = 3,
         Forbidden[plane] = {<<"broker", "*">>, <<"execution", "*">>, <<"kill_switch", "*">>}
  PROVE  /\ validate_grant(plane, <<"*", "read">>)
         /\ covers(<<"*", "read">>, <<"execution", "read">>)
         /\ ~authorize(plane, {<<"*", "read">>}, <<"execution", "read">>)
<1>1. /\ Len(<<"*", "read">>) = 2 /\ <<"*", "read">>[1] = "*" /\ <<"*", "read">>[2] = "read"
      /\ Len(<<"execution", "read">>) = 2 /\ <<"execution", "read">>[1] = "execution"
      /\ <<"execution", "read">>[2] = "read"
  OBVIOUS
<1>2. ASSUME NEW domain \in {"broker", "execution", "kill_switch"}
      PROVE  ~overlaps(<<"*", "read">>, <<domain, "*">>)
  <2>1. Len(<<domain, "*">>) = 2 /\ <<domain, "*">>[1] = domain /\ <<domain, "*">>[2] = "*"
    OBVIOUS
  <2>2. domain # "*"
    OBVIOUS
  <2>3. ~covers(<<"*", "read">>, <<domain, "*">>)
    BY <1>1, <2>1 DEF covers, WILDCARD
  <2>4. ~covers(<<domain, "*">>, <<"*", "read">>)
    BY <1>1, <2>1, <2>2 DEF covers, WILDCARD
  <2>. QED
    BY <2>3, <2>4 DEF overlaps
<1>3. <<"*", "read">> # GLOBAL_WILDCARD
  BY DEF GLOBAL_WILDCARD
<1>4. validate_grant(plane, <<"*", "read">>)
  <2>1. validate_permission(<<"*", "read">>)
    BY <1>1 DEF validate_permission
  <2>2. ~Bad(plane, <<"*", "read">>)
    BY <1>2, <1>3 DEF Bad
  <2>. QED
    BY <2>1, <2>2 DEF validate_grant
<1>5. covers(<<"*", "read">>, <<"execution", "read">>)
  BY <1>1 DEF covers, WILDCARD
<1>6. covers(<<"execution", "*">>, <<"execution", "read">>)
  BY <1>1 DEF covers, WILDCARD
<1>7. ~authorize(plane, {<<"*", "read">>}, <<"execution", "read">>)
  BY <1>6 DEF authorize, IsForbidden
<1>. QED
  BY <1>4, <1>5, <1>7

(* The layers agree: on assignments that evaluate found GRANTED, authorize *)
(* refuses nothing that a grant covers.                                    *)
THEOREM EvaluatedIsAuthorized ==
  ASSUME NEW plane \in Planes, NEW granted \in SUBSET Permission, NEW r \in Permission,
         NEW has_roles \in BOOLEAN, TrailingMatrix, \A g \in granted : TrailingOnly(g),
         evaluate(plane, granted, has_roles) = "GRANTED"
  PROVE  authorize(plane, granted, r) <=> \E g \in granted : covers(g, r)
<1>1. is_restricted(plane) => \A g \in granted : ~Bad(plane, g)
  BY DEF evaluate
<1>2. ASSUME NEW g \in granted, covers(g, r)
      PROVE  ~IsForbidden(plane, r)
  <2>1. ASSUME is_restricted(plane), NEW d \in Forbidden[plane], covers(d, r)
        PROVE  FALSE
    <3>1. d \in Permission /\ TrailingOnly(d)
      BY MatrixIsOfPermissions DEF TrailingMatrix
    <3>2. overlaps(g, d)
      BY <1>2, <2>1, <3>1, OverlapComplete
    <3>. QED
      BY <1>1, <2>1, <3>2 DEF Bad
  <2>. QED
    BY <2>1 DEF IsForbidden
<1>. QED
  BY <1>2 DEF authorize

(* The matcher of permissions.py, which the service asks, allows nothing   *)
(* that the matcher of the matrix would not.                               *)
THEOREM MatcherSound ==
  ASSUME NEW granted \in SUBSET Permission, NEW r \in Permission, has_permission(granted, r)
  PROVE  \E g \in granted : covers(g, r)
<1>1. PICK g \in granted : g = GLOBAL_WILDCARD \/ g = r \/ Prefixes(g, r)
  BY DEF has_permission
<1>2. Len(g) \in Nat /\ Len(r) \in Nat
  BY DEF Permission
<1>3. CASE g = GLOBAL_WILDCARD
  <2>1. covers(<<WILDCARD>>, r)
    BY DEF covers
  <2>. QED
    BY <1>3, <2>1 DEF GLOBAL_WILDCARD
<1>4. CASE g = r
  BY <1>2, <1>4 DEF covers
<1>5. CASE Prefixes(g, r)
  BY <1>2, <1>5 DEF covers, Prefixes
<1>. QED
  BY <1>1, <1>3, <1>4, <1>5

-------------------------------------------------------------------------------
(* The inductive invariant.                                                *)

Events == {<< >>} \cup ({"CREATE_API_KEY", "REVOKE_API_KEY"} \X Identifiers)

Pcs == {"down", "idle", "ensure_grants", "grants", "permissions", "last_used", "sign", "handler",
        "event"}

CallRecord == [pc : Pcs, subject : Subjects \cup {None}, key : Identifiers \cup {None},
               permissions : SUBSET Permission, todo : Seq(Permission), late : BOOLEAN,
               event : Events]

AuthTypes ==
  /\ principals \in [Subjects -> Principal \cup {None}]
  /\ credentials \in [Identifiers -> CredentialRecord \cup {None}]
  /\ permission_grants \in [Subjects -> SUBSET Permission]
  /\ principal_roles \in [Subjects -> SUBSET Roles]
  /\ tokens \subseteq TokenClaims
  /\ call \in [Replicas -> CallRecord]
  /\ assign \in [Admins -> {<< >>} \cup (Subjects \X Roles)]
  /\ revoked \subseteq Identifiers

(* A call past its first statement works for a principal that is there,    *)
(* and on a key.                                                           *)
HasTarget(c) ==
  /\ c.pc \in {"ensure_grants", "grants"} => c.subject \in Subjects /\ Exists(c.subject)
  /\ c.pc = "ensure_grants" => c.subject = BootstrapSubject
  /\ c.pc = "permissions" => c.subject \in Subjects
  /\ c.pc \in {"permissions", "last_used", "sign"} => c.key \in Identifiers
  /\ c.pc = "grants" => c.key \in Keys

CallTargets == \A r \in Replicas : HasTarget(call[r])

-------------------------------------------------------------------------------
(* The calls a replica is in when it is down, idle or starting.            *)
LEMMA CallsTyped ==
  /\ Down \in CallRecord /\ Down.pc = "down"
  /\ Idle \in CallRecord /\ Idle.pc = "idle"
  /\ Bootstrapping \in CallRecord /\ Bootstrapping.pc = "ensure_grants"
<1>1. << >> \in Events /\ << >> \in Seq(Permission) /\ BootstrapPermissions \in Seq(Permission)
  BY AuthAssumption DEF Events, Permission
<1>2. BootstrapSubject \in Subjects /\ "bootstrap" \in Identifiers
  BY AuthAssumption DEF Identifiers
<1>3. Down \in CallRecord /\ Down.pc = "down"
  <2>1. \A ps \in SUBSET Permission, t \in Seq(Permission), e \in Events :
          [pc |-> "down", subject |-> None, key |-> None, permissions |-> ps, todo |-> t,
           late |-> FALSE, event |-> e] \in CallRecord
    BY DEF CallRecord, Pcs
  <2>2. {} \in SUBSET Permission
    OBVIOUS
  <2>3. Down \in CallRecord
    BY <1>1, <2>1, <2>2, Zenon DEF Down
  <2>. QED
    BY <2>3 DEF Down
<1>4. Idle \in CallRecord /\ Idle.pc = "idle"
  BY <1>3 DEF Idle, CallRecord, Pcs
<1>5. Bootstrapping \in CallRecord /\ Bootstrapping.pc = "ensure_grants"
  BY <1>1, <1>2, <1>3 DEF Bootstrapping, CallRecord, Pcs
<1>. QED
  BY <1>3, <1>4, <1>5

(* A database without keys and a service that is down.                     *)
LEMMA TypesInit == Init => AuthTypes /\ CallTargets
<1>. SUFFICES ASSUME Init PROVE AuthTypes /\ CallTargets
  OBVIOUS
<1>1. principals \in [Subjects -> Principal \cup {None}]
  BY AuthAssumption DEF Init, Principal
<1>2. call \in [Replicas -> CallRecord] /\ \A r \in Replicas : call[r].pc = "down"
  BY CallsTyped DEF Init
<1>3. AuthTypes
  BY <1>1, <1>2 DEF Init, AuthTypes, Permission
<1>. QED
  BY <1>2, <1>3 DEF CallTargets, HasTarget

(* What may become of the principals in a step: a row is added or made     *)
(* active, and its plane is left alone.                                    *)
LEMMA create_principalTyped ==
  ASSUME AuthTypes, NEW s \in Subjects, create_principal(s)
  PROVE  /\ principals' \in [Subjects -> Principal \cup {None}]
         /\ principals'[s] # None
         /\ \A t \in Subjects : Exists(t) => principals'[t] # None /\ principals'[t].plane = Plane(t)
<1>1. principals \in [Subjects -> Principal \cup {None}]
  BY DEF AuthTypes
<1>2. principals[s] # None => principals[s].plane \in Planes
  BY <1>1 DEF Principal
<1>3. principals'[s] = [active |-> TRUE, plane |-> IF principals[s] = None THEN DEFAULT_PLANE
                                                   ELSE principals[s].plane]
  BY <1>1 DEF create_principal
<1>4. principals'[s] \in Principal
  BY <1>2, <1>3, AuthAssumption DEF Principal
<1>5. \A t \in Subjects : t # s => principals'[t] = principals[t]
  BY <1>1 DEF create_principal
<1>6. DOMAIN principals' = Subjects /\ principals' = [t \in Subjects |-> principals'[t]]
  BY <1>1 DEF create_principal
<1>7. principals' \in [Subjects -> Principal \cup {None}]
  BY <1>1, <1>4, <1>5, <1>6
<1>8. principals'[s] # None
  BY <1>4, AuthAssumption
<1>. QED
  BY <1>3, <1>5, <1>7, <1>8 DEF Exists, Plane

(* A step that replaces the call of one replica leaves the others alone.   *)
LEMMA CallStep ==
  ASSUME AuthTypes, NEW r \in Replicas, NEW c \in CallRecord, call' = [call EXCEPT ![r] = c]
  PROVE  /\ call' \in [Replicas -> CallRecord]
         /\ call'[r] = c
         /\ \A q \in Replicas : q # r => call'[q] = call[q]
BY DEF AuthTypes

(* The calls an action may leave behind are typed.                         *)
LEMMA CallFields ==
  ASSUME AuthTypes, NEW r \in Replicas
  PROVE  /\ call[r] \in CallRecord
         /\ call[r].pc \in Pcs /\ call[r].permissions \in SUBSET Permission
         /\ call[r].todo \in Seq(Permission) /\ call[r].late \in BOOLEAN
         /\ call[r].event \in Events /\ call[r].key \in Identifiers \cup {None}
         /\ call[r].subject \in Subjects \cup {None}
<1>1. call[r] \in CallRecord
  BY DEF AuthTypes
<1>. QED
  BY <1>1 DEF CallRecord

(* Moving a call on changes one field of it.                               *)
LEMMA GotoStep ==
  ASSUME AuthTypes, NEW r \in Replicas, NEW pc \in Pcs, Goto(r, pc)
  PROVE  /\ call' \in [Replicas -> CallRecord]
         /\ call'[r] = [call[r] EXCEPT !.pc = pc] /\ call'[r].pc = pc
         /\ call'[r].key = call[r].key /\ call'[r].late = call[r].late
         /\ call'[r].event = call[r].event
         /\ \A q \in Replicas : q # r => call'[q] = call[q]
<1>1. call[r] \in CallRecord /\ call \in [Replicas -> CallRecord]
  BY DEF AuthTypes
<1>2. call' = [call EXCEPT ![r] = [call[r] EXCEPT !.pc = pc]]
  BY DEF Goto
<1>3. [call[r] EXCEPT !.pc = pc] \in CallRecord
  BY <1>1 DEF CallRecord
<1>4. call'[r] = [call[r] EXCEPT !.pc = pc]
  BY <1>1, <1>2
<1>5. /\ call'[r].pc = pc /\ call'[r].key = call[r].key /\ call'[r].late = call[r].late
      /\ call'[r].event = call[r].event
  BY <1>1, <1>4 DEF CallRecord
<1>. QED
  BY <1>1, <1>2, <1>3, <1>4, <1>5

(* Between two requests a replica works on no key and has no event.        *)
LEMMA IdleFields ==
  /\ Idle \in CallRecord /\ Idle.pc = "idle" /\ Idle.late = FALSE /\ Idle.key = None
  /\ Idle.event = << >> /\ Idle.permissions = {}
BY CallsTyped DEF Idle, Down

(* The call that issue_token is in after the lookup, and create_api_key    *)
(* after the principal is there.                                           *)
LookedUp(k, s, late) ==
  [Idle EXCEPT !.pc = "permissions", !.key = k, !.subject = s, !.late = late]
Creating(k, s, todo) == [Idle EXCEPT !.pc = "grants", !.key = k, !.subject = s, !.todo = todo]

(* issue_token works on the key it looked up.                              *)
LEMMA LookupCall ==
  ASSUME NEW k \in Identifiers, NEW s \in Subjects, NEW late \in BOOLEAN
  PROVE  /\ LookedUp(k, s, late) \in CallRecord /\ LookedUp(k, s, late).pc = "permissions"
         /\ LookedUp(k, s, late).key = k /\ LookedUp(k, s, late).subject = s
         /\ LookedUp(k, s, late).late = late /\ LookedUp(k, s, late).event = << >>
<1>1. Idle \in CallRecord /\ Idle.event = << >>
  BY IdleFields
<1>2. /\ LookedUp(k, s, late) \in CallRecord /\ LookedUp(k, s, late).pc = "permissions"
      /\ LookedUp(k, s, late).key = k /\ LookedUp(k, s, late).subject = s
      /\ LookedUp(k, s, late).late = late
  BY <1>1 DEF LookedUp, CallRecord, Pcs
<1>3. LookedUp(k, s, late).event = Idle.event
  BY <1>1 DEF LookedUp, CallRecord
<1>. QED
  BY <1>1, <1>2, <1>3

(* create_api_key works on the key it generated.                           *)
LEMMA CreateCall ==
  ASSUME NEW k \in Identifiers, NEW s \in Subjects, NEW todo \in Seq(Permission)
  PROVE  /\ Creating(k, s, todo) \in CallRecord /\ Creating(k, s, todo).pc = "grants"
         /\ Creating(k, s, todo).key = k /\ Creating(k, s, todo).subject = s
         /\ Creating(k, s, todo).event = << >>
<1>1. Idle \in CallRecord /\ Idle.event = << >>
  BY IdleFields
<1>2. /\ Creating(k, s, todo) \in CallRecord /\ Creating(k, s, todo).pc = "grants"
      /\ Creating(k, s, todo).key = k /\ Creating(k, s, todo).subject = s
  BY <1>1 DEF Creating, CallRecord, Pcs
<1>3. Creating(k, s, todo).event = Idle.event
  BY <1>1 DEF Creating, CallRecord
<1>. QED
  BY <1>1, <1>2, <1>3

(* A change leaves its event to be recorded.                               *)
LEMMA AuditCall ==
  ASSUME NEW event \in Events
  PROVE  /\ Audit(event) \in CallRecord /\ Audit(event).pc = "event"
         /\ Audit(event).event = event /\ Audit(event).key = None
<1>1. Idle \in CallRecord
  BY IdleFields
<1>2. Audit(event) \in CallRecord /\ Audit(event).pc = "event" /\ Audit(event).event = event
  BY <1>1 DEF CallRecord, Pcs, Audit
<1>3. Audit(event).key = Idle.key
  BY <1>1 DEF CallRecord, Audit
<1>. QED
  BY <1>2, <1>3, IdleFields

(* A handler has the permissions of the token.                             *)
LEMMA HandlerCall ==
  ASSUME NEW token \in TokenClaims
  PROVE  /\ AuthContext(token) \in CallRecord /\ AuthContext(token).pc = "handler"
         /\ AuthContext(token).event = << >> /\ AuthContext(token).key = None
<1>1. Idle \in CallRecord /\ token.permissions \in SUBSET Permission
  BY IdleFields DEF TokenClaims, Permission
<1>2. AuthContext(token) \in CallRecord /\ AuthContext(token).pc = "handler"
  BY <1>1 DEF CallRecord, Pcs, AuthContext
<1>3. AuthContext(token).key = Idle.key /\ AuthContext(token).event = Idle.event
  BY <1>1 DEF CallRecord, AuthContext
<1>. QED
  BY <1>2, <1>3, IdleFields

(* grant_permissions moves on to the next permission.                      *)
LEMMA GrantCall ==
  ASSUME AuthTypes, NEW r \in Replicas, call[r].todo # << >>,
         call' = [call EXCEPT ![r].todo = Tail(@)]
  PROVE  /\ call' \in [Replicas -> CallRecord]
         /\ call'[r].pc = call[r].pc /\ call'[r].key = call[r].key
         /\ call'[r].subject = call[r].subject /\ call'[r].late = call[r].late
         /\ call'[r].event = call[r].event
         /\ \A q \in Replicas : q # r => call'[q] = call[q]
         /\ Head(call[r].todo) \in Permission
<1>1. call[r] \in CallRecord /\ call \in [Replicas -> CallRecord]
  BY DEF AuthTypes
<1>2. call[r].todo \in Seq(Permission)
  BY CallFields
<1>3. Tail(call[r].todo) \in Seq(Permission) /\ Head(call[r].todo) \in Permission
  BY <1>2
<1>4. call' = [call EXCEPT ![r] = [call[r] EXCEPT !.todo = Tail(call[r].todo)]]
  BY <1>1
<1>5. [call[r] EXCEPT !.todo = Tail(call[r].todo)] \in CallRecord
  BY <1>1, <1>3 DEF CallRecord
<1>6. call'[r] = [call[r] EXCEPT !.todo = Tail(call[r].todo)]
  BY <1>1, <1>4
<1>7. /\ call'[r].pc = call[r].pc /\ call'[r].key = call[r].key
      /\ call'[r].subject = call[r].subject /\ call'[r].late = call[r].late
      /\ call'[r].event = call[r].event
  BY <1>1, <1>6 DEF CallRecord
<1>. QED
  BY <1>1, <1>3, <1>4, <1>5, <1>7

(* get_permissions keeps the key that was looked up.                       *)
LEMMA ReadCall ==
  ASSUME AuthTypes, NEW r \in Replicas, NEW ps \in SUBSET Permission,
         call' = [call EXCEPT ![r].pc = "last_used", ![r].permissions = ps]
  PROVE  /\ call' \in [Replicas -> CallRecord]
         /\ call'[r].pc = "last_used" /\ call'[r].key = call[r].key
         /\ call'[r].late = call[r].late /\ call'[r].event = call[r].event
         /\ \A q \in Replicas : q # r => call'[q] = call[q]
<1>1. call[r] \in CallRecord /\ call \in [Replicas -> CallRecord]
  BY DEF AuthTypes
<1>2. call' = [call EXCEPT ![r] = [call[r] EXCEPT !.pc = "last_used", !.permissions = ps]]
  BY <1>1
<1>3. [call[r] EXCEPT !.pc = "last_used", !.permissions = ps] \in CallRecord
  BY <1>1 DEF CallRecord, Pcs
<1>4. call'[r] = [call[r] EXCEPT !.pc = "last_used", !.permissions = ps]
  BY <1>1, <1>2
<1>5. /\ call'[r].pc = "last_used" /\ call'[r].key = call[r].key
      /\ call'[r].late = call[r].late /\ call'[r].event = call[r].event
  BY <1>1, <1>4 DEF CallRecord
<1>. QED
  BY <1>1, <1>2, <1>3, <1>5

(* A step of one replica keeps the targets of the others, as no principal  *)
(* is ever deleted.                                                        *)
LEMMA TargetsStep ==
  ASSUME CallTargets, NEW r \in Replicas, \A q \in Replicas : q # r => call'[q] = call[q],
         \A s \in Subjects : Exists(s) => Exists(s)', HasTarget(call[r])'
  PROVE  CallTargets'
BY DEF CallTargets, HasTarget

-------------------------------------------------------------------------------
(* Every step keeps the types, and calls keep their targets.               *)
LEMMA TypesNext ==
  ASSUME AuthTypes, CallTargets, [Next]_vars
  PROVE  AuthTypes' /\ CallTargets'
<1>. USE DEF store, world
<1>1. ASSUME NEW r \in Replicas, lifespan(r)
      PROVE  AuthTypes' /\ CallTargets'
  <2>1. BootstrapSubject \in Subjects /\ call' = [call EXCEPT ![r] = Bootstrapping]
    BY <1>1, AuthAssumption DEF lifespan
  <2>2. /\ principals' \in [Subjects -> Principal \cup {None}]
        /\ principals'[BootstrapSubject] # None
        /\ \A s \in Subjects : Exists(s) => Exists(s)'
    BY <1>1, <2>1, create_principalTyped DEF lifespan, Exists
  <2>3. /\ call' \in [Replicas -> CallRecord] /\ call'[r] = Bootstrapping
        /\ \A q \in Replicas : q # r => call'[q] = call[q]
    BY <2>1, CallStep, CallsTyped
  <2>4. AuthTypes'
    BY <1>1, <2>2, <2>3 DEF AuthTypes, lifespan
  <2>5. Bootstrapping.subject = BootstrapSubject
    BY CallsTyped DEF Bootstrapping, Down
  <2>6. HasTarget(call[r])'
    BY <2>1, <2>2, <2>3, <2>5, CallsTyped DEF HasTarget, Exists
  <2>. QED
    BY <2>2, <2>3, <2>4, <2>6, TargetsStep
<1>2. ASSUME NEW r \in Replicas, NEW c \in {Idle, Down}, call' = [call EXCEPT ![r] = c],
             UNCHANGED store, UNCHANGED world
      PROVE  AuthTypes' /\ CallTargets'
  <2>1. /\ call' \in [Replicas -> CallRecord] /\ call'[r] = c
        /\ \A q \in Replicas : q # r => call'[q] = call[q]
    BY <1>2, CallStep, CallsTyped
  <2>2. AuthTypes'
    BY <1>2, <2>1 DEF AuthTypes
  <2>3. HasTarget(call[r])'
    BY <2>1, CallsTyped DEF HasTarget
  <2>. QED
    BY <1>2, <2>1, <2>2, <2>3, TargetsStep DEF Exists
<1>3. ASSUME NEW r \in Replicas, NEW k \in Identifiers, get_credential_with_principal(r, k)
      PROVE  AuthTypes' /\ CallTargets'
  <2>1. credentials[k] \in CredentialRecord
    BY <1>3 DEF get_credential_with_principal, Admitted, AuthTypes
  <2>2. credentials[k].subject \in Subjects /\ (k \in revoked) \in BOOLEAN
    BY <2>1 DEF CredentialRecord
  <2>3. PICK late \in BOOLEAN, s \in Subjects :
          late = (k \in revoked) /\ s = credentials[k].subject
    BY <2>2
  <2>4. call' = [call EXCEPT ![r] = LookedUp(k, s, late)]
    BY <1>3, <2>3 DEF get_credential_with_principal, LookedUp
  <2>5. /\ call' \in [Replicas -> CallRecord]
        /\ call'[r] = LookedUp(k, s, late)
        /\ \A q \in Replicas : q # r => call'[q] = call[q]
    BY <2>4, CallStep, LookupCall
  <2>6. AuthTypes'
    BY <1>3, <2>5 DEF AuthTypes, get_credential_with_principal
  <2>7. call'[r].pc = "permissions" /\ call'[r].key = k /\ call'[r].subject \in Subjects
    <3>1. /\ LookedUp(k, s, late).pc = "permissions" /\ LookedUp(k, s, late).key = k
          /\ LookedUp(k, s, late).subject = s
      BY LookupCall
    <3>. QED
      BY <2>5, <3>1
  <2>8. HasTarget(call[r])'
    BY <2>7 DEF HasTarget
  <2>. QED
    BY <1>3, <2>5, <2>6, <2>8, TargetsStep DEF Exists, get_credential_with_principal
<1>4. ASSUME NEW r \in Replicas, NEW token \in tokens, verify_token(r, token)
      PROVE  AuthTypes' /\ CallTargets'
  <2>1. AuthContext(token) \in CallRecord /\ AuthContext(token).pc = "handler"
    BY HandlerCall DEF AuthTypes
  <2>2. /\ call' \in [Replicas -> CallRecord] /\ call'[r] = AuthContext(token)
        /\ \A q \in Replicas : q # r => call'[q] = call[q]
    BY <1>4, <2>1, CallStep DEF verify_token
  <2>3. AuthTypes'
    BY <1>4, <2>2 DEF AuthTypes, verify_token
  <2>4. HasTarget(call[r])'
    BY <2>1, <2>2 DEF HasTarget
  <2>. QED
    BY <1>4, <2>2, <2>3, <2>4, TargetsStep DEF Exists, verify_token
<1>5. ASSUME NEW r \in Replicas, NEW request \in KeyRequests, NEW k \in Keys,
             create_api_key(r, request, k)
      PROVE  AuthTypes' /\ CallTargets'
  <2>1. /\ request.subject \in Subjects /\ request.permissions \in Seq(Permission)
        /\ k \in Identifiers
    BY AuthAssumption DEF CreateApiKeyRequest, Permission, Identifiers
  <2>2. /\ principals' \in [Subjects -> Principal \cup {None}]
        /\ principals'[request.subject] # None
        /\ \A s \in Subjects : Exists(s) => Exists(s)'
    BY <1>5, <2>1, create_principalTyped DEF create_api_key, Exists
  <2>4. call' = [call EXCEPT ![r] = Creating(k, request.subject, request.permissions)]
    BY <1>5 DEF create_api_key, Creating
  <2>5. /\ call' \in [Replicas -> CallRecord]
        /\ call'[r] = Creating(k, request.subject, request.permissions)
        /\ \A q \in Replicas : q # r => call'[q] = call[q]
    BY <2>1, <2>4, CallStep, CreateCall
  <2>6. AuthTypes'
    BY <1>5, <2>2, <2>5 DEF AuthTypes, create_api_key
  <2>7. HasTarget(call[r])'
    BY <2>1, <2>2, <2>5, CreateCall DEF HasTarget, Exists
  <2>. QED
    BY <2>2, <2>5, <2>6, <2>7, TargetsStep
<1>6. ASSUME NEW r \in Replicas, NEW k \in Identifiers, revoke_api_key(r, k)
      PROVE  AuthTypes' /\ CallTargets'
  <2>1. <<"REVOKE_API_KEY", k>> \in Events
    BY DEF Events
  <2>2. /\ Audit(<<"REVOKE_API_KEY", k>>) \in CallRecord
        /\ Audit(<<"REVOKE_API_KEY", k>>).pc = "event"
    BY <2>1, AuditCall
  <2>3. /\ call' \in [Replicas -> CallRecord] /\ call'[r].pc = "event"
        /\ \A q \in Replicas : q # r => call'[q] = call[q]
    BY <1>6, <2>2, CallStep DEF revoke_api_key
  <2>4. credentials[k] \in CredentialRecord
    BY <1>6 DEF revoke_api_key, AuthTypes
  <2>5. [credentials[k] EXCEPT !.status = "REVOKED"] \in CredentialRecord
    BY <2>4 DEF CredentialRecord
  <2>6. credentials' = [credentials EXCEPT ![k] = [credentials[k] EXCEPT !.status = "REVOKED"]]
    BY <1>6 DEF revoke_api_key, revoke_credential
  <2>7. credentials' \in [Identifiers -> CredentialRecord \cup {None}]
    BY <2>5, <2>6 DEF AuthTypes
  <2>8. AuthTypes'
    BY <1>6, <2>3, <2>7 DEF AuthTypes, revoke_api_key
  <2>9. HasTarget(call[r])'
    BY <2>3 DEF HasTarget
  <2>. QED
    BY <1>6, <2>3, <2>8, <2>9, TargetsStep DEF Exists, revoke_api_key
<1>7. ASSUME NEW r \in Replicas, grant_permissions(r)
      PROVE  AuthTypes' /\ CallTargets'
  <2>1. /\ call' \in [Replicas -> CallRecord]
        /\ call'[r].pc = call[r].pc /\ call'[r].key = call[r].key
        /\ call'[r].subject = call[r].subject
        /\ \A q \in Replicas : q # r => call'[q] = call[q]
        /\ Head(call[r].todo) \in Permission
    BY <1>7, GrantCall DEF grant_permissions
  <2>2. permission_grants' \in [Subjects -> SUBSET Permission]
    BY <1>7, <2>1 DEF grant_permissions, AuthTypes
  <2>3. AuthTypes'
    BY <1>7, <2>1, <2>2 DEF AuthTypes, grant_permissions
  <2>4. HasTarget(call[r])'
    BY <1>7, <2>1 DEF CallTargets, HasTarget, grant_permissions, Exists
  <2>. QED
    BY <1>7, <2>1, <2>3, <2>4, TargetsStep DEF Exists, grant_permissions
<1>8. ASSUME NEW r \in Replicas, ensure_bootstrap(r)
      PROVE  AuthTypes' /\ CallTargets'
  <2>1. /\ call' \in [Replicas -> CallRecord] /\ call'[r].pc = "idle"
        /\ \A q \in Replicas : q # r => call'[q] = call[q]
    BY <1>8, CallStep, CallsTyped DEF ensure_bootstrap, Finish
  <2>2. [subject |-> BootstrapSubject, status |-> "ACTIVE"] \in CredentialRecord
    BY AuthAssumption DEF CredentialRecord
  <2>3. credentials' \in [Identifiers -> CredentialRecord \cup {None}]
    BY <1>8, <2>2 DEF ensure_bootstrap, AuthTypes
  <2>4. AuthTypes'
    BY <1>8, <2>1, <2>3 DEF AuthTypes, ensure_bootstrap
  <2>5. HasTarget(call[r])'
    BY <2>1 DEF HasTarget
  <2>. QED
    BY <1>8, <2>1, <2>4, <2>5, TargetsStep DEF Exists, ensure_bootstrap
<1>9. ASSUME NEW r \in Replicas, get_permissions(r)
      PROVE  AuthTypes' /\ CallTargets'
  <2>1. permission_grants[call[r].subject] \in SUBSET Permission
    BY <1>9 DEF get_permissions, CallTargets, HasTarget, AuthTypes
  <2>2. /\ call' \in [Replicas -> CallRecord]
        /\ call'[r].pc = "last_used" /\ call'[r].key = call[r].key
        /\ \A q \in Replicas : q # r => call'[q] = call[q]
    BY <1>9, <2>1, ReadCall DEF get_permissions
  <2>3. AuthTypes'
    BY <1>9, <2>2 DEF AuthTypes, get_permissions
  <2>4. HasTarget(call[r])'
    BY <1>9, <2>2 DEF CallTargets, HasTarget, get_permissions
  <2>. QED
    BY <1>9, <2>2, <2>3, <2>4, TargetsStep DEF Exists, get_permissions
<1>10. ASSUME NEW r \in Replicas, update_last_used(r)
       PROVE  AuthTypes' /\ CallTargets'
  <2>1. /\ call' \in [Replicas -> CallRecord]
        /\ call'[r].pc = "sign" /\ call'[r].key = call[r].key
        /\ \A q \in Replicas : q # r => call'[q] = call[q]
    BY <1>10, GotoStep DEF update_last_used, Pcs
  <2>2. AuthTypes'
    BY <1>10, <2>1 DEF AuthTypes, update_last_used
  <2>3. HasTarget(call[r])'
    BY <1>10, <2>1 DEF CallTargets, HasTarget, update_last_used
  <2>. QED
    BY <1>10, <2>1, <2>2, <2>3, TargetsStep DEF Exists, update_last_used
<1>11. ASSUME NEW r \in Replicas, sign_token(r)
       PROVE  AuthTypes' /\ CallTargets'
  <2>1. /\ call' \in [Replicas -> CallRecord] /\ call'[r].pc = "idle"
        /\ \A q \in Replicas : q # r => call'[q] = call[q]
    BY <1>11, CallStep, CallsTyped DEF sign_token, Finish
  <2>2. call[r].key \in Identifiers
    BY <1>11 DEF sign_token, CallTargets, HasTarget
  <2>3. Claims(r) \in TokenClaims
    BY <2>2, CallFields DEF Claims, TokenClaims, Permission
  <2>4. AuthTypes'
    BY <1>11, <2>1, <2>3 DEF AuthTypes, sign_token
  <2>5. HasTarget(call[r])'
    BY <2>1 DEF HasTarget
  <2>. QED
    BY <1>11, <2>1, <2>4, <2>5, TargetsStep DEF Exists, sign_token
<1>12. ASSUME NEW r \in Replicas, create_credential(r)
       PROVE  AuthTypes' /\ CallTargets'
  <2>1. /\ call[r].key \in Identifiers /\ call[r].subject \in Subjects
        /\ <<"CREATE_API_KEY", call[r].key>> \in Events
    BY <1>12 DEF create_credential, CallTargets, HasTarget, Identifiers, Events
  <2>2. /\ Audit(<<"CREATE_API_KEY", call[r].key>>) \in CallRecord
        /\ Audit(<<"CREATE_API_KEY", call[r].key>>).pc = "event"
    BY <2>1, AuditCall
  <2>3. /\ call' \in [Replicas -> CallRecord] /\ call'[r].pc = "event"
        /\ \A q \in Replicas : q # r => call'[q] = call[q]
    BY <1>12, <2>2, CallStep DEF create_credential
  <2>4. [subject |-> call[r].subject, status |-> "ACTIVE"] \in CredentialRecord
    BY <2>1 DEF CredentialRecord
  <2>5. credentials' \in [Identifiers -> CredentialRecord \cup {None}]
    BY <1>12, <2>1, <2>4 DEF create_credential, AuthTypes
  <2>6. AuthTypes'
    BY <1>12, <2>3, <2>5 DEF AuthTypes, create_credential
  <2>7. HasTarget(call[r])'
    BY <2>3 DEF HasTarget
  <2>. QED
    BY <1>12, <2>3, <2>6, <2>7, TargetsStep DEF Exists, create_credential
<1>13. ASSUME NEW a \in Admins, CommitRole(a)
       PROVE  AuthTypes' /\ CallTargets'
  <2>1. assign[a] \in Subjects \X Roles
    BY <1>13 DEF CommitRole, AuthTypes
  <2>2. assign[a][1] \in Subjects /\ assign[a][2] \in Roles
    BY <2>1
  <2>3. principal_roles' \in [Subjects -> SUBSET Roles]
    BY <1>13, <2>2 DEF CommitRole, AuthTypes
  <2>4. assign' \in [Admins -> {<< >>} \cup (Subjects \X Roles)]
    BY <1>13 DEF CommitRole, AuthTypes
  <2>. QED
    BY <1>13, <2>3, <2>4 DEF CommitRole, AuthTypes, CallTargets, HasTarget, Exists
<1>14. ASSUME NEW a \in Admins, NEW s \in Subjects, NEW role \in Roles, InsertRole(a, s, role)
       PROVE  AuthTypes' /\ CallTargets'
  <2>1. assign' \in [Admins -> {<< >>} \cup (Subjects \X Roles)]
    BY <1>14 DEF InsertRole, AuthTypes
  <2>. QED
    BY <1>14, <2>1 DEF InsertRole, AuthTypes, CallTargets, HasTarget, Exists
<1>15. ASSUME UNCHANGED <<store, tokens, assign, revoked, call>>
       PROVE  AuthTypes' /\ CallTargets'
  BY <1>15 DEF AuthTypes, CallTargets, HasTarget, Exists
<1>16. ASSUME NEW w \in Sweepers, Remediate(w)
       PROVE  AuthTypes' /\ CallTargets'
  <2>1. /\ permission_grants' \in [Subjects -> SUBSET Permission]
        /\ principal_roles' \in [Subjects -> SUBSET Roles]
    BY <1>16 DEF Remediate, AuthTypes
  <2>. QED
    BY <1>16, <2>1 DEF Remediate, AuthTypes, CallTargets, HasTarget, Exists
<1>17. ASSUME NEW token \in tokens, Expire(token)
       PROVE  AuthTypes' /\ CallTargets'
  BY <1>17 DEF Expire, AuthTypes, CallTargets, HasTarget, Exists
<1>18. ASSUME NEW r \in Replicas, record_event(r) \/ GrantRaises(r) \/ Answer(r) \/ Stop(r)
                                  \/ Crash(r, Down) \/ Crash(r, Idle)
       PROVE  AuthTypes' /\ CallTargets'
  BY <1>2, <1>18 DEF record_event, GrantRaises, Answer, Stop, Crash, Finish
<1>19. ASSUME NEW w \in Sweepers, CountRoles(w) \/ ReadRoles(w) \/ ReadGrants(w) \/ SweepDies(w)
       PROVE  AuthTypes' /\ CallTargets'
  BY <1>15, <1>19 DEF CountRoles, ReadRoles, ReadGrants, SweepDies, SweepOnly
<1>20. CASE UNCHANGED vars
  BY <1>15, <1>20 DEF vars
<1>. QED
  BY <1>1, <1>3, <1>4, <1>5, <1>6, <1>7, <1>8, <1>9, <1>10, <1>11, <1>12, <1>13, <1>14, <1>16,
     <1>17, <1>18, <1>19, <1>20 DEF Next, Request, Continue, Reconcile

-------------------------------------------------------------------------------
(* What a step may do to the call of replica q.                            *)
Settles(q) ==
  /\ call'[q].pc \in {"down", "idle", "ensure_grants", "handler"}
  /\ call'[q].event = << >> /\ call'[q].key \in {None, "bootstrap"}
  /\ call[q].pc = "event" => call[q].event \in auth_events' \cup lost'

Looks(q) ==
  /\ call[q].pc = "idle" /\ call'[q].pc = "permissions"
  /\ call'[q].event = << >> /\ call'[q].key \in Identifiers
  /\ Admitted(call'[q].key) /\ (call'[q].late => call'[q].key \in revoked)

Creates(q) ==
  /\ call[q].pc = "handler" /\ call'[q].pc = "grants"
  /\ call'[q].event = << >> /\ call'[q].key \in Keys
  /\ credentials[call'[q].key] = None
  /\ \A p \in Replicas : call[p].key # call'[q].key

Advances(q) ==
  /\ call'[q].key = call[q].key /\ call'[q].late = call[q].late
  /\ call'[q].event = call[q].event
  /\ \/ call[q].pc \in {"ensure_grants", "grants"} /\ call'[q].pc = call[q].pc
     \/ call[q].pc \in {"permissions", "last_used"} /\ call'[q].pc \in {"last_used", "sign"}

Changes(q) ==
  /\ call[q].pc \in {"grants", "handler"} /\ call'[q].pc = "event" /\ call'[q].key = None

CallEffect(q) ==
  call'[q] = call[q] \/ Settles(q) \/ Looks(q) \/ Creates(q) \/ Advances(q) \/ Changes(q)

(* No step does anything else to a call.                                   *)
LEMMA CallEffects ==
  ASSUME AuthTypes, CallTargets, [Next]_vars
  PROVE  \A q \in Replicas : CallEffect(q)
<1>. USE DEF store, world
<1>0. \A q \in Replicas : call'[q] = call[q] => CallEffect(q)
  BY DEF CallEffect
<1>1. ASSUME NEW r \in Replicas, lifespan(r)
      PROVE  \A q \in Replicas : CallEffect(q)
  <2>1. call'[r] = Bootstrapping /\ \A q \in Replicas : q # r => call'[q] = call[q]
    BY <1>1, CallStep, CallsTyped DEF lifespan
  <2>2. Bootstrapping.event = << >> /\ Bootstrapping.key = "bootstrap"
    BY DEF Bootstrapping, Down
  <2>3. Settles(r)
    BY <1>1, <2>1, <2>2, CallsTyped DEF Settles, lifespan
  <2>. QED
    BY <1>0, <2>1, <2>3 DEF CallEffect
<1>2. ASSUME NEW r \in Replicas, NEW c \in {Idle, Down}, call' = [call EXCEPT ![r] = c],
             call[r].pc = "event" => call[r].event \in auth_events' \cup lost'
      PROVE  \A q \in Replicas : CallEffect(q)
  <2>1. call'[r] = c /\ \A q \in Replicas : q # r => call'[q] = call[q]
    BY <1>2, CallStep, CallsTyped
  <2>2. c.event = << >> /\ c.key = None /\ c.pc \in {"down", "idle"}
    BY <1>2 DEF Idle, Down
  <2>3. Settles(r)
    BY <1>2, <2>1, <2>2 DEF Settles
  <2>. QED
    BY <1>0, <2>1, <2>3 DEF CallEffect
<1>3. ASSUME NEW r \in Replicas, NEW k \in Identifiers, get_credential_with_principal(r, k)
      PROVE  \A q \in Replicas : CallEffect(q)
  <2>1. credentials[k] \in CredentialRecord
    BY <1>3 DEF get_credential_with_principal, Admitted, AuthTypes
  <2>2. credentials[k].subject \in Subjects /\ (k \in revoked) \in BOOLEAN
    BY <2>1 DEF CredentialRecord
  <2>3. PICK late \in BOOLEAN, s \in Subjects :
          late = (k \in revoked) /\ s = credentials[k].subject
    BY <2>2
  <2>4. call' = [call EXCEPT ![r] = LookedUp(k, s, late)]
    BY <1>3, <2>3 DEF get_credential_with_principal, LookedUp
  <2>5. call'[r] = LookedUp(k, s, late) /\ \A q \in Replicas : q # r => call'[q] = call[q]
    BY <2>4, CallStep, LookupCall
  <2>6. /\ LookedUp(k, s, late).pc = "permissions" /\ LookedUp(k, s, late).key = k
        /\ LookedUp(k, s, late).late = late /\ LookedUp(k, s, late).event = << >>
    BY LookupCall
  <2>7. call'[r].pc = "permissions" /\ call'[r].key = k /\ call'[r].event = << >>
    BY <2>5, <2>6
  <2>8. call'[r].late => k \in revoked
    BY <2>3, <2>5, <2>6
  <2>9. Looks(r)
    BY <1>3, <2>7, <2>8 DEF Looks, get_credential_with_principal
  <2>. QED
    BY <1>0, <2>5, <2>9 DEF CallEffect
<1>4. ASSUME NEW r \in Replicas, NEW token \in tokens, verify_token(r, token)
      PROVE  \A q \in Replicas : CallEffect(q)
  <2>1. /\ AuthContext(token) \in CallRecord /\ AuthContext(token).pc = "handler"
        /\ AuthContext(token).event = << >> /\ AuthContext(token).key = None
    BY HandlerCall DEF AuthTypes
  <2>2. call'[r] = AuthContext(token) /\ \A q \in Replicas : q # r => call'[q] = call[q]
    BY <1>4, <2>1, CallStep DEF verify_token
  <2>3. Settles(r)
    BY <1>4, <2>1, <2>2 DEF Settles, verify_token
  <2>. QED
    BY <1>0, <2>2, <2>3 DEF CallEffect
<1>5. ASSUME NEW r \in Replicas, NEW request \in KeyRequests, NEW k \in Keys,
             create_api_key(r, request, k)
      PROVE  \A q \in Replicas : CallEffect(q)
  <2>1. /\ request.subject \in Subjects /\ request.permissions \in Seq(Permission)
        /\ k \in Identifiers
    BY AuthAssumption DEF CreateApiKeyRequest, Permission, Identifiers
  <2>2. call' = [call EXCEPT ![r] = Creating(k, request.subject, request.permissions)]
    BY <1>5 DEF create_api_key, Creating
  <2>3. /\ call'[r] = Creating(k, request.subject, request.permissions)
        /\ \A q \in Replicas : q # r => call'[q] = call[q]
    BY <2>1, <2>2, CallStep, CreateCall
  <2>4. Creates(r)
    <3>1. call'[r].pc = "grants" /\ call'[r].key = k /\ call'[r].event = << >>
      BY <2>1, <2>3, CreateCall
    <3>. QED
      BY <1>5, <3>1 DEF Creates, create_api_key
  <2>. QED
    BY <1>0, <2>3, <2>4 DEF CallEffect
<1>6. ASSUME NEW r \in Replicas, NEW k \in Identifiers, revoke_api_key(r, k)
      PROVE  \A q \in Replicas : CallEffect(q)
  <2>1. <<"REVOKE_API_KEY", k>> \in Events
    BY DEF Events
  <2>2. /\ call'[r] = Audit(<<"REVOKE_API_KEY", k>>)
        /\ \A q \in Replicas : q # r => call'[q] = call[q]
    BY <1>6, <2>1, AuditCall, CallStep DEF revoke_api_key
  <2>3. Changes(r)
    BY <1>6, <2>1, <2>2, AuditCall DEF Changes, revoke_api_key
  <2>. QED
    BY <1>0, <2>2, <2>3 DEF CallEffect
<1>7. ASSUME NEW r \in Replicas, grant_permissions(r)
      PROVE  \A q \in Replicas : CallEffect(q)
  <2>1. Advances(r) /\ \A q \in Replicas : q # r => call'[q] = call[q]
    BY <1>7, GrantCall DEF grant_permissions, Advances
  <2>. QED
    BY <1>0, <2>1 DEF CallEffect
<1>8. ASSUME NEW r \in Replicas, get_permissions(r)
      PROVE  \A q \in Replicas : CallEffect(q)
  <2>1. permission_grants[call[r].subject] \in SUBSET Permission
    BY <1>8 DEF get_permissions, CallTargets, HasTarget, AuthTypes
  <2>2. Advances(r) /\ \A q \in Replicas : q # r => call'[q] = call[q]
    BY <1>8, <2>1, ReadCall DEF get_permissions, Advances
  <2>. QED
    BY <1>0, <2>2 DEF CallEffect
<1>9. ASSUME NEW r \in Replicas, update_last_used(r)
      PROVE  \A q \in Replicas : CallEffect(q)
  <2>1. Advances(r) /\ \A q \in Replicas : q # r => call'[q] = call[q]
    BY <1>9, GotoStep DEF update_last_used, Pcs, Advances
  <2>. QED
    BY <1>0, <2>1 DEF CallEffect
<1>10. ASSUME NEW r \in Replicas, create_credential(r)
       PROVE  \A q \in Replicas : CallEffect(q)
  <2>1. <<"CREATE_API_KEY", call[r].key>> \in Events
    BY <1>10 DEF create_credential, CallTargets, HasTarget, Identifiers, Events
  <2>2. /\ call'[r] = Audit(<<"CREATE_API_KEY", call[r].key>>)
        /\ \A q \in Replicas : q # r => call'[q] = call[q]
    BY <1>10, <2>1, AuditCall, CallStep DEF create_credential
  <2>3. Changes(r)
    BY <1>10, <2>1, <2>2, AuditCall DEF Changes, create_credential
  <2>. QED
    BY <1>0, <2>2, <2>3 DEF CallEffect
<1>11. ASSUME NEW r \in Replicas, \/ record_event(r) \/ GrantRaises(r) \/ Answer(r) \/ Stop(r)
                                  \/ Crash(r, Down) \/ Crash(r, Idle) \/ sign_token(r)
                                  \/ ensure_bootstrap(r)
       PROVE  \A q \in Replicas : CallEffect(q)
  BY <1>2, <1>11 DEF record_event, GrantRaises, Answer, Stop, Crash, sign_token, ensure_bootstrap,
                     Finish
<1>12. ASSUME UNCHANGED call
       PROVE  \A q \in Replicas : CallEffect(q)
  BY <1>0, <1>12
<1>13. ASSUME NEW a \in Admins,
              CommitRole(a) \/ \E s \in Subjects, role \in Roles : InsertRole(a, s, role)
       PROVE  \A q \in Replicas : CallEffect(q)
  BY <1>12, <1>13 DEF CommitRole, InsertRole
<1>14. ASSUME NEW w \in Sweepers, Reconcile(w) \/ SweepDies(w)
       PROVE  \A q \in Replicas : CallEffect(q)
  BY <1>12, <1>14 DEF Reconcile, CountRoles, ReadRoles, ReadGrants, Remediate, SweepDies, SweepOnly
<1>15. ASSUME NEW token \in tokens, Expire(token)
       PROVE  \A q \in Replicas : CallEffect(q)
  BY <1>12, <1>15 DEF Expire
<1>16. CASE UNCHANGED vars
  BY <1>12, <1>16 DEF vars
<1>. QED
  BY <1>1, <1>3, <1>4, <1>5, <1>6, <1>7, <1>8, <1>9, <1>10, <1>11, <1>13, <1>14, <1>15, <1>16
     DEF Next, Request, Continue

(* One replica takes a step at a time.                                     *)
LEMMA OneCallSteps ==
  ASSUME AuthTypes, [Next]_vars, NEW p \in Replicas, NEW q \in Replicas, p # q
  PROVE  call'[p] = call[p] \/ call'[q] = call[q]
<1>. USE DEF store, world
<1>0. call \in [Replicas -> CallRecord]
  BY DEF AuthTypes
<1>1. ASSUME NEW r \in Replicas,
             \/ lifespan(r) \/ Stop(r) \/ Request(r) \/ Continue(r)
             \/ Crash(r, Down) \/ Crash(r, Idle)
      PROVE  \A i \in Replicas : i # r => call'[i] = call[i]
  BY <1>0, <1>1 DEF lifespan, Stop, Answer, Crash, get_credential_with_principal, verify_token,
              Request, create_api_key, grant_permissions, GrantRaises, get_permissions,
              update_last_used, record_event, revoke_api_key, create_credential, ensure_bootstrap,
              Continue, sign_token, Finish, Goto
<1>2. ASSUME NEW a \in Admins,
             CommitRole(a) \/ \E s \in Subjects, role \in Roles : InsertRole(a, s, role)
      PROVE  call' = call
  BY <1>2 DEF CommitRole, InsertRole
<1>3. ASSUME NEW w \in Sweepers, Reconcile(w) \/ SweepDies(w)
      PROVE  call' = call
  BY <1>3 DEF Reconcile, CountRoles, ReadRoles, ReadGrants, Remediate, SweepDies, SweepOnly
<1>4. ASSUME NEW t \in tokens, Expire(t)
      PROVE  call' = call
  BY <1>4 DEF Expire
<1>5. CASE UNCHANGED vars
  BY <1>5 DEF vars
<1>. QED
  BY <1>1, <1>2, <1>3, <1>4, <1>5 DEF Next

-------------------------------------------------------------------------------
(* What a step may do to auth.credentials.                                 *)
Only(k) == \A i \in Identifiers : i # k => credentials'[i] = credentials[i]

Restores(r) ==
  /\ call[r].pc = "ensure_grants"
  /\ credentials'["bootstrap"] = [subject |-> BootstrapSubject, status |-> "ACTIVE"]
  /\ Only("bootstrap") /\ revoked' = revoked \ {"bootstrap"}

Inserts(r) ==
  /\ call[r].pc = "grants" /\ call'[r].pc = "event"
  /\ call'[r].event = <<"CREATE_API_KEY", call[r].key>>
  /\ credentials'[call[r].key] = [subject |-> call[r].subject, status |-> "ACTIVE"]
  /\ Only(call[r].key) /\ revoked' = revoked

Revokes(r, k) ==
  /\ call[r].pc = "handler" /\ call'[r].pc = "event"
  /\ call'[r].event = <<"REVOKE_API_KEY", k>>
  /\ credentials[k] # None
  /\ credentials'[k] = [credentials[k] EXCEPT !.status = "REVOKED"]
  /\ Only(k) /\ revoked' = revoked \cup {k}

(* Keys are written by ensure_bootstrap, create_credential and             *)
(* revoke_credential, and by nothing else.                                 *)
LEMMA CredentialEffects ==
  ASSUME AuthTypes, CallTargets, [Next]_vars
  PROVE  \/ UNCHANGED <<credentials, revoked>>
         \/ \E r \in Replicas : Restores(r) \/ Inserts(r) \/ \E k \in Identifiers : Revokes(r, k)
<1>. USE DEF store, world
<1>. DEFINE Goal == \/ UNCHANGED <<credentials, revoked>>
                    \/ \E r \in Replicas :
                         Restores(r) \/ Inserts(r) \/ \E k \in Identifiers : Revokes(r, k)
<1>0. credentials \in [Identifiers -> CredentialRecord \cup {None}]
  BY DEF AuthTypes
<1>1. ASSUME NEW r \in Replicas, ensure_bootstrap(r)
      PROVE  Goal
  <2>1. "bootstrap" \in Identifiers
    BY DEF Identifiers
  <2>2. Restores(r)
    BY <1>0, <1>1, <2>1 DEF Restores, Only, ensure_bootstrap
  <2>. QED
    BY <2>2
<1>2. ASSUME NEW r \in Replicas, create_credential(r)
      PROVE  Goal
  <2>1. call[r].key \in Identifiers /\ <<"CREATE_API_KEY", call[r].key>> \in Events
    BY <1>2 DEF create_credential, CallTargets, HasTarget, Identifiers, Events
  <2>2. call'[r] = Audit(<<"CREATE_API_KEY", call[r].key>>)
    BY <1>2, <2>1, AuditCall, CallStep DEF create_credential
  <2>3. call'[r].pc = "event" /\ call'[r].event = <<"CREATE_API_KEY", call[r].key>>
    BY <2>1, <2>2, AuditCall
  <2>4. Inserts(r)
    BY <1>0, <1>2, <2>1, <2>3 DEF Inserts, Only, create_credential
  <2>. QED
    BY <2>4
<1>3. ASSUME NEW r \in Replicas, NEW k \in Identifiers, revoke_api_key(r, k)
      PROVE  Goal
  <2>1. <<"REVOKE_API_KEY", k>> \in Events
    BY DEF Events
  <2>2. call'[r] = Audit(<<"REVOKE_API_KEY", k>>)
    BY <1>3, <2>1, AuditCall, CallStep DEF revoke_api_key
  <2>3. call'[r].pc = "event" /\ call'[r].event = <<"REVOKE_API_KEY", k>>
    BY <2>1, <2>2, AuditCall
  <2>4. /\ credentials'[k] = [credentials[k] EXCEPT !.status = "REVOKED"]
        /\ Only(k)
    BY <1>0, <1>3 DEF Only, revoke_api_key, revoke_credential
  <2>5. Revokes(r, k)
    BY <1>3, <2>3, <2>4 DEF Revokes, revoke_api_key
  <2>. QED
    BY <2>5
<1>4. ASSUME NEW r \in Replicas,
             \/ lifespan(r) \/ Stop(r) \/ Answer(r) \/ Crash(r, Down) \/ Crash(r, Idle)
             \/ (\E k \in Identifiers : get_credential_with_principal(r, k))
             \/ (\E token \in tokens : verify_token(r, token))
             \/ (\E request \in KeyRequests, k \in Keys : create_api_key(r, request, k))
             \/ grant_permissions(r) \/ GrantRaises(r) \/ get_permissions(r)
             \/ update_last_used(r) \/ sign_token(r) \/ record_event(r)
      PROVE  UNCHANGED <<credentials, revoked>>
  BY <1>4 DEF lifespan, Stop, Answer, Crash, get_credential_with_principal, verify_token,
              create_api_key, grant_permissions, GrantRaises, get_permissions, update_last_used,
              sign_token, record_event
<1>5. ASSUME NEW a \in Admins,
             CommitRole(a) \/ \E s \in Subjects, role \in Roles : InsertRole(a, s, role)
      PROVE  UNCHANGED <<credentials, revoked>>
  BY <1>5 DEF CommitRole, InsertRole
<1>6. ASSUME NEW w \in Sweepers, Reconcile(w) \/ SweepDies(w)
      PROVE  UNCHANGED <<credentials, revoked>>
  BY <1>6 DEF Reconcile, CountRoles, ReadRoles, ReadGrants, Remediate, SweepDies, SweepOnly
<1>7. ASSUME NEW token \in tokens, Expire(token)
      PROVE  UNCHANGED <<credentials, revoked>>
  BY <1>7 DEF Expire
<1>8. CASE UNCHANGED vars
  BY <1>8 DEF vars
<1>9. CASE Next
  <2>1. CASE \E r \in Replicas : \/ lifespan(r) \/ Stop(r) \/ Request(r) \/ Continue(r)
                                 \/ Crash(r, Down) \/ Crash(r, Idle)
    BY <1>1, <1>2, <1>3, <1>4, <2>1 DEF Request, Continue
  <2>. QED
    BY <1>5, <1>6, <1>7, <1>9, <2>1 DEF Next
<1>. QED
  BY <1>8, <1>9

(* A token is signed from a call that has got that far.                    *)
LEMMA TokenEffects ==
  ASSUME AuthTypes, CallTargets, [Next]_vars, NEW token \in tokens'
  PROVE  token \in tokens \/ \E r \in Replicas : call[r].pc = "sign" /\ token.late = call[r].late
<1>. USE DEF store, world
<1>1. ASSUME NEW r \in Replicas, sign_token(r)
      PROVE  token \in tokens \/ (call[r].pc = "sign" /\ token.late = call[r].late)
  BY <1>1 DEF sign_token, Claims
<1>2. ASSUME NEW r \in Replicas,
             \/ lifespan(r) \/ Stop(r) \/ Request(r) \/ Crash(r, Down) \/ Crash(r, Idle)
             \/ grant_permissions(r) \/ GrantRaises(r) \/ ensure_bootstrap(r)
             \/ get_permissions(r) \/ update_last_used(r)
             \/ create_credential(r) \/ record_event(r)
      PROVE  tokens' = tokens
  BY <1>2 DEF lifespan, Stop, Answer, Crash, get_credential_with_principal, verify_token, Request,
              create_api_key, grant_permissions, GrantRaises, get_permissions, update_last_used,
              record_event, revoke_api_key, create_credential, ensure_bootstrap
<1>3. ASSUME NEW a \in Admins,
             CommitRole(a) \/ \E s \in Subjects, role \in Roles : InsertRole(a, s, role)
      PROVE  tokens' = tokens
  BY <1>3 DEF CommitRole, InsertRole
<1>4. ASSUME NEW w \in Sweepers, Reconcile(w) \/ SweepDies(w)
      PROVE  tokens' = tokens
  BY <1>4 DEF Reconcile, CountRoles, ReadRoles, ReadGrants, Remediate, SweepDies, SweepOnly
<1>5. ASSUME NEW t \in tokens, Expire(t)
      PROVE  tokens' \subseteq tokens
  BY <1>5 DEF Expire
<1>6. CASE UNCHANGED vars
  BY <1>6 DEF vars
<1>. QED
  BY <1>1, <1>2, <1>3, <1>4, <1>5, <1>6 DEF Next, Continue

(* Events are only ever added.                                             *)
LEMMA EventsKept ==
  ASSUME [Next]_vars
  PROVE  auth_events \subseteq auth_events' /\ lost \subseteq lost'
<1>. USE DEF store, world
<1>1. ASSUME NEW r \in Replicas,
             \/ lifespan(r) \/ Stop(r) \/ Request(r) \/ Continue(r)
             \/ Crash(r, Down) \/ Crash(r, Idle)
      PROVE  auth_events \subseteq auth_events' /\ lost \subseteq lost'
  BY <1>1 DEF lifespan, Stop, Answer, Crash, get_credential_with_principal, verify_token, Request,
              create_api_key, grant_permissions, GrantRaises, get_permissions, update_last_used,
              record_event, revoke_api_key, create_credential, ensure_bootstrap, Continue, sign_token
<1>2. ASSUME NEW a \in Admins,
             CommitRole(a) \/ \E s \in Subjects, role \in Roles : InsertRole(a, s, role)
      PROVE  UNCHANGED <<auth_events, lost>>
  BY <1>2 DEF CommitRole, InsertRole
<1>3. ASSUME NEW w \in Sweepers, Reconcile(w) \/ SweepDies(w)
      PROVE  UNCHANGED <<auth_events, lost>>
  BY <1>3 DEF Reconcile, CountRoles, ReadRoles, ReadGrants, Remediate, SweepDies, SweepOnly
<1>4. ASSUME NEW t \in tokens, Expire(t)
      PROVE  UNCHANGED <<auth_events, lost>>
  BY <1>4 DEF Expire
<1>5. CASE UNCHANGED vars
  BY <1>5 DEF vars
<1>. QED
  BY <1>1, <1>2, <1>3, <1>4, <1>5 DEF Next

-------------------------------------------------------------------------------
(* A key that is being created has no row yet, and no other call knows it. *)
NewKeys ==
  \A r \in Replicas : call[r].pc = "grants" =>
    /\ credentials[call[r].key] = None
    /\ \A q \in Replicas : q # r => call[q].key # call[r].key

(* The row of a key that was revoked says so.                              *)
RevokedRows == \A k \in revoked : credentials[k] # None /\ credentials[k].status = "REVOKED"

(* No issue_token in progress looked its key up after the revocation.      *)
NotLate ==
  \A r \in Replicas : call[r].pc \in {"permissions", "last_used", "sign"} => ~call[r].late

(* An event is pending only where it is about to be recorded.              *)
EventAtPc == \A r \in Replicas : call[r].pc # "event" => call[r].event = << >>

KeyInv == NewKeys /\ RevokedRows /\ NotLate /\ EventAtPc

(* At first there is no key, no token and no revocation.                   *)
LEMMA KeyInit == Init => KeyInv /\ NoTokenAfterRevocation /\ KeysAccounted
<1>. SUFFICES ASSUME Init PROVE KeyInv /\ NoTokenAfterRevocation /\ KeysAccounted
  OBVIOUS
<1>1. \A r \in Replicas : call[r].pc = "down" /\ call[r].event = << >>
  BY DEF Init, Down
<1>2. revoked = {} /\ tokens = {} /\ \A k \in Identifiers : credentials[k] = None
  BY DEF Init
<1>. QED
  BY <1>1, <1>2 DEF KeyInv, NewKeys, RevokedRows, NotLate, EventAtPc, NoTokenAfterRevocation,
                    KeysAccounted, Identifiers

(* Every step keeps the account of keys and revocations.                   *)
LEMMA KeyNext ==
  ASSUME AuthTypes, CallTargets, KeyInv, [Next]_vars
  PROVE  KeyInv'
<1>1. \A q \in Replicas : CallEffect(q)
  BY CallEffects
<1>2. \/ UNCHANGED <<credentials, revoked>>
      \/ \E r \in Replicas : Restores(r) \/ Inserts(r) \/ \E k \in Identifiers : Revokes(r, k)
  BY CredentialEffects
<1>3. NewKeys'
  <2>. SUFFICES ASSUME NEW r \in Replicas, call'[r].pc = "grants"
                PROVE  /\ credentials'[call'[r].key] = None
                       /\ \A q \in Replicas : q # r => call'[q].key # call'[r].key
    BY DEF NewKeys
  <2>1. (call'[r].key = call[r].key /\ call[r].pc = "grants") \/ Creates(r)
    BY <1>1 DEF CallEffect, Settles, Looks, Advances, Changes
  <2>2. call'[r].key \in Keys /\ credentials[call'[r].key] = None
    BY <2>1 DEF KeyInv, NewKeys, CallTargets, HasTarget, Creates
  <2>3. \A q \in Replicas : q # r => call[q].key # call'[r].key
    BY <2>1 DEF KeyInv, NewKeys, Creates
  <2>4. credentials'[call'[r].key] = None
    <3>1. call'[r].key \in Identifiers /\ call'[r].key # "bootstrap"
      BY <2>2, AuthAssumption DEF Identifiers
    <3>2. ASSUME NEW q \in Replicas, Restores(q)
          PROVE  credentials'[call'[r].key] = None
      BY <2>2, <3>1, <3>2 DEF Restores, Only
    <3>3. ASSUME NEW q \in Replicas, Inserts(q)
          PROVE  credentials'[call'[r].key] = None
      <4>1. q # r
        BY <3>3 DEF Inserts
      <4>. QED
        BY <2>2, <2>3, <3>1, <3>3, <4>1 DEF Inserts, Only
    <3>4. ASSUME NEW q \in Replicas, NEW k \in Identifiers, Revokes(q, k)
          PROVE  credentials'[call'[r].key] = None
      BY <2>2, <3>1, <3>4 DEF Revokes, Only
    <3>. QED
      BY <1>2, <2>2, <3>2, <3>3, <3>4
  <2>5. ASSUME NEW q \in Replicas, q # r
        PROVE  call'[q].key # call'[r].key
    <3>1. CallEffect(q)
      BY <1>1
    <3>2. call'[r].key # None /\ call'[r].key # "bootstrap"
      BY <2>2, AuthAssumption DEF Identifiers
    <3>3. CASE call'[q] = call[q] \/ Advances(q)
      BY <2>3, <2>5, <3>3 DEF Advances
    <3>4. CASE Settles(q) \/ Changes(q)
      BY <3>2, <3>4 DEF Settles, Changes
    <3>5. CASE Looks(q)
      BY <2>2, <3>5 DEF Looks, Admitted
    <3>6. CASE Creates(q)
      <4>1. call'[q].key # call[r].key
        BY <3>6 DEF Creates
      <4>2. CASE call'[r].key = call[r].key
        BY <4>1, <4>2
      <4>3. CASE Creates(r)
        BY <2>5, <3>6, <4>3, OneCallSteps DEF Creates
      <4>. QED
        BY <2>1, <4>2, <4>3
    <3>. QED
      BY <3>1, <3>3, <3>4, <3>5, <3>6 DEF CallEffect
  <2>. QED
    BY <2>4, <2>5
<1>4. RevokedRows'
  <2>. SUFFICES ASSUME NEW k \in revoked'
                PROVE  credentials'[k] # None /\ credentials'[k].status = "REVOKED"
    BY DEF RevokedRows
  <2>0. revoked \subseteq Identifiers
    BY DEF AuthTypes
  <2>1. k \in revoked => credentials[k] # None /\ credentials[k].status = "REVOKED"
    BY DEF KeyInv, RevokedRows
  <2>2. ASSUME NEW r \in Replicas, Restores(r)
        PROVE  credentials'[k] # None /\ credentials'[k].status = "REVOKED"
    BY <2>0, <2>1, <2>2 DEF Restores, Only
  <2>3. ASSUME NEW r \in Replicas, Inserts(r)
        PROVE  credentials'[k] # None /\ credentials'[k].status = "REVOKED"
    <3>1. credentials[call[r].key] = None
      BY <2>3 DEF Inserts, KeyInv, NewKeys
    <3>. QED
      BY <2>0, <2>1, <2>3, <3>1 DEF Inserts, Only
  <2>4. ASSUME NEW r \in Replicas, NEW i \in Identifiers, Revokes(r, i)
        PROVE  credentials'[k] # None /\ credentials'[k].status = "REVOKED"
    <3>1. credentials[i] \in CredentialRecord
      BY <2>4 DEF Revokes, AuthTypes
    <3>2. credentials'[i] \in CredentialRecord /\ credentials'[i].status = "REVOKED"
      BY <2>4, <3>1 DEF Revokes, CredentialRecord
    <3>3. credentials'[i] # None
      BY <3>2, AuthAssumption
    <3>. QED
      BY <2>0, <2>1, <2>4, <3>2, <3>3 DEF Revokes, Only
  <2>. QED
    BY <1>2, <2>1, <2>2, <2>3, <2>4
<1>5. NotLate'
  <2>. SUFFICES ASSUME NEW r \in Replicas, call'[r].pc \in {"permissions", "last_used", "sign"}
                PROVE  ~call'[r].late
    BY DEF NotLate
  <2>1. CASE call'[r] = call[r]
    BY <2>1 DEF KeyInv, NotLate
  <2>2. CASE Advances(r)
    <3>1. call[r].pc \in {"permissions", "last_used"}
      BY <2>2 DEF Advances
    <3>. QED
      BY <2>2, <3>1 DEF Advances, KeyInv, NotLate
  <2>3. CASE Looks(r)
    <3>1. call'[r].key \notin revoked
      BY <2>3 DEF Looks, Admitted, KeyInv, RevokedRows
    <3>. QED
      BY <2>3, <3>1 DEF Looks
  <2>. QED
    BY <1>1, <2>1, <2>2, <2>3 DEF CallEffect, Settles, Creates, Changes
<1>6. EventAtPc'
  BY <1>1 DEF EventAtPc, KeyInv, CallEffect, Settles, Looks, Creates, Advances, Changes
<1>. QED
  BY <1>3, <1>4, <1>5, <1>6 DEF KeyInv

(* Every key and every revocation has its event, or a call that died.      *)
LEMMA AccountsNext ==
  ASSUME AuthTypes, CallTargets, KeyInv, KeysAccounted, [Next]_vars
  PROVE  KeysAccounted'
<1>. DEFINE Told(e) == e \in auth_events \cup lost \cup {call[r].event : r \in Replicas}
<1>1. ASSUME NEW e, e # << >>, Told(e)
      PROVE  Told(e)'
  <2>1. CASE e \in auth_events \cup lost
    BY <2>1, EventsKept
  <2>2. CASE \E r \in Replicas : e = call[r].event
    <3>1. PICK r \in Replicas : e = call[r].event
      BY <2>2
    <3>2. call[r].pc = "event"
      BY <1>1, <3>1 DEF KeyInv, EventAtPc
    <3>3. call'[r] = call[r] \/ Settles(r)
      BY <3>2, CallEffects DEF CallEffect, Looks, Creates, Advances, Changes
    <3>. QED
      BY <3>1, <3>2, <3>3 DEF Settles
  <2>. QED
    BY <1>1, <2>1, <2>2
<1>2. \A r \in Replicas : Told(call[r].event)'
  OBVIOUS
<1>. SUFFICES ASSUME NEW k \in Keys
              PROVE  /\ credentials'[k] # None => Told(<<"CREATE_API_KEY", k>>)'
                     /\ k \in revoked' => Told(<<"REVOKE_API_KEY", k>>)'
  BY DEF KeysAccounted
<1>3. k \in Identifiers /\ k # "bootstrap"
  BY AuthAssumption DEF Identifiers
<1>4. /\ credentials[k] # None => Told(<<"CREATE_API_KEY", k>>)
      /\ k \in revoked => Told(<<"REVOKE_API_KEY", k>>)
  BY DEF KeysAccounted
<1>5. /\ credentials[k] # None => Told(<<"CREATE_API_KEY", k>>)'
      /\ k \in revoked => Told(<<"REVOKE_API_KEY", k>>)'
  <2>1. <<"CREATE_API_KEY", k>> # << >> /\ <<"REVOKE_API_KEY", k>> # << >>
    OBVIOUS
  <2>. HIDE DEF Told
  <2>. QED
    BY <1>1, <1>4, <2>1
<1>. HIDE DEF Told
<1>6. ASSUME NEW r \in Replicas, Restores(r)
      PROVE  credentials'[k] = credentials[k] /\ (k \in revoked' => k \in revoked)
  BY <1>3, <1>6 DEF Restores, Only
<1>7. ASSUME NEW r \in Replicas, Inserts(r)
      PROVE  /\ credentials'[k] = credentials[k] \/ Told(<<"CREATE_API_KEY", k>>)'
             /\ k \in revoked' => k \in revoked
  BY <1>2, <1>3, <1>7 DEF Inserts, Only
<1>8. ASSUME NEW r \in Replicas, NEW i \in Identifiers, Revokes(r, i)
      PROVE  /\ credentials'[k] # None => credentials[k] # None
             /\ k \in revoked' => k \in revoked \/ Told(<<"REVOKE_API_KEY", k>>)'
  BY <1>2, <1>3, <1>8 DEF Revokes, Only
<1>. QED
  BY <1>5, <1>6, <1>7, <1>8, CredentialEffects

-------------------------------------------------------------------------------
(* What a step may do to the other tables: principals stay, and so do      *)
(* their planes; a permission is granted to a principal that is there; a   *)
(* role is one that a transaction inserted.                                *)
StoreEffect(s) ==
  /\ Exists(s) => Exists(s)' /\ Plane(s)' = Plane(s)
  /\ \A p \in permission_grants'[s] : p \in permission_grants[s] \/ (Exists(s) /\ Storable(p))
  /\ \A role \in principal_roles'[s] :
       role \in principal_roles[s] \/ \E a \in Admins : assign[a] = <<s, role>>

AssignEffect(a) ==
  \/ assign'[a] = assign[a] \/ assign'[a] = << >>
  \/ \E s \in Subjects, role \in Roles :
       assign'[a] = <<s, role>> /\ enforce_plane_role_binding(s, role)

(* No step does anything else to these tables.                             *)
LEMMA StoreEffects ==
  ASSUME AuthTypes, CallTargets, [Next]_vars
  PROVE  /\ \A s \in Subjects : StoreEffect(s)
         /\ \A a \in Admins : AssignEffect(a)
<1>. USE DEF store, world
<1>. DEFINE Goal == (\A s \in Subjects : StoreEffect(s)) /\ \A a \in Admins : AssignEffect(a)
<1>0. UNCHANGED <<permission_grants, principal_roles, assign>> /\
      (\A s \in Subjects : Exists(s) => Exists(s)' /\ Plane(s)' = Plane(s)) => Goal
  BY DEF StoreEffect, AssignEffect
<1>1. ASSUME NEW r \in Replicas, lifespan(r)
      PROVE  Goal
  <2>1. \A s \in Subjects : Exists(s) => Exists(s)' /\ Plane(s)' = Plane(s)
    BY <1>1, AuthAssumption, create_principalTyped DEF lifespan, Exists, Plane
  <2>. QED
    BY <1>0, <1>1, <2>1 DEF lifespan
<1>2. ASSUME NEW r \in Replicas, NEW request \in KeyRequests, NEW k \in Keys,
             create_api_key(r, request, k)
      PROVE  Goal
  <2>1. request.subject \in Subjects
    BY AuthAssumption DEF CreateApiKeyRequest
  <2>2. \A s \in Subjects : Exists(s) => Exists(s)' /\ Plane(s)' = Plane(s)
    BY <1>2, <2>1, create_principalTyped DEF create_api_key, Exists, Plane
  <2>. QED
    BY <1>0, <1>2, <2>2 DEF create_api_key
<1>3. ASSUME UNCHANGED <<principals, permission_grants, principal_roles, assign>>
      PROVE  Goal
  BY <1>0, <1>3 DEF Exists, Plane
<1>4. ASSUME NEW r \in Replicas, grant_permissions(r)
      PROVE  Goal
  <2>1. Exists(call[r].subject) /\ Storable(Head(call[r].todo))
    BY <1>4 DEF grant_permissions, CallTargets, HasTarget
  <2>2. \A s \in Subjects : \A p \in permission_grants'[s] :
          p \in permission_grants[s] \/ (s = call[r].subject /\ p = Head(call[r].todo))
    BY <1>4 DEF grant_permissions, AuthTypes
  <2>3. UNCHANGED <<principals, principal_roles, assign>>
    BY <1>4 DEF grant_permissions
  <2>. QED
    BY <2>1, <2>2, <2>3 DEF StoreEffect, AssignEffect, Exists, Plane
<1>5. ASSUME NEW r \in Replicas,
             \/ Stop(r) \/ Answer(r) \/ Crash(r, Down) \/ Crash(r, Idle)
             \/ (\E k \in Identifiers : get_credential_with_principal(r, k))
             \/ (\E token \in tokens : verify_token(r, token))
             \/ (\E k \in Identifiers : revoke_api_key(r, k))
             \/ GrantRaises(r) \/ ensure_bootstrap(r) \/ get_permissions(r)
             \/ update_last_used(r) \/ sign_token(r) \/ create_credential(r) \/ record_event(r)
      PROVE  UNCHANGED <<principals, permission_grants, principal_roles, assign>>
  BY <1>5 DEF Stop, Answer, Crash, get_credential_with_principal, verify_token, revoke_api_key,
              GrantRaises, ensure_bootstrap, get_permissions, update_last_used, sign_token,
              create_credential, record_event
<1>6. ASSUME NEW a \in Admins, CommitRole(a)
      PROVE  Goal
  <2>1. assign[a] \in Subjects \X Roles
    BY <1>6 DEF CommitRole, AuthTypes
  <2>2. assign[a] = <<assign[a][1], assign[a][2]>>
    BY <2>1
  <2>3. \A s \in Subjects : \A role \in principal_roles'[s] :
          role \in principal_roles[s] \/ (s = assign[a][1] /\ role = assign[a][2])
    BY <1>6, <2>1 DEF CommitRole, AuthTypes
  <2>4. \A b \in Admins : assign'[b] = assign[b] \/ assign'[b] = << >>
    BY <1>6 DEF CommitRole, AuthTypes
  <2>5. UNCHANGED <<principals, permission_grants>>
    BY <1>6 DEF CommitRole
  <2>. QED
    BY <2>2, <2>3, <2>4, <2>5 DEF StoreEffect, AssignEffect, Exists, Plane
<1>7. ASSUME NEW a \in Admins, NEW s \in Subjects, NEW role \in Roles, InsertRole(a, s, role)
      PROVE  Goal
  <2>1. \A b \in Admins : assign'[b] = assign[b] \/ assign'[b] = <<s, role>>
    BY <1>7 DEF InsertRole, AuthTypes
  <2>2. enforce_plane_role_binding(s, role)
    BY <1>7 DEF InsertRole
  <2>3. UNCHANGED <<principals, permission_grants, principal_roles>>
    BY <1>7 DEF InsertRole
  <2>. QED
    BY <2>1, <2>2, <2>3 DEF StoreEffect, AssignEffect, Exists, Plane
<1>8. ASSUME NEW w \in Sweepers, CountRoles(w) \/ ReadRoles(w) \/ ReadGrants(w) \/ SweepDies(w)
      PROVE  UNCHANGED <<principals, permission_grants, principal_roles, assign>>
  BY <1>8 DEF CountRoles, ReadRoles, ReadGrants, SweepDies, SweepOnly
<1>9. ASSUME NEW w \in Sweepers, Remediate(w)
      PROVE  Goal
  <2>1. \A s \in Subjects : /\ permission_grants'[s] \subseteq permission_grants[s]
                            /\ principal_roles'[s] \subseteq principal_roles[s]
    BY <1>9 DEF Remediate
  <2>2. UNCHANGED <<principals, assign>>
    BY <1>9 DEF Remediate
  <2>. QED
    BY <2>1, <2>2 DEF StoreEffect, AssignEffect, Exists, Plane
<1>10. ASSUME NEW token \in tokens, Expire(token)
       PROVE  UNCHANGED <<principals, permission_grants, principal_roles, assign>>
  BY <1>10 DEF Expire
<1>11. CASE UNCHANGED vars
  BY <1>3, <1>11 DEF vars
<1>12. CASE Next
  <2>1. CASE \E r \in Replicas : \/ lifespan(r) \/ Stop(r) \/ Request(r) \/ Continue(r)
                                 \/ Crash(r, Down) \/ Crash(r, Idle)
    BY <1>1, <1>2, <1>3, <1>4, <1>5, <2>1 DEF Request, Continue
  <2>. QED
    BY <1>3, <1>6, <1>7, <1>8, <1>9, <1>10, <1>12, <2>1 DEF Next, Reconcile
<1>. QED
  BY <1>11, <1>12

-------------------------------------------------------------------------------
(* A grant, a role or a key belongs to a principal, and a role, held or    *)
(* about to be committed, to the plane of its principal.                   *)
RowsOwned ==
  /\ \A s \in Subjects : \A p \in permission_grants[s] : Exists(s) /\ Storable(p)
  /\ \A k \in Identifiers : credentials[k] # None => Exists(credentials[k].subject)

BoundRoles ==
  /\ \A s \in Subjects : \A role \in principal_roles[s] : enforce_plane_role_binding(s, role)
  /\ \A a \in Admins, s \in Subjects, role \in Roles :
       assign[a] = <<s, role>> => enforce_plane_role_binding(s, role)

(* At first nothing is granted or assigned.                                *)
LEMMA RowsInit == Init => RowsOwned /\ BoundRoles
<1>. SUFFICES ASSUME Init PROVE RowsOwned /\ BoundRoles
  OBVIOUS
<1>1. \A a \in Admins, s \in Subjects, role \in Roles : assign[a] # <<s, role>>
  BY DEF Init
<1>. QED
  BY <1>1 DEF Init, RowsOwned, BoundRoles

(* Every step keeps grants, keys and roles with their principals.          *)
LEMMA RowsNext ==
  ASSUME AuthTypes, CallTargets, RowsOwned, BoundRoles, [Next]_vars
  PROVE  RowsOwned' /\ BoundRoles'
<1>1. (\A s \in Subjects : StoreEffect(s)) /\ \A a \in Admins : AssignEffect(a)
  BY StoreEffects
<1>2. \A s \in Subjects : Exists(s) => Exists(s)' /\ Plane(s)' = Plane(s)
  BY <1>1 DEF StoreEffect
<1>3. \A s \in Subjects : \A p \in permission_grants'[s] : Exists(s)' /\ Storable(p)
  BY <1>1, <1>2 DEF StoreEffect, RowsOwned
<1>4. \A k \in Identifiers : credentials'[k] # None => principals'[credentials'[k].subject] # None
  <2>. SUFFICES ASSUME NEW k \in Identifiers, credentials'[k] # None
                PROVE  principals'[credentials'[k].subject] # None
    OBVIOUS
  <2>0. \A s \in Subjects : principals[s] # None => principals'[s] # None
    BY <1>2 DEF Exists
  <2>1. \A i \in Identifiers : credentials[i] # None =>
          credentials[i] \in CredentialRecord /\ principals[credentials[i].subject] # None
    BY DEF AuthTypes, RowsOwned, Exists
  <2>2. \A i \in Identifiers : credentials[i] # None => principals'[credentials[i].subject] # None
    BY <2>0, <2>1 DEF CredentialRecord
  <2>3. ASSUME NEW r \in Replicas, Restores(r)
        PROVE  principals'[credentials'[k].subject] # None
    <3>1. BootstrapSubject \in Subjects /\ principals[BootstrapSubject] # None
      BY <2>3 DEF Restores, CallTargets, HasTarget, Exists
    <3>. QED
      BY <2>0, <2>2, <2>3, <3>1 DEF Restores, Only
  <2>4. ASSUME NEW r \in Replicas, Inserts(r)
        PROVE  principals'[credentials'[k].subject] # None
    <3>1. call[r].subject \in Subjects /\ principals[call[r].subject] # None
      BY <2>4 DEF Inserts, CallTargets, HasTarget, Exists
    <3>. QED
      BY <2>0, <2>2, <2>4, <3>1 DEF Inserts, Only
  <2>5. ASSUME NEW r \in Replicas, NEW i \in Identifiers, Revokes(r, i)
        PROVE  principals'[credentials'[k].subject] # None
    <3>1. credentials'[i].subject = credentials[i].subject
      BY <2>1, <2>5 DEF Revokes, CredentialRecord
    <3>. QED
      BY <2>2, <2>5, <3>1 DEF Revokes, Only
  <2>. QED
    BY <2>2, <2>3, <2>4, <2>5, CredentialEffects
<1>5. BoundRoles'
  <2>1. \A s \in Subjects, role \in Roles :
          enforce_plane_role_binding(s, role) => enforce_plane_role_binding(s, role)'
    BY <1>2 DEF enforce_plane_role_binding, Exists, Plane
  <2>2. \A s \in Subjects : principal_roles[s] \subseteq Roles /\ principal_roles'[s] \subseteq Roles
    BY TypesNext DEF AuthTypes
  <2>3. ASSUME NEW s \in Subjects, NEW role \in principal_roles'[s]
        PROVE  enforce_plane_role_binding(s, role)'
    BY <1>1, <2>1, <2>2 DEF StoreEffect, BoundRoles
  <2>4. ASSUME NEW a \in Admins, NEW s \in Subjects, NEW role \in Roles,
               assign'[a] = <<s, role>>
        PROVE  enforce_plane_role_binding(s, role)'
    <3>1. assign[a] = <<s, role>> \/ enforce_plane_role_binding(s, role)
      BY <1>1, <2>4 DEF AssignEffect
    <3>. QED
      BY <2>1, <3>1 DEF BoundRoles
  <2>. QED
    BY <2>3, <2>4 DEF BoundRoles
<1>. QED
  BY <1>3, <1>4, <1>5 DEF RowsOwned, Exists

-------------------------------------------------------------------------------
(* A role about to be committed is exclusive with a held one only if the   *)
(* two transactions were open together.                                    *)
OpenByOverlap ==
  \A a \in Admins, s \in Subjects, role \in Roles : assign[a] = <<s, role>> =>
    \A held \in principal_roles[s] :
      {held, role} \in MutualExclusions => <<s, {held, role}>> \in overlapped

(* At first nobody holds a role.                                           *)
LEMMA ExclusionInit == Init => ExclusiveOnlyByOverlap /\ OpenByOverlap
<1>. SUFFICES ASSUME Init PROVE ExclusiveOnlyByOverlap /\ OpenByOverlap
  OBVIOUS
<1>1. \A s \in Subjects : principal_roles[s] = {}
  BY DEF Init
<1>2. \A e \in MutualExclusions : e # {}
  BY AuthAssumption
<1>. QED
  BY <1>1, <1>2 DEF ExclusiveOnlyByOverlap, OpenByOverlap

(* Only CommitRole and InsertRole add to roles and to open transactions.   *)
LEMMA RolesStep ==
  ASSUME [Next]_vars,
         \A a \in Admins : ~CommitRole(a),
         \A a \in Admins, s \in Subjects, role \in Roles : ~InsertRole(a, s, role)
  PROVE  /\ \A s \in Subjects : principal_roles'[s] \subseteq principal_roles[s]
         /\ UNCHANGED <<assign, overlapped>>
<1>. USE DEF store, world
<1>1. ASSUME NEW r \in Replicas,
             \/ lifespan(r) \/ Stop(r) \/ Request(r) \/ Continue(r)
             \/ Crash(r, Down) \/ Crash(r, Idle)
      PROVE  UNCHANGED <<principal_roles, assign, overlapped>>
  BY <1>1 DEF lifespan, Stop, Answer, Crash, get_credential_with_principal, verify_token,
       Request, create_api_key, grant_permissions, GrantRaises, get_permissions,
       update_last_used, record_event, revoke_api_key, create_credential, ensure_bootstrap,
       Continue, sign_token
<1>2. ASSUME NEW w \in Sweepers, CountRoles(w) \/ ReadRoles(w) \/ ReadGrants(w) \/ SweepDies(w)
      PROVE  UNCHANGED <<principal_roles, assign, overlapped>>
  BY <1>2 DEF CountRoles, ReadRoles, ReadGrants, SweepDies, SweepOnly
<1>3. ASSUME NEW w \in Sweepers, Remediate(w)
      PROVE  /\ \A s \in Subjects : principal_roles'[s] \subseteq principal_roles[s]
             /\ UNCHANGED <<assign, overlapped>>
  BY <1>3 DEF Remediate
<1>4. ASSUME NEW token \in tokens, Expire(token)
      PROVE  UNCHANGED <<principal_roles, assign, overlapped>>
  BY <1>4 DEF Expire
<1>5. CASE UNCHANGED vars
  BY <1>5 DEF vars
<1>. QED
  BY <1>1, <1>2, <1>3, <1>4, <1>5 DEF Next, Reconcile

(* Every step keeps exclusive roles apart but for overlapping inserts.     *)
LEMMA ExclusionNext ==
  ASSUME AuthTypes, ExclusiveOnlyByOverlap, OpenByOverlap, [Next]_vars
  PROVE  ExclusiveOnlyByOverlap' /\ OpenByOverlap'
<1>1. CASE /\ \A a \in Admins : ~CommitRole(a)
           /\ \A a \in Admins, s \in Subjects, role \in Roles : ~InsertRole(a, s, role)
  BY <1>1, RolesStep DEF ExclusiveOnlyByOverlap, OpenByOverlap
<1>2. ASSUME NEW a \in Admins, NEW s \in Subjects, NEW role \in Roles, InsertRole(a, s, role)
      PROVE  ExclusiveOnlyByOverlap' /\ OpenByOverlap'
  <2>1. UNCHANGED <<principal_roles, overlapped>> /\ enforce_mutual_exclusion(s, role)
    BY <1>2 DEF InsertRole, store
  <2>2. \A b \in Admins : assign'[b] = assign[b] \/ assign'[b] = <<s, role>>
    BY <1>2 DEF InsertRole, AuthTypes
  <2>3. OpenByOverlap'
    <3>. SUFFICES ASSUME NEW b \in Admins, NEW u \in Subjects, NEW q \in Roles,
                         assign'[b] = <<u, q>>, NEW held \in principal_roles[u],
                         {held, q} \in MutualExclusions
                  PROVE  <<u, {held, q}>> \in overlapped
      BY <2>1 DEF OpenByOverlap
    <3>1. CASE assign'[b] = assign[b]
      BY <3>1 DEF OpenByOverlap
    <3>2. CASE assign'[b] = <<s, role>>
      <4>1. u = s /\ q = role
        BY <3>2
      <4>. QED
        BY <2>1, <4>1 DEF enforce_mutual_exclusion
    <3>. QED
      BY <2>2, <3>1, <3>2
  <2>. QED
    BY <2>1, <2>3 DEF ExclusiveOnlyByOverlap
<1>3. ASSUME NEW a \in Admins, CommitRole(a)
      PROVE  ExclusiveOnlyByOverlap' /\ OpenByOverlap'
  <2>1. assign[a] \in Subjects \X Roles
    BY <1>3 DEF CommitRole, AuthTypes
  <2>2. PICK s \in Subjects, role \in Roles : assign[a] = <<s, role>>
    BY <2>1
  <2>3. \A u \in Subjects : \A held \in principal_roles'[u] :
          held \in principal_roles[u] \/ (u = s /\ held = role)
    BY <1>3, <2>2 DEF CommitRole, AuthTypes
  <2>4. /\ overlapped \subseteq overlapped'
        /\ \A b \in OpenBeside(a) : <<assign[b][1], {assign[a][2], assign[b][2]}>> \in overlapped'
    BY <1>3 DEF CommitRole
  <2>5. ASSUME NEW u \in Subjects, NEW e \in MutualExclusions, e \subseteq principal_roles'[u]
        PROVE  <<u, e>> \in overlapped'
    <3>1. CASE e \subseteq principal_roles[u]
      BY <2>4, <3>1 DEF ExclusiveOnlyByOverlap
    <3>2. CASE ~(e \subseteq principal_roles[u])
      <4>1. u = s /\ role \in e
        BY <2>3, <2>5, <3>2
      <4>2. PICK held \in e : held # role /\ e = {held, role}
        BY <4>1, AuthAssumption
      <4>3. held \in principal_roles[s] /\ {held, role} \in MutualExclusions
        BY <2>3, <2>5, <4>1, <4>2
      <4>4. <<s, {held, role}>> \in overlapped
        BY <2>2, <4>3 DEF OpenByOverlap
      <4>. QED
        BY <2>4, <4>1, <4>2, <4>4
    <3>. QED
      BY <3>1, <3>2
  <2>6. ASSUME NEW b \in Admins, NEW u \in Subjects, NEW q \in Roles, assign'[b] = <<u, q>>,
               NEW held \in principal_roles'[u], {held, q} \in MutualExclusions
        PROVE  <<u, {held, q}>> \in overlapped'
    <3>1. b # a /\ assign[b] = <<u, q>>
      BY <1>3, <2>6 DEF CommitRole, AuthTypes
    <3>2. CASE held \in principal_roles[u]
      BY <2>4, <2>6, <3>1, <3>2 DEF OpenByOverlap
    <3>3. CASE u = s /\ held = role
      <4>0. assign[b] # << >> /\ assign[b][1] = s /\ assign[a][1] = s
        <5>1. <<u, q>> # << >> /\ <<u, q>>[1] = u /\ <<s, role>>[1] = s
          OBVIOUS
        <5>. QED
          BY <2>2, <3>1, <3>3, <5>1
      <4>1. b \in OpenBeside(a)
        BY <3>1, <4>0 DEF OpenBeside
      <4>. QED
        BY <2>2, <2>4, <3>1, <3>3, <4>1
    <3>. QED
      BY <2>3, <3>2, <3>3
  <2>. QED
    BY <2>5, <2>6 DEF ExclusiveOnlyByOverlap, OpenByOverlap
<1>. QED
  BY <1>1, <1>2, <1>3

-------------------------------------------------------------------------------
AuthInv ==
  /\ AuthTypes
  /\ CallTargets
  /\ KeyInv
  /\ NoTokenAfterRevocation
  /\ KeysAccounted
  /\ RowsOwned
  /\ BoundRoles
  /\ ExclusiveOnlyByOverlap
  /\ OpenByOverlap

(* The inductive invariant of the service and its tables.                  *)
THEOREM AuthInvariant == Spec => []AuthInv
<1>1. Init => AuthInv
  BY TypesInit, KeyInit, RowsInit, ExclusionInit DEF AuthInv
<1>2. AuthInv /\ [Next]_vars => AuthInv'
  <2>. SUFFICES ASSUME AuthInv, [Next]_vars PROVE AuthInv'
    OBVIOUS
  <2>1. NoTokenAfterRevocation'
    <3>. SUFFICES ASSUME NEW token \in tokens' PROVE ~token.late
      BY DEF NoTokenAfterRevocation
    <3>1. token \in tokens \/ \E r \in Replicas : call[r].pc = "sign" /\ token.late = call[r].late
      BY TokenEffects DEF AuthInv
    <3>. QED
      BY <3>1 DEF AuthInv, NoTokenAfterRevocation, KeyInv, NotLate
  <2>. QED
    BY <2>1, TypesNext, KeyNext, AccountsNext, RowsNext, ExclusionNext DEF AuthInv
<1>. QED
  BY <1>1, <1>2, PTL DEF Spec

(* The tables and the tokens are well typed, whatever call dies where: a   *)
(* key has its principal, and so has every grant and every role.           *)
THEOREM AuthTypeCorrect == Spec => []AuthTypeOK
<1>1. AuthInv => AuthTypeOK
  <2>. SUFFICES ASSUME AuthInv PROVE AuthTypeOK
    OBVIOUS
  <2>1. ASSUME NEW s \in Subjects
        PROVE  /\ Exists(s) => principals[s] \in Principal
               /\ ~Exists(s) => permission_grants[s] = {} /\ principal_roles[s] = {}
               /\ \A p \in permission_grants[s] : Storable(p)
    BY DEF AuthInv, AuthTypes, RowsOwned, BoundRoles, enforce_plane_role_binding, Exists
  <2>2. ASSUME NEW k \in Identifiers, credentials[k] # None
        PROVE  Exists(credentials[k].subject) /\ credentials[k] \in CredentialRecord
    BY <2>2 DEF AuthInv, AuthTypes, RowsOwned
  <2>3. tokens \subseteq TokenClaims
    BY DEF AuthInv, AuthTypes
  <2>. QED
    BY <2>1, <2>2, <2>3 DEF AuthTypeOK
<1>. QED
  BY <1>1, AuthInvariant, PTL

(* No token comes of a lookup that issue_token made after the revocation   *)
(* of the key, however many replicas issue and revoke at once.             *)
THEOREM RevocationHolds == Spec => []NoTokenAfterRevocation
<1>1. AuthInv => NoTokenAfterRevocation
  BY DEF AuthInv
<1>. QED
  BY <1>1, AuthInvariant, PTL

(* Every key and every revocation is in auth_events, is about to be, or    *)
(* its call died: create_api_key and revoke_api_key drop none.             *)
THEOREM KeysAreAccountedFor == Spec => []KeysAccounted
<1>1. AuthInv => KeysAccounted
  BY DEF AuthInv
<1>. QED
  BY <1>1, AuthInvariant, PTL

(* Only a start of the service makes a revoked key ACTIVE again, and only  *)
(* the bootstrap key.                                                      *)
THEOREM RevocationIsForGood == Spec => RevokedStays
<1>1. AuthInv /\ [Next]_vars =>
        [\A k \in Identifiers : (credentials[k] # None /\ credentials[k].status = "REVOKED") =>
           \/ credentials'[k].status = "REVOKED"
           \/ k = "bootstrap" /\ \E r \in Replicas : call[r].pc = "ensure_grants"]_vars
  <2>. SUFFICES ASSUME AuthInv, [Next]_vars, NEW k \in Identifiers, credentials[k] # None,
                       credentials[k].status = "REVOKED"
                PROVE  \/ credentials'[k].status = "REVOKED"
                       \/ k = "bootstrap" /\ \E r \in Replicas : call[r].pc = "ensure_grants"
    OBVIOUS
  <2>1. ASSUME NEW r \in Replicas, Restores(r)
        PROVE  \/ credentials'[k].status = "REVOKED"
               \/ k = "bootstrap" /\ \E q \in Replicas : call[q].pc = "ensure_grants"
    BY <2>1 DEF Restores, Only
  <2>2. ASSUME NEW r \in Replicas, Inserts(r)
        PROVE  credentials'[k].status = "REVOKED"
    <3>1. credentials[call[r].key] = None
      BY <2>2 DEF Inserts, AuthInv, KeyInv, NewKeys
    <3>. QED
      BY <2>2, <3>1 DEF Inserts, Only
  <2>3. ASSUME NEW r \in Replicas, NEW i \in Identifiers, Revokes(r, i)
        PROVE  credentials'[k].status = "REVOKED"
    <3>1. credentials[k] \in CredentialRecord
      BY DEF AuthInv, AuthTypes
    <3>. QED
      BY <2>3, <3>1 DEF Revokes, Only, CredentialRecord
  <2>. QED
    BY <2>1, <2>2, <2>3, CredentialEffects DEF AuthInv
<1>. QED
  BY <1>1, AuthInvariant, PTL DEF Spec, RevokedStays

(* No plane is bound to all roles of an exclusion, as 0002_rbac.sql binds  *)
(* AI_SERVICE to AI and DATA_RESEARCH, EXECUTION_SERVICE to RISK and       *)
(* TRADING.                                                                *)
ExclusionsAreBound ==
  \A e \in MutualExclusions, plane \in Planes :
    \E role \in e : plane \notin RolePlaneBindings[role]

(* The exclusion trigger refuses every role that excludes a committed one, *)
(* for any number of administrators and any exclusions: two exclusive      *)
(* roles meet in a principal only out of transactions that were open at    *)
(* the same time.                                                          *)
THEOREM ExclusionHoldsWithoutOverlap == Spec => []ExclusiveOnlyByOverlap
<1>1. AuthInv => ExclusiveOnlyByOverlap
  BY DEF AuthInv
<1>. QED
  BY <1>1, AuthInvariant, PTL

(* No principal holds two roles that exclude each other, which is what     *)
(* 0002_rbac.sql:141 is there for.                                         *)
RolesApart == \A s \in Subjects : \A e \in MutualExclusions : ~(e \subseteq principal_roles[s])

(* Exclusive roles of which no plane may hold both are never held by one   *)
(* principal, although the exclusion trigger alone would let two sessions  *)
(* that do not see each other assign them.                                 *)
THEOREM BindingsKeepRolesApart ==
  ASSUME ExclusionsAreBound
  PROVE  Spec => []RolesApart
<1>1. AuthInv => RolesApart
  <2>. SUFFICES ASSUME AuthInv, NEW s \in Subjects, NEW e \in MutualExclusions,
                       e \subseteq principal_roles[s]
                PROVE  FALSE
    BY DEF RolesApart
  <2>1. \A role \in e : principals[s] # None /\ principals[s].plane \in RolePlaneBindings[role]
    BY DEF AuthInv, BoundRoles, enforce_plane_role_binding
  <2>2. e # {}
    BY AuthAssumption DEF ExclusionsAreBound
  <2>3. principals[s].plane \in Planes
    BY <2>1, <2>2 DEF AuthInv, AuthTypes, Principal
  <2>. QED
    BY <2>1, <2>3 DEF ExclusionsAreBound
<1>. QED
  BY <1>1, AuthInvariant, PTL

(* The requests of the properties are permissions.                         *)
LEMMA RequestsTyped == Requests \subseteq Permission
<1>1. Grantable \subseteq Permission
  <2>1. \A body \in KeyRequests : body.permissions \in Seq(Permission)
    BY AuthAssumption DEF CreateApiKeyRequest, Permission
  <2>2. \A body \in KeyRequests : \A i \in 1..Len(body.permissions) :
          body.permissions[i] \in Permission
    BY <2>1, ElementOfSeq
  <2>. QED
    BY <2>2 DEF Grantable
<1>2. WRITE_KEYS \in Permission /\ \A role \in Roles : RolePermissions[role] \subseteq Permission
  BY AuthAssumption DEF Permission
<1>. QED
  BY <1>1, <1>2 DEF Requests

(* The layers agree in every reachable state: where the matrix has its     *)
(* wildcards in the last place, authorize refuses nothing that a grant of  *)
(* that form covers once evaluate found the assignments GRANTED.           *)
THEOREM LayersAlwaysAgree ==
  ASSUME TrailingMatrix
  PROVE  Spec => []LayersAgree
<1>1. AuthInv => LayersAgree
  <2>. SUFFICES ASSUME AuthInv, NEW s \in Subjects, NEW request \in Requests, Exists(s),
                       evaluate(Plane(s), {g \in Effective(s) : TrailingOnly(g)},
                                principal_roles[s] # {}) = "GRANTED"
                PROVE  authorize(Plane(s), {g \in Effective(s) : TrailingOnly(g)}, request) <=>
                         \E g \in {g \in Effective(s) : TrailingOnly(g)} : covers(g, request)
    BY DEF LayersAgree
  <2>1. Plane(s) \in Planes
    BY DEF AuthInv, AuthTypes, Principal, Exists, Plane
  <2>2. Effective(s) \subseteq Permission
    BY AuthAssumption DEF AuthInv, AuthTypes, Effective, Permission
  <2>3. request \in Permission
    BY RequestsTyped
  <2>4. PICK granted \in SUBSET Permission : granted = {g \in Effective(s) : TrailingOnly(g)}
    BY <2>2
  <2>5. PICK has_roles \in BOOLEAN : has_roles = (principal_roles[s] # {})
    OBVIOUS
  <2>6. evaluate(Plane(s), granted, has_roles) = "GRANTED" /\ \A g \in granted : TrailingOnly(g)
    BY <2>4, <2>5
  <2>7. authorize(Plane(s), granted, request) <=> \E g \in granted : covers(g, request)
    BY <2>1, <2>3, <2>6, EvaluatedIsAuthorized
  <2>. QED
    BY <2>4, <2>7
<1>. QED
  BY <1>1, AuthInvariant, PTL

(* The matcher of permissions.py allows no token what no permission of the *)
(* token covers in the sense of the matrix.                                *)
THEOREM MatchersAlwaysAgree == Spec => []MatchersAgree
<1>1. AuthInv => MatchersAgree
  <2>. SUFFICES ASSUME AuthInv, NEW token \in tokens, NEW request \in Requests,
                       has_permission(token.permissions, request)
                PROVE  \E g \in token.permissions : covers(g, request)
    BY DEF MatchersAgree
  <2>1. token.permissions \in SUBSET Permission
    BY DEF AuthInv, AuthTypes, TokenClaims, Permission
  <2>2. request \in Permission
    BY RequestsTyped
  <2>. QED
    BY <2>1, <2>2, MatcherSound
<1>. QED
  BY <1>1, AuthInvariant, PTL

(* A reconciliation sweep takes from a principal that it counted as        *)
(* provisioned only what the matrix forbids, whatever changed since.       *)
THEOREM SweepIsSelective == Spec => SweepTakesOnlyViolations
<1>1. AuthInv /\ [Next]_vars =>
        [\A s \in Subjects :
           (\A w \in Sweepers : sweep[w].pc = "remediate" => s \in sweep[w].provisioned) =>
             \A p \in permission_grants[s] \ permission_grants'[s] : GrantIsBad(s, p)]_vars
  <2>. SUFFICES ASSUME AuthInv, Next, NEW s \in Subjects,
                       \A w \in Sweepers : sweep[w].pc = "remediate" => s \in sweep[w].provisioned,
                       NEW p \in permission_grants[s] \ permission_grants'[s]
                PROVE  GrantIsBad(s, p)
    BY DEF vars, store
  <2>1. \E w \in Sweepers : Remediate(w)
    <3>1. ASSUME NEW r \in Replicas,
                 \/ lifespan(r) \/ Stop(r) \/ Request(r) \/ Continue(r)
                 \/ Crash(r, Down) \/ Crash(r, Idle)
          PROVE  permission_grants[s] \subseteq permission_grants'[s]
      BY <3>1 DEF lifespan, Stop, Answer, Crash, get_credential_with_principal, verify_token,
           Request, create_api_key, grant_permissions, GrantRaises, get_permissions,
           update_last_used, record_event, revoke_api_key, create_credential, ensure_bootstrap,
           Continue, sign_token, store, AuthInv, AuthTypes
    <3>2. ASSUME NEW a \in Admins,
                 CommitRole(a) \/ \E t \in Subjects, role \in Roles : InsertRole(a, t, role)
          PROVE  permission_grants' = permission_grants
      BY <3>2 DEF CommitRole, InsertRole, store
    <3>3. ASSUME NEW w \in Sweepers, CountRoles(w) \/ ReadRoles(w) \/ ReadGrants(w) \/ SweepDies(w)
          PROVE  permission_grants' = permission_grants
      BY <3>3 DEF CountRoles, ReadRoles, ReadGrants, SweepDies, SweepOnly, store
    <3>4. ASSUME NEW token \in tokens, Expire(token)
          PROVE  permission_grants' = permission_grants
      BY <3>4 DEF Expire, store
    <3>. QED
      BY <3>1, <3>2, <3>3, <3>4 DEF Next, Reconcile
  <2>2. PICK w \in Sweepers : Remediate(w)
    BY <2>1
  <2>3. p \in RevokedGrants(w, s) /\ ~Unprovisioned(w, s)
    BY <2>2 DEF Remediate, Unprovisioned
  <2>. QED
    BY <2>3 DEF RevokedGrants
<1>. QED
  BY <1>1, AuthInvariant, PTL DEF Spec, SweepTakesOnlyViolations

===============================================================================
