--------------------------------- MODULE Auth ---------------------------------
(***************************************************************************)
(* apexquant-auth: AuthService over PostgresAuthRepository, the RBAC       *)
(* tables with their triggers, and the reconciliation sweep.  The pool is  *)
(* autocommit: every statement of the service is a transaction.  Handlers  *)
(* block the event loop, so that a replica is in one request at a time;    *)
(* requests of several replicas overlap.  Of auth_events those are kept    *)
(* that record a change; principal_type, display names and secrets are     *)
(* left out, a secret is right or wrong.                                   *)
(***************************************************************************)
EXTENDS Rbac, FiniteSets

CONSTANTS None,
          Replicas,
          Admins,               \* sessions that change the RBAC tables by SQL
          Sweepers,             \* scheduled and on-demand runs of the sweep
          Subjects,
          Provisioned,          \* the plane of each subject that has a row at first
          BootstrapSubject, BootstrapPermissions,
          Keys,                 \* identifiers generate_api_key returns
          KeyRequests,          \* bodies of create_api_key: [subject, permissions]
          Roles, RolePermissions, RolePlaneBindings, MutualExclusions,
          migrate_on_start,
          MaxTokens,            \* bound: tokens that have not expired
          MaxFaults             \* bound: calls and sweeps that raise or die

VARIABLES migrated,
          principals,           \* subject -> [active, plane], or None
          credentials,          \* identifier -> [subject, status], or None
          permission_grants, principal_roles,
          auth_events,          \* <<action, identifier>>
          tokens,               \* handed out; they are in no table
          call,                 \* the request or the start each replica is in
          assign,               \* the open transaction of each admin
          sweep, faults,
          overlapped,           \* history: roles a principal got in overlapping transactions
          revoked,              \* history: keys that were revoked; a start that makes the
                                \* bootstrap key ACTIVE again takes it out
          lost                  \* history: events whose call died

store == <<principals, credentials, permission_grants, principal_roles>>
world == <<migrated, tokens, assign, overlapped, sweep, revoked>>
vars  == <<store, world, auth_events, call, faults, lost>>

Identifiers == Keys \cup {"bootstrap"}

WRITE_KEYS == <<"auth", "api_keys", "write">>

(* The plane of a row that is inserted without one.                        *)
DEFAULT_PLANE == "CONTROL"

(* Of the claims the permissions are kept; key, and whether it was revoked *)
(* when it was looked up, are history.  A token is dropped when it expires.*)
TokenClaims == [key : Identifiers, permissions : SUBSET Seq(STRING), late : BOOLEAN]

(* The rows of auth.principals and auth.credentials, and the body of a     *)
(* request for a key.                                                      *)
Principal == [active : BOOLEAN, plane : Planes]
CredentialRecord == [subject : Subjects, status : {"ACTIVE", "REVOKED"}]
CreateApiKeyRequest == [subject : Subjects, permissions : Seq(Seq(STRING))]

ASSUME AuthAssumption ==
  /\ KeyRequests \subseteq CreateApiKeyRequest
  /\ BootstrapSubject \in Subjects /\ DOMAIN Provisioned \subseteq Subjects
  /\ \A s \in DOMAIN Provisioned : Provisioned[s] \in Planes
  /\ DEFAULT_PLANE \in Planes /\ "bootstrap" \notin Keys
  /\ \A e \in MutualExclusions : \E x, y \in e : x # y /\ e = {x, y}
  /\ DOMAIN RolePermissions = Roles /\ DOMAIN RolePlaneBindings = Roles
  /\ \A role \in Roles : RolePermissions[role] \subseteq Seq(STRING)
  /\ BootstrapPermissions \in Seq(Seq(STRING)) /\ WRITE_KEYS \in Seq(STRING)
  /\ None \notin Principal \cup CredentialRecord \cup Identifiers
  /\ MaxTokens \in Nat

Down == [pc |-> "down", subject |-> None, key |-> None, permissions |-> {}, todo |-> << >>,
         late |-> FALSE, event |-> << >>]
Idle == [Down EXCEPT !.pc = "idle"]

Asleep == [pc |-> "asleep", known |-> {}, provisioned |-> {}, role_rows |-> {}, grant_rows |-> {}]

Init ==
  /\ migrated = ~migrate_on_start
  /\ principals = [s \in Subjects |-> IF s \in DOMAIN Provisioned
                     THEN [active |-> TRUE, plane |-> Provisioned[s]] ELSE None]
  /\ credentials = [k \in Identifiers |-> None]
  /\ permission_grants = [s \in Subjects |-> {}]
  /\ principal_roles = [s \in Subjects |-> {}]
  /\ auth_events = {} /\ tokens = {}
  /\ call = [r \in Replicas |-> Down]
  /\ assign = [a \in Admins |-> << >>]
  /\ sweep = [w \in Sweepers |-> Asleep]
  /\ faults = 0 /\ overlapped = {} /\ revoked = {} /\ lost = {}

Goto(r, pc) == call' = [call EXCEPT ![r].pc = pc]
Finish(r)   == call' = [call EXCEPT ![r] = Idle]
Fault       == faults < MaxFaults /\ faults' = faults + 1

-------------------------------------------------------------------------------
(* INSERT ... ON CONFLICT (subject_name) DO UPDATE SET active = TRUE; the  *)
(* plane of a row that exists is left alone.                               *)
create_principal(s) ==
  principals' = [principals EXCEPT ![s] =
    [active |-> TRUE, plane |-> IF @ = None THEN DEFAULT_PLANE ELSE @.plane]]

(* The files are not recorded; the second adds a constraint that may not   *)
(* exist yet, so that a start that migrates again raises.                  *)
apply_migrations == (migrate_on_start => ~migrated) /\ migrated' = TRUE

(* What is left of ensure_bootstrap once its principal is there.           *)
Bootstrapping == [Down EXCEPT !.pc = "ensure_grants", !.key = "bootstrap",
                    !.subject = BootstrapSubject, !.todo = BootstrapPermissions]

lifespan(r) ==
  /\ call[r].pc = "down"
  /\ apply_migrations
  /\ create_principal(BootstrapSubject)
  /\ call' = [call EXCEPT ![r] = Bootstrapping]
  /\ UNCHANGED <<credentials, permission_grants, principal_roles, tokens, assign, overlapped,
                 sweep, revoked, auth_events, faults, lost>>

enforce_emergency_stop_carveout(perm) == perm[1] # "emergency_stop"

Storable(perm) == validate_permission(perm) /\ enforce_emergency_stop_carveout(perm)

(* Each permission is inserted by a statement of its own.                  *)
grant_permissions(r) ==
  /\ call[r].pc \in {"ensure_grants", "grants"} /\ call[r].todo # << >>
  /\ Storable(Head(call[r].todo))
  /\ permission_grants' = [permission_grants EXCEPT ![call[r].subject] = @ \cup {Head(call[r].todo)}]
  /\ call' = [call EXCEPT ![r].todo = Tail(@)]
  /\ UNCHANGED <<principals, credentials, principal_roles, world, auth_events, faults, lost>>

(* The one before stays granted.                                           *)
GrantRaises(r) ==
  /\ call[r].pc = "grants" /\ call[r].todo # << >>
  /\ ~Storable(Head(call[r].todo))
  /\ Finish(r)
  /\ UNCHANGED <<store, world, auth_events, faults, lost>>

(* The bootstrap key is made ACTIVE again by every start.                  *)
ensure_bootstrap(r) ==
  /\ call[r].pc = "ensure_grants" /\ call[r].todo = << >>
  /\ credentials' = [credentials EXCEPT !["bootstrap"] =
       [subject |-> BootstrapSubject, status |-> "ACTIVE"]]
  /\ revoked' = revoked \ {"bootstrap"}
  /\ Finish(r)
  /\ UNCHANGED <<principals, permission_grants, principal_roles, migrated, tokens, assign,
                 overlapped, sweep, auth_events, faults, lost>>

-------------------------------------------------------------------------------
(* issue_token.  A key that is unknown, revoked, of an inactive principal, *)
(* or comes with a wrong secret is refused: nothing but a DENY event comes *)
(* of it.  The expires_at of a key is not looked at.                       *)
Admitted(k) ==
  /\ credentials[k] # None /\ credentials[k].status = "ACTIVE"
  /\ principals[credentials[k].subject].active

(* Defect: any credential that exists will do.                             *)
BugLookup(r, k) ==
  /\ call[r].pc = "idle" /\ credentials[k] # None
  /\ call' = [call EXCEPT ![r] = [Idle EXCEPT !.pc = "permissions", !.key = k,
       !.subject = credentials[k].subject, !.late = (k \in revoked)]]
  /\ UNCHANGED <<store, world, auth_events, faults, lost>>

get_credential_with_principal(r, k) ==
  /\ call[r].pc = "idle" /\ Admitted(k)
  /\ call' = [call EXCEPT ![r] = [Idle EXCEPT !.pc = "permissions", !.key = k,
       !.subject = credentials[k].subject, !.late = (k \in revoked)]]
  /\ UNCHANGED <<store, world, auth_events, faults, lost>>

get_permissions(r) ==
  /\ call[r].pc = "permissions"
  /\ call' = [call EXCEPT ![r].pc = "last_used",
       ![r].permissions = permission_grants[call[r].subject]]
  /\ UNCHANGED <<store, world, auth_events, faults, lost>>

(* Defect: the row that was looked up is written back.                     *)
BugUpdateLastUsed(r) ==
  /\ call[r].pc = "last_used"
  /\ credentials' = [credentials EXCEPT ![call[r].key].status = "ACTIVE"]
  /\ Goto(r, "sign")
  /\ UNCHANGED <<principals, permission_grants, principal_roles, world, auth_events, faults, lost>>

(* Nothing of the row is changed but last_used_at, which is not kept here. *)
update_last_used(r) ==
  /\ call[r].pc = "last_used"
  /\ Goto(r, "sign")
  /\ UNCHANGED <<store, world, auth_events, faults, lost>>

Claims(r) == [key |-> call[r].key, permissions |-> call[r].permissions, late |-> call[r].late]

(* The token is handed out once its event is stored.                       *)
sign_token(r) ==
  /\ call[r].pc = "sign" /\ Cardinality(tokens) < MaxTokens
  /\ tokens' = tokens \cup {Claims(r)}
  /\ Finish(r)
  /\ UNCHANGED <<store, migrated, assign, overlapped, sweep, revoked, auth_events, faults, lost>>

(* exp <= now, 30 to 3600 seconds after it was signed.                     *)
Expire(token) ==
  /\ tokens' = tokens \ {token}
  /\ UNCHANGED <<store, migrated, assign, overlapped, sweep, revoked, auth_events, call, faults,
                 lost>>

-------------------------------------------------------------------------------
AuthContext(token) == [Idle EXCEPT !.pc = "handler", !.permissions = token.permissions]

(* The event of a change, which is recorded by a statement of its own.     *)
Audit(event) == [Idle EXCEPT !.pc = "event", !.event = event]

revoke_credential(k) == credentials' = [credentials EXCEPT ![k].status = "REVOKED"]

(* get_auth_context, before the handlers that need one: a token is as good *)
(* as its signature and its exp, whatever became of its key.               *)
verify_token(r, token) ==
  /\ call[r].pc = "idle"
  /\ call' = [call EXCEPT ![r] = AuthContext(token)]
  /\ UNCHANGED <<store, world, auth_events, faults, lost>>

(* The verify and the authorize endpoint, and a request to create or to    *)
(* revoke a key that is refused: nothing is stored but an event.           *)
Answer(r) ==
  /\ call[r].pc = "handler"
  /\ Finish(r)
  /\ UNCHANGED <<store, world, auth_events, faults, lost>>

create_api_key(r, request, k) ==
  /\ call[r].pc = "handler" /\ has_permission(call[r].permissions, WRITE_KEYS)
  /\ credentials[k] = None /\ \A q \in Replicas : call[q].key # k
  /\ create_principal(request.subject)
  /\ call' = [call EXCEPT ![r] = [Idle EXCEPT !.pc = "grants", !.key = k,
       !.subject = request.subject, !.todo = request.permissions]]
  /\ UNCHANGED <<credentials, permission_grants, principal_roles, world, auth_events, faults, lost>>

create_credential(r) ==
  /\ call[r].pc = "grants" /\ call[r].todo = << >>
  /\ credentials' = [credentials EXCEPT ![call[r].key] =
       [subject |-> call[r].subject, status |-> "ACTIVE"]]
  /\ call' = [call EXCEPT ![r] = Audit(<<"CREATE_API_KEY", call[r].key>>)]
  /\ UNCHANGED <<principals, permission_grants, principal_roles, world, auth_events, faults, lost>>

revoke_api_key(r, k) ==
  /\ call[r].pc = "handler" /\ has_permission(call[r].permissions, WRITE_KEYS)
  /\ credentials[k] # None
  /\ revoke_credential(k)
  /\ revoked' = revoked \cup {k}
  /\ call' = [call EXCEPT ![r] = Audit(<<"REVOKE_API_KEY", k>>)]
  /\ UNCHANGED <<principals, permission_grants, principal_roles, migrated, tokens, assign,
                 overlapped, sweep, auth_events, faults, lost>>

record_event(r) ==
  /\ call[r].pc = "event"
  /\ auth_events' = auth_events \cup {call[r].event}
  /\ Finish(r)
  /\ UNCHANGED <<store, world, faults, lost>>

(* The service is stopped between two requests.                            *)
Stop(r) ==
  /\ call[r].pc = "idle"
  /\ call' = [call EXCEPT ![r] = Down]
  /\ UNCHANGED <<store, world, auth_events, faults, lost>>

(* The replica dies, or a statement raises and the request with it; one    *)
(* that raises in ensure_bootstrap ends the start.                         *)
Crash(r, to) ==
  /\ call[r].pc \notin {"down", "idle"} /\ Fault
  /\ call[r].pc = "ensure_grants" => to = Down
  /\ call' = [call EXCEPT ![r] = to]
  /\ lost' = IF call[r].pc = "event" THEN lost \cup {call[r].event} ELSE lost
  /\ UNCHANGED <<store, world, auth_events>>

-------------------------------------------------------------------------------
(* Defect: there is no exclusion trigger.                                  *)
BugMutualExclusion(s, role) == TRUE

enforce_mutual_exclusion(s, role) ==
  \A held \in principal_roles[s] : {held, role} \notin MutualExclusions

enforce_plane_role_binding(s, role) ==
  principals[s] # None /\ principals[s].plane \in RolePlaneBindings[role]

(* The triggers see what is committed: two sessions that insert for the    *)
(* same principal do not see each other.                                   *)
InsertRole(a, s, role) ==
  /\ assign[a] = << >>
  /\ role \notin principal_roles[s]
  /\ \A b \in Admins : assign[b] # <<s, role>>
  /\ enforce_mutual_exclusion(s, role) /\ enforce_plane_role_binding(s, role)
  /\ assign' = [assign EXCEPT ![a] = <<s, role>>]
  /\ UNCHANGED <<store, migrated, tokens, overlapped, sweep, revoked, auth_events, call, faults,
                 lost>>

(* The other open transactions that insert a role of the same principal.   *)
OpenBeside(a) ==
  {b \in Admins \ {a} : assign[b] # << >> /\ assign[b][1] = assign[a][1]}

CommitRole(a) ==
  /\ assign[a] # << >>
  /\ principal_roles' = [principal_roles EXCEPT ![assign[a][1]] = @ \cup {assign[a][2]}]
  /\ overlapped' = overlapped \cup
       {<<assign[b][1], {assign[a][2], assign[b][2]}>> : b \in OpenBeside(a)}
  /\ assign' = [assign EXCEPT ![a] = << >>]
  /\ UNCHANGED <<principals, credentials, permission_grants, migrated, tokens, sweep,
                 revoked, auth_events, call, faults, lost>>

-------------------------------------------------------------------------------
(* reconcile_and_remediate: three reads, each of its own moment, and the   *)
(* deletions, in one transaction.                                          *)
Exists(s) == principals[s] # None
Plane(s)  == principals[s].plane

SweepOnly ==
  UNCHANGED <<store, migrated, tokens, assign, overlapped, revoked, auth_events, call, lost>>

(* Rows of a principal that was inserted after the count are passed over.  *)
CountRoles(w) ==
  /\ sweep[w].pc = "asleep"
  /\ sweep' = [sweep EXCEPT ![w] = [Asleep EXCEPT !.pc = "roles",
       !.known = {s \in Subjects : Exists(s)},
       !.provisioned = {s \in Subjects : Exists(s) /\ principal_roles[s] # {}}]]
  /\ SweepOnly /\ UNCHANGED faults

ReadRoles(w) ==
  /\ sweep[w].pc = "roles"
  /\ sweep' = [sweep EXCEPT ![w].pc = "grants",
       ![w].role_rows = UNION {{<<s, role>> : role \in principal_roles[s]} : s \in sweep[w].known}]
  /\ SweepOnly /\ UNCHANGED faults

ReadGrants(w) ==
  /\ sweep[w].pc = "grants"
  /\ sweep' = [sweep EXCEPT ![w].pc = "remediate",
       ![w].grant_rows = UNION {{<<s, p>> : p \in permission_grants[s]} : s \in sweep[w].known}]
  /\ SweepOnly /\ UNCHANGED faults

(* What a principal has by its roles and directly.                         *)
Effective(s) == permission_grants[s] \cup UNION {RolePermissions[role] : role \in principal_roles[s]}

RoleIsBad(s, role) == is_restricted(Plane(s)) /\ \E p \in RolePermissions[role] : Bad(Plane(s), p)
GrantIsBad(s, p)   == is_restricted(Plane(s)) /\ Bad(Plane(s), p)

Unprovisioned(w, s) == s \notin sweep[w].provisioned /\ \E row \in sweep[w].grant_rows : row[1] = s

(* Defect: everything a principal with a violation has is taken.           *)
BugRevokedGrants(w, s) ==
  IF Unprovisioned(w, s) \/ \E p \in permission_grants[s] : GrantIsBad(s, p)
  THEN permission_grants[s] ELSE {}

(* Direct grants without a role are deleted whatever they are, those too   *)
(* that were inserted since they were read.                                *)
RevokedGrants(w, s) ==
  IF Unprovisioned(w, s) THEN permission_grants[s]
  ELSE {p \in permission_grants[s] : <<s, p>> \in sweep[w].grant_rows /\ GrantIsBad(s, p)}

(* Defect: the violations of a role are recorded, the role stays.          *)
BugRevokedRoles(w, s) == {}

RevokedRoles(w, s) ==
  {role \in principal_roles[s] : <<s, role>> \in sweep[w].role_rows /\ RoleIsBad(s, role)}

Remediate(w) ==
  /\ sweep[w].pc = "remediate"
  /\ permission_grants' = [s \in Subjects |-> permission_grants[s] \ RevokedGrants(w, s)]
  /\ principal_roles' = [s \in Subjects |-> principal_roles[s] \ RevokedRoles(w, s)]
  /\ sweep' = [sweep EXCEPT ![w] = Asleep]
  /\ UNCHANGED <<principals, credentials, migrated, tokens, assign, overlapped, revoked, auth_events,
                 call, faults, lost>>

SweepDies(w) ==
  /\ sweep[w].pc # "asleep" /\ Fault
  /\ sweep' = [sweep EXCEPT ![w] = Asleep]
  /\ SweepOnly

-------------------------------------------------------------------------------
Request(r) ==
  \/ \E k \in Identifiers : get_credential_with_principal(r, k)
  \/ \E token \in tokens : verify_token(r, token)
  \/ Answer(r)
  \/ \E request \in KeyRequests, k \in Keys : create_api_key(r, request, k)
  \/ \E k \in Identifiers : revoke_api_key(r, k)

Continue(r) ==
  \/ grant_permissions(r) \/ GrantRaises(r) \/ ensure_bootstrap(r)
  \/ get_permissions(r) \/ update_last_used(r) \/ sign_token(r)
  \/ create_credential(r) \/ record_event(r)

Reconcile(w) == CountRoles(w) \/ ReadRoles(w) \/ ReadGrants(w) \/ Remediate(w)

Next ==
  \/ \E r \in Replicas : \/ lifespan(r) \/ Stop(r) \/ Request(r) \/ Continue(r)
                         \/ Crash(r, Down) \/ Crash(r, Idle)
  \/ \E a \in Admins : CommitRole(a) \/ \E s \in Subjects, role \in Roles : InsertRole(a, s, role)
  \/ \E w \in Sweepers : Reconcile(w) \/ SweepDies(w)
  \/ \E token \in tokens : Expire(token)

(* "Runs every 30s (scheduled)": a sweep that can go on goes on.           *)
Spec == Init /\ [][Next]_vars /\ \A w \in Sweepers : WF_vars(Reconcile(w))

-------------------------------------------------------------------------------

Grantable == UNION {{request.permissions[i] : i \in 1..Len(request.permissions)} :
                      request \in KeyRequests}
Requests  == {WRITE_KEYS} \cup Grantable \cup UNION {RolePermissions[role] : role \in Roles}

(* The rows of the tables and the tokens: a key belongs to a principal,    *)
(* and a grant or a role is never without one.                             *)
AuthTypeOK ==
  /\ \A s \in Subjects :
       /\ Exists(s) => principals[s] \in Principal
       /\ ~Exists(s) => permission_grants[s] = {} /\ principal_roles[s] = {}
       /\ \A p \in permission_grants[s] : Storable(p)
  /\ \A k \in Identifiers : credentials[k] # None =>
       /\ Exists(credentials[k].subject)
       /\ credentials[k] \in CredentialRecord
  /\ tokens \subseteq TokenClaims

(* The layers agree: as long as wildcards are in the last place, asking    *)
(* the matrix again changes no answer for assignments that evaluation      *)
(* found GRANTED, whichever pattern is the broader one.                    *)
LayersAgree ==
  \A s \in Subjects, request \in Requests :
    LET granted == {g \in Effective(s) : TrailingOnly(g)} IN
    Exists(s) /\ evaluate(Plane(s), granted, principal_roles[s] # {}) = "GRANTED" =>
      (authorize(Plane(s), granted, request) <=> \E g \in granted : covers(g, request))

(* The two matchers agree: what a token is allowed by permissions.py is    *)
(* covered, in the sense of the matrix, by one of its permissions.         *)
MatchersAgree ==
  \A token \in tokens, request \in Requests :
    has_permission(token.permissions, request) => \E g \in token.permissions : covers(g, request)

(* A principal holds two exclusive roles only where the transactions that  *)
(* inserted them were open at the same time, which is what the exclusion   *)
(* trigger cannot see; whoever comes after a commit is refused.            *)
ExclusiveOnlyByOverlap ==
  \A s \in Subjects : \A e \in MutualExclusions :
    e \subseteq principal_roles[s] => <<s, e>> \in overlapped

(* A revoked key is not ACTIVE again, whatever issue_token that saw it     *)
(* before writes after; only a start brings the bootstrap key back.        *)
RevokedStays ==
  [][\A k \in Identifiers : (credentials[k] # None /\ credentials[k].status = "REVOKED") =>
       \/ credentials'[k].status = "REVOKED"
       \/ k = "bootstrap" /\ \E r \in Replicas : call[r].pc = "ensure_grants"]_vars

(* A token comes from a lookup that was made before its key was revoked;   *)
(* issue_token may sign it after the revocation.  A revocation of the      *)
(* bootstrap key counts until a start makes that key ACTIVE again, as      *)
(* ensure_bootstrap does by design.                                        *)
NoTokenAfterRevocation == \A token \in tokens : ~token.late

(* Every key and every revocation is in auth_events, or will be when the   *)
(* call in progress gets there, or its call died.                          *)
KeysAccounted ==
  LET told == auth_events \cup lost \cup {call[r].event : r \in Replicas} IN
  \A k \in Keys :
    /\ credentials[k] # None => <<"CREATE_API_KEY", k>> \in told
    /\ k \in revoked => <<"REVOKE_API_KEY", k>> \in told

(* A sweep takes from a principal that had a role when it was counted only *)
(* what the matrix forbids.                                                *)
SweepTakesOnlyViolations ==
  [][\A s \in Subjects :
       (\A w \in Sweepers : sweep[w].pc = "remediate" => s \in sweep[w].provisioned) =>
         \A p \in permission_grants[s] \ permission_grants'[s] : GrantIsBad(s, p)]_vars

(* A forbidden assignment is taken away, whatever is assigned meanwhile    *)
(* and although a sweep may die.                                           *)
ForbiddenRemoved ==
  \A s \in {u \in DOMAIN Provisioned : is_restricted(Provisioned[u])} :
    /\ \A role \in {q \in Roles : \E p \in RolePermissions[q] : Bad(Provisioned[s], p)} :
         role \in principal_roles[s] ~> role \notin principal_roles[s]
    /\ \A p \in {q \in Grantable : Bad(Provisioned[s], q)} :
         p \in permission_grants[s] ~> p \notin permission_grants[s]

===============================================================================
