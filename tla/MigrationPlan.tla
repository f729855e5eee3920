---------------------------- MODULE MigrationPlan ----------------------------
(***************************************************************************)
(* discover_migrations and build_plan of apexquant-migrations, which the   *)
(* PostgreSQL and the ClickHouse migrator share.  A file is its position   *)
(* in the order (domain, version, filename) that discover_migrations       *)
(* returns; its content stands for its checksum.                           *)
(***************************************************************************)
EXTENDS Naturals, Sequences, FiniteSets

CONSTANTS NFiles,    \* number of migration files of the engine
          Domain,    \* the domain directory of each file
          Initial,   \* the files that are there at first
          Contents,  \* what can be in a file, for its checksum; 0 at first
          Edited,    \* bound: the files that may be changed
          MaxEdits   \* bound: changes of file contents

Files == 1..NFiles
Domains == {Domain[m] : m \in Files}

ASSUME FilesAssumption ==
  /\ NFiles \in Nat /\ MaxEdits \in Nat
  /\ 0 \in Contents
  /\ DOMAIN Domain = Files
  /\ Initial \subseteq Files /\ Edited \subseteq Files
  /\ \A m \in Initial, n \in Files : n < m /\ Domain[n] = Domain[m] => n \in Initial

(* A file of a plan, with the checksum it was planned with.                *)
MigrationFile == [file : Files, checksum : Contents]

(* domain_filter: one domain, or all.                                      *)
Choices == {Domains} \cup {{d} : d \in Domains}

(* `content' maps the files that are there to what is in them.             *)
Selected(content, domains) == {m \in DOMAIN content : Domain[m] \in domains}

(* Defect: only a file that is gone counts as changed.                     *)
BugDrift(registry, content, domains) ==
  {m \in DOMAIN registry \ DOMAIN content : Domain[m] \in domains}

(* Files whose checksum is not the one recorded.                           *)
Drift(registry, content, domains) ==
  {m \in Selected(content, domains) \cap DOMAIN registry : registry[m] # content[m]}

(* The order of discover_migrations.                                       *)
InOrder(files) ==
  CHOOSE s \in [1..Cardinality(files) -> files] :
    /\ files = {s[i] : i \in DOMAIN s}
    /\ \A i, j \in DOMAIN s : i < j => s[i] < s[j]

(* Defect: the highest version is taken first.                             *)
BugPending(registry, content, domains) ==
  LET due == InOrder(Selected(content, domains) \ DOMAIN registry)
  IN  [i \in DOMAIN due |-> [file |-> due[Len(due) + 1 - i],
                             checksum |-> content[due[Len(due) + 1 - i]]]]

(* Files that are not recorded, in order, each with its checksum.          *)
Pending(registry, content, domains) ==
  LET due == InOrder(Selected(content, domains) \ DOMAIN registry)
  IN  [i \in DOMAIN due |-> [file |-> due[i], checksum |-> content[due[i]]]]

(* MigrationPlan: ok if nothing drifted.                                   *)
build_plan(registry, content, domains) ==
  [ok      |-> Drift(registry, content, domains) = {},
   pending |-> Pending(registry, content, domains)]

PlannedFiles(pending) == {pending[i].file : i \in 1..Len(pending)}

-----------------------------------------------------------------------------
(* The file that the next version of a domain becomes: one more than the   *)
(* greatest version that is there.                                         *)
next_version(content, d) ==
  CHOOSE m \in Files \ DOMAIN content :
    /\ Domain[m] = d
    /\ \A n \in Files : n < m /\ Domain[n] = d => n \in DOMAIN content

(* The files after `create' has written one from its template.             *)
create_migration(content, d) ==
  [m \in DOMAIN content \cup {next_version(content, d)} |->
     IF m \in DOMAIN content THEN content[m] ELSE 0]

(* Bound: the domain has a file left to create.                            *)
MayCreate(content, d) == \E m \in Files \ DOMAIN content : Domain[m] = d

=============================================================================
