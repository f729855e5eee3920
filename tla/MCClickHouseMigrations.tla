----------------------- MODULE MCClickHouseMigrations -----------------------
(* Instance of ClickHouseMigrations: two runs share the advisory lock, the *)
(* third was started without a PostgreSQL URL; two versions of a domain.   *)
EXTENDS ClickHouseMigrations, TLC

CONSTANTS r1, r2, r3, advisory, lockfile, a

MCRunners == {r1, r2, r3}
MCLockOf == r1 :> advisory @@ r2 :> advisory @@ r3 :> lockfile
MCDomain == <<a, a>>
MCStatements == <<2, 1>>

Symmetry == Permutations({r1, r2})

=============================================================================
