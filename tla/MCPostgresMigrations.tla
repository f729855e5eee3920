------------------------ MODULE MCPostgresMigrations ------------------------
(* Instance of PostgresMigrations: two versions of one domain.             *)
EXTENDS PostgresMigrations

CONSTANTS a

MCDomain == <<a, a>>

=============================================================================
