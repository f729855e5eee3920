------------------------------- MODULE FlagModel -------------------------------
(***************************************************************************)
(* The vocabulary of feature flags that the Rust engine and the Python SDK *)
(* share: a compiled flag, the context it is evaluated in, and how old a   *)
(* snapshot of its class may be.  A flag is a record; None stands for an   *)
(* attribute without a value and for an expiry that is not set.            *)
(***************************************************************************)
EXTENDS Integers, Sequences, FiniteSetsExt

CONSTANTS Keys,              \* flag keys
          Contexts,          \* [environment, attributes]: attributes a sequence of <<name, value>>
          entity_priority,   \* the attribute names of the fixture, in order
          Hash,              \* xxhash64 of <<flag_key, entity>>
          Seeds,             \* what SEED and hash.seed of the fixture may be
          None

MODULUS == 10000

(* Age in milliseconds beyond which a snapshot of the class is stale.      *)
staleness_limit_ms ==
  [SAFETY_CRITICAL |-> 1000, TRADING_BEHAVIOR |-> 5000, STANDARD |-> 60000]

CompiledFlag ==
  [flag_key : Keys,
   status : {"DRAFT", "ACTIVE", "DISABLED", "RETIRED"},
   flag_type : {"BOOLEAN", "PERCENTAGE", "ALLOWLIST", "DENYLIST"},
   flag_class : DOMAIN staleness_limit_ms,
   bool_value : BOOLEAN,
   rollout_bps : 0..MODULUS,
   allowlist : SUBSET {h[2] : h \in DOMAIN Hash},
   denylist : SUBSET {h[2] : h \in DOMAIN Hash},
   environments : SUBSET {c.environment : c \in Contexts},
   fail_value : BOOLEAN,
   generation : Nat \ {0},
   expires_at : Nat \cup {None}]

(* Attributes in the order of the request; one may be named twice.         *)
EvaluationContext ==
  [environment : {c.environment : c \in Contexts},
   attributes : Seq(STRING \X ({h[2] : h \in DOMAIN Hash} \cup {None}))]

(* Every attribute value of a context is hashed with every key.            *)
ASSUME FlagAssumption ==
  /\ entity_priority \in Seq(STRING)
  /\ Seeds \subseteq Nat
  /\ \A c \in Contexts :
       /\ c \in EvaluationContext
       /\ \A i \in DOMAIN c.attributes : c.attributes[i][2] # None =>
            \A k \in Keys : Hash[<<k, c.attributes[i][2]>>] \in Nat

================================================================================
