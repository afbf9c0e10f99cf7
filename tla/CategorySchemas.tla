---------------------------- MODULE CategorySchemas ----------------------------
(***************************************************************************)
(* Seeding the built-in category schemas: a preflight compares every       *)
(* built-in with what is stored, then the missing ones are created.  Each  *)
(* look at the table is a step of its own.  A schema is its version and    *)
(* its fingerprint, which covers its status.                               *)
(***************************************************************************)
EXTENDS TableProvisioning

VARIABLES schemas,  \* [category -> the stored schemas]
          seeder    \* [deployer -> [pc, at, existing, wrote]]

seeding == <<schemas, seeder>>

built_in_category_schemas == <<"CENTRIFUGAL_PUMP", "INDUCTION_MOTOR">>
SUPPORTED_SCHEMA_CATEGORIES == {"CENTRIFUGAL_PUMP", "INDUCTION_MOTOR"}

Schema(version, status, content) ==
  [version |-> version, status |-> status, content |-> content]
Desired == Schema(1, "ACTIVE", "built_in")

(* What a category of an environment that is not new may hold.             *)
Stored == {{}, {Desired}, {Schema(1, "ACTIVE", "changed")}, {Schema(1, "INACTIVE", "built_in")},
           {Schema(1, "INACTIVE", "built_in"), Schema(2, "ACTIVE", "later")}}

InitSchemas ==
  /\ schemas \in [SUPPORTED_SCHEMA_CATEGORIES ->
                    IF older = AllNames THEN Stored ELSE {{}}]
  /\ seeder = [d \in Deployers |-> [pc |-> "idle", at |-> 1, existing |-> {}, wrote |-> {}]]

get_by_category_and_version(c, version) == {s \in schemas[c] : s.version = version}
\* The newest ACTIVE version.
get_active_by_category(c) ==
  LET active == {s \in schemas[c] : s.status = "ACTIVE"}
  IN  {s \in active : \A t \in active : t.version <= s.version}

Category(d) == built_in_category_schemas[seeder[d].at]
SeederAt(d, pc) == seeder[d].pc = pc
Becomes(d, pc) == seeder' = [seeder EXCEPT ![d].pc = pc]
\* The next built-in of this phase, or the phase after it.
NextCategory(s, after) ==
  IF s.at < Len(built_in_category_schemas) THEN [s EXCEPT !.at = @ + 1]
  ELSE [s EXCEPT !.pc = after, !.at = 1]

seed_category_attribute_schemas(d) ==
  /\ deployer[d].pc = "provided" /\ SeederAt(d, "idle")
  /\ Becomes(d, "preflight_version")
  /\ UNCHANGED <<schemas, provisioning>>

PreflightVersion(d) ==
  LET existing == get_by_category_and_version(Category(d), 1) IN
  /\ SeederAt(d, "preflight_version")
  /\ IF existing \subseteq {Desired}
     THEN seeder' = [seeder EXCEPT ![d] =
            [seeder[d] EXCEPT !.pc = "preflight_active",
                              !.existing = @ \cup {Category(d) : s \in existing}]]
     ELSE Becomes(d, "drift")
  /\ UNCHANGED <<schemas, provisioning>>

PreflightActive(d) ==
  /\ SeederAt(d, "preflight_active")
  /\ IF get_active_by_category(Category(d)) \subseteq {Desired}
     THEN seeder' = [seeder EXCEPT ![d] =
            NextCategory([@ EXCEPT !.pc = "preflight_version"], "create")]
     ELSE Becomes(d, "drift")
  /\ UNCHANGED <<schemas, provisioning>>

(* The preflight's answer decides which built-ins are created; create      *)
(* looks for an active version of another number before it writes.         *)
CreateLooks(d) ==
  /\ SeederAt(d, "create")
  /\ seeder' = [seeder EXCEPT ![d] =
       IF Category(d) \in @.existing THEN NextCategory(@, "seeded")
       ELSE IF \E s \in get_active_by_category(Category(d)) : s.version # 1
       THEN [@ EXCEPT !.pc = "already_exists"]
       ELSE [@ EXCEPT !.pc = "put"]]
  /\ UNCHANGED <<schemas, provisioning>>

(* The put is conditional on the version not being stored.                 *)
CreatePuts(d) ==
  /\ SeederAt(d, "put")
  /\ IF get_by_category_and_version(Category(d), 1) = {}
     THEN /\ schemas' = [schemas EXCEPT ![Category(d)] = @ \cup {Desired}]
          /\ seeder' = [seeder EXCEPT ![d] =
               NextCategory([seeder[d] EXCEPT !.pc = "create",
                                              !.wrote = @ \cup {Category(d)}], "seeded")]
     ELSE Becomes(d, "already_exists") /\ UNCHANGED schemas
  /\ UNCHANGED provisioning

(* A call of the repository fails, before or after the put took effect.    *)
SeedingFails(d) ==
  /\ seeder[d].pc \in {"preflight_version", "preflight_active", "create", "put"}
  /\ Becomes(d, "failed")
  /\ \E lands \in BOOLEAN :
       IF lands /\ SeederAt(d, "put") /\ get_by_category_and_version(Category(d), 1) = {}
       THEN schemas' = [schemas EXCEPT ![Category(d)] = @ \cup {Desired}]
       ELSE UNCHANGED schemas
  /\ UNCHANGED provisioning

SeedingStep ==
  \E d \in Deployers :
    \/ seed_category_attribute_schemas(d)
    \/ PreflightVersion(d)
    \/ PreflightActive(d)
    \/ CreateLooks(d)
    \/ CreatePuts(d)
    \/ SeedingFails(d)

(***************************************************************************)
(* Seeding that returns leaves every built-in as the one active schema of  *)
(* its category, and seeding that is refused for drift has written nothing *)
(* of its own, whatever another deployer seeds at the same time.           *)
(***************************************************************************)
SeededOrUntouched ==
  \A d \in Deployers :
    /\ SeederAt(d, "seeded") =>
         \A c \in SUPPORTED_SCHEMA_CATEGORIES : get_active_by_category(c) = {Desired}
    /\ SeederAt(d, "drift") => seeder[d].wrote = {}

(***************************************************************************)
(* A deployment that reports success has left usable tables and all the    *)
(* schemas, one that is refused has changed no schema, whatever another    *)
(* deployment does meanwhile.                                              *)
(***************************************************************************)
ProvisionedOrUntouched == ReturnedScriptProvided /\ SeededOrUntouched
=============================================================================
