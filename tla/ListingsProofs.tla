----------------------------- MODULE ListingsProofs -----------------------------
(***************************************************************************)
(* What deployments leave behind, and what a client of the listings that   *)
(* are then served is given, for any number of deployers running the       *)
(* scripts at once, any number of items and of writes, and pages of any    *)
(* size.                                                                   *)
(*                                                                         *)
(* First the tables and the schemas, each with an invariant of its own,    *)
(* which the steps of the other leave alone; then pages, as sets of items  *)
(* in an order; then cursors; last the theorems.                           *)
(***************************************************************************)
EXTENDS Listings, FiniteSetTheorems, WellFoundedInduction, TLAPS

(* ------------------------------ the tables ------------------------------ *)

\* main has 23 functions.
LEMMA MainLength == Len(main) = 23 /\ Step = 1 .. 23
BY DEF main, Step

\* The tables of main, in its order.
LEMMA MainNames ==
    /\ main[1].name = "products" /\ main[2].name = "sources"
    /\ main[3].name = "processing-jobs" /\ main[4].name = "extraction-results"
    /\ main[5].name = "table-extraction-results" /\ main[6].name = "csv-processing-results"
    /\ main[7].name = "image-analysis-results" /\ main[8].name = "image-ocr-results"
    /\ main[9].name = "product-classification-results"
    /\ main[10].name = "category-attribute-schemas"
    /\ main[11].name = "structured-attribute-extraction-results"
    /\ main[12].name = "attribute-normalization-results"
    /\ main[13].name = "attribute-conflict-detection-results"
    /\ main[14].name = "attribute-completeness-results"
    /\ main[15].name = "attribute-validation-results"
    /\ main[16].name = "attribute-selection-results" /\ main[17].name = "product-reviews"
    /\ main[18].name = "reviewed-attribute-results" /\ main[19].name = "catalog-projection-results"
    /\ main[20].name = "catalog-export-results" /\ main[21].name = "catalog-enrichment-results"
    /\ main[22].name = "product-intelligence-score-results"
    /\ main[23].name = "catalog-intelligence-workflows"
BY DEF main, Records, Table, create_products_table, create_sources_table,
       create_processing_jobs_table, create_extraction_results_table,
       create_table_extraction_results_table, create_csv_processing_results_table,
       create_image_analysis_results_table, create_image_ocr_results_table,
       create_product_classification_results_table, create_category_attribute_schemas_table,
       create_structured_attribute_extraction_results_table,
       create_attribute_normalization_results_table,
       create_attribute_conflict_detection_results_table,
       create_attribute_completeness_results_table, create_attribute_validation_results_table,
       create_attribute_selection_results_table, create_product_reviews_table,
       create_reviewed_attribute_results_table, create_catalog_projection_results_table,
       create_catalog_export_results_table, create_catalog_enrichment_results_table,
       create_product_intelligence_score_results_table,
       create_catalog_intelligence_workflows_table

\* No two functions of main create the same table.
LEMMA NamesAreDistinct ==
    ASSUME NEW i \in Step, NEW j \in Step, main[i].name = main[j].name
    PROVE  i = j
BY MainLength, MainNames

\* A table that can be used, and has the indexes the script defines unless it
\* was there before.
Usable(i) ==
    /\ main[i].name \in DOMAIN tables
    /\ tables[main[i].name].status = "ACTIVE"

DeployerPC == {"wait_for_dynamodb", "create_table", "table_exists", "raised", "provided", "exited"}

\* Whoever is past a function of main has seen its table in use.
TablesOK ==
    /\ deployer \in [Deployers -> [pc : DeployerPC, at : Step, attempt : Nat]]
    /\ older \in {{}, {"products"}, AllNames} /\ older \subseteq DOMAIN tables
    /\ \A n \in DOMAIN tables : tables[n] = [status |-> tables[n].status,
                                             indexes |-> tables[n].indexes]
    /\ tables = [n \in DOMAIN tables |-> tables[n]]
    /\ \A i \in Step : main[i].name \in DOMAIN tables \ older
                          => tables[main[i].name].indexes = IndexNames(main[i])
    /\ \A d \in Deployers :
          /\ \A i \in Step : i < deployer[d].at \/ Provided(d) => Usable(i)
          /\ At(d, "table_exists") => main[deployer[d].at].name \in DOMAIN tables

LEMMA InitTablesOK == InitTables => TablesOK
<1> SUFFICES ASSUME InitTables PROVE TablesOK
  OBVIOUS
<1>1. 1 \in Step /\ Len(main) \in Step
  BY MainLength
<1>2. older \subseteq DOMAIN tables /\ DOMAIN tables = older
  BY DEF InitTables, Before
<1>3. \A n \in DOMAIN tables : /\ tables[n] = [status |-> tables[n].status,
                                              indexes |-> tables[n].indexes]
                               /\ tables[n].status = "ACTIVE"
  BY DEF InitTables, Before
<1>4. tables = [n \in DOMAIN tables |-> tables[n]]
  BY DEF InitTables, Before
<1>5. deployer \in [Deployers -> [pc : DeployerPC, at : Step, attempt : Nat]]
  BY <1>1 DEF InitTables, DeployerPC
<1>6. ASSUME NEW d \in Deployers PROVE
        /\ \A i \in Step : i < deployer[d].at \/ Provided(d) => Usable(i)
        /\ ~ At(d, "table_exists")
  <2>1. CASE older = AllNames
    BY <1>2, <1>3, <2>1 DEF Usable, AllNames, At, InitTables
  <2>2. CASE older # AllNames
    BY <2>2, MainLength DEF InitTables, Provided, At
  <2> QED
    BY <2>1, <2>2
<1> QED
  BY <1>2, <1>3, <1>4, <1>5, <1>6 DEF TablesOK, InitTables

\* A step that keeps the tables that are there, and those in use in use, harms
\* nobody who has seen them.
LEMMA TablesStay ==
    ASSUME TablesOK,
           DOMAIN tables \subseteq DOMAIN tables',
           \A n \in DOMAIN tables : tables[n].status = "ACTIVE" => tables'[n].status = "ACTIVE",
           NEW i \in Step, Usable(i)
    PROVE  Usable(i)'
BY DEF Usable, TablesOK

\* What NextFunction makes of a deployer whose table is in use.
LEMMA NextFunctionOK ==
    ASSUME NEW p \in [pc : DeployerPC, at : Step, attempt : Nat]
    PROVE  /\ NextFunction(p) \in [pc : DeployerPC, at : Step, attempt : Nat]
           /\ NextFunction(p).pc \in {"wait_for_dynamodb", "provided"}
           /\ \A i \in Step : i < NextFunction(p).at \/ NextFunction(p).pc = "provided" => i <= p.at
BY MainLength DEF NextFunction, DeployerPC

LEMMA ProvisioningKeeps ==
    ASSUME TablesOK, ProvisioningStep PROVE TablesOK'
<1> USE DEF DeployerPC
<1>1. ASSUME NEW d \in Deployers, wait_for_dynamodb(d) PROVE TablesOK'
  <2>1. \A e \in Deployers : deployer'[e].at = deployer[e].at
                             /\ (deployer'[e].pc = deployer[e].pc
                                 \/ deployer'[e].pc \in {"create_table", "raised"})
    BY <1>1 DEF wait_for_dynamodb, TablesOK, Goto, At
  <2>2. deployer' \in [Deployers -> [pc : DeployerPC, at : Step, attempt : Nat]]
    BY <1>1 DEF wait_for_dynamodb, TablesOK, Goto, At
  <2>3. ASSUME NEW e \in Deployers
        PROVE  /\ \A i \in Step : i < deployer'[e].at \/ Provided(e)' => Usable(i)'
               /\ At(e, "table_exists")' => main[deployer'[e].at].name \in DOMAIN tables'
    BY <1>1, <2>1 DEF wait_for_dynamodb, TablesOK, Usable, Provided, At
  <2> QED
    BY <1>1, <2>2, <2>3 DEF wait_for_dynamodb, TablesOK
<1>2. ASSUME NEW d \in Deployers, create_table(d) PROVE TablesOK'
  <2> DEFINE table == main[deployer[d].at]
  <2>1. deployer[d].at \in Step
    BY DEF TablesOK
  <2>2. /\ DOMAIN tables \subseteq DOMAIN tables' /\ table.name \in DOMAIN tables'
        /\ \A n \in DOMAIN tables : tables'[n] = tables[n]
        /\ \A n \in DOMAIN tables' \ DOMAIN tables :
              n = table.name /\ tables'[n] = [status |-> "CREATING", indexes |-> IndexNames(table)]
        /\ tables' = [n \in DOMAIN tables' |-> tables'[n]]
    BY <1>2 DEF create_table, With, TablesOK
  <2>3. \A e \in Deployers : deployer'[e].at = deployer[e].at
                             /\ deployer'[e].pc = IF e = d THEN "table_exists" ELSE deployer[e].pc
    BY <1>2 DEF create_table, TablesOK, Goto
  <2>4. deployer' \in [Deployers -> [pc : DeployerPC, at : Step, attempt : Nat]]
    BY <1>2 DEF create_table, TablesOK, Goto
  <2>5. ASSUME NEW e \in Deployers
        PROVE  /\ \A i \in Step : i < deployer'[e].at \/ Provided(e)' => Usable(i)'
               /\ At(e, "table_exists")' => main[deployer'[e].at].name \in DOMAIN tables'
    <3>1. \A i \in Step : Usable(i) => Usable(i)'
      BY <2>2, TablesStay
    <3>2. Provided(e)' => Provided(e)
      BY <2>3 DEF Provided
    <3> QED
      BY <2>2, <2>3, <3>1, <3>2 DEF TablesOK, At
  <2>6. ASSUME NEW i \in Step, main[i].name \in DOMAIN tables' \ older'
        PROVE  tables'[main[i].name].indexes = IndexNames(main[i])
    <3>1. CASE main[i].name \in DOMAIN tables
      BY <1>2, <2>2, <2>6, <3>1 DEF TablesOK, create_table
    <3>2. CASE main[i].name \notin DOMAIN tables
      <4>1. i = deployer[d].at
        BY <2>1, <2>2, <2>6, <3>2, NamesAreDistinct
      <4> QED
        BY <2>2, <2>6, <3>2, <4>1
    <3> QED
      BY <3>1, <3>2
  <2>7. \A n \in DOMAIN tables' : tables'[n] = [status |-> tables'[n].status,
                                                indexes |-> tables'[n].indexes]
    BY <2>2 DEF TablesOK
  <2> QED
    BY <1>2, <2>2, <2>4, <2>5, <2>6, <2>7 DEF TablesOK, create_table
<1>3. ASSUME NEW d \in Deployers, table_exists(d) PROVE TablesOK'
  <2>1. deployer[d] \in [pc : DeployerPC, at : Step, attempt : Nat]
    BY DEF TablesOK
  <2>2. deployer' = [deployer EXCEPT ![d] = NextFunction(deployer[d])] /\ UNCHANGED <<tables, older>>
    BY <1>3 DEF table_exists
  <2>3. deployer' \in [Deployers -> [pc : DeployerPC, at : Step, attempt : Nat]]
    BY <2>1, <2>2, NextFunctionOK DEF TablesOK
  <2>4. \A i \in Step : Usable(i)' <=> Usable(i)
    BY <2>2 DEF Usable
  <2>5. Usable(deployer[d].at)
    BY <1>3 DEF table_exists, TablesOK, Usable, At
  <2>6. ASSUME NEW e \in Deployers
        PROVE  /\ \A i \in Step : i < deployer'[e].at \/ Provided(e)' => Usable(i)'
               /\ At(e, "table_exists")' => main[deployer'[e].at].name \in DOMAIN tables'
    <3>1. CASE e # d
      BY <2>2, <2>4, <3>1 DEF TablesOK, Provided, At
    <3>2. CASE e = d
      <4>1. deployer'[e] = NextFunction(deployer[d])
        BY <2>2, <3>2 DEF TablesOK
      <4>2. \A i \in Step : i < deployer'[e].at \/ Provided(e)' => i <= deployer[d].at
        BY <2>1, <4>1, NextFunctionOK DEF Provided
      <4>3. \A i \in Step : i <= deployer[d].at => Usable(i)
        BY <2>1, <2>5, MainLength DEF TablesOK
      <4> QED
        BY <2>1, <2>4, <4>1, <4>2, <4>3, NextFunctionOK DEF At
    <3> QED
      BY <3>1, <3>2
  <2> QED
    BY <2>2, <2>3, <2>6 DEF TablesOK
<1>4. ASSUME NEW d \in Deployers, CallFails(d) PROVE TablesOK'
  <2>1. \A e \in Deployers : deployer'[e].at = deployer[e].at
                             /\ deployer'[e].pc = IF e = d THEN "raised" ELSE deployer[e].pc
    BY <1>4 DEF CallFails, TablesOK, Goto
  <2>2. deployer' \in [Deployers -> [pc : DeployerPC, at : Step, attempt : Nat]]
    BY <1>4 DEF CallFails, TablesOK, Goto
  <2>3. ASSUME NEW e \in Deployers
        PROVE  /\ \A i \in Step : i < deployer'[e].at \/ Provided(e)' => Usable(i)'
               /\ At(e, "table_exists")' => main[deployer'[e].at].name \in DOMAIN tables'
    BY <1>4, <2>1 DEF CallFails, TablesOK, Usable, Provided, At
  <2> QED
    BY <1>4, <2>2, <2>3 DEF CallFails, TablesOK
<1>5. ASSUME NEW n \in DOMAIN tables, BecomesActive(n) PROVE TablesOK'
  <2> DEFINE active == [status |-> "ACTIVE", indexes |-> tables[n].indexes]
  <2>a. tables[n] = [status |-> tables[n].status, indexes |-> tables[n].indexes]
    BY DEF TablesOK
  <2>b. [tables[n] EXCEPT !.status = "ACTIVE"] = active
    BY <2>a
  <2>c. tables' = [m \in DOMAIN tables |-> IF m = n THEN active ELSE tables[m]]
    BY <1>5, <2>b DEF BecomesActive
  <2> HIDE DEF active
  <2>d. active.status = "ACTIVE" /\ active.indexes = tables[n].indexes
        /\ active = [status |-> active.status, indexes |-> active.indexes]
    BY DEF active
  <2>1. /\ DOMAIN tables' = DOMAIN tables /\ tables' = [m \in DOMAIN tables' |-> tables'[m]]
        /\ \A m \in DOMAIN tables : /\ tables'[m].indexes = tables[m].indexes
                                    /\ tables'[m].status = IF m = n THEN "ACTIVE"
                                                                    ELSE tables[m].status
                                    /\ tables'[m] = [status |-> tables'[m].status,
                                                     indexes |-> tables'[m].indexes]
    BY <2>c, <2>d DEF TablesOK
  <2>2. \A i \in Step : Usable(i) => Usable(i)'
    BY <2>1, TablesStay
  <2> QED
    BY <1>5, <2>1, <2>2 DEF BecomesActive, TablesOK, Provided, At
<1> QED
  BY <1>1, <1>2, <1>3, <1>4, <1>5 DEF ProvisioningStep

\* To whom the script has returned it stays returned.
LEMMA ProvidedStays ==
    ASSUME TablesOK, ProvisioningStep, NEW e \in Deployers, Provided(e) PROVE Provided(e)'
BY DEF ProvisioningStep, wait_for_dynamodb, create_table, table_exists, CallFails, BecomesActive,
       Goto, At, Provided, TablesOK

(* ------------------------------ the schemas ----------------------------- *)

SeederPC == {"idle", "preflight_version", "preflight_active", "drift", "create", "put",
             "already_exists", "failed", "seeded", "exited"}
Seeder == [pc : SeederPC, at : 1 .. 2, existing : SUBSET SUPPORTED_SCHEMA_CATEGORIES,
           wrote : SUBSET SUPPORTED_SCHEMA_CATEGORIES]

\* What a deployer that seeds knows of the schemas: the categories that passed
\* the preflight hold the built-in schema or none, those it found or was to
\* create before the present one hold it.
SeederOK(d) ==
    LET s == seeder[d] IN
    /\ s.pc # "idle" => Provided(d)
    /\ s.pc = "idle" => s.at = 1
    /\ s.pc \in {"idle", "preflight_version", "preflight_active", "drift"} => s.wrote = {}
    /\ \A k \in 1 .. 2 :
          LET stored == schemas[built_in_category_schemas[k]] IN
          /\ \/ s.pc \in {"preflight_version", "preflight_active"} /\ k < s.at
             \/ s.pc = "preflight_active" /\ k = s.at
             \/ s.pc \in {"create", "put"}
             => stored \in {{}, {Desired}}
          /\ (s.pc \in {"create", "put"} /\ k < s.at) \/ s.pc = "seeded" => stored = {Desired}
    /\ \A c \in s.existing : schemas[c] = {Desired}

SchemasOK ==
    /\ schemas \in [SUPPORTED_SCHEMA_CATEGORIES -> Stored]
    /\ seeder \in [Deployers -> Seeder]
    /\ \A d \in Deployers : SeederOK(d)

\* The built-in categories are those that are supported.
LEMMA Categories ==
    /\ Len(built_in_category_schemas) = 2
    /\ \A k \in 1 .. 2 : built_in_category_schemas[k] \in SUPPORTED_SCHEMA_CATEGORIES
    /\ \A c \in SUPPORTED_SCHEMA_CATEGORIES : \E k \in 1 .. 2 : c = built_in_category_schemas[k]
BY DEF built_in_category_schemas, SUPPORTED_SCHEMA_CATEGORIES

\* What the two looks of the preflight tell of a category.
LEMMA PreflightTells ==
    ASSUME NEW S \in Stored
    PROVE  /\ (\A s \in S : s.version = 1 => s = Desired) => S \in {{}, {Desired}}
           /\ (\A s \in S : s.version # 1) => S = {}
           /\ {Desired} \in Stored
<1>1. /\ Desired = [version |-> 1, status |-> "ACTIVE", content |-> "built_in"]
      /\ Desired.version = 1
  BY DEF Desired, Schema
<1>2. CASE S = {}
  BY <1>2 DEF Stored
<1>3. CASE S = {Desired}
  BY <1>1, <1>3 DEF Stored
<1>4. CASE S = {Schema(1, "ACTIVE", "changed")}
  <2> DEFINE other == Schema(1, "ACTIVE", "changed")
  <2>1. other \in S /\ other.version = 1 /\ other.content = "changed" /\ Desired.content = "built_in"
    BY <1>1, <1>4 DEF Schema
  <2>2. other # Desired
    BY <2>1
  <2> QED
    BY <2>1, <2>2 DEF Stored
<1>5. CASE Schema(1, "INACTIVE", "built_in") \in S
  <2> DEFINE other == Schema(1, "INACTIVE", "built_in")
  <2>1. other \in S /\ other.version = 1 /\ other.status = "INACTIVE" /\ Desired.status = "ACTIVE"
    BY <1>1, <1>5 DEF Schema
  <2>2. other # Desired
    BY <2>1
  <2> QED
    BY <2>1, <2>2 DEF Stored
<1> QED
  BY <1>2, <1>3, <1>4, <1>5 DEF Stored

\* A category is left as it is, or is given the built-in schema.
SchemasGrow ==
    \A c \in SUPPORTED_SCHEMA_CATEGORIES :
        schemas'[c] = schemas[c] \/ (schemas[c] = {} /\ schemas'[c] = {Desired})

\* What a deployer knows of the schemas stays true whatever the others do.
LEMMA SeederStays ==
    ASSUME SchemasOK, SchemasGrow, NEW d \in Deployers, seeder'[d] = seeder[d],
           Provided(d) => Provided(d)'
    PROVE  SeederOK(d)'
<1>1. SeederOK(d) /\ seeder[d].existing \subseteq SUPPORTED_SCHEMA_CATEGORIES
  BY DEF SchemasOK, Seeder
<1> QED
  BY <1>1, Categories DEF SeederOK, SchemasGrow, Desired, Schema

\* A step of one deployer.
LEMMA OneSeeder ==
    ASSUME SchemasOK, SchemasGrow, schemas' \in [SUPPORTED_SCHEMA_CATEGORIES -> Stored],
           UNCHANGED provisioning,
           NEW d \in Deployers, NEW s \in Seeder, seeder' = [seeder EXCEPT ![d] = s],
           SeederOK(d)'
    PROVE  SchemasOK'
<1>1. seeder' \in [Deployers -> Seeder]
  BY DEF SchemasOK
<1>2. ASSUME NEW e \in Deployers PROVE SeederOK(e)'
  <2>1. CASE e = d
    BY <2>1
  <2>2. CASE e # d
    <3>1. seeder'[e] = seeder[e]
      BY <2>2 DEF SchemasOK
    <3>2. Provided(e) => Provided(e)'
      BY DEF Provided, provisioning
    <3> QED
      BY <3>1, <3>2, SeederStays
  <2> QED
    BY <2>1, <2>2
<1> QED
  BY <1>1, <1>2 DEF SchemasOK

LEMMA InitSchemasOK == InitTables /\ InitSchemas => SchemasOK
<1> SUFFICES ASSUME InitTables, InitSchemas PROVE SchemasOK
  OBVIOUS
<1>1. schemas \in [SUPPORTED_SCHEMA_CATEGORIES -> Stored]
  <2>1. {{}} \subseteq Stored
    BY DEF Stored
  <2> QED
    BY <2>1 DEF InitSchemas
<1>2. \A d \in Deployers : seeder[d] = [pc |-> "idle", at |-> 1, existing |-> {}, wrote |-> {}]
  BY DEF InitSchemas
<1>3. seeder \in [Deployers -> Seeder]
  BY DEF InitSchemas, Seeder, SeederPC
<1> QED
  BY <1>1, <1>2, <1>3 DEF SchemasOK, SeederOK

\* What a seeder becomes after the last category, or with the next one.
LEMMA NextCategoryIs ==
    ASSUME NEW s \in Seeder, NEW after \in SeederPC
    PROVE  LET t == NextCategory(s, after) IN
           /\ t \in Seeder /\ t.existing = s.existing /\ t.wrote = s.wrote
           /\ \/ s.at = 1 /\ t.at = 2 /\ t.pc = s.pc
              \/ s.at = 2 /\ t.at = 1 /\ t.pc = after
<1>1. s.pc \in SeederPC /\ s.at \in 1 .. 2
  BY DEF Seeder
<1>2. CASE s.at = 1
  <2>1. NextCategory(s, after) = [s EXCEPT !.at = 2]
    BY <1>2, Categories DEF NextCategory
  <2> QED
    BY <1>2, <2>1 DEF Seeder
<1>3. CASE s.at = 2
  <2>1. NextCategory(s, after) = [s EXCEPT !.pc = after, !.at = 1]
    BY <1>3, Categories DEF NextCategory
  <2>a. 1 \in 1 .. 2
    OBVIOUS
  <2>2. [s EXCEPT !.pc = after, !.at = 1] \in Seeder
    BY <2>a, Zenon DEF Seeder
  <2>3. /\ [s EXCEPT !.pc = after, !.at = 1].pc = after
        /\ [s EXCEPT !.pc = after, !.at = 1].at = 1
    BY DEF Seeder
  <2>4. /\ [s EXCEPT !.pc = after, !.at = 1].existing = s.existing
        /\ [s EXCEPT !.pc = after, !.at = 1].wrote = s.wrote
    BY DEF Seeder
  <2> QED
    BY <1>3, <2>1, <2>2, <2>3, <2>4
<1> QED
  BY <1>1, <1>2, <1>3

LEMMA SeedingKeeps ==
    ASSUME SchemasOK, SeedingStep PROVE SchemasOK'
<1>1. PICK d \in Deployers :
        \/ seed_category_attribute_schemas(d) \/ PreflightVersion(d) \/ PreflightActive(d)
        \/ CreateLooks(d) \/ CreatePuts(d) \/ SeedingFails(d)
  BY DEF SeedingStep
<1> DEFINE s == seeder[d]
           c == built_in_category_schemas[s.at]
<1>2. s \in Seeder /\ SeederOK(d) /\ s.at \in 1 .. 2
  BY DEF SchemasOK, Seeder
<1>3. c \in SUPPORTED_SCHEMA_CATEGORIES /\ schemas[c] \in Stored /\ Category(d) = c
  BY <1>2, Categories DEF SchemasOK, Category
<1>4. UNCHANGED schemas => SchemasGrow /\ schemas' \in [SUPPORTED_SCHEMA_CATEGORIES -> Stored]
  BY DEF SchemasGrow, SchemasOK
<1>5. Provided(d)' = Provided(d) \/ ~ UNCHANGED provisioning
  BY DEF Provided, provisioning
<1>6. CASE seed_category_attribute_schemas(d)
  <2> DEFINE t == [s EXCEPT !.pc = "preflight_version"]
  <2>1. /\ seeder' = [seeder EXCEPT ![d] = t] /\ UNCHANGED <<schemas, provisioning>>
        /\ s.pc = "idle" /\ Provided(d)
    BY <1>6 DEF seed_category_attribute_schemas, SchemasOK, Becomes, SeederAt, Provided
  <2>2. t \in Seeder
    BY <1>2 DEF Seeder, SeederPC
  <2>3. /\ seeder'[d].pc = "preflight_version" /\ seeder'[d].at = s.at
        /\ seeder'[d].wrote = s.wrote /\ seeder'[d].existing = s.existing
    BY <1>2, <2>1 DEF SchemasOK, Seeder
  <2>4. s.at = 1
    BY <1>2, <2>1 DEF SeederOK
  <2>5. SeederOK(d)'
    BY <1>2, <1>5, <2>1, <2>3, <2>4 DEF SeederOK
  <2> QED
    BY <1>4, <2>1, <2>2, <2>5, OneSeeder
<1>7. CASE PreflightVersion(d)
  <2> DEFINE existing == {x \in schemas[c] : x.version = 1}
  <2>1. UNCHANGED <<schemas, provisioning>> /\ s.pc = "preflight_version" /\ Provided(d)
    BY <1>2, <1>7 DEF PreflightVersion, SeederAt, SeederOK
  <2>2. CASE existing \subseteq {Desired}
    <3>0. \A x \in schemas[c] : x.version = 1 => x = Desired
      BY <2>2
    <3> DEFINE t == [s EXCEPT !.pc = "preflight_active", !.existing = @ \cup {c : x \in existing}]
    <3>1. seeder' = [seeder EXCEPT ![d] = t]
      BY <1>3, <1>7, <2>2 DEF PreflightVersion, get_by_category_and_version
    <3>2. t \in Seeder
      BY <1>2, <1>3 DEF Seeder, SeederPC
    <3>3. /\ seeder'[d].pc = "preflight_active" /\ seeder'[d].at = s.at
          /\ seeder'[d].wrote = s.wrote
          /\ seeder'[d].existing = s.existing \cup {c : x \in existing}
      BY <1>2, <3>1 DEF SchemasOK, Seeder
    <3>4. schemas[c] \in {{}, {Desired}} /\ (existing # {} => schemas[c] = {Desired})
      BY <1>3, <3>0, PreflightTells
    <3>5. SeederOK(d)'
      BY <1>2, <1>5, <2>1, <3>3, <3>4 DEF SeederOK
    <3> QED
      BY <1>4, <2>1, <3>1, <3>2, <3>5, OneSeeder
  <2>3. CASE ~ (existing \subseteq {Desired})
    <3> DEFINE t == [s EXCEPT !.pc = "drift"]
    <3>1. seeder' = [seeder EXCEPT ![d] = t]
      BY <1>3, <1>7, <2>3 DEF PreflightVersion, get_by_category_and_version, Becomes
    <3>2. t \in Seeder
      BY <1>2 DEF Seeder, SeederPC
    <3>3. SeederOK(d)'
      BY <1>2, <1>5, <2>1, <3>1 DEF SeederOK, SchemasOK, Seeder
    <3> QED
      BY <1>4, <2>1, <3>1, <3>2, <3>3, OneSeeder
  <2> QED
    BY <2>2, <2>3
<1>8. CASE PreflightActive(d)
  <2>1. UNCHANGED <<schemas, provisioning>> /\ s.pc = "preflight_active" /\ Provided(d)
    BY <1>2, <1>8 DEF PreflightActive, SeederAt, SeederOK
  <2>2. CASE get_active_by_category(c) \subseteq {Desired}
    <3> DEFINE p == [s EXCEPT !.pc = "preflight_version"]
               t == NextCategory(p, "create")
    <3>1. seeder' = [seeder EXCEPT ![d] = t]
      BY <1>3, <1>8, <2>2 DEF PreflightActive, SchemasOK
    <3>2. p \in Seeder /\ p.at = s.at
      BY <1>2 DEF Seeder, SeederPC
    <3>3. t \in Seeder /\ t.wrote = s.wrote /\ t.existing = s.existing
          /\ \/ s.at = 1 /\ t.at = 2 /\ t.pc = "preflight_version"
             \/ s.at = 2 /\ t.at = 1 /\ t.pc = "create"
      BY <3>2, NextCategoryIs DEF Seeder, SeederPC
    <3>4. seeder'[d] = t
      BY <3>1 DEF SchemasOK
    <3> HIDE DEF t
    <3>5. SeederOK(d)'
      BY <1>2, <1>5, <2>1, <3>3, <3>4 DEF SeederOK
    <3> QED
      BY <1>4, <2>1, <3>1, <3>3, <3>5, OneSeeder
  <2>3. CASE ~ (get_active_by_category(c) \subseteq {Desired})
    <3> DEFINE t == [s EXCEPT !.pc = "drift"]
    <3>1. seeder' = [seeder EXCEPT ![d] = t]
      BY <1>3, <1>8, <2>3 DEF PreflightActive, Becomes
    <3>2. t \in Seeder
      BY <1>2 DEF Seeder, SeederPC
    <3>3. SeederOK(d)'
      BY <1>2, <1>5, <2>1, <3>1 DEF SeederOK, SchemasOK, Seeder
    <3> QED
      BY <1>4, <2>1, <3>1, <3>2, <3>3, OneSeeder
  <2> QED
    BY <2>2, <2>3
<1>9. CASE CreateLooks(d)
  <2>1. UNCHANGED <<schemas, provisioning>> /\ s.pc = "create" /\ Provided(d)
    BY <1>2, <1>9 DEF CreateLooks, SeederAt, SeederOK
  <2>2. CASE c \in s.existing
    <3> DEFINE t == NextCategory(s, "seeded")
    <3>1. seeder' = [seeder EXCEPT ![d] = t]
      BY <1>3, <1>9, <2>2 DEF CreateLooks, SchemasOK
    <3>2. t \in Seeder /\ t.wrote = s.wrote /\ t.existing = s.existing
          /\ \/ s.at = 1 /\ t.at = 2 /\ t.pc = "create"
             \/ s.at = 2 /\ t.at = 1 /\ t.pc = "seeded"
      BY <1>2, <2>1, NextCategoryIs DEF Seeder, SeederPC
    <3>3. seeder'[d] = t
      BY <3>1 DEF SchemasOK
    <3> HIDE DEF t
    <3>4. schemas[c] = {Desired}
      BY <1>2, <2>2 DEF SeederOK
    <3>5. SeederOK(d)'
      BY <1>2, <1>5, <2>1, <3>2, <3>3, <3>4 DEF SeederOK
    <3> QED
      BY <1>4, <2>1, <3>1, <3>2, <3>5, OneSeeder
  <2>3. CASE c \notin s.existing
    <3>1. PICK pc \in {"already_exists", "put"} :
            seeder' = [seeder EXCEPT ![d] = [s EXCEPT !.pc = pc]]
      BY <1>3, <1>9, <2>3 DEF CreateLooks, SchemasOK
    <3>2. [s EXCEPT !.pc = pc] \in Seeder
      BY <1>2 DEF Seeder, SeederPC
    <3>3. SeederOK(d)'
      BY <1>2, <1>5, <2>1, <3>1 DEF SeederOK, SchemasOK, Seeder
    <3> QED
      BY <1>4, <2>1, <3>1, <3>2, <3>3, OneSeeder
  <2> QED
    BY <2>2, <2>3
<1>10. CASE CreatePuts(d)
  <2>1. UNCHANGED provisioning /\ s.pc = "put" /\ Provided(d)
    BY <1>2, <1>10 DEF CreatePuts, SeederAt, SeederOK
  <2>2. CASE {x \in schemas[c] : x.version = 1} = {}
    <3>0. \A x \in schemas[c] : x.version # 1
      BY <2>2
    <3> DEFINE p == [s EXCEPT !.pc = "create", !.wrote = @ \cup {c}]
               t == NextCategory(p, "seeded")
    <3>1. /\ seeder' = [seeder EXCEPT ![d] = t]
          /\ schemas' = [schemas EXCEPT ![c] = schemas[c] \cup {Desired}]
      BY <1>3, <1>10, <2>2 DEF CreatePuts, SchemasOK, get_by_category_and_version
    <3>2. schemas[c] = {} /\ schemas'[c] = {Desired} /\ SchemasGrow
          /\ schemas' \in [SUPPORTED_SCHEMA_CATEGORIES -> Stored]
      <4>1. schemas[c] = {} /\ {Desired} \in Stored
        BY <1>3, <3>0, PreflightTells
      <4> QED
        BY <1>3, <3>1, <4>1 DEF SchemasOK, SchemasGrow
    <3>3. p \in Seeder /\ p.at = s.at /\ p.existing = s.existing /\ p.pc = "create"
      BY <1>2, <1>3 DEF Seeder, SeederPC
    <3>4. t \in Seeder /\ t.existing = s.existing
          /\ \/ s.at = 1 /\ t.at = 2 /\ t.pc = "create"
             \/ s.at = 2 /\ t.at = 1 /\ t.pc = "seeded"
      BY <3>3, NextCategoryIs DEF Seeder, SeederPC
    <3>5. seeder'[d] = t
      BY <3>1 DEF SchemasOK
    <3> HIDE DEF t
    <3>6. s.existing \subseteq SUPPORTED_SCHEMA_CATEGORIES
      BY <1>2 DEF Seeder
    <3>7. SeederOK(d)'
      BY <1>2, <1>5, <2>1, <3>2, <3>4, <3>5, <3>6, Categories DEF SeederOK, SchemasGrow
    <3> QED
      BY <2>1, <3>1, <3>2, <3>4, <3>7, OneSeeder
  <2>3. CASE {x \in schemas[c] : x.version = 1} # {}
    <3> DEFINE t == [s EXCEPT !.pc = "already_exists"]
    <3>1. seeder' = [seeder EXCEPT ![d] = t] /\ UNCHANGED schemas
      BY <1>3, <1>10, <2>3 DEF CreatePuts, Becomes, get_by_category_and_version
    <3>2. t \in Seeder
      BY <1>2 DEF Seeder, SeederPC
    <3>3. SeederOK(d)'
      BY <1>2, <1>5, <2>1, <3>1 DEF SeederOK, SchemasOK, Seeder
    <3> QED
      BY <1>4, <2>1, <3>1, <3>2, <3>3, OneSeeder
  <2> QED
    BY <2>2, <2>3
<1>11. CASE SeedingFails(d)
  <2> DEFINE t == [s EXCEPT !.pc = "failed"]
  <2>1. /\ UNCHANGED provisioning /\ seeder' = [seeder EXCEPT ![d] = t] /\ Provided(d)
    BY <1>2, <1>11 DEF SeedingFails, Becomes, SeederOK
  <2>2. SchemasGrow /\ schemas' \in [SUPPORTED_SCHEMA_CATEGORIES -> Stored]
    <3>1. CASE UNCHANGED schemas
      BY <1>4, <3>1
    <3>2. CASE /\ {x \in schemas[c] : x.version = 1} = {}
               /\ schemas' = [schemas EXCEPT ![c] = schemas[c] \cup {Desired}]
      <4>1. \A x \in schemas[c] : x.version # 1
        BY <3>2
      <4>2. schemas[c] = {} /\ {Desired} \in Stored
        BY <1>3, <4>1, PreflightTells
      <4> QED
        BY <1>3, <3>2, <4>2 DEF SchemasOK, SchemasGrow
    <3> QED
      BY <1>3, <1>11, <3>1, <3>2 DEF SeedingFails, get_by_category_and_version
  <2>3. t \in Seeder
    BY <1>2 DEF Seeder, SeederPC
  <2>4. /\ seeder'[d].pc = "failed" /\ seeder'[d].existing = s.existing
        /\ s.existing \subseteq SUPPORTED_SCHEMA_CATEGORIES
    BY <1>2, <2>1 DEF SchemasOK, Seeder
  <2>5. SeederOK(d)'
    BY <1>2, <1>5, <2>1, <2>2, <2>4 DEF SeederOK, SchemasGrow, Desired, Schema
  <2> QED
    BY <2>1, <2>2, <2>3, <2>5, OneSeeder
<1> QED
  BY <1>1, <1>6, <1>7, <1>8, <1>9, <1>10, <1>11

\* The steps of the deployers leave the schemas alone, and those of the client
\* whatever is served.
LEMMA ProvisioningKeepsSchemas ==
    ASSUME TablesOK, SchemasOK, ProvisioningStep, UNCHANGED seeding PROVE SchemasOK'
<1>1. schemas' = schemas /\ seeder' = seeder
  BY DEF seeding
<1>2. SchemasGrow
  BY <1>1 DEF SchemasGrow
<1> QED
  BY <1>1, <1>2, SeederStays, ProvidedStays DEF SchemasOK

LEMMA ListingStepServes ==
    ASSUME ListingStep PROVE UNCHANGED served
BY DEF ListingStep, _query_products, PresentForeignCursor, Create, Move, Rename, Delete, Replicate,
       Writes, Ends

\* Whoever serves the listings has let the scripts return.
LEMMA ServeKeeps ==
    ASSUME TablesOK, SchemasOK, Serve PROVE TablesOK' /\ SchemasOK'
<1>1. /\ UNCHANGED <<tables, older, schemas>>
      /\ \A d \in Deployers : /\ deployer'[d] = [pc |-> "exited", at |-> 1, attempt |-> 1]
                              /\ seeder'[d] = [pc |-> "exited", at |-> 1, existing |-> {},
                                               wrote |-> {}]
                              /\ seeder[d].pc = "seeded"
  BY DEF Serve, SeederAt
<1>2. deployer' \in [Deployers -> [pc : DeployerPC, at : Step, attempt : Nat]]
  BY MainLength DEF Serve, DeployerPC
<1>3. seeder' \in [Deployers -> Seeder]
  BY DEF Serve, Seeder, SeederPC
<1>4. \A d \in Deployers : \A i \in Step : Usable(i)
  BY <1>1 DEF TablesOK, SchemasOK, SeederOK
<1>5. \A d \in Deployers : /\ \A i \in Step : Usable(i)'
                           /\ Provided(d)' /\ ~ At(d, "table_exists")'
  BY <1>1, <1>4 DEF Usable, Provided, At
<1>6. TablesOK'
  BY <1>1, <1>2, <1>5 DEF TablesOK
<1>7. SchemasOK'
  BY <1>1, <1>3, <1>5 DEF SchemasOK, SeederOK
<1> QED
  BY <1>6, <1>7

LEMMA DeploymentKeeps ==
    ASSUME TablesOK, SchemasOK, [Next]_vars PROVE TablesOK' /\ SchemasOK'
<1>1. CASE ProvisioningStep /\ UNCHANGED <<seeding, paged>>
  BY <1>1, ProvisioningKeeps, ProvisioningKeepsSchemas
<1>2. ASSUME UNCHANGED provisioning PROVE TablesOK'
  BY <1>2 DEF provisioning, TablesOK, Usable, Provided, At
<1>3. CASE SeedingStep /\ UNCHANGED paged
  <2>1. UNCHANGED provisioning
    BY <1>3 DEF SeedingStep, seed_category_attribute_schemas, PreflightVersion, PreflightActive,
                CreateLooks, CreatePuts, SeedingFails
  <2> QED
    BY <1>2, <1>3, <2>1, SeedingKeeps
<1>4. CASE Serve
  BY <1>4, ServeKeeps
<1>5. ASSUME UNCHANGED <<provisioning, seeding>> PROVE SchemasOK'
  BY <1>5 DEF provisioning, seeding, SchemasOK, SeederOK, Provided
<1>6. CASE ListingStep
  BY <1>2, <1>5, <1>6, ListingStepServes DEF served
<1>7. CASE UNCHANGED vars
  BY <1>2, <1>5, <1>7 DEF vars, provisioning, seeding
<1> QED
  BY <1>1, <1>3, <1>4, <1>6, <1>7 DEF Next

\* In every state, whatever deployers do at the same time.
THEOREM Deployment == Spec => [](TablesOK /\ SchemasOK)
<1>1. Init => TablesOK /\ SchemasOK
  BY InitTablesOK, InitSchemasOK DEF Init
<1> QED
  BY <1>1, DeploymentKeeps, PTL DEF Spec

\* A deployment that returned has left usable tables with the indexes of the
\* script and the one active schema of each category, and one that was refused
\* for drift has written no schema, for any number of deployers.
THEOREM DeploymentsProvide == Spec => []ProvisionedOrUntouched
<1>1. TablesOK => ReturnedScriptProvided
  BY DEF TablesOK, ReturnedScriptProvided, Usable
<1>2. ASSUME SchemasOK PROVE SeededOrUntouched
  <2>1. ASSUME NEW c, schemas[c] = {Desired} PROVE get_active_by_category(c) = {Desired}
    <3>1. {s \in schemas[c] : s.status = "ACTIVE"} = {Desired}
      BY <2>1 DEF Desired, Schema
    <3>2. Desired.version <= Desired.version
      BY DEF Desired, Schema
    <3> QED
      BY <3>1, <3>2 DEF get_active_by_category
  <2>2. \A d \in Deployers : SeederAt(d, "seeded") =>
          \A c \in SUPPORTED_SCHEMA_CATEGORIES : schemas[c] = {Desired}
    BY <1>2, Categories DEF SchemasOK, SeederOK, SeederAt
  <2>3. \A d \in Deployers : SeederAt(d, "drift") => seeder[d].wrote = {}
    BY <1>2 DEF SchemasOK, SeederOK, SeederAt
  <2> QED
    BY <2>1, <2>2, <2>3 DEF SeededOrUntouched
<1> QED
  BY <1>1, <1>2, Deployment, PTL DEF ProvisionedOrUntouched

(* -------------------------------- pages --------------------------------- *)

\* A finite set in an order has an element no other is before.  Ahead[x] are
\* the elements before x, or those after it.
LEMMA EndExists ==
    ASSUME NEW S, S # {}, IsFiniteSet(S), NEW Ahead,
           \A x \in S : Ahead[x] \in SUBSET S /\ x \notin Ahead[x],
           \A x, y \in S : y \in Ahead[x] => Ahead[y] \in SUBSET Ahead[x]
    PROVE  \E x \in S : Ahead[x] = {}
<1> DEFINE T == {Ahead[x] : x \in S}
<1>1. T \subseteq SUBSET S /\ T # {}
  OBVIOUS
<1>2. IsWellFoundedOn(StrictSubsetOrdering(S), SUBSET S)
  <2>1. FiniteSubsetsOf(S) = SUBSET S
    BY FS_FiniteSubsetsOfFinite
  <2>2. IsWellFoundedOn(StrictSubsetOrdering(S), FiniteSubsetsOf(S))
    BY FS_StrictSubsetOrderingWellFounded
  <2> QED
    BY <2>1, <2>2
<1>3. PICK t \in T : \A u \in T : <<u, t>> \notin StrictSubsetOrdering(S)
  <2> HIDE DEF T
  <2> QED
    BY <1>1, <1>2, WFMin
<1>4. PICK x \in S : t = Ahead[x]
  BY <1>3
<1>5. ASSUME NEW y \in t PROVE FALSE
  <2>1. y \in S /\ Ahead[y] \in T
    BY <1>4, <1>5
  <2>2. Ahead[y] \in SUBSET t /\ Ahead[y] # t /\ t \in SUBSET S
    BY <1>4, <1>5, <2>1
  <2>3. <<Ahead[y], t>> \in StrictSubsetOrdering(S)
    BY <2>2 DEF StrictSubsetOrdering
  <2> QED
    BY <1>3, <2>1, <2>3
<1> QED
  BY <1>4, <1>5

\* Ahead[x] are the elements of R before x, in a total order.
TotallyOrdered(R, Ahead) ==
    /\ \A x \in R : Ahead[x] \in SUBSET R /\ x \notin Ahead[x]
    /\ \A x, y \in R : y \in Ahead[x] => Ahead[y] \in SUBSET Ahead[x]
    /\ \A x, y \in R : x # y => x \in Ahead[y] \/ y \in Ahead[x]
\* P are the elements of R with fewer than n before them.
FewAhead(P, R, Ahead, n) == \A x : x \in P <=> x \in R /\ Cardinality(Ahead[x]) < n

\* The elements of a finite set in total order with fewer than n before them
\* are n, the last of them has the others before it and none after it, or they
\* are all there is.
LEMMA FirstFew ==
    ASSUME NEW R, IsFiniteSet(R), NEW Ahead, TotallyOrdered(R, Ahead),
           NEW n \in Nat \ {0}, NEW P, FewAhead(P, R, Ahead, n)
    PROVE  /\ Cardinality(P) # n => P = R
           /\ P # {} => \E l \in P : /\ \A x \in P \ {l} : x \in Ahead[l]
                                     /\ \A x \in R \ P : l \in Ahead[x]
           /\ Cardinality(P) = n => P # {}
<1> USE DEF TotallyOrdered, FewAhead
<1>0. \A x \in R : IsFiniteSet(Ahead[x]) /\ Cardinality(Ahead[x]) \in Nat
  BY FS_Subset, FS_CardinalityType
<1>1. P \in SUBSET R /\ IsFiniteSet(P) /\ Cardinality(P) \in Nat
  <2>1. P \in SUBSET R
    OBVIOUS
  <2> QED
    BY <2>1, FS_Subset, FS_CardinalityType
<1>2. \A x, y \in R : y \in Ahead[x] => Cardinality(Ahead[y]) <= Cardinality(Ahead[x])
  BY <1>0, FS_Subset
<1>3. \A x \in P, y \in R \ P : x \in Ahead[y]
  <2> TAKE x \in P, y \in R \ P
  <2>1. x \in R /\ x # y /\ y \notin Ahead[x]
    BY <1>0, <1>2
  <2> QED
    BY <2>1
<1>4. ASSUME P # {}
      PROVE  \E l \in P : \A x \in P \ {l} : x \in Ahead[l]
  <2> DEFINE Behind == [x \in P |-> {y \in P : x \in Ahead[y]}]
  <2>1. \A x \in P : Behind[x] \in SUBSET P /\ x \notin Behind[x]
    BY <1>1
  <2>2. \A x, y \in P : y \in Behind[x] => Behind[y] \in SUBSET Behind[x]
    <3> TAKE x, y \in P
    <3> HAVE y \in Behind[x]
    <3>1. x \in Ahead[y]
      OBVIOUS
    <3>2. ASSUME NEW z \in P, y \in Ahead[z] PROVE x \in Ahead[z]
      <4>1. Ahead[y] \in SUBSET Ahead[z]
        BY <1>1, <3>2
      <4> QED
        BY <3>1, <4>1
    <3> QED
      BY <3>2
  <2>3. PICK l \in P : Behind[l] = {}
    <3> HIDE DEF Behind
    <3> QED
      BY <1>1, <1>4, <2>1, <2>2, EndExists
  <2>4. \A x \in P : l \notin Ahead[x]
    BY <2>3
  <2> QED
    BY <1>1, <2>4
<1>5. ASSUME P # R PROVE Cardinality(P) = n
  <2> DEFINE rest == R \ P
             Before_ == [x \in rest |-> Ahead[x] \cap rest]
  <2>1. rest # {} /\ IsFiniteSet(rest)
    BY <1>1, <1>5, FS_Subset
  <2>2. \A x \in rest : Before_[x] \in SUBSET rest /\ x \notin Before_[x]
    OBVIOUS
  <2>3. \A x, y \in rest : y \in Before_[x] => Before_[y] \in SUBSET Before_[x]
    OBVIOUS
  <2>4. PICK m \in rest : Before_[m] = {}
    <3> HIDE DEF Before_, rest
    <3> QED
      BY <2>1, <2>2, <2>3, EndExists
  <2>5. Ahead[m] = P
    BY <1>3, <2>4
  <2>6. Cardinality(P) >= n
    BY <1>0, <2>5
  <2>7. P # {}
    <3>1. Cardinality({}) < n
      BY FS_EmptySet
    <3> QED
      BY <1>1, <2>6, <3>1
  <2>8. PICK l \in P : \A x \in P \ {l} : x \in Ahead[l]
    BY <1>4, <2>7
  <2>9. Ahead[l] = P \ {l}
    <3>1. \A x \in R \ P : l \in Ahead[x] /\ Ahead[x] \in SUBSET R
      BY <1>3
    <3>2. \A x \in R \ P : x \notin Ahead[l]
      BY <1>1, <3>1
    <3> QED
      BY <1>1, <2>8, <3>2
  <2>10. Cardinality(P) = Cardinality(Ahead[l]) + 1
    <3>1. Cardinality(P \ {l}) = Cardinality(P) - 1
      BY <1>1, FS_RemoveElement
    <3> QED
      BY <1>1, <2>9, <3>1
  <2> QED
    BY <1>0, <1>1, <2>6, <2>10
<1>6. Cardinality(P) = n => P # {}
  <2>1. Cardinality({}) # n
    BY FS_EmptySet
  <2> QED
    BY <2>1
<1> QED
  BY <1>3, <1>4, <1>5, <1>6

\* The keys of a page are ordered by the attribute that sorts the listing and
\* then by item.
Spots == [item : Nat, at : Nat]

LEMMA OrderIsTotal ==
    ASSUME NEW l, NEW a \in Spots, NEW b \in Spots, NEW c \in Spots
    PROVE  /\ ~ InOrder(l, a, a)
           /\ InOrder(l, a, b) /\ InOrder(l, b, c) => InOrder(l, a, c)
           /\ a # b => InOrder(l, a, b) \/ InOrder(l, b, a)
<1>1. a.item \in Nat /\ a.at \in Nat /\ b.item \in Nat /\ b.at \in Nat /\ c.item \in Nat /\ c.at \in Nat
  BY DEF Spots
<1>2. a = b <=> a.item = b.item /\ a.at = b.at
  BY DEF Spots
<1> QED
  BY <1>1, <1>2 DEF InOrder, Earlier

LEMMA ItemsAreNumbered == IsFiniteSet(Items) /\ Items \in SUBSET (Nat \ {0})
<1>1. IsFiniteSet(Items) /\ Items = 1 .. Cardinality(Items) /\ Cardinality(Items) \in Nat
  BY ItemsAssumption, FS_CardinalityType
<1> QED
  BY <1>1

\* A page that is not full is all that remained; of one that is full there is a
\* last item, with the others before it and what remains after it.
LEMMA Pages ==
    ASSUME \A i \in Items : Image(i).at \in Nat, limit \in Nat \ {0}, NEW start
    PROVE  /\ Remaining(start) \in SUBSET Items /\ Page(start) \in SUBSET Remaining(start)
           /\ Cardinality(Page(start)) # limit => Page(start) = Remaining(start)
           /\ Cardinality(Page(start)) = limit =>
                /\ Last(Page(start)) \in Page(start)
                /\ \A i \in Page(start) \ {Last(Page(start))} :
                      InOrder(listing, Place(i), Place(Last(Page(start))))
                /\ \A i \in Remaining(start) \ Page(start) :
                      InOrder(listing, Place(Last(Page(start))), Place(i))
<1> DEFINE R == Remaining(start)
           P == Page(start)
           Ahead == [i \in R |-> {j \in R : InOrder(listing, Place(j), Place(i))}]
<1>1. R \in SUBSET Items /\ P \in SUBSET R
  BY DEF Remaining, Page
<1>2. IsFiniteSet(R)
  BY <1>1, ItemsAreNumbered, FS_Subset
<1>3. \A i \in R : Place(i) \in Spots /\ Place(i).item = i
  BY <1>1, ItemsAreNumbered DEF Place, Spots
<1> DEFINE Precedes(i, j) == InOrder(listing, Place(i), Place(j))
<1>4. \A i, j, k \in R : /\ ~ Precedes(i, i)
                         /\ Precedes(i, j) /\ Precedes(j, k) => Precedes(i, k)
                         /\ i # j => Precedes(i, j) \/ Precedes(j, i)
  <2> TAKE i, j, k \in R
  <2>1. /\ Place(i) \in Spots /\ Place(j) \in Spots /\ Place(k) \in Spots
        /\ i # j => Place(i) # Place(j)
    BY <1>3
  <2> QED
    BY <2>1, OrderIsTotal
<1>6. FewAhead(P, R, Ahead, limit)
  BY DEF Page, FewAhead
<1>7. \A x \in R : Ahead[x] \in SUBSET R /\ \A y \in R : y \in Ahead[x] <=> Precedes(y, x)
  OBVIOUS
<1> HIDE DEF R, P, Ahead, Precedes
<1>8. TotallyOrdered(R, Ahead)
  BY <1>4, <1>7 DEF TotallyOrdered
<1>9. /\ Cardinality(P) # limit => P = R
      /\ P # {} => \E l \in P : /\ \A x \in P \ {l} : x \in Ahead[l]
                                /\ \A x \in R \ P : l \in Ahead[x]
      /\ Cardinality(P) = limit => P # {}
  BY <1>2, <1>6, <1>8, FirstFew
<1>10. ASSUME Cardinality(P) = limit
       PROVE  /\ Last(P) \in P
              /\ \A i \in P \ {Last(P)} : Precedes(i, Last(P))
              /\ \A i \in R \ P : Precedes(Last(P), i)
  <2>1. PICK l \in P : /\ \A x \in P \ {l} : Precedes(x, l)
                       /\ \A x \in R \ P : Precedes(l, x)
    BY <1>1, <1>7, <1>9, <1>10
  <2>2. Last(P) \in P /\ \A x \in P \ {Last(P)} : Precedes(x, Last(P))
    BY <2>1 DEF Last, Precedes
  <2>3. Last(P) = l
    BY <1>1, <1>4, <2>1, <2>2
  <2> QED
    BY <2>1, <2>3
<1> QED
  BY <1>1, <1>9, <1>10 DEF R, P, Precedes

(* ------------------------------- listings ------------------------------- *)

Images == [in : {"absent", "here", "elsewhere", "deleted"}, at : Nat]
\* Where a cursor goes on from, and the items it is past.
Spot(c) == [item |-> c.key.item, at |-> c.key.at]
Passed(i, at) == cursor # NoCursor /\ ~ InOrder(listing, Spot(cursor), [item |-> i, at |-> at])
\* The cursor of the page that ended with an item.
OwnCursor(item, at) == Encode(listing, "this", Key(listing, "this", item, at, TRUE))

\* While a client pages, what it has been given of the steady items is what its
\* cursor is past; an item that keeps its name is never given twice.
PagingOK ==
    /\ record \in [Items -> Images] /\ shown \in [Items -> Images]
    /\ seen \in [Items -> Nat] /\ steady \in SUBSET Items
    /\ paging \in {"no", "yes", "done", "refused"}
    /\ paging # "no" => listing \in AccessPatterns /\ limit \in Limits
    /\ paging \in {"no", "refused"} =>
         cursor = NoCursor /\ steady = {} /\ seen = [i \in Items |-> 0]
    /\ cursor # NoCursor => /\ cursor.key.item \in Items /\ cursor.key.at \in Nat
                            /\ cursor = OwnCursor(cursor.key.item, cursor.key.at)
    /\ \A i \in steady : Image(i).in = "here"
    /\ "rename" \notin listing.changes => \A i \in Items :
         /\ record[i].in \in {"here", "elsewhere"} => record[i].at = i
         /\ shown[i].in \in {"here", "elsewhere"} => shown[i].at = i
         /\ seen[i] \in {0, 1}
         /\ paging = "yes" /\ seen[i] = 1 => Passed(i, i)
    /\ \A i \in steady :
         /\ paging = "yes" => seen[i] = IF Passed(i, Image(i).at) THEN 1 ELSE 0
         /\ paging = "done" => seen[i] = 1

\* Whatever else a cursor holds, it keeps the item and its place in the order.
KeepsTheKey(c, item, at) == c # NoCursor /\ c.key.item = item /\ c.key.at = at

LEMMA CursorsKeepTheKey ==
    ASSUME NEW l, NEW argument, NEW item, NEW at
    PROVE  KeepsTheKey(Encode(l, argument, Key(l, argument, item, at, TRUE)), item, at)
<1> DEFINE key == Key(l, argument, item, at, TRUE)
           c == Encode(l, argument, key)
<1>1. /\ key.item = item /\ key.at = at
      /\ [key EXCEPT !.wire = FALSE].item = item /\ [key EXCEPT !.wire = FALSE].at = at
  BY DEF Key
<1> HIDE DEF key
<1>2. \/ c.key = key \/ c.key = [key EXCEPT !.wire = FALSE]
  BY DEF Encode, Envelope, encode_product_cursor, encode_catalog_search_cursor,
         encode_product_source_cursor, encode_processing_job_cursor,
         encode_review_decision_cursor, encode_score_cursor, encode_workflow_cursor
<1>3. c.scope # "none" \/ c.members # {}
  BY DEF Encode, Envelope, encode_product_cursor, encode_catalog_search_cursor,
         encode_product_source_cursor, encode_processing_job_cursor,
         encode_review_decision_cursor, encode_score_cursor, encode_workflow_cursor
<1>4. NoCursor.scope = "none" /\ NoCursor.members = {}
  BY DEF NoCursor, Envelope
<1> HIDE DEF c
<1>5. c # NoCursor /\ c.key.item = item /\ c.key.at = at
  BY <1>1, <1>2, <1>3, <1>4
<1> QED
  BY <1>5 DEF c, key, KeepsTheKey

LEMMA OwnCursorsKeepTheKey ==
    ASSUME NEW item, NEW at
    PROVE  /\ OwnCursor(item, at) # NoCursor
           /\ OwnCursor(item, at).key.item = item /\ OwnCursor(item, at).key.at = at
<1>1. KeepsTheKey(Encode(listing, "this", Key(listing, "this", item, at, TRUE)), item, at)
  BY CursorsKeepTheKey
<1> QED
  BY <1>1 DEF OwnCursor, KeepsTheKey

LEMMA ImagesHavePlaces ==
    ASSUME PagingOK
    PROVE  \A i \in Items : Image(i) \in Images /\ Image(i).at \in Nat /\ Place(i) \in Spots
BY ItemsAreNumbered DEF PagingOK, Image, Images, Place, Spots

\* Each listing by its name and the scheme of its cursors; only the listing of
\* decisions is read consistently, and nothing moves in it.
LEMMA Schemes ==
    /\ list_products.name = "list_products" /\ list_products.scheme = "product"
    /\ list_by_status.name = "list_by_status" /\ list_by_status.scheme = "product"
    /\ list_created.name = "CREATED_AT" /\ list_created.scheme = "search"
    /\ search_by_status.name = "STATUS" /\ search_by_status.scheme = "search"
    /\ list_by_category.name = "CATEGORY" /\ list_by_category.scheme = "search"
    /\ list_by_category_status.name = "CATEGORY_STATUS" /\ list_by_category_status.scheme = "search"
    /\ list_by_manufacturer.name = "MANUFACTURER" /\ list_by_manufacturer.scheme = "search"
    /\ list_by_model_number.name = "MODEL_NUMBER" /\ list_by_model_number.scheme = "search"
    /\ list_by_name_prefix.name = "NAME_PREFIX" /\ list_by_name_prefix.scheme = "search"
    /\ sources_by_product.name = "sources" /\ sources_by_product.scheme = "source"
    /\ jobs_by_product.name = "jobs" /\ jobs_by_product.scheme = "jobs_by_product"
    /\ jobs_by_source.name = "source_jobs" /\ jobs_by_source.scheme = "jobs_by_source"
    /\ list_decisions.name = "decisions" /\ list_decisions.scheme = "review"
    /\ scores_by_product.name = "scores" /\ scores_by_product.scheme = "score"
    /\ workflows_by_product.name = "workflows" /\ workflows_by_product.scheme = "workflow"
    /\ list_decisions.changes = {}
BY DEF AccessPattern, ProductListing, list_products, list_by_status, list_created,
       search_by_status, list_by_category, list_by_category_status, list_by_manufacturer,
       list_by_model_number, list_by_name_prefix, sources_by_product, jobs_by_product,
       jobs_by_source, list_decisions, scores_by_product, workflows_by_product

\* Items that are created in the listing of decisions do not move in it.
LEMMA ChangesOfListings ==
    ASSUME NEW l \in AccessPatterns, ConsistentRead(l)
    PROVE  l.changes = {}
BY Schemes DEF AccessPatterns, ConsistentRead

LEMMA InitPagingOK == InitListings => PagingOK
<1> SUFFICES ASSUME InitListings PROVE PagingOK
  OBVIOUS
<1>1. /\ record = [i \in Items |-> Absent] /\ shown = record /\ paging = "no"
      /\ cursor = NoCursor /\ seen = [i \in Items |-> 0] /\ steady = {}
  BY DEF InitListings
<1>2. Absent \in Images /\ Absent.in = "absent"
  BY DEF Absent, Images
<1>3. record \in [Items -> Images] /\ \A i \in Items : record[i].in = "absent" /\ seen[i] = 0
  BY <1>1, <1>2
<1> QED
  BY <1>1, <1>3 DEF PagingOK

LEMMA EndsKeeps ==
    ASSUME PagingOK, NEW error, NEW from, NEW argument, Ends(error, from, argument),
           paging = "yes"
    PROVE  PagingOK'
<1>1. /\ paging' = "refused" /\ record' = [i \in Items |-> Absent] /\ shown' = record'
      /\ cursor' = NoCursor /\ seen' = [i \in Items |-> 0] /\ steady' = {}
      /\ listing' = listing /\ limit' = limit
  BY DEF Ends, served
<1>2. listing' \in AccessPatterns /\ limit' \in Limits
  BY <1>1 DEF PagingOK
<1> QED
  BY <1>1, <1>2 DEF PagingOK, Images, Absent

LEMMA ServeKeepsPaging ==
    ASSUME PagingOK, Serve PROVE PagingOK'
<1>1. /\ listing' \in AccessPatterns /\ limit' \in Limits /\ paging' = "yes" /\ shown' = record'
      /\ steady' = {i \in Items : record'[i].in = "here"}
      /\ cursor' = NoCursor /\ seen' = [i \in Items |-> 0]
  BY DEF Serve, PagingOK
<1>2. PICK place \in [Items -> Places(listing')] :
        record' = [i \in Items |-> IF place[i] = "absent" THEN Absent ELSE [in |-> place[i], at |-> i]]
  BY DEF Serve
<1>3. \A i \in Items : /\ record'[i] \in Images
                       /\ record'[i].in \in {"here", "elsewhere"} => record'[i].at = i
  <2> TAKE i \in Items
  <2>1. place[i] \in {"absent", "here", "elsewhere"} /\ i \in Nat
    BY <1>2, ItemsAreNumbered DEF Places
  <2> QED
    BY <1>2, <2>1 DEF Images, Absent
<1>4. record' \in [Items -> Images]
  BY <1>2, <1>3
<1>5. \A i \in steady' : Image(i)'.in = "here"
  BY <1>1 DEF Image
<1>6. \A i \in Items : seen'[i] = 0 /\ ~ Passed(i, Image(i).at)'
  BY <1>1 DEF Passed
<1> QED
  BY <1>1, <1>3, <1>4, <1>5, <1>6 DEF PagingOK

\* After a page that is full, the cursor of its last item is past the items of
\* the page and those that were passed before, and past no other.
LEMMA PagesPass ==
    ASSUME PagingOK, paging = "yes",
           Cardinality(Page(cursor)) = limit,
           cursor' = OwnCursor(Last(Page(cursor)), Image(Last(Page(cursor))).at),
           UNCHANGED listing,
           NEW i \in Items, NEW at \in Nat
    PROVE  /\ Passed(i, at) => Passed(i, at)'
           /\ Image(i).in = "here" /\ Image(i).at = at =>
                (Passed(i, at)' <=> Passed(i, at) \/ i \in Page(cursor))
<1> DEFINE P == Page(cursor)
           R == Remaining(cursor)
           last == Last(P)
           Before_(a, b) == InOrder(listing, a, b)
           here == [item |-> i, at |-> at]
<1>1. limit \in Nat \ {0} /\ \A j \in Items : Image(j).at \in Nat /\ Place(j) \in Spots
  BY ImagesHavePlaces, LimitsAssumption DEF PagingOK
<1>2. /\ R \in SUBSET Items /\ P \in SUBSET R /\ last \in P
      /\ \A j \in P \ {last} : Before_(Place(j), Place(last))
      /\ \A j \in R \ P : Before_(Place(last), Place(j))
  BY <1>1, Pages
<1>3. cursor' # NoCursor /\ Spot(cursor') = Place(last)
  BY OwnCursorsKeepTheKey DEF Spot, Place
<1>4. Passed(i, at)' <=> ~ Before_(Place(last), here)
  BY <1>3 DEF Passed
<1>5. \A j \in Items : j \in R <=> /\ Image(j).in = "here"
                                   /\ cursor = NoCursor \/ Before_(Spot(cursor), Place(j))
  BY DEF Remaining, Spot
<1>6. cursor # NoCursor => Spot(cursor) \in Spots
  BY ItemsAreNumbered DEF PagingOK, Spot, Spots
<1>7. here \in Spots
  BY ItemsAreNumbered DEF Spots
<1>8. \A a, b, c \in Spots : /\ ~ Before_(a, a)
                             /\ Before_(a, b) /\ Before_(b, c) => Before_(a, c)
                             /\ a # b => Before_(a, b) \/ Before_(b, a)
  BY OrderIsTotal
<1>9. cursor # NoCursor => Before_(Spot(cursor), Place(last))
  BY <1>2, <1>5
<1> DEFINE passed == cursor # NoCursor /\ ~ Before_(Spot(cursor), here)
<1>10. Passed(i, at) <=> passed
  BY DEF Passed
<1>11. Place(last) \in Spots
  BY <1>1, <1>2
<1>12. Image(i).at = at => Place(i) = here
  BY DEF Place
<1> HIDE DEF P, R, last, Before_, here
<1>13. passed => ~ Before_(Place(last), here)
  BY <1>6, <1>7, <1>8, <1>9, <1>11
<1>14. ASSUME Image(i).in = "here", Place(i) = here
       PROVE  ~ Before_(Place(last), here) <=> passed \/ i \in P
  <2>1. CASE i \in P
    BY <1>2, <1>7, <1>8, <1>11, <1>14, <2>1
  <2>2. CASE i \in R \ P
    BY <1>2, <1>5, <1>14, <2>2
  <2>3. CASE i \notin R
    BY <1>2, <1>5, <1>13, <1>14, <2>3
  <2> QED
    BY <2>1, <2>2, <2>3
<1> QED
  BY <1>4, <1>10, <1>12, <1>13, <1>14 DEF P

LEMMA QueryKeepsPaging ==
    ASSUME PagingOK, _query_products PROVE PagingOK'
<1> DEFINE P == Page(cursor)
<1>1. CASE Outcome(cursor) # "page"
  BY <1>1, EndsKeeps DEF _query_products
<1>2. CASE Outcome(cursor) = "page"
  <2>1. /\ paging = "yes" /\ UNCHANGED <<listing, limit, record, shown, steady>>
        /\ seen' = [i \in Items |-> IF i \in P THEN seen[i] + 1 ELSE seen[i]]
    BY <1>2 DEF _query_products, served
  <2>2. \A i \in Items : Image(i)' = Image(i)
    BY <2>1 DEF Image
  <2>3. limit \in Nat \ {0} /\ \A i \in Items : Image(i) \in Images /\ Image(i).at \in Nat
    BY <2>1, ImagesHavePlaces, LimitsAssumption DEF PagingOK
  <2>4. P \in SUBSET Remaining(cursor) /\ Remaining(cursor) \in SUBSET Items
    BY <2>3, Pages
  <2>5. \A i \in Items : i \in Remaining(cursor)
                           <=> Image(i).in = "here" /\ ~ Passed(i, Image(i).at)
    BY DEF Remaining, Passed, Spot, Place
  <2>6. \A i \in Items : Image(i).in \in {"here", "elsewhere"} /\ "rename" \notin listing.changes
                           => Image(i).at = i
    BY DEF PagingOK, Image
  \* Who is on this page has not been listed before, or has been renamed.
  <2>7. \A i \in P : i \in steady \/ "rename" \notin listing.changes => seen[i] = 0
    <3> TAKE i \in P
    <3>1. i \in Items /\ Image(i).in = "here" /\ ~ Passed(i, Image(i).at)
      BY <2>4, <2>5
    <3>2. CASE i \in steady
      BY <2>1, <3>1, <3>2 DEF PagingOK
    <3>3. CASE "rename" \notin listing.changes
      <4>1. Image(i).at = i /\ seen[i] \in {0, 1} /\ (seen[i] = 1 => Passed(i, i))
        BY <2>1, <2>6, <3>1, <3>3 DEF PagingOK
      <4> QED
        BY <3>1, <4>1
    <3> QED
      BY <3>2, <3>3
  <2>8. seen' \in [Items -> Nat] /\ \A i \in Items : seen'[i] = IF i \in P THEN seen[i] + 1 ELSE seen[i]
    BY <2>1 DEF PagingOK
  <2> HIDE DEF P
  <2>9. "rename" \notin listing.changes => \A i \in Items : seen'[i] \in {0, 1}
    BY <2>7, <2>8 DEF PagingOK
  <2>10. CASE Cardinality(P) = limit
    <3> DEFINE last == Last(P)
    <3>1. paging' = "yes" /\ cursor' = OwnCursor(last, Image(last).at)
      BY <1>2, <2>1, <2>10 DEF P, _query_products, OwnCursor
    <3>2. last \in Items /\ Image(last).at \in Nat
      BY <2>3, <2>4, <2>10, Pages DEF P
    <3>3. cursor' # NoCursor /\ cursor'.key.item = last /\ cursor'.key.at = Image(last).at
      BY <3>1, OwnCursorsKeepTheKey
    <3>4. cursor' = OwnCursor(cursor.key.item, cursor.key.at)'
      BY <2>1, <3>1, <3>3 DEF OwnCursor
    <3>5. ASSUME NEW i \in Items, NEW at \in Nat
          PROVE  /\ Passed(i, at) => Passed(i, at)'
                 /\ Image(i).in = "here" /\ Image(i).at = at =>
                      (Passed(i, at)' <=> Passed(i, at) \/ i \in P)
      BY <2>1, <2>10, <3>1, PagesPass DEF P
    <3>6. ASSUME NEW i \in steady
          PROVE  seen'[i] = IF Passed(i, Image(i).at)' THEN 1 ELSE 0
      <4>1. PICK at \in Nat : at = Image(i).at
        BY <2>3 DEF PagingOK
      <4>2. i \in Items /\ Image(i).in = "here" /\ seen[i] = IF Passed(i, at) THEN 1 ELSE 0
        BY <2>1, <4>1 DEF PagingOK
      <4>3. Passed(i, at)' <=> Passed(i, at) \/ i \in P
        BY <3>5, <4>1, <4>2
      <4>4. Passed(i, Image(i).at)' <=> Passed(i, at)'
        BY <2>2, <4>1, <4>2 DEF Passed
      <4>5. i \in P => ~ Passed(i, at)
        BY <2>4, <2>5, <4>1
      <4> QED
        BY <2>8, <4>2, <4>3, <4>4, <4>5
    <3>7. ASSUME "rename" \notin listing.changes, NEW i \in Items, seen'[i] = 1
          PROVE  Passed(i, i)'
      <4>1. i \in Nat
        BY ItemsAreNumbered
      <4>2. CASE i \in P
        <5>1. Image(i).in = "here" /\ Image(i).at = i
          BY <2>4, <2>5, <2>6, <3>7, <4>2
        <5> QED
          BY <3>5, <4>1, <4>2, <5>1
      <4>3. CASE i \notin P
        <5>1. Passed(i, i)
          BY <2>1, <2>8, <3>7, <4>3 DEF PagingOK
        <5> QED
          BY <3>5, <4>1, <5>1
      <4> QED
        BY <4>2, <4>3
    <3> HIDE DEF last
    <3>8. /\ cursor'.key.item \in Items /\ cursor'.key.at \in Nat
      BY <3>2, <3>3
    <3> QED
      BY <2>1, <2>2, <2>8, <2>9, <3>1, <3>4, <3>6, <3>7, <3>8 DEF PagingOK
  <2>11. CASE Cardinality(P) # limit
    <3>1. paging' = "done" /\ cursor' = NoCursor
      BY <1>2, <2>11 DEF P, _query_products
    <3>2. P = Remaining(cursor)
      BY <2>3, <2>11, Pages DEF P
    <3>3. ASSUME NEW i \in steady PROVE seen'[i] = 1
      <4>1. /\ i \in Items /\ Image(i).in = "here"
            /\ seen[i] = IF Passed(i, Image(i).at) THEN 1 ELSE 0
        BY <2>1 DEF PagingOK
      <4>2. i \in P <=> ~ Passed(i, Image(i).at)
        BY <2>5, <3>2, <4>1
      <4> QED
        BY <2>8, <4>1, <4>2
    <3> QED
      BY <2>1, <2>2, <2>8, <2>9, <3>1, <3>3 DEF PagingOK
  <2> QED
    BY <2>10, <2>11
<1> QED
  BY <1>1, <1>2

\* A write changes what the table holds, and the index and the client not yet;
\* what the client reads from the table itself, it only adds to.
LEMMA WriteKeepsPaging ==
    ASSUME PagingOK, NEW i \in Items, NEW image \in Images, Writes(i, image),
           "rename" \notin listing.changes /\ image.in \in {"here", "elsewhere"} => image.at = i,
           ConsistentRead(listing) => record[i].in = "absent"
    PROVE  PagingOK'
<1>1. /\ UNCHANGED <<listing, limit, shown, cursor, seen, steady, paging>> /\ paging = "yes"
      /\ record' = [record EXCEPT ![i] = image]
  BY DEF Writes, served
<1>2. record' \in [Items -> Images]
      /\ \A j \in Items : record'[j] = IF j = i THEN image ELSE record[j]
  BY <1>1 DEF PagingOK
<1>3. \A j \in steady : Image(j)' = Image(j)
  <2> TAKE j \in steady
  <2>1. j \in Items /\ Image(j).in = "here"
    BY DEF PagingOK
  <2>2. CASE ConsistentRead(listing)
    <3>1. j # i
      BY <2>1, <2>2 DEF Image
    <3> QED
      BY <1>1, <1>2, <2>1, <2>2, <3>1 DEF Image
  <2> QED
    BY <1>1, <2>2 DEF Image
<1>4. \A j \in Items : "rename" \notin listing.changes
        => (record'[j].in \in {"here", "elsewhere"} => record'[j].at = j)
  BY <1>2 DEF PagingOK
<1>5. \A j \in Items : Passed(j, j)' <=> Passed(j, j)
  BY <1>1 DEF Passed
<1>6. \A j \in steady : Passed(j, Image(j).at)' <=> Passed(j, Image(j).at)
  BY <1>1, <1>3 DEF Passed
<1>7. cursor # NoCursor => OwnCursor(cursor.key.item, cursor.key.at)'
                             = OwnCursor(cursor.key.item, cursor.key.at)
  BY <1>1 DEF OwnCursor
<1>8. cursor' # NoCursor => /\ cursor'.key.item \in Items /\ cursor'.key.at \in Nat
                            /\ cursor' = OwnCursor(cursor.key.item, cursor.key.at)'
  BY <1>1, <1>7 DEF PagingOK
<1>9. \A j \in steady : Image(j)'.in = "here" /\ seen[j] = IF Passed(j, Image(j).at) THEN 1 ELSE 0
  BY <1>1, <1>3 DEF PagingOK
<1>10. "rename" \notin listing.changes => \A j \in Items :
         /\ shown[j].in \in {"here", "elsewhere"} => shown[j].at = j
         /\ seen[j] \in {0, 1}
         /\ seen[j] = 1 => Passed(j, j)
  BY <1>1 DEF PagingOK
<1>11. /\ shown \in [Items -> Images] /\ seen \in [Items -> Nat] /\ steady \in SUBSET Items
       /\ listing \in AccessPatterns /\ limit \in Limits
  BY <1>1 DEF PagingOK
<1> QED
  BY <1>1, <1>2, <1>4, <1>5, <1>6, <1>8, <1>9, <1>10, <1>11 DEF PagingOK

LEMMA ReplicateKeepsPaging ==
    ASSUME PagingOK, NEW i \in Items, Replicate(i) PROVE PagingOK'
<1>1. /\ UNCHANGED <<listing, limit, record, cursor, seen, paging>> /\ paging = "yes"
      /\ shown' = [shown EXCEPT ![i] = record[i]] /\ steady' = steady \ {i}
      /\ ~ ConsistentRead(listing)
  BY DEF Replicate, served
<1>2. shown' \in [Items -> Images]
      /\ \A j \in Items : shown'[j] = IF j = i THEN record[i] ELSE shown[j]
  BY <1>1 DEF PagingOK
<1>3. \A j \in steady' : j \in steady /\ Image(j)' = Image(j)
  BY <1>1, <1>2 DEF Image, PagingOK
<1>4. \A j \in Items : "rename" \notin listing.changes
        => (shown'[j].in \in {"here", "elsewhere"} => shown'[j].at = j)
  BY <1>2 DEF PagingOK
<1>5. \A j \in Items : Passed(j, j)' <=> Passed(j, j)
  BY <1>1 DEF Passed
<1>6. \A j \in steady' : Passed(j, Image(j).at)' <=> Passed(j, Image(j).at)
  BY <1>1, <1>3 DEF Passed
<1>7. cursor # NoCursor => OwnCursor(cursor.key.item, cursor.key.at)'
                             = OwnCursor(cursor.key.item, cursor.key.at)
  BY <1>1 DEF OwnCursor
<1>8. cursor' # NoCursor => /\ cursor'.key.item \in Items /\ cursor'.key.at \in Nat
                            /\ cursor' = OwnCursor(cursor.key.item, cursor.key.at)'
  BY <1>1, <1>7 DEF PagingOK
<1>9. \A j \in steady' : Image(j)'.in = "here" /\ seen[j] = IF Passed(j, Image(j).at) THEN 1 ELSE 0
  BY <1>1, <1>3 DEF PagingOK
<1>10. "rename" \notin listing.changes => \A j \in Items :
         /\ record[j].in \in {"here", "elsewhere"} => record[j].at = j
         /\ seen[j] \in {0, 1}
         /\ seen[j] = 1 => Passed(j, j)
  BY <1>1 DEF PagingOK
<1>11. /\ record \in [Items -> Images] /\ seen \in [Items -> Nat] /\ steady' \in SUBSET Items
       /\ listing \in AccessPatterns /\ limit \in Limits
  BY <1>1 DEF PagingOK
<1> QED
  BY <1>1, <1>2, <1>4, <1>5, <1>6, <1>8, <1>9, <1>10, <1>11 DEF PagingOK

LEMMA ListingKeepsPaging ==
    ASSUME PagingOK, ListingStep PROVE PagingOK'
<1>1. CASE _query_products
  BY <1>1, QueryKeepsPaging
<1>2. CASE PresentForeignCursor
  BY <1>2, EndsKeeps DEF PresentForeignCursor
<1>3. paging = "yes" => listing \in AccessPatterns
  BY DEF PagingOK
<1>4. \A i \in Items : i \in Nat /\ record[i] \in Images
  BY ItemsAreNumbered DEF PagingOK
<1>5. ASSUME NEW i \in Items, Create(i) PROVE PagingOK'
  <2>1. PICK place \in Places(listing) \ {"absent"} : Writes(i, [in |-> place, at |-> i])
    BY <1>5 DEF Create
  <2>2. [in |-> place, at |-> i] \in Images /\ record[i].in = "absent"
    BY <1>4, <1>5 DEF Places, Images, Create, Absent
  <2> QED
    BY <2>1, <2>2, WriteKeepsPaging
<1>6. ASSUME NEW i \in Items, Move(i) PROVE PagingOK'
  <2> DEFINE image == [record[i] EXCEPT !.in = IF @ = "here" THEN "elsewhere" ELSE "here"]
  <2>1. Writes(i, image) /\ "move" \in listing.changes /\ record[i].in \in {"here", "elsewhere"}
    BY <1>6 DEF Move
  <2>2. image \in Images /\ image.at = record[i].at
    BY <1>4 DEF Images
  <2>3. ~ ConsistentRead(listing)
    BY <1>3, <2>1, ChangesOfListings DEF Writes
  <2>4. "rename" \notin listing.changes => image.at = i
    BY <2>1, <2>2 DEF PagingOK
  <2> HIDE DEF image
  <2> QED
    BY <2>1, <2>2, <2>3, <2>4, WriteKeepsPaging
<1>7. ASSUME NEW i \in Items, Rename(i) PROVE PagingOK'
  <2>1. PICK at \in Items : Writes(i, [record[i] EXCEPT !.at = at])
    BY <1>7 DEF Rename
  <2>2. [record[i] EXCEPT !.at = at] \in Images
    BY <1>4 DEF Images
  <2>3. "rename" \in listing.changes
    BY <1>7 DEF Rename
  <2>4. ~ ConsistentRead(listing)
    BY <1>3, <2>1, <2>3, ChangesOfListings DEF Writes
  <2>5. PICK image : image = [record[i] EXCEPT !.at = at]
    OBVIOUS
  <2> QED
    BY <2>1, <2>2, <2>3, <2>4, <2>5, WriteKeepsPaging
<1>8. ASSUME NEW i \in Items, Delete(i) PROVE PagingOK'
  <2>1. Writes(i, [in |-> "deleted", at |-> 0]) /\ "delete" \in listing.changes
    BY <1>8 DEF Delete
  <2>2. [in |-> "deleted", at |-> 0] \in Images
    BY DEF Images
  <2>3. ~ ConsistentRead(listing)
    BY <1>3, <2>1, ChangesOfListings DEF Writes
  <2> QED
    BY <2>1, <2>2, <2>3, WriteKeepsPaging
<1> QED
  BY <1>1, <1>2, <1>5, <1>6, <1>7, <1>8, ReplicateKeepsPaging DEF ListingStep

LEMMA PagingKeeps ==
    ASSUME PagingOK, [Next]_vars PROVE PagingOK'
<1>1. ASSUME UNCHANGED paged PROVE PagingOK'
  <2>1. \A i : Image(i)' = Image(i)
    BY <1>1 DEF paged, Image
  <2>2. \A i, at : Passed(i, at)' <=> Passed(i, at)
    BY <1>1 DEF paged, Passed
  <2>3. \A i, at : OwnCursor(i, at)' = OwnCursor(i, at)
    BY <1>1 DEF paged, OwnCursor
  <2> QED
    BY <1>1, <2>1, <2>2, <2>3 DEF paged, PagingOK, Image, Passed, OwnCursor
<1>2. UNCHANGED vars => UNCHANGED paged
  BY DEF vars, paged
<1> QED
  BY <1>1, <1>2, ServeKeepsPaging, ListingKeepsPaging DEF Next

THEOREM Paging == Spec => []PagingOK
BY InitPagingOK, PagingKeeps, PTL DEF Spec, Init

\* A client that pages to the end has been given every item that stayed in the
\* listing exactly once, and no item twice unless it was renamed, for any
\* number of items and of writes, and pages of any size.
THEOREM SteadyItemsAreListedOnce == Spec => []SteadyListedOnce
<1>1. ASSUME PagingOK PROVE SteadyListedOnce
  <2>1. \A i \in steady : i \in Items /\ seen[i] \in {0, 1}
    <3>1. paging \in {"no", "refused"} => steady = {}
      BY <1>1 DEF PagingOK
    <3> QED
      BY <1>1, <3>1 DEF PagingOK
  <2> QED
    BY <1>1, <2>1 DEF PagingOK, SteadyListedOnce
<1> QED
  BY <1>1, Paging, PTL

(* ------------------------ the keys and the indexes ---------------------- *)

\* The table of a name is the one a function of main creates.
LEMMA TableOfAName ==
    ASSUME NEW i \in Step
    PROVE  (CHOOSE t \in {main[j] : j \in Step} : t.name = main[i].name) = main[i]
<1>1. main[i] \in {main[j] : j \in Step}
  OBVIOUS
<1>2. \A t \in {main[j] : j \in Step} : t.name = main[i].name => t = main[i]
  BY NamesAreDistinct
<1> QED
  BY <1>1, <1>2

LEMMA KeysOfAnIndex ==
    ASSUME NEW table, NEW index \in table.indexes,
           \A other \in table.indexes : other.name = index.name => other = index
    PROVE  KeyAttributes(table, index.name) = table.key \cup index.key
BY DEF KeyAttributes

LEMMA MainTables ==
    /\ main[1] = create_products_table /\ main[2] = create_sources_table
    /\ main[3] = create_processing_jobs_table /\ main[17] = create_product_reviews_table
    /\ main[22] = create_product_intelligence_score_results_table
    /\ main[23] = create_catalog_intelligence_workflows_table
BY DEF main

\* A listing's index, and the attributes of its keys.
Indexed(l, i, keys) ==
    /\ main[i].name = l.table /\ l.index \in IndexNames(main[i])
    /\ KeyAttributes(main[i], l.index) = keys

LEMMA IndexOfAListing ==
    ASSUME NEW l, NEW i \in Step, main[i].name = l.table,
           NEW index \in main[i].indexes, index.name = l.index,
           \A other \in main[i].indexes : other.name = index.name => other = index
    PROVE  Indexed(l, i, main[i].key \cup index.key)
<1>1. KeyAttributes(main[i], l.index) = main[i].key \cup index.key
  BY KeysOfAnIndex
<1>2. l.index \in IndexNames(main[i])
  BY DEF IndexNames
<1> QED
  BY <1>1, <1>2 DEF Indexed

LEMMA ProductIndexesAreDistinct ==
    ASSUME NEW x \in create_products_table.indexes, NEW y \in create_products_table.indexes,
           x.name = y.name
    PROVE  x = y
BY DEF create_products_table, Table, Index

LEMMA ProductListingIsIndexed ==
    ASSUME NEW name, NEW index, NEW partition, NEW sort, NEW scheme, NEW changes,
           Index(index, partition, sort) \in create_products_table.indexes
    PROVE  LET l == ProductListing(name, index, partition, sort, scheme, changes) IN
           Indexed(l, 1, l.cursor_keys)
<1> DEFINE l == ProductListing(name, index, partition, sort, scheme, changes)
           x == Index(index, partition, sort)
<1>1. 1 \in Step /\ main[1] = create_products_table
  BY MainLength, MainTables
<1>2. /\ main[1].name = "products" /\ main[1].key = {"productId"}
      /\ x.name = index /\ x.key = {partition, sort}
      /\ l.table = "products" /\ l.index = index /\ l.cursor_keys = {"productId", partition, sort}
  BY <1>1 DEF create_products_table, Table, Index, ProductListing, AccessPattern
<1>3. x \in main[1].indexes /\ \A other \in main[1].indexes : other.name = x.name => other = x
  BY <1>1, ProductIndexesAreDistinct
<1>4. l.cursor_keys = main[1].key \cup x.key
  BY <1>2
<1> HIDE DEF l, x
<1>5. Indexed(l, 1, main[1].key \cup x.key)
  BY <1>1, <1>2, <1>3, IndexOfAListing
<1> QED
  BY <1>4, <1>5 DEF l

LEMMA ProductIndexes ==
    /\ Index("CreatedAtIndex", "entityType", "createdAt") \in create_products_table.indexes
    /\ Index("StatusCreatedAtIndex", "status", "createdAt") \in create_products_table.indexes
    /\ Index("CategoryCreatedAtIndex", "category", "createdAt") \in create_products_table.indexes
    /\ Index("CategoryStatusCreatedAtIndex", "categoryStatusKey", "createdAt")
         \in create_products_table.indexes
    /\ Index("ManufacturerCreatedAtIndex", "normalizedManufacturer", "createdAt")
         \in create_products_table.indexes
    /\ Index("ModelNumberCreatedAtIndex", "normalizedModelNumber", "createdAt")
         \in create_products_table.indexes
    /\ Index("NameSearchIndex", "entityType", "normalizedName") \in create_products_table.indexes
BY DEF create_products_table, Table

LEMMA ProductListingsAreIndexed ==
    \A l \in {list_products, list_by_status, list_created, search_by_status, list_by_category,
              list_by_category_status, list_by_manufacturer, list_by_model_number,
              list_by_name_prefix} : Indexed(l, 1, l.cursor_keys)
<1>1. Indexed(list_products, 1, list_products.cursor_keys)
  BY ProductListingIsIndexed, ProductIndexes, Zenon DEF list_products
<1>2. Indexed(list_by_status, 1, list_by_status.cursor_keys)
  BY ProductListingIsIndexed, ProductIndexes, Zenon DEF list_by_status
<1>3. Indexed(list_created, 1, list_created.cursor_keys)
  BY ProductListingIsIndexed, ProductIndexes, Zenon DEF list_created
<1>4. Indexed(search_by_status, 1, search_by_status.cursor_keys)
  BY ProductListingIsIndexed, ProductIndexes, Zenon DEF search_by_status
<1>5. Indexed(list_by_category, 1, list_by_category.cursor_keys)
  BY ProductListingIsIndexed, ProductIndexes, Zenon DEF list_by_category
<1>6. Indexed(list_by_category_status, 1, list_by_category_status.cursor_keys)
  BY ProductListingIsIndexed, ProductIndexes, Zenon DEF list_by_category_status
<1>7. Indexed(list_by_manufacturer, 1, list_by_manufacturer.cursor_keys)
  BY ProductListingIsIndexed, ProductIndexes, Zenon DEF list_by_manufacturer
<1>8. Indexed(list_by_model_number, 1, list_by_model_number.cursor_keys)
  BY ProductListingIsIndexed, ProductIndexes, Zenon DEF list_by_model_number
<1>9. Indexed(list_by_name_prefix, 1, list_by_name_prefix.cursor_keys)
  BY ProductListingIsIndexed, ProductIndexes, Zenon DEF list_by_name_prefix
<1> QED
  BY <1>1, <1>2, <1>3, <1>4, <1>5, <1>6, <1>7, <1>8, <1>9

LEMMA OtherListingsAreIndexed ==
    /\ Indexed(sources_by_product, 2, sources_by_product.cursor_keys)
    /\ Indexed(jobs_by_product, 3, jobs_by_product.cursor_keys)
    /\ Indexed(jobs_by_source, 3, jobs_by_source.cursor_keys)
    /\ list_decisions.index = "" /\ list_decisions.cursor_keys = {}
    /\ workflows_by_product.table = main[23].name /\ workflows_by_product.cursor_keys = {}
    /\ workflows_by_product.index \in IndexNames(main[23])
<1>1. 2 \in Step /\ 3 \in Step /\ 23 \in Step
  BY MainLength
<1> DEFINE s == sources_by_product
           p == jobs_by_product
           j == jobs_by_source
           x == Index("SourceCreatedAtIndex", "sourceScope", "createdAt")
<1>2. /\ s.table = "sources" /\ s.index = "ProductCreatedAtIndex"
      /\ s.cursor_keys = {"productId", "sourceId", "createdAt"}
      /\ p.table = "processing-jobs" /\ p.index = "ProductCreatedAtIndex"
      /\ p.cursor_keys = {"jobId", "productId", "createdAt"}
      /\ j.table = "processing-jobs" /\ j.index = "SourceCreatedAtIndex"
      /\ j.cursor_keys = {"jobId", "sourceScope", "createdAt"}
  BY DEF sources_by_product, jobs_by_product, jobs_by_source, AccessPattern
<1>3. /\ ProductCreatedAtIndex.name = "ProductCreatedAtIndex"
      /\ ProductCreatedAtIndex.key = {"productId", "createdAt"}
      /\ x.name = "SourceCreatedAtIndex" /\ x.key = {"sourceScope", "createdAt"}
  BY DEF ProductCreatedAtIndex, Index
<1>4. /\ main[2].name = "sources" /\ main[2].key = {"productId", "sourceId"}
      /\ main[2].indexes = {ProductCreatedAtIndex}
      /\ main[3].name = "processing-jobs" /\ main[3].key = {"jobId"}
      /\ main[3].indexes = {ProductCreatedAtIndex, x}
  BY MainTables DEF create_sources_table, create_processing_jobs_table, Table
<1> HIDE DEF s, p, j, x
<1>5. Indexed(s, 2, main[2].key \cup ProductCreatedAtIndex.key)
  BY <1>1, <1>2, <1>3, <1>4, IndexOfAListing
<1>6. Indexed(p, 3, main[3].key \cup ProductCreatedAtIndex.key)
  BY <1>1, <1>2, <1>3, <1>4, IndexOfAListing
<1>7. Indexed(j, 3, main[3].key \cup x.key)
  BY <1>1, <1>2, <1>3, <1>4, IndexOfAListing
<1>8. /\ s.cursor_keys = main[2].key \cup ProductCreatedAtIndex.key
      /\ p.cursor_keys = main[3].key \cup ProductCreatedAtIndex.key
      /\ j.cursor_keys = main[3].key \cup x.key
  BY <1>2, <1>3, <1>4
<1>9. list_decisions.index = "" /\ list_decisions.cursor_keys = {}
  BY DEF list_decisions, AccessPattern
<1>10. /\ workflows_by_product.table = main[23].name /\ workflows_by_product.cursor_keys = {}
       /\ workflows_by_product.index \in IndexNames(main[23])
  BY MainTables DEF workflows_by_product, AccessPattern, create_catalog_intelligence_workflows_table,
       Records, Table, IndexNames, ProductCreatedAtIndex, Index
<1> QED
  BY <1>5, <1>6, <1>7, <1>8, <1>9, <1>10 DEF s, p, j

\* But for the scores, the keys a listing expects of its cursors are those of
\* its table and index, which its table has.
LEMMA ListingsAreIndexed ==
    ASSUME NEW l \in AccessPatterns, l # scores_by_product
    PROVE  /\ l.index = "" \/ \E i \in Step : main[i].name = l.table /\ l.index \in IndexNames(main[i])
           /\ \A argument, item, at, wire :
                 l.cursor_keys # {} => Key(l, argument, item, at, wire).attributes = l.cursor_keys
<1>1. 1 \in Step /\ 2 \in Step /\ 3 \in Step /\ 23 \in Step
  BY MainLength
<1>2. \/ \E i \in Step : Indexed(l, i, l.cursor_keys)
      \/ l.index = "" /\ l.cursor_keys = {}
      \/ /\ l.cursor_keys = {}
         /\ l.table = main[23].name /\ l.index \in IndexNames(main[23])
  BY <1>1, ProductListingsAreIndexed, OtherListingsAreIndexed DEF AccessPatterns
<1>3. ASSUME NEW i \in Step, Indexed(l, i, l.cursor_keys), NEW argument, NEW item, NEW at, NEW wire
      PROVE  Key(l, argument, item, at, wire).attributes = l.cursor_keys
  <2>1. (CHOOSE t \in {main[j] : j \in Step} : t.name = l.table) = main[i]
    BY <1>3, TableOfAName DEF Indexed
  <2>2. Key(l, argument, item, at, wire).attributes
          = KeyAttributes(CHOOSE t \in {main[j] : j \in Step} : t.name = l.table, l.index)
    BY DEF Key
  <2> QED
    BY <1>3, <2>1, <2>2 DEF Indexed
<1> QED
  BY <1>1, <1>2, <1>3 DEF Indexed

\* The cursor of each scheme.
InItsScheme(l, argument, key, c) ==
    /\ l.scheme = "product" => c = encode_product_cursor(key)
    /\ l.scheme = "search" => c = encode_catalog_search_cursor(l.name, argument, key)
    /\ l.scheme = "source" => c = encode_product_source_cursor(argument, key)
    /\ l.scheme \in {"jobs_by_product", "jobs_by_source"} =>
         c = encode_processing_job_cursor(l.scheme, argument, key)
    /\ l.scheme = "review" => c = encode_review_decision_cursor(argument, key)
    /\ l.scheme = "score" => c = encode_score_cursor(key, argument)
    /\ l.scheme = "workflow" => c = encode_workflow_cursor(key, argument)

LEMMA CursorsOfAScheme ==
    ASSUME NEW l, NEW argument, NEW key
    PROVE  InItsScheme(l, argument, key, Encode(l, argument, key))
BY DEF InItsScheme, Encode

LEMMA SchemesOfListings ==
    \A l \in AccessPatterns :
       /\ l.scheme \in {"product", "search", "source", "jobs_by_product", "jobs_by_source", "review",
                        "score", "workflow"}
       /\ l.scheme = "product" => l \in {list_products, list_by_status}
       /\ l.scheme = "source" => l = sources_by_product
       /\ l.scheme = "jobs_by_product" => l = jobs_by_product
       /\ l.scheme = "jobs_by_source" => l = jobs_by_source
       /\ l.scheme = "review" => l = list_decisions
       /\ l.scheme = "score" => l = scores_by_product
       /\ l.scheme = "workflow" => l = workflows_by_product
BY Schemes DEF AccessPatterns

\* The cursor of a listing other than the scores is decoded by that listing and
\* fits its index.
LEMMA OwnCursorsAreDecoded ==
    ASSUME NEW l \in AccessPatterns, l # scores_by_product, NEW item, NEW at
    PROVE  LET c == Encode(l, "this", Key(l, "this", item, at, TRUE)) IN
           Decodes(l, "this", c) /\ StartKeyFits(l, c.key)
<1> DEFINE key == Key(l, "this", item, at, TRUE)
           c == Encode(l, "this", key)
<1>1. /\ key.wire /\ key.partition = "this"
      /\ key.attributes = Key(l, "this", 0, 0, TRUE).attributes
  BY DEF Key
<1>2. l.cursor_keys # {} => key.attributes = l.cursor_keys
  BY ListingsAreIndexed
<1>3. l.scheme \in {"product", "search", "source", "jobs_by_product", "jobs_by_source", "review",
                    "workflow"}
  BY SchemesOfListings
<1>4. InItsScheme(l, "this", key, c)
  BY CursorsOfAScheme
<1> HIDE DEF key, c
<1> DEFINE followed == Decodes(l, "this", c) /\ c.key = key
<1>5. key.wire /\ (l.cursor_keys # {} => key.attributes = l.cursor_keys)
  BY <1>1, <1>2
<1>6. ASSUME l.scheme = "product" PROVE followed
  <2>1. c = Envelope({}, "", "", key)
    BY <1>4, <1>6 DEF InItsScheme, encode_product_cursor
  <2> QED
    BY <1>5, <1>6, <2>1 DEF Decodes, Envelope, decode_product_cursor
<1>7. ASSUME l.scheme = "search" PROVE followed
  <2>1. c = Envelope({"version", "scope", "accessPattern", "filterFingerprint", "key"}, l.name,
                        "this", key)
    BY <1>4, <1>7 DEF InItsScheme, encode_catalog_search_cursor
  <2> QED
    BY <1>5, <1>7, <2>1 DEF Decodes, Envelope, decode_catalog_search_cursor
<1>8. ASSUME l.scheme = "source" PROVE followed
  <2>1. c = Envelope({"scope", "productId", "key"}, "product_sources", "this", key)
    BY <1>4, <1>8 DEF InItsScheme, encode_product_source_cursor
  <2> QED
    BY <1>5, <1>8, <2>1 DEF Decodes, Envelope, decode_product_source_cursor
<1>9. ASSUME l.scheme \in {"jobs_by_product", "jobs_by_source"} PROVE followed
  <2>1. c = Envelope({"scope", "identity", "key"}, l.scheme, "this", key)
    BY <1>4, <1>9 DEF InItsScheme, encode_processing_job_cursor
  <2> QED
    BY <1>5, <1>9, <2>1 DEF Decodes, Envelope, decode_processing_job_cursor
<1>10. ASSUME l.scheme = "review" PROVE followed
  <2>1. c = Envelope({"scope", "reviewId", "key"}, "review_decisions", "this", key)
    BY <1>4, <1>10 DEF InItsScheme, encode_review_decision_cursor
  <2> QED
    BY <1>5, <1>10, <2>1 DEF Decodes, Envelope, decode_review_decision_cursor
<1>11. ASSUME l.scheme = "workflow" PROVE followed
  <2>1. c = Envelope({"scope", "productId", "key"}, "catalog_workflows", "this", key)
    BY <1>4, <1>11 DEF InItsScheme, encode_workflow_cursor
  <2> QED
    BY <1>5, <1>11, <2>1 DEF Decodes, Envelope, decode_workflow_cursor
<1>12. Decodes(l, "this", c) /\ c.key = key
  BY <1>3, <1>6, <1>7, <1>8, <1>9, <1>10, <1>11
<1>13. StartKeyFits(l, c.key)
  BY <1>1, <1>12 DEF StartKeyFits
<1> QED
  BY <1>12, <1>13 DEF c, key

(* ------------------------------- answers -------------------------------- *)

\* The listing that is served has its table and index, or its table was there
\* before; whoever has been refused its own cursor is told so.
AnswersOK ==
    /\ paging # "no" => /\ \A d \in Deployers : Provided(d)
                        /\ older = {} \/ listing.table \in older
    /\ ListingsFindTheirIndexes

LEMMA IndexesAreThere ==
    ASSUME TablesOK, PagingOK, AnswersOK, paging = "yes",
           listing.table \notin older, listing # scores_by_product
    PROVE  Outcome(cursor) = "page"
<1>1. listing \in AccessPatterns /\ older = {} /\ \A i \in Step : Usable(i)
  BY DeployersAssumption DEF PagingOK, AnswersOK, TablesOK
<1>2. HasIndex(listing)
  <2>1. listing.index = ""
        \/ \E i \in Step : main[i].name = listing.table /\ listing.index \in IndexNames(main[i])
    BY <1>1, ListingsAreIndexed
  <2> QED
    BY <1>1, <2>1 DEF HasIndex, TablesOK, Usable
<1>3. ASSUME cursor # NoCursor
      PROVE  Decodes(listing, "this", cursor) /\ StartKeyFits(listing, cursor.key)
  <2>1. PICK l, item, at : l = listing /\ item = cursor.key.item /\ at = cursor.key.at
    OBVIOUS
  <2>2. cursor = Encode(l, "this", Key(l, "this", item, at, TRUE))
    BY <1>3, <2>1 DEF PagingOK, OwnCursor
  <2>3. LET c == Encode(l, "this", Key(l, "this", item, at, TRUE)) IN
        Decodes(l, "this", c) /\ StartKeyFits(l, c.key)
    BY <1>1, <2>1, OwnCursorsAreDecoded
  <2> QED
    BY <2>1, <2>2, <2>3
<1> QED
  BY <1>2, <1>3 DEF Outcome

LEMMA AnswersKeep ==
    ASSUME TablesOK, SchemasOK, PagingOK, AnswersOK, [Next]_vars PROVE AnswersOK'
<1> USE DEF AnswersOK, ListingsFindTheirIndexes
<1>1. CASE ProvisioningStep /\ UNCHANGED <<seeding, paged>>
  <2>1. UNCHANGED <<listing, paging, answer, older>>
    BY <1>1 DEF paged, ProvisioningStep, wait_for_dynamodb, create_table, table_exists, CallFails,
                BecomesActive
  <2> QED
    BY <1>1, <2>1, ProvidedStays
<1>2. CASE SeedingStep /\ UNCHANGED paged
  <2>1. UNCHANGED provisioning
    BY <1>2 DEF SeedingStep, seed_category_attribute_schemas, PreflightVersion, PreflightActive,
                CreateLooks, CreatePuts, SeedingFails
  <2> QED
    BY <1>2, <2>1 DEF provisioning, paged, Provided
<1>3. CASE Serve
  <2>1. /\ paging' = "yes" /\ older' = older /\ (older = {} \/ listing'.table \in older)
        /\ \A d \in Deployers : deployer'[d].pc = "exited"
    BY <1>3 DEF Serve
  <2> QED
    BY <2>1 DEF Provided
<1>4. CASE ListingStep
  <2>1. UNCHANGED <<provisioning, listing>> /\ paging = "yes"
    BY <1>4, ListingStepServes DEF served, ListingStep, _query_products, PresentForeignCursor, Create,
       Move, Rename, Delete, Replicate, Writes
  <2>2. ASSUME NEW error, NEW from, NEW argument, Ends(error, from, argument),
               <<from, argument>> = <<listing, "this">> => error = Outcome(cursor) /\ error # "page"
        PROVE  ListingsFindTheirIndexes'
    <3>1. answer'.from = from /\ answer'.argument = argument
      BY <2>2 DEF Ends
    <3>2. older' = older /\ listing' = listing
      BY <2>1 DEF provisioning
    <3> QED
      BY <2>1, <2>2, <3>1, <3>2, IndexesAreThere
  <2>3. paging' = "refused" => ListingsFindTheirIndexes'
    <3>1. CASE _query_products
      <4>1. Outcome(cursor) # "page" => Ends(Outcome(cursor), listing, "this")
        BY <3>1 DEF _query_products
      <4>2. Outcome(cursor) = "page" => paging' # "refused"
        BY <2>1, <3>1 DEF _query_products
      <4> QED
        BY <2>2, <4>1, <4>2
    <3>2. CASE PresentForeignCursor
      <4>1. PICK l \in AccessPatterns, argument \in {"this", "other"} :
              /\ <<l, argument>> # <<listing, "this">>
              /\ Ends(Outcome(Encode(l, argument, Key(l, argument, 1, 1, TRUE))), l, argument)
        BY <3>2 DEF PresentForeignCursor, Arguments
      <4> QED
        BY <2>2, <4>1
    <3>3. CASE paging' = paging
      BY <2>1, <3>3
    <3> QED
      BY <1>4, <3>1, <3>2, <3>3 DEF ListingStep, Create, Move, Rename, Delete, Replicate, Writes
  <2> QED
    BY <2>1, <2>3 DEF provisioning, Provided
<1>5. CASE UNCHANGED vars
  BY <1>5 DEF vars, Provided
<1> QED
  BY <1>1, <1>2, <1>3, <1>4, <1>5 DEF Next

THEOREM Answers == Spec => []AnswersOK
<1>1. Init => AnswersOK
  BY DEF Init, InitListings, AnswersOK, ListingsFindTheirIndexes
<1> QED
  BY <1>1, AnswersKeep, Deployment, Paging, PTL DEF Spec

\* After the scripts have returned every listing finds its index, and follows
\* its own cursor, unless its table was there before or it lists the scores.
THEOREM ListingsAreUsable == Spec => []ListingsFindTheirIndexes
BY Answers, PTL DEF AnswersOK

(* --------------------------- foreign cursors ---------------------------- *)

\* A cursor is decoded by listings of its own scheme only, and, if it names the
\* argument of its listing, with that argument only.
LEMMA CursorsOfOtherSchemes ==
    ASSUME NEW l \in AccessPatterns, NEW m \in AccessPatterns, NEW argument, NEW key, NEW c,
           key.wire, InItsScheme(l, argument, key, c), Decodes(m, "this", c)
    PROVE  /\ m.scheme = l.scheme /\ l.scheme # "score"
           /\ l.scheme = "search" => m.name = l.name
           /\ l.scheme # "product" => argument = "this"
           /\ l.scheme = "product" => c.key = key
<1>1. /\ l.scheme \in {"product", "search", "source", "jobs_by_product", "jobs_by_source", "review",
                       "score", "workflow"}
      /\ m.scheme \in {"product", "search", "source", "jobs_by_product", "jobs_by_source", "review",
                       "score", "workflow"}
  BY SchemesOfListings
<1>2. /\ m.scheme = "product" => c.members = {}
      /\ m.scheme = "search" =>
           /\ c.members = {"version", "scope", "accessPattern", "filterFingerprint", "key"}
           /\ c.scope = m.name /\ c.argument = "this"
      /\ m.scheme = "source" =>
           /\ c.members = {"scope", "productId", "key"}
           /\ c.scope = "product_sources" /\ c.argument = "this"
      /\ m.scheme \in {"jobs_by_product", "jobs_by_source"} =>
           /\ c.members = {"scope", "identity", "key"}
           /\ c.scope = m.scheme /\ c.argument = "this"
      /\ m.scheme = "review" =>
           /\ c.members = {"scope", "reviewId", "key"}
           /\ c.scope = "review_decisions" /\ c.argument = "this"
      /\ m.scheme = "score" => c.members = {"p", "k"} /\ c.key.wire
      /\ m.scheme = "workflow" =>
           /\ c.members = {"scope", "productId", "key"}
           /\ c.scope = "catalog_workflows" /\ c.argument = "this"
  BY DEF Decodes, decode_product_cursor, decode_catalog_search_cursor,
     decode_product_source_cursor, decode_processing_job_cursor, decode_review_decision_cursor,
     decode_score_cursor, decode_workflow_cursor
<1>3. ASSUME l.scheme = "product"
      PROVE  m.scheme = "product" /\ c.key = key
  <2>1. c.members = {} /\ c.key = key
    <3>1. \A scope, names : /\ Envelope({}, scope, names, key).members = {}
                            /\ Envelope({}, scope, names, key).key = key
      BY DEF Envelope
    <3>2. c = encode_product_cursor(key)
      BY <1>3 DEF InItsScheme
    <3> QED
      BY <3>1, <3>2, Zenon DEF encode_product_cursor
  <2> QED
    BY <1>1, <1>2, <1>3, <2>1
<1>4. ASSUME l.scheme = "search"
      PROVE  m.scheme = "search" /\ m.name = l.name /\ argument = "this"
  <2>1. /\ c.members = {"version", "scope", "accessPattern", "filterFingerprint", "key"}
        /\ c.scope = l.name /\ c.argument = argument
    BY <1>4 DEF InItsScheme, Envelope, encode_catalog_search_cursor
  <2> QED
    BY <1>1, <1>2, <1>4, <2>1
<1>5. ASSUME l.scheme = "source"
      PROVE  m.scheme = "source" /\ argument = "this"
  <2>1. /\ c.members = {"scope", "productId", "key"}
        /\ c.scope = "product_sources" /\ c.argument = argument
    BY <1>5 DEF InItsScheme, Envelope, encode_product_source_cursor
  <2> QED
    BY <1>1, <1>2, <1>5, <2>1
<1>6. ASSUME l.scheme \in {"jobs_by_product", "jobs_by_source"}
      PROVE  m.scheme = l.scheme /\ argument = "this"
  <2>1. /\ c.members = {"scope", "identity", "key"}
        /\ c.scope = l.scheme /\ c.argument = argument
    BY <1>6 DEF InItsScheme, Envelope, encode_processing_job_cursor
  <2> QED
    BY <1>1, <1>2, <1>6, <2>1
<1>7. ASSUME l.scheme = "review"
      PROVE  m.scheme = "review" /\ argument = "this"
  <2>1. /\ c.members = {"scope", "reviewId", "key"}
        /\ c.scope = "review_decisions" /\ c.argument = argument
    BY <1>7 DEF InItsScheme, Envelope, encode_review_decision_cursor
  <2> QED
    BY <1>1, <1>2, <1>7, <2>1
<1>8. ASSUME l.scheme = "workflow"
      PROVE  m.scheme = "workflow" /\ argument = "this"
  <2>1. /\ c.members = {"scope", "productId", "key"}
        /\ c.scope = "catalog_workflows" /\ c.argument = argument
    BY <1>8 DEF InItsScheme, Envelope, encode_workflow_cursor
  <2> QED
    BY <1>1, <1>2, <1>8, <2>1
<1>9. l.scheme # "score"
  <2> SUFFICES ASSUME l.scheme = "score" PROVE FALSE
    OBVIOUS
  <2>1. c.members = {"p", "k"} /\ c.key = [key EXCEPT !.wire = FALSE]
    <3> DEFINE k == [key EXCEPT !.wire = FALSE]
    <3>1. \A scope : /\ Envelope({"p", "k"}, scope, argument, k).members = {"p", "k"}
                     /\ Envelope({"p", "k"}, scope, argument, k).key = k
      BY DEF Envelope
    <3>2. c = encode_score_cursor(key, argument)
      BY DEF InItsScheme
    <3> QED
      BY <3>1, <3>2, Zenon DEF encode_score_cursor
  <2> QED
    BY <1>1, <1>2, <2>1
<1> QED
  BY <1>1, <1>3, <1>4, <1>5, <1>6, <1>7, <1>8, <1>9

\* The codes of refused cursors that a handler of their family answers, and
\* the family of each.
FamilyOf(code, family) ==
    \/ code = "InvalidProductReviewCursorError" /\ family = "ProductReviewError"
    \/ code = "InvalidCatalogSearchCursorError" /\ family = "CatalogSearchError"
    \/ code = "InvalidProductIntelligenceCursorError" /\ family = "ProductIntelligenceReadError"
    \/ code = "InvalidCatalogWorkflowCursorError" /\ family = "CatalogWorkflowError"
FamilyCodes == {"InvalidProductReviewCursorError", "InvalidCatalogSearchCursorError",
                "InvalidProductIntelligenceCursorError", "InvalidCatalogWorkflowCursorError"}

LEMMA OneParent ==
    ASSUME NEW d \in Hierarchy, d.class \in FamilyCodes
    PROVE  FamilyOf(d.class, d.parent)
<1> DEFINE Elsewhere(errors) == \A x \in errors : x.class \notin FamilyCodes
<1> USE DEF FamilyCodes, Coded, Plain, Class
<1>1. Elsewhere(product_errors)
  BY DEF product_errors
<1>2. Elsewhere(product_source_errors)
  BY DEF product_source_errors
<1>3. Elsewhere(processing_job_errors)
  BY DEF processing_job_errors
<1>4. Elsewhere(pdf_text_extraction_errors)
  BY DEF pdf_text_extraction_errors
<1>5. Elsewhere(pdf_table_extraction_errors)
  BY DEF pdf_table_extraction_errors
<1>6. Elsewhere(csv_processing_errors)
  BY DEF csv_processing_errors
<1>7. Elsewhere(image_analysis_errors)
  BY DEF image_analysis_errors
<1>8. Elsewhere(image_ocr_errors)
  BY DEF image_ocr_errors
<1>9. Elsewhere(object_storage_errors)
  BY DEF object_storage_errors
<1>10. Elsewhere(product_classification_errors)
  BY DEF product_classification_errors
<1>11. Elsewhere(category_schema_errors)
  BY DEF category_schema_errors
<1>12. Elsewhere(attribute_extraction_errors)
  BY DEF attribute_extraction_errors
<1>13. Elsewhere(attribute_normalization_errors)
  BY DEF attribute_normalization_errors
<1>14. Elsewhere(attribute_conflict_errors)
  BY DEF attribute_conflict_errors
<1>15. Elsewhere(attribute_completeness_errors)
  BY DEF attribute_completeness_errors
<1>16. Elsewhere(attribute_validation_errors)
  BY DEF attribute_validation_errors
<1>17. Elsewhere(attribute_selection_errors)
  BY DEF attribute_selection_errors
<1>18. ASSUME d \in product_review_errors PROVE FamilyOf(d.class, d.parent)
  BY <1>18 DEF product_review_errors, FamilyOf
<1>19. Elsewhere(reviewed_attribute_errors)
  BY DEF reviewed_attribute_errors
<1>20. Elsewhere(catalog_projection_errors)
  BY DEF catalog_projection_errors
<1>21. Elsewhere(publishing_readiness_errors)
  BY DEF publishing_readiness_errors
<1>22. Elsewhere(catalog_export_errors)
  BY DEF catalog_export_errors
<1>23. Elsewhere(catalog_enrichment_errors)
  BY DEF catalog_enrichment_errors
<1>24. Elsewhere(product_intelligence_errors)
  BY DEF product_intelligence_errors
<1>25. ASSUME d \in catalog_search_errors PROVE FamilyOf(d.class, d.parent)
  BY <1>25 DEF catalog_search_errors, FamilyOf
<1>26. ASSUME d \in catalog_workflow_errors PROVE FamilyOf(d.class, d.parent)
  BY <1>26 DEF catalog_workflow_errors, FamilyOf
<1>27. Elsewhere(unilog_challenge_errors)
  BY DEF unilog_challenge_errors
<1>28. Elsewhere(builtin_errors)
  BY DEF builtin_errors
<1> QED
  BY <1>1, <1>2, <1>3, <1>4, <1>5, <1>6, <1>7, <1>8, <1>9, <1>10, <1>11, <1>12, <1>13, <1>14,
     <1>15, <1>16, <1>17, <1>18, <1>19, <1>20, <1>21, <1>22, <1>23, <1>24, <1>25, <1>26,
     <1>27, <1>28 DEF Hierarchy

\* The most specific class is the class itself or, failing that, its parent.
LEMMA MostSpecificIs ==
    ASSUME NEW c \in DOMAIN MRO, NEW S
    PROVE  /\ c \in S => MostSpecific(c, S) = c
           /\ c \notin S /\ Parent[c] \in S => MostSpecific(c, S) = Parent[c]
<1>1. MRO[c][1] = c /\ MRO[c][2] = Parent[c]
  BY DEF MRO
<1> DEFINE decides(i) == MRO[c][i] \in S /\ \A j \in 1 .. (i - 1) : MRO[c][j] \notin S
<1>2. ASSUME c \in S PROVE (CHOOSE i \in 1 .. 5 : decides(i)) = 1
  <2>1. decides(1) /\ \A i \in 1 .. 5 : decides(i) => i = 1
    BY <1>1, <1>2
  <2> QED
    BY <2>1
<1>3. ASSUME c \notin S, Parent[c] \in S PROVE (CHOOSE i \in 1 .. 5 : decides(i)) = 2
  <2>1. decides(2) /\ \A i \in 1 .. 5 : decides(i) => i = 2
    BY <1>1, <1>3
  <2> QED
    BY <2>1
<1> QED
  BY <1>1, <1>2, <1>3 DEF MostSpecific

LEMMA KnownClasses ==
    /\ DOMAIN MRO = {d.class : d \in Hierarchy} \cup {"Exception"}
    /\ {"InvalidProductCursorError", "InvalidProductSourceCursorError",
        "InvalidProcessingJobCursorError", "ProductRepositoryError"} \subseteq DOMAIN MRO
    /\ FamilyCodes \subseteq DOMAIN MRO
    /\ \A c \in FamilyCodes : FamilyOf(c, Parent[c])
<1>1. DOMAIN MRO = {d.class : d \in Hierarchy} \cup {"Exception"} /\ DOMAIN Parent = DOMAIN MRO
  BY DEF MRO, Parent
<1>2. \A name, parent, coded : Class(name, parent, coded).class = name
  BY DEF Class
<1>3. Class("InvalidProductCursorError", "ProductRepositoryError", FALSE)
         \in product_errors
  BY DEF product_errors, Plain
<1>4. Class("ProductRepositoryError", "Exception", FALSE)
         \in product_errors
  BY DEF product_errors, Plain
<1>5. Class("InvalidProductSourceCursorError", "ProductSourceRepositoryError", FALSE)
         \in product_source_errors
  BY DEF product_source_errors, Plain
<1>6. Class("InvalidProcessingJobCursorError", "ProcessingJobRepositoryError", FALSE)
         \in processing_job_errors
  BY DEF processing_job_errors, Plain
<1>7. Class("InvalidProductReviewCursorError", "ProductReviewError", TRUE)
         \in product_review_errors
  BY DEF product_review_errors, Coded
<1>8. Class("InvalidCatalogSearchCursorError", "CatalogSearchError", TRUE)
         \in catalog_search_errors
  BY DEF catalog_search_errors, Coded
<1>9. Class("InvalidProductIntelligenceCursorError", "ProductIntelligenceReadError", TRUE)
         \in catalog_search_errors
  BY DEF catalog_search_errors, Coded
<1>10. Class("InvalidCatalogWorkflowCursorError", "CatalogWorkflowError", TRUE)
         \in catalog_workflow_errors
  BY DEF catalog_workflow_errors, Coded
<1>11. /\ product_errors \subseteq Hierarchy /\ product_source_errors \subseteq Hierarchy
       /\ processing_job_errors \subseteq Hierarchy /\ product_review_errors \subseteq Hierarchy
       /\ catalog_search_errors \subseteq Hierarchy /\ catalog_workflow_errors \subseteq Hierarchy
  BY DEF Hierarchy
<1>12. {"InvalidProductCursorError", "InvalidProductSourceCursorError",
        "InvalidProcessingJobCursorError", "ProductRepositoryError"} \subseteq DOMAIN MRO
  BY <1>1, <1>2, <1>3, <1>4, <1>5, <1>6, <1>11
<1>13. \A c \in FamilyCodes : \E d \in Hierarchy : d.class = c
  BY <1>2, <1>7, <1>8, <1>9, <1>10, <1>11 DEF FamilyCodes
<1>14. ASSUME NEW c \in FamilyCodes PROVE FamilyOf(c, Parent[c])
  <2>1. c # "Exception" /\ c \in DOMAIN Parent
    BY <1>1, <1>13 DEF FamilyCodes
  <2>2. Parent[c] = (CHOOSE d \in Hierarchy : d.class = c).parent
    BY <2>1 DEF Parent
  <2>3. PICK d \in Hierarchy : d = (CHOOSE x \in Hierarchy : x.class = c) /\ d.class = c
    BY <1>13
  <2> QED
    BY <2>2, <2>3, OneParent
<1> QED
  BY <1>1, <1>12, <1>13, <1>14

\* The status of a class in a set of statuses that gives it one.
LEMMA StatusIs ==
    ASSUME NEW statuses, NEW c, NEW status,
           \E s \in statuses : s.class = c,
           \A s \in statuses : s.class = c => s.status = status
    PROVE  c \in ClassesOf(statuses) /\ StatusIn(statuses, c) = status
BY DEF StatusIn, ClassesOf

LEMMA HandledClasses ==
    /\ \A s \in handlers :
          /\ s.class \in {"InvalidProductCursorError", "InvalidProductSourceCursorError",
                          "InvalidProcessingJobCursorError"} => s.status = 400
          /\ s.class = "ProductRepositoryError" => s.status = 503
          /\ s.class \notin FamilyCodes
    /\ {"InvalidProductCursorError", "InvalidProductSourceCursorError",
        "InvalidProcessingJobCursorError", "ProductRepositoryError"} \subseteq ClassesOf(handlers)
    /\ \A s \in status_code : s.class \in FamilyCodes => s.status = 400
    /\ FamilyCodes \subseteq ClassesOf(status_code)
    /\ FamilyCodes \cap status_code_handlers = {}
    /\ \A c, family : FamilyOf(c, family) => family \in status_code_handlers
<1> USE DEF Statuses, FamilyCodes
<1>1. \A s \in product_handlers \cup product_source_handlers \cup upload_handlers :
          /\ s.class \in {"InvalidProductCursorError", "InvalidProductSourceCursorError",
                          "InvalidProcessingJobCursorError"} => s.status = 400
          /\ s.class = "ProductRepositoryError" => s.status = 503
          /\ s.class \notin FamilyCodes
  BY DEF product_handlers, product_source_handlers, upload_handlers
<1>2. \A s \in processing_job_handlers \cup unexpected_error_handler :
          /\ s.class \in {"InvalidProductCursorError", "InvalidProductSourceCursorError",
                          "InvalidProcessingJobCursorError"} => s.status = 400
          /\ s.class = "ProductRepositoryError" => s.status = 503
          /\ s.class \notin FamilyCodes
  BY DEF processing_job_handlers, unexpected_error_handler
<1>3. /\ [class |-> "InvalidProductCursorError", status |-> 400] \in product_handlers
      /\ [class |-> "ProductRepositoryError", status |-> 503] \in product_handlers
      /\ [class |-> "InvalidProductSourceCursorError", status |-> 400] \in product_source_handlers
      /\ [class |-> "InvalidProcessingJobCursorError", status |-> 400] \in processing_job_handlers
  BY DEF product_handlers, product_source_handlers, processing_job_handlers
<1>4. {"InvalidProductCursorError", "InvalidProductSourceCursorError",
       "InvalidProcessingJobCursorError", "ProductRepositoryError"} \subseteq ClassesOf(handlers)
  BY <1>3 DEF handlers, ClassesOf
<1>5. \A s \in status_code : s.class \in FamilyCodes => s.status = 400
  BY DEF status_code
<1>6. \A c \in FamilyCodes : [class |-> c, status |-> 400] \in status_code
  BY DEF status_code
<1>7. FamilyCodes \subseteq ClassesOf(status_code)
  BY <1>6 DEF ClassesOf
<1>8. /\ FamilyCodes \cap status_code_handlers = {}
      /\ \A c, family : FamilyOf(c, family) => family \in status_code_handlers
  BY DEF status_code_handlers, FamilyOf
<1> QED
  BY <1>1, <1>2, <1>4, <1>5, <1>7, <1>8 DEF handlers

\* A listing answers a cursor it does not decode with 400; the product listing
\* answers a failed query with 503.
LEMMA AnswersToCursors ==
    /\ \A l \in AccessPatterns : Answer(InvalidCursor(l)) = 400 /\ InvalidCursor(l) # "page"
    /\ Answer(StorageError(list_by_status)) = 503 /\ StorageError(list_by_status) # "page"
<1>1. ASSUME NEW c \in {"InvalidProductCursorError", "InvalidProductSourceCursorError",
                        "InvalidProcessingJobCursorError", "ProductRepositoryError"}
      PROVE  Answer(c) = IF c = "ProductRepositoryError" THEN 503 ELSE 400
  <2>1. c \in DOMAIN MRO /\ c \in ClassesOf(handlers) /\ c \notin status_code_handlers
    BY KnownClasses, HandledClasses DEF status_code_handlers
  <2>2. MostSpecific(c, ClassesOf(handlers) \cup status_code_handlers) = c
    BY <2>1, MostSpecificIs
  <2>3. PICK status : status = IF c = "ProductRepositoryError" THEN 503 ELSE 400
    OBVIOUS
  <2>4. (\E s \in handlers : s.class = c) /\ \A s \in handlers : s.class = c => s.status = status
    BY <2>1, <2>3, HandledClasses DEF ClassesOf
  <2>5. StatusIn(handlers, c) = status
    BY <2>4, StatusIs
  <2> QED
    BY <2>1, <2>2, <2>3, <2>5 DEF Answer
<1>2. ASSUME NEW c \in FamilyCodes PROVE Answer(c) = 400
  <2>1. c \in DOMAIN MRO /\ Parent[c] \in status_code_handlers /\ c \in ClassesOf(status_code)
    BY KnownClasses, HandledClasses
  <2>2. c \notin ClassesOf(handlers) \cup status_code_handlers
    BY HandledClasses DEF ClassesOf
  <2>3. MostSpecific(c, ClassesOf(handlers) \cup status_code_handlers) = Parent[c]
    BY <2>1, <2>2, MostSpecificIs
  <2>4. MostSpecific(c, ClassesOf(status_code)) = c
    BY <2>1, MostSpecificIs
  <2>5. PICK statuses, status : statuses = status_code /\ status = 400
    OBVIOUS
  <2>6. (\E s \in statuses : s.class = c) /\ \A s \in statuses : s.class = c => s.status = status
    BY <2>1, <2>5, HandledClasses DEF ClassesOf
  <2>7. StatusIn(statuses, c) = status
    BY <2>6, StatusIs
  <2> QED
    BY <2>1, <2>3, <2>4, <2>5, <2>7 DEF Answer
<1>3. \A l \in AccessPatterns :
        /\ InvalidCursor(l) \in {"InvalidProductCursorError", "InvalidProductSourceCursorError",
                                 "InvalidProcessingJobCursorError"} \cup FamilyCodes
        /\ InvalidCursor(l) # "page"
  BY DEF InvalidCursor, FamilyCodes
<1>4. StorageError(list_by_status) = "ProductRepositoryError"
  BY Schemes DEF StorageError
<1>5. ASSUME NEW l \in AccessPatterns PROVE Answer(InvalidCursor(l)) = 400
  <2>1. PICK c : c = InvalidCursor(l)
    OBVIOUS
  <2>2. Answer(c) = 400
    BY <1>1, <1>2, <1>3, <2>1
  <2> QED
    BY <2>1, <2>2
<1>6. Answer("ProductRepositoryError") = 503
  BY <1>1
<1> QED
  BY <1>3, <1>4, <1>5, <1>6

\* Only the product listing decodes a cursor it has not issued, its own for
\* another status, which does not lie in the range that is queried.
Issued(l, argument, c) == c = Encode(l, argument, Key(l, argument, 1, 1, TRUE))

LEMMA ForeignCursors ==
    ASSUME NEW l \in AccessPatterns, NEW m \in AccessPatterns, NEW argument \in Arguments(l),
           l # m \/ argument # "this", NEW c, Issued(l, argument, c), Decodes(m, "this", c)
    PROVE  l = m /\ m = list_by_status /\ ~ StartKeyFits(m, c.key)
<1>0. PICK key : key = Key(l, argument, 1, 1, TRUE)
  OBVIOUS
<1>1. key.wire /\ key.partition = argument
  BY <1>0 DEF Key
<1>2. InItsScheme(l, argument, key, c)
  BY <1>0, CursorsOfAScheme DEF Issued
<1>3. l.cursor_keys # {} => key.attributes = l.cursor_keys
  <2>1. CASE l = scores_by_product
    BY <2>1 DEF scores_by_product, AccessPattern
  <2> QED
    BY <1>0, <2>1, ListingsAreIndexed
<1>4. /\ m.scheme = l.scheme /\ l.scheme # "score"
      /\ l.scheme = "search" => m.name = l.name
      /\ l.scheme # "product" => argument = "this"
      /\ l.scheme = "product" => c.key = key
  BY <1>1, <1>2, CursorsOfOtherSchemes
<1>5. l.scheme = "search" => l = m
  BY <1>4, Schemes DEF AccessPatterns
<1>6. l.scheme # "product" => l = m
  BY <1>4, <1>5, SchemesOfListings
<1>7. l.scheme = "product"
  BY <1>4, <1>6
<1>8. l \in {list_products, list_by_status} /\ m \in {list_products, list_by_status}
  BY <1>4, <1>7, SchemesOfListings
<1>9. /\ list_products.cursor_keys = {"productId", "entityType", "createdAt"}
      /\ list_by_status.cursor_keys = {"productId", "status", "createdAt"}
  BY DEF list_products, list_by_status, ProductListing, AccessPattern
<1>10. m.cursor_keys # {} => c.key.attributes = m.cursor_keys
  BY DEF Decodes
<1>11. l.cursor_keys = m.cursor_keys
  BY <1>3, <1>4, <1>7, <1>8, <1>9, <1>10
<1>12. l = m
  BY <1>8, <1>9, <1>11
<1>13. l # list_products /\ argument # "this"
  BY <1>12, Schemes DEF Arguments
<1> QED
  BY <1>1, <1>4, <1>7, <1>8, <1>12, <1>13 DEF StartKeyFits

LEMMA CursorsStayKeeps ==
    ASSUME PagingOK, CursorsStayInTheirListing, [Next]_vars PROVE CursorsStayInTheirListing'
<1>1. CASE UNCHANGED <<listing, paging, answer>> \/ paging' # "refused"
  BY <1>1 DEF CursorsStayInTheirListing
<1>2. CASE _query_products
  <2>1. CASE Ends(Outcome(cursor), listing, "this")
    BY <2>1 DEF CursorsStayInTheirListing, Ends, served
  <2> QED
    BY <1>1, <1>2, <2>1 DEF _query_products, served
<1>3. CASE PresentForeignCursor
  <2>1. PICK l \in AccessPatterns : \E a \in Arguments(l) :
          /\ <<l, a>> # <<listing, "this">>
          /\ Ends(Outcome(Encode(l, a, Key(l, a, 1, 1, TRUE))), l, a)
    BY <1>3 DEF PresentForeignCursor
  <2>2. PICK argument \in Arguments(l) :
          /\ <<l, argument>> # <<listing, "this">>
          /\ Ends(Outcome(Encode(l, argument, Key(l, argument, 1, 1, TRUE))), l, argument)
    BY <2>1
  <2>3. PICK m, c : m = listing /\ c = Encode(l, argument, Key(l, argument, 1, 1, TRUE))
    OBVIOUS
  <2>4. /\ m \in AccessPatterns /\ listing' = m
        /\ answer' = [error |-> Outcome(c), from |-> l, argument |-> argument]
    BY <1>3, <2>2, <2>3 DEF PagingOK, PresentForeignCursor, Ends, served
  <2>5. c # NoCursor
    <3>1. KeepsTheKey(Encode(l, argument, Key(l, argument, 1, 1, TRUE)), 1, 1)
      BY CursorsKeepTheKey
    <3> QED
      BY <2>3, <3>1 DEF KeepsTheKey
  <2>6. CASE ~ Decodes(m, "this", c)
    <3>1. Outcome(c) = InvalidCursor(m)
      BY <2>3, <2>5, <2>6 DEF Outcome
    <3> QED
      BY <2>4, <3>1, AnswersToCursors DEF CursorsStayInTheirListing
  <2>7. CASE Decodes(m, "this", c)
    <3>1. l = m /\ m = list_by_status /\ ~ StartKeyFits(m, c.key)
      <4>1. Issued(l, argument, c) /\ (l # m \/ argument # "this")
        BY <2>2, <2>3 DEF Issued
      <4> QED
        BY <2>4, <2>7, <4>1, ForeignCursors
    <3>2. Outcome(c) = StorageError(list_by_status)
      BY <2>3, <2>5, <2>7, <3>1 DEF Outcome
    <3> QED
      BY <2>4, <3>1, <3>2, AnswersToCursors DEF CursorsStayInTheirListing
  <2> QED
    BY <2>6, <2>7
<1>4. CASE Serve
  BY <1>1, <1>4 DEF Serve
<1>5. CASE UNCHANGED vars
  BY <1>1, <1>5 DEF vars
<1>6. CASE UNCHANGED paged
  BY <1>1, <1>6 DEF paged
<1>7. ASSUME NEW i \in Items, Create(i) \/ Move(i) \/ Rename(i) \/ Delete(i) \/ Replicate(i)
      PROVE  CursorsStayInTheirListing'
  BY <1>1, <1>7 DEF Create, Move, Rename, Delete, Replicate, Writes, served
<1> QED
  BY <1>2, <1>3, <1>4, <1>5, <1>6, <1>7 DEF Next, ListingStep

\* A cursor of another listing or argument is never followed: it is answered
\* with 400, or with 503 where the product listing is given one of its own for
\* another status.
THEOREM ForeignCursorsAreRefused == Spec => []CursorsStayInTheirListing
<1>1. Init => CursorsStayInTheirListing
  BY DEF Init, InitListings, CursorsStayInTheirListing
<1> QED
  BY <1>1, CursorsStayKeeps, Paging, PTL DEF Spec
=========================
