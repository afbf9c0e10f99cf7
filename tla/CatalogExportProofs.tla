-------------------------- MODULE CatalogExportProofs --------------------------
(***************************************************************************)
(* Proofs about StoredResults and CatalogExport, for any number of results *)
(* of one job or lineage, any page size and any number of failing writes,  *)
(* and for each of the seventeen repositories.  First the repositories     *)
(* themselves: the counts that a reader compares are enough to tell a      *)
(* whole result from a part of one.  Then the invariant: a writer has      *)
(* stored the records before its next one, a reader of a completed result  *)
(* has seen the records up to its last key, and an export that has raised  *)
(* deletes the objects it saved.                                           *)
(***************************************************************************)
EXTENDS CatalogExport, FiniteSetTheorems, TLAPS

(* ---------------------------- the repositories -------------------------- *)

KindSet == {Kinds[i] : i \in 1..Len(Kinds)}
RecordKey == [kind : KindSet, n : 0..9]

\* A plan of records that starts with META, repeats none, and whose other
\* records are of kinds that are counted.
Counted(plan, counts) ==
  /\ plan \in Seq(RecordKey) /\ Len(plan) >= 2 /\ plan[1] = META
  /\ \A i, j \in 1..Len(plan): plan[i] = plan[j] => i = j
  /\ \A i \in 2..Len(plan): plan[i].kind \in counts

\* There are nineteen kinds.
LEMMA KindsFact == Len(Kinds) = 19
BY DEF Kinds

\* META sorts among the records.
LEMMA MetaKey == META \in RecordKey
<1>1. Kinds[12] = "META" /\ 12 \in 1..19
  BY DEF Kinds
<1> QED
  BY <1>1, KindsFact DEF META, Key, RecordKey, KindSet

\* Records of counted kinds after META, none of them twice.
LEMMA AfterMeta ==
    ASSUME NEW children \in Seq(RecordKey), Len(children) >= 1, NEW counts,
           \A i, j \in 1..Len(children): children[i] = children[j] => i = j,
           \A i \in 1..Len(children): children[i].kind \in counts, "META" \notin counts
    PROVE  Counted(<<META>> \o children, counts)
<1> DEFINE plan == <<META>> \o children
<1>1. /\ plan \in Seq(RecordKey) /\ Len(plan) = Len(children) + 1 /\ plan[1] = META
      /\ \A i \in 2..Len(plan): plan[i] = children[i - 1]
  BY MetaKey
<1>2. META.kind = "META"
  BY DEF META, Key
<1> HIDE DEF plan
<1>3. \A i \in 2..Len(plan): i - 1 \in 1..Len(children)
  BY <1>1
<1>4. \A i \in 2..Len(plan): plan[i] # META
  BY <1>1, <1>2, <1>3
<1>5. \A i, j \in 1..Len(plan): plan[i] = plan[j] => i = j
  <2> TAKE i, j \in 1..Len(plan)
  <2> CASE i = 1 /\ j = 1
    OBVIOUS
  <2> CASE i = 1 /\ j # 1
    BY <1>1, <1>4
  <2> CASE i # 1 /\ j = 1
    BY <1>1, <1>4
  <2> CASE i # 1 /\ j # 1
    BY <1>1, <1>3
  <2> QED
    OBVIOUS
<1>6. \A i \in 2..Len(plan): plan[i].kind \in counts
  BY <1>1, <1>3
<1> QED
  BY <1>1, <1>5, <1>6 DEF Counted, plan

\* Two records of a kind after META.
LEMMA PairCounted ==
    ASSUME NEW kind \in KindSet \ {"META"}
    PROVE  Counted(<<META>> \o Pair(kind), {kind})
<1>1. Key(kind, 1) \in RecordKey /\ Key(kind, 2) \in RecordKey
  BY DEF Key, RecordKey
<1>2. Key(kind, 1) # Key(kind, 2) /\ Key(kind, 1).kind = kind /\ Key(kind, 2).kind = kind
  BY DEF Key
<1>3. /\ Pair(kind) \in Seq(RecordKey) /\ Len(Pair(kind)) = 2
      /\ Pair(kind)[1] = Key(kind, 1) /\ Pair(kind)[2] = Key(kind, 2)
  BY <1>1 DEF Pair
<1>4. /\ \A i, j \in 1..Len(Pair(kind)): Pair(kind)[i] = Pair(kind)[j] => i = j
      /\ \A i \in 1..Len(Pair(kind)): Pair(kind)[i].kind \in {kind}
  BY <1>2, <1>3
<1>5. "META" \notin {kind} /\ Len(Pair(kind)) >= 1
  BY <1>3
<1> HIDE DEF Pair
<1> QED
  BY <1>3, <1>4, <1>5, AfterMeta

\* The kinds of the child records.
LEMMA KindsOfChildren ==
  {"ARTIFACT", "ASSESSMENT", "ATTRIBUTE", "BLOCK", "BULLET", "CANDIDATE", "COMPONENT",
   "DESCRIPTION", "GROUP", "KEYWORD", "MATCH", "PAGE", "REGION", "ROW",
   "SUMMARY", "TABLE", "TECHNICAL_SUMMARY", "TITLE"}
    \subseteq KindSet \ {"META"}
<1>1. Kinds[1] = "ARTIFACT"
  BY DEF Kinds
<1>2. Kinds[2] = "ASSESSMENT"
  BY DEF Kinds
<1>3. Kinds[3] = "ATTRIBUTE"
  BY DEF Kinds
<1>4. Kinds[4] = "BLOCK"
  BY DEF Kinds
<1>5. Kinds[5] = "BULLET"
  BY DEF Kinds
<1>6. Kinds[6] = "CANDIDATE"
  BY DEF Kinds
<1>7. Kinds[7] = "COMPONENT"
  BY DEF Kinds
<1>8. Kinds[8] = "DESCRIPTION"
  BY DEF Kinds
<1>9. Kinds[9] = "GROUP"
  BY DEF Kinds
<1>10. Kinds[10] = "KEYWORD"
  BY DEF Kinds
<1>11. Kinds[11] = "MATCH"
  BY DEF Kinds
<1>13. Kinds[13] = "PAGE"
  BY DEF Kinds
<1>14. Kinds[14] = "REGION"
  BY DEF Kinds
<1>15. Kinds[15] = "ROW"
  BY DEF Kinds
<1>16. Kinds[16] = "SUMMARY"
  BY DEF Kinds
<1>17. Kinds[17] = "TABLE"
  BY DEF Kinds
<1>18. Kinds[18] = "TECHNICAL_SUMMARY"
  BY DEF Kinds
<1>19. Kinds[19] = "TITLE"
  BY DEF Kinds
<1> QED
  BY <1>1, <1>2, <1>3, <1>4, <1>5, <1>6, <1>7, <1>8, <1>9, <1>10, <1>11, <1>13, <1>14, <1>15,
     <1>16, <1>17, <1>18, <1>19, KindsFact DEF KindSet

\* Each attribute is followed by its group.
LEMMA AttributeConflictsCounted ==
    Counted(<<META>> \o attribute_conflicts_records, attribute_conflicts_counts)
<1>1. /\ attribute_conflicts_records \in Seq(RecordKey) /\ Len(attribute_conflicts_records) = 4
      /\ attribute_conflicts_records[1] = Key("ATTRIBUTE", 1)
      /\ attribute_conflicts_records[2] = Key("GROUP", 1)
      /\ attribute_conflicts_records[3] = Key("ATTRIBUTE", 2)
      /\ attribute_conflicts_records[4] = Key("GROUP", 2)
  BY KindsOfChildren DEF attribute_conflicts_records, Key, RecordKey
<1> HIDE DEF attribute_conflicts_records
<1>2. \A i, j \in 1..Len(attribute_conflicts_records):
        attribute_conflicts_records[i] = attribute_conflicts_records[j] => i = j
  BY <1>1 DEF Key
<1>3. \A i \in 1..Len(attribute_conflicts_records):
        attribute_conflicts_records[i].kind \in attribute_conflicts_counts
  BY <1>1 DEF Key, attribute_conflicts_counts
<1>4. "META" \notin attribute_conflicts_counts /\ Len(attribute_conflicts_records) >= 1
  BY <1>1 DEF attribute_conflicts_counts
<1> QED
  BY <1>1, <1>2, <1>3, <1>4, AfterMeta

\* The assessments come before the summaries.
LEMMA AttributeValidationCounted ==
    Counted(<<META>> \o attribute_validation_records, attribute_validation_counts)
<1>1. /\ attribute_validation_records \in Seq(RecordKey) /\ Len(attribute_validation_records) = 4
      /\ attribute_validation_records[1] = Key("ASSESSMENT", 1)
      /\ attribute_validation_records[2] = Key("ASSESSMENT", 2)
      /\ attribute_validation_records[3] = Key("SUMMARY", 1)
      /\ attribute_validation_records[4] = Key("SUMMARY", 2)
  BY KindsOfChildren DEF attribute_validation_records, Key, RecordKey, Pair
<1> HIDE DEF attribute_validation_records
<1>2. \A i, j \in 1..Len(attribute_validation_records):
        attribute_validation_records[i] = attribute_validation_records[j] => i = j
  BY <1>1 DEF Key
<1>3. \A i \in 1..Len(attribute_validation_records):
        attribute_validation_records[i].kind \in attribute_validation_counts
  BY <1>1 DEF Key, attribute_validation_counts
<1>4. "META" \notin attribute_validation_counts /\ Len(attribute_validation_records) >= 1
  BY <1>1 DEF attribute_validation_counts
<1> QED
  BY <1>1, <1>2, <1>3, <1>4, AfterMeta

\* Three texts, then the bullets and the keywords.
LEMMA CatalogEnrichmentCounted ==
    Counted(<<META>> \o catalog_enrichment_records, catalog_enrichment_counts)
<1>1. /\ catalog_enrichment_records \in Seq(RecordKey) /\ Len(catalog_enrichment_records) = 7
      /\ catalog_enrichment_records[1] = Key("TITLE", 1)
      /\ catalog_enrichment_records[2] = Key("DESCRIPTION", 1)
      /\ catalog_enrichment_records[3] = Key("TECHNICAL_SUMMARY", 1)
      /\ catalog_enrichment_records[4] = Key("BULLET", 1)
      /\ catalog_enrichment_records[5] = Key("BULLET", 2)
      /\ catalog_enrichment_records[6] = Key("KEYWORD", 1)
      /\ catalog_enrichment_records[7] = Key("KEYWORD", 2)
  BY KindsOfChildren DEF catalog_enrichment_records, Key, RecordKey, Pair
<1> HIDE DEF catalog_enrichment_records
<1>2. \A i, j \in 1..Len(catalog_enrichment_records):
        catalog_enrichment_records[i] = catalog_enrichment_records[j] => i = j
  BY <1>1 DEF Key
<1>3. \A i \in 1..Len(catalog_enrichment_records):
        catalog_enrichment_records[i].kind \in catalog_enrichment_counts
  BY <1>1 DEF Key, catalog_enrichment_counts
<1>4. "META" \notin catalog_enrichment_counts /\ Len(catalog_enrichment_records) >= 1
  BY <1>1 DEF catalog_enrichment_counts
<1> QED
  BY <1>1, <1>2, <1>3, <1>4, AfterMeta

\* The three artifacts.
LEMMA CatalogExportCounted ==
    Counted(<<META>> \o catalog_export_records, catalog_export_counts)
<1>1. /\ catalog_export_records \in Seq(RecordKey) /\ Len(catalog_export_records) = 3
      /\ catalog_export_records[1] = Key("ARTIFACT", 1)
      /\ catalog_export_records[2] = Key("ARTIFACT", 2)
      /\ catalog_export_records[3] = Key("ARTIFACT", 3)
  BY KindsOfChildren DEF catalog_export_records, Key, RecordKey
<1> HIDE DEF catalog_export_records
<1>2. \A i, j \in 1..Len(catalog_export_records):
        catalog_export_records[i] = catalog_export_records[j] => i = j
  BY <1>1 DEF Key
<1>3. \A i \in 1..Len(catalog_export_records):
        catalog_export_records[i].kind \in catalog_export_counts
  BY <1>1 DEF Key, catalog_export_counts
<1>4. "META" \notin catalog_export_counts /\ Len(catalog_export_records) >= 1
  BY <1>1 DEF catalog_export_counts
<1> QED
  BY <1>1, <1>2, <1>3, <1>4, AfterMeta

\* In every repository the kinds of a result's records are counted.
LEMMA RepositoryCounted ==
    ASSUME NEW r \in DOMAIN Repository
    PROVE  Counted(Repository[r].create.records, Repository[r].counts)
<1>1. CASE r = "pdf_extraction"
  <2>1. /\ Repository[r].create.records = <<META>> \o pdf_extraction_records
        /\ Repository[r].counts = pdf_extraction_counts
    BY <1>1 DEF Repository, Repo, pdf_extraction_create, Composite
  <2>2. Counted(<<META>> \o Pair("PAGE"), {"PAGE"})
    BY KindsOfChildren, PairCounted
  <2> QED
    BY <2>1, <2>2 DEF pdf_extraction_records, pdf_extraction_counts
<1>2. CASE r = "pdf_table_extraction"
  <2>1. /\ Repository[r].create.records = <<META>> \o pdf_table_extraction_records
        /\ Repository[r].counts = pdf_table_extraction_counts
    BY <1>2 DEF Repository, Repo, pdf_table_extraction_create, Composite
  <2>2. Counted(<<META>> \o Pair("TABLE"), {"TABLE"})
    BY KindsOfChildren, PairCounted
  <2> QED
    BY <2>1, <2>2 DEF pdf_table_extraction_records, pdf_table_extraction_counts
<1>3. CASE r = "csv_processing"
  <2>1. /\ Repository[r].create.records = <<META>> \o csv_processing_records
        /\ Repository[r].counts = csv_processing_counts
    BY <1>3 DEF Repository, Repo, csv_processing_create, Composite
  <2>2. Counted(<<META>> \o Pair("ROW"), {"ROW"})
    BY KindsOfChildren, PairCounted
  <2> QED
    BY <2>1, <2>2 DEF csv_processing_records, csv_processing_counts
<1>4. CASE r = "image_analysis"
  <2>1. /\ Repository[r].create.records = <<META>> \o image_analysis_records
        /\ Repository[r].counts = image_analysis_counts
    BY <1>4 DEF Repository, Repo, image_analysis_create, Composite
  <2>2. Counted(<<META>> \o Pair("REGION"), {"REGION"})
    BY KindsOfChildren, PairCounted
  <2> QED
    BY <2>1, <2>2 DEF image_analysis_records, image_analysis_counts
<1>5. CASE r = "image_ocr"
  <2>1. /\ Repository[r].create.records = <<META>> \o image_ocr_records
        /\ Repository[r].counts = image_ocr_counts
    BY <1>5 DEF Repository, Repo, image_ocr_create, Composite
  <2>2. Counted(<<META>> \o Pair("BLOCK"), {"BLOCK"})
    BY KindsOfChildren, PairCounted
  <2> QED
    BY <2>1, <2>2 DEF image_ocr_records, image_ocr_counts
<1>6. CASE r = "product_classification"
  <2>1. /\ Repository[r].create.records = <<META>> \o product_classification_records
        /\ Repository[r].counts = product_classification_counts
    BY <1>6 DEF Repository, Repo, product_classification_create, Composite
  <2>2. Counted(<<META>> \o Pair("MATCH"), {"MATCH"})
    BY KindsOfChildren, PairCounted
  <2> QED
    BY <2>1, <2>2 DEF product_classification_records, product_classification_counts
<1>7. CASE r = "structured_extraction"
  <2>1. /\ Repository[r].create.records = <<META>> \o structured_extraction_records
        /\ Repository[r].counts = structured_extraction_counts
    BY <1>7 DEF Repository, Repo, structured_extraction_create, Composite
  <2>2. Counted(<<META>> \o Pair("CANDIDATE"), {"CANDIDATE"})
    BY KindsOfChildren, PairCounted
  <2> QED
    BY <2>1, <2>2 DEF structured_extraction_records, structured_extraction_counts
<1>8. CASE r = "attribute_normalization"
  <2>1. /\ Repository[r].create.records = <<META>> \o attribute_normalization_records
        /\ Repository[r].counts = attribute_normalization_counts
    BY <1>8 DEF Repository, Repo, attribute_normalization_create, Composite
  <2>2. Counted(<<META>> \o Pair("CANDIDATE"), {"CANDIDATE"})
    BY KindsOfChildren, PairCounted
  <2> QED
    BY <2>1, <2>2 DEF attribute_normalization_records, attribute_normalization_counts
<1>9. CASE r = "attribute_conflicts"
  <2>1. /\ Repository[r].create.records = <<META>> \o attribute_conflicts_records
        /\ Repository[r].counts = attribute_conflicts_counts
    BY <1>9 DEF Repository, Repo, attribute_conflicts_create, Composite
  <2> QED
    BY <2>1, AttributeConflictsCounted
<1>10. CASE r = "attribute_completeness"
  <2>1. /\ Repository[r].create.records = <<META>> \o attribute_completeness_records
        /\ Repository[r].counts = attribute_completeness_counts
    BY <1>10 DEF Repository, Repo, attribute_completeness_create, Composite
  <2>2. Counted(<<META>> \o Pair("ATTRIBUTE"), {"ATTRIBUTE"})
    BY KindsOfChildren, PairCounted
  <2> QED
    BY <2>1, <2>2 DEF attribute_completeness_records, attribute_completeness_counts
<1>11. CASE r = "attribute_validation"
  <2>1. /\ Repository[r].create.records = <<META>> \o attribute_validation_records
        /\ Repository[r].counts = attribute_validation_counts
    BY <1>11 DEF Repository, Repo, attribute_validation_create, Composite
  <2> QED
    BY <2>1, AttributeValidationCounted
<1>12. CASE r = "attribute_selection"
  <2>1. /\ Repository[r].create.records = <<META>> \o attribute_selection_records
        /\ Repository[r].counts = attribute_selection_counts
    BY <1>12 DEF Repository, Repo, attribute_selection_create, Composite
  <2>2. Counted(<<META>> \o Pair("ATTRIBUTE"), {"ATTRIBUTE"})
    BY KindsOfChildren, PairCounted
  <2> QED
    BY <2>1, <2>2 DEF attribute_selection_records, attribute_selection_counts
<1>13. CASE r = "reviewed_attributes"
  <2>1. /\ Repository[r].create.records = <<META>> \o reviewed_attributes_records
        /\ Repository[r].counts = reviewed_attributes_counts
    BY <1>13 DEF Repository, Repo, reviewed_attributes_create, Guarded
  <2>2. Counted(<<META>> \o Pair("ATTRIBUTE"), {"ATTRIBUTE"})
    BY KindsOfChildren, PairCounted
  <2> QED
    BY <2>1, <2>2 DEF reviewed_attributes_records, reviewed_attributes_counts
<1>14. CASE r = "catalog_projection"
  <2>1. /\ Repository[r].create.records = <<META>> \o catalog_projection_records
        /\ Repository[r].counts = catalog_projection_counts
    BY <1>14 DEF Repository, Repo, catalog_projection_create, Guarded
  <2>2. Counted(<<META>> \o Pair("ATTRIBUTE"), {"ATTRIBUTE"})
    BY KindsOfChildren, PairCounted
  <2> QED
    BY <2>1, <2>2 DEF catalog_projection_records, catalog_projection_counts
<1>15. CASE r = "catalog_enrichment"
  <2>1. /\ Repository[r].create.records = <<META>> \o catalog_enrichment_records
        /\ Repository[r].counts = catalog_enrichment_counts
    BY <1>15 DEF Repository, Repo, catalog_enrichment_create, Guarded
  <2> QED
    BY <2>1, CatalogEnrichmentCounted
<1>16. CASE r = "product_intelligence"
  <2>1. /\ Repository[r].create.records = <<META>> \o product_intelligence_records
        /\ Repository[r].counts = product_intelligence_counts
    BY <1>16 DEF Repository, Repo, product_intelligence_create, Transaction
  <2>2. Counted(<<META>> \o Pair("COMPONENT"), {"COMPONENT"})
    BY KindsOfChildren, PairCounted
  <2> QED
    BY <2>1, <2>2 DEF product_intelligence_records, product_intelligence_counts
<1>17. CASE r = "catalog_export"
  <2>1. /\ Repository[r].create.records = <<META>> \o catalog_export_records
        /\ Repository[r].counts = catalog_export_counts
    BY <1>17 DEF Repository, Repo, catalog_export_create, Guarded
  <2> QED
    BY <2>1, CatalogExportCounted
<1> QED
  BY <1>1, <1>2, <1>3, <1>4, <1>5, <1>6, <1>7, <1>8, <1>9, <1>10, <1>11, <1>12, <1>13, <1>14,
     <1>15, <1>16, <1>17 DEF Repository

\* The key of a record is a number, and two records have different ones.
LEMMA RankIsAKey ==
    ASSUME NEW k \in RecordKey
    PROVE  Rank(k) \in 1..200
<1> DEFINE pos == CHOOSE i \in 1..Len(Kinds): Kinds[i] = k.kind
<1>1. k.kind \in KindSet /\ k.n \in 0..9
  BY DEF RecordKey
<1>2. \E i \in 1..Len(Kinds): Kinds[i] = k.kind
  BY <1>1 DEF KindSet
<1>3. pos \in 1..19
  BY <1>2, KindsFact
<1> HIDE DEF pos
<1>4. Rank(k) = 10 * pos + k.n
  BY DEF Rank, pos
<1> QED
  BY <1>1, <1>3, <1>4

\* The plan of the repository at hand: at least two records, each of its own.
LEMMA PlanFact ==
    ASSUME repo \in DOMAIN Repository
    PROVE  Counted(Plan, Repository[repo].counts)
BY RepositoryCounted DEF Plan

\* A whole result is a finite set of records, META among them.
LEMMA WholeFact ==
    ASSUME repo \in DOMAIN Repository
    PROVE  /\ IsFiniteSet(Whole) /\ META \in Whole
           /\ \A k \in Whole: Rank(k) \in 1..200
           /\ \A i \in 1..Len(Plan): Plan[i] \in Whole
           /\ \A k \in Whole: k # META => k.kind \in Repository[repo].counts
<1>1. Counted(Plan, Repository[repo].counts)
  BY PlanFact
<1>2. Plan \in [1..Len(Plan) -> RecordKey] /\ Len(Plan) \in Nat /\ Len(Plan) >= 2 /\ Plan[1] = META
  BY <1>1 DEF Counted
<1>3. IsFiniteSet(Whole)
  <2>1. Plan \in Surjection(1..Len(Plan), Whole)
    BY <1>2 DEF Surjection, Whole
  <2>2. IsFiniteSet(1..Len(Plan))
    BY <1>2, FS_Interval
  <2> QED
    BY <2>1, <2>2, FS_Surjection, Zenon
<1>4. \A k \in Whole: Rank(k) \in 1..200
  BY <1>2, RankIsAKey DEF Whole
<1>5. \A k \in Whole: k # META => k.kind \in Repository[repo].counts
  <2> TAKE k \in Whole
  <2> HAVE k # META
  <2>1. PICK i \in 1..Len(Plan): k = Plan[i]
    BY DEF Whole
  <2>2. i \in 2..Len(Plan)
    BY <1>2, <2>1
  <2> QED
    BY <1>1, <2>1, <2>2 DEF Counted
<1> QED
  BY <1>2, <1>3, <1>4, <1>5 DEF Whole

\* No part of a result passes for the result: if the counts of META and of the
\* parents agree with the records found, every record was found.
THEOREM CountsIdentifyTheWhole ==
    ASSUME repo \in DOMAIN Repository,
           NEW S \in SUBSET Whole, from_items(S) = "result"
    PROVE  S = Whole
<1>1. /\ IsFiniteSet(Whole) /\ META \in S
      /\ \A kind \in Repository[repo].counts:
           Cardinality(OfKind(S, kind)) = Cardinality(OfKind(Whole, kind))
  BY WholeFact DEF from_items
<1>2. ASSUME NEW k \in Whole, k # META
      PROVE  k \in S
  <2> DEFINE found == OfKind(S, k.kind)
             stored == OfKind(Whole, k.kind)
  <2>1. k.kind \in Repository[repo].counts
    BY <1>2, WholeFact
  <2>2. stored \in SUBSET Whole /\ found \in SUBSET stored /\ k \in stored
    BY DEF OfKind
  <2>3. Cardinality(stored) = Cardinality(found)
    BY <1>1, <2>1
  <2> HIDE DEF found, stored
  <2>4. IsFiniteSet(stored)
    BY <1>1, <2>2, FS_Subset
  <2>5. stored = found
    BY <2>2, <2>3, <2>4, FS_Subset
  <2> QED
    BY <2>2, <2>5 DEF found, OfKind
<1> QED
  BY <1>1, <1>2

(* ------------------------------ the invariant --------------------------- *)

WriterPC == {"idle", "saving", "writing", "raised", "cleaning", "done", "failed"}
ReaderPC == {"idle", "query", "assemble", "returned"}
Answer == {"nothing", "result", "serialization_error"}

Typed ==
  /\ repo \in DOMAIN Repository
  /\ items \in [Result -> SUBSET Whole] /\ objects \in [Result -> SUBSET Format]
  /\ guard \in Result \cup {Nobody}
  /\ writer \in [Result -> [pc : WriterPC, next : Nat]]
  /\ reader \in [pc : ReaderPC, id : Result \cup {Nobody}, last : Nat, seen : SUBSET Whole,
                 got : Answer, promised : BOOLEAN]
  /\ faults \in 0..MaxFaults /\ lied \subseteq Result

\* The records before the i-th.
Before(i) == {Plan[j] : j \in 1..(i - 1)}

\* What a create has stored, and where it continues.
RecordsOK(r) ==
  /\ writer[r].pc \in {"idle", "saving", "writing"} =>
       /\ writer[r].next \in 1..(Len(Plan) + 1) /\ items[r] = Before(writer[r].next)
       /\ Repository[repo].create.atomic => writer[r].next \in {1, Len(Plan) + 1}
  /\ writer[r].pc \in {"idle", "saving"} => writer[r].next = 1
  /\ writer[r].pc = "done" => items[r] = Whole
  /\ writer[r].next <= Len(Plan) + 1

\* The artifacts are saved in order and deleted in reverse.
ObjectsOK(r) ==
  /\ writer[r].pc \in {"idle", "saving", "writing", "raised"} => \E n \in 0..3: objects[r] = 1..n
  /\ writer[r].pc = "idle" => objects[r] = {}
  /\ writer[r].pc = "saving" => repo = "catalog_export"
  /\ writer[r].pc \in {"writing", "done"} /\ repo = "catalog_export" => objects[r] = Format
  /\ writer[r].pc = "cleaning" =>
       writer[r].next \in 0..3 /\ (r \notin lied => objects[r] = 1..writer[r].next)
  /\ writer[r].pc = "failed" /\ r \notin lied => objects[r] = {}

\* A create that raised and told the truth is short of a record.
ShortOK(r) ==
  writer[r].pc \in {"raised", "cleaning", "failed"} /\ r \notin lied => items[r] # Whole

\* A read of a completed result has seen the records up to its last key.
ReaderOK ==
  /\ reader.pc = "idle" => reader = NoReader
  /\ reader.pc # "idle" => reader.id \in Result
  /\ reader.got = IF reader.pc = "returned" THEN from_items(reader.seen) ELSE "nothing"
  /\ reader.promised => reader.pc # "idle" /\ writer[reader.id].pc = "done"
  /\ reader.promised /\ reader.pc = "query" => reader.seen = {k \in Whole : Rank(k) <= reader.last}
  /\ reader.promised /\ reader.pc \in {"assemble", "returned"} => reader.seen = Whole

IInv ==
  /\ Typed /\ ReaderOK
  /\ \A r \in Result: RecordsOK(r) /\ ObjectsOK(r) /\ ShortOK(r)

(* ------------------------------ the records ----------------------------- *)

\* The length of the plan, and what it holds.
LEMMA PlanTypes ==
    ASSUME repo \in DOMAIN Repository
    PROVE  /\ Len(Plan) \in Nat /\ Len(Plan) >= 2
           /\ \A i, j \in 1..Len(Plan): Plan[i] = Plan[j] => i = j
<1>1. Counted(Plan, Repository[repo].counts)
  BY PlanFact
<1> QED
  BY <1>1 DEF Counted

\* The records before the next one: none at first, all of them at the end.
LEMMA BeforeFact ==
    ASSUME repo \in DOMAIN Repository
    PROVE  /\ Before(1) = {} /\ Before(Len(Plan) + 1) = Whole
           /\ \A i \in 1..Len(Plan):
                /\ Plan[i] \notin Before(i) /\ Before(i) \cup {Plan[i]} = Before(i + 1)
                /\ Plan[i] \in Whole
           /\ \A i \in 1..(Len(Plan) + 1): Before(i) \subseteq Whole
<1>1. Before(1) = {}
  BY DEF Before
<1>2. Before(Len(Plan) + 1) = Whole
  BY PlanTypes DEF Before, Whole
<1>3. ASSUME NEW i \in 1..Len(Plan)
      PROVE  Plan[i] \notin Before(i) /\ Before(i) \cup {Plan[i]} = Before(i + 1) /\ Plan[i] \in Whole
  <2>1. Plan[i] \notin Before(i)
    BY PlanTypes DEF Before
  <2>2. \A j : j \in 1..i <=> j \in 1..(i - 1) \/ j = i
    BY PlanTypes
  <2>3. Before(i + 1) = {Plan[j] : j \in 1..i}
    BY PlanTypes DEF Before
  <2> QED
    BY <2>1, <2>2, <2>3 DEF Before, Whole
<1>4. \A i \in 1..(Len(Plan) + 1): Before(i) \subseteq Whole
  BY PlanTypes DEF Before, Whole
<1> QED
  BY <1>1, <1>2, <1>3, <1>4

\* A repository does not change, and neither do its records.
LEMMA PlanKept ==
    ASSUME repo' = repo
    PROVE  /\ Plan' = Plan /\ Whole' = Whole
           /\ \A i : Before(i)' = Before(i)
<1>1. Plan' = Plan
  BY DEF Plan
<1> QED
  BY <1>1 DEF Whole, Before

(* ------------------------------- the pages ------------------------------ *)

\* A set of natural numbers has a least one.
LEMMA LeastNatural ==
    ASSUME NEW S \in SUBSET Nat, S # {}
    PROVE  \E m \in S : \A n \in S : m <= n
<1>1. PICK m \in S : \A n \in S : <<n, m>> \notin OpToRel(<, Nat)
  BY WFMin, NatLessThanWellFounded, Zenon
<1>2. \A n \in S : ~ (n < m)
  BY <1>1, Zenon DEF OpToRel
<1> QED
  BY <1>2

\* A page has a last record: the ranks of finitely many records have a greatest.
LEMMA LastOfPage ==
    ASSUME repo \in DOMAIN Repository, NEW S \in SUBSET Whole, S # {}
    PROVE  \E k \in S : \A j \in S : Rank(j) <= Rank(k)
<1> DEFINE below == {200 - Rank(k) : k \in S}
<1>1. \A k \in S : Rank(k) \in 1..200
  BY WholeFact
<1>2. below \in SUBSET Nat /\ below # {}
  BY <1>1
<1>3. PICK x \in below : \A y \in below : x <= y
  <2> HIDE DEF below
  <2> QED
    BY <1>2, LeastNatural
<1>4. PICK k \in S : x = 200 - Rank(k)
  OBVIOUS
<1>5. \A j \in S : Rank(j) <= Rank(k)
  <2> TAKE j \in S
  <2>1. 200 - Rank(k) <= 200 - Rank(j)
    BY <1>3, <1>4
  <2>2. Rank(j) \in Int /\ Rank(k) \in Int
    BY <1>1
  <2> QED
    BY <2>1, <2>2
<1> QED
  BY <1>5

\* Pages leave no gap: with the records up to the last key seen, the records up
\* to the next last key are seen after the page, and all of them after a page
\* that had everything that remained.
LEMMA PagesLeaveNoGap ==
    ASSUME repo \in DOMAIN Repository, items[reader.id] = Whole, reader.last \in Nat,
           reader.seen = {k \in Whole : Rank(k) <= reader.last}
    PROVE  /\ LastKey(Page) \in Nat
           /\ reader.seen \cup Page = {k \in Whole : Rank(k) <= LastKey(Page)}
           /\ Page = Remaining => reader.seen \cup Page = Whole
<1> DEFINE smaller(k) == {j \in Remaining : Rank(j) < Rank(k)}
<1>1. Remaining = {k \in Whole : Rank(k) > reader.last} /\ \A k \in Whole : Rank(k) \in 1..200
  BY WholeFact DEF Remaining
<1>2. Page = {k \in Remaining : Cardinality(smaller(k)) < PageSize}
  BY DEF Page
<1>3. \A k \in Remaining : IsFiniteSet(smaller(k)) /\ Cardinality(smaller(k)) \in Nat
  <2> TAKE k \in Remaining
  <2>1. smaller(k) \in SUBSET Whole
    BY <1>1
  <2>2. IsFiniteSet(Whole)
    BY WholeFact
  <2> HIDE DEF smaller
  <2> QED
    BY <2>1, <2>2, FS_Subset, FS_CardinalityType
<1>4. ASSUME NEW k \in Page, NEW j \in Remaining, Rank(j) <= Rank(k)
      PROVE  j \in Page
  <2>1. k \in Remaining /\ Cardinality(smaller(k)) < PageSize
    BY <1>2
  <2>2. smaller(j) \in SUBSET smaller(k)
    <3>1. \A x \in Remaining : Rank(x) \in Int
      BY <1>1
    <3>2. \A x \in Remaining : Rank(x) < Rank(j) => Rank(x) < Rank(k)
      BY <1>4, <2>1, <3>1
    <3> QED
      BY <3>2
  <2>3. Cardinality(smaller(j)) <= Cardinality(smaller(k))
    <3> HIDE DEF smaller
    <3> QED
      BY <1>3, <2>1, <2>2, FS_Subset
  <2>4. Cardinality(smaller(j)) < PageSize
    <3> HIDE DEF smaller
    <3> QED
      BY <1>3, <2>1, <2>3, StoredResultsAssumption
  <2> QED
    BY <1>2, <2>4
<1> HIDE DEF smaller
<1>5. Page \subseteq Remaining
  BY <1>2
<1>6. Page = Remaining => reader.seen \cup Page = Whole
  BY <1>1
<1>7. CASE Page = {}
  BY <1>6, <1>7 DEF LastKey
<1>8. CASE Page # {}
  <2> DEFINE last == CHOOSE k \in Page : \A j \in Page : Rank(j) <= Rank(k)
  <2>1. Page \in SUBSET Whole
    BY <1>1, <1>5
  <2>2. \E k \in Page : \A j \in Page : Rank(j) <= Rank(k)
    BY <1>8, <2>1, LastOfPage
  <2>3. last \in Page /\ \A j \in Page : Rank(j) <= Rank(last)
    BY <2>2
  <2>4. LastKey(Page) = Rank(last)
    BY <1>8 DEF LastKey
  <2> HIDE DEF last
  <2>5. Rank(last) \in Nat /\ Rank(last) > reader.last
    BY <1>1, <1>5, <2>3
  <2>6. reader.seen \cup Page = {k \in Whole : Rank(k) <= Rank(last)}
    <3>1. \A k \in reader.seen \cup Page : k \in Whole /\ Rank(k) <= Rank(last)
      BY <1>1, <2>1, <2>3, <2>5
    <3>2. \A k \in Whole : Rank(k) <= Rank(last) => k \in reader.seen \cup Page
      BY <1>1, <1>4, <2>3
    <3> QED
      BY <3>1, <3>2
  <2> QED
    BY <1>6, <2>4, <2>5, <2>6
<1> QED
  BY <1>7, <1>8

(* ----------------------------- frame lemmas ----------------------------- *)

ResultOK(r) == RecordsOK(r) /\ ObjectsOK(r) /\ ShortOK(r)

\* A step that leaves a result alone leaves what is known of it.
LEMMA ResultKept ==
    ASSUME NEW r \in Result, ResultOK(r), repo' = repo, writer'[r] = writer[r],
           items'[r] = items[r], objects'[r] = objects[r], r \in lied' <=> r \in lied
    PROVE  ResultOK(r)'
<1>1. Plan' = Plan /\ Whole' = Whole /\ \A i : Before(i)' = Before(i)
  BY PlanKept
<1>2. Before(writer[r].next)' = Before(writer[r].next)
  BY <1>1 DEF Before
<1>3. RecordsOK(r)'
  BY <1>1, <1>2 DEF ResultOK, RecordsOK
<1>4. ObjectsOK(r)'
  BY DEF ResultOK, ObjectsOK
<1>5. ShortOK(r)'
  BY <1>1 DEF ResultOK, ShortOK
<1> QED
  BY <1>3, <1>4, <1>5 DEF ResultOK

\* A read keeps what it knows while the reader and the completed creates stay.
LEMMA ReaderKept ==
    ASSUME ReaderOK, Typed, repo' = repo, reader' = reader,
           \A r \in Result : writer[r].pc = "done" => writer'[r].pc = "done"
    PROVE  ReaderOK'
<1>1. Plan' = Plan /\ Whole' = Whole
  BY PlanKept
<1>2. from_items(reader.seen)' = from_items(reader.seen)
  BY <1>1 DEF from_items, OfKind
<1>3. {k \in Whole : Rank(k) <= reader.last}' = {k \in Whole : Rank(k) <= reader.last}
  BY <1>1 DEF Rank
<1> QED
  BY <1>1, <1>2, <1>3 DEF ReaderOK, Typed, NoReader

\* The step of a writer that has not completed disturbs what is known of its
\* own result only.
LEMMA WriterStep ==
    ASSUME IInv, Typed', NEW r \in Result, writer[r].pc # "done", repo' = repo, reader' = reader,
           ResultOK(r)',
           \A q \in Result \ {r} :
             /\ writer'[q] = writer[q] /\ items'[q] = items[q] /\ objects'[q] = objects[q]
             /\ q \in lied' <=> q \in lied
    PROVE  IInv'
<1>1. ReaderOK'
  BY ReaderKept DEF IInv
<1>2. ASSUME NEW q \in Result
      PROVE  ResultOK(q)'
  <2>1. ResultOK(q)
    BY DEF IInv, ResultOK
  <2>2. CASE q = r
    BY <2>2
  <2>3. CASE q # r
    BY <2>1, <2>3, ResultKept
  <2> QED
    BY <2>2, <2>3
<1> QED
  BY <1>1, <1>2 DEF IInv, ResultOK

\* What is known of a writer and its result.
LEMMA WriterTypes ==
    ASSUME Typed, NEW r \in Result
    PROVE  /\ writer[r] \in [pc : WriterPC, next : Nat]
           /\ items[r] \in SUBSET Whole /\ objects[r] \in SUBSET Format
BY DEF Typed

\* A writer moves, alone.
LEMMA Moves ==
    ASSUME Typed, NEW r \in Result, NEW pc \in WriterPC, NEW next \in Nat,
           writer' = [writer EXCEPT ![r] = [pc |-> pc, next |-> next]]
    PROVE  /\ writer'[r] = [pc |-> pc, next |-> next]
           /\ \A q \in Result \ {r} : writer'[q] = writer[q]
           /\ writer' \in [Result -> [pc : WriterPC, next : Nat]]
<1>1. writer \in [Result -> [pc : WriterPC, next : Nat]]
  BY DEF Typed
<1>2. [pc |-> pc, next |-> next] \in [pc : WriterPC, next : Nat]
  OBVIOUS
<1> QED
  BY <1>1, <1>2

\* A writer takes its next step, or its next record.
LEMMA MovesInPart ==
    ASSUME Typed, NEW r \in Result, NEW pc \in WriterPC, NEW next \in Nat,
           \/ writer' = [writer EXCEPT ![r].pc = pc] /\ writer[r].next = next
           \/ writer' = [writer EXCEPT ![r].next = next] /\ writer[r].pc = pc
    PROVE  /\ writer'[r] = [pc |-> pc, next |-> next]
           /\ \A q \in Result \ {r} : writer'[q] = writer[q]
           /\ writer' \in [Result -> [pc : WriterPC, next : Nat]]
<1>1. writer \in [Result -> [pc : WriterPC, next : Nat]]
  BY DEF Typed
<1>2. writer[r] \in [pc : WriterPC, next : Nat]
  BY <1>1
<1>3. CASE writer' = [writer EXCEPT ![r].pc = pc] /\ writer[r].next = next
  <2>1. writer' = [writer EXCEPT ![r] = [writer[r] EXCEPT !.pc = pc]]
    BY <1>3
  <2>2. [writer[r] EXCEPT !.pc = pc] = [pc |-> pc, next |-> next]
    BY <1>2, <1>3
  <2>3. writer' = [writer EXCEPT ![r] = [pc |-> pc, next |-> next]]
    BY <2>1, <2>2
  <2> QED
    BY <2>3, Moves
<1>4. CASE writer' = [writer EXCEPT ![r].next = next] /\ writer[r].pc = pc
  <2>1. writer' = [writer EXCEPT ![r] = [writer[r] EXCEPT !.next = next]]
    BY <1>4
  <2>2. [writer[r] EXCEPT !.next = next] = [pc |-> pc, next |-> next]
    BY <1>2, <1>4
  <2>3. writer' = [writer EXCEPT ![r] = [pc |-> pc, next |-> next]]
    BY <2>1, <2>2
  <2> QED
    BY <2>3, Moves
<1> QED
  BY <1>3, <1>4

\* The first n of the three artifacts, and one more.
LEMMA ArtifactsInOrder ==
    ASSUME NEW n \in 0..3
    PROVE  /\ Cardinality(1..n) = n /\ 1..n \in SUBSET Format /\ 1..0 = {} /\ 1..3 = Format
           /\ n < 3 => 1..n # Format /\ (1..n) \cup {n + 1} = 1..(n + 1)
           /\ n > 0 => (1..n) \ {n} = 1..(n - 1)
<1>1. Cardinality(1..n) = n
  <2>1. 1 \in Int /\ n \in Int
    OBVIOUS
  <2>2. Cardinality(1..n) = IF 1 > n THEN 0 ELSE n - 1 + 1
    BY <2>1, FS_Interval, Zenon
  <2> QED
    BY <2>2
<1>2. \A i : i \in 1..3 <=> i \in Format
  BY DEF Format
<1>3. 1..3 = Format /\ 3 \in Format
  BY <1>2
<1>4. 1..n \in SUBSET Format
  BY <1>3
<1>5. n < 3 => 1..n # Format
  BY <1>3
<1>6. (1..n) \cup {n + 1} = 1..(n + 1)
  OBVIOUS
<1>7. n > 0 => (1..n) \ {n} = 1..(n - 1)
  OBVIOUS
<1> QED
  BY <1>1, <1>3, <1>4, <1>5, <1>6, <1>7

(* -------------------------- the initial states -------------------------- *)

\* The invariant holds before the first write.
LEMMA InitIInv == Init => IInv
<1> SUFFICES ASSUME Init PROVE IInv
  OBVIOUS
<1> USE DEF Init, ResultsInit
<1>1. Typed
  BY StoredResultsAssumption DEF Typed, NoReader, WriterPC, ReaderPC, Answer
<1>2. ReaderOK
  BY DEF ReaderOK, NoReader
<1>3. ASSUME NEW r \in Result
      PROVE  ResultOK(r)
  <2>1. writer[r] = [pc |-> "idle", next |-> 1] /\ items[r] = {} /\ objects[r] = {}
    OBVIOUS
  <2>2. Len(Plan) \in Nat /\ Len(Plan) >= 2 /\ Before(1) = {}
    BY PlanTypes, BeforeFact
  <2>3. RecordsOK(r)
    BY <2>1, <2>2 DEF RecordsOK
  <2>4. ObjectsOK(r)
    BY <2>1, 1..0 = {} DEF ObjectsOK
  <2>5. ShortOK(r)
    BY <2>1 DEF ShortOK
  <2> QED
    BY <2>3, <2>4, <2>5 DEF ResultOK
<1> QED
  BY <1>1, <1>2, <1>3 DEF IInv, ResultOK

(* ------------------------------ the writers ----------------------------- *)

\* _validate_setup lets the export or the create begin.
LEMMA BeginKeeps == ASSUME IInv, NEW r \in Result, begin(r) PROVE IInv'
<1> USE DEF begin
<1>1. /\ writer[r].pc = "idle" /\ writer[r].next = 1 /\ objects[r] = {} /\ ResultOK(r)
      /\ writer[r] \in [pc : WriterPC, next : Nat]
  BY WriterTypes DEF IInv, ResultOK, RecordsOK, ObjectsOK
<1> DEFINE pc == IF repo = "catalog_export" THEN "saving" ELSE "writing"
<1>2. /\ writer'[r] = [pc |-> pc, next |-> 1]
      /\ \A q \in Result \ {r} : writer'[q] = writer[q]
      /\ writer' \in [Result -> [pc : WriterPC, next : Nat]]
  BY <1>1 DEF IInv, Typed, WriterPC
<1>3. Plan' = Plan /\ Whole' = Whole /\ \A i : Before(i)' = Before(i)
  BY PlanKept
<1>4. Typed'
  BY <1>2, <1>3 DEF IInv, Typed
<1>5. RecordsOK(r)'
  <2>1. Before(writer[r].next)' = Before(1)
    BY <1>2, <1>3 DEF Before
  <2>2. items[r] = Before(1) /\ Len(Plan) \in Nat
    BY <1>1, PlanTypes DEF ResultOK, RecordsOK, IInv, Typed
  <2> QED
    BY <1>2, <1>3, <2>1, <2>2 DEF RecordsOK
<1>6. ObjectsOK(r)'
  BY <1>1, <1>2, 1..0 = {} DEF ObjectsOK
<1>7. ShortOK(r)'
  BY <1>2 DEF ShortOK
<1> QED
  BY <1>1, <1>2, <1>4, <1>5, <1>6, <1>7, WriterStep DEF ResultOK

\* The artifacts an export has saved, and what the next save leaves.
LEMMA NextArtifact ==
    ASSUME IInv, NEW r \in Result, Saving(r), objects[r] # Format
    PROVE  \E n \in 0..2 : objects[r] = 1..n
                /\ objects[r] \cup {Cardinality(objects[r]) + 1} = 1..(n + 1)
<1>1. PICK n \in 0..3 : objects[r] = 1..n
  BY DEF IInv, ObjectsOK, Saving
<1>2. Cardinality(1..n) = n /\ 1..3 = Format /\ (n < 3 => (1..n) \cup {n + 1} = 1..(n + 1))
  BY ArtifactsInOrder
<1>3. n # 3
  BY <1>1, <1>2
<1>4. n \in 0..2
  BY <1>3
<1> QED
  BY <1>1, <1>2, <1>4

\* An artifact is saved.
LEMMA SaveKeeps == ASSUME IInv, NEW r \in Result, save_artifact(r) PROVE IInv'
<1> USE DEF save_artifact, Saving
<1>1. /\ writer[r].pc = "saving" /\ writer[r].next = 1 /\ ResultOK(r) /\ repo = "catalog_export"
      /\ writer[r] \in [pc : WriterPC, next : Nat]
  BY WriterTypes DEF IInv, ResultOK, RecordsOK, ObjectsOK
<1>2. PICK n \in 0..2 : objects[r] = 1..n /\ objects[r] \cup {Cardinality(objects[r]) + 1} = 1..(n + 1)
  BY NextArtifact
<1>3. objects' \in [Result -> SUBSET Format] /\ objects'[r] = 1..(n + 1)
      /\ \A q \in Result \ {r} : objects'[q] = objects[q]
  <2>1. n + 1 \in 0..3
    OBVIOUS
  <2>2. 1..(n + 1) \in SUBSET Format
    BY <2>1, ArtifactsInOrder, Zenon
  <2>3. objects' = [objects EXCEPT ![r] = 1..(n + 1)]
    BY <1>2
  <2> QED
    BY <2>2, <2>3 DEF IInv, Typed
<1>4. PICK pc \in {"saving", "writing"} :
        /\ writer' = [writer EXCEPT ![r].pc = pc]
        /\ objects'[r] = Format <=> pc = "writing"
  OBVIOUS
<1>5. /\ writer'[r] = [pc |-> pc, next |-> 1]
      /\ \A q \in Result \ {r} : writer'[q] = writer[q]
      /\ writer' \in [Result -> [pc : WriterPC, next : Nat]]
  BY <1>1, <1>4 DEF IInv, Typed, WriterPC
<1>6. Plan' = Plan /\ Whole' = Whole /\ \A i : Before(i)' = Before(i)
  BY PlanKept
<1>7. Typed'
  BY <1>3, <1>5, <1>6 DEF IInv, Typed
<1>8. RecordsOK(r)'
  <2>1. Before(writer[r].next)' = Before(1)
    BY <1>5, <1>6 DEF Before
  <2>2. items[r] = Before(1) /\ Len(Plan) \in Nat
    BY <1>1, PlanTypes DEF ResultOK, RecordsOK, IInv, Typed
  <2> QED
    BY <1>5, <1>6, <2>1, <2>2 DEF RecordsOK
<1>9. ObjectsOK(r)'
  <2>1. \E k \in 0..3 : objects'[r] = 1..k
    BY <1>3
  <2> QED
    BY <1>1, <1>4, <1>5, <2>1 DEF ObjectsOK
<1>10. ShortOK(r)'
  BY <1>5 DEF ShortOK
<1> QED
  BY <1>1, <1>3, <1>5, <1>7, <1>8, <1>9, <1>10, WriterStep DEF ResultOK

\* Nothing is stored while artifacts are saved, and a result has two records.
LEMMA NothingYet ==
    ASSUME IInv, NEW r \in Result, Saving(r)
    PROVE  items[r] = {} /\ items[r] # Whole
<1>1. items[r] = Before(1) /\ repo \in DOMAIN Repository
  BY DEF IInv, RecordsOK, Saving, Typed
<1> QED
  BY <1>1, BeforeFact, WholeFact

\* A save fails, with or without effect.
LEMMA SaveRaisesKeeps == ASSUME IInv, NEW r \in Result, save_raises(r) PROVE IInv'
<1> USE DEF save_raises, Saving
<1>1. /\ writer[r].pc = "saving" /\ writer[r].next = 1 /\ ResultOK(r)
      /\ writer[r] \in [pc : WriterPC, next : Nat]
  BY WriterTypes DEF IInv, ResultOK, RecordsOK, ObjectsOK
<1>2. PICK n \in 0..2 : objects[r] = 1..n /\ objects[r] \cup {Cardinality(objects[r]) + 1} = 1..(n + 1)
  BY NextArtifact
<1>3. PICK k \in 0..3 :
        /\ objects' \in [Result -> SUBSET Format] /\ objects'[r] = 1..k
        /\ \A q \in Result \ {r} : objects'[q] = objects[q]
  <2>1. CASE UNCHANGED objects
    BY <1>2, <2>1 DEF IInv, Typed
  <2>2. CASE objects' = [objects EXCEPT ![r] = @ \cup {Cardinality(@) + 1}]
    <3>1. n + 1 \in 0..3
      OBVIOUS
    <3>2. 1..(n + 1) \in SUBSET Format
      BY <3>1, ArtifactsInOrder, Zenon
    <3>3. objects' = [objects EXCEPT ![r] = 1..(n + 1)]
      BY <1>2, <2>2
    <3> QED
      BY <3>1, <3>2, <3>3 DEF IInv, Typed
  <2> QED
    BY <2>1, <2>2
<1>4. /\ writer'[r] = [pc |-> "raised", next |-> 1]
      /\ \A q \in Result \ {r} : writer'[q] = writer[q]
      /\ writer' \in [Result -> [pc : WriterPC, next : Nat]]
  BY <1>1 DEF IInv, Typed, WriterPC
<1>5. Plan' = Plan /\ Whole' = Whole /\ Len(Plan) \in Nat
  BY PlanKept, PlanTypes DEF IInv, Typed
<1>6. Typed'
  BY <1>3, <1>4, <1>5, StoredResultsAssumption DEF IInv, Typed
<1>7. RecordsOK(r)'
  BY <1>4, <1>5 DEF RecordsOK
<1>8. ObjectsOK(r)'
  BY <1>3, <1>4 DEF ObjectsOK
<1>9. ShortOK(r)'
  BY <1>5, NothingYet DEF ShortOK
<1> QED
  BY <1>1, <1>3, <1>4, <1>6, <1>7, <1>8, <1>9, WriterStep DEF ResultOK

\* The export has raised: its saved keys are to be cleaned up.
LEMMA StartCleanupKeeps == ASSUME IInv, NEW r \in Result, start_cleanup(r) PROVE IInv'
<1> USE DEF start_cleanup
<1>1. writer[r].pc = "raised" /\ ResultOK(r) /\ writer[r] \in [pc : WriterPC, next : Nat]
  BY WriterTypes DEF IInv, ResultOK
<1>2. PICK n \in 0..3 : objects[r] = 1..n
  BY <1>1 DEF ResultOK, ObjectsOK
<1>3. SavedKeys(r) = n
  BY <1>2, ArtifactsInOrder DEF SavedKeys
<1>4. /\ writer'[r] = [pc |-> "cleaning", next |-> n]
      /\ \A q \in Result \ {r} : writer'[q] = writer[q]
      /\ writer' \in [Result -> [pc : WriterPC, next : Nat]]
  <2>1. writer' = [writer EXCEPT ![r].pc = "cleaning", ![r].next = n]
    BY <1>3
  <2>2. writer' = [writer EXCEPT ![r] = [pc |-> "cleaning", next |-> n]]
    BY <1>1, <2>1 DEF IInv, Typed
  <2>3. Typed /\ "cleaning" \in WriterPC /\ n \in Nat
    BY DEF IInv, WriterPC
  <2> HIDE DEF start_cleanup
  <2> QED
    BY <2>2, <2>3, Moves
<1>5. Plan' = Plan /\ Whole' = Whole /\ Len(Plan) \in Nat /\ Len(Plan) >= 2
  BY PlanKept, PlanTypes DEF IInv, Typed
<1>6. Typed'
  BY <1>4, <1>5 DEF IInv, Typed
<1>7. RecordsOK(r)'
  <2> HIDE DEF start_cleanup
  <2>1. writer'[r].pc = "cleaning" /\ writer'[r].next = n /\ n <= 3
    BY <1>4
  <2> QED
    BY <1>5, <2>1 DEF RecordsOK
<1>8. ObjectsOK(r)'
  BY <1>2, <1>4 DEF ObjectsOK
<1>9. ShortOK(r)'
  BY <1>1, <1>4, <1>5 DEF ResultOK, ShortOK
<1> QED
  BY <1>1, <1>4, <1>6, <1>7, <1>8, <1>9, WriterStep DEF ResultOK

\* The last key saved is deleted, or its delete fails and is logged.
LEMMA CleanupKeeps == ASSUME IInv, NEW r \in Result, cleanup(r) PROVE IInv'
<1>1. /\ writer[r].pc = "cleaning" /\ writer[r].next > 0 /\ ResultOK(r)
      /\ writer[r] \in [pc : WriterPC, next : Nat] /\ objects[r] \in SUBSET Format
  BY WriterTypes DEF IInv, ResultOK, cleanup
<1>2. PICK n \in 1..3 : writer[r].next = n /\ (r \notin lied => objects[r] = 1..n)
  BY <1>1 DEF ResultOK, ObjectsOK
<1>3. n \in 0..3 /\ n - 1 \in 0..3
  OBVIOUS
<1>4. (1..n) \ {n} = 1..(n - 1)
  BY <1>3, ArtifactsInOrder
<1>5. /\ writer'[r] = [pc |-> "cleaning", next |-> n - 1]
      /\ \A q \in Result \ {r} : writer'[q] = writer[q]
      /\ writer' \in [Result -> [pc : WriterPC, next : Nat]]
  <2>1. writer' = [writer EXCEPT ![r].next = n - 1]
    BY <1>2 DEF cleanup
  <2>2. Typed /\ "cleaning" \in WriterPC /\ n - 1 \in Nat
    BY <1>3 DEF IInv, WriterPC
  <2> QED
    BY <1>1, <2>1, <2>2, MovesInPart
<1>6. /\ objects' \in [Result -> SUBSET Format] /\ lied' \subseteq Result
      /\ \A q \in Result \ {r} : objects'[q] = objects[q] /\ (q \in lied' <=> q \in lied)
      /\ r \notin lied' => r \notin lied /\ objects'[r] = 1..(n - 1)
      /\ faults' \in 0..MaxFaults
  <2>1. objects \in [Result -> SUBSET Format] /\ lied \subseteq Result /\ faults \in 0..MaxFaults
    BY DEF IInv, Typed
  <2>2. CASE objects' = [objects EXCEPT ![r] = @ \ {n}] /\ UNCHANGED <<faults, lied>>
    BY <1>2, <1>4, <2>1, <2>2
  <2>3. CASE faults < MaxFaults /\ faults' = faults + 1 /\ lied' = lied \cup {r} /\ UNCHANGED objects
    BY <2>1, <2>3, StoredResultsAssumption
  <2> QED
    BY <1>2, <2>2, <2>3 DEF cleanup
<1>7. UNCHANGED <<repo, items, guard, reader>>
  BY DEF cleanup
<1>8. Plan' = Plan /\ Whole' = Whole /\ Len(Plan) \in Nat /\ Len(Plan) >= 2
  BY <1>7, PlanKept, PlanTypes DEF IInv, Typed
<1>9. Typed'
  BY <1>5, <1>6, <1>7, <1>8 DEF IInv, Typed
<1>10. RecordsOK(r)'
  <2>1. writer'[r].pc = "cleaning" /\ writer'[r].next = n - 1 /\ n - 1 <= 3
    BY <1>5
  <2> QED
    BY <1>8, <2>1 DEF RecordsOK
<1>11. ObjectsOK(r)'
  BY <1>3, <1>5, <1>6 DEF ObjectsOK
<1>12. ShortOK(r)'
  BY <1>1, <1>5, <1>6, <1>7, <1>8 DEF ResultOK, ShortOK
<1> QED
  BY <1>1, <1>5, <1>6, <1>7, <1>9, <1>10, <1>11, <1>12, WriterStep DEF ResultOK

\* The cleanup is through.
LEMMA FailJobKeeps == ASSUME IInv, NEW r \in Result, fail_job(r) PROVE IInv'
<1>1. /\ writer[r].pc = "cleaning" /\ writer[r].next = 0 /\ ResultOK(r)
      /\ writer[r] \in [pc : WriterPC, next : Nat]
      /\ UNCHANGED <<repo, items, guard, reader, faults, objects, lied>>
  BY WriterTypes DEF IInv, ResultOK, fail_job
<1>2. /\ writer'[r] = [pc |-> "failed", next |-> 0]
      /\ \A q \in Result \ {r} : writer'[q] = writer[q]
      /\ writer' \in [Result -> [pc : WriterPC, next : Nat]]
  <2>1. writer' = [writer EXCEPT ![r].pc = "failed"]
    BY DEF fail_job
  <2>2. Typed /\ "failed" \in WriterPC
    BY DEF IInv, WriterPC
  <2> QED
    BY <1>1, <2>1, <2>2, MovesInPart
<1>3. Plan' = Plan /\ Whole' = Whole /\ Len(Plan) \in Nat
  BY <1>1, PlanKept, PlanTypes DEF IInv, Typed
<1>4. Typed'
  BY <1>1, <1>2, <1>3 DEF IInv, Typed
<1>5. RecordsOK(r)'
  BY <1>2, <1>3 DEF RecordsOK
<1>6. ObjectsOK(r)'
  BY <1>1, <1>2, 1..0 = {} DEF ResultOK, ObjectsOK
<1>7. ShortOK(r)'
  BY <1>1, <1>2, <1>3 DEF ResultOK, ShortOK
<1> QED
  BY <1>1, <1>2, <1>4, <1>5, <1>6, <1>7, WriterStep DEF ResultOK

\* The process ends in the middle.
LEMMA CutOffKeeps == ASSUME IInv, NEW r \in Result, cut_off(r) PROVE IInv'
<1>1. /\ writer[r].pc \in {"saving", "writing", "raised", "cleaning"} /\ ResultOK(r)
      /\ writer[r] \in [pc : WriterPC, next : Nat] /\ lied' = lied \cup {r}
      /\ faults < MaxFaults /\ faults' = faults + 1
      /\ UNCHANGED <<repo, items, guard, reader, objects>>
  BY WriterTypes DEF IInv, ResultOK, cut_off
<1> DEFINE n == writer[r].next
<1>2. /\ writer'[r] = [pc |-> "failed", next |-> n]
      /\ \A q \in Result \ {r} : writer'[q] = writer[q]
      /\ writer' \in [Result -> [pc : WriterPC, next : Nat]]
  <2>1. writer' = [writer EXCEPT ![r].pc = "failed"]
    BY DEF cut_off
  <2>2. Typed /\ "failed" \in WriterPC /\ n \in Nat
    BY <1>1 DEF IInv, WriterPC
  <2> QED
    BY <2>1, <2>2, MovesInPart
<1>3. Plan' = Plan /\ Whole' = Whole /\ Len(Plan) \in Nat /\ n <= Len(Plan) + 1
  BY <1>1, PlanKept, PlanTypes DEF IInv, Typed, ResultOK, RecordsOK
<1>4. Typed'
  BY <1>1, <1>2, <1>3, StoredResultsAssumption DEF IInv, Typed
<1>5. writer'[r].pc = "failed" /\ writer'[r].next = n /\ r \in lied'
  BY <1>1, <1>2
<1>6. RecordsOK(r)'
  BY <1>3, <1>5 DEF RecordsOK
<1>7. ObjectsOK(r)' /\ ShortOK(r)'
  BY <1>5 DEF ObjectsOK, ShortOK
<1> QED
  BY <1>1, <1>2, <1>4, <1>6, <1>7, WriterStep DEF ResultOK

\* What a put that takes effect leaves: the records before the next one.
LEMMA PutFact ==
    ASSUME IInv, NEW r \in Result, Writing(r), writer[r].next \in 1..Len(Plan),
           Put(r, writer[r].next)
    PROVE  LET next == After(writer[r].next)
           IN  /\ next \in 1..(Len(Plan) + 1) /\ items'[r] = Before(next) /\ items'[r] # items[r]
               /\ Repository[repo].create.atomic => next = Len(Plan) + 1
               /\ items' \in [Result -> SUBSET Whole] /\ guard' \in Result \cup {Nobody}
               /\ \A q \in Result \ {r} : items'[q] = items[q]
<1> DEFINE i == writer[r].next
           atomic == Repository[repo].create.atomic
<1>1. /\ items \in [Result -> SUBSET Whole] /\ guard \in Result \cup {Nobody}
      /\ repo \in DOMAIN Repository /\ i \in 1..Len(Plan)
      /\ items[r] = Before(i) /\ (atomic => i \in {1, Len(Plan) + 1})
  BY DEF IInv, Typed, RecordsOK, Writing
<1>2. /\ Len(Plan) \in Nat /\ Plan[i] \notin Before(i) /\ Before(i) \cup {Plan[i]} = Before(i + 1)
      /\ Plan[i] \in Whole
      /\ Before(1) = {} /\ Before(Len(Plan) + 1) = Whole
  BY <1>1, PlanTypes, BeforeFact
<1>3. items' = [items EXCEPT ![r] = Before(i) \cup Records(i)]
  BY <1>1 DEF Put
<1>4. Before(i) \cup Records(i) = Before(After(i)) /\ Plan[i] \in Records(i)
      /\ Records(i) \subseteq Whole
  <2>1. CASE atomic
    <3>1. i = 1
      BY <1>1, <1>2, <2>1
    <3> QED
      BY <1>2, <2>1, <3>1 DEF Records, After
  <2>2. CASE ~ atomic
    BY <1>2, <2>2 DEF Records, After
  <2> QED
    BY <2>1, <2>2
<1>5. After(i) \in 1..(Len(Plan) + 1) /\ (atomic => After(i) = Len(Plan) + 1)
  BY <1>1, <1>2 DEF After
<1>6. guard' \in Result \cup {Nobody}
  BY <1>1 DEF Put
<1> HIDE DEF i, atomic
<1>7. /\ items' \in [Result -> SUBSET Whole] /\ items'[r] = Before(After(i))
      /\ \A q \in Result \ {r} : items'[q] = items[q]
  BY <1>1, <1>3, <1>4
<1>8. items'[r] # items[r]
  BY <1>1, <1>2, <1>4, <1>7
<1> QED
  BY <1>5, <1>6, <1>7, <1>8 DEF i, atomic

\* A call of create puts its records.
LEMMA PutRecordKeeps ==
    ASSUME IInv, NEW r \in Result, put_record(r), UNCHANGED <<objects, lied>>
    PROVE  IInv'
<1> DEFINE n == After(writer[r].next)
<1>1. /\ Writing(r) /\ writer[r].next \in 1..Len(Plan) /\ Put(r, writer[r].next) /\ ResultOK(r)
      /\ writer' = [writer EXCEPT ![r].next = After(@)]
      /\ UNCHANGED <<repo, reader, faults, objects, lied>>
  BY DEF IInv, ResultOK, put_record
<1>2. /\ n \in 1..(Len(Plan) + 1) /\ items'[r] = Before(n)
      /\ Repository[repo].create.atomic => n = Len(Plan) + 1
      /\ items' \in [Result -> SUBSET Whole] /\ guard' \in Result \cup {Nobody}
      /\ \A q \in Result \ {r} : items'[q] = items[q]
  BY <1>1, PutFact
<1>3. Plan' = Plan /\ Whole' = Whole /\ Len(Plan) \in Nat /\ \A i : Before(i)' = Before(i)
  BY <1>1, PlanKept, PlanTypes DEF IInv, Typed
<1>4. /\ writer'[r] = [pc |-> "writing", next |-> n]
      /\ \A q \in Result \ {r} : writer'[q] = writer[q]
      /\ writer' \in [Result -> [pc : WriterPC, next : Nat]]
  <2>1. writer' = [writer EXCEPT ![r].next = n]
    BY <1>1
  <2> HIDE DEF n
  <2>2. Typed /\ "writing" \in WriterPC /\ n \in Nat /\ writer[r].pc = "writing"
    BY <1>1, <1>2, <1>3 DEF IInv, WriterPC, Writing
  <2> QED
    BY <2>1, <2>2, MovesInPart
<1> HIDE DEF n
<1>5. Typed'
  BY <1>1, <1>2, <1>3, <1>4 DEF IInv, Typed
<1>6. RecordsOK(r)'
  <2>1. Before(writer[r].next)' = Before(n)
    BY <1>1, <1>3, <1>4 DEF Before
  <2>2. writer'[r].pc = "writing" /\ writer'[r].next = n
    BY <1>4
  <2> QED
    BY <1>1, <1>2, <1>3, <2>1, <2>2 DEF RecordsOK
<1>7. ObjectsOK(r)'
  BY <1>1, <1>4 DEF ResultOK, ObjectsOK, Writing
<1>8. ShortOK(r)'
  BY <1>4 DEF ShortOK
<1> QED
  BY <1>1, <1>2, <1>4, <1>5, <1>6, <1>7, <1>8, WriterStep DEF ResultOK, Writing

\* Every record is stored: create returns.
LEMMA CreateReturnsKeeps ==
    ASSUME IInv, NEW r \in Result, create_returns(r), UNCHANGED <<objects, lied>>
    PROVE  IInv'
<1> DEFINE n == writer[r].next
<1>1. /\ writer[r].pc = "writing" /\ n = Len(Plan) + 1 /\ ResultOK(r)
      /\ writer[r] \in [pc : WriterPC, next : Nat]
      /\ UNCHANGED <<repo, items, guard, reader, faults, objects, lied>>
  BY WriterTypes DEF IInv, ResultOK, create_returns, Writing
<1>2. /\ writer'[r] = [pc |-> "done", next |-> n]
      /\ \A q \in Result \ {r} : writer'[q] = writer[q]
      /\ writer' \in [Result -> [pc : WriterPC, next : Nat]]
  <2>1. writer' = [writer EXCEPT ![r].pc = "done"]
    BY DEF create_returns
  <2>2. Typed /\ "done" \in WriterPC /\ n \in Nat
    BY <1>1 DEF IInv, WriterPC
  <2> QED
    BY <2>1, <2>2, MovesInPart
<1>3. Plan' = Plan /\ Whole' = Whole /\ Len(Plan) \in Nat /\ items[r] = Whole
  BY <1>1, PlanKept, PlanTypes, BeforeFact DEF IInv, Typed, ResultOK, RecordsOK
<1>4. Typed'
  BY <1>1, <1>2, <1>3 DEF IInv, Typed
<1>5. writer'[r].pc = "done" /\ writer'[r].next = Len(Plan) + 1
  BY <1>1, <1>2
<1>6. RecordsOK(r)'
  BY <1>1, <1>3, <1>5 DEF RecordsOK
<1>7. ObjectsOK(r)'
  BY <1>1, <1>5 DEF ResultOK, ObjectsOK
<1>8. ShortOK(r)'
  BY <1>5 DEF ShortOK
<1> QED
  BY <1>1, <1>2, <1>4, <1>6, <1>7, <1>8, WriterStep DEF ResultOK

\* A conditional check fails, or a call does, with or without effect.
LEMMA CreateRaisesKeeps ==
    ASSUME IInv, NEW r \in Result, create_raises(r), UNCHANGED objects,
           lied' = IF Lies(r) THEN lied \cup {r} ELSE lied
    PROVE  IInv'
<1> DEFINE n == writer[r].next
<1>1. /\ writer[r].pc = "writing" /\ n \in 1..Len(Plan) /\ ResultOK(r) /\ Writing(r)
      /\ writer[r] \in [pc : WriterPC, next : Nat] /\ repo \in DOMAIN Repository
      /\ UNCHANGED <<repo, reader, objects>>
  BY WriterTypes DEF IInv, ResultOK, create_raises, Writing, Typed
<1>2. /\ writer'[r] = [pc |-> "raised", next |-> n]
      /\ \A q \in Result \ {r} : writer'[q] = writer[q]
      /\ writer' \in [Result -> [pc : WriterPC, next : Nat]]
  <2>1. writer' = [writer EXCEPT ![r].pc = "raised"]
    BY DEF create_raises
  <2>2. Typed /\ "raised" \in WriterPC /\ n \in Nat
    BY <1>1 DEF IInv, WriterPC
  <2> QED
    BY <2>1, <2>2, MovesInPart
<1>3. Plan' = Plan /\ Whole' = Whole /\ Len(Plan) \in Nat
  BY <1>1, PlanKept, PlanTypes
<1>4. items[r] # Whole
  <2>1. items[r] = Before(n)
    BY <1>1 DEF ResultOK, RecordsOK
  <2> QED
    BY <1>1, <2>1, BeforeFact
<1>5. /\ items' \in [Result -> SUBSET Whole] /\ guard' \in Result \cup {Nobody}
      /\ \A q \in Result \ {r} : items'[q] = items[q]
      /\ items'[r] = items[r] \/ Lies(r)
  <2>1. CASE UNCHANGED <<items, guard>>
    BY <2>1 DEF IInv, Typed
  <2>2. CASE Put(r, writer[r].next)
    BY <1>1, <2>2, PutFact DEF Lies
  <2> QED
    BY <2>1, <2>2 DEF create_raises
<1>6. lied' \subseteq Result /\ faults' \in 0..MaxFaults
  BY StoredResultsAssumption DEF IInv, Typed, create_raises
<1>7. \A q \in Result \ {r} : q \in lied' <=> q \in lied
  OBVIOUS
<1>8. Typed'
  BY <1>1, <1>2, <1>3, <1>5, <1>6 DEF IInv, Typed
<1>9. writer'[r].pc = "raised" /\ writer'[r].next = n /\ n <= Len(Plan) + 1
  BY <1>1, <1>2, <1>3
<1>10. RecordsOK(r)'
  BY <1>3, <1>9 DEF RecordsOK
<1>11. ObjectsOK(r)'
  BY <1>1, <1>9 DEF ResultOK, ObjectsOK
<1>12. ShortOK(r)'
  BY <1>3, <1>4, <1>5 DEF ShortOK
<1> QED
  BY <1>1, <1>2, <1>5, <1>7, <1>8, <1>10, <1>11, <1>12, WriterStep DEF ResultOK

(* ------------------------------ the readers ----------------------------- *)

ReaderRecord == [pc : ReaderPC, id : Result \cup {Nobody}, last : Nat, seen : SUBSET Whole,
                 got : Answer, promised : BOOLEAN]
StoredUnchanged == UNCHANGED <<repo, items, guard, writer, faults, objects, lied>>

\* A reader's step disturbs nothing but the reader.
LEMMA ReaderMoves ==
    ASSUME IInv, StoredUnchanged, reader' \in ReaderRecord, ReaderOK'
    PROVE  IInv'
<1>1. Plan' = Plan /\ Whole' = Whole
  BY PlanKept DEF StoredUnchanged
<1>2. Typed'
  BY <1>1 DEF IInv, Typed, ReaderRecord, StoredUnchanged
<1>3. ASSUME NEW r \in Result
      PROVE  ResultOK(r)'
  <2>1. ResultOK(r)
    BY DEF IInv, ResultOK
  <2> QED
    BY <2>1, ResultKept DEF StoredUnchanged
<1> QED
  BY <1>2, <1>3 DEF IInv, ResultOK

\* A read begins; one of a completed result has seen nothing yet and missed nothing.
LEMMA FindResultKeeps ==
    ASSUME IInv, NEW r \in Result, find_result(r), UNCHANGED <<objects, lied>>
    PROVE  IInv'
<1> DEFINE done == writer[r].pc = "done"
<1>1. StoredUnchanged
  BY DEF find_result, StoredUnchanged
<1>2. Plan' = Plan /\ Whole' = Whole /\ repo \in DOMAIN Repository
  BY <1>1, PlanKept DEF StoredUnchanged, IInv, Typed
<1>3. reader' = [pc |-> "query", id |-> r, last |-> 0, seen |-> {}, got |-> "nothing", promised |-> done]
  BY DEF find_result, NoReader
<1>4. reader' \in ReaderRecord
  BY <1>3 DEF ReaderRecord, ReaderPC, Answer
<1>5. {k \in Whole : Rank(k) <= 0} = {}
  <2>1. \A k \in Whole : Rank(k) \in 1..200
    BY <1>2, WholeFact
  <2>2. \A k \in Whole : ~ (Rank(k) <= 0)
    BY <2>1
  <2> QED
    BY <2>2
<1>6. {k \in Whole : Rank(k) <= reader.last}' = {}
  BY <1>2, <1>3, <1>5 DEF Rank
<1>7. ReaderOK'
  BY <1>1, <1>3, <1>6 DEF ReaderOK, StoredUnchanged
<1> QED
  BY <1>1, <1>4, <1>7, ReaderMoves

\* A page is read.
LEMMA QueryPageKeeps ==
    ASSUME IInv, query_page, UNCHANGED <<objects, lied>>
    PROVE  IInv'
<1>1. StoredUnchanged /\ reader.pc = "query"
  BY DEF query_page, StoredUnchanged
<1>2. Plan' = Plan /\ Whole' = Whole /\ repo \in DOMAIN Repository
  BY <1>1, PlanKept DEF StoredUnchanged, IInv, Typed
<1>3. /\ reader \in ReaderRecord /\ reader.id \in Result /\ reader.got = "nothing"
      /\ items[reader.id] \in SUBSET Whole
      /\ reader.promised => /\ items[reader.id] = Whole /\ writer[reader.id].pc = "done"
                            /\ reader.seen = {k \in Whole : Rank(k) <= reader.last}
  BY <1>1 DEF IInv, Typed, ReaderOK, RecordsOK, ReaderRecord
<1>4. PICK seen, last, pc :
        /\ reader' = [reader EXCEPT !.seen = seen, !.last = last, !.pc = pc]
        /\ seen = reader.seen \cup Page /\ last = LastKey(Page)
        /\ pc = IF Page = Remaining THEN "assemble" ELSE "query"
  BY DEF query_page
<1>5. Page \in SUBSET Whole
  BY <1>3 DEF Page, Remaining
<1>6. last \in Nat
  <2>1. CASE Page = {}
    BY <1>3, <1>4, <2>1 DEF LastKey, ReaderRecord
  <2>2. CASE Page # {}
    <3>1. \E k \in Page : \A j \in Page : Rank(j) <= Rank(k)
      BY <1>2, <1>5, <2>2, LastOfPage
    <3>2. PICK k \in Page : LastKey(Page) = Rank(k)
      BY <2>2, <3>1 DEF LastKey
    <3>3. Rank(k) \in 1..200
      BY <1>2, <1>5, WholeFact
    <3> QED
      BY <1>4, <3>2, <3>3
  <2> QED
    BY <2>1, <2>2
<1>7. reader' = [pc |-> pc, id |-> reader.id, last |-> last, seen |-> seen, got |-> "nothing",
                 promised |-> reader.promised]
  BY <1>3, <1>4 DEF ReaderRecord
<1>8. reader' \in ReaderRecord
  <2>1. seen \in SUBSET Whole /\ pc \in ReaderPC /\ "nothing" \in Answer
    BY <1>3, <1>4, <1>5 DEF ReaderRecord, ReaderPC, Answer
  <2>2. reader.id \in Result /\ reader.promised \in BOOLEAN
    BY <1>3 DEF ReaderRecord
  <2> QED
    BY <1>6, <1>7, <2>1, <2>2 DEF ReaderRecord
<1>9. reader.promised =>
        seen = {k \in Whole : Rank(k) <= last} /\ (pc = "assemble" => seen = Whole)
  BY <1>2, <1>3, <1>4, PagesLeaveNoGap DEF ReaderRecord
<1>10. pc \in {"query", "assemble"}
  BY <1>4
<1>11. {k \in Whole : Rank(k) <= reader.last}' = {k \in Whole : Rank(k) <= last}
  BY <1>2, <1>7 DEF Rank
<1>12. ReaderOK'
  BY <1>1, <1>2, <1>3, <1>7, <1>9, <1>10, <1>11 DEF ReaderOK, StoredUnchanged
<1> QED
  BY <1>1, <1>8, <1>12, ReaderMoves

\* What was read is assembled.
LEMMA AssembleKeeps ==
    ASSUME IInv, assemble, UNCHANGED <<objects, lied>>
    PROVE  IInv'
<1>1. StoredUnchanged /\ reader.pc = "assemble"
  BY DEF assemble, StoredUnchanged
<1>2. Plan' = Plan /\ Whole' = Whole
  BY <1>1, PlanKept DEF StoredUnchanged
<1>3. reader \in ReaderRecord
  BY DEF IInv, Typed, ReaderRecord
<1>4. reader' = [reader EXCEPT !.pc = "returned", !.got = from_items(reader.seen)]
  BY DEF assemble
<1>5. from_items(reader.seen) \in Answer
  BY DEF from_items, Answer
<1>6. reader' = [pc |-> "returned", id |-> reader.id, last |-> reader.last, seen |-> reader.seen,
                 got |-> from_items(reader.seen), promised |-> reader.promised]
  BY <1>3, <1>4 DEF ReaderRecord
<1>7. reader' \in ReaderRecord
  BY <1>3, <1>5, <1>6 DEF ReaderRecord, ReaderPC
<1>8. from_items(reader.seen)' = from_items(reader.seen)
  BY <1>1, <1>2, <1>6 DEF from_items, OfKind, StoredUnchanged
<1>9. ReaderOK'
  BY <1>1, <1>2, <1>6, <1>8 DEF ReaderOK, IInv, StoredUnchanged
<1> QED
  BY <1>1, <1>7, <1>9, ReaderMoves

\* The answer is taken.
LEMMA ReaderDoneKeeps ==
    ASSUME IInv, reader_done, UNCHANGED <<objects, lied>>
    PROVE  IInv'
<1>1. StoredUnchanged /\ reader' = NoReader
  BY DEF reader_done, StoredUnchanged
<1>2. reader' \in ReaderRecord
  BY <1>1 DEF ReaderRecord, NoReader, ReaderPC, Answer
<1>3. ReaderOK'
  BY <1>1 DEF ReaderOK, NoReader
<1> QED
  BY <1>1, <1>2, <1>3, ReaderMoves

(* ------------------------------ the theorems ---------------------------- *)

\* A step that changes nothing keeps the invariant.
LEMMA StutterKeeps == ASSUME IInv, UNCHANGED vars PROVE IInv'
<1>1. StoredUnchanged /\ reader' = reader
  BY DEF vars, results, StoredUnchanged
<1>2. reader' \in ReaderRecord
  BY <1>1 DEF IInv, Typed, ReaderRecord
<1>3. ReaderOK'
  BY <1>1, ReaderKept DEF IInv, StoredUnchanged
<1> QED
  BY <1>1, <1>2, <1>3, ReaderMoves

\* Every step keeps the invariant.
LEMMA NextIInv == IInv /\ [Next]_vars => IInv'
<1> SUFFICES ASSUME IInv, [Next]_vars PROVE IInv'
  OBVIOUS
<1>1. ASSUME NEW r \in Result, begin(r) PROVE IInv'
  BY <1>1, BeginKeeps
<1>2. ASSUME NEW r \in Result, save_artifact(r) PROVE IInv'
  BY <1>2, SaveKeeps
<1>3. ASSUME NEW r \in Result, save_raises(r) PROVE IInv'
  BY <1>3, SaveRaisesKeeps
<1>4. ASSUME NEW r \in Result, start_cleanup(r) PROVE IInv'
  BY <1>4, StartCleanupKeeps
<1>5. ASSUME NEW r \in Result, cleanup(r) PROVE IInv'
  BY <1>5, CleanupKeeps
<1>6. ASSUME NEW r \in Result, fail_job(r) PROVE IInv'
  BY <1>6, FailJobKeeps
<1>7. ASSUME NEW r \in Result, cut_off(r) PROVE IInv'
  BY <1>7, CutOffKeeps
<1>8. ASSUME NEW r \in Result, put_record(r), UNCHANGED <<objects, lied>> PROVE IInv'
  BY <1>8, PutRecordKeeps
<1>9. ASSUME NEW r \in Result, create_returns(r), UNCHANGED <<objects, lied>> PROVE IInv'
  BY <1>9, CreateReturnsKeeps
<1>10. ASSUME NEW r \in Result, create_raises(r), UNCHANGED objects,
              lied' = (IF Lies(r) THEN lied \cup {r} ELSE lied)
       PROVE  IInv'
  BY <1>10, CreateRaisesKeeps
<1>11. ASSUME ReaderStep, UNCHANGED <<objects, lied>> PROVE IInv'
  BY <1>11, FindResultKeeps, QueryPageKeeps, AssembleKeeps, ReaderDoneKeeps DEF ReaderStep
<1>12. CASE UNCHANGED vars
  BY <1>12, StutterKeeps
<1> QED
  BY <1>1, <1>2, <1>3, <1>4, <1>5, <1>6, <1>7, <1>8, <1>9, <1>10, <1>11, <1>12 DEF Next

\* The invariant holds in every state.
THEOREM Invariant == Spec => []IInv
BY InitIInv, NextIInv, PTL DEF Spec

\* Every variable keeps its type, and nothing is stored that is not of the plan.
THEOREM TypeCorrect == Spec => []TypeOK
<1>1. IInv => TypeOK
  <2> SUFFICES ASSUME IInv PROVE TypeOK
    OBVIOUS
  <2>1. Len(Plan) \in Nat
    BY PlanTypes DEF IInv, Typed
  <2>2. \A r \in Result : items[r] \subseteq Whole /\ objects[r] \subseteq Format
    BY DEF IInv, Typed
  <2>3. ASSUME NEW r \in Result
        PROVE  writer[r].pc \in WriterPC /\ writer[r].next \in 0..(Len(Plan) + 1)
    <3>1. writer[r] \in [pc : WriterPC, next : Nat] /\ writer[r].next <= Len(Plan) + 1
      BY WriterTypes DEF IInv, RecordsOK
    <3> QED
      BY <2>1, <3>1
  <2>4. reader.seen \subseteq Whole
    BY DEF IInv, Typed
  <2> QED
    BY <2>2, <2>3, <2>4 DEF TypeOK, WriterPC, IInv, Typed
<1> QED
  BY <1>1, Invariant, PTL

\* A result that is returned is whole: whatever is between its writer's puts
\* and between the reader's pages, for every repository and any page size.
THEOREM ReadsAreWhole == Spec => []ReadIsWhole
<1>1. IInv => ReadIsWhole
  <2> SUFFICES ASSUME IInv, reader.got = "result" PROVE reader.seen = Whole
    BY DEF ReadIsWhole
  <2>1. repo \in DOMAIN Repository /\ reader.seen \in SUBSET Whole
    BY DEF IInv, Typed
  <2>2. from_items(reader.seen) = "result"
    BY DEF IInv, ReaderOK
  <2> QED
    BY <2>1, <2>2, CountsIdentifyTheWhole
<1> QED
  BY <1>1, Invariant, PTL

\* A result whose create returned before the read began is read back: the pages
\* leave no gap and every count agrees.
THEOREM CompletedReadsBack == Spec => []CompletedResultReadsBack
<1>1. IInv => CompletedResultReadsBack
  <2> SUFFICES ASSUME IInv, reader.pc = "returned", reader.promised
               PROVE  reader.got = "result"
    BY DEF CompletedResultReadsBack
  <2>1. repo \in DOMAIN Repository /\ reader.seen = Whole /\ reader.got = from_items(reader.seen)
    BY DEF IInv, Typed, ReaderOK
  <2>2. META \in Whole
    BY <2>1, WholeFact
  <2> QED
    BY <2>1, <2>2 DEF from_items
<1> QED
  BY <1>1, Invariant, PTL

\* An export that has ended is there with its three artifacts or not at all,
\* unless a call took effect although it failed or was cut off.
THEOREM ExportsAreAllOrNothing == Spec => []ExportIsAllOrNothing
<1>1. IInv => ExportIsAllOrNothing
  <2> SUFFICES ASSUME IInv, repo = "catalog_export", NEW r \in Result \ lied
               PROVE  /\ writer[r].pc = "done" => items[r] = Whole /\ objects[r] = Format
                      /\ writer[r].pc = "failed" =>
                           from_items(items[r]) # "result" /\ objects[r] = {}
    BY DEF ExportIsAllOrNothing
  <2>1. /\ RecordsOK(r) /\ ObjectsOK(r) /\ ShortOK(r)
        /\ items[r] \in SUBSET Whole /\ repo \in DOMAIN Repository
    BY DEF IInv, Typed
  <2>2. writer[r].pc = "failed" => from_items(items[r]) # "result"
    BY <2>1, CountsIdentifyTheWhole DEF ShortOK
  <2> QED
    BY <2>1, <2>2 DEF RecordsOK, ObjectsOK
<1> QED
  BY <1>1, Invariant, PTL

================================================================================
