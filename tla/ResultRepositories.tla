-------------------------- MODULE ResultRepositories --------------------------
(***************************************************************************)
(* The seventeen result repositories, as data.  For each: the child records *)
(* of a result in the order create puts them, how create puts them, where  *)
(* a result is looked up (a global index, or the guard of its inputs), and *)
(* the kinds of records that the counts of META and of the parent records  *)
(* cover when the result is read back.  Two records stand for any number.  *)
(***************************************************************************)
EXTENDS Sequences

Key(kind, n) == [kind |-> kind, n |-> n]
Pair(kind) == <<Key(kind, 1), Key(kind, 2)>>
META == Key("META", 0)

\* create puts the records one after the other; no guard.
Composite(children) == [guarded |-> FALSE, atomic |-> FALSE, records |-> <<META>> \o children]
\* META and the guard in one transaction, the other records after it.
Guarded(children) == [guarded |-> TRUE, atomic |-> FALSE, records |-> <<META>> \o children]
\* Everything in one transaction.
Transaction(children) == [guarded |-> TRUE, atomic |-> TRUE, records |-> <<META>> \o children]

pdf_extraction_records == Pair("PAGE")
pdf_extraction_create == Composite(pdf_extraction_records)
pdf_extraction_lookups == {"JobIdIndex"}
pdf_extraction_counts == {"PAGE"}

pdf_table_extraction_records == Pair("TABLE")
pdf_table_extraction_create == Composite(pdf_table_extraction_records)
pdf_table_extraction_lookups == {"JobIdIndex"}
pdf_table_extraction_counts == {"TABLE"}

csv_processing_records == Pair("ROW")
csv_processing_create == Composite(csv_processing_records)
csv_processing_lookups == {"JobIdIndex"}
csv_processing_counts == {"ROW"}

image_analysis_records == Pair("REGION")
image_analysis_create == Composite(image_analysis_records)
image_analysis_lookups == {"JobIdIndex"}
image_analysis_counts == {"REGION"}

image_ocr_records == Pair("BLOCK")
image_ocr_create == Composite(image_ocr_records)
image_ocr_lookups == {"JobIdIndex"}
image_ocr_counts == {"BLOCK"}

product_classification_records == Pair("MATCH")
product_classification_create == Composite(product_classification_records)
product_classification_lookups == {"JobIdIndex"}
product_classification_counts == {"MATCH"}

structured_extraction_records == Pair("CANDIDATE")
structured_extraction_create == Composite(structured_extraction_records)
structured_extraction_lookups == {"JobIdIndex"}
structured_extraction_counts == {"CANDIDATE"}

attribute_normalization_records == Pair("CANDIDATE")
attribute_normalization_create == Composite(attribute_normalization_records)
attribute_normalization_lookups == {"JobIdIndex"}
attribute_normalization_counts == {"CANDIDATE"}

\* Each attribute is followed by its groups, which its own record counts.
attribute_conflicts_records ==
  <<Key("ATTRIBUTE", 1), Key("GROUP", 1), Key("ATTRIBUTE", 2), Key("GROUP", 2)>>
attribute_conflicts_create == Composite(attribute_conflicts_records)
attribute_conflicts_lookups == {"JobIdIndex"}
attribute_conflicts_counts_attributes == {"ATTRIBUTE"}
attribute_conflicts_counts == {"ATTRIBUTE", "GROUP"}

attribute_completeness_records == Pair("ATTRIBUTE")
attribute_completeness_create == Composite(attribute_completeness_records)
attribute_completeness_lookups == {"JobIdIndex"}
attribute_completeness_counts == {"ATTRIBUTE"}

attribute_validation_records == Pair("ASSESSMENT") \o Pair("SUMMARY")
attribute_validation_create == Composite(attribute_validation_records)
attribute_validation_lookups == {"JobIdIndex"}
attribute_validation_counts == {"ASSESSMENT", "SUMMARY"}

attribute_selection_records == Pair("ATTRIBUTE")
attribute_selection_create == Composite(attribute_selection_records)
attribute_selection_lookups == {"JobIdIndex"}
attribute_selection_counts == {"ATTRIBUTE"}

reviewed_attributes_records == Pair("ATTRIBUTE")
reviewed_attributes_create == Guarded(reviewed_attributes_records)
reviewed_attributes_lookups == {"JobIdIndex", "ReviewIdIndex"}
reviewed_attributes_counts == {"ATTRIBUTE"}

catalog_projection_records == Pair("ATTRIBUTE")
catalog_projection_create == Guarded(catalog_projection_records)
catalog_projection_lookups == {"JobIdIndex", "MaterializationIdIndex", "ProductCreatedAtIndex"}
catalog_projection_counts == {"ATTRIBUTE"}

catalog_enrichment_records ==
  <<Key("TITLE", 1), Key("DESCRIPTION", 1), Key("TECHNICAL_SUMMARY", 1)>>
  \o Pair("BULLET") \o Pair("KEYWORD")
catalog_enrichment_create == Guarded(catalog_enrichment_records)
catalog_enrichment_lookups == {"JobIdIndex", "ProjectionIdIndex"}
catalog_enrichment_counts == {"TITLE", "DESCRIPTION", "TECHNICAL_SUMMARY", "BULLET", "KEYWORD"}

\* get_by_input_key reads the guard, consistently.
product_intelligence_records == Pair("COMPONENT")
product_intelligence_create == Transaction(product_intelligence_records)
product_intelligence_lookups == {"JobIdIndex", "ProjectionIdIndex", "ProductCreatedAtIndex", "GUARD"}
product_intelligence_counts == {"COMPONENT"}

catalog_export_records == <<Key("ARTIFACT", 1), Key("ARTIFACT", 2), Key("ARTIFACT", 3)>>
catalog_export_create == Guarded(catalog_export_records)
catalog_export_lookups == {"JobIdIndex", "ProjectionIdIndex"}
catalog_export_counts == {"ARTIFACT"}

Repo(create, lookups, counts) == [create |-> create, lookups |-> lookups, counts |-> counts]

Repository ==
  [pdf_extraction |-> Repo(pdf_extraction_create, pdf_extraction_lookups, pdf_extraction_counts),
   pdf_table_extraction |-> Repo(pdf_table_extraction_create, pdf_table_extraction_lookups, pdf_table_extraction_counts),
   csv_processing |-> Repo(csv_processing_create, csv_processing_lookups, csv_processing_counts),
   image_analysis |-> Repo(image_analysis_create, image_analysis_lookups, image_analysis_counts),
   image_ocr |-> Repo(image_ocr_create, image_ocr_lookups, image_ocr_counts),
   product_classification |-> Repo(product_classification_create, product_classification_lookups, product_classification_counts),
   structured_extraction |-> Repo(structured_extraction_create, structured_extraction_lookups, structured_extraction_counts),
   attribute_normalization |-> Repo(attribute_normalization_create, attribute_normalization_lookups, attribute_normalization_counts),
   attribute_conflicts |-> Repo(attribute_conflicts_create, attribute_conflicts_lookups, attribute_conflicts_counts),
   attribute_completeness |-> Repo(attribute_completeness_create, attribute_completeness_lookups, attribute_completeness_counts),
   attribute_validation |-> Repo(attribute_validation_create, attribute_validation_lookups, attribute_validation_counts),
   attribute_selection |-> Repo(attribute_selection_create, attribute_selection_lookups, attribute_selection_counts),
   reviewed_attributes |-> Repo(reviewed_attributes_create, reviewed_attributes_lookups, reviewed_attributes_counts),
   catalog_projection |-> Repo(catalog_projection_create, catalog_projection_lookups, catalog_projection_counts),
   catalog_enrichment |-> Repo(catalog_enrichment_create, catalog_enrichment_lookups, catalog_enrichment_counts),
   product_intelligence |-> Repo(product_intelligence_create, product_intelligence_lookups, product_intelligence_counts),
   catalog_export |-> Repo(catalog_export_create, catalog_export_lookups, catalog_export_counts)]

=============================================================================
