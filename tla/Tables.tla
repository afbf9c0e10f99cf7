------------------------------- MODULE Tables -------------------------------
(***************************************************************************)
(* The tables of the application as the script create_tables.py defines    *)
(* them: the key of each table and of each of its indexes, as sets of      *)
(* attributes, and the order in which the script provides them.            *)
(***************************************************************************)
EXTENDS Naturals, Sequences

Table(name, key, indexes) == [name |-> name, key |-> key, indexes |-> indexes]
\* An index by its partition and sort attributes.
Index(name, partition, sort) == [name |-> name, key |-> {partition, sort}]
\* The records of one result or review lie under its identifier.
Records(name, id, indexes) == Table(name, {id, "recordKey"}, indexes)
JobIdIndex == Index("JobIdIndex", "jobId", "createdAt")
ProductCreatedAtIndex == Index("ProductCreatedAtIndex", "productId", "createdAt")

create_products_table == Table("products", {"productId"},
  {Index("CreatedAtIndex", "entityType", "createdAt"),
   Index("StatusCreatedAtIndex", "status", "createdAt"),
   Index("CategoryCreatedAtIndex", "category", "createdAt"),
   Index("CategoryStatusCreatedAtIndex", "categoryStatusKey", "createdAt"),
   Index("ManufacturerCreatedAtIndex", "normalizedManufacturer", "createdAt"),
   Index("ModelNumberCreatedAtIndex", "normalizedModelNumber", "createdAt"),
   Index("NameSearchIndex", "entityType", "normalizedName")})
create_sources_table ==
  Table("sources", {"productId", "sourceId"}, {ProductCreatedAtIndex})
\* The table without the index of a source's jobs.
create_processing_jobs_table_by_product ==
  Table("processing-jobs", {"jobId"}, {ProductCreatedAtIndex})
create_processing_jobs_table == Table("processing-jobs", {"jobId"},
  {ProductCreatedAtIndex, Index("SourceCreatedAtIndex", "sourceScope", "createdAt")})
create_extraction_results_table ==
  Records("extraction-results", "extractionId", {JobIdIndex})
create_table_extraction_results_table ==
  Records("table-extraction-results", "extractionId", {JobIdIndex})
create_csv_processing_results_table ==
  Records("csv-processing-results", "processingId", {JobIdIndex})
create_image_analysis_results_table ==
  Records("image-analysis-results", "analysisId", {JobIdIndex})
create_image_ocr_results_table ==
  Records("image-ocr-results", "ocrId", {JobIdIndex})
create_product_classification_results_table ==
  Records("product-classification-results", "classificationId", {JobIdIndex})
create_category_attribute_schemas_table ==
  Table("category-attribute-schemas", {"category", "version"}, {})
create_structured_attribute_extraction_results_table ==
  Records("structured-attribute-extraction-results", "extractionId", {JobIdIndex})
create_attribute_normalization_results_table ==
  Records("attribute-normalization-results", "normalizationId", {JobIdIndex})
create_attribute_conflict_detection_results_table ==
  Records("attribute-conflict-detection-results", "conflictDetectionId", {JobIdIndex})
create_attribute_completeness_results_table ==
  Records("attribute-completeness-results", "completenessId", {JobIdIndex})
create_attribute_validation_results_table ==
  Records("attribute-validation-results", "validationId", {JobIdIndex})
create_attribute_selection_results_table ==
  Records("attribute-selection-results", "selectionId", {JobIdIndex})
create_product_reviews_table ==
  Records("product-reviews", "reviewId", {})
create_reviewed_attribute_results_table ==
  Records("reviewed-attribute-results", "materializationId",
          {JobIdIndex, Index("ReviewIdIndex", "reviewId", "createdAt")})
create_catalog_projection_results_table ==
  Records("catalog-projection-results", "projectionId",
          {JobIdIndex, Index("MaterializationIdIndex", "materializationId", "createdAt"),
           ProductCreatedAtIndex})
create_catalog_export_results_table ==
  Records("catalog-export-results", "exportId",
          {JobIdIndex, Index("ProjectionIdIndex", "projectionId", "createdAt")})
create_catalog_enrichment_results_table ==
  Records("catalog-enrichment-results", "enrichmentId",
          {JobIdIndex, Index("ProjectionIdIndex", "projectionId", "createdAt")})
create_product_intelligence_score_results_table ==
  Records("product-intelligence-score-results", "scoreId",
          {JobIdIndex, ProductCreatedAtIndex,
           Index("ProjectionIdIndex", "projectionId", "createdAt")})
create_catalog_intelligence_workflows_table ==
  Records("catalog-intelligence-workflows", "workflowId", {ProductCreatedAtIndex})

main == << create_products_table, create_sources_table, create_processing_jobs_table,
  create_extraction_results_table, create_table_extraction_results_table,
  create_csv_processing_results_table, create_image_analysis_results_table,
  create_image_ocr_results_table, create_product_classification_results_table,
  create_category_attribute_schemas_table,
  create_structured_attribute_extraction_results_table,
  create_attribute_normalization_results_table,
  create_attribute_conflict_detection_results_table,
  create_attribute_completeness_results_table, create_attribute_validation_results_table,
  create_attribute_selection_results_table, create_product_reviews_table,
  create_reviewed_attribute_results_table, create_catalog_projection_results_table,
  create_catalog_export_results_table, create_catalog_enrichment_results_table,
  create_product_intelligence_score_results_table,
  create_catalog_intelligence_workflows_table >>

=============================================================================
