-------------------------------- MODULE Errors --------------------------------
(***************************************************************************)
(* The exception classes of the application, which of them carry a code    *)
(* and a safe message, and the HTTP status with which a request that       *)
(* raises one is answered.  A class is its name; a code is the class that  *)
(* defines or inherits it.                                                 *)
(***************************************************************************)
EXTENDS Naturals, Sequences, TLC

Class(name, parent, coded) == [class |-> name, parent |-> parent, coded |-> coded]
Coded(base, parent, leaves) ==
  {Class(base, parent, TRUE)} \cup {Class(leaf, base, TRUE) : leaf \in leaves}
Plain(base, parent, leaves) ==
  {Class(base, parent, FALSE)} \cup {Class(leaf, base, FALSE) : leaf \in leaves}

product_errors ==
  Plain("ProductRepositoryError", "Exception", {"ProductAlreadyExistsError",
      "ProductNotFoundError", "ProductVersionConflictError", "ProductStatusConflictError",
      "InvalidProductCursorError", "ProductSerializationError"})

product_source_errors ==
  Plain("ProductSourceRepositoryError", "Exception", {"ProductSourceAlreadyExistsError",
      "ProductSourceNotFoundError", "ProductSourceVersionConflictError",
      "InvalidProductSourceCursorError", "ProductSourceSerializationError"})
  \cup Plain("InvalidProductSourceStatusTransitionError", "Exception", {})
  \cup Plain("ProductSourceStorageConsistencyError", "Exception", {})

processing_job_errors ==
  Plain("ProcessingJobRepositoryError", "Exception", {"ProcessingJobAlreadyExistsError",
      "ProcessingJobNotFoundError", "ProcessingJobVersionConflictError",
      "InvalidProcessingJobCursorError", "ProcessingJobSerializationError"})
  \cup Plain("InvalidProcessingJobStatusTransitionError", "Exception", {})
  \cup Plain("ProcessingJobTypeNotSupportedForSourceError", "Exception", {})

pdf_text_extraction_errors ==
  Coded("PdfTextExtractionError", "Exception", {"InvalidPdfExtractionJobError",
      "InvalidPdfSourceError", "PdfParseError", "PdfExtractionPageLimitExceededError",
      "PdfExtractionTextLimitExceededError", "PdfExtractionObjectNotFoundError",
      "PdfExtractionObjectStorageError", "PdfExtractionResultStorageError"})
  \cup Plain("PdfExtractionRepositoryError", "Exception",
      {"PdfExtractionResultAlreadyExistsError", "PdfExtractionSerializationError"})

pdf_table_extraction_errors ==
  Coded("PdfTableExtractionError", "Exception", {"InvalidPdfTableExtractionJobError",
      "InvalidPdfTableSourceError", "PdfTableParseError",
      "PdfTableExtractionPageLimitExceededError", "PdfTableExtractionTableLimitExceededError",
      "PdfTableExtractionRowLimitExceededError", "PdfTableExtractionColumnLimitExceededError",
      "PdfTableExtractionCellLimitExceededError",
      "PdfTableExtractionCellTextLimitExceededError", "PdfTableExtractionObjectNotFoundError",
      "PdfTableExtractionObjectStorageError", "PdfTableExtractionResultStorageError"})
  \cup Plain("PdfTableExtractionRepositoryError", "Exception",
      {"PdfTableExtractionResultAlreadyExistsError", "PdfTableExtractionSerializationError"})

csv_processing_errors ==
  Coded("CsvProcessingError", "Exception", {"InvalidCsvProcessingJobError",
      "InvalidCsvSourceError", "CsvEncodingUnsupportedError", "CsvDelimiterUndeterminedError",
      "CsvEmptyFileError", "CsvParseError", "CsvFileSizeLimitExceededError",
      "CsvRowLimitExceededError", "CsvColumnLimitExceededError", "CsvCellLimitExceededError",
      "CsvCellTextLimitExceededError", "CsvResultItemTooLargeError", "CsvObjectNotFoundError",
      "CsvObjectStorageError", "CsvProcessingResultStorageError"})
  \cup Plain("CsvProcessingRepositoryError", "Exception",
      {"CsvProcessingResultAlreadyExistsError", "CsvProcessingSerializationError"})

image_analysis_errors ==
  Coded("ImageAnalysisError", "Exception", {"InvalidImageAnalysisJobError",
      "InvalidImageSourceError", "ImageDecodeError", "ImageFormatUnsupportedError",
      "ImageFormatMismatchError", "ImageAnimationNotSupportedError",
      "ImageAnalysisFileSizeLimitExceededError", "ImageAnalysisWidthLimitExceededError",
      "ImageAnalysisHeightLimitExceededError", "ImageAnalysisPixelLimitExceededError",
      "ImageAnalysisRegionLimitExceededError", "ImageObjectNotFoundError",
      "ImageObjectStorageError", "ImageAnalysisResultStorageError"})
  \cup Plain("ImageAnalysisRepositoryError", "Exception",
      {"ImageAnalysisResultAlreadyExistsError", "ImageAnalysisSerializationError"})

image_ocr_errors ==
  Coded("ImageOcrError", "Exception", {"InvalidImageOcrJobError",
      "InvalidImageOcrSourceError", "ImageAnalysisResultRequiredError",
      "ImageOcrEngineUnavailableError", "ImageOcrEngineError", "ImageOcrRegionInvalidError",
      "ImageOcrRegionLimitExceededError", "ImageOcrBlockLimitExceededError",
      "ImageOcrTextLimitExceededError", "ImageOcrResultItemTooLargeError",
      "ImageOcrObjectNotFoundError", "ImageOcrObjectStorageError",
      "ImageOcrResultStorageError"})
  \cup Plain("ImageOcrRepositoryError", "Exception", {"ImageOcrResultAlreadyExistsError",
      "ImageOcrSerializationError"})

object_storage_errors ==
  Plain("ProductSourceUploadValidationError", "Exception",
      {"InvalidProductSourceFilenameError", "UnsupportedProductSourceFileTypeError",
      "ProductSourceMimeTypeMismatchError", "InvalidProductSourceFileContentError"})
  \cup Plain("ObjectStorageError", "Exception", {"InvalidObjectKeyError",
      "UnsupportedObjectExtensionError", "ObjectAlreadyExistsError", "ObjectNotFoundError",
      "ObjectSizeExceededError", "ObjectMetadataError", "ObjectStorageConfigurationError"})

product_classification_errors ==
  Coded("ProductClassificationError", "Exception", {"InvalidProductClassificationJobError",
      "ProductClassificationProductNotFoundError",
      "ProductClassificationEvidenceLimitExceededError",
      "ProductClassificationMatchLimitExceededError",
      "ProductClassificationResultItemTooLargeError",
      "ProductClassificationResultStorageError"})
  \cup Plain("ProductClassificationRepositoryError", "Exception",
      {"ProductClassificationResultAlreadyExistsError",
      "ProductClassificationSerializationError"})

category_schema_errors ==
  Coded("CategoryAttributeSchemaError", "Exception",
      {"CategoryAttributeSchemaNotAvailableError", "CategoryAttributeSchemaValidationError",
      "CategoryAttributeSchemaVersionDriftError", "CategoryAttributeSchemaItemTooLargeError"})
  \cup Coded("CategoryAttributeSchemaValidationError", "CategoryAttributeSchemaError",
      {"CategoryAttributeAliasConflictError"})
  \cup Plain("CategoryAttributeSchemaRepositoryError", "Exception",
      {"CategoryAttributeSchemaAlreadyExistsError",
      "CategoryAttributeSchemaSerializationError"})

attribute_extraction_errors ==
  Coded("StructuredAttributeExtractionError", "Exception",
      {"InvalidStructuredAttributeExtractionJobError",
      "StructuredAttributeExtractionPrerequisiteError",
      "StructuredAttributeExtractionLimitExceededError",
      "StructuredAttributeExtractionResultStorageError",
      "StructuredAttributeExtractionResultItemTooLargeError"})
  \cup Plain("StructuredAttributeExtractionRepositoryError", "Exception",
      {"StructuredAttributeExtractionResultAlreadyExistsError",
      "StructuredAttributeExtractionSerializationError"})

attribute_normalization_errors ==
  Coded("AttributeNormalizationError", "Exception",
      {"InvalidAttributeNormalizationJobError", "AttributeNormalizationExtractionRequiredError",
      "AttributeNormalizationSchemaNotAvailableError",
      "AttributeNormalizationSchemaMismatchError",
      "AttributeNormalizationCandidateLimitExceededError",
      "AttributeNormalizationResultItemTooLargeError",
      "AttributeNormalizationResultStorageError"})
  \cup Plain("AttributeNormalizationRepositoryError", "Exception",
      {"AttributeNormalizationResultAlreadyExistsError",
      "AttributeNormalizationSerializationError"})

attribute_conflict_errors ==
  Coded("AttributeConflictDetectionError", "Exception",
      {"InvalidAttributeConflictDetectionJobError",
      "AttributeConflictNormalizationRequiredError",
      "AttributeConflictCrossProductLineageError", "AttributeConflictLimitExceededError",
      "AttributeConflictResultItemTooLargeError", "AttributeConflictResultStorageError"})
  \cup Coded("AttributeConflictLimitExceededError", "AttributeConflictDetectionError",
      {"AttributeConflictAttributeLimitExceededError",
      "AttributeConflictCandidateLimitExceededError",
      "AttributeConflictGroupLimitExceededError"})
  \cup Plain("AttributeConflictRepositoryError", "Exception",
      {"AttributeConflictResultAlreadyExistsError", "AttributeConflictSerializationError"})

attribute_completeness_errors ==
  Coded("AttributeCompletenessError", "Exception", {"InvalidAttributeCompletenessJobError",
      "AttributeCompletenessConflictResultRequiredError",
      "AttributeCompletenessCrossProductLineageError",
      "AttributeCompletenessSchemaNotAvailableError",
      "AttributeCompletenessSchemaMismatchError",
      "AttributeCompletenessAttributeLimitExceededError",
      "AttributeCompletenessCandidateIdLimitExceededError",
      "AttributeCompletenessResultItemTooLargeError",
      "AttributeCompletenessResultStorageError"})
  \cup Plain("AttributeCompletenessRepositoryError", "Exception",
      {"AttributeCompletenessResultAlreadyExistsError",
      "AttributeCompletenessSerializationError"})

attribute_validation_errors ==
  Coded("AttributeValidationError", "Exception", {"InvalidAttributeValidationJobError",
      "AttributeValidationNormalizationRequiredError",
      "AttributeValidationCrossProductLineageError",
      "AttributeValidationSchemaNotAvailableError", "AttributeValidationSchemaMismatchError",
      "AttributeValidationUnknownAttributeError", "AttributeValidationSchemaRuleInvalidError",
      "AttributeValidationCandidateLimitExceededError",
      "AttributeValidationAttributeLimitExceededError",
      "AttributeValidationValueLimitExceededError",
      "AttributeValidationIssueLimitExceededError",
      "AttributeValidationResultItemTooLargeError", "AttributeValidationResultStorageError"})
  \cup Plain("AttributeValidationRepositoryError", "Exception",
      {"AttributeValidationResultAlreadyExistsError", "AttributeValidationSerializationError"})

attribute_selection_errors ==
  Coded("AttributeSelectionError", "Exception", {"InvalidAttributeSelectionJobError",
      "AttributeSelectionConflictResultRequiredError",
      "AttributeSelectionValidationResultRequiredError",
      "AttributeSelectionCompletenessResultRequiredError",
      "AttributeSelectionNormalizationRequiredError",
      "AttributeSelectionCrossProductLineageError", "AttributeSelectionLineageMismatchError",
      "AttributeSelectionAttributeLimitExceededError",
      "AttributeSelectionCandidateLimitExceededError",
      "AttributeSelectionReasonLimitExceededError", "AttributeSelectionResultItemTooLargeError",
      "AttributeSelectionResultStorageError"})
  \cup Plain("AttributeSelectionRepositoryError", "Exception",
      {"AttributeSelectionResultAlreadyExistsError", "AttributeSelectionSerializationError"})

product_review_errors ==
  Coded("ProductReviewError", "Exception", {"AttributeSelectionNotFoundForReviewError",
      "ProductReviewNotFoundError", "ProductReviewAttributeNotFoundError",
      "ProductReviewCandidateNotFoundError", "ProductReviewAlreadyExistsError",
      "ProductReviewVersionConflictError", "ProductReviewAlreadyCompletedError",
      "ProductReviewRequiredAttributesUnresolvedError",
      "ProductReviewSelectionLineageInvalidError", "ProductReviewDecisionNotAllowedError",
      "ProductReviewCandidateNotApprovableError", "ProductReviewManualOverrideInvalidError",
      "ProductReviewDecisionLimitExceededError", "ProductReviewItemTooLargeError",
      "InvalidProductReviewCursorError"})
  \cup Plain("ProductReviewRepositoryError", "Exception", {"ProductReviewSerializationError"})

reviewed_attribute_errors ==
  Coded("ReviewedAttributeMaterializationError", "Exception",
      {"InvalidReviewedAttributeMaterializationJobError",
      "ReviewedMaterializationReviewRequiredError",
      "ReviewedMaterializationReviewNotCompletedError",
      "ReviewedMaterializationCrossProductLineageError",
      "ReviewedMaterializationLineageMismatchError",
      "ReviewedMaterializationSchemaNotAvailableError",
      "ReviewedMaterializationSchemaMismatchError",
      "ReviewedMaterializationReviewStateInvalidError",
      "ReviewedMaterializationRequiredAttributeUnresolvedError",
      "ReviewedMaterializationUnknownAttributeError",
      "ReviewedMaterializationDecisionInvalidError",
      "ReviewedMaterializationAlreadyExistsError",
      "ReviewedMaterializationAttributeLimitExceededError",
      "ReviewedMaterializationResultItemTooLargeError",
      "ReviewedMaterializationResultStorageError"})
  \cup Plain("ReviewedAttributeRepositoryError", "Exception",
      {"ReviewedAttributeSerializationError"})

catalog_projection_errors ==
  Coded("CatalogProjectionError", "Exception", {"InvalidCatalogProjectionJobError",
      "CatalogProjectionProductRequiredError", "CatalogProjectionMaterializationRequiredError",
      "CatalogProjectionCrossProductLineageError", "CatalogProjectionCategoryMismatchError",
      "CatalogProjectionLineageInvalidError",
      "CatalogProjectionRequiredAttributesIncompleteError",
      "CatalogProjectionAlreadyExistsError", "CatalogProjectionAttributeLimitExceededError",
      "CatalogProjectionReasonLimitExceededError",
      "CatalogProjectionProductTextLimitExceededError",
      "CatalogProjectionValueLimitExceededError", "CatalogProjectionResultItemTooLargeError",
      "CatalogProjectionResultStorageError"})
  \cup Plain("CatalogProjectionRepositoryError", "Exception",
      {"CatalogProjectionSerializationError"})

publishing_readiness_errors ==
  Coded("PublishingReadinessError", "Exception", {"CatalogProjectionNotFoundError",
      "PublishingReadinessCrossProductProjectionError", "PublishingReadinessBlockedError",
      "PublishingReadinessProductChangedError",
      "PublishingReadinessStatusTransitionNotAllowedError",
      "ProductAlreadyReadyToPublishError"})

catalog_export_errors ==
  Coded("CatalogExportError", "Exception", {"InvalidCatalogExportJobError",
      "CatalogExportProductRequiredError", "CatalogExportProjectionRequiredError",
      "CatalogExportCrossProductProjectionError", "CatalogExportProjectionBlockedError",
      "CatalogExportLineageInvalidError", "CatalogExportAlreadyExistsError",
      "CatalogExportAttributeLimitExceededError", "CatalogExportJsonSizeLimitExceededError",
      "CatalogExportCsvSizeLimitExceededError", "CatalogExportManifestSizeLimitExceededError",
      "CatalogExportSerializationError", "CatalogExportStorageError",
      "CatalogExportResultItemTooLargeError", "CatalogExportResultStorageError"})
  \cup Plain("CatalogExportRepositoryError", "Exception",
      {"CatalogExportResultSerializationError"})

catalog_enrichment_errors ==
  Coded("CatalogEnrichmentError", "Exception", {"InvalidCatalogEnrichmentJobError",
      "CatalogEnrichmentProductRequiredError", "CatalogEnrichmentProjectionRequiredError",
      "CatalogEnrichmentCrossProductProjectionError", "CatalogEnrichmentProjectionBlockedError",
      "CatalogEnrichmentLineageInvalidError", "CatalogEnrichmentTrustedFactLimitError",
      "CatalogEnrichmentAlreadyExistsError", "CatalogEnrichmentProviderUnavailableError",
      "CatalogEnrichmentProviderTimeoutError", "CatalogEnrichmentProviderRateLimitedError",
      "CatalogEnrichmentProviderFailedError", "CatalogEnrichmentResponseInvalidError",
      "CatalogEnrichmentGroundingFailedError", "CatalogEnrichmentUnsupportedNumericClaimError",
      "CatalogEnrichmentUnsupportedFactualClaimError", "CatalogEnrichmentOutputLimitError",
      "CatalogEnrichmentResultItemTooLargeError", "CatalogEnrichmentStorageError"})
  \cup Plain("CatalogEnrichmentRepositoryError", "Exception",
      {"CatalogEnrichmentResultSerializationError"})

product_intelligence_errors ==
  Coded("ProductIntelligenceScoreError", "Exception",
      {"InvalidProductIntelligenceScoreJobError", "ProductIntelligenceProjectionRequiredError",
      "ProductIntelligenceCrossProductLineageError", "ProductIntelligenceLineageMismatchError",
      "ProductIntelligenceEnrichmentMismatchError",
      "ProductIntelligenceRequiredComponentInvalidError",
      "ProductIntelligenceWeightInvalidError", "ProductIntelligenceLimitExceededError",
      "ProductIntelligenceAlreadyExistsError", "ProductIntelligenceResultItemTooLargeError",
      "ProductIntelligenceStorageError"})
  \cup Plain("ProductIntelligenceScoreRepositoryError", "Exception",
      {"ProductIntelligenceScoreSerializationError"})

catalog_search_errors ==
  Coded("CatalogSearchError", "Exception", {"InvalidCatalogSearchCursorError",
      "CatalogSearchFilterCombinationUnsupportedError", "CatalogSearchStorageUnavailableError"})
  \cup Coded("ProductIntelligenceReadError", "Exception",
      {"InvalidProductIntelligenceCursorError", "ProductIntelligenceScoreNotFoundError"})

catalog_workflow_errors ==
  Coded("CatalogWorkflowError", "Exception", {"CatalogWorkflowNotFoundError",
      "CatalogWorkflowAlreadyActiveError", "CatalogWorkflowVersionConflictError",
      "CatalogWorkflowResumeNotAllowedError", "CatalogWorkflowReviewNotCompletedError",
      "CatalogWorkflowNoProductSourcesError", "CatalogWorkflowSourceLimitExceededError",
      "InvalidCatalogWorkflowCursorError", "CatalogWorkflowRepositoryError"})

unilog_challenge_errors ==
  Coded("UnilogChallengeError", "Exception", {"UnilogChallengeInputNotFoundError",
      "UnilogChallengeOutputNotFoundError", "UnilogChallengeInputSchemaInvalidError",
      "UnilogChallengeOutputSchemaInvalidError", "UnilogChallengeRowAlignmentAmbiguousError"})

\* Any error that no class of the application describes.
builtin_errors == {Class("ValueError", "Exception", FALSE)}

Hierarchy ==
  product_errors \cup product_source_errors \cup processing_job_errors
  \cup pdf_text_extraction_errors \cup pdf_table_extraction_errors \cup csv_processing_errors
  \cup image_analysis_errors \cup image_ocr_errors \cup object_storage_errors
  \cup product_classification_errors \cup category_schema_errors
  \cup attribute_extraction_errors \cup attribute_normalization_errors
  \cup attribute_conflict_errors \cup attribute_completeness_errors
  \cup attribute_validation_errors \cup attribute_selection_errors \cup product_review_errors
  \cup reviewed_attribute_errors \cup catalog_projection_errors
  \cup publishing_readiness_errors \cup catalog_export_errors \cup catalog_enrichment_errors
  \cup product_intelligence_errors \cup catalog_search_errors \cup catalog_workflow_errors
  \cup unilog_challenge_errors \cup builtin_errors

Parent == [c \in {d.class : d \in Hierarchy} \cup {"Exception"} |->
            IF c = "Exception" THEN c ELSE (CHOOSE d \in Hierarchy : d.class = c).parent]
MRO == [c \in DOMAIN Parent |->
         <<c, Parent[c], Parent[Parent[c]], Parent[Parent[Parent[c]]], "Exception">>]

\* The classes an except clause or a handler for base applies to.
Subclasses(base) == {c \in DOMAIN MRO : \E i \in 1..5: MRO[c][i] = base}
SubclassesOf == [base \in DOMAIN MRO |-> Subclasses(base)]
IsA(c, base) == c \in SubclassesOf[base]

\* The part of MRO that decides: the most specific class in S.
MostSpecific(c, S) == MRO[c][CHOOSE i \in 1..5 : MRO[c][i] \in S /\ \A j \in 1..(i - 1): MRO[c][j] \notin S]

HasCode(c) == \E d \in Hierarchy: d.class = c /\ d.coded
\* getattr(exc, "code", ...): the class stands for its code.
Code(c) == IF HasCode(c) THEN c ELSE "WORKFLOW_STAGE_FAILED"

-----------------------------------------------------------------------------
\* Status codes that classes of the families with a status_code define.
Statuses(status, classes) == {[class |-> c, status |-> status] : c \in classes}
ClassesOf(statuses) == {s.class : s \in statuses}
StatusIn(statuses, c) == (CHOOSE s \in statuses : s.class = c).status
status_code ==
  Statuses(400, {"InvalidProductReviewCursorError", "InvalidCatalogSearchCursorError",
                 "InvalidProductIntelligenceCursorError", "InvalidCatalogWorkflowCursorError"})
  \cup Statuses(404, {"AttributeSelectionNotFoundForReviewError", "ProductReviewNotFoundError",
                      "ProductReviewAttributeNotFoundError", "ProductReviewCandidateNotFoundError",
                      "CatalogProjectionNotFoundError", "ProductIntelligenceScoreNotFoundError",
                      "CatalogWorkflowNotFoundError"})
  \cup Statuses(409, {"ProductReviewAlreadyExistsError", "ProductReviewVersionConflictError",
                      "ProductReviewAlreadyCompletedError",
                      "ProductReviewRequiredAttributesUnresolvedError", "PublishingReadinessError",
                      "CatalogWorkflowAlreadyActiveError", "CatalogWorkflowVersionConflictError",
                      "CatalogWorkflowResumeNotAllowedError",
                      "CatalogWorkflowReviewNotCompletedError",
                      "CatalogWorkflowNoProductSourcesError",
                      "CatalogWorkflowSourceLimitExceededError"})
  \cup Statuses(422, {"ProductReviewError", "PublishingReadinessCrossProductProjectionError",
                      "CatalogSearchError"})
  \cup Statuses(503, {"CatalogSearchStorageUnavailableError", "ProductIntelligenceReadError",
                      "CatalogWorkflowError"})

\* Handlers that answer with a status of their own.
product_handlers ==
  Statuses(404, {"ProductNotFoundError"})
  \cup Statuses(409, {"ProductAlreadyExistsError", "ProductVersionConflictError"})
  \cup Statuses(400, {"InvalidProductCursorError"})
  \cup Statuses(503, {"ProductRepositoryError", "CatalogProjectionRepositoryError"})
product_source_handlers ==
  Statuses(404, {"ProductSourceNotFoundError"})
  \cup Statuses(409, {"ProductSourceAlreadyExistsError", "ProductSourceVersionConflictError",
                      "InvalidProductSourceStatusTransitionError"})
  \cup Statuses(400, {"InvalidProductSourceCursorError"})
  \cup Statuses(500, {"ProductSourceStorageConsistencyError"})
  \cup Statuses(503, {"ProductSourceRepositoryError"})
upload_handlers ==
  Statuses(422, {"InvalidProductSourceFilenameError", "UnsupportedProductSourceFileTypeError",
                 "ProductSourceMimeTypeMismatchError", "InvalidProductSourceFileContentError"})
  \cup Statuses(413, {"ObjectSizeExceededError"}) \cup Statuses(503, {"ObjectStorageError"})
processing_job_handlers ==
  Statuses(404, {"ProcessingJobNotFoundError"})
  \cup Statuses(409, {"ProcessingJobAlreadyExistsError"})
  \cup Statuses(400, {"InvalidProcessingJobCursorError"})
  \cup Statuses(422, {"ProcessingJobTypeNotSupportedForSourceError"})
  \cup Statuses(503, {"ProcessingJobRepositoryError", "ProductReviewRepositoryError"})
unexpected_error_handler == Statuses(500, {"Exception"})

\* Handlers that answer with the status_code of the error.
status_code_handlers ==
  {"CatalogWorkflowError", "PublishingReadinessError", "CatalogSearchError",
   "ProductIntelligenceReadError", "ProductReviewError"}

handlers == product_handlers \cup product_source_handlers \cup upload_handlers
            \cup processing_job_handlers \cup unexpected_error_handler

\* The handler registered for the most specific class of the error answers.
Answer(c) ==
  LET handled == MostSpecific(c, ClassesOf(handlers) \cup status_code_handlers)
  IN  IF handled \in status_code_handlers
      THEN StatusIn(status_code, MostSpecific(c, ClassesOf(status_code)))
      ELSE StatusIn(handlers, handled)

=============================================================================
