----------------------------- MODULE StageServices -----------------------------
(***************************************************************************)
(* One run of one of the seventeen stage services, by the errors it meets: *)
(* which error the job is failed with, which one leaves the service, and   *)
(* which code the workflow's stage is failed with.  Every service is the   *)
(* same procedure - read the job, check and read what the stage needs,     *)
(* mark the job RUNNING, work, store the result, mark the job COMPLETED -  *)
(* with its own errors and its own except clauses, whose order matters.    *)
(***************************************************************************)
EXTENDS Errors

\* An except clause: what the job is failed with, and what is raised.
Clause(match, job, raised) == [match |-> match, job |-> job, raised |-> raised]
Translate(match, error) == Clause(match, error, error)
Keep(match) == Clause(match, "itself", "itself")
Record(match, error) == Clause(match, error, "itself")
Translated(clause_error, error) == IF clause_error = "itself" THEN error ELSE clause_error

ReadingClauses_storage_first(not_found, storage, own, repository, result_storage) ==
  << Translate("ObjectStorageError", storage),
     Translate("ObjectNotFoundError", not_found),
     Keep(own),
     Record(repository, result_storage),
     Translate("Exception", own) >>
ReadingClauses(not_found, storage, own, repository, result_storage) ==
  << Translate("ObjectNotFoundError", not_found),
     Translate("ObjectStorageError", storage),
     Keep(own),
     Record(repository, result_storage),
     Translate("Exception", own) >>
AnalysisClauses(own, repository, result_storage) ==
  << Keep(own), Translate(repository, result_storage), Translate("Exception", own) >>

\* checks: errors of its own before the job runs; reads: the repositories read
\* before that, and the error each one's error is turned into.
Service(own, invalid_job, checks, reads, work, store, clauses) ==
  [own |-> own, invalid_job |-> invalid_job, checks |-> checks, reads |-> reads,
   work |-> work, store |-> store, clauses |-> clauses]
Raw(repository) == Clause(repository, "none", "itself")
Hidden(repositories, error) == {Clause(r, "none", error) : r \in repositories}

open_object == {"ObjectNotFoundError", "ObjectStorageError", "InvalidObjectKeyError"}

pdf_text_extraction == Service("PdfTextExtractionError", "InvalidPdfExtractionJobError",
  {"InvalidPdfSourceError", "InvalidPdfExtractionJobError"},
  {Raw("ProductSourceRepositoryError"), Raw("PdfExtractionRepositoryError")},
  open_object \cup {"PdfParseError", "PdfExtractionPageLimitExceededError",
                    "PdfExtractionTextLimitExceededError", "ValueError"},
  {"PdfExtractionRepositoryError", "PdfExtractionResultAlreadyExistsError"},
  ReadingClauses("PdfExtractionObjectNotFoundError", "PdfExtractionObjectStorageError",
                 "PdfTextExtractionError", "PdfExtractionRepositoryError",
                 "PdfExtractionResultStorageError"))

pdf_table_extraction == Service("PdfTableExtractionError", "InvalidPdfTableExtractionJobError",
  {"InvalidPdfTableSourceError", "InvalidPdfTableExtractionJobError"},
  {Raw("ProductSourceRepositoryError"), Raw("PdfTableExtractionRepositoryError")},
  open_object \cup {"PdfTableParseError", "PdfTableExtractionPageLimitExceededError",
                    "PdfTableExtractionTableLimitExceededError",
                    "PdfTableExtractionCellLimitExceededError", "ValueError"},
  {"PdfTableExtractionRepositoryError", "PdfTableExtractionResultAlreadyExistsError"},
  ReadingClauses("PdfTableExtractionObjectNotFoundError",
                 "PdfTableExtractionObjectStorageError", "PdfTableExtractionError",
                 "PdfTableExtractionRepositoryError", "PdfTableExtractionResultStorageError"))

csv_processing == Service("CsvProcessingError", "InvalidCsvProcessingJobError",
  {"InvalidCsvSourceError", "InvalidCsvProcessingJobError"},
  {Raw("ProductSourceRepositoryError"), Raw("CsvProcessingRepositoryError")},
  open_object \cup {"CsvEncodingUnsupportedError", "CsvDelimiterUndeterminedError",
                    "CsvEmptyFileError", "CsvParseError", "CsvRowLimitExceededError",
                    "ValueError"},
  {"CsvProcessingRepositoryError", "CsvProcessingResultAlreadyExistsError",
   "CsvResultItemTooLargeError"},
  ReadingClauses("CsvObjectNotFoundError", "CsvObjectStorageError", "CsvProcessingError",
                 "CsvProcessingRepositoryError", "CsvProcessingResultStorageError"))

image_analysis == Service("ImageAnalysisError", "InvalidImageAnalysisJobError",
  {"InvalidImageSourceError", "InvalidImageAnalysisJobError"},
  {Raw("ProductSourceRepositoryError"), Raw("ImageAnalysisRepositoryError")},
  open_object \cup {"ImageDecodeError", "ImageFormatUnsupportedError",
                    "ImageFormatMismatchError", "ImageAnimationNotSupportedError",
                    "ImageAnalysisPixelLimitExceededError", "ValueError"},
  {"ImageAnalysisRepositoryError", "ImageAnalysisResultAlreadyExistsError"},
  ReadingClauses("ImageObjectNotFoundError", "ImageObjectStorageError", "ImageAnalysisError",
                 "ImageAnalysisRepositoryError", "ImageAnalysisResultStorageError"))

image_ocr == Service("ImageOcrError", "InvalidImageOcrJobError",
  {"InvalidImageOcrSourceError", "InvalidImageOcrJobError", "ImageAnalysisResultRequiredError",
   "ImageOcrRegionLimitExceededError", "ImageOcrRegionInvalidError"},
  {Raw("ProductSourceRepositoryError"), Raw("ImageOcrRepositoryError"),
   Raw("ProcessingJobRepositoryError"), Raw("ImageAnalysisRepositoryError")},
  open_object \cup {"ImageOcrEngineUnavailableError", "ImageOcrEngineError",
                    "ImageOcrRegionInvalidError", "ImageOcrBlockLimitExceededError",
                    "ImageOcrTextLimitExceededError", "ValueError"},
  {"ImageOcrRepositoryError", "ImageOcrResultAlreadyExistsError",
   "ImageOcrResultItemTooLargeError"},
  ReadingClauses("ImageOcrObjectNotFoundError", "ImageOcrObjectStorageError", "ImageOcrError",
                 "ImageOcrRepositoryError", "ImageOcrResultStorageError"))

reading_services == {pdf_text_extraction, pdf_table_extraction, csv_processing,
                     image_analysis, image_ocr}

-----------------------------------------------------------------------------
\* What the evidence of the sources is collected from.
evidence_errors == {"ProductSourceRepositoryError", "ProcessingJobRepositoryError",
                    "PdfExtractionRepositoryError", "PdfTableExtractionRepositoryError",
                    "CsvProcessingRepositoryError", "ImageOcrRepositoryError"}

product_classification == Service("ProductClassificationError",
  "InvalidProductClassificationJobError",
  {"ProductClassificationProductNotFoundError", "InvalidProductClassificationJobError"},
  Hidden({"ProductRepositoryError"}, "ProductClassificationError")
    \cup Hidden({"ProductClassificationRepositoryError"},
                "ProductClassificationResultStorageError"),
  evidence_errors \cup {"ProductClassificationEvidenceLimitExceededError",
                        "ProductClassificationMatchLimitExceededError", "ValueError"},
  {"ProductClassificationRepositoryError", "ProductClassificationResultAlreadyExistsError",
   "ProductClassificationResultItemTooLargeError"},
  AnalysisClauses("ProductClassificationError", "ProductClassificationRepositoryError",
                  "ProductClassificationResultStorageError"))

structured_extraction == Service("StructuredAttributeExtractionError",
  "InvalidStructuredAttributeExtractionJobError",
  {"StructuredAttributeExtractionPrerequisiteError",
   "InvalidStructuredAttributeExtractionJobError"},
  Hidden({"ProductRepositoryError", "ProductClassificationRepositoryError",
          "CategoryAttributeSchemaRepositoryError",
          "StructuredAttributeExtractionRepositoryError"},
         "StructuredAttributeExtractionPrerequisiteError"),
  evidence_errors \cup {"StructuredAttributeExtractionLimitExceededError", "ValueError"},
  {"StructuredAttributeExtractionRepositoryError",
   "StructuredAttributeExtractionResultAlreadyExistsError",
   "StructuredAttributeExtractionResultItemTooLargeError"},
  AnalysisClauses("StructuredAttributeExtractionError",
                  "StructuredAttributeExtractionRepositoryError",
                  "StructuredAttributeExtractionResultStorageError"))

attribute_normalization == Service("AttributeNormalizationError",
  "InvalidAttributeNormalizationJobError",
  {"AttributeNormalizationExtractionRequiredError",
   "AttributeNormalizationSchemaNotAvailableError",
   "AttributeNormalizationSchemaMismatchError", "InvalidAttributeNormalizationJobError"},
  Hidden({"StructuredAttributeExtractionRepositoryError", "ProductRepositoryError"},
         "AttributeNormalizationExtractionRequiredError")
    \cup Hidden({"CategoryAttributeSchemaRepositoryError"},
                "AttributeNormalizationSchemaNotAvailableError")
    \cup Hidden({"AttributeNormalizationRepositoryError"},
                "AttributeNormalizationResultStorageError"),
  {"AttributeNormalizationCandidateLimitExceededError", "ValueError"},
  {"AttributeNormalizationRepositoryError", "AttributeNormalizationResultAlreadyExistsError",
   "AttributeNormalizationResultItemTooLargeError"},
  AnalysisClauses("AttributeNormalizationError", "AttributeNormalizationRepositoryError",
                  "AttributeNormalizationResultStorageError"))

attribute_conflicts == Service("AttributeConflictDetectionError",
  "InvalidAttributeConflictDetectionJobError",
  {"AttributeConflictNormalizationRequiredError", "AttributeConflictCrossProductLineageError",
   "InvalidAttributeConflictDetectionJobError"},
  Hidden({"ProductRepositoryError", "AttributeNormalizationRepositoryError"},
         "AttributeConflictNormalizationRequiredError")
    \cup Hidden({"AttributeConflictRepositoryError"}, "AttributeConflictResultStorageError"),
  {"AttributeConflictAttributeLimitExceededError",
   "AttributeConflictCandidateLimitExceededError", "AttributeConflictGroupLimitExceededError",
   "AttributeConflictDetectionError", "ValueError"},
  {"AttributeConflictRepositoryError", "AttributeConflictResultAlreadyExistsError",
   "AttributeConflictResultItemTooLargeError"},
  AnalysisClauses("AttributeConflictDetectionError", "AttributeConflictRepositoryError",
                  "AttributeConflictResultStorageError"))

attribute_completeness == Service("AttributeCompletenessError",
  "InvalidAttributeCompletenessJobError",
  {"AttributeCompletenessConflictResultRequiredError",
   "AttributeCompletenessCrossProductLineageError",
   "AttributeCompletenessSchemaNotAvailableError", "AttributeCompletenessSchemaMismatchError",
   "InvalidAttributeCompletenessJobError"},
  Hidden({"ProductRepositoryError", "AttributeConflictRepositoryError"},
         "AttributeCompletenessConflictResultRequiredError")
    \cup Hidden({"CategoryAttributeSchemaRepositoryError"},
                "AttributeCompletenessSchemaNotAvailableError")
    \cup Hidden({"AttributeCompletenessRepositoryError"},
                "AttributeCompletenessResultStorageError"),
  {"AttributeCompletenessAttributeLimitExceededError",
   "AttributeCompletenessCandidateIdLimitExceededError",
   "AttributeCompletenessSchemaMismatchError", "ValueError"},
  {"AttributeCompletenessRepositoryError", "AttributeCompletenessResultAlreadyExistsError",
   "AttributeCompletenessResultItemTooLargeError"},
  AnalysisClauses("AttributeCompletenessError", "AttributeCompletenessRepositoryError",
                  "AttributeCompletenessResultStorageError"))

attribute_validation == Service("AttributeValidationError",
  "InvalidAttributeValidationJobError",
  {"AttributeValidationNormalizationRequiredError",
   "AttributeValidationCrossProductLineageError",
   "AttributeValidationSchemaNotAvailableError", "AttributeValidationSchemaMismatchError",
   "InvalidAttributeValidationJobError"},
  Hidden({"ProductRepositoryError", "AttributeNormalizationRepositoryError"},
         "AttributeValidationNormalizationRequiredError")
    \cup Hidden({"CategoryAttributeSchemaRepositoryError"},
                "AttributeValidationSchemaNotAvailableError")
    \cup Hidden({"AttributeValidationRepositoryError"},
                "AttributeValidationResultStorageError"),
  {"AttributeValidationUnknownAttributeError", "AttributeValidationSchemaRuleInvalidError",
   "AttributeValidationIssueLimitExceededError", "AttributeValidationSchemaMismatchError",
   "ValueError"},
  {"AttributeValidationRepositoryError", "AttributeValidationResultAlreadyExistsError",
   "AttributeValidationResultItemTooLargeError"},
  AnalysisClauses("AttributeValidationError", "AttributeValidationRepositoryError",
                  "AttributeValidationResultStorageError"))

attribute_selection == Service("AttributeSelectionError", "InvalidAttributeSelectionJobError",
  {"AttributeSelectionConflictResultRequiredError",
   "AttributeSelectionValidationResultRequiredError",
   "AttributeSelectionCompletenessResultRequiredError",
   "AttributeSelectionNormalizationRequiredError",
   "AttributeSelectionCrossProductLineageError", "AttributeSelectionLineageMismatchError",
   "InvalidAttributeSelectionJobError"},
  Hidden({"ProductRepositoryError", "AttributeConflictRepositoryError",
          "AttributeValidationRepositoryError", "AttributeCompletenessRepositoryError",
          "AttributeNormalizationRepositoryError", "AttributeSelectionRepositoryError"},
         "AttributeSelectionLineageMismatchError"),
  {"AttributeSelectionAttributeLimitExceededError",
   "AttributeSelectionCandidateLimitExceededError",
   "AttributeSelectionReasonLimitExceededError", "AttributeSelectionLineageMismatchError",
   "ValueError"},
  {"AttributeSelectionRepositoryError", "AttributeSelectionResultAlreadyExistsError",
   "AttributeSelectionResultItemTooLargeError"},
  AnalysisClauses("AttributeSelectionError", "AttributeSelectionRepositoryError",
                  "AttributeSelectionResultStorageError"))

-----------------------------------------------------------------------------
attribute_materialization == Service("ReviewedAttributeMaterializationError",
  "InvalidReviewedAttributeMaterializationJobError",
  {"ReviewedMaterializationCrossProductLineageError",
   "ReviewedMaterializationReviewRequiredError",
   "ReviewedMaterializationReviewNotCompletedError",
   "ReviewedMaterializationLineageMismatchError",
   "ReviewedMaterializationSchemaNotAvailableError",
   "ReviewedMaterializationAlreadyExistsError",
   "ReviewedMaterializationReviewStateInvalidError"},
  Hidden({"ProductRepositoryError", "ProductReviewRepositoryError",
          "AttributeSelectionRepositoryError", "AttributeValidationRepositoryError",
          "AttributeNormalizationRepositoryError", "CategoryAttributeSchemaRepositoryError",
          "ReviewedAttributeRepositoryError"},
         "ReviewedMaterializationLineageMismatchError"),
  {"ReviewedMaterializationRequiredAttributeUnresolvedError",
   "ReviewedMaterializationDecisionInvalidError", "ReviewedMaterializationSchemaMismatchError",
   "ReviewedMaterializationUnknownAttributeError",
   "ReviewedMaterializationAttributeLimitExceededError", "ValueError"},
  {"ReviewedAttributeRepositoryError", "ReviewedMaterializationAlreadyExistsError",
   "ReviewedMaterializationResultItemTooLargeError"},
  AnalysisClauses("ReviewedAttributeMaterializationError", "ReviewedAttributeRepositoryError",
                  "ReviewedMaterializationResultStorageError"))

catalog_projection == Service("CatalogProjectionError", "InvalidCatalogProjectionJobError",
  {"CatalogProjectionProductRequiredError", "CatalogProjectionCrossProductLineageError",
   "CatalogProjectionMaterializationRequiredError", "CatalogProjectionCategoryMismatchError",
   "CatalogProjectionLineageInvalidError", "CatalogProjectionAlreadyExistsError"},
  Hidden({"ProductRepositoryError", "ReviewedAttributeRepositoryError",
          "CatalogProjectionRepositoryError"}, "CatalogProjectionLineageInvalidError"),
  {"CatalogProjectionRequiredAttributesIncompleteError",
   "CatalogProjectionAttributeLimitExceededError", "CatalogProjectionReasonLimitExceededError",
   "CatalogProjectionProductTextLimitExceededError",
   "CatalogProjectionValueLimitExceededError", "CatalogProjectionLineageInvalidError",
   "ValueError"},
  {"CatalogProjectionRepositoryError", "CatalogProjectionAlreadyExistsError",
   "CatalogProjectionResultItemTooLargeError"},
  AnalysisClauses("CatalogProjectionError", "CatalogProjectionRepositoryError",
                  "CatalogProjectionResultStorageError"))

catalog_export == Service("CatalogExportError", "InvalidCatalogExportJobError",
  {"CatalogExportProductRequiredError", "CatalogExportProjectionRequiredError",
   "CatalogExportCrossProductProjectionError", "CatalogExportProjectionBlockedError",
   "CatalogExportLineageInvalidError", "CatalogExportAlreadyExistsError"},
  Hidden({"CatalogExportRepositoryError"}, "CatalogExportResultStorageError")
    \cup Hidden({"ProductRepositoryError", "CatalogProjectionRepositoryError"},
                "CatalogExportLineageInvalidError"),
  {"CatalogExportAttributeLimitExceededError", "CatalogExportJsonSizeLimitExceededError",
   "CatalogExportCsvSizeLimitExceededError", "CatalogExportManifestSizeLimitExceededError",
   "CatalogExportSerializationError", "CatalogExportStorageError", "ObjectStorageError",
   "ObjectAlreadyExistsError", "ValueError"},
  {"CatalogExportRepositoryError", "CatalogExportAlreadyExistsError",
   "CatalogExportResultItemTooLargeError"},
  << Keep("CatalogExportError"),
     Translate("ObjectStorageError", "CatalogExportStorageError"),
     Translate("CatalogExportRepositoryError", "CatalogExportResultStorageError"),
     Translate("Exception", "CatalogExportError") >>)

catalog_enrichment == Service("CatalogEnrichmentError", "InvalidCatalogEnrichmentJobError",
  {"CatalogEnrichmentProductRequiredError", "CatalogEnrichmentProjectionRequiredError",
   "CatalogEnrichmentCrossProductProjectionError", "CatalogEnrichmentProjectionBlockedError",
   "CatalogEnrichmentLineageInvalidError", "CatalogEnrichmentTrustedFactLimitError",
   "CatalogEnrichmentAlreadyExistsError"},
  Hidden({"CatalogEnrichmentRepositoryError"}, "CatalogEnrichmentStorageError")
    \cup Hidden({"ProductRepositoryError", "CatalogProjectionRepositoryError"},
                "CatalogEnrichmentLineageInvalidError"),
  {"CatalogEnrichmentProviderUnavailableError", "CatalogEnrichmentProviderTimeoutError",
   "CatalogEnrichmentProviderRateLimitedError", "CatalogEnrichmentProviderFailedError",
   "CatalogEnrichmentResponseInvalidError", "CatalogEnrichmentOutputLimitError",
   "CatalogEnrichmentGroundingFailedError", "ValueError"},
  {"CatalogEnrichmentRepositoryError", "CatalogEnrichmentAlreadyExistsError",
   "CatalogEnrichmentResultItemTooLargeError"},
  << Translate("CatalogEnrichmentRepositoryError", "CatalogEnrichmentStorageError"),
     Keep("CatalogEnrichmentError"),
     Translate("Exception", "CatalogEnrichmentError") >>)

\* Its setup turns any other error into a lineage mismatch.
product_intelligence == Service("ProductIntelligenceScoreError",
  "InvalidProductIntelligenceScoreJobError",
  {"ProductIntelligenceProjectionRequiredError",
   "ProductIntelligenceCrossProductLineageError", "ProductIntelligenceLineageMismatchError",
   "ProductIntelligenceLimitExceededError", "ProductIntelligenceEnrichmentMismatchError",
   "ProductIntelligenceAlreadyExistsError"},
  Hidden({"ProductIntelligenceScoreRepositoryError"}, "ProductIntelligenceStorageError")
    \cup Hidden({"ProductRepositoryError", "CatalogProjectionRepositoryError",
                 "ReviewedAttributeRepositoryError", "ProductReviewRepositoryError",
                 "AttributeSelectionRepositoryError", "AttributeValidationRepositoryError",
                 "AttributeCompletenessRepositoryError", "AttributeConflictRepositoryError",
                 "CatalogEnrichmentRepositoryError", "ValueError"},
                "ProductIntelligenceLineageMismatchError"),
  {"ProductIntelligenceRequiredComponentInvalidError", "ProductIntelligenceWeightInvalidError",
   "ProductIntelligenceLineageMismatchError", "ProductIntelligenceEnrichmentMismatchError",
   "ValueError"},
  {"ProductIntelligenceScoreRepositoryError", "ProductIntelligenceAlreadyExistsError",
   "ProductIntelligenceResultItemTooLargeError"},
  << Translate("ProductIntelligenceScoreRepositoryError", "ProductIntelligenceStorageError"),
     Keep("ProductIntelligenceScoreError"),
     Translate("Exception", "ProductIntelligenceScoreError") >>)

analysis_services == {product_classification, structured_extraction, attribute_normalization,
                      attribute_conflicts, attribute_completeness, attribute_validation,
                      attribute_selection, attribute_materialization, catalog_projection,
                      catalog_export, catalog_enrichment, product_intelligence}

-----------------------------------------------------------------------------
VARIABLES service,  \* the service that runs
          pc,       \* its next step, then how it ended
          job,      \* the job as the table holds it: status and error
          stored,   \* whether the result is stored
          cause,    \* the error met while working or storing
          error,    \* the error in flight
          lost      \* whether an update of the job was reported as failed

vars == <<service, pc, job, stored, cause, error, lost>>

none == "none"
JobStatuses == {"PENDING", "RUNNING", "COMPLETED", "FAILED"}
JobRepositoryErrors == {"ProcessingJobRepositoryError", "ProcessingJobVersionConflictError"}

\* The orchestrator runs a job it created or found; it may have run before.
Init == /\ service \in reading_services \cup analysis_services
        /\ pc = "read_job" /\ stored = FALSE /\ lost = FALSE
        /\ job \in [status : JobStatuses, error : {none}]
        /\ cause = none /\ error = none

Raise(class) == pc' = "raised" /\ error' = class

get_job == /\ pc = "read_job" /\ job.status = "PENDING"
           /\ pc' = "setup" /\ UNCHANGED <<service, job, stored, cause, error, lost>>
get_job_raises == /\ pc = "read_job"
                  /\ \/ job.status # "PENDING" /\ Raise(service.invalid_job)
                     \/ Raise("ProcessingJobRepositoryError")
                  /\ UNCHANGED <<service, job, stored, cause, lost>>

check_raises == /\ pc = "setup" /\ \E class \in service.checks: Raise(class)
                /\ UNCHANGED <<service, job, stored, cause, lost>>
read_raises == /\ pc = "setup"
               /\ \E read \in service.reads: Raise(Translated(read.raised, read.match))
               /\ UNCHANGED <<service, job, stored, cause, lost>>

\* The update of the job that succeeds, or is reported as failed, applied or not.
UpdateJob(status, class) == job' = [status |-> status, error |-> class]
UpdateJobFails(status, class) ==
  lost' = TRUE /\ (job' = job \/ UpdateJob(status, class))

start == /\ pc = "setup" /\ UpdateJob("RUNNING", none)
         /\ pc' = "work" /\ UNCHANGED <<service, stored, cause, error, lost>>
start_raises == /\ pc = "setup" /\ UpdateJobFails("RUNNING", none)
                /\ \E class \in JobRepositoryErrors: Raise(class)
                /\ UNCHANGED <<service, stored, cause>>

work_raises == /\ pc = "work" /\ \E class \in service.work: cause' = class
               /\ pc' = "except" /\ UNCHANGED <<service, job, stored, error, lost>>
store == /\ pc = "work" /\ stored' = TRUE
         /\ pc' = "complete" /\ UNCHANGED <<service, job, cause, error, lost>>
\* The last write may have been applied although its call failed.
store_raises == /\ pc = "work" /\ \E class \in service.store: cause' = class
                /\ stored' \in BOOLEAN
                /\ pc' = "except" /\ UNCHANGED <<service, job, error, lost>>

\* The first except clause that applies.
Applies(clause, class) == IsA(class, clause.match)
Handling(clauses, class) ==
  clauses[CHOOSE i \in DOMAIN clauses : /\ Applies(clauses[i], class)
                                        /\ \A j \in 1..(i - 1) : ~Applies(clauses[j], class)]
Handler == Handling(service.clauses, cause)
JobError == Translated(Handler.job, cause)

fail_job_own_errors == /\ pc = "except"
                       /\ IF JobError = service.own THEN job' = job ELSE UpdateJob("FAILED", JobError)
                       /\ Raise(Translated(Handler.raised, cause))
                       /\ UNCHANGED <<service, stored, cause, lost>>
fail_job == /\ pc = "except"
            /\ UpdateJob("FAILED", JobError)
            /\ Raise(Translated(Handler.raised, cause))
            /\ UNCHANGED <<service, stored, cause, lost>>
fail_job_lost == /\ pc = "except"
                 /\ UpdateJobFails("FAILED", JobError)
                 /\ Raise(Translated(Handler.raised, cause))
                 /\ UNCHANGED <<service, stored, cause>>

complete == /\ pc = "complete" /\ UpdateJob("COMPLETED", none)
            /\ pc' = "returned" /\ UNCHANGED <<service, stored, cause, error, lost>>
complete_raises == /\ pc = "complete" /\ UpdateJobFails("COMPLETED", none)
                   /\ \E class \in JobRepositoryErrors: Raise(class)
                   /\ UNCHANGED <<service, stored, cause>>

\* The orchestrator fails the stage with the code of the error.
StageCode == Code(error)

Next == \/ get_job \/ get_job_raises \/ check_raises \/ read_raises
        \/ start \/ start_raises \/ work_raises \/ store \/ store_raises
        \/ fail_job \/ fail_job_lost \/ complete \/ complete_raises
Spec == Init /\ [][Next]_vars

-----------------------------------------------------------------------------
\* The job a run failed names what went wrong: an error of the service's own
\* family as it is, a missing object as missing and never as an unavailable
\* storage, a failed write of the result as such, and only an error that no
\* family describes as the service's general error.
StorageCauses == SubclassesOf["ObjectStorageError"]
JobNamesTheCause ==
  job.status = "FAILED" /\ cause # none =>
    /\ IsA(job.error, service.own)
    /\ IsA(cause, service.own) => job.error = cause
    /\ cause \in service.store \cup StorageCauses => job.error # service.own
    /\ \A other \in (service.work \cap StorageCauses) \ {"ObjectNotFoundError"} :
         cause = "ObjectNotFoundError" =>
           job.error # Translated(Handling(service.clauses, other).job, other)

\* The stage of the workflow is failed with the code its job was failed with,
\* but for a result that a source's service could not store: the job says so,
\* the workflow only that the stage failed.  An analysis service gives every
\* error a code, even one before its job ran, unless the table of the jobs
\* refused a call.
StageNamesTheJobsError ==
  pc = "raised" =>
    /\ job.status = "FAILED" /\ cause # none =>
         IF service \in reading_services /\ cause \in service.store /\ ~IsA(cause, service.own)
         THEN StageCode = "WORKFLOW_STAGE_FAILED" /\ HasCode(job.error)
         ELSE StageCode = job.error
    /\ service \in analysis_services => HasCode(error) \/ error \in JobRepositoryErrors

\* The cause of a failure reaches the job and, from the job, the workflow.
CauseIsNamed == JobNamesTheCause /\ StageNamesTheJobsError

\* A run that ended is recorded: it returned with a stored result and a
\* COMPLETED job, or an error of its work or of the result's write failed the
\* job, or it never touched the job and stored nothing.  Only a refused update
\* of the job leaves it RUNNING, or leaves a result to a job that is not
\* COMPLETED.
EndedRunIsRecorded ==
  (pc = "raised" \/ pc = "returned") /\ ~lost =>
    /\ pc = "returned" => stored /\ job.status = "COMPLETED"
    /\ cause # none => job.status = "FAILED"
    /\ pc = "raised" /\ cause = none => ~stored /\ job.error = none

===============================================================================
