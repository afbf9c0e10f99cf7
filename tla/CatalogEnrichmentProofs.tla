------------------------ MODULE CatalogEnrichmentProofs ------------------------
(***************************************************************************)
(* What a run of a stage service leaves behind; what the enrichment        *)
(* stores, whatever the limits on its content and attempts; and, for every *)
(* service, that an error is given a code by a clause made for its class.  *)
(***************************************************************************)
EXTENDS CatalogEnrichment, TLAPS

Services == reading_services \cup analysis_services

Issues == {"UNGROUNDED_CONTENT", "UNSUPPORTED_NUMERIC_CLAIM", "UNSUPPORTED_UNIT_CLAIM",
           "UNSUPPORTED_CERTIFICATION_CLAIM", "UNSUPPORTED_PERFORMANCE_CLAIM",
           "UNKNOWN_FACT_REFERENCE"}

Calls == [prompt : SUBSET Issues, reply : Replies]

\* What the prompt after a reply names.
IssuesOf(reply) == IF parse(reply) # none THEN {"UNGROUNDED_CONTENT"} ELSE validate(reply)

\* How far a run has come is known from what it met and what it wrote.
RunInv ==
  /\ service \in Services
  /\ pc \in {"read_job", "setup", "work", "except", "complete", "returned", "raised"}
  /\ lost \in BOOLEAN
  /\ pc \in {"read_job", "setup", "work"} => cause = none /\ ~stored /\ job.error = none
  /\ pc = "except" => cause # none
  /\ pc \in {"complete", "returned"} => cause = none /\ stored
  /\ pc = "returned" => job.status = "COMPLETED"
  /\ pc = "raised" /\ ~lost => IF cause = none THEN ~stored /\ job.error = none
                               ELSE job.status = "FAILED"

\* The generation goes on after a reply that may be corrected, and names in
\* the next prompt what was wrong with it.
GenerationInv ==
  /\ calls \in Seq(Calls) /\ Len(calls) <= MaxAttempts
  /\ calls # <<>> => service = catalog_enrichment
  /\ pc \in {"read_job", "setup"} => calls = <<>>
  /\ result.kind \in {"none", "result"}
  /\ stored \in BOOLEAN
  /\ stored /\ service = catalog_enrichment => result.kind = "result"
  /\ \A i \in 1 .. Len(calls) - 1 : calls[i + 1].prompt = IssuesOf(calls[i].reply)
  /\ result.kind = "none" /\ cause = none =>
       /\ Len(calls) < MaxAttempts
       /\ prompt = IF calls = <<>> THEN {} ELSE IssuesOf(calls[Len(calls)].reply)
  /\ result.kind = "none" /\ cause # none /\ calls # <<>> =>
       /\ cause = FailureOf(calls[Len(calls)].reply)
       /\ Len(calls) = MaxAttempts \/ cause \in ProviderErrors \cup {"ValueError"}
  /\ result.kind = "result" =>
       /\ calls # <<>>
       /\ calls[Len(calls)] = [prompt |-> result.prompt, reply |-> result.content]
       /\ result.attempts = Len(calls)
       /\ result.content \in Contents /\ FailureOf(result.content) = none

IInv == RunInv /\ GenerationInv

(* ------------------------------ operators ------------------------------ *)

\* Every service names the errors of its work and of its writes.
LEMMA ErrorsAreNamed ==
    ASSUME NEW s \in Services
    PROVE  "none" \notin s.work \cup s.store
<1> USE DEF Service, open_object
<1>1. CASE s \in reading_services
  <2> USE <1>1 DEF reading_services
  <2>1. CASE s = pdf_text_extraction
    BY <2>1 DEF pdf_text_extraction
  <2>2. CASE s = pdf_table_extraction
    BY <2>2 DEF pdf_table_extraction
  <2>3. CASE s = csv_processing
    BY <2>3 DEF csv_processing
  <2>4. CASE s = image_analysis
    BY <2>4 DEF image_analysis
  <2>5. CASE s = image_ocr
    BY <2>5 DEF image_ocr
  <2> QED
    BY <2>1, <2>2, <2>3, <2>4, <2>5
<1>2. CASE s \in analysis_services
  <2> USE <1>2 DEF analysis_services
  <2>1. CASE s = product_classification
    BY <2>1 DEF product_classification, evidence_errors
  <2>2. CASE s = structured_extraction
    BY <2>2 DEF structured_extraction, evidence_errors
  <2>3. CASE s = attribute_normalization
    BY <2>3 DEF attribute_normalization
  <2>4. CASE s = attribute_conflicts
    BY <2>4 DEF attribute_conflicts
  <2>5. CASE s = attribute_completeness
    BY <2>5 DEF attribute_completeness
  <2>6. CASE s = attribute_validation
    BY <2>6 DEF attribute_validation
  <2>7. CASE s = attribute_selection
    BY <2>7 DEF attribute_selection
  <2>8. CASE s = attribute_materialization
    BY <2>8 DEF attribute_materialization
  <2>9. CASE s = catalog_projection
    BY <2>9 DEF catalog_projection
  <2>10. CASE s = catalog_export
    BY <2>10 DEF catalog_export
  <2>11. CASE s = catalog_enrichment
    BY <2>11 DEF catalog_enrichment
  <2>12. CASE s = product_intelligence
    BY <2>12 DEF product_intelligence
  <2> QED
    BY <2>1, <2>2, <2>3, <2>4, <2>5, <2>6, <2>7, <2>8, <2>9, <2>10, <2>11, <2>12
<1> QED
  BY <1>1, <1>2 DEF Services

\* The issues of a reply are those a prompt can name.
LEMMA IssuesAreKnown ==
    ASSUME NEW reply
    PROVE  /\ validate(reply) \subseteq Issues
           /\ IssuesOf(reply) \subseteq Issues
BY DEF IssuesOf, validate, inspect, Issue, Issues

\* What the guard finds nothing wrong with states no claim without a fact it
\* cites: numbers and units as words, the others in the text of an attribute.
LEMMA SupportedClaims ==
    ASSUME NEW content \in Contents, validate(content) = {}
    PROVE  /\ content.cites \subseteq Known
           /\ \A claim \in content.claims \cap {"11", "kw"} :
                \E fact \in trusted_facts : /\ fact.id \in content.cites \ {"description"}
                                            /\ claim \in fact.words
           /\ \A claim \in content.claims \ {"11", "kw"} :
                \E fact \in trusted_facts : /\ fact.id \in content.cites
                                            /\ fact.kind = "ATTRIBUTE" /\ claim \in fact.text
<1>1. content.cites \subseteq Known /\ inspect(content) = {}
  BY DEF validate
<1>2. /\ content.claims \cap {"11"} \subseteq Words(Cited(content))
      /\ content.claims \cap {"kw"} \subseteq Words(Cited(content))
      /\ content.claims \cap {"ul"} \subseteq Text(Cited(content))
      /\ content.claims \cap {"heavy duty"} \subseteq Text(Cited(content))
  BY <1>1 DEF inspect, Issue
<1>3. content.claims \subseteq Claims
  BY DEF Contents, ContentsByCounts, Content
<1>4. ASSUME NEW claim \in content.claims \cap {"11", "kw"}
      PROVE  \E fact \in trusted_facts : /\ fact.id \in content.cites \ {"description"}
                                         /\ claim \in fact.words
  <2>1. claim \in Words(Cited(content))
    BY <1>2, <1>4
  <2> QED
    BY <2>1 DEF Words, Cited
<1>5. ASSUME NEW claim \in content.claims \ {"11", "kw"}
      PROVE  \E fact \in trusted_facts : /\ fact.id \in content.cites
                                         /\ fact.kind = "ATTRIBUTE" /\ claim \in fact.text
  <2>1. claim \in Text(Cited(content))
    BY <1>2, <1>3, <1>5 DEF Claims
  <2> QED
    BY <2>1 DEF Text, Cited
<1> QED
  BY <1>1, <1>4, <1>5

(* --------------------------- the run of a service ---------------------- *)

\* A run begins with nothing met and nothing written.
LEMMA InitRun == EnrichmentInit => RunInv
BY DEF EnrichmentInit, Init, RunInv, Services, JobStatuses, none

\* A failed update of the job is not forgotten, and an update that succeeds
\* writes the status and the error.
LEMMA StepsKeepRun ==
    ASSUME RunInv, EnrichmentNext
    PROVE  RunInv'
<1> USE DEF RunInv, Raise, UpdateJob, UpdateJobFails
<1>n. "none" \notin service.work \cup service.store
  BY ErrorsAreNamed
<1>1. CASE get_job
  BY <1>1 DEF get_job
<1>2. CASE get_job_raises
  BY <1>2 DEF get_job_raises
<1>3. CASE check_raises
  BY <1>3 DEF check_raises
<1>4. CASE read_raises
  BY <1>4 DEF read_raises
<1>5. CASE start
  BY <1>5 DEF start
<1>6. CASE start_raises
  BY <1>6 DEF start_raises
<1>7. CASE work_raises
  BY <1>7, <1>n DEF work_raises, none
<1>8. CASE store
  BY <1>8 DEF store
<1>9. CASE store_raises
  BY <1>9, <1>n DEF store_raises, none
<1>10. CASE fail_job
  BY <1>10 DEF fail_job
<1>11. CASE fail_job_lost
  BY <1>11 DEF fail_job_lost
<1>12. CASE complete
  BY <1>12 DEF complete
<1>13. CASE complete_raises
  BY <1>13 DEF complete_raises
<1>14. CASE generate
  <2>1. PICK reply \in Replies :
          IF reply.kind \in ProviderErrors THEN Raises(reply.kind)
          ELSE IF parse(reply) # none THEN Corrects(parse(reply), {"UNGROUNDED_CONTENT"})
          ELSE IF validate(reply) # {}
          THEN Corrects("CatalogEnrichmentGroundingFailedError", validate(reply))
          ELSE IF ~CatalogEnrichmentResult(reply) THEN Raises("ValueError")
          ELSE UNCHANGED <<cause, pc, prompt>>
    BY <1>14 DEF generate
  <2>2. \/ UNCHANGED <<cause, pc>>
        \/ cause' # none /\ pc' = "except"
    BY <2>1 DEF Raises, Corrects, ProviderErrors, none
  <2> QED
    BY <1>14, <2>2 DEF generate
<1> QED
  BY <1>1, <1>2, <1>3, <1>4, <1>5, <1>6, <1>7, <1>8, <1>9, <1>10, <1>11, <1>12, <1>13, <1>14
     DEF EnrichmentNext

\* Where a run stands is known in every state.
LEMMA RunIsKnown == EnrichmentSpec => []RunInv
<1>1. RunInv /\ UNCHANGED allvars => RunInv'
  BY DEF RunInv, allvars
<1>2. RunInv /\ [EnrichmentNext]_allvars => RunInv'
  BY <1>1, StepsKeepRun
<1> QED
  BY InitRun, <1>2, PTL DEF EnrichmentSpec

\* A run that ended returned with a stored result and a COMPLETED job, or
\* failed the job, or never touched it, unless an update of the job was lost.
THEOREM EndedRunsAreRecorded == EnrichmentSpec => []EndedRunIsRecorded
<1>1. RunInv => EndedRunIsRecorded
  BY DEF RunInv, EndedRunIsRecorded
<1> QED
  BY <1>1, RunIsKnown, PTL

(* ---------------------------- the generation --------------------------- *)

\* Nothing is generated before the first call.
LEMMA InitGeneration == EnrichmentInit => GenerationInv
<1> SUFFICES ASSUME EnrichmentInit PROVE GenerationInv
  OBVIOUS
<1>1. calls = <<>> /\ Len(calls) = 0 /\ calls \in Seq(Calls)
  BY DEF EnrichmentInit
<1>2. MaxAttempts \in {1, 2}
  BY LimitsAssumption
<1>3. result.kind = "none" /\ prompt = {} /\ cause = none /\ stored = FALSE
  BY DEF EnrichmentInit, Init, NoContent
<1>4. \A i \in 1 .. Len(calls) - 1 : calls[i + 1].prompt = IssuesOf(calls[i].reply)
  BY <1>1
<1>5. result.kind # "result" /\ Len(calls) < MaxAttempts /\ Len(calls) <= MaxAttempts
  BY <1>1, <1>2, <1>3
<1>6. stored \in BOOLEAN
  BY <1>3
<1> QED
  BY <1>1, <1>3, <1>4, <1>5, <1>6, Zenon DEF GenerationInv

\* One more call: the calls before it stay as they were, and its prompt is the
\* one that was prepared.
LEMMA OneMoreCall ==
    ASSUME RunInv, GenerationInv, pc = "work", result.kind = "none",
           service = catalog_enrichment, NEW reply \in Replies,
           calls' = Append(calls, [prompt |-> prompt, reply |-> reply])
    PROVE  /\ calls' \in Seq(Calls) /\ calls' # <<>>
           /\ Len(calls') = Attempt /\ Attempt <= MaxAttempts
           /\ calls'[Len(calls')] = [prompt |-> prompt, reply |-> reply]
           /\ \A i \in 1 .. Len(calls') - 1 : calls'[i + 1].prompt = IssuesOf(calls'[i].reply)
<1> DEFINE call == [prompt |-> prompt, reply |-> reply]
<1>1. /\ calls \in Seq(Calls) /\ Len(calls) \in Nat /\ Len(calls) < MaxAttempts
      /\ MaxAttempts \in {1, 2}
      /\ prompt = IF calls = <<>> THEN {} ELSE IssuesOf(calls[Len(calls)].reply)
      /\ \A i \in 1 .. Len(calls) - 1 : calls[i + 1].prompt = IssuesOf(calls[i].reply)
  BY LimitsAssumption DEF RunInv, GenerationInv
<1>2. call \in Calls
  BY <1>1, IssuesAreKnown DEF Calls
<1>3. /\ calls' \in Seq(Calls) /\ Len(calls') = Len(calls) + 1
      /\ \A i \in 1 .. Len(calls) : calls'[i] = calls[i]
      /\ calls'[Len(calls) + 1] = call
  <2>1. calls' = Append(calls, call)
    OBVIOUS
  <2> HIDE DEF call
  <2> QED
    BY <1>1, <1>2, <2>1
<1>4. ASSUME NEW i \in 1 .. Len(calls') - 1
      PROVE  calls'[i + 1].prompt = IssuesOf(calls'[i].reply)
  <2>1. i \in 1 .. Len(calls) /\ calls'[i] = calls[i]
    BY <1>1, <1>3
  <2>2. CASE i = Len(calls)
    <3>1. calls # <<>>
      BY <2>1, <2>2
    <3> QED
      BY <1>1, <1>3, <2>1, <2>2, <3>1
  <2>3. CASE i # Len(calls)
    <3>1. i \in 1 .. Len(calls) - 1 /\ i + 1 \in 1 .. Len(calls)
      BY <1>1, <2>1, <2>3
    <3> QED
      BY <1>1, <1>3, <2>1, <3>1
  <2> QED
    BY <2>2, <2>3
<1>5. calls' # <<>>
  BY <1>1, <1>3
<1> QED
  BY <1>1, <1>3, <1>4, <1>5 DEF Attempt

\* A call ends the generation with its failure, prepares the next prompt, or
\* leaves a result that the guard found nothing wrong with.
LEMMA GenerateKeeps ==
    ASSUME RunInv, GenerationInv, generate
    PROVE  GenerationInv'
<1>1. /\ pc = "work" /\ result.kind = "none" /\ service = catalog_enrichment
      /\ cause = none /\ ~stored /\ stored' = stored /\ service' = service
  BY DEF generate, RunInv
<1>2. PICK reply \in Replies :
        /\ calls' = Append(calls, [prompt |-> prompt, reply |-> reply])
        /\ IF reply.kind \in ProviderErrors THEN Raises(reply.kind)
           ELSE IF parse(reply) # none THEN Corrects(parse(reply), {"UNGROUNDED_CONTENT"})
           ELSE IF validate(reply) # {}
           THEN Corrects("CatalogEnrichmentGroundingFailedError", validate(reply))
           ELSE IF ~CatalogEnrichmentResult(reply) THEN Raises("ValueError")
           ELSE /\ result' = [kind |-> "result", content |-> reply, prompt |-> prompt,
                              attempts |-> Attempt]
                /\ UNCHANGED <<cause, pc, prompt>>
  BY DEF generate
<1>3. /\ calls' \in Seq(Calls) /\ calls' # <<>>
      /\ Len(calls') = Attempt /\ Attempt <= MaxAttempts
      /\ calls'[Len(calls')] = [prompt |-> prompt, reply |-> reply]
      /\ \A i \in 1 .. Len(calls') - 1 : calls'[i + 1].prompt = IssuesOf(calls'[i].reply)
  BY <1>1, <1>2, OneMoreCall
<1>4. calls'[Len(calls')].reply = reply
  BY <1>3
<1>5. Attempt \in Nat /\ MaxAttempts \in Nat
  BY LimitsAssumption DEF Attempt, GenerationInv
<1>6. ASSUME NEW class, Raises(class), class = FailureOf(reply), class # none,
             Attempt = MaxAttempts \/ class \in ProviderErrors \cup {"ValueError"}
      PROVE  GenerationInv'
  BY <1>1, <1>3, <1>4, <1>6 DEF GenerationInv, Raises
<1>7. ASSUME NEW class, NEW issues, Corrects(class, issues), class = FailureOf(reply),
             class # none, issues = IssuesOf(reply)
      PROVE  GenerationInv'
  <2>1. CASE Attempt = MaxAttempts
    BY <1>6, <1>7, <2>1 DEF Corrects
  <2>2. CASE Attempt # MaxAttempts
    BY <1>1, <1>3, <1>4, <1>5, <1>7, <2>2 DEF GenerationInv, Corrects
  <2> QED
    BY <2>1, <2>2
<1>8. CASE reply.kind \in ProviderErrors
  BY <1>2, <1>6, <1>8 DEF FailureOf, ProviderErrors, none
<1>9. CASE reply.kind \notin ProviderErrors /\ parse(reply) # none
  BY <1>2, <1>7, <1>9 DEF FailureOf, IssuesOf
<1>10. CASE reply.kind \notin ProviderErrors /\ parse(reply) = none /\ validate(reply) # {}
  BY <1>2, <1>7, <1>10 DEF FailureOf, IssuesOf, none
<1>11. CASE /\ reply.kind \notin ProviderErrors /\ parse(reply) = none /\ validate(reply) = {}
            /\ ~CatalogEnrichmentResult(reply)
  BY <1>2, <1>6, <1>11 DEF FailureOf, none
<1>12. CASE /\ reply.kind \notin ProviderErrors /\ parse(reply) = none /\ validate(reply) = {}
            /\ CatalogEnrichmentResult(reply)
  <2>1. result' = [kind |-> "result", content |-> reply, prompt |-> prompt, attempts |-> Attempt]
        /\ cause' = cause /\ pc' = pc
    BY <1>2, <1>12
  <2>2. reply \in Contents
    <3>1. reply \in Contents
          \/ \E class \in ProviderErrors \cup {"malformed", "too long"} : reply = [kind |-> class]
      BY DEF Replies, NoContent
    <3>2. ASSUME NEW class \in {"malformed", "too long"}, reply = [kind |-> class] PROVE FALSE
      BY <1>12, <3>2 DEF parse, none
    <3>3. ASSUME NEW class \in ProviderErrors, reply = [kind |-> class] PROVE FALSE
      BY <1>12, <3>3
    <3> QED
      BY <3>1, <3>2, <3>3
  <2>3. FailureOf(reply) = none
    BY <1>12 DEF FailureOf
  <2>4. /\ result'.kind = "result" /\ result'.content = reply /\ result'.prompt = prompt
        /\ result'.attempts = Attempt
    BY <2>1
  <2> QED
    BY <1>1, <1>3, <2>1, <2>2, <2>3, <2>4 DEF GenerationInv
<1> QED
  BY <1>8, <1>9, <1>10, <1>11, <1>12

\* The other steps of the service leave the calls alone.
LEMMA StepsKeepGeneration ==
    ASSUME RunInv, GenerationInv, EnrichmentNext
    PROVE  GenerationInv'
<1>1. CASE generate
  BY <1>1, GenerateKeeps
<1> SUFFICES ASSUME ~generate PROVE GenerationInv'
  BY <1>1
<1>2. UNCHANGED <<calls, prompt, result>>
  BY DEF EnrichmentNext, enrichment
<1>n. "none" \notin service.work \cup service.store
  BY ErrorsAreNamed DEF RunInv
<1> USE <1>2 DEF RunInv, GenerationInv, Raise, UpdateJob, UpdateJobFails
<1>3. CASE get_job \/ get_job_raises
  BY <1>3 DEF get_job, get_job_raises
<1>4. CASE check_raises \/ read_raises
  BY <1>4 DEF check_raises, read_raises
<1>5. CASE start \/ start_raises
  BY <1>5 DEF start, start_raises
<1>6. CASE service # catalog_enrichment /\ work_raises
  BY <1>6, <1>n DEF work_raises, none
<1>7. CASE (service = catalog_enrichment => result.kind = "result") /\ store
  BY <1>7 DEF store
<1>8. CASE (service = catalog_enrichment => result.kind = "result") /\ store_raises
  BY <1>8, <1>n DEF store_raises, none
<1>9. CASE fail_job \/ fail_job_lost
  BY <1>9 DEF fail_job, fail_job_lost
<1>10. CASE complete \/ complete_raises
  BY <1>10 DEF complete, complete_raises
<1> QED
  BY <1>3, <1>4, <1>5, <1>6, <1>7, <1>8, <1>9, <1>10 DEF EnrichmentNext

\* What the calls, the prompt and the result say of each other, in every state.
THEOREM Invariant == EnrichmentSpec => []IInv
<1>1. EnrichmentInit => IInv
  BY InitRun, InitGeneration DEF IInv
<1>2. IInv /\ UNCHANGED allvars => IInv'
  BY DEF IInv, RunInv, GenerationInv, allvars
<1>3. IInv /\ [EnrichmentNext]_allvars => IInv'
  BY <1>2, StepsKeepRun, StepsKeepGeneration DEF IInv
<1> QED
  BY <1>1, <1>3, PTL DEF EnrichmentSpec

\* A failed generation fails the job with what was wrong with the last reply,
\* after all its attempts unless no other could help, and every prompt after
\* the first names what was wrong with the reply before it.
THEOREM LastAttemptsDecide == EnrichmentSpec => []LastAttemptDecides
<1>1. IInv => LastAttemptDecides
  BY DEF IInv, GenerationInv, LastAttemptDecides, IssuesOf
<1> QED
  BY <1>1, Invariant, PTL

\* What is stored cites known facts and claims what the facts it cites state,
\* whatever was generated before it and however the content is limited.
THEOREM StoredIsGrounded == EnrichmentSpec => []StoredContentIsGrounded
<1>1. IInv => StoredContentIsGrounded
  <2> SUFFICES ASSUME IInv, service = catalog_enrichment, stored
               PROVE  StoredContentIsGrounded
    BY DEF StoredContentIsGrounded
  <2>1. /\ result.content \in Contents /\ FailureOf(result.content) = none
        /\ calls[Len(calls)] = [prompt |-> result.prompt, reply |-> result.content]
        /\ result.attempts = Len(calls)
    BY DEF IInv, GenerationInv
  <2>2. parse(result.content) = none /\ validate(result.content) = {}
    BY <2>1 DEF FailureOf, ProviderErrors, none
  <2>3. result.content.cites # {}
    BY <2>2 DEF parse, none
  <2> QED
    BY <2>1, <2>2, <2>3, SupportedClaims DEF StoredContentIsGrounded
<1> QED
  BY <1>1, Invariant, PTL
(* ------------------------------ the classes ----------------------------- *)

\* A class is defined once, below the root: it has one parent, and a code or none.
Once(errors) ==
  \A d, e \in errors : /\ d.class # "Exception"
                       /\ d.class = e.class => d.parent = e.parent /\ (d.coded <=> e.coded)
Apart(errors, others) == \A d \in errors, e \in others : d.class # e.class

\* Two groups of errors that share no class define no class twice.
LEMMA OnceTogether ==
    ASSUME NEW errors, NEW others, Once(errors), Once(others), Apart(errors, others)
    PROVE  Once(errors \cup others)
BY DEF Once, Apart

\* Family by family, no class of the application is defined twice.
LEMMA ClassesAreDefinedOnce == Once(Hierarchy)
<1> DEFINE
     from_27 == unilog_challenge_errors \cup builtin_errors
     from_26 == catalog_workflow_errors \cup from_27
     from_25 == catalog_search_errors \cup from_26
     from_24 == product_intelligence_errors \cup from_25
     from_23 == catalog_enrichment_errors \cup from_24
     from_22 == catalog_export_errors \cup from_23
     from_21 == publishing_readiness_errors \cup from_22
     from_20 == catalog_projection_errors \cup from_21
     from_19 == reviewed_attribute_errors \cup from_20
     from_18 == product_review_errors \cup from_19
     from_17 == attribute_selection_errors \cup from_18
     from_16 == attribute_validation_errors \cup from_17
     from_15 == attribute_completeness_errors \cup from_16
     from_14 == attribute_conflict_errors \cup from_15
     from_13 == attribute_normalization_errors \cup from_14
     from_12 == attribute_extraction_errors \cup from_13
     from_11 == category_schema_errors \cup from_12
     from_10 == product_classification_errors \cup from_11
     from_9 == object_storage_errors \cup from_10
     from_8 == image_ocr_errors \cup from_9
     from_7 == image_analysis_errors \cup from_8
     from_6 == csv_processing_errors \cup from_7
     from_5 == pdf_table_extraction_errors \cup from_6
     from_4 == pdf_text_extraction_errors \cup from_5
     from_3 == processing_job_errors \cup from_4
     from_2 == product_source_errors \cup from_3
     from_1 == product_errors \cup from_2
<1>1. from_1 = Hierarchy
  BY DEF Hierarchy
<1> USE DEF Once, Apart, Coded, Plain, Class,
           product_errors, product_source_errors, processing_job_errors,
           pdf_text_extraction_errors, pdf_table_extraction_errors, csv_processing_errors,
           image_analysis_errors, image_ocr_errors, object_storage_errors,
           product_classification_errors, category_schema_errors, attribute_extraction_errors,
           attribute_normalization_errors, attribute_conflict_errors,
           attribute_completeness_errors, attribute_validation_errors,
           attribute_selection_errors, product_review_errors, reviewed_attribute_errors,
           catalog_projection_errors, publishing_readiness_errors, catalog_export_errors,
           catalog_enrichment_errors, product_intelligence_errors, catalog_search_errors,
           catalog_workflow_errors, unilog_challenge_errors, builtin_errors
<1>2. Once(product_errors)
  OBVIOUS
<1>3. Once(product_source_errors)
  OBVIOUS
<1>4. Once(processing_job_errors)
  OBVIOUS
<1>5. Once(pdf_text_extraction_errors)
  OBVIOUS
<1>6. Once(pdf_table_extraction_errors)
  OBVIOUS
<1>7. Once(csv_processing_errors)
  OBVIOUS
<1>8. Once(image_analysis_errors)
  OBVIOUS
<1>9. Once(image_ocr_errors)
  OBVIOUS
<1>10. Once(object_storage_errors)
  OBVIOUS
<1>11. Once(product_classification_errors)
  OBVIOUS
<1>12. Once(category_schema_errors)
  OBVIOUS
<1>13. Once(attribute_extraction_errors)
  OBVIOUS
<1>14. Once(attribute_normalization_errors)
  OBVIOUS
<1>15. Once(attribute_conflict_errors)
  OBVIOUS
<1>16. Once(attribute_completeness_errors)
  OBVIOUS
<1>17. Once(attribute_validation_errors)
  OBVIOUS
<1>18. Once(attribute_selection_errors)
  OBVIOUS
<1>19. Once(product_review_errors)
  OBVIOUS
<1>20. Once(reviewed_attribute_errors)
  OBVIOUS
<1>21. Once(catalog_projection_errors)
  OBVIOUS
<1>22. Once(publishing_readiness_errors)
  OBVIOUS
<1>23. Once(catalog_export_errors)
  OBVIOUS
<1>24. Once(catalog_enrichment_errors)
  OBVIOUS
<1>25. Once(product_intelligence_errors)
  OBVIOUS
<1>26. Once(catalog_search_errors)
  OBVIOUS
<1>27. Once(catalog_workflow_errors)
  OBVIOUS
<1>28. Once(unilog_challenge_errors)
  OBVIOUS
<1>29. Once(builtin_errors)
  OBVIOUS
<1>30. Apart(product_errors, from_2)
  OBVIOUS
<1>31. Apart(product_source_errors, from_3)
  OBVIOUS
<1>32. Apart(processing_job_errors, from_4)
  OBVIOUS
<1>33. Apart(pdf_text_extraction_errors, from_5)
  OBVIOUS
<1>34. Apart(pdf_table_extraction_errors, from_6)
  OBVIOUS
<1>35. Apart(csv_processing_errors, from_7)
  OBVIOUS
<1>36. Apart(image_analysis_errors, from_8)
  OBVIOUS
<1>37. Apart(image_ocr_errors, from_9)
  OBVIOUS
<1>38. Apart(object_storage_errors, from_10)
  OBVIOUS
<1>39. Apart(product_classification_errors, from_11)
  OBVIOUS
<1>40. Apart(category_schema_errors, from_12)
  OBVIOUS
<1>41. Apart(attribute_extraction_errors, from_13)
  OBVIOUS
<1>42. Apart(attribute_normalization_errors, from_14)
  OBVIOUS
<1>43. Apart(attribute_conflict_errors, from_15)
  OBVIOUS
<1>44. Apart(attribute_completeness_errors, from_16)
  OBVIOUS
<1>45. Apart(attribute_validation_errors, from_17)
  OBVIOUS
<1>46. Apart(attribute_selection_errors, from_18)
  OBVIOUS
<1>47. Apart(product_review_errors, from_19)
  OBVIOUS
<1>48. Apart(reviewed_attribute_errors, from_20)
  OBVIOUS
<1>49. Apart(catalog_projection_errors, from_21)
  OBVIOUS
<1>50. Apart(publishing_readiness_errors, from_22)
  OBVIOUS
<1>51. Apart(catalog_export_errors, from_23)
  OBVIOUS
<1>52. Apart(catalog_enrichment_errors, from_24)
  OBVIOUS
<1>53. Apart(product_intelligence_errors, from_25)
  OBVIOUS
<1>54. Apart(catalog_search_errors, from_26)
  OBVIOUS
<1>55. Apart(catalog_workflow_errors, from_27)
  OBVIOUS
<1>56. Apart(unilog_challenge_errors, builtin_errors)
  OBVIOUS
<1> HIDE DEF Once, Apart,
           product_errors, product_source_errors, processing_job_errors,
           pdf_text_extraction_errors, pdf_table_extraction_errors, csv_processing_errors,
           image_analysis_errors, image_ocr_errors, object_storage_errors,
           product_classification_errors, category_schema_errors, attribute_extraction_errors,
           attribute_normalization_errors, attribute_conflict_errors,
           attribute_completeness_errors, attribute_validation_errors,
           attribute_selection_errors, product_review_errors, reviewed_attribute_errors,
           catalog_projection_errors, publishing_readiness_errors, catalog_export_errors,
           catalog_enrichment_errors, product_intelligence_errors, catalog_search_errors,
           catalog_workflow_errors, unilog_challenge_errors, builtin_errors
<1>57. Once(from_27)
  BY <1>28, <1>56, <1>29, OnceTogether
<1>58. Once(from_26)
  BY <1>27, <1>55, <1>57, OnceTogether
<1>59. Once(from_25)
  BY <1>26, <1>54, <1>58, OnceTogether
<1>60. Once(from_24)
  BY <1>25, <1>53, <1>59, OnceTogether
<1>61. Once(from_23)
  BY <1>24, <1>52, <1>60, OnceTogether
<1>62. Once(from_22)
  BY <1>23, <1>51, <1>61, OnceTogether
<1>63. Once(from_21)
  BY <1>22, <1>50, <1>62, OnceTogether
<1>64. Once(from_20)
  BY <1>21, <1>49, <1>63, OnceTogether
<1>65. Once(from_19)
  BY <1>20, <1>48, <1>64, OnceTogether
<1>66. Once(from_18)
  BY <1>19, <1>47, <1>65, OnceTogether
<1>67. Once(from_17)
  BY <1>18, <1>46, <1>66, OnceTogether
<1>68. Once(from_16)
  BY <1>17, <1>45, <1>67, OnceTogether
<1>69. Once(from_15)
  BY <1>16, <1>44, <1>68, OnceTogether
<1>70. Once(from_14)
  BY <1>15, <1>43, <1>69, OnceTogether
<1>71. Once(from_13)
  BY <1>14, <1>42, <1>70, OnceTogether
<1>72. Once(from_12)
  BY <1>13, <1>41, <1>71, OnceTogether
<1>73. Once(from_11)
  BY <1>12, <1>40, <1>72, OnceTogether
<1>74. Once(from_10)
  BY <1>11, <1>39, <1>73, OnceTogether
<1>75. Once(from_9)
  BY <1>10, <1>38, <1>74, OnceTogether
<1>76. Once(from_8)
  BY <1>9, <1>37, <1>75, OnceTogether
<1>77. Once(from_7)
  BY <1>8, <1>36, <1>76, OnceTogether
<1>78. Once(from_6)
  BY <1>7, <1>35, <1>77, OnceTogether
<1>79. Once(from_5)
  BY <1>6, <1>34, <1>78, OnceTogether
<1>80. Once(from_4)
  BY <1>5, <1>33, <1>79, OnceTogether
<1>81. Once(from_3)
  BY <1>4, <1>32, <1>80, OnceTogether
<1>82. Once(from_2)
  BY <1>3, <1>31, <1>81, OnceTogether
<1>83. Once(from_1)
  BY <1>2, <1>30, <1>82, OnceTogether
<1> QED
  BY <1>1, <1>83

\* Where a class stands: at the top of a family, in it, or in a part of it.
Root(c, coded) == Class(c, "Exception", coded) \in Hierarchy
Leaf(c, base, coded) == Class(c, base, coded) \in Hierarchy /\ Root(base, coded)
Inner(c, part, base, coded) ==
  /\ Class(c, part, coded) \in Hierarchy /\ Class(part, base, coded) \in Hierarchy
  /\ Root(base, coded)

\* A class has the parent and the code it is defined with.
LEMMA ClassIsKnown ==
    ASSUME NEW c, NEW parent, NEW coded \in BOOLEAN, Class(c, parent, coded) \in Hierarchy
    PROVE  c \in DOMAIN MRO /\ c # "Exception" /\ Parent[c] = parent /\ (HasCode(c) <=> coded)
<1> DEFINE d == Class(c, parent, coded)
<1>1. d \in Hierarchy /\ d.class = c /\ d.parent = parent /\ (d.coded <=> coded)
  BY DEF Class
<1>2. \A e \in Hierarchy : /\ e.class # "Exception"
                           /\ e.class = c => e.parent = parent /\ (e.coded <=> coded)
  <2> HIDE DEF d
  <2> QED
    BY <1>1, ClassesAreDefinedOnce DEF Once
<1> HIDE DEF d
<1>3. c # "Exception" /\ c \in DOMAIN Parent /\ c \in DOMAIN MRO
  BY <1>1, <1>2 DEF Parent, MRO
<1>4. Parent[c] = (CHOOSE e \in Hierarchy : e.class = c).parent
  BY <1>3 DEF Parent
<1>5. (CHOOSE e \in Hierarchy : e.class = c) \in {e \in Hierarchy : e.class = c}
  BY <1>1
<1>6. Parent[c] = parent
  BY <1>2, <1>4, <1>5
<1>7. HasCode(c) <=> coded
  BY <1>1, <1>2 DEF HasCode
<1> QED
  BY <1>3, <1>6, <1>7

\* The root stands above every class, and above itself.
LEMMA Ancestors ==
    ASSUME NEW c \in DOMAIN MRO, NEW x \in DOMAIN MRO
    PROVE  IsA(c, x) <=> x \in {c, Parent[c], Parent[Parent[c]], Parent[Parent[Parent[c]]],
                                "Exception"}
<1>1. MRO[c] = <<c, Parent[c], Parent[Parent[c]], Parent[Parent[Parent[c]]], "Exception">>
  BY DEF MRO
<1>2. IsA(c, x) <=> \E i \in 1 .. 5 : MRO[c][i] = x
  BY DEF IsA, SubclassesOf, Subclasses
<1>3. /\ MRO[c][1] = c /\ MRO[c][2] = Parent[c] /\ MRO[c][3] = Parent[Parent[c]]
      /\ MRO[c][4] = Parent[Parent[Parent[c]]] /\ MRO[c][5] = "Exception"
  BY <1>1
<1>4. \A i \in 1 .. 5 : i \in {1, 2, 3, 4, 5}
  OBVIOUS
<1> QED
  BY <1>2, <1>3, <1>4

\* The root is its own parent.
LEMMA TopIsException ==
    "Exception" \in DOMAIN MRO /\ Parent["Exception"] = "Exception"
BY DEF MRO, Parent

\* The root of a family is an Exception only.
LEMMA RootIs ==
    ASSUME NEW c, NEW coded \in BOOLEAN, Root(c, coded)
    PROVE  /\ c \in DOMAIN MRO /\ c # "Exception" /\ (HasCode(c) <=> coded)
           /\ Parent[c] = "Exception"
           /\ \A x \in DOMAIN MRO : IsA(c, x) <=> x \in {c, "Exception"}
<1>1. c \in DOMAIN MRO /\ c # "Exception" /\ Parent[c] = "Exception" /\ (HasCode(c) <=> coded)
  BY ClassIsKnown DEF Root
<1> QED
  BY <1>1, Ancestors, TopIsException

\* A member of a family is one of its root.
LEMMA LeafIs ==
    ASSUME NEW c, NEW base, NEW coded \in BOOLEAN, Leaf(c, base, coded)
    PROVE  /\ c \in DOMAIN MRO /\ c # "Exception" /\ c # base /\ (HasCode(c) <=> coded)
           /\ Parent[c] = base /\ base # "Exception"
           /\ \A x \in DOMAIN MRO : IsA(c, x) <=> x \in {c, base, "Exception"}
<1>1. c \in DOMAIN MRO /\ c # "Exception" /\ Parent[c] = base /\ (HasCode(c) <=> coded)
  BY ClassIsKnown DEF Leaf
<1>2. base # "Exception" /\ Parent[base] = "Exception"
  BY ClassIsKnown DEF Leaf, Root
<1> QED
  BY <1>1, <1>2, Ancestors, TopIsException

\* So is a member of a part of it.
LEMMA InnerIs ==
    ASSUME NEW c, NEW part, NEW base, NEW coded \in BOOLEAN, Inner(c, part, base, coded)
    PROVE  /\ c \in DOMAIN MRO /\ c # "Exception" /\ c # base /\ (HasCode(c) <=> coded)
           /\ Parent[c] = part /\ part # "Exception" /\ Parent[part] = base /\ base # "Exception"
           /\ \A x \in DOMAIN MRO : IsA(c, x) <=> x \in {c, part, base, "Exception"}
<1>1. c \in DOMAIN MRO /\ c # "Exception" /\ Parent[c] = part /\ (HasCode(c) <=> coded)
  BY ClassIsKnown DEF Inner
<1>2. part # "Exception" /\ Parent[part] = base /\ (HasCode(part) <=> coded)
  BY ClassIsKnown DEF Inner
<1>3. base # "Exception" /\ Parent[base] = "Exception"
  BY ClassIsKnown DEF Inner, Root
<1> QED
  BY <1>1, <1>2, <1>3, Ancestors, TopIsException

(* ------------------------------ the clauses ----------------------------- *)

JobErrorOf(s, c) == Translated(Handling(s.clauses, c).job, c)
RaisedBy(s, c) == Translated(Handling(s.clauses, c).raised, c)

\* A cause is an error of the service's family, of the repository of its
\* results, of the object storage, or none of these.
Ours(own, repository, c) ==
  IsA(c, own) /\ ~IsA(c, repository) /\ ~IsA(c, "ObjectStorageError") /\ HasCode(c)
OfResults(own, repository, c) ==
  ~IsA(c, own) /\ IsA(c, repository) /\ ~IsA(c, "ObjectStorageError") /\ ~HasCode(c)
OfStorage(own, repository, c) ==
  ~IsA(c, own) /\ ~IsA(c, repository) /\ IsA(c, "ObjectStorageError")
OfOthers(own, repository, c) ==
  ~IsA(c, own) /\ ~IsA(c, repository) /\ ~IsA(c, "ObjectStorageError")

\* Which of these it is follows from where its class stands.  A missing object
\* is told from other errors of the storage.
Family(own, repository) ==
  Root(own, TRUE) /\ Root(repository, FALSE) /\ repository # "ObjectStorageError"
IsMissing(c) == IsA(c, "ObjectNotFoundError")

\* The roots of a service's family, of its results and of the storage differ.
LEMMA Families ==
    ASSUME NEW own, NEW repository, Family(own, repository)
    PROVE  /\ {own, repository, "ObjectStorageError", "ObjectNotFoundError", "Exception"}
                \subseteq DOMAIN MRO
           /\ "Exception" \notin {own, repository, "ObjectStorageError", "ObjectNotFoundError"}
           /\ HasCode(own) /\ ~HasCode(repository) /\ ~HasCode("ObjectStorageError")
           /\ \A c \in {own, repository, "ObjectStorageError"} : Parent[c] = "Exception"
           /\ Parent["ObjectNotFoundError"] = "ObjectStorageError"
           /\ own # repository /\ own # "ObjectStorageError"
<1>1. Root("ObjectStorageError", FALSE)
  BY DEF Root, Hierarchy, object_storage_errors, Plain
<1>2. Leaf("ObjectNotFoundError", "ObjectStorageError", FALSE)
  BY <1>1 DEF Leaf, Hierarchy, object_storage_errors, Plain
<1>3. /\ {own, repository, "ObjectStorageError", "Exception"} \subseteq DOMAIN MRO
      /\ "Exception" \notin {own, repository, "ObjectStorageError"}
      /\ HasCode(own) /\ ~HasCode(repository) /\ ~HasCode("ObjectStorageError")
      /\ \A c \in {own, repository, "ObjectStorageError"} : Parent[c] = "Exception"
  BY <1>1, RootIs, TopIsException DEF Family
<1>4. /\ "ObjectNotFoundError" \in DOMAIN MRO
      /\ Parent["ObjectNotFoundError"] = "ObjectStorageError"
  BY <1>2, LeafIs
<1> QED
  BY <1>3, <1>4

\* A class of the service's family, of its results, of the storage or of neither
\* is a cause of that kind alone.
LEMMA Kinds ==
    ASSUME NEW own, NEW repository, Family(own, repository)
    PROVE  /\ \A c : c = own \/ Leaf(c, own, TRUE)
                        => Ours(own, repository, c) /\ ~IsMissing(c)
           /\ \A c, part : Inner(c, part, own, TRUE)
                        => Ours(own, repository, c) /\ ~IsMissing(c)
           /\ \A c : c = repository \/ Leaf(c, repository, FALSE)
                        => OfResults(own, repository, c) /\ ~IsMissing(c)
           /\ \A c : c = "ObjectStorageError" \/ Leaf(c, "ObjectStorageError", FALSE)
                        => /\ OfStorage(own, repository, c)
                           /\ IsMissing(c) <=> c = "ObjectNotFoundError"
           /\ \A c : Root(c, FALSE) /\ c \notin {repository, "ObjectStorageError"}
                        => OfOthers(own, repository, c) /\ ~IsMissing(c)
<1> USE Families DEF IsMissing
<1>3. Ours(own, repository, own) /\ ~IsMissing(own)
  BY RootIs DEF Ours, Family
<1>4. ASSUME NEW c, Leaf(c, own, TRUE) PROVE Ours(own, repository, c) /\ ~IsMissing(c)
  <2>1. /\ HasCode(c) /\ Parent[c] = own
        /\ \A x \in DOMAIN MRO : IsA(c, x) <=> x \in {c, own, "Exception"}
    BY <1>4, LeafIs
  <2> QED
    BY <2>1 DEF Ours
<1>5. ASSUME NEW c, NEW part, Inner(c, part, own, TRUE)
      PROVE  Ours(own, repository, c) /\ ~IsMissing(c)
  <2>1. /\ HasCode(c) /\ Parent[c] = part /\ Parent[part] = own /\ part # "Exception"
        /\ \A x \in DOMAIN MRO : IsA(c, x) <=> x \in {c, part, own, "Exception"}
    BY <1>5, InnerIs
  <2> QED
    BY <2>1 DEF Ours
<1>6. OfResults(own, repository, repository) /\ ~IsMissing(repository)
  BY RootIs DEF OfResults, Family
<1>7. ASSUME NEW c, Leaf(c, repository, FALSE)
      PROVE  OfResults(own, repository, c) /\ ~IsMissing(c)
  <2>1. /\ ~HasCode(c) /\ Parent[c] = repository
        /\ \A x \in DOMAIN MRO : IsA(c, x) <=> x \in {c, repository, "Exception"}
    BY <1>7, LeafIs
  <2> QED
    BY <2>1 DEF OfResults, Family
<1>8. OfStorage(own, repository, "ObjectStorageError") /\ ~IsMissing("ObjectStorageError")
  <2>1. Root("ObjectStorageError", FALSE)
    BY DEF Root, Hierarchy, object_storage_errors, Plain
  <2> QED
    BY <2>1, RootIs DEF OfStorage, Family
<1>9. ASSUME NEW c, Leaf(c, "ObjectStorageError", FALSE)
      PROVE  OfStorage(own, repository, c) /\ (IsMissing(c) <=> c = "ObjectNotFoundError")
  <2>1. /\ Parent[c] = "ObjectStorageError"
        /\ \A x \in DOMAIN MRO : IsA(c, x) <=> x \in {c, "ObjectStorageError", "Exception"}
    BY <1>9, LeafIs
  <2> QED
    BY <2>1 DEF OfStorage, Family
<1>10. ASSUME NEW c, Root(c, FALSE), c \notin {repository, "ObjectStorageError"}
       PROVE  OfOthers(own, repository, c) /\ ~IsMissing(c)
  <2>1. /\ ~HasCode(c) /\ Parent[c] = "Exception"
        /\ \A x \in DOMAIN MRO : IsA(c, x) <=> x \in {c, "Exception"}
    BY <1>10, RootIs
  <2> QED
    BY <1>10, <2>1 DEF OfOthers, Family
<1> QED
  BY <1>3, <1>4, <1>5, <1>6, <1>7, <1>8, <1>9, <1>10

\* The clauses are tried in their order.
LEMMA FirstClause ==
    ASSUME NEW clauses, DOMAIN clauses \subseteq Nat \ {0}, NEW c, NEW i \in DOMAIN clauses,
           Applies(clauses[i], c), \A j \in 1 .. (i - 1) : ~Applies(clauses[j], c)
    PROVE  Handling(clauses, c) = clauses[i]
<1> DEFINE first(k) == /\ Applies(clauses[k], c)
                       /\ \A j \in 1 .. (k - 1) : ~Applies(clauses[j], c)
<1>1. \A k \in DOMAIN clauses : first(k) => k = i
  <2> TAKE k \in DOMAIN clauses
  <2> HAVE first(k)
  <2>1. i \in Nat \ {0} /\ k \in Nat \ {0}
    OBVIOUS
  <2>2. ~ (k < i)
    BY <2>1
  <2>3. ~ (i < k)
    BY <2>1
  <2> QED
    BY <2>1, <2>2, <2>3
<1>2. (CHOOSE k \in DOMAIN clauses : first(k)) = i
  BY <1>1
<1> QED
  BY <1>2 DEF Handling

\* An error of the service's own is kept, a failed write of the result is
\* called by its name, and what is not foreseen is the service's own error.
LEMMA AnalysisHandling ==
    ASSUME NEW s, NEW repository, NEW result_storage, NEW c \in DOMAIN MRO,
           s.clauses = AnalysisClauses(s.own, repository, result_storage),
           Family(s.own, repository), "itself" \notin {s.own, result_storage}
    PROVE  /\ RaisedBy(s, c) = JobErrorOf(s, c)
           /\ Ours(s.own, repository, c) => JobErrorOf(s, c) = c
           /\ OfResults(s.own, repository, c) => JobErrorOf(s, c) = result_storage
           /\ OfOthers(s.own, repository, c) => JobErrorOf(s, c) = s.own
<1> DEFINE k == s.clauses
<1>1. /\ DOMAIN k = 1 .. 3 /\ k[1] = Clause(s.own, "itself", "itself")
      /\ k[2] = Clause(repository, result_storage, result_storage)
      /\ k[3] = Clause("Exception", s.own, s.own)
  BY DEF AnalysisClauses, Keep, Translate
<1>2. /\ Applies(k[1], c) <=> IsA(c, s.own)
      /\ Applies(k[2], c) <=> IsA(c, repository)
      /\ Applies(k[3], c)
  BY <1>1, Families, Ancestors DEF Applies, Clause
<1> HIDE DEF k
<1>3. IsA(c, s.own) => Handling(k, c) = k[1]
  BY <1>1, <1>2, FirstClause
<1>4. ~IsA(c, s.own) /\ IsA(c, repository) => Handling(k, c) = k[2]
  BY <1>1, <1>2, FirstClause
<1>5. ~IsA(c, s.own) /\ ~IsA(c, repository) => Handling(k, c) = k[3]
  BY <1>1, <1>2, FirstClause
<1> QED
  BY <1>1, <1>3, <1>4, <1>5
     DEF k, JobErrorOf, RaisedBy, Translated, Clause, Ours, OfResults, OfOthers

\* The export tells a failed object storage from the rest.
LEMMA ExportHandling ==
    ASSUME NEW s, NEW repository, NEW storage, NEW result_storage, NEW c \in DOMAIN MRO,
           s.clauses = << Keep(s.own), Translate("ObjectStorageError", storage),
                          Translate(repository, result_storage),
                          Translate("Exception", s.own) >>,
           Family(s.own, repository), "itself" \notin {s.own, storage, result_storage}
    PROVE  /\ RaisedBy(s, c) = JobErrorOf(s, c)
           /\ Ours(s.own, repository, c) => JobErrorOf(s, c) = c
           /\ OfResults(s.own, repository, c) => JobErrorOf(s, c) = result_storage
           /\ OfStorage(s.own, repository, c) => JobErrorOf(s, c) = storage
           /\ OfOthers(s.own, repository, c) => JobErrorOf(s, c) = s.own
<1> DEFINE k == s.clauses
<1>1. /\ DOMAIN k = 1 .. 4 /\ k[1] = Clause(s.own, "itself", "itself")
      /\ k[2] = Clause("ObjectStorageError", storage, storage)
      /\ k[3] = Clause(repository, result_storage, result_storage)
      /\ k[4] = Clause("Exception", s.own, s.own)
  BY DEF Keep, Translate
<1>2. /\ Applies(k[1], c) <=> IsA(c, s.own)
      /\ Applies(k[2], c) <=> IsA(c, "ObjectStorageError")
      /\ Applies(k[3], c) <=> IsA(c, repository)
      /\ Applies(k[4], c)
  BY <1>1, Families, Ancestors DEF Applies, Clause
<1> HIDE DEF k
<1>3. IsA(c, s.own) => Handling(k, c) = k[1]
  BY <1>1, <1>2, FirstClause
<1>4. ~IsA(c, s.own) /\ IsA(c, "ObjectStorageError") => Handling(k, c) = k[2]
  BY <1>1, <1>2, FirstClause
<1>5. ~IsA(c, s.own) /\ ~IsA(c, "ObjectStorageError") /\ IsA(c, repository)
         => Handling(k, c) = k[3]
  BY <1>1, <1>2, FirstClause
<1>6. ~IsA(c, s.own) /\ ~IsA(c, "ObjectStorageError") /\ ~IsA(c, repository)
         => Handling(k, c) = k[4]
  BY <1>1, <1>2, FirstClause
<1> QED
  BY <1>1, <1>3, <1>4, <1>5, <1>6
     DEF k, JobErrorOf, RaisedBy, Translated, Clause, Ours, OfResults, OfStorage, OfOthers

\* The enrichment and the score look for a failed write first.
LEMMA ResultsFirstHandling ==
    ASSUME NEW s, NEW repository, NEW result_storage, NEW c \in DOMAIN MRO,
           s.clauses = << Translate(repository, result_storage), Keep(s.own),
                          Translate("Exception", s.own) >>,
           Family(s.own, repository), "itself" \notin {s.own, result_storage}
    PROVE  /\ RaisedBy(s, c) = JobErrorOf(s, c)
           /\ Ours(s.own, repository, c) => JobErrorOf(s, c) = c
           /\ OfResults(s.own, repository, c) => JobErrorOf(s, c) = result_storage
           /\ OfOthers(s.own, repository, c) => JobErrorOf(s, c) = s.own
<1> DEFINE k == s.clauses
<1>1. /\ DOMAIN k = 1 .. 3 /\ k[2] = Clause(s.own, "itself", "itself")
      /\ k[1] = Clause(repository, result_storage, result_storage)
      /\ k[3] = Clause("Exception", s.own, s.own)
  BY DEF Keep, Translate
<1>2. /\ Applies(k[1], c) <=> IsA(c, repository)
      /\ Applies(k[2], c) <=> IsA(c, s.own)
      /\ Applies(k[3], c)
  BY <1>1, Families, Ancestors DEF Applies, Clause
<1> HIDE DEF k
<1>3. IsA(c, repository) => Handling(k, c) = k[1]
  BY <1>1, <1>2, FirstClause
<1>4. ~IsA(c, repository) /\ IsA(c, s.own) => Handling(k, c) = k[2]
  BY <1>1, <1>2, FirstClause
<1>5. ~IsA(c, repository) /\ ~IsA(c, s.own) => Handling(k, c) = k[3]
  BY <1>1, <1>2, FirstClause
<1> QED
  BY <1>1, <1>3, <1>4, <1>5
     DEF k, JobErrorOf, RaisedBy, Translated, Clause, Ours, OfResults, OfOthers

\* A source's service tells a missing object from an unavailable storage, and
\* records a failed write of the result without translating what it raises.
LEMMA ReadingHandling ==
    ASSUME NEW s, NEW repository, NEW missing, NEW storage, NEW result_storage,
           NEW c \in DOMAIN MRO,
           s.clauses = ReadingClauses(missing, storage, s.own, repository, result_storage),
           Family(s.own, repository), "itself" \notin {s.own, missing, storage, result_storage}
    PROVE  /\ ~IsA(c, repository) => RaisedBy(s, c) = JobErrorOf(s, c)
           /\ Ours(s.own, repository, c) /\ ~IsMissing(c) => JobErrorOf(s, c) = c
           /\ OfResults(s.own, repository, c) /\ ~IsMissing(c)
                 => JobErrorOf(s, c) = result_storage /\ RaisedBy(s, c) = c
           /\ IsMissing(c) => JobErrorOf(s, c) = missing
           /\ OfStorage(s.own, repository, c) /\ ~IsMissing(c) => JobErrorOf(s, c) = storage
           /\ OfOthers(s.own, repository, c) /\ ~IsMissing(c) => JobErrorOf(s, c) = s.own
<1> DEFINE k == s.clauses
<1>1. /\ DOMAIN k = 1 .. 5
      /\ k[1] = Clause("ObjectNotFoundError", missing, missing)
      /\ k[2] = Clause("ObjectStorageError", storage, storage)
      /\ k[3] = Clause(s.own, "itself", "itself")
      /\ k[4] = Clause(repository, result_storage, "itself")
      /\ k[5] = Clause("Exception", s.own, s.own)
  BY DEF ReadingClauses, Keep, Translate, Record
<1>2. /\ Applies(k[1], c) <=> IsMissing(c)
      /\ Applies(k[2], c) <=> IsA(c, "ObjectStorageError")
      /\ Applies(k[3], c) <=> IsA(c, s.own)
      /\ Applies(k[4], c) <=> IsA(c, repository)
      /\ Applies(k[5], c)
  BY <1>1, Families, Ancestors DEF Applies, Clause, IsMissing
<1> HIDE DEF k
<1>3. IsMissing(c) => Handling(k, c) = k[1]
  BY <1>1, <1>2, FirstClause
<1>4. ~IsMissing(c) /\ IsA(c, "ObjectStorageError") => Handling(k, c) = k[2]
  BY <1>1, <1>2, FirstClause
<1>5. ~IsMissing(c) /\ ~IsA(c, "ObjectStorageError") /\ IsA(c, s.own) => Handling(k, c) = k[3]
  BY <1>1, <1>2, FirstClause
<1>6. ~IsMissing(c) /\ ~IsA(c, "ObjectStorageError") /\ ~IsA(c, s.own) /\ IsA(c, repository)
         => Handling(k, c) = k[4]
  BY <1>1, <1>2, FirstClause
<1>7. ~IsMissing(c) /\ OfOthers(s.own, repository, c) => Handling(k, c) = k[5]
  BY <1>1, <1>2, FirstClause DEF OfOthers
<1>8. \A i \in {1, 2, 3, 5} : Translated(k[i].raised, c) = Translated(k[i].job, c)
  BY <1>1 DEF Clause
<1> QED
  BY <1>1, <1>3, <1>4, <1>5, <1>6, <1>7, <1>8
     DEF k, JobErrorOf, RaisedBy, Translated, Clause, Ours, OfResults, OfStorage, OfOthers

(* ----------------------------- the services ----------------------------- *)

\* Where the classes of the causes of a service stand.  The services that use
\* the object storage have its errors as storage_errors, the others none.
Causes(s, repository, storage_errors) ==
  /\ Family(s.own, repository)
  /\ \A c \in s.store : \/ Leaf(c, s.own, TRUE)
                        \/ c = repository \/ Leaf(c, repository, FALSE)
  /\ \A c \in s.work : \/ c = s.own \/ Leaf(c, s.own, TRUE) \/ \E part : Inner(c, part, s.own, TRUE)
                       \/ Root(c, FALSE) /\ c \notin {repository, "ObjectStorageError"}
                       \/ c \in storage_errors
  /\ \A c \in storage_errors : c = "ObjectStorageError" \/ Leaf(c, "ObjectStorageError", FALSE)

\* What the job is failed with is of the service's family and has a code; it
\* is the cause itself, or names the write or the storage that failed.
NamesItsCauses(s) ==
  \A c \in s.work \cup s.store :
    /\ IsA(JobErrorOf(s, c), s.own) /\ HasCode(JobErrorOf(s, c))
    /\ IsA(c, s.own) => JobErrorOf(s, c) = c
    /\ c \in s.store \cup StorageCauses => JobErrorOf(s, c) # s.own
    /\ c = "ObjectNotFoundError" =>
         \A other \in (s.work \cap StorageCauses) \ {c} : JobErrorOf(s, c) # JobErrorOf(s, other)

\* A source's service raises what its job is failed with, but for a failed
\* write, which has no code.
HidesFailedWrites(s) ==
  \A c \in s.work \cup s.store :
    IF c \in s.store /\ ~IsA(c, s.own) THEN ~HasCode(RaisedBy(s, c))
    ELSE RaisedBy(s, c) = JobErrorOf(s, c)

\* Every cause is of one kind, and no failed write is foreign to the service.
LEMMA KindsOfCauses ==
    ASSUME NEW s, NEW repository, NEW storage_errors, Causes(s, repository, storage_errors)
    PROVE  /\ \A c \in s.work \cup s.store : c \in DOMAIN MRO
           /\ \A c \in s.store : \/ Ours(s.own, repository, c) /\ c # s.own /\ ~IsMissing(c)
                                 \/ OfResults(s.own, repository, c) /\ ~IsMissing(c)
           /\ \A c \in s.work : \/ Ours(s.own, repository, c) /\ ~IsMissing(c)
                                \/ OfOthers(s.own, repository, c) /\ ~IsMissing(c)
                                \/ /\ c \in storage_errors /\ OfStorage(s.own, repository, c)
                                   /\ IsMissing(c) <=> c = "ObjectNotFoundError"
<1>1. Family(s.own, repository)
  BY DEF Causes
<1>2. ASSUME NEW c \in s.store
      PROVE  /\ c \in DOMAIN MRO
             /\ \/ Ours(s.own, repository, c) /\ c # s.own /\ ~IsMissing(c)
                \/ OfResults(s.own, repository, c) /\ ~IsMissing(c)
  <2>1. CASE Leaf(c, s.own, TRUE)
    <3>1. c \in DOMAIN MRO /\ c # s.own
      BY <2>1, LeafIs
    <3> QED
      BY <1>1, <2>1, <3>1, Kinds
  <2>2. CASE c = repository \/ Leaf(c, repository, FALSE)
    <3>1. repository \in DOMAIN MRO
      BY <1>1, Families
    <3>2. Leaf(c, repository, FALSE) => c \in DOMAIN MRO
      BY LeafIs
    <3> QED
      BY <1>1, <2>2, <3>1, <3>2, Kinds
  <2> QED
    BY <2>1, <2>2 DEF Causes
<1>3. ASSUME NEW c \in s.work
      PROVE  /\ c \in DOMAIN MRO
             /\ \/ Ours(s.own, repository, c) /\ ~IsMissing(c)
                \/ OfOthers(s.own, repository, c) /\ ~IsMissing(c)
                \/ /\ c \in storage_errors /\ OfStorage(s.own, repository, c)
                   /\ IsMissing(c) <=> c = "ObjectNotFoundError"
  <2>1. CASE c = s.own \/ Leaf(c, s.own, TRUE)
    <3>1. s.own \in DOMAIN MRO
      BY <1>1, Families
    <3>2. Leaf(c, s.own, TRUE) => c \in DOMAIN MRO
      BY LeafIs
    <3> QED
      BY <1>1, <2>1, <3>1, <3>2, Kinds
  <2>2. CASE \E part : Inner(c, part, s.own, TRUE)
    BY <1>1, <2>2, InnerIs, Kinds
  <2>3. CASE Root(c, FALSE) /\ c \notin {repository, "ObjectStorageError"}
    BY <1>1, <2>3, RootIs, Kinds
  <2>4. CASE c \in storage_errors
    <3>1. c = "ObjectStorageError" \/ Leaf(c, "ObjectStorageError", FALSE)
      BY <2>4 DEF Causes
    <3> QED
      BY <1>1, <2>4, <3>1, LeafIs, Families, Kinds
  <2> QED
    BY <2>1, <2>2, <2>3, <2>4 DEF Causes
<1> QED
  BY <1>2, <1>3

\* A service names its causes if it keeps its own errors, has one of its own
\* for a failed write and for the storage, and uses its general error for what
\* is foreign to it alone.
LEMMA HandledAreNamed ==
    ASSUME NEW s, NEW repository, NEW storage_errors, Causes(s, repository, storage_errors),
           \A c \in s.work \cup s.store :
              /\ Ours(s.own, repository, c) => JobErrorOf(s, c) = c
              /\ OfResults(s.own, repository, c) => Leaf(JobErrorOf(s, c), s.own, TRUE)
              /\ OfStorage(s.own, repository, c) => Leaf(JobErrorOf(s, c), s.own, TRUE)
              /\ OfOthers(s.own, repository, c) => JobErrorOf(s, c) = s.own,
           "ObjectNotFoundError" \in s.work \cup s.store =>
              \A other \in (s.work \cap StorageCauses) \ {"ObjectNotFoundError"} :
                 JobErrorOf(s, "ObjectNotFoundError") # JobErrorOf(s, other)
    PROVE  NamesItsCauses(s)
<1>1. Family(s.own, repository)
  BY DEF Causes
<1>2. \A c : c \in StorageCauses <=> IsA(c, "ObjectStorageError")
  BY DEF StorageCauses, IsA
<1>3. /\ IsA(s.own, s.own) /\ HasCode(s.own)
      /\ \A e : Leaf(e, s.own, TRUE) => IsA(e, s.own) /\ HasCode(e) /\ e # s.own
  BY <1>1, RootIs, LeafIs, Families DEF Family
<1>4. ASSUME NEW c \in s.work \cup s.store
      PROVE  /\ IsA(JobErrorOf(s, c), s.own) /\ HasCode(JobErrorOf(s, c))
             /\ IsA(c, s.own) => JobErrorOf(s, c) = c
             /\ c \in s.store \cup StorageCauses => JobErrorOf(s, c) # s.own
  <2>1. CASE Ours(s.own, repository, c)
    <3>1. JobErrorOf(s, c) = c /\ IsA(c, s.own) /\ HasCode(c) /\ c \notin StorageCauses
      BY <1>2, <2>1 DEF Ours
    <3>2. c \in s.store => c # s.own
      BY <2>1, KindsOfCauses DEF Ours, OfResults
    <3> QED
      BY <3>1, <3>2
  <2>2. CASE OfResults(s.own, repository, c) \/ OfStorage(s.own, repository, c)
    BY <1>3, <2>2 DEF OfResults, OfStorage
  <2>3. CASE OfOthers(s.own, repository, c)
    <3>1. c \notin s.store
      BY <2>3, KindsOfCauses DEF Ours, OfResults, OfOthers
    <3> QED
      BY <1>2, <1>3, <2>3, <3>1 DEF OfOthers
  <2> QED
    BY <2>1, <2>2, <2>3, KindsOfCauses
<1> QED
  BY <1>4 DEF NamesItsCauses

\* An analysis service names its causes, and raises what its job is failed with.
LEMMA AnalysisNames ==
    ASSUME NEW s, NEW repository, NEW result_storage, Causes(s, repository, {}),
           Leaf(result_storage, s.own, TRUE), "itself" \notin {s.own, result_storage},
           "ObjectNotFoundError" \notin s.work \cup s.store,
           \/ s.clauses = AnalysisClauses(s.own, repository, result_storage)
           \/ s.clauses = << Translate(repository, result_storage), Keep(s.own),
                             Translate("Exception", s.own) >>
    PROVE  /\ NamesItsCauses(s)
           /\ \A c \in s.work \cup s.store : RaisedBy(s, c) = JobErrorOf(s, c)
<1>1. ASSUME NEW c \in s.work \cup s.store
      PROVE  /\ RaisedBy(s, c) = JobErrorOf(s, c)
             /\ Ours(s.own, repository, c) => JobErrorOf(s, c) = c
             /\ OfResults(s.own, repository, c) => JobErrorOf(s, c) = result_storage
             /\ ~OfStorage(s.own, repository, c)
             /\ OfOthers(s.own, repository, c) => JobErrorOf(s, c) = s.own
  <2> DEFINE storage_errors == {}
  <2>1. c \in DOMAIN MRO /\ Family(s.own, repository)
    <3>1. Causes(s, repository, storage_errors)
      OBVIOUS
    <3>2. Family(s.own, repository)
      BY DEF Causes
    <3> HIDE DEF storage_errors
    <3> QED
      BY <3>1, <3>2, KindsOfCauses
  <2>2. ~OfStorage(s.own, repository, c)
    BY KindsOfCauses DEF Ours, OfResults, OfStorage, OfOthers
  <2>3. CASE s.clauses = AnalysisClauses(s.own, repository, result_storage)
    BY <2>1, <2>2, <2>3, AnalysisHandling
  <2>4. CASE s.clauses = << Translate(repository, result_storage), Keep(s.own),
                            Translate("Exception", s.own) >>
    BY <2>1, <2>2, <2>4, ResultsFirstHandling
  <2> QED
    BY <2>3, <2>4
<1> QED
  BY <1>1, HandledAreNamed

\* So does the export, which works with the object storage.
LEMMA ExportNames ==
    ASSUME NEW s, NEW repository, NEW storage, NEW result_storage, NEW storage_errors,
           Causes(s, repository, storage_errors),
           Leaf(storage, s.own, TRUE), Leaf(result_storage, s.own, TRUE),
           "itself" \notin {s.own, storage, result_storage},
           "ObjectNotFoundError" \notin s.work \cup s.store,
           s.clauses = << Keep(s.own), Translate("ObjectStorageError", storage),
                          Translate(repository, result_storage),
                          Translate("Exception", s.own) >>
    PROVE  /\ NamesItsCauses(s)
           /\ \A c \in s.work \cup s.store : RaisedBy(s, c) = JobErrorOf(s, c)
<1>1. ASSUME NEW c \in s.work \cup s.store
      PROVE  /\ RaisedBy(s, c) = JobErrorOf(s, c)
             /\ Ours(s.own, repository, c) => JobErrorOf(s, c) = c
             /\ OfResults(s.own, repository, c) => JobErrorOf(s, c) = result_storage
             /\ OfStorage(s.own, repository, c) => JobErrorOf(s, c) = storage
             /\ OfOthers(s.own, repository, c) => JobErrorOf(s, c) = s.own
  <2>1. c \in DOMAIN MRO /\ Family(s.own, repository)
    BY KindsOfCauses DEF Causes
  <2> QED
    BY <2>1, ExportHandling
<1> QED
  BY <1>1, HandledAreNamed

\* A source's service names its causes, and hides a failed write alone from
\* the workflow.
LEMMA ReadingNames ==
    ASSUME NEW s, NEW repository, NEW missing, NEW storage, NEW result_storage,
           NEW storage_errors, Causes(s, repository, storage_errors),
           Leaf(missing, s.own, TRUE), Leaf(storage, s.own, TRUE),
           Leaf(result_storage, s.own, TRUE),
           missing # storage, "itself" \notin {s.own, missing, storage, result_storage},
           s.clauses = ReadingClauses(missing, storage, s.own, repository, result_storage)
    PROVE  NamesItsCauses(s) /\ HidesFailedWrites(s)
<1>1. ASSUME NEW c \in s.work \cup s.store
      PROVE  /\ ~IsA(c, repository) => RaisedBy(s, c) = JobErrorOf(s, c)
             /\ Ours(s.own, repository, c) => JobErrorOf(s, c) = c
             /\ OfResults(s.own, repository, c)
                   => JobErrorOf(s, c) = result_storage /\ RaisedBy(s, c) = c
             /\ c = "ObjectNotFoundError" => JobErrorOf(s, c) = missing
             /\ OfStorage(s.own, repository, c)
                   => JobErrorOf(s, c) = IF c = "ObjectNotFoundError" THEN missing ELSE storage
             /\ OfOthers(s.own, repository, c) => JobErrorOf(s, c) = s.own
  <2>1. c \in DOMAIN MRO /\ Family(s.own, repository)
    BY KindsOfCauses DEF Causes
  <2>2. IsMissing("ObjectNotFoundError")
    BY <2>1, Families, Ancestors DEF IsMissing
  <2>3. IF OfStorage(s.own, repository, c) THEN IsMissing(c) <=> c = "ObjectNotFoundError"
        ELSE ~IsMissing(c)
    BY KindsOfCauses DEF Ours, OfResults, OfStorage, OfOthers
  <2> QED
    BY <2>1, <2>2, <2>3, ReadingHandling DEF Ours, OfResults, OfStorage, OfOthers
<1>2. ASSUME "ObjectNotFoundError" \in s.work \cup s.store,
             NEW other \in (s.work \cap StorageCauses) \ {"ObjectNotFoundError"}
      PROVE  JobErrorOf(s, "ObjectNotFoundError") # JobErrorOf(s, other)
  <2>1. OfStorage(s.own, repository, other)
    BY <1>2, KindsOfCauses DEF Ours, OfOthers, StorageCauses, IsA
  <2> QED
    BY <1>1, <1>2, <2>1
<1>3. NamesItsCauses(s)
  BY <1>1, <1>2, HandledAreNamed
<1>4. ASSUME NEW c \in s.work \cup s.store
      PROVE  IF c \in s.store /\ ~IsA(c, s.own) THEN ~HasCode(RaisedBy(s, c))
             ELSE RaisedBy(s, c) = JobErrorOf(s, c)
  <2>1. CASE OfResults(s.own, repository, c)
    <3>1. c \in s.store
      BY <2>1, KindsOfCauses DEF Ours, OfResults, OfStorage, OfOthers
    <3> QED
      BY <1>1, <2>1, <3>1 DEF OfResults
  <2>2. CASE ~OfResults(s.own, repository, c)
    <3>1. ~IsA(c, repository) /\ (c \in s.store => IsA(c, s.own))
      BY <2>2, KindsOfCauses DEF Ours, OfStorage, OfOthers
    <3> QED
      BY <1>1, <3>1
  <2> QED
    BY <2>1, <2>2
<1> QED
  BY <1>3, <1>4 DEF HidesFailedWrites

\* What a service raises before its job runs is of its own family.
Prepares(s) ==
  /\ \A c \in {s.invalid_job} \cup s.checks : Leaf(c, s.own, TRUE)
  /\ \A read \in s.reads : /\ read.raised = s.own \/ Leaf(read.raised, s.own, TRUE)
                           /\ read.raised # "itself"

\* An analysis service raises what its job is failed with, and nothing without
\* a code before that.
RaisesItsJobError(s) ==
  /\ \A c \in s.work \cup s.store : RaisedBy(s, c) = JobErrorOf(s, c)
  /\ \A c \in {s.invalid_job} \cup s.checks : HasCode(c)
  /\ \A read \in s.reads : HasCode(Translated(read.raised, read.match))

\* The family of a service has codes.
LEMMA RaisesOurs ==
    ASSUME NEW s, Root(s.own, TRUE), Prepares(s)
    PROVE  /\ \A c \in {s.invalid_job} \cup s.checks : HasCode(c)
           /\ \A read \in s.reads : HasCode(Translated(read.raised, read.match))
<1>1. HasCode(s.own)
  BY RootIs
<1>2. \A c : Leaf(c, s.own, TRUE) => HasCode(c)
  BY LeafIs
<1> QED
  BY <1>1, <1>2 DEF Prepares, Translated

\* The errors of the evidence, and what no class describes, are of no family of
\* a service.
LEMMA ForeignErrors ==
    \A c \in evidence_errors \cup {"ValueError"} : Root(c, FALSE)
<1>1. /\ product_source_errors \subseteq Hierarchy /\ processing_job_errors \subseteq Hierarchy
      /\ pdf_text_extraction_errors \subseteq Hierarchy
      /\ pdf_table_extraction_errors \subseteq Hierarchy
      /\ csv_processing_errors \subseteq Hierarchy /\ image_ocr_errors \subseteq Hierarchy
      /\ builtin_errors \subseteq Hierarchy
  BY DEF Hierarchy
<1> USE <1>1 DEF Root, Plain
<1>2. Root("ProductSourceRepositoryError", FALSE)
  BY DEF product_source_errors
<1>3. Root("ProcessingJobRepositoryError", FALSE)
  BY DEF processing_job_errors
<1>4. Root("PdfExtractionRepositoryError", FALSE)
  BY DEF pdf_text_extraction_errors
<1>5. Root("PdfTableExtractionRepositoryError", FALSE)
  BY DEF pdf_table_extraction_errors
<1>6. Root("CsvProcessingRepositoryError", FALSE)
  BY DEF csv_processing_errors
<1>7. Root("ImageOcrRepositoryError", FALSE)
  BY DEF image_ocr_errors
<1>8. Root("ValueError", FALSE)
  BY DEF builtin_errors
<1> QED
  BY <1>2, <1>3, <1>4, <1>5, <1>6, <1>7, <1>8 DEF evidence_errors

\* The errors of the object storage are its family.
LEMMA StorageErrors ==
    \A c \in open_object \cup {"ObjectAlreadyExistsError"} :
       c = "ObjectStorageError" \/ Leaf(c, "ObjectStorageError", FALSE)
<1>1. object_storage_errors \subseteq Hierarchy
  BY DEF Hierarchy
<1>2. Root("ObjectStorageError", FALSE)
  BY <1>1 DEF Root, object_storage_errors, Plain
<1> QED
  BY <1>1, <1>2 DEF Leaf, object_storage_errors, Plain, open_object

\* Each analysis service names its causes and raises what its job is failed
\* with: its errors are looked up in the hierarchy.

\* What fails a classification.
LEMMA ProductClassificationNames ==
    NamesItsCauses(product_classification) /\ RaisesItsJobError(product_classification)
<1> DEFINE s == product_classification
           own == "ProductClassificationError"
           repository == "ProductClassificationRepositoryError"
           result_storage == "ProductClassificationResultStorageError"
<1>1. product_classification_errors \subseteq Hierarchy
  BY DEF Hierarchy
<1>2. Root(own, TRUE) /\ Root(repository, FALSE)
  BY <1>1 DEF Root, product_classification_errors, Coded, Plain
<1>3. Leaf(result_storage, own, TRUE)
  BY <1>1, <1>2 DEF Leaf, product_classification_errors, Coded
<1>4. /\ s.own = own /\ "ObjectNotFoundError" \notin s.work \cup s.store
      /\ s.clauses = AnalysisClauses(own, repository, result_storage)
  BY DEF product_classification, Service, evidence_errors
<1>5. \A c \in s.store : Leaf(c, own, TRUE) \/ c = repository \/ Leaf(c, repository, FALSE)
  BY <1>1, <1>2 DEF product_classification, Service, Leaf, product_classification_errors, Coded,
     Plain
<1>6. \A c \in s.work \ (evidence_errors \cup {"ValueError"}) : Leaf(c, own, TRUE)
  BY <1>1, <1>2 DEF product_classification, Service, Leaf, product_classification_errors, Coded
<1>7. \A c \in {s.invalid_job} \cup s.checks : Leaf(c, own, TRUE)
  BY <1>1, <1>2 DEF product_classification, Service, Leaf, product_classification_errors, Coded
<1>8. \A read \in s.reads : read.raised \in {own, result_storage}
  BY DEF product_classification, Service, Hidden, Clause
<1>9. \A c \in evidence_errors \cup {"ValueError"} :
         Root(c, FALSE) /\ c \notin {repository, "ObjectStorageError"}
  BY ForeignErrors DEF evidence_errors
<1>10. Causes(s, repository, {})
  BY <1>2, <1>4, <1>5, <1>6, <1>9 DEF Causes, Family
<1>11. Prepares(s)
  BY <1>3, <1>4, <1>7, <1>8 DEF Prepares
<1> HIDE DEF s
<1>12. /\ NamesItsCauses(s)
       /\ \A c \in s.work \cup s.store : RaisedBy(s, c) = JobErrorOf(s, c)
  BY <1>3, <1>4, <1>10, AnalysisNames
<1>13. NamesItsCauses(s) /\ RaisesItsJobError(s)
  BY <1>2, <1>4, <1>11, <1>12, RaisesOurs DEF RaisesItsJobError
<1> QED
  BY <1>13 DEF s

\* What fails an extraction of attributes.
LEMMA StructuredExtractionNames ==
    NamesItsCauses(structured_extraction) /\ RaisesItsJobError(structured_extraction)
<1> DEFINE s == structured_extraction
           own == "StructuredAttributeExtractionError"
           repository == "StructuredAttributeExtractionRepositoryError"
           result_storage == "StructuredAttributeExtractionResultStorageError"
<1>1. attribute_extraction_errors \subseteq Hierarchy
  BY DEF Hierarchy
<1>2. Root(own, TRUE) /\ Root(repository, FALSE)
  BY <1>1 DEF Root, attribute_extraction_errors, Coded, Plain
<1>3. \A e \in {result_storage, "StructuredAttributeExtractionPrerequisiteError"} :
         Leaf(e, own, TRUE)
  BY <1>1, <1>2 DEF Leaf, attribute_extraction_errors, Coded
<1>4. /\ s.own = own /\ "ObjectNotFoundError" \notin s.work \cup s.store
      /\ s.clauses = AnalysisClauses(own, repository, result_storage)
  BY DEF structured_extraction, Service, evidence_errors
<1>5. \A c \in s.store : Leaf(c, own, TRUE) \/ c = repository \/ Leaf(c, repository, FALSE)
  BY <1>1, <1>2 DEF structured_extraction, Service, Leaf, attribute_extraction_errors, Coded,
     Plain
<1>6. \A c \in s.work \ (evidence_errors \cup {"ValueError"}) : Leaf(c, own, TRUE)
  BY <1>1, <1>2 DEF structured_extraction, Service, Leaf, attribute_extraction_errors, Coded
<1>7. \A c \in {s.invalid_job} \cup s.checks : Leaf(c, own, TRUE)
  BY <1>1, <1>2 DEF structured_extraction, Service, Leaf, attribute_extraction_errors, Coded
<1>8. \A read \in s.reads : read.raised \in {"StructuredAttributeExtractionPrerequisiteError"}
  BY DEF structured_extraction, Service, Hidden, Clause
<1>9. \A c \in evidence_errors \cup {"ValueError"} :
         Root(c, FALSE) /\ c \notin {repository, "ObjectStorageError"}
  BY ForeignErrors DEF evidence_errors
<1>10. Causes(s, repository, {})
  BY <1>2, <1>4, <1>5, <1>6, <1>9 DEF Causes, Family
<1>11. Prepares(s)
  BY <1>3, <1>4, <1>7, <1>8 DEF Prepares
<1> HIDE DEF s
<1>12. /\ NamesItsCauses(s)
       /\ \A c \in s.work \cup s.store : RaisedBy(s, c) = JobErrorOf(s, c)
  BY <1>3, <1>4, <1>10, AnalysisNames
<1>13. NamesItsCauses(s) /\ RaisesItsJobError(s)
  BY <1>2, <1>4, <1>11, <1>12, RaisesOurs DEF RaisesItsJobError
<1> QED
  BY <1>13 DEF s

\* What fails a normalization.
LEMMA AttributeNormalizationNames ==
    NamesItsCauses(attribute_normalization) /\ RaisesItsJobError(attribute_normalization)
<1> DEFINE s == attribute_normalization
           own == "AttributeNormalizationError"
           repository == "AttributeNormalizationRepositoryError"
           result_storage == "AttributeNormalizationResultStorageError"
<1>1. attribute_normalization_errors \subseteq Hierarchy
  BY DEF Hierarchy
<1>2. Root(own, TRUE) /\ Root(repository, FALSE)
  BY <1>1 DEF Root, attribute_normalization_errors, Coded, Plain
<1>3. \A e \in {result_storage, "AttributeNormalizationExtractionRequiredError",
                "AttributeNormalizationSchemaNotAvailableError"} : Leaf(e, own, TRUE)
  BY <1>1, <1>2 DEF Leaf, attribute_normalization_errors, Coded
<1>4. /\ s.own = own /\ "ObjectNotFoundError" \notin s.work \cup s.store
      /\ s.clauses = AnalysisClauses(own, repository, result_storage)
  BY DEF attribute_normalization, Service
<1>5. \A c \in s.store : Leaf(c, own, TRUE) \/ c = repository \/ Leaf(c, repository, FALSE)
  BY <1>1, <1>2 DEF attribute_normalization, Service, Leaf, attribute_normalization_errors,
     Coded, Plain
<1>6. \A c \in s.work \ {"ValueError"} : Leaf(c, own, TRUE)
  BY <1>1, <1>2 DEF attribute_normalization, Service, Leaf, attribute_normalization_errors, Coded
<1>7. \A c \in {s.invalid_job} \cup s.checks : Leaf(c, own, TRUE)
  BY <1>1, <1>2 DEF attribute_normalization, Service, Leaf, attribute_normalization_errors, Coded
<1>8. \A read \in s.reads : read.raised \in {result_storage,
                                             "AttributeNormalizationExtractionRequiredError",
                                             "AttributeNormalizationSchemaNotAvailableError"}
  BY DEF attribute_normalization, Service, Hidden, Clause
<1>9. \A c \in {"ValueError"} :
         Root(c, FALSE) /\ c \notin {repository, "ObjectStorageError"}
  BY ForeignErrors
<1>10. Causes(s, repository, {})
  BY <1>2, <1>4, <1>5, <1>6, <1>9 DEF Causes, Family
<1>11. Prepares(s)
  BY <1>3, <1>4, <1>7, <1>8 DEF Prepares
<1> HIDE DEF s
<1>12. /\ NamesItsCauses(s)
       /\ \A c \in s.work \cup s.store : RaisedBy(s, c) = JobErrorOf(s, c)
  BY <1>3, <1>4, <1>10, AnalysisNames
<1>13. NamesItsCauses(s) /\ RaisesItsJobError(s)
  BY <1>2, <1>4, <1>11, <1>12, RaisesOurs DEF RaisesItsJobError
<1> QED
  BY <1>13 DEF s

\* What fails a detection of conflicts.
LEMMA AttributeConflictsNames ==
    NamesItsCauses(attribute_conflicts) /\ RaisesItsJobError(attribute_conflicts)
<1> DEFINE s == attribute_conflicts
           own == "AttributeConflictDetectionError"
           repository == "AttributeConflictRepositoryError"
           result_storage == "AttributeConflictResultStorageError"
<1>1. attribute_conflict_errors \subseteq Hierarchy
  BY DEF Hierarchy
<1>2. Root(own, TRUE) /\ Root(repository, FALSE)
  BY <1>1 DEF Root, attribute_conflict_errors, Coded, Plain
<1>3. \A e \in {result_storage, "AttributeConflictNormalizationRequiredError"} :
         Leaf(e, own, TRUE)
  BY <1>1, <1>2 DEF Leaf, attribute_conflict_errors, Coded
<1>4. /\ s.own = own /\ "ObjectNotFoundError" \notin s.work \cup s.store
      /\ s.clauses = AnalysisClauses(own, repository, result_storage)
  BY DEF attribute_conflicts, Service
<1>5. \A c \in s.store : Leaf(c, own, TRUE) \/ c = repository \/ Leaf(c, repository, FALSE)
  BY <1>1, <1>2 DEF attribute_conflicts, Service, Leaf, attribute_conflict_errors, Coded, Plain
<1>6. \A c \in s.work \ {"ValueError"} :
         c = own \/ Leaf(c, own, TRUE)
                 \/ Inner(c, "AttributeConflictLimitExceededError", own, TRUE)
  BY <1>1, <1>2 DEF attribute_conflicts, Service, Leaf, Inner, attribute_conflict_errors, Coded
<1>7. \A c \in {s.invalid_job} \cup s.checks : Leaf(c, own, TRUE)
  BY <1>1, <1>2 DEF attribute_conflicts, Service, Leaf, attribute_conflict_errors, Coded
<1>8. \A read \in s.reads : read.raised \in {result_storage,
                                             "AttributeConflictNormalizationRequiredError"}
  BY DEF attribute_conflicts, Service, Hidden, Clause
<1>9. \A c \in {"ValueError"} :
         Root(c, FALSE) /\ c \notin {repository, "ObjectStorageError"}
  BY ForeignErrors
<1>10. Causes(s, repository, {})
  BY <1>2, <1>4, <1>5, <1>6, <1>9 DEF Causes, Family
<1>11. Prepares(s)
  BY <1>3, <1>4, <1>7, <1>8 DEF Prepares
<1> HIDE DEF s
<1>12. /\ NamesItsCauses(s)
       /\ \A c \in s.work \cup s.store : RaisedBy(s, c) = JobErrorOf(s, c)
  BY <1>3, <1>4, <1>10, AnalysisNames
<1>13. NamesItsCauses(s) /\ RaisesItsJobError(s)
  BY <1>2, <1>4, <1>11, <1>12, RaisesOurs DEF RaisesItsJobError
<1> QED
  BY <1>13 DEF s

\* What fails an assessment of the completeness.
LEMMA AttributeCompletenessNames ==
    NamesItsCauses(attribute_completeness) /\ RaisesItsJobError(attribute_completeness)
<1> DEFINE s == attribute_completeness
           own == "AttributeCompletenessError"
           repository == "AttributeCompletenessRepositoryError"
           result_storage == "AttributeCompletenessResultStorageError"
<1>1. attribute_completeness_errors \subseteq Hierarchy
  BY DEF Hierarchy
<1>2. Root(own, TRUE) /\ Root(repository, FALSE)
  BY <1>1 DEF Root, attribute_completeness_errors, Coded, Plain
<1>3. \A e \in {result_storage, "AttributeCompletenessConflictResultRequiredError",
                "AttributeCompletenessSchemaNotAvailableError"} : Leaf(e, own, TRUE)
  BY <1>1, <1>2 DEF Leaf, attribute_completeness_errors, Coded
<1>4. /\ s.own = own /\ "ObjectNotFoundError" \notin s.work \cup s.store
      /\ s.clauses = AnalysisClauses(own, repository, result_storage)
  BY DEF attribute_completeness, Service
<1>5. \A c \in s.store : Leaf(c, own, TRUE) \/ c = repository \/ Leaf(c, repository, FALSE)
  BY <1>1, <1>2 DEF attribute_completeness, Service, Leaf, attribute_completeness_errors, Coded,
     Plain
<1>6. \A c \in s.work \ {"ValueError"} : Leaf(c, own, TRUE)
  BY <1>1, <1>2 DEF attribute_completeness, Service, Leaf, attribute_completeness_errors, Coded
<1>7. \A c \in {s.invalid_job} \cup s.checks : Leaf(c, own, TRUE)
  BY <1>1, <1>2 DEF attribute_completeness, Service, Leaf, attribute_completeness_errors, Coded
<1>8. \A read \in s.reads : read.raised \in {result_storage,
                                             "AttributeCompletenessConflictResultRequiredError",
                                             "AttributeCompletenessSchemaNotAvailableError"}
  BY DEF attribute_completeness, Service, Hidden, Clause
<1>9. \A c \in {"ValueError"} :
         Root(c, FALSE) /\ c \notin {repository, "ObjectStorageError"}
  BY ForeignErrors
<1>10. Causes(s, repository, {})
  BY <1>2, <1>4, <1>5, <1>6, <1>9 DEF Causes, Family
<1>11. Prepares(s)
  BY <1>3, <1>4, <1>7, <1>8 DEF Prepares
<1> HIDE DEF s
<1>12. /\ NamesItsCauses(s)
       /\ \A c \in s.work \cup s.store : RaisedBy(s, c) = JobErrorOf(s, c)
  BY <1>3, <1>4, <1>10, AnalysisNames
<1>13. NamesItsCauses(s) /\ RaisesItsJobError(s)
  BY <1>2, <1>4, <1>11, <1>12, RaisesOurs DEF RaisesItsJobError
<1> QED
  BY <1>13 DEF s

\* What fails a validation.
LEMMA AttributeValidationNames ==
    NamesItsCauses(attribute_validation) /\ RaisesItsJobError(attribute_validation)
<1> DEFINE s == attribute_validation
           own == "AttributeValidationError"
           repository == "AttributeValidationRepositoryError"
           result_storage == "AttributeValidationResultStorageError"
<1>1. attribute_validation_errors \subseteq Hierarchy
  BY DEF Hierarchy
<1>2. Root(own, TRUE) /\ Root(repository, FALSE)
  BY <1>1 DEF Root, attribute_validation_errors, Coded, Plain
<1>3. \A e \in {result_storage, "AttributeValidationNormalizationRequiredError",
                "AttributeValidationSchemaNotAvailableError"} : Leaf(e, own, TRUE)
  BY <1>1, <1>2 DEF Leaf, attribute_validation_errors, Coded
<1>4. /\ s.own = own /\ "ObjectNotFoundError" \notin s.work \cup s.store
      /\ s.clauses = AnalysisClauses(own, repository, result_storage)
  BY DEF attribute_validation, Service
<1>5. \A c \in s.store : Leaf(c, own, TRUE) \/ c = repository \/ Leaf(c, repository, FALSE)
  BY <1>1, <1>2 DEF attribute_validation, Service, Leaf, attribute_validation_errors, Coded, Plain
<1>6. \A c \in s.work \ {"ValueError"} : Leaf(c, own, TRUE)
  BY <1>1, <1>2 DEF attribute_validation, Service, Leaf, attribute_validation_errors, Coded
<1>7. \A c \in {s.invalid_job} \cup s.checks : Leaf(c, own, TRUE)
  BY <1>1, <1>2 DEF attribute_validation, Service, Leaf, attribute_validation_errors, Coded
<1>8. \A read \in s.reads : read.raised \in {result_storage,
                                             "AttributeValidationNormalizationRequiredError",
                                             "AttributeValidationSchemaNotAvailableError"}
  BY DEF attribute_validation, Service, Hidden, Clause
<1>9. \A c \in {"ValueError"} :
         Root(c, FALSE) /\ c \notin {repository, "ObjectStorageError"}
  BY ForeignErrors
<1>10. Causes(s, repository, {})
  BY <1>2, <1>4, <1>5, <1>6, <1>9 DEF Causes, Family
<1>11. Prepares(s)
  BY <1>3, <1>4, <1>7, <1>8 DEF Prepares
<1> HIDE DEF s
<1>12. /\ NamesItsCauses(s)
       /\ \A c \in s.work \cup s.store : RaisedBy(s, c) = JobErrorOf(s, c)
  BY <1>3, <1>4, <1>10, AnalysisNames
<1>13. NamesItsCauses(s) /\ RaisesItsJobError(s)
  BY <1>2, <1>4, <1>11, <1>12, RaisesOurs DEF RaisesItsJobError
<1> QED
  BY <1>13 DEF s

\* What fails a selection.
LEMMA AttributeSelectionNames ==
    NamesItsCauses(attribute_selection) /\ RaisesItsJobError(attribute_selection)
<1> DEFINE s == attribute_selection
           own == "AttributeSelectionError"
           repository == "AttributeSelectionRepositoryError"
           result_storage == "AttributeSelectionResultStorageError"
<1>1. attribute_selection_errors \subseteq Hierarchy
  BY DEF Hierarchy
<1>2. Root(own, TRUE) /\ Root(repository, FALSE)
  BY <1>1 DEF Root, attribute_selection_errors, Coded, Plain
<1>3. \A e \in {result_storage, "AttributeSelectionLineageMismatchError"} : Leaf(e, own, TRUE)
  BY <1>1, <1>2 DEF Leaf, attribute_selection_errors, Coded
<1>4. /\ s.own = own /\ "ObjectNotFoundError" \notin s.work \cup s.store
      /\ s.clauses = AnalysisClauses(own, repository, result_storage)
  BY DEF attribute_selection, Service
<1>5. \A c \in s.store : Leaf(c, own, TRUE) \/ c = repository \/ Leaf(c, repository, FALSE)
  BY <1>1, <1>2 DEF attribute_selection, Service, Leaf, attribute_selection_errors, Coded, Plain
<1>6. \A c \in s.work \ {"ValueError"} : Leaf(c, own, TRUE)
  BY <1>1, <1>2 DEF attribute_selection, Service, Leaf, attribute_selection_errors, Coded
<1>7. \A c \in {s.invalid_job} \cup s.checks : Leaf(c, own, TRUE)
  BY <1>1, <1>2 DEF attribute_selection, Service, Leaf, attribute_selection_errors, Coded
<1>8. \A read \in s.reads : read.raised \in {"AttributeSelectionLineageMismatchError"}
  BY DEF attribute_selection, Service, Hidden, Clause
<1>9. \A c \in {"ValueError"} :
         Root(c, FALSE) /\ c \notin {repository, "ObjectStorageError"}
  BY ForeignErrors
<1>10. Causes(s, repository, {})
  BY <1>2, <1>4, <1>5, <1>6, <1>9 DEF Causes, Family
<1>11. Prepares(s)
  BY <1>3, <1>4, <1>7, <1>8 DEF Prepares
<1> HIDE DEF s
<1>12. /\ NamesItsCauses(s)
       /\ \A c \in s.work \cup s.store : RaisedBy(s, c) = JobErrorOf(s, c)
  BY <1>3, <1>4, <1>10, AnalysisNames
<1>13. NamesItsCauses(s) /\ RaisesItsJobError(s)
  BY <1>2, <1>4, <1>11, <1>12, RaisesOurs DEF RaisesItsJobError
<1> QED
  BY <1>13 DEF s

\* What fails a materialization.
LEMMA AttributeMaterializationNames ==
    NamesItsCauses(attribute_materialization) /\ RaisesItsJobError(attribute_materialization)
<1> DEFINE s == attribute_materialization
           own == "ReviewedAttributeMaterializationError"
           repository == "ReviewedAttributeRepositoryError"
           result_storage == "ReviewedMaterializationResultStorageError"
<1>1. reviewed_attribute_errors \subseteq Hierarchy
  BY DEF Hierarchy
<1>2. Root(own, TRUE) /\ Root(repository, FALSE)
  BY <1>1 DEF Root, reviewed_attribute_errors, Coded, Plain
<1>3. \A e \in {result_storage, "ReviewedMaterializationLineageMismatchError"} :
         Leaf(e, own, TRUE)
  BY <1>1, <1>2 DEF Leaf, reviewed_attribute_errors, Coded
<1>4. /\ s.own = own /\ "ObjectNotFoundError" \notin s.work \cup s.store
      /\ s.clauses = AnalysisClauses(own, repository, result_storage)
  BY DEF attribute_materialization, Service
<1>5. \A c \in s.store : Leaf(c, own, TRUE) \/ c = repository \/ Leaf(c, repository, FALSE)
  BY <1>1, <1>2 DEF attribute_materialization, Service, Leaf, reviewed_attribute_errors, Coded,
     Plain
<1>6. \A c \in s.work \ {"ValueError"} : Leaf(c, own, TRUE)
  BY <1>1, <1>2 DEF attribute_materialization, Service, Leaf, reviewed_attribute_errors, Coded
<1>7. \A c \in {s.invalid_job} \cup s.checks : Leaf(c, own, TRUE)
  BY <1>1, <1>2 DEF attribute_materialization, Service, Leaf, reviewed_attribute_errors, Coded
<1>8. \A read \in s.reads : read.raised \in {"ReviewedMaterializationLineageMismatchError"}
  BY DEF attribute_materialization, Service, Hidden, Clause
<1>9. \A c \in {"ValueError"} :
         Root(c, FALSE) /\ c \notin {repository, "ObjectStorageError"}
  BY ForeignErrors
<1>10. Causes(s, repository, {})
  BY <1>2, <1>4, <1>5, <1>6, <1>9 DEF Causes, Family
<1>11. Prepares(s)
  BY <1>3, <1>4, <1>7, <1>8 DEF Prepares
<1> HIDE DEF s
<1>12. /\ NamesItsCauses(s)
       /\ \A c \in s.work \cup s.store : RaisedBy(s, c) = JobErrorOf(s, c)
  BY <1>3, <1>4, <1>10, AnalysisNames
<1>13. NamesItsCauses(s) /\ RaisesItsJobError(s)
  BY <1>2, <1>4, <1>11, <1>12, RaisesOurs DEF RaisesItsJobError
<1> QED
  BY <1>13 DEF s

\* What fails a projection.
LEMMA CatalogProjectionNames ==
    NamesItsCauses(catalog_projection) /\ RaisesItsJobError(catalog_projection)
<1> DEFINE s == catalog_projection
           own == "CatalogProjectionError"
           repository == "CatalogProjectionRepositoryError"
           result_storage == "CatalogProjectionResultStorageError"
<1>1. catalog_projection_errors \subseteq Hierarchy
  BY DEF Hierarchy
<1>2. Root(own, TRUE) /\ Root(repository, FALSE)
  BY <1>1 DEF Root, catalog_projection_errors, Coded, Plain
<1>3. \A e \in {result_storage, "CatalogProjectionLineageInvalidError"} : Leaf(e, own, TRUE)
  BY <1>1, <1>2 DEF Leaf, catalog_projection_errors, Coded
<1>4. /\ s.own = own /\ "ObjectNotFoundError" \notin s.work \cup s.store
      /\ s.clauses = AnalysisClauses(own, repository, result_storage)
  BY DEF catalog_projection, Service
<1>5. \A c \in s.store : Leaf(c, own, TRUE) \/ c = repository \/ Leaf(c, repository, FALSE)
  BY <1>1, <1>2 DEF catalog_projection, Service, Leaf, catalog_projection_errors, Coded, Plain
<1>6. \A c \in s.work \ {"ValueError"} : Leaf(c, own, TRUE)
  BY <1>1, <1>2 DEF catalog_projection, Service, Leaf, catalog_projection_errors, Coded
<1>7. \A c \in {s.invalid_job} \cup s.checks : Leaf(c, own, TRUE)
  BY <1>1, <1>2 DEF catalog_projection, Service, Leaf, catalog_projection_errors, Coded
<1>8. \A read \in s.reads : read.raised \in {"CatalogProjectionLineageInvalidError"}
  BY DEF catalog_projection, Service, Hidden, Clause
<1>9. \A c \in {"ValueError"} :
         Root(c, FALSE) /\ c \notin {repository, "ObjectStorageError"}
  BY ForeignErrors
<1>10. Causes(s, repository, {})
  BY <1>2, <1>4, <1>5, <1>6, <1>9 DEF Causes, Family
<1>11. Prepares(s)
  BY <1>3, <1>4, <1>7, <1>8 DEF Prepares
<1> HIDE DEF s
<1>12. /\ NamesItsCauses(s)
       /\ \A c \in s.work \cup s.store : RaisedBy(s, c) = JobErrorOf(s, c)
  BY <1>3, <1>4, <1>10, AnalysisNames
<1>13. NamesItsCauses(s) /\ RaisesItsJobError(s)
  BY <1>2, <1>4, <1>11, <1>12, RaisesOurs DEF RaisesItsJobError
<1> QED
  BY <1>13 DEF s

\* What fails an export.
LEMMA CatalogExportNames ==
    NamesItsCauses(catalog_export) /\ RaisesItsJobError(catalog_export)
<1> DEFINE s == catalog_export
           own == "CatalogExportError"
           repository == "CatalogExportRepositoryError"
           result_storage == "CatalogExportResultStorageError"
           storage == "CatalogExportStorageError"
           storage_errors == {"ObjectStorageError", "ObjectAlreadyExistsError"}
<1>1. catalog_export_errors \subseteq Hierarchy
  BY DEF Hierarchy
<1>2. Root(own, TRUE) /\ Root(repository, FALSE)
  BY <1>1 DEF Root, catalog_export_errors, Coded, Plain
<1>3. \A e \in {result_storage, "CatalogExportLineageInvalidError", storage} : Leaf(e, own, TRUE)
  BY <1>1, <1>2 DEF Leaf, catalog_export_errors, Coded
<1>4. /\ s.own = own /\ "ObjectNotFoundError" \notin s.work \cup s.store
      /\ s.clauses = << Keep(own), Translate("ObjectStorageError", storage),
                     Translate(repository, result_storage), Translate("Exception", own) >>
  BY DEF catalog_export, Service
<1>5. \A c \in s.store : Leaf(c, own, TRUE) \/ c = repository \/ Leaf(c, repository, FALSE)
  BY <1>1, <1>2 DEF catalog_export, Service, Leaf, catalog_export_errors, Coded, Plain
<1>6. \A c \in s.work \ ({"ValueError"} \cup storage_errors) : Leaf(c, own, TRUE)
  BY <1>1, <1>2 DEF catalog_export, Service, Leaf, catalog_export_errors, Coded
<1>7. \A c \in {s.invalid_job} \cup s.checks : Leaf(c, own, TRUE)
  BY <1>1, <1>2 DEF catalog_export, Service, Leaf, catalog_export_errors, Coded
<1>8. \A read \in s.reads : read.raised \in {result_storage, "CatalogExportLineageInvalidError"}
  BY DEF catalog_export, Service, Hidden, Clause
<1>9. \A c \in {"ValueError"} :
         Root(c, FALSE) /\ c \notin {repository, "ObjectStorageError"}
  BY ForeignErrors
<1>10. \A c \in storage_errors :
          c = "ObjectStorageError" \/ Leaf(c, "ObjectStorageError", FALSE)
  BY StorageErrors
<1>11. Causes(s, repository, storage_errors)
  BY <1>2, <1>4, <1>5, <1>6, <1>9, <1>10 DEF Causes, Family
<1>12. Prepares(s)
  BY <1>3, <1>4, <1>7, <1>8 DEF Prepares
<1> HIDE DEF s
<1>13. /\ NamesItsCauses(s)
       /\ \A c \in s.work \cup s.store : RaisedBy(s, c) = JobErrorOf(s, c)
  BY <1>3, <1>4, <1>11, ExportNames
<1>14. NamesItsCauses(s) /\ RaisesItsJobError(s)
  BY <1>2, <1>4, <1>12, <1>13, RaisesOurs DEF RaisesItsJobError
<1> QED
  BY <1>14 DEF s

\* What fails an enrichment.
LEMMA CatalogEnrichmentNames ==
    NamesItsCauses(catalog_enrichment) /\ RaisesItsJobError(catalog_enrichment)
<1> DEFINE s == catalog_enrichment
           own == "CatalogEnrichmentError"
           repository == "CatalogEnrichmentRepositoryError"
           result_storage == "CatalogEnrichmentStorageError"
<1>1. catalog_enrichment_errors \subseteq Hierarchy
  BY DEF Hierarchy
<1>2. Root(own, TRUE) /\ Root(repository, FALSE)
  BY <1>1 DEF Root, catalog_enrichment_errors, Coded, Plain
<1>3. \A e \in {result_storage, "CatalogEnrichmentLineageInvalidError"} : Leaf(e, own, TRUE)
  BY <1>1, <1>2 DEF Leaf, catalog_enrichment_errors, Coded
<1>4. /\ s.own = own /\ "ObjectNotFoundError" \notin s.work \cup s.store
      /\ s.clauses = << Translate(repository, result_storage), Keep(own),
                     Translate("Exception", own) >>
  BY DEF catalog_enrichment, Service
<1>5. \A c \in s.store : Leaf(c, own, TRUE) \/ c = repository \/ Leaf(c, repository, FALSE)
  BY <1>1, <1>2 DEF catalog_enrichment, Service, Leaf, catalog_enrichment_errors, Coded, Plain
<1>6. \A c \in s.work \ {"ValueError"} : Leaf(c, own, TRUE)
  BY <1>1, <1>2 DEF catalog_enrichment, Service, Leaf, catalog_enrichment_errors, Coded
<1>7. \A c \in {s.invalid_job} \cup s.checks : Leaf(c, own, TRUE)
  BY <1>1, <1>2 DEF catalog_enrichment, Service, Leaf, catalog_enrichment_errors, Coded
<1>8. \A read \in s.reads : read.raised \in {result_storage,
                                             "CatalogEnrichmentLineageInvalidError"}
  BY DEF catalog_enrichment, Service, Hidden, Clause
<1>9. \A c \in {"ValueError"} :
         Root(c, FALSE) /\ c \notin {repository, "ObjectStorageError"}
  BY ForeignErrors
<1>10. Causes(s, repository, {})
  BY <1>2, <1>4, <1>5, <1>6, <1>9 DEF Causes, Family
<1>11. Prepares(s)
  BY <1>3, <1>4, <1>7, <1>8 DEF Prepares
<1> HIDE DEF s
<1>12. /\ NamesItsCauses(s)
       /\ \A c \in s.work \cup s.store : RaisedBy(s, c) = JobErrorOf(s, c)
  BY <1>3, <1>4, <1>10, AnalysisNames
<1>13. NamesItsCauses(s) /\ RaisesItsJobError(s)
  BY <1>2, <1>4, <1>11, <1>12, RaisesOurs DEF RaisesItsJobError
<1> QED
  BY <1>13 DEF s

\* What fails a score.
LEMMA ProductIntelligenceNames ==
    NamesItsCauses(product_intelligence) /\ RaisesItsJobError(product_intelligence)
<1> DEFINE s == product_intelligence
           own == "ProductIntelligenceScoreError"
           repository == "ProductIntelligenceScoreRepositoryError"
           result_storage == "ProductIntelligenceStorageError"
<1>1. product_intelligence_errors \subseteq Hierarchy
  BY DEF Hierarchy
<1>2. Root(own, TRUE) /\ Root(repository, FALSE)
  BY <1>1 DEF Root, product_intelligence_errors, Coded, Plain
<1>3. \A e \in {result_storage, "ProductIntelligenceLineageMismatchError"} : Leaf(e, own, TRUE)
  BY <1>1, <1>2 DEF Leaf, product_intelligence_errors, Coded
<1>4. /\ s.own = own /\ "ObjectNotFoundError" \notin s.work \cup s.store
      /\ s.clauses = << Translate(repository, result_storage), Keep(own),
                     Translate("Exception", own) >>
  BY DEF product_intelligence, Service
<1>5. \A c \in s.store : Leaf(c, own, TRUE) \/ c = repository \/ Leaf(c, repository, FALSE)
  BY <1>1, <1>2 DEF product_intelligence, Service, Leaf, product_intelligence_errors, Coded, Plain
<1>6. \A c \in s.work \ {"ValueError"} : Leaf(c, own, TRUE)
  BY <1>1, <1>2 DEF product_intelligence, Service, Leaf, product_intelligence_errors, Coded
<1>7. \A c \in {s.invalid_job} \cup s.checks : Leaf(c, own, TRUE)
  BY <1>1, <1>2 DEF product_intelligence, Service, Leaf, product_intelligence_errors, Coded
<1>8. \A read \in s.reads : read.raised \in {result_storage,
                                             "ProductIntelligenceLineageMismatchError"}
  BY DEF product_intelligence, Service, Hidden, Clause
<1>9. \A c \in {"ValueError"} :
         Root(c, FALSE) /\ c \notin {repository, "ObjectStorageError"}
  BY ForeignErrors
<1>10. Causes(s, repository, {})
  BY <1>2, <1>4, <1>5, <1>6, <1>9 DEF Causes, Family
<1>11. Prepares(s)
  BY <1>3, <1>4, <1>7, <1>8 DEF Prepares
<1> HIDE DEF s
<1>12. /\ NamesItsCauses(s)
       /\ \A c \in s.work \cup s.store : RaisedBy(s, c) = JobErrorOf(s, c)
  BY <1>3, <1>4, <1>10, AnalysisNames
<1>13. NamesItsCauses(s) /\ RaisesItsJobError(s)
  BY <1>2, <1>4, <1>11, <1>12, RaisesOurs DEF RaisesItsJobError
<1> QED
  BY <1>13 DEF s

\* Each source's service names its causes, and hides a failed write alone.
\* What fails an extraction of text.
LEMMA PdfTextExtractionNames ==
    NamesItsCauses(pdf_text_extraction) /\ HidesFailedWrites(pdf_text_extraction)
<1> DEFINE s == pdf_text_extraction
           own == "PdfTextExtractionError"
           repository == "PdfExtractionRepositoryError"
           missing == "PdfExtractionObjectNotFoundError"
           storage == "PdfExtractionObjectStorageError"
           result_storage == "PdfExtractionResultStorageError"
<1>1. pdf_text_extraction_errors \subseteq Hierarchy
  BY DEF Hierarchy
<1>2. Root(own, TRUE) /\ Root(repository, FALSE)
  BY <1>1 DEF Root, pdf_text_extraction_errors, Coded, Plain
<1>3. /\ Leaf(missing, own, TRUE) /\ Leaf(storage, own, TRUE)
      /\ Leaf(result_storage, own, TRUE)
  BY <1>1, <1>2 DEF Leaf, pdf_text_extraction_errors, Coded
<1>4. /\ s.own = own
      /\ s.clauses = ReadingClauses(missing, storage, own, repository, result_storage)
  BY DEF pdf_text_extraction, Service
<1>5. \A c \in s.store : Leaf(c, own, TRUE) \/ c = repository \/ Leaf(c, repository, FALSE)
  BY <1>1, <1>2 DEF pdf_text_extraction, Service, Leaf, pdf_text_extraction_errors, Coded, Plain
<1>6. \A c \in s.work \ ({"ValueError"} \cup open_object) : Leaf(c, own, TRUE)
  BY <1>1, <1>2 DEF pdf_text_extraction, Service, Leaf, pdf_text_extraction_errors, Coded
<1>7. Root("ValueError", FALSE)
  BY ForeignErrors
<1>8. Causes(s, repository, open_object)
  BY <1>2, <1>4, <1>5, <1>6, <1>7, StorageErrors DEF Causes, Family
<1> HIDE DEF s
<1>9. NamesItsCauses(s) /\ HidesFailedWrites(s)
  BY <1>3, <1>4, <1>8, ReadingNames
<1> QED
  BY <1>9 DEF s

\* What fails an extraction of tables.
LEMMA PdfTableExtractionNames ==
    NamesItsCauses(pdf_table_extraction) /\ HidesFailedWrites(pdf_table_extraction)
<1> DEFINE s == pdf_table_extraction
           own == "PdfTableExtractionError"
           repository == "PdfTableExtractionRepositoryError"
           missing == "PdfTableExtractionObjectNotFoundError"
           storage == "PdfTableExtractionObjectStorageError"
           result_storage == "PdfTableExtractionResultStorageError"
<1>1. pdf_table_extraction_errors \subseteq Hierarchy
  BY DEF Hierarchy
<1>2. Root(own, TRUE) /\ Root(repository, FALSE)
  BY <1>1 DEF Root, pdf_table_extraction_errors, Coded, Plain
<1>3. /\ Leaf(missing, own, TRUE) /\ Leaf(storage, own, TRUE)
      /\ Leaf(result_storage, own, TRUE)
  BY <1>1, <1>2 DEF Leaf, pdf_table_extraction_errors, Coded
<1>4. /\ s.own = own
      /\ s.clauses = ReadingClauses(missing, storage, own, repository, result_storage)
  BY DEF pdf_table_extraction, Service
<1>5. \A c \in s.store : Leaf(c, own, TRUE) \/ c = repository \/ Leaf(c, repository, FALSE)
  BY <1>1, <1>2 DEF pdf_table_extraction, Service, Leaf, pdf_table_extraction_errors, Coded, Plain
<1>6. \A c \in s.work \ ({"ValueError"} \cup open_object) : Leaf(c, own, TRUE)
  BY <1>1, <1>2 DEF pdf_table_extraction, Service, Leaf, pdf_table_extraction_errors, Coded
<1>7. Root("ValueError", FALSE)
  BY ForeignErrors
<1>8. Causes(s, repository, open_object)
  BY <1>2, <1>4, <1>5, <1>6, <1>7, StorageErrors DEF Causes, Family
<1> HIDE DEF s
<1>9. NamesItsCauses(s) /\ HidesFailedWrites(s)
  BY <1>3, <1>4, <1>8, ReadingNames
<1> QED
  BY <1>9 DEF s

\* What fails the processing of a CSV file.
LEMMA CsvProcessingNames ==
    NamesItsCauses(csv_processing) /\ HidesFailedWrites(csv_processing)
<1> DEFINE s == csv_processing
           own == "CsvProcessingError"
           repository == "CsvProcessingRepositoryError"
           missing == "CsvObjectNotFoundError"
           storage == "CsvObjectStorageError"
           result_storage == "CsvProcessingResultStorageError"
<1>1. csv_processing_errors \subseteq Hierarchy
  BY DEF Hierarchy
<1>2. Root(own, TRUE) /\ Root(repository, FALSE)
  BY <1>1 DEF Root, csv_processing_errors, Coded, Plain
<1>3. /\ Leaf(missing, own, TRUE) /\ Leaf(storage, own, TRUE)
      /\ Leaf(result_storage, own, TRUE)
  BY <1>1, <1>2 DEF Leaf, csv_processing_errors, Coded
<1>4. /\ s.own = own
      /\ s.clauses = ReadingClauses(missing, storage, own, repository, result_storage)
  BY DEF csv_processing, Service
<1>5. \A c \in s.store : Leaf(c, own, TRUE) \/ c = repository \/ Leaf(c, repository, FALSE)
  BY <1>1, <1>2 DEF csv_processing, Service, Leaf, csv_processing_errors, Coded, Plain
<1>6. \A c \in s.work \ ({"ValueError"} \cup open_object) : Leaf(c, own, TRUE)
  BY <1>1, <1>2 DEF csv_processing, Service, Leaf, csv_processing_errors, Coded
<1>7. Root("ValueError", FALSE)
  BY ForeignErrors
<1>8. Causes(s, repository, open_object)
  BY <1>2, <1>4, <1>5, <1>6, <1>7, StorageErrors DEF Causes, Family
<1> HIDE DEF s
<1>9. NamesItsCauses(s) /\ HidesFailedWrites(s)
  BY <1>3, <1>4, <1>8, ReadingNames
<1> QED
  BY <1>9 DEF s

\* What fails an analysis of an image.
LEMMA ImageAnalysisNames ==
    NamesItsCauses(image_analysis) /\ HidesFailedWrites(image_analysis)
<1> DEFINE s == image_analysis
           own == "ImageAnalysisError"
           repository == "ImageAnalysisRepositoryError"
           missing == "ImageObjectNotFoundError"
           storage == "ImageObjectStorageError"
           result_storage == "ImageAnalysisResultStorageError"
<1>1. image_analysis_errors \subseteq Hierarchy
  BY DEF Hierarchy
<1>2. Root(own, TRUE) /\ Root(repository, FALSE)
  BY <1>1 DEF Root, image_analysis_errors, Coded, Plain
<1>3. /\ Leaf(missing, own, TRUE) /\ Leaf(storage, own, TRUE)
      /\ Leaf(result_storage, own, TRUE)
  BY <1>1, <1>2 DEF Leaf, image_analysis_errors, Coded
<1>4. /\ s.own = own
      /\ s.clauses = ReadingClauses(missing, storage, own, repository, result_storage)
  BY DEF image_analysis, Service
<1>5. \A c \in s.store : Leaf(c, own, TRUE) \/ c = repository \/ Leaf(c, repository, FALSE)
  BY <1>1, <1>2 DEF image_analysis, Service, Leaf, image_analysis_errors, Coded, Plain
<1>6. \A c \in s.work \ ({"ValueError"} \cup open_object) : Leaf(c, own, TRUE)
  BY <1>1, <1>2 DEF image_analysis, Service, Leaf, image_analysis_errors, Coded
<1>7. Root("ValueError", FALSE)
  BY ForeignErrors
<1>8. Causes(s, repository, open_object)
  BY <1>2, <1>4, <1>5, <1>6, <1>7, StorageErrors DEF Causes, Family
<1> HIDE DEF s
<1>9. NamesItsCauses(s) /\ HidesFailedWrites(s)
  BY <1>3, <1>4, <1>8, ReadingNames
<1> QED
  BY <1>9 DEF s

\* What fails a recognition of text.
LEMMA ImageOcrNames ==
    NamesItsCauses(image_ocr) /\ HidesFailedWrites(image_ocr)
<1> DEFINE s == image_ocr
           own == "ImageOcrError"
           repository == "ImageOcrRepositoryError"
           missing == "ImageOcrObjectNotFoundError"
           storage == "ImageOcrObjectStorageError"
           result_storage == "ImageOcrResultStorageError"
<1>1. image_ocr_errors \subseteq Hierarchy
  BY DEF Hierarchy
<1>2. Root(own, TRUE) /\ Root(repository, FALSE)
  BY <1>1 DEF Root, image_ocr_errors, Coded, Plain
<1>3. /\ Leaf(missing, own, TRUE) /\ Leaf(storage, own, TRUE)
      /\ Leaf(result_storage, own, TRUE)
  BY <1>1, <1>2 DEF Leaf, image_ocr_errors, Coded
<1>4. /\ s.own = own
      /\ s.clauses = ReadingClauses(missing, storage, own, repository, result_storage)
  BY DEF image_ocr, Service
<1>5. \A c \in s.store : Leaf(c, own, TRUE) \/ c = repository \/ Leaf(c, repository, FALSE)
  BY <1>1, <1>2 DEF image_ocr, Service, Leaf, image_ocr_errors, Coded, Plain
<1>6. \A c \in s.work \ ({"ValueError"} \cup open_object) : Leaf(c, own, TRUE)
  BY <1>1, <1>2 DEF image_ocr, Service, Leaf, image_ocr_errors, Coded
<1>7. Root("ValueError", FALSE)
  BY ForeignErrors
<1>8. Causes(s, repository, open_object)
  BY <1>2, <1>4, <1>5, <1>6, <1>7, StorageErrors DEF Causes, Family
<1> HIDE DEF s
<1>9. NamesItsCauses(s) /\ HidesFailedWrites(s)
  BY <1>3, <1>4, <1>8, ReadingNames
<1> QED
  BY <1>9 DEF s

\* Every service names what it meets; an analysis service gives every error a
\* code, and a source's service hides from the workflow a failed write alone.
LEMMA ServicesNameTheirCauses ==
    ASSUME NEW s \in Services
    PROVE  /\ NamesItsCauses(s)
           /\ s \in reading_services => HidesFailedWrites(s)
           /\ s \in analysis_services => RaisesItsJobError(s)
<1>1. \A r \in reading_services : NamesItsCauses(r) /\ HidesFailedWrites(r)
  BY PdfTextExtractionNames, PdfTableExtractionNames, CsvProcessingNames, ImageAnalysisNames,
     ImageOcrNames DEF reading_services
<1>2. \A r \in analysis_services : NamesItsCauses(r) /\ RaisesItsJobError(r)
  BY ProductClassificationNames, StructuredExtractionNames, AttributeNormalizationNames,
     AttributeConflictsNames, AttributeCompletenessNames, AttributeValidationNames,
     AttributeSelectionNames, AttributeMaterializationNames, CatalogProjectionNames,
     CatalogExportNames, CatalogEnrichmentNames, ProductIntelligenceNames DEF analysis_services
<1> QED
  BY <1>1, <1>2 DEF Services

(* ------------------------- the cause of a failure ----------------------- *)

\* The error in flight and the job's are those the clauses make of the cause,
\* which the service knows; without a cause the error is of what comes before
\* and after the work.
CauseInv ==
  /\ pc \in {"setup", "work", "except", "complete"} => job.status \in {"PENDING", "RUNNING"}
  /\ cause # none => cause \in service.work \cup service.store
  /\ cause # none /\ job.status = "FAILED" => job.error = JobError
  /\ pc = "raised" =>
       IF cause # none THEN error = Translated(Handler.raised, cause)
       ELSE error \in JobRepositoryErrors \cup {service.invalid_job} \cup service.checks
                      \cup {Translated(read.raised, read.match) : read \in service.reads}

\* Nothing has failed at first.
LEMMA InitCause == EnrichmentInit => CauseInv
BY DEF EnrichmentInit, Init, CauseInv

\* The causes of the generation are among those of the enrichment's work.
LEMMA GenerationRaises ==
    ASSUME generate
    PROVE  cause' = cause \/ cause' \in catalog_enrichment.work
<1>1. /\ ProviderErrors \subseteq catalog_enrichment.work
      /\ {"CatalogEnrichmentResponseInvalidError", "CatalogEnrichmentOutputLimitError",
          "CatalogEnrichmentGroundingFailedError", "ValueError"} \subseteq catalog_enrichment.work
  BY DEF ProviderErrors, catalog_enrichment, Service
<1>2. PICK reply \in Replies :
        IF reply.kind \in ProviderErrors THEN Raises(reply.kind)
        ELSE IF parse(reply) # none THEN Corrects(parse(reply), {"UNGROUNDED_CONTENT"})
        ELSE IF validate(reply) # {}
        THEN Corrects("CatalogEnrichmentGroundingFailedError", validate(reply))
        ELSE IF ~CatalogEnrichmentResult(reply) THEN Raises("ValueError")
        ELSE UNCHANGED <<cause, pc, prompt>>
  BY DEF generate
<1>3. parse(reply) \in {none, "CatalogEnrichmentResponseInvalidError",
                        "CatalogEnrichmentOutputLimitError"}
  BY DEF parse
<1>4. CASE reply.kind \in ProviderErrors
  BY <1>1, <1>2, <1>4 DEF Raises
<1>5. CASE reply.kind \notin ProviderErrors /\ parse(reply) # none
  BY <1>1, <1>2, <1>3, <1>5 DEF Raises, Corrects
<1>6. CASE reply.kind \notin ProviderErrors /\ parse(reply) = none
  BY <1>1, <1>2, <1>6 DEF Raises, Corrects
<1> QED
  BY <1>4, <1>5, <1>6

\* An update of the job writes what the clauses make of the cause, or nothing.
LEMMA StepsKeepCause ==
    ASSUME RunInv, CauseInv, EnrichmentNext
    PROVE  CauseInv'
<1> USE DEF RunInv, CauseInv, Raise
<1>1. CASE get_job
  BY <1>1 DEF get_job
<1>2. CASE get_job_raises
  BY <1>2 DEF get_job_raises, JobRepositoryErrors
<1>3. CASE check_raises
  BY <1>3 DEF check_raises
<1>4. CASE read_raises
  BY <1>4 DEF read_raises
<1>5. CASE start
  BY <1>5 DEF start, UpdateJob
<1>6. CASE start_raises
  BY <1>6 DEF start_raises, UpdateJob, UpdateJobFails
<1>7. CASE work_raises
  BY <1>7 DEF work_raises
<1>8. CASE store
  BY <1>8 DEF store
<1>9. CASE store_raises
  BY <1>9 DEF store_raises
<1>10. CASE fail_job \/ fail_job_lost
  <2>1. /\ pc = "except" /\ cause # none /\ UNCHANGED <<service, cause>>
        /\ job' = job \/ job' = [status |-> "FAILED", error |-> JobError]
        /\ error' = Translated(Handler.raised, cause)
    BY <1>10 DEF fail_job, fail_job_lost, UpdateJob, UpdateJobFails
  <2>2. JobError' = JobError /\ Handler' = Handler
    BY <2>1 DEF JobError, Handler
  <2>3. pc' = "raised"
    BY <1>10 DEF fail_job, fail_job_lost
  <2> QED
    BY <2>1, <2>2, <2>3
<1>12. CASE complete
  BY <1>12 DEF complete, UpdateJob
<1>13. CASE complete_raises
  BY <1>13 DEF complete_raises, UpdateJob, UpdateJobFails
<1>14. CASE generate
  <2>1. /\ pc = "work" /\ cause = none /\ service = catalog_enrichment
        /\ UNCHANGED <<service, job, error>> /\ job.status \in {"PENDING", "RUNNING"}
    BY <1>14 DEF generate
  <2>2. pc' \in {"work", "except"}
    BY <1>14 DEF generate, Raises, Corrects
  <2> QED
    BY <1>14, <2>1, <2>2, GenerationRaises
<1> QED
  BY <1>1, <1>2, <1>3, <1>4, <1>5, <1>6, <1>7, <1>8, <1>9, <1>10, <1>12, <1>13, <1>14
     DEF EnrichmentNext

\* What the cause is made into is known in every state.
LEMMA CauseIsKnown == EnrichmentSpec => []CauseInv
<1>1. CauseInv /\ UNCHANGED allvars => CauseInv'
  BY DEF CauseInv, allvars, JobError, Handler
<1>2. RunInv /\ CauseInv /\ [EnrichmentNext]_allvars => CauseInv'
  BY <1>1, StepsKeepCause
<1> QED
  BY InitCause, <1>2, RunIsKnown, PTL DEF EnrichmentSpec

\* The job names what went wrong, whichever service it is, and the workflow's
\* stage has the code of its job.
LEMMA KnownCausesAreNamed ==
    ASSUME RunInv, CauseInv
    PROVE  CauseIsNamed
<1>1. /\ NamesItsCauses(service)
      /\ service \in reading_services => HidesFailedWrites(service)
      /\ service \in analysis_services => RaisesItsJobError(service)
      /\ service \in reading_services \cup analysis_services
  BY ServicesNameTheirCauses DEF RunInv, Services
<1>2. JobError = JobErrorOf(service, cause)
  BY DEF JobError, JobErrorOf, Handler
<1>3. JobNamesTheCause
  <2> SUFFICES ASSUME job.status = "FAILED", cause # none PROVE JobNamesTheCause
    BY DEF JobNamesTheCause
  <2>1. cause \in service.work \cup service.store /\ job.error = JobErrorOf(service, cause)
    BY <1>2 DEF CauseInv
  <2>2. \A other \in (service.work \cap StorageCauses) \ {"ObjectNotFoundError"} :
          cause = "ObjectNotFoundError" =>
            job.error # Translated(Handling(service.clauses, other).job, other)
    BY <1>1, <2>1 DEF NamesItsCauses, JobErrorOf
  <2> QED
    BY <1>1, <2>1, <2>2 DEF JobNamesTheCause, NamesItsCauses
<1>4. StageNamesTheJobsError
  <2> SUFFICES ASSUME pc = "raised" PROVE StageNamesTheJobsError
    BY DEF StageNamesTheJobsError
  <2>1. ASSUME cause # none
        PROVE  /\ cause \in service.work \cup service.store
               /\ error = RaisedBy(service, cause)
               /\ HasCode(JobErrorOf(service, cause))
    BY <1>1, <2>1 DEF CauseInv, RaisedBy, Handler, NamesItsCauses
  <2>2. ASSUME job.status = "FAILED", cause # none
        PROVE  IF service \in reading_services /\ cause \in service.store
                  /\ ~IsA(cause, service.own)
               THEN StageCode = "WORKFLOW_STAGE_FAILED" /\ HasCode(job.error)
               ELSE StageCode = job.error
    <3>1. job.error = JobErrorOf(service, cause)
      BY <1>2, <2>2 DEF CauseInv
    <3>2. CASE service \in reading_services
      BY <1>1, <2>1, <2>2, <3>1, <3>2 DEF HidesFailedWrites, StageCode, Code
    <3>3. CASE service \notin reading_services
      BY <1>1, <2>1, <2>2, <3>1, <3>3 DEF RaisesItsJobError, StageCode, Code
    <3> QED
      BY <3>2, <3>3
  <2>3. ASSUME service \in analysis_services
        PROVE  HasCode(error) \/ error \in JobRepositoryErrors
    <3>1. CASE cause # none
      BY <1>1, <2>1, <2>3, <3>1 DEF RaisesItsJobError
    <3>2. CASE cause = none
      <4>1. error \in JobRepositoryErrors \cup {service.invalid_job} \cup service.checks
                      \cup {Translated(read.raised, read.match) : read \in service.reads}
        BY <3>2 DEF CauseInv
      <4> QED
        BY <1>1, <2>3, <4>1 DEF RaisesItsJobError
    <3> QED
      BY <3>1, <3>2
  <2> QED
    BY <2>2, <2>3 DEF StageNamesTheJobsError
<1> QED
  BY <1>3, <1>4 DEF CauseIsNamed

\* In every service and for every limit on the generation, the cause of a
\* failure reaches the job as what it is, and the workflow's stage from there.
THEOREM CausesAreNamed == EnrichmentSpec => []CauseIsNamed
<1>1. RunInv /\ CauseInv => CauseIsNamed
  BY KnownCausesAreNamed
<1> QED
  BY <1>1, RunIsKnown, CauseIsKnown, PTL
=============================================================================
