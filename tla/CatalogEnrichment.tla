---------------------------- MODULE CatalogEnrichment ----------------------------
(***************************************************************************)
(* The work of the enrichment service, call by call: a bounded number of   *)
(* attempts to get content from the provider that the parser accepts and   *)
(* whose claims the facts it cites support.  A reply that fails is         *)
(* answered by a prompt that names what was wrong with it.                 *)
(***************************************************************************)
EXTENDS StageServices, FiniteSets

CONSTANTS MaxAttempts,    \* ai_enrichment_max_generation_attempts
          MaxBullets,     \* ai_enrichment_max_feature_bullets
          MaxKeywords,
          MaxReferences

ASSUME LimitsAssumption ==
  /\ MaxAttempts \in {1, 2} /\ MaxBullets \in Nat /\ MaxBullets >= 3
  /\ MaxKeywords \in Nat \ {0} /\ MaxReferences \in Nat \ {0}

VARIABLES calls,   \* the prompts sent to the provider and its replies, in order
          prompt,  \* the issues the next prompt names
          result   \* the content of the generated result, with its metadata
enrichment == <<calls, prompt, result>>
allvars == <<service, pc, job, stored, cause, error, lost, calls, prompt, result>>

-----------------------------------------------------------------------------
(* A trusted fact: the numbers and units its text states as words, and the *)
(* certifications and phrases that occur anywhere in it.                   *)
Fact(id, kind, words, text) == [id |-> id, kind |-> kind, words |-> words, text |-> text]
trusted_facts == {Fact("name", "IDENTITY", {}, {}),
                  Fact("description", "IDENTITY", {"11", "kw"}, {"heavy duty"}),
                  Fact("power", "ATTRIBUTE", {"11", "kw"}, {}),
                  Fact("insulation", "ATTRIBUTE", {}, {"ul"})}
Known == {fact.id : fact \in trusted_facts}

\* Content by its counts, and by what one of its items cites and claims.
Content(bullets, distinct, keywords, references, cites, claims) ==
  [kind |-> "content", bullets |-> bullets, distinct |-> distinct, keywords |-> keywords,
   references |-> references, cites |-> cites, claims |-> claims]
Claims == {"11", "kw", "ul", "heavy duty"}
ContentsByCounts ==
  {Content(n, d, k, r, {"name"}, {}) : n \in {2, 3, 4, MaxBullets, MaxBullets + 1},
     d \in {2, 3, MaxBullets}, k \in {0, 1, MaxKeywords + 1},
     r \in {MaxReferences, MaxReferences + 1}}
Contents ==
  {c \in ContentsByCounts : c.distinct <= c.bullets}
  \cup {Content(3, 3, 1, 7, cites, claims) :
          cites \in SUBSET (Known \cup {"unknown"}),
          claims \in {c \in SUBSET Claims : Cardinality(c) \in {0, 1, 4}}}

NoContent(class) == [kind |-> class]
ProviderErrors == {"CatalogEnrichmentProviderUnavailableError",
  "CatalogEnrichmentProviderTimeoutError", "CatalogEnrichmentProviderRateLimitedError",
  "CatalogEnrichmentProviderFailedError"}
Replies == {NoContent(class) : class \in ProviderErrors \cup {"malformed", "too long"}}
           \cup Contents

parse(reply) ==
  IF reply.kind = "malformed" THEN "CatalogEnrichmentResponseInvalidError"
  ELSE IF reply.kind = "too long" THEN "CatalogEnrichmentOutputLimitError"
  ELSE IF reply.cites = {} THEN "CatalogEnrichmentResponseInvalidError"
  ELSE IF \/ reply.bullets \notin 3..MaxBullets
          \/ reply.keywords \notin 1..MaxKeywords
          \/ reply.distinct < 3
          \/ reply.references > MaxReferences
  THEN "CatalogEnrichmentOutputLimitError"
  ELSE none

Cited(content) == {fact \in trusted_facts : fact.id \in content.cites}
Words(facts) == UNION {fact.words : fact \in {f \in facts : f.id # "description"}}
Text(facts) == UNION {fact.text : fact \in {f \in facts : f.kind = "ATTRIBUTE"}}
Issue(claim, support, code) == IF claim \subseteq support THEN {} ELSE {code}
\* A guard that looks for support in all the facts.
inspect_all_facts(content) ==
  Issue(content.claims \cap {"11"}, Words(trusted_facts), "UNSUPPORTED_NUMERIC_CLAIM")
  \cup Issue(content.claims \cap {"kw"}, Words(trusted_facts), "UNSUPPORTED_UNIT_CLAIM")
  \cup Issue(content.claims \cap {"ul"}, Text(trusted_facts),
             "UNSUPPORTED_CERTIFICATION_CLAIM")
  \cup Issue(content.claims \cap {"heavy duty"}, Text(trusted_facts),
             "UNSUPPORTED_PERFORMANCE_CLAIM")
inspect(content) ==
  Issue(content.claims \cap {"11"}, Words(Cited(content)), "UNSUPPORTED_NUMERIC_CLAIM")
  \cup Issue(content.claims \cap {"kw"}, Words(Cited(content)), "UNSUPPORTED_UNIT_CLAIM")
  \cup Issue(content.claims \cap {"ul"}, Text(Cited(content)),
             "UNSUPPORTED_CERTIFICATION_CLAIM")
  \cup Issue(content.claims \cap {"heavy duty"}, Text(Cited(content)),
             "UNSUPPORTED_PERFORMANCE_CLAIM")
\* The claims are inspected once every reference is known.
validate(content) ==
  IF content.cites \subseteq Known THEN inspect(content) ELSE {"UNKNOWN_FACT_REFERENCE"}

\* The result's own checks, which do not depend on the configured limits.
CatalogEnrichmentResult(content) ==
  content.distinct \in 3..8 /\ content.keywords \in 1..20 /\ content.references <= 500

-----------------------------------------------------------------------------
Attempt == Len(calls) + 1
Raises(class) == cause' = class /\ pc' = "except" /\ UNCHANGED <<prompt, result>>
\* The first invalid reply is kept and raised in the end.
CorrectsKeepingTheFirst(class, issues) ==
  IF Attempt = MaxAttempts
  THEN Raises(IF calls # <<>> /\ parse(calls[1].reply) # none THEN parse(calls[1].reply)
              ELSE class)
  ELSE prompt' = issues /\ UNCHANGED <<cause, pc, result>>
\* A reply that can be corrected ends the generation at the last attempt.
Corrects(class, issues) ==
  IF Attempt = MaxAttempts THEN Raises(class)
  ELSE prompt' = issues /\ UNCHANGED <<cause, pc, result>>

generate ==
  /\ service = catalog_enrichment /\ pc = "work" /\ result.kind = "none"
  /\ \E reply \in Replies :
       /\ calls' = Append(calls, [prompt |-> prompt, reply |-> reply])
       /\ IF reply.kind \in ProviderErrors THEN Raises(reply.kind)
          ELSE IF parse(reply) # none THEN Corrects(parse(reply), {"UNGROUNDED_CONTENT"})
          ELSE IF validate(reply) # {}
          THEN Corrects("CatalogEnrichmentGroundingFailedError", validate(reply))
          ELSE IF ~CatalogEnrichmentResult(reply) THEN Raises("ValueError")
          ELSE /\ result' = [kind |-> "result", content |-> reply, prompt |-> prompt,
                             attempts |-> Attempt]
               /\ UNCHANGED <<cause, pc, prompt>>
  /\ UNCHANGED <<service, job, stored, error, lost>>

EnrichmentInit ==
  Init /\ calls = <<>> /\ prompt = {} /\ result = NoContent("none")

(* The other services work in one step; this one stores what it generated. *)
EnrichmentNext ==
  \/ generate
  \/ /\ \/ get_job \/ get_job_raises \/ check_raises \/ read_raises
        \/ start \/ start_raises
        \/ service # catalog_enrichment /\ work_raises
        \/ (service = catalog_enrichment => result.kind = "result") /\ store
        \/ (service = catalog_enrichment => result.kind = "result") /\ store_raises
        \/ fail_job \/ fail_job_lost \/ complete \/ complete_raises
     /\ UNCHANGED enrichment
EnrichmentSpec == EnrichmentInit /\ [][EnrichmentNext]_allvars

-----------------------------------------------------------------------------
\* The failure a reply stands for; none if it could become a result.
FailureOf(reply) ==
  IF reply.kind \in ProviderErrors THEN reply.kind
  ELSE IF parse(reply) # none THEN parse(reply)
  ELSE IF validate(reply) # {} THEN "CatalogEnrichmentGroundingFailedError"
  ELSE IF CatalogEnrichmentResult(reply) THEN none ELSE "ValueError"

(***************************************************************************)
(* A failed generation fails the job with what was wrong with the last     *)
(* reply, whatever was wrong with those before; it made all its attempts   *)
(* unless the provider failed or the content could not be kept; and every  *)
(* prompt after the first names what was wrong with the reply before it.   *)
(***************************************************************************)
LastAttemptDecides ==
  LET last == calls[Len(calls)] IN
  calls # <<>> =>
    /\ cause # none /\ result.kind = "none" =>
         /\ cause = FailureOf(last.reply)
         /\ Len(calls) = MaxAttempts \/ cause \in ProviderErrors \cup {"ValueError"}
    /\ \A i \in 1..(Len(calls) - 1) :
         calls[i + 1].prompt = IF parse(calls[i].reply) # none THEN {"UNGROUNDED_CONTENT"}
                               ELSE validate(calls[i].reply)

(***************************************************************************)
(* A stored enrichment cites known facts only, and what its items claim is *)
(* stated by a fact the same item cites: numbers and units as words of a   *)
(* fact other than the description, certifications and phrases in the text *)
(* of an attribute.  It records the prompt it was the reply to and the     *)
(* number of calls it took.                                                *)
(***************************************************************************)
StoredContentIsGrounded ==
  service = catalog_enrichment /\ stored =>
    /\ \A claim \in result.content.claims \cap {"11", "kw"} :
         \E fact \in trusted_facts : /\ fact.id \in result.content.cites \ {"description"}
                                     /\ claim \in fact.words
    /\ \A claim \in result.content.claims \ {"11", "kw"} :
         \E fact \in trusted_facts : /\ fact.id \in result.content.cites
                                     /\ fact.kind = "ATTRIBUTE" /\ claim \in fact.text
    /\ result.content.cites # {} /\ result.content.cites \subseteq Known
    /\ calls[Len(calls)] = [prompt |-> result.prompt, reply |-> result.content]
    /\ result.attempts = Len(calls)
=============================================================================
