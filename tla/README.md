# TLA+ models of the UniHack catalog backend

The repository is a FastAPI backend (`apps/api`), a React front end (`apps/web`) and a few
scripts.  The backend keeps products, their sources and a chain of analysis results in DynamoDB
and in an object store.  Its core is the *catalog intelligence workflow*: a fixed pipeline of
fifteen stages that one HTTP request drives synchronously until it has to wait for a human
review, and that another request resumes.  There is no queue and no background worker: all
concurrency is that of HTTP requests, and all coordination is done by conditional writes.

Paths below are relative to `apps/api/app` unless they start with `docs` or `apps`.

## 1. Inventory

### Components, their state and their operations

| component | state | operations | talks to |
| --- | --- | --- | --- |
| workflow orchestrator (`services/catalog_workflow_orchestrator.py`) | none of its own: the workflow in the hands of a request | `start`, `resume`, `_run` | state machine, executor, workflow repository, products, sources |
| workflow state machine (`services/catalog_workflow_state_machine.py`) | none, transitions are pure | `create`, `begin`, `start_stage`, `apply_outcome`, `fail_stage`, `resume_review`, `finish` | |
| workflow repository (`repositories/dynamodb_catalog_workflow.py`) | META and STAGE records, the `ACTIVE_PRODUCT#` guard | `create`, `save_state`, reads | DynamoDB |
| stage executor (`services/catalog_workflow_stage_executor.py`) | none | `execute`, one method per special stage, `_find_compatible_job` | job repository, every stage service, review service, products |
| stage services (classification ... score) | a job in progress | `..._for_job` | job repository, upstream results, engine, own result repository |
| processing jobs | job records with status, version and lineage ids | create, read, list, transition | |
| seventeen result repositories (`repositories/dynamodb_*.py`) | META, guard and detail records | `create`, `get_by_id`, `get_by_job_id` | |
| analysis engines (`services/attribute_*_engine.py`, `services/product_intelligence_*.py`) | none, each is a function of earlier results | extract, normalize, detect, evaluate, validate, select, materialize, score | the stage services, which store what they compute |
| human review (`services/product_review.py`) | META, `DECISION#`, `CURRENT#` records and the `SELECTION#` guard | create, submit_decision, complete | selections, validations, materialization |
| publishing readiness | none | `apply` | products, projections |
| products, product sources | versioned records | create, PATCH, delete, list | object storage |
| object storage (`storage/local.py`) | object and sidecar files | save, open, delete | |
| catalog export, AI enrichment, intelligence score | results (and export artifacts) | `..._for_job` | object storage, a language model |
| listings and search (`list_by_...` of the repositories, `services/catalog_search.py`, `utils/cursors.py`) | none: the cursor travels through the client | page queries, encoding and decoding of cursors | indexes of the tables |
| summary, quality reads | none | queries | |
| category schemas (`services/category_schemas.py`) | one record per category and version | `seed_builtins`, reads | |
| exceptions and their handlers (`core/exceptions.py`, `core/exception_handlers.py`) | none | which error is answered, and stored with a job, with which code | |
| table script (`scripts/dynamodb/create_tables.py`) | 23 tables with keys and indexes | create and wait, table by table | |
| Unilog enrichment and evaluation | in-memory results of a batch | enrich, evaluate | reference vocabularies |
| front end | query cache | polling, forms | HTTP API |

Components interact by direct calls within a request and by shared records between requests.
The records are: the product (version, status), its sources, its jobs, the results of the
stages, the review of a selection, the workflow and the guards.

### What is hard in this code

* **Interleaved requests.**  A handler reads records one by one and writes later.  Every write is
  conditional on a version, a status or the absence of a key; what a handler computes from its
  reads must be harmless if the write succeeds.
* **Failure between two writes.**  A crash, an error, or an error reported for a write that took
  effect may come between any two writes of a stage.  Nothing repairs afterwards.
* **Ordering.**  Listings and `get_by_job_id` read global secondary indexes, which lag behind.
* **Many records, many pages.**  A result of many records is put one by one and read page by page;
  a listing goes on from a cursor that a client kept, while the items move.
* **Error paths.**  Seventeen services translate the errors of their repositories, their storage and
  their work by long lists of except clauses whose order matters, with a job to fail on the way.
* **Staleness.**  Results are reused by lineage; the product and its sources move on meanwhile.
* **Pausing.**  A workflow waits for an arbitrarily long time for a person and then checks, by
  three separate reads, that it may go on.
* **Chains of judgements.**  A value reaches a product through six engines and a person, each of which
  looks at another part of what is known about it: its text, its unit, its rivals, its sources.
* **Progress.**  Only one workflow per product may be active, so whoever keeps the guard for ever
  locks the product.

Per component, correctness means:

* workflow: one active workflow and one driver per product; stages in fixed order; every save
  legal; the human review not bypassed; a started workflow comes to rest;
* executor and services: what a workflow holds is of one lineage and whole; one result per
  guarded lineage; jobs keep their lifecycle; retrying makes progress;
* review: one per selection; META, DECISION and CURRENT records agree; history is append-only;
  a completed review is resolved, frozen and usable;
* readiness: only a reviewed product becomes ready, and only in the version that was projected;
* products, sources and storage: a write builds on the record it replaces; a source has its
  object, a deleted one has none;
* result repositories: what is read is whole, what was completed can be read;
* export: a stored export has its artifacts, a failed one none;
* enrichment: what is stored is grounded in the facts it cites; the last attempt decides;
* errors: a job names the cause of its failure, the workflow what its job says;
* listings: an item that stays is listed once; a cursor never leads out of its listing; every
  query names an index that its table has;
* provisioning: a script that returned has left usable tables and all schemas;
* analysis engines: no line of a source is lost on the way to the reviewer, nothing is selected against
  evidence, what is stored obeys the schema, and the score is a mean of what was evaluated.

`PROJECT.json` lists the hazards at their lines, with the properties that cover them.

## 2. Modules

| module | models | proofs |
| --- | --- | --- |
| `WorkflowStateMachine` | the transitions of a workflow and of its stages | used by the proofs below |
| `CatalogWorkflow` | orchestrator, workflow repository, HUMAN_REVIEW and PUBLISHING_READINESS | `CatalogWorkflowProofs` |
| `WorkflowLifecycle` | abstract: how workflows move, without requests and copies; implemented by `CatalogWorkflow` | |
| `StageExecution` | finding, reusing, creating and running the jobs of all stages of one product | `StageExecutionProofs` |
| `JobLifecycle` | abstract: what a job promises its readers; implemented by `StageExecution` | |
| `ProductReview` | the review of a selection and its materialization | `ProductReviewProofs` |
| `SelectionReview` | abstract: one list of decisions, its completion and what is made of it; implemented by `ProductReview` | |
| `Products` | the product record under create, PATCH, review, readiness and delete | used by the proofs below |
| `ProductSources` | extends it by sources and `LocalObjectStorage`, file by file | `ProductSourcesProofs` |
| `ResultRepositories` | the seventeen result repositories as data: records, order, guards, counts | |
| `StoredResults` | writing and reading a result of any of them | used by the proofs below |
| `CatalogExport` | extends it by the artifacts of an export and their cleanup | `CatalogExportProofs` |
| `Errors` | the exception classes, their codes and their HTTP answers | used by the proofs below |
| `StageServices` | one run of any of the seventeen stage services through its except clauses | used by the proofs below |
| `CatalogEnrichment` | extends it by the attempts of the enrichment service | `CatalogEnrichmentProofs` |
| `Tables` | keys and indexes of the 23 tables | used by the proofs below |
| `TableProvisioning` | the script that creates them, run by several deployers | used by the proofs below |
| `CategorySchemas` | extends it by the seeding of the built-in schemas | used by the proofs below |
| `Listings` | extends both by the fifteen paginated listings with their indexes and cursors | `ListingsProofs` |
| `AttributeExtraction` | the lines of the sources become candidates for the schema's attributes | |
| `AttributeNormalization` | extends it by the conversions, and by what a reviewer types | |
| `AttributeConflicts` | extends it by the consensus among the candidates of an attribute | |
| `AttributeSelection` | extends it by validation, completeness and selection | |
| `ProductIntelligence` | extends it by the scorers and their weights | |
| `CatalogAnalysis` | the engines one after the other, with review and materialization | `CatalogAnalysisProofs` |
| `MC...` | the instances TLC checks | |

Next to a definition there may be a variant of it marked *Mutant*: the same operation with a
plausible bug, which makes one of the properties fail (section 4).

### WorkflowStateMachine, CatalogWorkflow and WorkflowLifecycle

A workflow is a record of status, version, current stage, progress and the status of every stage,
as `CatalogIntelligenceWorkflow` is.  Stages are `1 .. StageCount`; which of them are the review,
the readiness stage and the optional ones are constants, so the module covers the real pipeline
of fifteen stages and the short ones TLC checks.  The operators `create` ... `finish` are the
methods of `CatalogWorkflowStateMachine`.

Every request being served is a member of `Handlers`.  `pc[h]` says where in `start`, `resume`,
`_run` or `_human_review` it is, `target[h]` and `mem[h]` are the workflow it drives and its copy of
it, `pending[h]` the outcome it is about to save.  One action is what happens from one
interaction with a table to the next.  `save_state` is one operator used by all saving steps; a
write takes effect, conflicts, fails without effect, or takes effect and reports an error
(`Fault`, at most `MaxFaults` times).  `crash` ends a handler anywhere.  An error inside the `try` of
`_run` leads to `run_fail_stage`, outside it the handler is gone.  Products are edited (PATCH) and
deleted, sources come and go and reviewers complete reviews between any two steps.

Outcomes of the other stages are free: completed, failed, or skipped where the code can skip.
What decides them is in `StageExecution`.

`WorkflowLifecycle` is what a reader of the workflows, such as the polling front end, may rely on: stored
workflows and sessions move as if one request at a time drove each workflow.  A step is a transition of
the state machine applied to what is *stored*, not to a copy; a workflow starts only while no other one of
its product is active, waits only for a session that exists, and passes or resumes the review only with a
completed one.  There are no requests, guards, versions read earlier, or faults in it.
`ImplementsWorkflowLifecycle` says that `CatalogWorkflow` implements it with its `workflows` and `review`
as they are.  The variable `review` of `CatalogWorkflow` is in turn the `status` that `SelectionReview`
gives the review of one selection.

### StageExecution and JobLifecycle

One product, one workflow after the other: by the theorems `OneActiveWorkflow` and `AtMostOneDriver`
a product has one active workflow and that has one driver, so there is one `run`.  The actions
follow `execute`: look for a compatible completed job (`find_compatible_job`, through an index),
load its result, or create a job and let the service run it (`check_job`, `start_job`,
`store_result`, `complete_job` or `fail_job`), then report.  The services of the stages share this
protocol and are modelled once; they differ in constants: `Lineage` (which identifiers a job
carries), `UNIQUE` (whose repository keeps a guard per lineage), `TRANSACTED` (whose result is one
transaction), `OPTIONAL_STAGES`.  `indexed` and `resultIndexed` are the lagging indexes.

`JobLifecycle` is the contract other readers of the job table rely on: `PENDING`, `RUNNING`, then
`COMPLETED` or `FAILED` for ever, and `COMPLETED` only with a whole result in place.
`ImplementsLifecycle` maps the jobs of `StageExecution` to it.

### ProductReview and SelectionReview

The records of the reviews of one selection, as they are in the table: `guard`, `sessions` (META),
`decisions` (`DECISION#`), `current` (`CURRENT#`).  A handler reads the session, lists the
current decisions and writes; `handling[h]` is what it has read.  Each transaction of the
repository is one action with its conditions as an operator (`MayCreate`, `MayAppend`,
`MayWriteComplete`).  Materialization jobs read a completed review, resolve its decisions
(`Resolves`, which is `ReviewDecisionResolver`) and let the engine judge them (`Materializable`).

`SelectionReview` is what the review promises whoever waits for it: one list of decisions, each
numbered after the ones before it, as if the reviewers took turns; a completion once the last decision about
every required attribute settles it; then nothing but one outcome, made of the last decisions.  The mapping
takes the review that holds the guard: its META record is the status, its `DECISION#` records are the list,
the materialization is the outcome (`ImplementsReview`).  `CURRENT#` records, versions, counts and what
handlers have read are gone.

### Products and ProductSources

One product record; a request is a member of `Client` that reads, computes the whole new record from
what it read, and writes it under the condition the repository puts (`KnownVersion`, `MayMarkReady`).
The keys of the status, category and name indexes are attributes of the record, rewritten by each
kind of write in its own way, so they are part of it.

A source has a metadata record in `table` and, if file backed, two files on `disk`.  `save` reserves
the object, writes it, reserves the sidecar, writes it (`storage/local.py:60-110`); `delete` unlinks
one after the other.  Each file operation and each call of the table is an action, may fail, may
take effect although it reports an error, and the request may be cut off between any two.  The
compensation (`product_sources.py:504`) and the order of a deletion (object, then metadata) are
actions of their own.  `condemned`, `drawn` and `hit` are history: sources for which a delete was
accepted, keys that were generated, sources that a fault has hit.

### ResultRepositories, StoredResults and CatalogExport

The seventeen repositories have one protocol and differ in data.  `ResultRepositories` gives, for each,
the order of its records, whether there is a guard, whether the write is one transaction, and which
counts of META or of a parent record the reader compares (`attribute_conflicts_counts` and the like).
Two records of each kind stand for any number.  `StoredResults` interprets this: a writer puts one
record or one transaction per step, a reader queries page after page from the last key it was
given, decides as the repository's `_load` does, and comes between any two puts.
`CatalogExport` wraps the writer of one of them by the saving of three artifacts and the cleanup that
deletes them in reverse whatever was raised.

### Errors, StageServices and CatalogEnrichment

`Errors` is the class hierarchy of `core/exceptions.py` with the status each class is answered with.
A stage service is a record: errors of its own checks, of the repositories it reads, of its work, of
the storing of its result, and the list of its except clauses in their order
(`Translate`, `Keep`, `Raw`, ...); `Handling` picks the first clause that matches, as Python does.
The actions are those of `..._for_job`: read, check, start, work, store, complete, and in the clauses
`fail_job`, whose own failure is logged and forgotten (`lost`).  `StageCode` is the code that
`_run` of the workflow stores for the stage.

`CatalogEnrichment` refines the work of one service to its attempts.  A reply is one of a sample
that has every way to fail: unparsable, over a limit of the parser, over a limit that only the
entity has, with a claim whose words, certification or phrase the cited facts do not have.  A reply
is parsed, validated, and turned into a result or into a correction prompt.

### Tables, TableProvisioning, CategorySchemas and Listings

`Tables` is `create_tables.py` as data.  A deployer waits for DynamoDB, then for each table creates it,
takes *already exists* for an answer, and waits until it exists; another one does the same, and each
may fail anywhere.  Then the schemas are seeded: a preflight over all built-ins, then conditional
creates.  A table that was there before, perhaps from an older version of the script without the
newest index (`older`), is left as it is.

`Listings` pages through a listing.  `listings` says for each the table, the index, the attributes of
its keys, and what its cursor carries; the key of the last item is whatever the table's and the index's
keys are, so a wrong name shows as a refused query.  A page is the set of the items that remain from
the cursor on and have fewer than `limit` of these before them.  Items are written, renamed and deleted between
two pages, and reach the index later (`Replicate`).  At any moment the client may present a cursor
of another listing, another product or another filter.

### From AttributeExtraction to CatalogAnalysis

The first five modules are the engines as operators, each named for the method it stands for
(`extract`, `normalize`, `detect`, `evaluate`, `validate`, `select`, `OverallScore`).  The data is what
the engines tell apart: a number in thousandths, a text as a code with a spelling, a unit, a label and
whether the line has it as a hint, before a separator or as a prefix.  The schema, the unit registry
and the thresholds are constants.  Confidences are in hundredths of basis points, conversions round
half up at three places where the code has six, which keeps TLC's integers small.

`CatalogAnalysis` has one action per engine and for the review, in the order of the workflow, and the
variables hold the result of each.  `Init` chooses the lines of the sources.  In `CompleteReview` the
reviewers have decided each attribute as `submit_decision` accepts it (`Accepted`), `Materialize` and
`Score` may refuse.  Running the engines on each other's results is the point: each of them is tested
in the repository on inputs written by hand, the properties are about what they make of each
other's.

## 3. Runs

| run | question | instance | states |
| --- | --- | --- | --- |
| `workflow_concurrent` | do guard, single driver, order and verdict survive racing requests and one fault; do the workflows move as if nobody raced (`ImplementsWorkflowLifecycle`)? | 4 stages, 2 requests, 2 workflows, 1 product | 970 000 |
| `workflow_review` | can the review be bypassed, and does every started workflow come to rest? | 4 stages, 2 selections, 2 requests, one edit | 440 000 |
| `stage_execution` | what does one fault leave to later workflows, and do lagging indexes and edits mix results, lose guards or make a stale version ready? | 4 positions, 4 jobs, 3 product versions, 1 new source, 1 fault | 1 580 000 |
| `stage_persistence` | does a client who retries get to the end, and with results of one lineage? | all 16 positions, 32 jobs | 7 500 |
| `review` | do the records of a review agree under racing reviewers; is it the one list of decisions of `SelectionReview`, then frozen, and materialized once, as decided? | 2 reviewers, 2 reviews, 2 jobs, 3 decisions | 980 000 |
| `sources` | does a write ever bring back what was read before another one, does a source keep its object, do files leak? | 2 requests, 1 product, 1 source, 3 versions, 2 faults | 1 240 000 |
| `results` | is a result that can be read whole, and can a completed one be read; do an export and its artifacts stand and fall together? | each of 17 repositories, 2 results, pages of 2, 2 faults | 190 000 |
| `failures` | does the job name the cause of a failure, and the workflow what the job says; is a run that ended recorded; is a stored enrichment grounded? | each of 17 services with each of its errors; 2 attempts | 478 000 |
| `listings` | do deployers leave what the listings need; is an item that stays listed once; where can a cursor lead? | 2 deployers, 23 tables, 15 listings, 3 items, pages of 1 or 2, 2 writes | 257 000 |
| `analysis` | is evidence lost, or overruled, between the sources and the score; is what is stored valid, and the score a mean? | every set of at most 4 of 22 lines of 3 sources, a schema of 6 attributes | 186 000 |

Two further runs, `stage_fresh` and `listing_scores`, expect a violation; section 6 explains them.

**Bounds.**  A pipeline of four stages has one stage of each kind the orchestrator treats
differently (selection, review, readiness, optional), and the code treats stages of a kind alike.
Two requests and two workflows are what every race here needs: the conflicting writes are between
two handlers, and a third one can only repeat what one of the two does.  One fault shows what a
single failure leaves behind; the proofs cover any number.  `MaxProductVersion`, `MaxVersion`,
`MaxEvidence` (of `StageExecution`) bound edits and new sources, `MaxJobs` the jobs (a workflow starts only if a job is
left for every position that has one), `MaxDecisions` is the code's own limit, 1000 there.

The constraint `FaultOrChanges` of `stage_execution` keeps apart two kinds of trouble: a behaviour has a
fault, or changes its product more than once.  A fault matters for what is half done and one change for
what is stale; `StageExecutionProofs` proves the same properties without the constraint.

In `sources` three versions let a request read, another write twice, and the first write on top;
two faults let a write take effect behind an error and the cleanup fail after it.  `Text` is one
value for each text that the PATCH bodies of the instance write.  In `results` two
results are what a guard needs to choose between, and pages of two records break every plan of
records in at least one place; two faults are a failed put and a failed cleanup.  In `failures`
nothing is bounded but the attempts, which the configuration limits to two, and the sample of replies;
the limits `MaxBullets`, `MaxKeywords` and `MaxReferences` are a configuration in which one of them
exceeds the entity's.  In `listings` three items in pages of one or two give three pages, of which the
second may lose its first or its last item to the two writes; `Attempts` bounds the wait for DynamoDB
(30 in the script).  A client that presents a foreign cursor presents it last: a refused or misled
query changes nothing.  Throttled calls of a listing are left out, since they end it.

In `analysis` the schema has an attribute of each kind the engines treat differently: a required one
with two units, one with a set of values, one with a unit most lines leave out, one whose unit has no
alias form, one with a range, and a text.  The lines of the pool agree, agree only within the
tolerance, differ, repeat, lack a unit or a value, have an unknown unit, break a rule or name
nothing.  `MaxEvidence` is four lines: three of one attribute are what it takes to reach a tolerance over
a third value or to outvote one, and four exceed `MaxPerAttribute` (100 in the code).  One attribute
at a time is decided otherwise than `Usual`, since materialization and the score look at each
by itself.  Sets of lines are taken in one order, because `OrderIrrelevant` compares all orders.

**Deadlock** is not checked in the runs of `StageExecution` whose bounds stop `start`, nor in those
of `ProductReview`, where a materialized review is the end, nor in the five runs of this table that
follow `review`, where the records reach their last version or the run of a service, a script, a
listing or the analysis ends.  In the runs of `CatalogWorkflow` it is: some
request, edit or review can always be served.

**Fairness.**  Safety properties need none (TLC ignores it for them in
`workflow_review`).  `WorkflowSettles` assumes that a request, once accepted, is served to its end
(weak fairness of the steps of its handler): the code runs it synchronously and waits for nothing but
bounded calls.  `PersistenceCompletes` assumes a client and a reviewer who do not give up and indexes
that catch up, which DynamoDB promises.

## 4. Mutants

Each property of a passing run has a mutant: a definition with a bug such as a dropped version
condition, a guard put unconditionally, a comparison that forgets a field, a limit that is off by
one.  TLC finds the property violated in the mutated model, so each property depends on the line
of code that the mutant removes.

## 5. Proofs

`CatalogWorkflowProofs` proves for every pipeline, any number of requests, workflows, products and
faults:

* `InductiveInvariant`: `Spec => []IInv`;
* `TypeCorrect`, `OneActiveWorkflow` (`GuardIsTheActiveWorkflow`), `AtMostOneDriver` (`OneDriver`) and
  `StagesInFixedOrder` (`FixedOrder`), each from it.

Some properties of the runs are conjunctions of parts that belong together; the parts are then proved
first, each by its own argument, and one theorem joins them.

*Assumptions*: those named in the modules (`PipelineAssumption` and the like): which stages exist,
that the review comes after the selection, that model values differ from identifiers.

*Argument.*  `OneDriver` is not inductive: that the copy of a driver is the stored record depends on
nobody else being able to save.  `IInv` therefore says, for every handler, that its copy is never newer
than the stored record and equals it if the versions agree (`HandlerView`), that a handler whose next
save would succeed is unique (`OneOwner`), and what the workflows the state machine builds look like
(`WorkflowShape`): at most one stage between the ended ones and those to come.  A save that
succeeds makes every other copy stale, so the other handlers' saves conflict; a resume that
succeeds can only come from a workflow that waits, which nobody drives.  The lemmas `...Shape`
show that each transition keeps the shape, `SaveStep` that a save keeps everything else, and the
remaining lemmas treat one group of actions each.

Its second part adds what a workflow can become in its life, so that every safety
property of the runs `workflow_concurrent` and `workflow_review` is proved:

* `HistoryInvariant`: `Spec => [](HistoryInv /\ FaultFree)`; from it `VerdictsMatchStages`
  (`VerdictMatchesStages`), `ReviewIsNeverBypassed` (`NoReviewBypass`) and `OrphansComeFromFaults`
  (`OrphanedOnlyByFault`);
* with the theorems above, `GuardsAreAccountedFor` (`GuardIsAccountedFor`) and `StagesTellVerdicts`
  (`StagesTellTheVerdict`);
* the action properties `HistoryIsPersisted` (`PersistedHistory`, which no run checks by itself since the
  refinement below includes it) and `ResumedOnlyAfterReview` (`ResumedAfterReview`).

*Argument.*  By `IInv` whoever saves successfully saves a transition of what is stored, so it is
enough that every transition keeps the history (`TransitionKept`, with `StageMoves` for the ones that
move a stage, and `ProgressGrows` for the percentage).  `NoReviewBypass` and `ResumedAfterReview`
depend on what a request read of the review long before it saves: `HandlerKnows` says it, and it
stays true because no step undoes a completed session (`ReviewsKept`).  `OrphanedOnlyByFault` needs
that a save is refused only to a stale copy, and that before the first fault no copy of an attending
request is stale, not even that of a failing stage (`FaultFree`, `UpToDateSaves`).  `StepForms` sums
up what a step can do to the workflows, so that each argument is made once.

Its third part proves the refinement: `ReportsInvariant`, `Spec => []ReportsInv`, and from it and the two
invariants above `WorkflowsImplementLifecycle`, `Spec => ImplementsWorkflowLifecycle`.

*Argument.*  A save that takes effect comes from a handler whose copy is what is stored, by `IInv`; so a
transition of the copy is one of the stored workflow.  What is left to show is that it is a transition that
`WorkflowLifecycle` has *there*.  `HandlerReports` says of the outcome that a handler is about to save that
its stage could end so: a selection comes with the selection stage alone, a waiting or completed review with
a session that exists or is completed, and, since sessions are neither removed nor reopened, still is when the
save comes.  `IdleReports`, `ExecutingReports` and `SavingReports` keep it, one group of actions each.  `TransitionMoves`
treats the transitions one by one, `CreateStarts` the creation, where the guard is what makes the product
free, and `StepImplementsLifecycle` maps every action to one step or a stutter.

`ProductReviewProofs` proves for any number of reviewers, reviews, attributes, decisions and jobs
everything that the run `review` checks, and its type invariant:

* `ReviewInvariant`: `Spec => []IInv`; from it `ReviewTypeCorrect`, `OneReview`, `RecordsAgree`,
  `CurrentRecordsAreLatest`, which are the parts of `AllRecordsAgree` (`ReviewRecordsAgree`),
  `CompletedReviewsAreResolved` and `DecidedIsMaterialized`;
* the action properties `FrozenHistory` (`HistoryIsFinal`) and `MaterializedOnce` (`OneMaterialization`),
  joined in `WhatIsStoredStays` (`StoredForGood`, which no run checks by itself since the refinement
  includes it);
* `ReviewersMakeOneReview`: `Spec => ImplementsReview`, the refinement of `SelectionReview`.

*Assumptions*: `SelectionAssumption`, what the entities of the selection guarantee, with finitely many
attributes, and `NoneAssumption`, that a decision, a review or a list of reviewed attributes is not the
absence of one.

*Argument.*  A write is computed from two reads, the session first and the current decisions later,
but is conditional on the session's version alone.  `MetaAgrees` and `CompletedIsResolved` are
therefore not inductive: nothing in them says that the second read fits the first.  `ReadsOK` says
it: the version a handler remembers is never newer than the stored one, and as long as they are
equal so are the session and the decisions it was shown.  `WriteStep` shows that a write makes
every other copy of its review stale and keeps the rest, `HandlerReadsStep` and `JobReadsStep` treat
the steps that only read, and one lemma per action puts these together.  `JobReadsOK` adds that a
job works on the decisions of a completed review, which `NextIInv` keeps because nothing writes to
one.

For the refinement, the list of `SelectionReview` is `decisions` of the review that holds the guard.  That an
appended decision has the next number, that what `complete` counted is what the list says, and that the
`CURRENT#` record a job resolved is the last decision in the list, are `RecordsAgree` and
`CurrentRecordsAreLatest` at the moment of the write, which the read versions carry there (`ReadsOK`).  Each
transaction is one step of `SelectionReview` (`AppendDecides` and its neighbours), each read a stutter.

`StageExecutionProofs` proves for any pipeline, any number of jobs and faults and any edits all
safety properties of the runs `stage_execution` and `stage_persistence`:

* `StageInvariant`: `Spec => []IInv`; from it `TypeCorrect`, `WorkflowsHoldWholeResults`
  (`HeldResultsAreWhole`), `ReusedResultsShareLineage` (`SameLineage`), `LineagesAreUnique`
  (`OneResultPerLineage`) and `GuardsAreLostOnlyByFaults` (`GuardLostOnlyByFault`), the last two joined
  in `LineagesGetOneUsableResult` (`OneUsableResultPerLineage`);
* `JobsImplementLifecycle`: `Spec => ImplementsLifecycle`, the refinement of `JobLifecycle`;
* `ReadyAsProjected` (`ReadyOnlyAsProjected`), if no PATCH sets `READY_TO_PUBLISH` itself: the code
  lets a PATCH set any status, and what the user sets by hand is not the workflow's promise.

*Assumptions*: `ExecutorAssumption` and `PipelineAssumption`, the shape and the order of the pipeline.

*Argument.*  A workflow holds results of jobs that an index showed it some time ago, so
`HeldResultsAreWhole` depends on the age of what was read.  `TablesOK` makes the age irrelevant: a job
keeps its position and lineage, a `COMPLETED` one has a whole result and never changes, hence what
the index says of a `COMPLETED` job is still true.  `RunOK` says of every step what the run has in
its hands: nothing of the positions ahead, and before `complete` a whole result of its own job.
`HeldMore` shows that taking over one more result keeps the lineages of the earlier ones, because a
lineage names earlier positions only.  That a guarded lineage gets one result follows from the
write's own condition (`ResultStored`), whatever the index showed before.  For the refinement,
`TableStep` lists the four things a step can do to jobs and results; each is a step of `JobLifecycle`
or none.  `ReadyInv` adds that no mandatory position is passed without a result, that a held
review is completed for ever, and that the projection was compared with the version read last.

`ProductSourcesProofs` proves for any number of requests, sources, versions, PATCH bodies, uploads and
faults all properties of the run `sources`:

* `SourcesInductive`: `Spec => []IInv`; from it `SourcesTypeCorrect` (`TypeOK`), `IndexKeysMatch`
  (`IndexKeyMatchesRecord`), `StoredSourcesHaveTheirObjects` (`StoredSourceHasItsObject`) and
  `FilesLeakOnlyByFaults` (`FilesLeakOnlyByFault`);
* `UpdatesBuild`: `Spec => UpdatesBuildOnTheStoredRecord`, no update of a product or a source is lost.

*Assumptions*: `ProductsAssumption` and `SourcesAssumption`: a PATCH body names fields that may be edited
and gives them values of their types, and a record is not one of the values that stand for none.

*Argument.*  A request writes what it computed from a record it read several steps before.  What
it still knows of that record is `UpToDate`: as long as the stored version is the one its caller named, what
it read is what is stored.  Versions only grow and a deleted record never returns (`RecordMoves`), so
no step of another request can make this false (`MovesKeepViews`), and the condition of the write
asks for exactly that version.  Of files, `UploadOK` says which of the two exist before each
step of an upload, and `CleanupOK` and `SourceViewOK` that only files of the request's own or of a
condemned source are removed.  `SafeStep` is what a step may not do to the others; each action
is shown to be one, and `OthersKept` is proved once for all of them.  `OneOwner`, that no two uploads work
on one id, is what makes an upload's view of its source final.

`CatalogExportProofs` proves for each of the seventeen repositories, any number of results, any size of a
page and any number of faults everything that the run `results` checks, and the type invariant:

* `CountsIdentifyTheWhole`, of the data alone: a set of the records of a result that `from_items` accepts is
  the whole result;
* `Invariant`: `Spec => []IInv`; from it `TypeCorrect`, `ReadsAreWhole` (`ReadIsWhole`), `CompletedReadsBack`
  (`CompletedResultReadsBack`) and `ExportsAreAllOrNothing` (`ExportIsAllOrNothing`).

*Assumption*: `StoredResultsAssumption`: a page has at least one record, faults are counted, and no result
is called nobody.

*Argument.*  A reader that gets a result between two puts sees records that are not all.  `ReadIsWhole` is
not about the order of puts and pages but about the counts: whatever a reader has collected, if META and the
parents count what was found, nothing is missing, which is `CountsIdentifyTheWhole`.  That a completed
result is read back is about the pages: `ReaderOK` says that up to the last key it was given the reader has
every record of a result that was complete when the read began, and records are never removed.
`RecordsOK` and `ObjectsOK` say how much of a result is there before each step of its writer, and for an
export which artifacts, unless the result is in `lied`.

`CatalogEnrichmentProofs` proves for every configuration of attempts and limits:

* `EndedRunsAreRecorded` (`EndedRunIsRecorded`), from the invariant `RunInv` of the run of a service;
* `CausesAreNamed` (`CauseIsNamed`), from `RunInv` and the invariant `CauseInv`, for each of the services;
* `Invariant`: `EnrichmentSpec => []IInv`; from it `LastAttemptsDecide` (`LastAttemptDecides`) and
  `StoredIsGrounded` (`StoredContentIsGrounded`).

*Assumption*: `LimitsAssumption`, what the settings accept: one or two attempts and positive limits.

*Argument.*  `RunInv` says of every step of a run what its job, its stored result, its cause and its error
are.  `GenerationInv` relates the calls to the provider: every reply but the last was refused for a reason
that could be corrected, and the next prompt names it; a result is made of the last reply, which passed the
checks of its own prompt.  One lemma per step keeps each of them (`StepsKeepRun`, `StepsKeepGeneration`).

`CauseInv` says that the error in flight and the job's are those the except clauses make of a cause the service
knows (`StepsKeepCause`).  What they make of it depends on where the cause's class stands, in a hierarchy that
defines each class once (`ClassesAreDefinedOnce`), so that where a class is defined tells all its ancestors
(`RootIs`, `LeafIs`, `InnerIs`).  By that the causes are of four kinds (`Kinds`), and one lemma for each shape
of except clauses says which error each kind becomes (`AnalysisHandling`, `ExportHandling`,
`ResultsFirstHandling`, `ReadingHandling`).  One lemma per service shows that its classes stand as its clauses
expect, of which `ServicesNameTheirCauses` is the sum.

`CatalogAnalysisProofs` proves what the analysis promises for every schema, every set of lines, every
threshold and every tolerance, which are all invariants of the run `analysis`:

* `ResultsAreDerived`: `Spec => []DerivedResults`, every result held is what its engine makes of the
  others held, and every decision one that `submit_decision` takes;
* `OrderIsIrrelevant` (`OrderIrrelevant`) and `EvidenceReachesTheReview` (`NoEvidenceIsLost`);
* `AgreementIsPairwise`, of `CompareAll` alone: candidates found in agreement agree two by two; from it
  `AgreementHoldsMutually` (`AgreementIsMutual`);
* `AutoSelectionIsAgreed` and `AutoSelectionIsUncontested` (`AutoSelectedIsUncontested`);
* `ReadinessIsCompleteness` and `ReadinessIsCorroborated` (`ReadyMeansComplete`), if the schema requires any
  attribute;
* `MaterializedValuesObeyTheSchema` (`FinalValuesObeyTheSchema`) and, if the schema requires any attribute,
  `RefusalsAreOverrides` (`OnlyOverridesAreRefused`);
* `ScoresAreMeans` (`ScoreIsAMean`).

*Assumptions*: `SchemaAssumption`, what the entities of a schema guarantee; `UnitAssumption`, that a schema
which allows a unit allows the one it is converted to, which no code checks and each of the built-in schemas
satisfies; `ValueAssumption`, that a value is not the absence of one; `PoolAssumption`, that no two lines stand
at the same place of the same source; `ToleranceAssumption` and `SelectionAssumption`, the ranges of the
settings; `EnrichmentAssumption`, that the two scores of an enrichment are basis points, which its entity
checks.  Each built-in schema requires an attribute.  Without one the two theorems that ask for it are false:
such a product is ready whatever its evidence, and a review that rejects everything cannot be scored.

*Argument.*  None of these properties is about one engine, and `DerivedResults` says how their
results belong together: it is the inductive invariant, since each action computes one result from
those already there.  Everything else is about the operators.

* *Extraction* is a loop over the lines that stops at the first one it cannot parse, passes over a line that
  says again what another of the same source said, and stops when an attribute has too many candidates.
  `TakenIsOfTheSet` shows that what the loop holds after some lines is said by their set alone: that it fails
  if one of them raises or an attribute exceeds its limit (`CleanIsMonotonic`: then it fails for more lines
  too), and else has one candidate for each that names an attribute.  The induction over the number of lines
  is an argument about the least number at which the claim fails (`LeastNatural`).  The sort key tells any two
  candidates apart (`PrecedesIsTotal`), so each has a rank of its own (`RanksAreDistinct`, `CandidateRanks`), and
  the stable sort has one result (`OrderedIsSorted`).  `ExtractOfTheSet` joins the two; `OrderIsIrrelevant` and
  `EvidenceReachesTheReview` follow from it.
* *Agreement* compares every pair (`Pairs`), and the comparison of a pair looks at no other candidate; that all
  values are equal, or that no pair exceeds the tolerance, therefore holds of any two.
* *Selection*: `AUTO_SELECTED` is reached only past every condition of `SelectAttribute` (`AutoSelection`), among
  them an agreement, and by `ConsensusStatus` and `AgreementIsCompared` an agreement makes the attribute's state
  `PRESENT` or `PRESENT_WITH_TOLERANCE` as the completeness engine sees it.  The proposal is the first of the
  ranked candidates, of which there is one because they are finitely many (`PrimaryExists`).
* *Materialization*: a final value is a candidate that the validation engine vouches for, or one that was typed
  (`FinalValues`).  The first obeys the schema by the rules of the validator
  (`ApprovableObeysTheSchema`), the second by the checks of `submit_decision` on the converted value
  (`OverrideObeysTheSchema`), and these agree although they are two pieces of code.
* *Score*: the sums are folds of the library, which are recursive functions on the subsets of a set and take an
  element of their own choice first.  `IsSum` says what such a function is, `SumExists` that there is one (level
  by level, over the cardinality), and `SumStep` that any element may be taken first; `SubsetInduction` states
  induction over subsets with a set of subsets in the place of the operator that the library's theorem takes.
  Each component is a mean of points with weights above 0, hence within 0 .. 10000 (`CompletenessBound` to
  `AiBound`), the normalized weights are one of two sixtuples (`NormalizedWeights`), which add up, and each
  division loses less than a point (`MeanOfComponents`).  That the engine refuses a product without final
  attributes or consensus, where a mean would have no weights, is kept by a second invariant, `ScoreFollows`.

`ListingsProofs` proves, for any number of deployers, of items and of writes while a client pages, and
for pages of any size, all that the run `listings` checks:

* `DeploymentsProvide` (`ProvisionedOrUntouched`), from `Deployment`: `Spec => [](TablesOK /\ SchemasOK)`;
* `SteadyItemsAreListedOnce` (`SteadyListedOnce`), from `Paging`: `Spec => []PagingOK`;
* `ListingsAreUsable` (`ListingsFindTheirIndexes`), from `Answers`: `Spec => []AnswersOK`;
* `ForeignCursorsAreRefused` (`CursorsStayInTheirListing`).

*Assumptions*: `DeployersAssumption`, that somebody runs the scripts before the listings are served;
`AttemptsAssumption`, `ItemsAssumption` and `LimitsAssumption`, that items are numbered and pages not
empty.

*Argument.*

* *Provisioning.*  `TablesOK` says what a deployer has seen: each table of a function it is past is in
  use, and no step of anybody takes a table out of use (`TablesStay`) or changes its indexes.
  `SchemasOK` says the same of the categories: what a deployer's preflight has found (nothing stored, or
  the built-in alone), no other deployer can spoil, because all of them write the same schema under the
  same condition (`SchemasGrow`).
* *Paging.*  An item that stays in the listing has been given once if the cursor is past it and not
  yet otherwise (`PagingOK`); an item that keeps its name is past the cursor once it was given, even if
  it moved away and came back.  That a full page has a last item, with the rest of the page before it
  and all that remains after it, and that a page that is not full is all that remains, is a fact about
  finite sets in total order (`FirstFew`, from `EndExists`, which takes a least set of predecessors),
  and makes the step (`Pages`, `PagesPass`).
* *Indexes.*  Each listing's keys are compared with those of its table and index in `Tables`
  (`ListingsAreIndexed`), and the cursor a listing encodes is the one it decodes
  (`OwnCursorsAreDecoded`); with `TablesOK` a refusal has no other cause than an older table.
* *Foreign cursors.*  The members of the document, its scope and its argument separate the schemes
  (`CursorsOfOtherSchemes`), and two listings of the product scheme differ in the attributes of
  their keys (`ForeignCursors`).  The answer to the decoders' errors follows from the class hierarchy
  and the handlers (`OneParent`, `MostSpecificIs`, `AnswersToCursors`).

*Only model-checked*:

* the liveness properties, which the prover does not treat;
* that the modules in the table of section 2 which are data (`Errors`, `ResultRepositories`, `Tables`) are
  those of the code: each entry is a line of the source.

## 6. Where the code differs from what is said of it

Two of the differences have a run, which finds the violation:

| run | code | claim |
| --- | --- | --- |
| `stage_fresh` | a stage that ran its job freshly reads the result reference from the object it created, not from the stored job, and fails its workflow | SPEC-037: stages execute until review, failure or completion |
| `listing_scores` | the cursor given out with a page of intelligence scores is refused by the listing that gave it out | docs: the opaque cursor pages through the history |

A consequence of `stage_fresh` is that a product needs about one workflow per stage: `stage_persistence`
shows that retrying nevertheless reaches the end.

The others can be read off the modules; each is a consequence of the lines given.

* **Resume and edits** (`services/catalog_workflow_orchestrator.py:119`): `resume` compares the product,
  then reads the review, then saves under the workflow's version, so an edit or a delete of the product
  in between goes unnoticed.  `docs/architecture/catalog-intelligence-workflows.md:32`: "Resume requires the
  current workflow version, unchanged observed Product and source identity, and the exact stored review
  in COMPLETED".  In `CatalogWorkflow`: `resume_product` to `resume_save`.
* **Paused for ever** (same line): a paused workflow whose product was edited can only be resumed, which
  is refused, and keeps the guard, so a new start is refused too.
  `apps/web/src/utils/workflowErrors.js:10`: "This product changed while the workflow was paused. Start a new
  workflow for the latest state."
* **Unresolved for ever** (`services/catalog_workflow_stage_executor.py:367`): the job of an unresolved
  classification is completed and has no lineage, so every later workflow reuses it.
  `workflowErrors.js:14`: "CatalogIQ couldn't determine the product category. Add clearer product information
  and start a new workflow."
* **Stale for ever** (same line): a projection is reused by its materialization alone, and the guard
  refuses a second one, so after an edit of the product readiness is refused by every later workflow.
  `docs/architecture/product-domain.md:20`: "projections created from an older Product identity become stale
  and must be regenerated before readiness can be applied".
* **Approved but not materializable** (`services/reviewed_attribute_materialization_engine.py:135`): a
  supporting candidate of an automatically selected attribute can be approved with `APPROVE_CANDIDATE`
  (`services/product_review.py:179`), but the engine accepts only review candidates, so a completed,
  immutable review has no materialization.  SPEC-030, line 88: "The completed review is authoritative;
  SPEC-030 performs structural verification only, never selection or revalidation."
* **Cursor of another status** (`repositories/dynamodb_products.py:413`): a product cursor of another
  listing passes the check of its attribute names and is refused by DynamoDB, which is answered with 503.
  `docs/api/products.md:113` says 400.
* **Units without letters** (`services/structured_attribute_extraction_engine.py:189`): `_parse` puts every
  allowed unit through `normalize_alias`, which raises for a text without a letter or a digit, and
  `builtins.py:124` allows `%`: a line that gives an efficiency as a number fails the whole extraction, and
  so does a line of another number with such a unit, or a label of dashes.
  `docs/specs/SPEC-023-structured-attribute-extraction-engine.md:43`: "Unsafe/absent values produce warnings
  rather than invented candidates"; `builtins.py:126` gives "91.2 %" as an example.  In `AttributeExtraction`:
  `ParseRaises` and `MatchRaises`.
* **Overrides without a source** (`services/product_intelligence_conflict_scorer.py:34`): the score refuses a final attribute
  without a consensus, which is what a reviewer leaves who types a value that no source has.
  `docs/architecture/product-intelligence-scoring-methodology.md:14`: "a human override without a source scores
  5000".  In `ProductIntelligence`: `ConflictRefuses`.
* **Warnings without review** (`services/attribute_selection_engine.py:212`): an optional attribute whose
  candidates all have warnings is `NO_VALID_CANDIDATE` and needs no review.
  `docs/architecture/attribute-selection.md:11`: "Any warning, single candidate, same-source repetition, conflict,
  indeterminate comparison, or insufficient confidence requires review".  In `AttributeSelection`:
  `SelectAmong`.
* **Substrings of certifications** (`services/catalog_enrichment_hallucination_guard.py:98`): a certification
  or phrase is supported if it occurs anywhere in the text of a cited fact, also within a word: "UL" by
  "Insulation".  Words, on the other hand, are compared as words.

## 7. What is not modelled

* The contents of files and texts, and the engines that read them (PDF, CSV, image and OCR parsing, the
  classification engine): the analysis starts from lines.
* Of the analysis engines: BOOLEAN and ENUM attributes, which no built-in schema has, the limits on
  totals, and the grade, strengths, improvements and metrics of a score.
* The engines of projection and readiness: their verdict is a free choice in `StageExecution`.
* Request validation, wiring, logging, most of the configuration, the front end.
* Pagination inside `CatalogWorkflow`, `StageExecution` and `ProductReview`, where a listing is read at
  one moment: `StoredResults` and `Listings` show what the pages add.
* What deletes a stored result: nothing does.
* The Unilog batch pipeline and its evaluation: computations over a data set within one call.
* Clocks: timestamps only order history and nothing depends on them.
* Reads that are refused or fail before a write leave no trace and are not actions of their own,
  except where the failure is recorded (`fail_stage`, `fail_job`).
* Cancelled jobs: no code requests the transition.

## 8. Plan

1. Done: workflow, stage execution, job lifecycle, review; products, sources and storage; result
   repositories and export; errors, stage services and enrichment; tables, schemas and listings;
   the analysis engines from extraction to the score.
2. `CatalogWorkflow` takes its snapshot through the lagging, paginated listing of `Listings`.
3. Pure modules: classification, and projection with readiness, which then decide what is a free choice
   in `StageExecution`.
4. The Unilog resolvers and the evaluation metrics.
5. Further theorems: that each component's abstract promise composes, as the readiness of
   `ProductReview` with the stages of `CatalogWorkflow`, once a module joins them.

The set of runs stays small, one or two per component, checked in minutes: questions that fit an
existing instance join its run, as the liveness of the workflow and the materialization of the
review did, and the parts of a property that belong together are checked as one conjunction.
