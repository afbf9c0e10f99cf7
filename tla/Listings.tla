-------------------------------- MODULE Listings --------------------------------
(***************************************************************************)
(* The paginated listings of the API over the tables the scripts provided. *)
(* A page is read through an index, which lags behind the table, and the   *)
(* key of its last item travels through the client in an opaque cursor.    *)
(***************************************************************************)
EXTENDS CategorySchemas, Errors, FiniteSets

CONSTANTS Items,     \* 1..n, in the order of their created_at
          Limits,    \* page sizes
          MaxWrites  \* writes while a client is paging

ASSUME ItemsAssumption == IsFiniteSet(Items) /\ Items = 1..Cardinality(Items)
ASSUME LimitsAssumption == \A n \in Limits : n \in Nat \ {0}

VARIABLES listing,  \* the listing a client pages through
          limit,    \* the size of its pages
          record,   \* [item -> its image in the table]
          shown,    \* [item -> its image in the index]
          cursor,   \* the cursor of the last page
          seen,     \* [item -> how often it was listed]
          steady,   \* items that have not changed in the index since paging began
          paging,   \* "no", "yes", "done" or "refused"
          answer,   \* the error a request ended with and the cursor it presented
          writes
paged == <<listing, limit, record, shown, cursor, seen, steady, paging, answer, writes>>
vars == <<tables, older, deployer, schemas, seeder, listing, limit, record, shown, cursor,
          seen, steady, paging, answer, writes>>

\* changes: how an item may leave, enter or move within a partition.
AccessPattern(name, table, index, cursor_keys, scheme, changes) ==
  [name |-> name, table |-> table, index |-> index, cursor_keys |-> cursor_keys,
   scheme |-> scheme, changes |-> changes]
ProductListing(name, index, partition, sort, scheme, changes) ==
  AccessPattern(name, "products", index, {"productId", partition, sort}, scheme,
                changes \cup {"delete"})

list_products == ProductListing("list_products", "CreatedAtIndex", "entityType", "createdAt",
                                "product", {})
list_by_status == ProductListing("list_by_status", "StatusCreatedAtIndex", "status",
                                 "createdAt", "product", {"move"})
list_created == ProductListing("CREATED_AT", "CreatedAtIndex", "entityType", "createdAt",
                               "search", {})
search_by_status == ProductListing("STATUS", "StatusCreatedAtIndex", "status", "createdAt",
                                   "search", {"move"})
list_by_category == ProductListing("CATEGORY", "CategoryCreatedAtIndex", "category",
                                   "createdAt", "search", {"move"})
list_by_category_status ==
  ProductListing("CATEGORY_STATUS", "CategoryStatusCreatedAtIndex", "categoryStatusKey",
                 "createdAt", "search", {"move"})
list_by_manufacturer ==
  ProductListing("MANUFACTURER", "ManufacturerCreatedAtIndex", "normalizedManufacturer",
                 "createdAt", "search", {"move"})
list_by_model_number ==
  ProductListing("MODEL_NUMBER", "ModelNumberCreatedAtIndex", "normalizedModelNumber",
                 "createdAt", "search", {"move"})
list_by_name_prefix == ProductListing("NAME_PREFIX", "NameSearchIndex", "entityType",
                                      "normalizedName", "search", {"move", "rename"})
sources_by_product == AccessPattern("sources", "sources", "ProductCreatedAtIndex",
  {"productId", "sourceId", "createdAt"}, "source", {"delete"})
jobs_by_product == AccessPattern("jobs", "processing-jobs", "ProductCreatedAtIndex",
  {"jobId", "productId", "createdAt"}, "jobs_by_product", {})
jobs_by_source == AccessPattern("source_jobs", "processing-jobs",
  "SourceCreatedAtIndex", {"jobId", "sourceScope", "createdAt"}, "jobs_by_source", {})
\* These three do not compare the names of the key's attributes.
list_decisions == AccessPattern("decisions", "product-reviews", "", {}, "review", {})
scores_by_product == AccessPattern("scores", "product-intelligence-score-results",
  "ProductCreatedAtIndex", {}, "score", {})
workflows_by_product == AccessPattern("workflows", "catalog-intelligence-workflows",
  "ProductCreatedAtIndex", {}, "workflow", {})

AccessPatterns == {list_products, list_by_status, list_created, search_by_status,
  list_by_category, list_by_category_status, list_by_manufacturer, list_by_model_number,
  list_by_name_prefix, sources_by_product, jobs_by_product, jobs_by_source, list_decisions,
  scores_by_product, workflows_by_product}
NoListing == AccessPattern("none", "", "", {}, "", {})

ScanIndexForward(l) == l.name \in {"NAME_PREFIX", "decisions"}
ConsistentRead(l) == l.name = "decisions"
\* Listings with one partition have no other argument to be given.
Arguments(l) ==
  IF l.name \in {"list_products", "CREATED_AT"} THEN {"this"} ELSE {"this", "other"}

\* Where an item can be, seen from the partition the client reads.
Places(l) ==
  {"absent", "here"} \cup (IF "move" \in l.changes THEN {"elsewhere"} ELSE {})

InvalidCursor(l) ==
  CASE l.scheme = "product" -> "InvalidProductCursorError"
    [] l.scheme = "search" -> "InvalidCatalogSearchCursorError"
    [] l.scheme = "source" -> "InvalidProductSourceCursorError"
    [] l.scheme \in {"jobs_by_product", "jobs_by_source"} -> "InvalidProcessingJobCursorError"
    [] l.scheme = "review" -> "InvalidProductReviewCursorError"
    [] l.scheme = "score" -> "InvalidProductIntelligenceCursorError"
    [] OTHER -> "InvalidCatalogWorkflowCursorError"
StorageError(l) ==
  CASE l.scheme = "product" -> "ProductRepositoryError"
    [] l.scheme = "search" -> "CatalogSearchStorageUnavailableError"
    [] l.scheme = "source" -> "ProductSourceRepositoryError"
    [] l.scheme \in {"jobs_by_product", "jobs_by_source"} -> "ProcessingJobRepositoryError"
    [] l.scheme = "review" -> "ProductReviewRepositoryError"
    [] l.scheme = "score" -> "ProductIntelligenceReadError"
    [] OTHER -> "CatalogWorkflowRepositoryError"

-----------------------------------------------------------------------------
(* Cursors: the members of the JSON document, the scope and the argument   *)
(* it names, and the key with its attributes, as DynamoDB's wire values    *)
(* or as plain ones.                                                       *)
Absent == [in |-> "absent", at |-> 0]
\* The attributes of the keys of a table and, if it is queried, of an index.
KeyAttributes(table, index) ==
  table.key \cup UNION {i.key : i \in {j \in table.indexes : j.name = index}}
Key(l, argument, item, at, wire) ==
  [item |-> item, at |-> at, partition |-> argument, wire |-> wire,
   attributes |-> KeyAttributes(CHOOSE t \in {main[i] : i \in Step} : t.name = l.table, l.index)]
Envelope(members, scope, argument, key) ==
  [members |-> members, scope |-> scope, argument |-> argument, key |-> key]
NoCursor == Envelope({}, "none", "", [item |-> 0])

encode_product_cursor(key) == Envelope({}, "", "", key)
encode_catalog_search_cursor(pattern, fingerprint, key) ==
  Envelope({"version", "scope", "accessPattern", "filterFingerprint", "key"}, pattern,
           fingerprint, key)
encode_product_source_cursor(product_id, key) ==
  Envelope({"scope", "productId", "key"}, "product_sources", product_id, key)
encode_processing_job_cursor(scope, identity, key) ==
  Envelope({"scope", "identity", "key"}, scope, identity, key)
encode_review_decision_cursor(review_id, key) ==
  Envelope({"scope", "reviewId", "key"}, "review_decisions", review_id, key)
\* The score's repository encodes the deserialized key.
encode_score_cursor(key, product_id) ==
  Envelope({"p", "k"}, "", product_id, [key EXCEPT !.wire = FALSE])
encode_workflow_cursor(key, product_id) ==
  Envelope({"scope", "productId", "key"}, "catalog_workflows", product_id, key)

Encode(l, argument, key) ==
  CASE l.scheme = "product" -> encode_product_cursor(key)
    [] l.scheme = "search" -> encode_catalog_search_cursor(l.name, argument, key)
    [] l.scheme = "source" -> encode_product_source_cursor(argument, key)
    [] l.scheme \in {"jobs_by_product", "jobs_by_source"} ->
         encode_processing_job_cursor(l.scheme, argument, key)
    [] l.scheme = "review" -> encode_review_decision_cursor(argument, key)
    [] l.scheme = "score" -> encode_score_cursor(key, argument)
    [] OTHER -> encode_workflow_cursor(key, argument)

decode_product_cursor(c) == c.members = {} /\ c.key.wire
\* A decoder that does not compare the fingerprint of the filter.
decode_catalog_search_cursor_of_any_filter(c, pattern, fingerprint) ==
  /\ c.members = {"version", "scope", "accessPattern", "filterFingerprint", "key"}
  /\ c.scope = pattern
  /\ c.key.wire
decode_catalog_search_cursor(c, pattern, fingerprint) ==
  /\ c.members = {"version", "scope", "accessPattern", "filterFingerprint", "key"}
  /\ c.scope = pattern
  /\ c.argument = fingerprint
  /\ c.key.wire
decode_product_source_cursor(c, product_id) ==
  /\ c.members = {"scope", "productId", "key"}
  /\ c.scope = "product_sources"
  /\ c.argument = product_id
  /\ c.key.wire
decode_processing_job_cursor(c, scope, identity) ==
  /\ c.members = {"scope", "identity", "key"}
  /\ c.scope = scope /\ c.argument = identity
  /\ c.key.wire
decode_review_decision_cursor(c, review_id) ==
  /\ c.members = {"scope", "reviewId", "key"}
  /\ c.scope = "review_decisions" /\ c.argument = review_id
  /\ c.key.wire
decode_score_cursor(c, product_id) ==
  c.members = {"p", "k"} /\ c.argument = product_id /\ c.key.wire
decode_workflow_cursor(c, product_id) ==
  /\ c.members = {"scope", "productId", "key"}
  /\ c.scope = "catalog_workflows" /\ c.argument = product_id

Decodes(l, argument, c) ==
  /\ CASE l.scheme = "product" -> decode_product_cursor(c)
       [] l.scheme = "search" -> decode_catalog_search_cursor(c, l.name, argument)
       [] l.scheme = "source" -> decode_product_source_cursor(c, argument)
       [] l.scheme \in {"jobs_by_product", "jobs_by_source"} ->
            decode_processing_job_cursor(c, l.scheme, argument)
       [] l.scheme = "review" -> decode_review_decision_cursor(c, argument)
       [] l.scheme = "score" -> decode_score_cursor(c, argument)
       [] OTHER -> decode_workflow_cursor(c, argument)
  /\ l.cursor_keys # {} => c.key.attributes = l.cursor_keys

-----------------------------------------------------------------------------
(* DynamoDB: the index must exist, and a start key must have the key       *)
(* attributes of the table and the index and lie in the queried range.     *)
HasIndex(l) ==
  l.index = "" \/ l.index \in tables[l.table].indexes
StartKeyFits(l, key) ==
  /\ key.attributes = Key(l, "this", 0, 0, TRUE).attributes
  /\ key.partition = "this"

Image(i) == IF ConsistentRead(listing) THEN record[i] ELSE shown[i]
Earlier(a, b) == a.at < b.at \/ (a.at = b.at /\ a.item < b.item)
InOrder(l, a, b) == IF ScanIndexForward(l) THEN Earlier(a, b) ELSE Earlier(b, a)
Place(i) == [item |-> i, at |-> Image(i).at]
\* The items of the partition from a start key on.
Remaining(start) ==
  {i \in Items : /\ Image(i).in = "here"
                 /\ start = NoCursor
                    \/ InOrder(listing, [item |-> start.key.item, at |-> start.key.at], Place(i))}
\* The items a query returns, which are the first of them.
Page(start) ==
  {i \in Remaining(start) :
     Cardinality({j \in Remaining(start) : InOrder(listing, Place(j), Place(i))}) < limit}
First(page) == CHOOSE i \in page : \A j \in page \ {i} : InOrder(listing, Place(i), Place(j))
Last(page) == CHOOSE i \in page : \A j \in page \ {i} : InOrder(listing, Place(j), Place(i))

InitListings ==
  /\ listing = NoListing /\ limit = 0
  /\ record = [i \in Items |-> Absent] /\ shown = record
  /\ cursor = NoCursor /\ seen = [i \in Items |-> 0] /\ steady = {}
  /\ paging = "no" /\ writes = 0
  /\ answer = [error |-> "", from |-> NoListing, argument |-> ""]

(* The scripts have returned and their processes are gone; a client pages  *)
(* through a listing of whatever has been stored meanwhile.  (A table that *)
(* was provided in the same way is looked at in one environment only.)     *)
Serve ==
  /\ paging = "no" /\ older # AllNames
  /\ \A d \in Deployers : seeder[d].pc = "seeded"
  /\ deployer' = [d \in Deployers |-> [pc |-> "exited", at |-> 1, attempt |-> 1]]
  /\ seeder' = [d \in Deployers |-> [pc |-> "exited", at |-> 1, existing |-> {},
                                     wrote |-> {}]]
  /\ listing' \in {l \in AccessPatterns : older = {} \/ l.table \in older}
  /\ limit' \in Limits
  /\ \E place \in [Items -> Places(listing')] :
       record' = [i \in Items |-> IF place[i] = "absent" THEN Absent
                                  ELSE [in |-> place[i], at |-> i]]
  /\ shown' = record'
  /\ steady' = {i \in Items : record'[i].in = "here"}
  /\ paging' = "yes"
  /\ UNCHANGED <<tables, older, schemas, cursor, seen, answer, writes>>

served == <<provisioning, seeding, listing, limit>>

(* The client's paging ends with this answer, and its state with it.       *)
Ends(error, from, argument) ==
  /\ paging' = "refused"
  /\ answer' = [error |-> error, from |-> from, argument |-> argument]
  /\ record' = [i \in Items |-> Absent] /\ shown' = record'
  /\ cursor' = NoCursor /\ seen' = [i \in Items |-> 0] /\ steady' = {} /\ writes' = 0
  /\ UNCHANGED served

(* What a request with a cursor comes to: the decoder's refusal, then      *)
(* DynamoDB's, or a page.                                                  *)
Outcome(c) ==
  IF c # NoCursor /\ ~Decodes(listing, "this", c) THEN InvalidCursor(listing)
  ELSE IF ~HasIndex(listing) \/ (c # NoCursor /\ ~StartKeyFits(listing, c.key))
  THEN StorageError(listing)
  ELSE "page"

\* A query that goes on from the key of the page's first item.
_query_products_from_first ==
  LET page == Page(cursor) IN
  /\ paging = "yes"
  /\ IF Outcome(cursor) # "page" THEN Ends(Outcome(cursor), listing, "this")
     ELSE /\ seen' = [i \in Items |-> IF i \in page THEN seen[i] + 1 ELSE seen[i]]
          /\ IF Cardinality(page) = limit
             THEN /\ cursor' = Encode(listing, "this",
                       Key(listing, "this", First(page), Image(First(page)).at, TRUE))
                  /\ UNCHANGED paging
             ELSE cursor' = NoCursor /\ paging' = "done"
          /\ UNCHANGED <<record, shown, steady, answer, writes, served>>

(* The client asks for the next page with the cursor of the last one; a    *)
(* page that is full comes with a key to go on from.                       *)
_query_products ==
  LET page == Page(cursor) IN
  /\ paging = "yes"
  /\ IF Outcome(cursor) # "page" THEN Ends(Outcome(cursor), listing, "this")
     ELSE /\ seen' = [i \in Items |-> IF i \in page THEN seen[i] + 1 ELSE seen[i]]
          /\ IF Cardinality(page) = limit
             THEN /\ cursor' = Encode(listing, "this",
                       Key(listing, "this", Last(page), Image(Last(page)).at, TRUE))
                  /\ UNCHANGED paging
             ELSE cursor' = NoCursor /\ paging' = "done"
          /\ UNCHANGED <<record, shown, steady, answer, writes, served>>

(* A cursor that another listing, or this listing for another argument,    *)
(* has issued.                                                             *)
PresentForeignCursor ==
  /\ paging = "yes"
  /\ \E l \in AccessPatterns : \E argument \in Arguments(l) :
       /\ <<l, argument>> # <<listing, "this">>
       /\ Ends(Outcome(Encode(l, argument, Key(l, argument, 1, 1, TRUE))), l, argument)

Writes(i, image) ==
  /\ paging = "yes" /\ writes < MaxWrites
  /\ writes' = writes + 1
  /\ record' = [record EXCEPT ![i] = image]
  /\ UNCHANGED <<shown, cursor, seen, steady, paging, answer, served>>

\* Decisions are numbered in the order in which they are made.
Create(i) ==
  /\ record[i] = Absent
  /\ listing = list_decisions => \A j \in Items : j > i => record[j] = Absent
  /\ \E place \in Places(listing) \ {"absent"} : Writes(i, [in |-> place, at |-> i])
Move(i) ==
  /\ "move" \in listing.changes /\ record[i].in \in {"here", "elsewhere"}
  /\ Writes(i, [record[i] EXCEPT !.in = IF @ = "here" THEN "elsewhere" ELSE "here"])
Rename(i) ==
  /\ "rename" \in listing.changes /\ record[i].in = "here"
  /\ \E at \in Items \ {record[i].at} : Writes(i, [record[i] EXCEPT !.at = at])
Delete(i) ==
  /\ "delete" \in listing.changes /\ record[i].in \in {"here", "elsewhere"}
  /\ Writes(i, [in |-> "deleted", at |-> 0])
(* The index catches up with the table.                                    *)
Replicate(i) ==
  /\ paging = "yes" /\ ~ConsistentRead(listing) /\ shown[i] # record[i]
  /\ shown' = [shown EXCEPT ![i] = record[i]]
  /\ steady' = steady \ {i}
  /\ UNCHANGED <<record, cursor, seen, paging, answer, writes, served>>

ListingStep ==
  \/ _query_products
  \/ PresentForeignCursor
  \/ \E i \in Items : Create(i) \/ Move(i) \/ Rename(i) \/ Delete(i) \/ Replicate(i)

Init == InitTables /\ InitSchemas /\ InitListings
Next == \/ ProvisioningStep /\ UNCHANGED <<seeding, paged>>
        \/ SeedingStep /\ UNCHANGED paged
        \/ Serve
        \/ ListingStep
Spec == Init /\ [][Next]_vars

-----------------------------------------------------------------------------
(***************************************************************************)
(* A client that pages to the end has been given every item that stayed in *)
(* the listing exactly once, while others came, moved and went; and no     *)
(* item twice, unless its name, which orders the listing, was changed.     *)
(***************************************************************************)
SteadyListedOnce ==
  /\ paging = "done" => \A i \in steady : seen[i] = 1
  /\ \A i \in Items : seen[i] > 1 => "rename" \in listing.changes /\ i \notin steady

(***************************************************************************)
(* A cursor of another listing or of another argument is never followed:   *)
(* the request is answered with 400, except between two statuses of the    *)
(* product listing, whose cursor names neither and which DynamoDB refuses. *)
(***************************************************************************)
CursorsStayInTheirListing ==
  paging = "refused" /\ <<answer.from, answer.argument>> # <<listing, "this">> =>
    /\ answer.error # "page"
    /\ \/ Answer(answer.error) = 400
       \/ listing = list_by_status /\ answer.from = listing /\ Answer(answer.error) = 503

(***************************************************************************)
(* After the script has returned, every listing finds its index, and the   *)
(* cursor a listing has issued is followed by it: the keys it expects are  *)
(* those of the table and its index.  Excepted are a table that was there  *)
(* before, with the indexes of its time, and the listing of the scores.    *)
(***************************************************************************)
ListingsFindTheirIndexes ==
  paging = "refused" /\ <<answer.from, answer.argument>> = <<listing, "this">>
    => listing.table \in older \/ listing = scores_by_product

(***************************************************************************)
(* docs/api/product-intelligence.md: the history of scores is read page by *)
(* page with the cursor of the page before.                                *)
(***************************************************************************)
OwnCursorIsFollowed ==
  paging = "refused" /\ <<answer.from, answer.argument>> = <<listing, "this">>
    => answer.error # InvalidCursor(listing)
=============================================================================
