------------------------------ MODULE Products ------------------------------
(***************************************************************************)
(* ProductService over DynamoDBProductRepository: one product record that  *)
(* several requests create, PATCH, publish and delete.  A request reads    *)
(* the record, builds the whole new record from what it read and writes it *)
(* under a condition on the version its caller named; every read and every *)
(* write is a step of its own.                                             *)
(***************************************************************************)
EXTENDS Integers

CONSTANTS Client,         \* requests that may be served at the same time
          ProductChange,  \* the PATCH bodies: functions from some EditableFields to values
          Text,           \* names, descriptions and messages
          MaxVersion,     \* bound: the highest version a record reaches
          Unborn, Gone    \* a record never written, a record deleted

VARIABLES product,  \* the item of the products table
          client    \* what each request has done and read so far

ProductCategory == {"UNCLASSIFIED", "CENTRIFUGAL_PUMP", "INDUCTION_MOTOR"}
ProductStatus == {"DRAFT", "PROCESSING", "REVIEW_REQUIRED", "READY_TO_PUBLISH", "FAILED"}

\* The fields of a product that the requests read or write; name: every descriptive text.
EditableFields == [name |-> Text, category |-> ProductCategory, status |-> ProductStatus]
ProductRecord ==
  [name: Text, category: ProductCategory, status: ProductStatus, version: 1..MaxVersion,
   categoryStatusKey: ProductCategory \X ProductStatus]

\* A PATCH body gives values to some of the fields a caller may edit.
Edits(change, fields) ==
  /\ DOMAIN change # {} /\ DOMAIN change \subseteq DOMAIN fields
  /\ \A f \in DOMAIN change: change[f] \in fields[f]

ASSUME ProductsAssumption ==
  /\ MaxVersion \in Nat \ {0} /\ "new" \in Text
  /\ Unborn # Gone /\ Unborn \notin ProductRecord /\ Gone \notin ProductRecord
  /\ \A change \in ProductChange: Edits(change, EditableFields)

Stored(r) == r \notin {Unborn, Gone}

\* A request that waits for a call: nothing read, no record named.
Idle == [pc |-> "idle", source |-> Unborn, read |-> Unborn, version |-> 0, change |-> <<>>]
At(c, pc) == client[c].pc = pc
Finish(c) == client' = [client EXCEPT ![c] = Idle]

\* replace(current, **changes): the fields of the request over those that were read.
Replace(current, changes) ==
  [f \in DOMAIN current |-> IF f \in DOMAIN changes THEN changes[f] ELSE current[f]]

categoryStatusKey(p) == <<p.category, p.status>>

\* attribute_exists(#productId) AND #version = :expectedVersion.
VersionIs(record, expected) == Stored(record) /\ record.version = expected

(* A caller names a version the store has given out, never one of the future. *)
KnownVersion(record, v) == v \in 1..record.version

get_by_id_not_consistent(record) ==  \* a replica that has not seen a field change
  IF Stored(record) /\ record.version > 1
  THEN [record EXCEPT !.status = "DRAFT", !.version = @ - 1] ELSE record
get_by_id(record) == record

-----------------------------------------------------------------------------
create_product(c) ==
  /\ At(c, "idle") /\ product = Unborn
  /\ product' = [name |-> "new", category |-> "UNCLASSIFIED", status |-> "DRAFT", version |-> 1,
                 categoryStatusKey |-> <<"UNCLASSIFIED", "DRAFT">>]
  /\ UNCHANGED client

\* update_product reads the product; the write comes later.
update_product(c, change, v) ==
  /\ At(c, "idle") /\ Stored(get_by_id(product)) /\ KnownVersion(product, v)
  /\ client' = [client EXCEPT ![c] =
       [Idle EXCEPT !.pc = "patch", !.read = get_by_id(product), !.version = v, !.change = change]]
  /\ UNCHANGED product

\* DynamoDBProductRepository.update writes every field of the candidate.  At MaxVersion every
\* conditional write fails, as any call may.
update(c) ==
  /\ At(c, "patch") /\ Finish(c)
  /\ IF VersionIs(product, client[c].version) /\ client[c].version < MaxVersion
     THEN LET candidate == Replace(client[c].read, client[c].change) IN
          product' = [candidate EXCEPT !.version = client[c].version + 1,
                                       !.categoryStatusKey = categoryStatusKey(candidate)]
     ELSE UNCHANGED product

\* apply of the readiness service has judged a product of this version in review.
judge_readiness(c) ==
  /\ At(c, "idle") /\ Stored(product) /\ product.status = "REVIEW_REQUIRED"
  /\ client' = [client EXCEPT ![c] = [Idle EXCEPT !.pc = "ready_read", !.version = product.version,
                                                  !.change = [status |-> product.status]]]
  /\ UNCHANGED product

mark_ready_read(c) ==
  /\ At(c, "ready_read")
  /\ IF Stored(get_by_id(product))
     THEN client' = [client EXCEPT ![c].pc = "ready_write", ![c].read = get_by_id(product)]
     ELSE Finish(c)
  /\ UNCHANGED product

MayMarkReady_status_only(c) ==
  Stored(product) /\ product.status = client[c].change.status
MayMarkReady(c) ==
  VersionIs(product, client[c].version) /\ product.status = client[c].change.status

\* The index key is built from the category that was read, the rest stays as stored.
mark_ready_to_publish(c) ==
  /\ At(c, "ready_write") /\ Finish(c)
  /\ IF MayMarkReady(c) /\ client[c].version < MaxVersion
     THEN product' = [product EXCEPT
            !.status = "READY_TO_PUBLISH", !.version = client[c].version + 1,
            !.categoryStatusKey = <<client[c].read.category, "READY_TO_PUBLISH">>]
     ELSE UNCHANGED product

delete_product(c, v) ==
  /\ At(c, "idle") /\ Stored(product) /\ KnownVersion(product, v)
  /\ client' = [client EXCEPT ![c] = [Idle EXCEPT !.pc = "product_delete", !.version = v]]
  /\ UNCHANGED product

delete(c) ==
  /\ At(c, "product_delete") /\ Finish(c)
  /\ product' = IF VersionIs(product, client[c].version) THEN Gone ELSE product

ProductNext == \E c \in Client:
  \/ create_product(c)
  \/ \E change \in ProductChange, v \in 1..MaxVersion: update_product(c, change, v)
  \/ update(c)
  \/ judge_readiness(c) \/ mark_ready_read(c) \/ mark_ready_to_publish(c)
  \/ \E v \in 1..MaxVersion: delete_product(c, v)
  \/ delete(c)

-----------------------------------------------------------------------------
(* Fields that the steps of one request may not touch keep the value the
   record had just before: a request never writes back what it read before
   somebody else changed it. *)
BuildsOn(old, new, changes, own) ==
  \A f \in DOMAIN old \ own: f \notin DOMAIN changes => new[f] = old[f]

(* The partition key of CategoryStatusCreatedAtIndex is a second copy of
   the category and of the status, which update computes from the candidate
   and mark_ready_to_publish from a product it read before its conditional
   write (dynamodb_products.py:204): they never part, else a product is
   found under a category or a status that it does not have. *)
IndexKeyMatchesRecord ==
  Stored(product) => product.categoryStatusKey = categoryStatusKey(product)

=============================================================================
