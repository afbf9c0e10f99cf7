------------------------- MODULE ProductSourcesProofs -------------------------
(***************************************************************************)
(* Proofs about ProductSources, for any number of requests, sources,       *)
(* versions and faults.  Every write is computed from an earlier read; the *)
(* invariant says what a request still knows of the record it has read,    *)
(* and which files the source it works on has.                             *)
(***************************************************************************)
EXTENDS ProductSources, TLAPS

(* ----------------------------- the invariant ---------------------------- *)

\* Steps of a request that follow a read of the product.
OnProduct == {"patch", "ready_read", "ready_write", "product_delete"}

\* An upload up to its metadata, and what it leaves to clean up: the source is
\* its own, nobody else has seen the id.
Uploading == {"reserve_object", "reserve_sidecar", "replace_object", "replace_sidecar", "create"}
Cleaning == {"cleanup_object", "cleanup_sidecar"}
Owns(c, s) == client[c].pc \in Uploading \cup Cleaning /\ S(c) = s

\* Steps on a source that is or was stored.
Accepted == {"delete_object", "delete_sidecar", "delete_metadata"}
OnSource == {"update_read", "update_write", "delete_read"} \cup Accepted

Files(object, sidecar) == [part \in Part |-> IF part = "object" THEN object ELSE sidecar]

\* The files of an upload between two of its steps.
FilesAt(pc) ==
  CASE pc = "reserve_sidecar" -> Files("reserved", "absent")
    [] pc = "replace_object" -> Files("reserved", "reserved")
    [] pc = "replace_sidecar" -> Files("data", "reserved")
    [] pc = "create" -> Files("data", "data")
    [] OTHER -> Files("absent", "absent")

\* The record is no older than the version the caller named.
NotBefore(record, version) ==
  record # Unborn /\ (Stored(record) => version <= record.version)

\* As long as the version named is the stored one, what was read is stored.
UpToDate(record, version, read) == VersionIs(record, version) => read = record

ProductViewOK(c) ==
  client[c].pc \in OnProduct =>
    /\ S(c) = Unborn /\ NotBefore(product, client[c].version) /\ client[c].version >= 1
    /\ At(c, "patch") => client[c].change \in ProductChange
    /\ client[c].pc \in {"patch", "ready_write"} =>
         client[c].read \in ProductRecord /\ UpToDate(product, client[c].version, client[c].read)

UploadOK(c) ==
  client[c].pc \in Uploading =>
    /\ S(c) \in drawn /\ table[S(c)] = Unborn
    /\ client[c].read \in SourceRecord
    /\ ~ At(c, "create") => FileBacked(client[c].read)
    /\ disk[S(c)] = IF FileBacked(client[c].read) THEN FilesAt(client[c].pc) ELSE NoFiles

CleanupOK(c) ==
  client[c].pc \in Cleaning => S(c) \in hit /\ (table[S(c)] = Unborn \/ S(c) \in condemned)

SourceViewOK(c) ==
  client[c].pc \in OnSource =>
    /\ S(c) \in drawn /\ NotBefore(table[S(c)], client[c].version) /\ client[c].version >= 1
    /\ client[c].pc \in {"update_read", "update_write"} => client[c].change \in SourceChange
    /\ At(c, "update_write") =>
         /\ client[c].read \in SourceRecord
         /\ UpToDate(table[S(c)], client[c].version, client[c].read)
         /\ "status" \in DOMAIN client[c].change =>
              is_status_transition_allowed(client[c].read.status, client[c].change.status)
    /\ client[c].pc \in Accepted => S(c) \in condemned
    /\ At(c, "delete_sidecar") => disk[S(c)]["object"] = "absent"
    /\ At(c, "delete_metadata") => disk[S(c)] = NoFiles

ClientOK(c) ==
  /\ S(c) \in drawn \cup {Unborn}
  /\ ProductViewOK(c) /\ UploadOK(c) /\ CleanupOK(c) /\ SourceViewOK(c)

\* No two requests own one source.
OneOwner ==
  \A c, d \in Client: client[c].pc \in Uploading \cup Cleaning /\ Owns(d, S(c)) => c = d

SourceOK(s) ==
  /\ s \notin drawn => table[s] = Unborn /\ disk[s] = NoFiles
  /\ Stored(table[s]) /\ FileBacked(table[s]) /\ s \notin condemned => Complete(s)
  /\ Stored(table[s]) /\ ~ FileBacked(table[s]) => disk[s] = NoFiles
  /\ ~ Stored(table[s]) /\ s \notin hit =>
       disk[s] = NoFiles \/ \E c \in Client: client[c].pc \in Uploading /\ S(c) = s

IInv ==
  /\ TypeOK
  /\ IndexKeyMatchesRecord
  /\ \A c \in Client: ClientOK(c)
  /\ OneOwner
  /\ \A s \in Source: SourceOK(s)

(* --------------------------- one step of one request -------------------- *)

\* What a write may make of a record: a new one, a later version, nothing.
RecordMoves(old, new) ==
  \/ new = old
  \/ old = Unborn /\ Stored(new)
  \/ Stored(old) /\ Stored(new) /\ new.version > old.version
  \/ Stored(old) /\ new = Gone

\* What no step of c may do to the other requests: take away a record they have
\* named, or touch the files of a source that nobody but its owner knows.
SafeStep(c) ==
  /\ \A d \in Client \ {c}: client'[d] = client[d]
  /\ RecordMoves(product, product')
  /\ drawn \subseteq drawn' /\ condemned \subseteq condemned' /\ hit \subseteq hit'
  /\ \A s \in Source:
       /\ RecordMoves(table[s], table'[s])
       /\ table[s] = Unborn => Owns(c, s) \/ (table'[s] = table[s] /\ disk'[s] = disk[s])
       /\ table[s] # Unborn => \A part \in Part: disk'[s][part] \in {disk[s][part], "absent"}

\* c owns after its step only what it owned before or has drawn in it.
OwnsNoMore(c) ==
  \A s \in Source: Owns(c, s)' => Owns(c, s) \/ s \notin drawn

\* Gone is for good, and a version that was overwritten never comes back.
LEMMA MovesKeepViews ==
  ASSUME NEW old \in ProductRecord \cup SourceRecord \cup {Unborn, Gone},
         NEW new \in ProductRecord \cup SourceRecord \cup {Unborn, Gone},
         RecordMoves(old, new), NEW version \in Nat, NotBefore(old, version), NEW read
  PROVE  /\ NotBefore(new, version)
         /\ UpToDate(old, version, read) => UpToDate(new, version, read)
<1>1. \A r \in ProductRecord \cup SourceRecord: r.version \in Nat
  BY ProductsAssumption DEF ProductRecord, SourceRecord
<1>2. CASE new = old
  BY <1>2
<1>3. CASE old = Unborn
  BY <1>3 DEF NotBefore
<1>4. CASE Stored(old) /\ Stored(new) /\ new.version > old.version
  BY <1>1, <1>4 DEF NotBefore, UpToDate, VersionIs, Stored
<1>5. CASE Stored(old) /\ new = Gone
  BY <1>5, ProductsAssumption DEF NotBefore, UpToDate, VersionIs, Stored
<1> QED
  BY <1>2, <1>3, <1>4, <1>5 DEF RecordMoves

\* A request that rests keeps what it knows.
LEMMA OthersKept ==
  ASSUME IInv, NEW c \in Client, SafeStep(c), TypeOK', NEW d \in Client \ {c}
  PROVE  ClientOK(d)'
<1> DEFINE r == client[d]
           s == client[d].source
<1>0. r \in Request /\ client'[d] = r /\ ClientOK(d) /\ r.version \in Nat
  BY DEF IInv, TypeOK, SafeStep, Request
<1>1. s \in drawn' \cup {Unborn}
  BY <1>0 DEF ClientOK, SafeStep, S
<1>2. ProductViewOK(d)'
  <2> SUFFICES ASSUME r.pc \in OnProduct PROVE ProductViewOK(d)'
    BY <1>0 DEF ProductViewOK
  <2>1. NotBefore(product', r.version)
        /\ (UpToDate(product, r.version, r.read) => UpToDate(product', r.version, r.read))
    BY <1>0, MovesKeepViews DEF ClientOK, ProductViewOK, SafeStep, IInv, TypeOK
  <2> QED
    BY <1>0, <2>1 DEF ClientOK, ProductViewOK, S, At
<1>3. UploadOK(d)'
  <2> SUFFICES ASSUME r.pc \in Uploading PROVE UploadOK(d)'
    BY <1>0 DEF UploadOK
  <2>1. s \in drawn /\ s \in Source /\ table[s] = Unborn
    BY <1>0 DEF ClientOK, UploadOK, S, IInv, TypeOK
  <2>2. ~ Owns(c, s)
    BY <1>0, <2>1 DEF IInv, OneOwner, Owns, S
  <2>3. table'[s] = table[s] /\ disk'[s] = disk[s] /\ s \in drawn'
    BY <2>1, <2>2 DEF SafeStep
  <2> QED
    BY <1>0, <2>3 DEF ClientOK, UploadOK, S, At
<1>4. CleanupOK(d)'
  <2> SUFFICES ASSUME r.pc \in Cleaning PROVE CleanupOK(d)'
    BY <1>0 DEF CleanupOK
  <2>1. s \in hit /\ s \in Source /\ (table[s] = Unborn \/ s \in condemned)
    BY <1>0 DEF ClientOK, CleanupOK, S, IInv, TypeOK
  <2>2. ~ Owns(c, s)
    BY <1>0, <2>1 DEF IInv, OneOwner, Owns, S
  <2>3. s \in hit' /\ (table'[s] = Unborn \/ s \in condemned')
    BY <2>1, <2>2 DEF SafeStep
  <2> QED
    BY <1>0, <2>3 DEF CleanupOK, S
<1>5. SourceViewOK(d)'
  <2> SUFFICES ASSUME r.pc \in OnSource PROVE SourceViewOK(d)'
    BY <1>0 DEF SourceViewOK
  <2>1. s \in drawn /\ s \in Source /\ NotBefore(table[s], r.version) /\ s \in drawn'
    BY <1>0 DEF ClientOK, SourceViewOK, S, IInv, TypeOK, SafeStep
  <2>2. /\ NotBefore(table'[s], r.version)
        /\ UpToDate(table[s], r.version, r.read) => UpToDate(table'[s], r.version, r.read)
    <3>1. RecordMoves(table[s], table'[s])
      BY <2>1 DEF SafeStep
    <3>2. /\ table[s] \in SourceRecord \cup {Unborn, Gone}
          /\ table'[s] \in SourceRecord \cup {Unborn, Gone}
      BY <2>1 DEF IInv, TypeOK
    <3> QED
      BY <1>0, <2>1, <3>1, <3>2, MovesKeepViews
  <2>3. \A part \in Part: disk'[s][part] \in {disk[s][part], "absent"}
    BY <2>1 DEF SafeStep, NotBefore
  <2>4. disk[s]["object"] = "absent" => disk'[s]["object"] = "absent"
    BY <2>3 DEF Part
  <2>5. disk[s] = NoFiles => disk'[s] = NoFiles
    <3>1. disk'[s] \in [Part -> PartState]
      BY <2>1 DEF TypeOK
    <3> QED
      BY <2>3, <3>1 DEF NoFiles
  <2> QED
    BY <1>0, <2>1, <2>2, <2>4, <2>5 DEF ClientOK, SourceViewOK, S, At, SafeStep
<1> QED
  BY <1>0, <1>1, <1>2, <1>3, <1>4, <1>5 DEF ClientOK, S

\* What a step does not touch stays in order.
LEMMA SourceKept ==
  ASSUME IInv, NEW c \in Client, SafeStep(c), NEW s \in Source,
         table'[s] = table[s], disk'[s] = disk[s], s \in drawn' => s \in drawn,
         ~ (client[c].pc \in Uploading /\ S(c) = s)
  PROVE  SourceOK(s)'
<1>1. SourceOK(s)
  BY DEF IInv
<1>2. ASSUME NEW d \in Client, client[d].pc \in Uploading /\ S(d) = s
      PROVE  client'[d].pc \in Uploading /\ S(d)' = s
  BY <1>2 DEF SafeStep, S
<1> QED
  BY <1>1, <1>2 DEF SourceOK, SafeStep, Complete

\* The invariant after a step of c, if the step is safe and leaves c and the
\* records in order.
LEMMA StepKept ==
  ASSUME IInv, NEW c \in Client, SafeStep(c), OwnsNoMore(c),
         TypeOK', IndexKeyMatchesRecord', ClientOK(c)', \A s \in Source: SourceOK(s)'
  PROVE  IInv'
<1>1. \A d \in Client: ClientOK(d)'
  BY OthersKept
<1>2. OneOwner'
  <2> SUFFICES ASSUME NEW a \in Client, NEW b \in Client,
                      client'[a].pc \in Uploading \cup Cleaning, Owns(b, S(a))'
               PROVE  a = b
    BY DEF OneOwner
  <2>0. PICK s: s = client'[a].source
    OBVIOUS
  <2>1. Owns(a, s)' /\ Owns(b, s)'
    BY <2>0 DEF Owns, S
  <2>2. \A d \in Client \ {c}: Owns(d, s)' => Owns(d, s)
    BY DEF SafeStep, Owns, S
  <2>3. \A d \in Client: Owns(d, s) => s \in Source /\ s \in drawn
    <3> SUFFICES ASSUME NEW d \in Client, Owns(d, s) PROVE s \in Source /\ s \in drawn
      OBVIOUS
    <3>1. ClientOK(d) /\ hit \subseteq drawn /\ drawn \subseteq Source
      BY DEF IInv, TypeOK
    <3> QED
      BY <3>1 DEF ClientOK, UploadOK, CleanupOK, Owns
  <2>4. \A d, e \in Client: Owns(d, s) /\ Owns(e, s) => d = e
    BY DEF IInv, OneOwner, Owns, S
  <2>5. Owns(c, s)' /\ s \in Source => Owns(c, s) \/ s \notin drawn
    BY DEF OwnsNoMore
  <2> QED
    BY <2>1, <2>2, <2>3, <2>4, <2>5
<1> QED
  BY <1>1, <1>2 DEF IInv

(* ------------------------------- the product ---------------------------- *)

\* A finished request leaves nothing behind.
LEMMA IdleRests == Idle \in Request /\ Idle.pc = "idle" /\ Idle.source = Unborn
BY ProductsAssumption DEF Idle, Request, Step

\* A PATCH of a product gives a product, with the fields it does not name as
\* they were.
LEMMA ProductReplaced ==
  ASSUME NEW current \in ProductRecord, NEW change \in ProductChange
  PROVE  /\ Replace(current, change) \in ProductRecord
         /\ \A f \in DOMAIN current \ DOMAIN change: Replace(current, change)[f] = current[f]
<1> DEFINE new == Replace(current, change)
<1>1. DOMAIN current = {"name", "category", "status", "version", "categoryStatusKey"}
  BY DEF ProductRecord
<1>2. /\ DOMAIN change \subseteq {"name", "category", "status"}
      /\ \A f \in DOMAIN change: change[f] \in EditableFields[f]
  BY ProductsAssumption DEF Edits, EditableFields
<1>3. new = [name |-> new.name, category |-> new.category, status |-> new.status,
             version |-> new.version, categoryStatusKey |-> new.categoryStatusKey]
  BY <1>1 DEF Replace
<1>4. new.name \in Text /\ new.category \in ProductCategory /\ new.status \in ProductStatus
  BY <1>1, <1>2 DEF Replace, EditableFields, ProductRecord
<1>5. new.version = current.version /\ new.categoryStatusKey = current.categoryStatusKey
  BY <1>1, <1>2 DEF Replace
<1>6. new \in ProductRecord
  <2> HIDE DEF new
  <2> QED
    BY <1>3, <1>4, <1>5 DEF ProductRecord
<1> QED
  BY <1>6 DEF Replace

\* What a step on the product has to show.
LEMMA ProductStepKept ==
  ASSUME IInv, NEW c \in Client, UNCHANGED <<table, disk, drawn, history, faults>>,
         NEW new \in Request, client' = [client EXCEPT ![c] = new],
         client[c].pc \in OnProduct \cup {"idle"}, new.pc \in OnProduct \cup {"idle"},
         new.source \in {Unborn, S(c)},
         product' \in ProductRecord \cup {Unborn, Gone}, RecordMoves(product, product'),
         IndexKeyMatchesRecord', ProductViewOK(c)'
  PROVE  IInv'
<1>1. TypeOK'
  BY DEF IInv, TypeOK, history
<1>2. SafeStep(c)
  BY DEF SafeStep, history, RecordMoves, IInv, TypeOK
<1>3. client'[c] = new
  BY DEF IInv, TypeOK
<1>4. OwnsNoMore(c)
  BY <1>3 DEF OwnsNoMore, Owns, OnProduct, Uploading, Cleaning
<1>5. ClientOK(c)'
  <2>1. new.pc \notin Uploading \cup Cleaning \cup OnSource
    BY DEF OnProduct, Uploading, Cleaning, OnSource, Accepted
  <2>2. new.source \in drawn \cup {Unborn}
    BY DEF IInv, ClientOK
  <2> QED
    BY <1>3, <2>1, <2>2 DEF ClientOK, S, UploadOK, CleanupOK, SourceViewOK, history
<1>6. \A s \in Source: SourceOK(s)'
  <2>1. client[c].pc \notin Uploading
    BY DEF OnProduct, Uploading
  <2> QED
    BY <1>2, <2>1, SourceKept DEF history
<1> QED
  BY <1>1, <1>2, <1>4, <1>5, <1>6, StepKept

\* A finished request knows nothing.
LEMMA ProductStepEnds ==
  ASSUME IInv, NEW c \in Client, UNCHANGED <<table, disk, drawn, history, faults>>,
         Finish(c), client[c].pc \in OnProduct \cup {"idle"},
         product' \in ProductRecord \cup {Unborn, Gone}, RecordMoves(product, product'),
         IndexKeyMatchesRecord'
  PROVE  IInv'
<1>1. client'[c] = Idle
  BY DEF Finish, IInv, TypeOK
<1>2. ProductViewOK(c)'
  BY <1>1, IdleRests DEF ProductViewOK, OnProduct
<1> QED
  BY <1>2, IdleRests, ProductStepKept DEF Finish

\* A request that has named a version of the stored product.
LEMMA ProductStepBegins ==
  ASSUME IInv, NEW c \in Client, UNCHANGED <<table, disk, drawn, history, faults, product>>,
         At(c, "idle"), NEW new \in Request, client' = [client EXCEPT ![c] = new],
         new.pc \in OnProduct, new.source = Unborn,
         NotBefore(product, new.version), new.version >= 1,
         new.pc = "patch" => new.change \in ProductChange /\ new.read = product,
         new.pc # "ready_write", Stored(product)
  PROVE  IInv'
<1>1. client'[c] = new
  BY DEF IInv, TypeOK
<1>2. product \in ProductRecord
  BY DEF IInv, TypeOK, Stored
<1>3. ProductViewOK(c)'
  BY <1>1, <1>2 DEF ProductViewOK, S, At, UpToDate
<1>4. RecordMoves(product, product') /\ IndexKeyMatchesRecord'
  BY DEF RecordMoves, IInv, IndexKeyMatchesRecord
<1> QED
  BY <1>2, <1>3, <1>4, ProductStepKept DEF At

\* A product is created once, with the key of its category and status.
LEMMA CreateProductStep ==
  ASSUME IInv, NEW c \in Client, create_product(c),
         UNCHANGED <<table, disk, drawn, history, faults>>
  PROVE  IInv'
<1>1. product' \in ProductRecord
  <2>1. 1 \in 1..MaxVersion
    BY ProductsAssumption
  <2>2. "UNCLASSIFIED" \in ProductCategory /\ "DRAFT" \in ProductStatus
    BY DEF ProductCategory, ProductStatus
  <2>3. <<"UNCLASSIFIED", "DRAFT">> \in ProductCategory \X ProductStatus
    BY <2>2
  <2>4. product' = [name |-> "new", category |-> "UNCLASSIFIED", status |-> "DRAFT", version |-> 1,
                    categoryStatusKey |-> <<"UNCLASSIFIED", "DRAFT">>]
    BY DEF create_product
  <2>5. "new" \in Text
    BY ProductsAssumption
  <2> QED
    BY <2>1, <2>2, <2>3, <2>4, <2>5, Zenon DEF ProductRecord
<1>2. RecordMoves(product, product') /\ IndexKeyMatchesRecord'
  <2>1. Stored(product')
    BY <1>1, ProductsAssumption DEF Stored
  <2> QED
    BY <2>1 DEF create_product, RecordMoves, IndexKeyMatchesRecord, categoryStatusKey
<1>3. client[c] \in Request /\ client' = [client EXCEPT ![c] = client[c]]
  BY DEF create_product, IInv, TypeOK
<1>4. ProductViewOK(c)'
  BY DEF create_product, ProductViewOK, At, OnProduct
<1> QED
  BY <1>1, <1>2, <1>3, <1>4, ProductStepKept DEF create_product, At, S

\* A PATCH reads the product whose version it names.
LEMMA UpdateProductStep ==
  ASSUME IInv, NEW c \in Client, NEW change \in ProductChange, NEW v \in 1..MaxVersion,
         update_product(c, change, v), UNCHANGED <<table, disk, drawn, history, faults>>
  PROVE  IInv'
<1> DEFINE new == [Idle EXCEPT !.pc = "patch", !.read = product, !.version = v, !.change = change]
<1>1. product \in ProductRecord /\ Stored(product) /\ v <= product.version
  BY DEF update_product, IInv, TypeOK, Stored, get_by_id, KnownVersion
<1>2. new \in Request
  <2>1. "patch" \in Step /\ v \in 0..MaxVersion
    BY ProductsAssumption DEF Step
  <2> QED
    BY <1>1, <2>1, IdleRests DEF Request
<1>3. new.pc = "patch" /\ new.source = Unborn /\ new.version = v /\ new.change = change
      /\ new.read = product
  BY DEF Idle
<1>4. client' = [client EXCEPT ![c] = new]
  BY DEF update_product, get_by_id
<1>5. UNCHANGED product /\ At(c, "idle")
  BY DEF update_product
<1>6. NotBefore(product, v) /\ v >= 1
  BY <1>1, ProductsAssumption DEF NotBefore, Stored
<1> HIDE DEF new
<1> QED
  BY <1>1, <1>2, <1>3, <1>4, <1>5, <1>6, ProductStepBegins DEF OnProduct

\* A write that its condition refuses ends a request and nothing else.
LEMMA NothingWritten ==
  ASSUME IInv, NEW c \in Client, UNCHANGED <<product, table, disk, drawn, history, faults>>,
         Finish(c), client[c].pc \in OnProduct
  PROVE  IInv'
<1>1. /\ product' \in ProductRecord \cup {Unborn, Gone}
      /\ RecordMoves(product, product') /\ IndexKeyMatchesRecord'
  BY DEF IInv, TypeOK, RecordMoves, IndexKeyMatchesRecord
<1> QED
  BY <1>1, ProductStepEnds

\* The write of a PATCH: its candidate was built from what is stored.
LEMMA PatchWrites ==
  ASSUME IInv, NEW c \in Client, update(c), product' # product
  PROVE  /\ Stored(product) /\ product \in ProductRecord /\ product' \in ProductRecord
         /\ Stored(product') /\ product'.version = product.version + 1
         /\ product'.categoryStatusKey = categoryStatusKey(product')
         /\ BuildsOn(product, product', client[c].change, {"version", "categoryStatusKey"})
<1> DEFINE r == client[c]
           candidate == Replace(r.read, r.change)
<1>1. VersionIs(product, r.version) /\ r.version < MaxVersion
  BY DEF update
<1>2. product \in ProductRecord /\ Stored(product) /\ product.version = r.version
  BY <1>1 DEF VersionIs, Stored, IInv, TypeOK
<1>3. r.pc = "patch" /\ r.read = product /\ r.change \in ProductChange
  BY <1>1 DEF update, At, IInv, ClientOK, ProductViewOK, OnProduct, UpToDate
<1>4. /\ candidate \in ProductRecord
      /\ \A f \in DOMAIN product \ DOMAIN r.change: candidate[f] = product[f]
  BY <1>2, <1>3, ProductReplaced
<1>5. product' = [candidate EXCEPT !.version = r.version + 1,
                                   !.categoryStatusKey = categoryStatusKey(candidate)]
  BY <1>1 DEF update
<1>6. r.version + 1 \in 1..MaxVersion
  BY <1>1, <1>2, ProductsAssumption DEF ProductRecord
<1>7. categoryStatusKey(candidate) \in ProductCategory \X ProductStatus
  BY <1>4 DEF categoryStatusKey, ProductRecord
<1> HIDE DEF candidate
<1>8. product' \in ProductRecord
  BY <1>4, <1>5, <1>6, <1>7 DEF ProductRecord
<1>9. /\ product'.version = product.version + 1
      /\ product'.categoryStatusKey = categoryStatusKey(product')
  BY <1>2, <1>4, <1>5 DEF ProductRecord, categoryStatusKey
<1>10. BuildsOn(product, product', r.change, {"version", "categoryStatusKey"})
  <2> SUFFICES ASSUME NEW f \in DOMAIN product \ {"version", "categoryStatusKey"},
                      f \notin DOMAIN r.change
               PROVE  product'[f] = product[f]
    BY DEF BuildsOn
  <2> QED
    BY <1>2, <1>4, <1>5 DEF ProductRecord
<1> QED
  BY <1>2, <1>8, <1>9, <1>10, ProductsAssumption DEF Stored

\* The write of a PATCH.
LEMMA PatchStep ==
  ASSUME IInv, NEW c \in Client, update(c), UNCHANGED <<table, disk, drawn, history, faults>>
  PROVE  IInv'
<1>1. Finish(c) /\ client[c].pc \in OnProduct
  BY DEF update, At, OnProduct
<1>2. CASE product' = product
  BY <1>1, <1>2, NothingWritten
<1>3. CASE product' # product
  <2>1. product.version \in Nat
    BY <1>3, PatchWrites, ProductsAssumption DEF ProductRecord
  <2>2. RecordMoves(product, product') /\ IndexKeyMatchesRecord'
    BY <1>3, <2>1, PatchWrites DEF RecordMoves, IndexKeyMatchesRecord
  <2>3. product' \in ProductRecord
    BY <1>3, PatchWrites
  <2> QED
    BY <1>1, <2>2, <2>3, ProductStepEnds
<1> QED
  BY <1>2, <1>3

\* A verdict names the version it was reached for.
LEMMA JudgeStep ==
  ASSUME IInv, NEW c \in Client, judge_readiness(c),
         UNCHANGED <<table, disk, drawn, history, faults>>
  PROVE  IInv'
<1> DEFINE new == [Idle EXCEPT !.pc = "ready_read", !.version = product.version,
                               !.change = [status |-> product.status]]
<1>1. /\ product \in ProductRecord /\ Stored(product)
      /\ product.version \in 1..MaxVersion /\ product.status \in ProductStatus
  BY DEF judge_readiness, IInv, TypeOK, Stored, ProductRecord
<1>2. new \in Request
  <2>1. "ready_read" \in Step /\ product.version \in 0..MaxVersion
    BY <1>1, ProductsAssumption DEF Step
  <2>2. [status |-> product.status] \in [status: ProductStatus]
    BY <1>1
  <2> QED
    BY <2>1, <2>2, IdleRests DEF Request
<1>3. new.pc = "ready_read" /\ new.source = Unborn /\ new.version = product.version
  BY DEF Idle
<1>4. client' = [client EXCEPT ![c] = new] /\ UNCHANGED product /\ At(c, "idle")
  BY DEF judge_readiness
<1>5. NotBefore(product, new.version) /\ new.version >= 1
  BY <1>1, <1>3 DEF NotBefore, Stored
<1> HIDE DEF new
<1> QED
  BY <1>1, <1>2, <1>3, <1>4, <1>5, ProductStepBegins DEF OnProduct

\* The read of the readiness is newer than its verdict, or the same.
LEMMA ReadyReadStep ==
  ASSUME IInv, NEW c \in Client, mark_ready_read(c),
         UNCHANGED <<table, disk, drawn, history, faults>>
  PROVE  IInv'
<1> DEFINE r == client[c]
           new == [r EXCEPT !.pc = "ready_write", !.read = product]
<1>1. r \in Request /\ r.pc = "ready_read" /\ r.pc \in OnProduct /\ ProductViewOK(c)
  BY DEF mark_ready_read, At, OnProduct, IInv, TypeOK, ClientOK
<1>2. CASE Finish(c)
  BY <1>1, <1>2, NothingWritten DEF mark_ready_read
<1>3. CASE Stored(product) /\ client' = [client EXCEPT ![c].pc = "ready_write", ![c].read = product]
  <2>1. product \in ProductRecord
    BY <1>3 DEF IInv, TypeOK, Stored
  <2>2. client' = [client EXCEPT ![c] = new]
    BY <1>3 DEF IInv, TypeOK
  <2>3. new \in Request /\ new.pc = "ready_write" /\ new.read = product
        /\ new.version = r.version /\ new.source = r.source
    BY <1>1, <2>1 DEF Request, Step
  <2> HIDE DEF new
  <2>4. client'[c] = new
    BY <2>2 DEF IInv, TypeOK
  <2>5. UNCHANGED product
    BY DEF mark_ready_read
  <2>6. ProductViewOK(c)'
    BY <1>1, <2>1, <2>3, <2>4, <2>5 DEF ProductViewOK, S, At, UpToDate, OnProduct
  <2>7. RecordMoves(product, product') /\ IndexKeyMatchesRecord'
    BY <2>5 DEF RecordMoves, IInv, IndexKeyMatchesRecord
  <2>8. new.pc \in OnProduct /\ new.source \in {Unborn, S(c)}
    BY <2>3 DEF OnProduct, S
  <2> QED
    BY <1>1, <2>1, <2>2, <2>3, <2>5, <2>6, <2>7, <2>8, ProductStepKept
<1> QED
  BY <1>2, <1>3 DEF mark_ready_read, get_by_id

\* The write of the readiness: only the status and the version change, and the
\* category in the index key is the stored one.
LEMMA ReadyWrites ==
  ASSUME IInv, NEW c \in Client, mark_ready_to_publish(c), product' # product
  PROVE  /\ Stored(product) /\ product \in ProductRecord /\ product' \in ProductRecord
         /\ Stored(product') /\ product'.version = product.version + 1
         /\ product'.categoryStatusKey = categoryStatusKey(product')
         /\ BuildsOn(product, product', <<>>, {"version", "status", "categoryStatusKey"})
<1> DEFINE r == client[c]
<1>1. VersionIs(product, r.version) /\ r.version < MaxVersion
  BY DEF mark_ready_to_publish, MayMarkReady
<1>2. product \in ProductRecord /\ Stored(product) /\ product.version = r.version
  BY <1>1 DEF VersionIs, Stored, IInv, TypeOK
<1>3. r.pc = "ready_write" /\ r.read = product
  BY <1>1 DEF mark_ready_to_publish, At, IInv, ClientOK, ProductViewOK, OnProduct, UpToDate
<1>4. product' = [product EXCEPT !.status = "READY_TO_PUBLISH", !.version = r.version + 1,
                                 !.categoryStatusKey = <<product.category, "READY_TO_PUBLISH">>]
  BY <1>1, <1>3 DEF mark_ready_to_publish
<1>5. r.version + 1 \in 1..MaxVersion
  BY <1>1, <1>2, ProductsAssumption DEF ProductRecord
<1>6. "READY_TO_PUBLISH" \in ProductStatus
      /\ <<product.category, "READY_TO_PUBLISH">> \in ProductCategory \X ProductStatus
  BY <1>2 DEF ProductStatus, ProductRecord
<1>7. product' \in ProductRecord
  BY <1>2, <1>4, <1>5, <1>6 DEF ProductRecord
<1>8. /\ product'.version = product.version + 1
      /\ product'.categoryStatusKey = categoryStatusKey(product')
  BY <1>2, <1>4 DEF ProductRecord, categoryStatusKey
<1>9. BuildsOn(product, product', <<>>, {"version", "status", "categoryStatusKey"})
  BY <1>2, <1>4 DEF ProductRecord, BuildsOn
<1> QED
  BY <1>2, <1>7, <1>8, <1>9, ProductsAssumption DEF Stored

\* The write of the readiness.
LEMMA ReadyStep ==
  ASSUME IInv, NEW c \in Client, mark_ready_to_publish(c),
         UNCHANGED <<table, disk, drawn, history, faults>>
  PROVE  IInv'
<1>1. Finish(c) /\ client[c].pc \in OnProduct
  BY DEF mark_ready_to_publish, At, OnProduct
<1>2. CASE product' = product
  BY <1>1, <1>2, NothingWritten
<1>3. CASE product' # product
  <2>1. product.version \in Nat
    BY <1>3, ReadyWrites, ProductsAssumption DEF ProductRecord
  <2>2. RecordMoves(product, product') /\ IndexKeyMatchesRecord'
    BY <1>3, <2>1, ReadyWrites DEF RecordMoves, IndexKeyMatchesRecord
  <2>3. product' \in ProductRecord
    BY <1>3, ReadyWrites
  <2> QED
    BY <1>1, <2>2, <2>3, ProductStepEnds
<1> QED
  BY <1>2, <1>3

\* A delete names a version of the stored product.
LEMMA DeleteProductStep ==
  ASSUME IInv, NEW c \in Client, NEW v \in 1..MaxVersion, delete_product(c, v),
         UNCHANGED <<table, disk, drawn, history, faults>>
  PROVE  IInv'
<1> DEFINE new == [Idle EXCEPT !.pc = "product_delete", !.version = v]
<1>1. Stored(product) /\ v <= product.version /\ v \in 0..MaxVersion /\ v >= 1
  BY ProductsAssumption DEF delete_product, KnownVersion, IInv, TypeOK, Stored, ProductRecord
<1>2. new \in Request
  BY <1>1, IdleRests DEF Request, Step
<1>3. new.pc = "product_delete" /\ new.source = Unborn /\ new.version = v
  BY DEF Idle
<1>4. client' = [client EXCEPT ![c] = new] /\ UNCHANGED product /\ At(c, "idle")
  BY DEF delete_product
<1>5. NotBefore(product, v)
  BY <1>1 DEF NotBefore, Stored
<1> HIDE DEF new
<1> QED
  BY <1>1, <1>2, <1>3, <1>4, <1>5, ProductStepBegins DEF OnProduct

\* A deleted product is gone, whoever still holds what was read of it.
LEMMA DeleteStep ==
  ASSUME IInv, NEW c \in Client, delete(c), UNCHANGED <<table, disk, drawn, history, faults>>
  PROVE  IInv'
<1>1. Finish(c) /\ client[c].pc \in OnProduct
  BY DEF delete, At, OnProduct
<1>2. CASE product' = product
  BY <1>1, <1>2, NothingWritten
<1>3. CASE product' = Gone /\ Stored(product)
  BY <1>1, <1>3, ProductStepEnds DEF RecordMoves, IndexKeyMatchesRecord, Stored
<1> QED
  BY <1>2, <1>3 DEF delete, VersionIs

\* The steps on the product, together.
LEMMA ProductSteps ==
  ASSUME IInv, ProductNext, UNCHANGED <<table, disk, drawn, history, faults>>
  PROVE  IInv'
BY CreateProductStep, UpdateProductStep, PatchStep, JudgeStep, ReadyReadStep, ReadyStep,
   DeleteProductStep, DeleteStep DEF ProductNext

(* ------------------------------- the sources ---------------------------- *)

\* A request that has ended is in order.
LEMMA EndedOK ==
  ASSUME IInv, NEW c \in Client, Finish(c)
  PROVE  client'[c] = Idle /\ ClientOK(c)'
<1>1. client'[c] = Idle
  BY DEF Finish, IInv, TypeOK
<1> QED
  BY <1>1, IdleRests DEF ClientOK, ProductViewOK, UploadOK, CleanupOK, SourceViewOK, S, OnProduct,
                         Uploading, Cleaning, OnSource, Accepted

\* What a step on a source has to show.
LEMMA SourceStepKept ==
  ASSUME IInv, NEW c \in Client, NEW s \in Source, TypeOK', product' = product,
         \A d \in Client \ {c}: client'[d] = client[d],
         At(c, "idle") \/ S(c) = s,
         \A t \in Source \ {s}: table'[t] = table[t] /\ disk'[t] = disk[t],
         RecordMoves(table[s], table'[s]),
         table[s] = Unborn => Owns(c, s) \/ (table'[s] = table[s] /\ disk'[s] = disk[s]),
         table[s] # Unborn => \A part \in Part: disk'[s][part] \in {disk[s][part], "absent"},
         drawn' \in {drawn, drawn \cup {s}}, condemned \subseteq condemned', hit \subseteq hit',
         client'[c].pc \in Uploading \cup Cleaning =>
           client'[c].source = s /\ (Owns(c, s) \/ s \notin drawn),
         ClientOK(c)', SourceOK(s)'
  PROVE  IInv'
<1>1. SafeStep(c)
  <2>1. ASSUME NEW t \in Source \ {s}
        PROVE  disk'[t] = disk[t] /\ table'[t] = table[t] /\ RecordMoves(table[t], table'[t])
    BY DEF RecordMoves
  <2>2. drawn \subseteq drawn' /\ RecordMoves(product, product')
    BY DEF RecordMoves
  <2> QED
    BY <2>1, <2>2 DEF SafeStep
<1>2. OwnsNoMore(c)
  BY DEF OwnsNoMore, Owns, S
<1>3. ASSUME NEW t \in Source PROVE SourceOK(t)'
  <2>1. CASE t = s
    BY <2>1
  <2>2. CASE t # s
    <3>1. ~ (client[c].pc \in Uploading /\ S(c) = t)
      BY <2>2 DEF At, Uploading
    <3> QED
      BY <1>1, <2>2, <3>1, SourceKept
  <2> QED
    BY <2>1, <2>2
<1>4. IndexKeyMatchesRecord'
  BY DEF IInv, IndexKeyMatchesRecord
<1> QED
  BY <1>1, <1>2, <1>3, <1>4, StepKept

\* A step that only reads.
LEMMA SourceReadKept ==
  ASSUME IInv, NEW c \in Client, TypeOK', UNCHANGED <<product, table, disk, drawn, hit>>,
         \A d \in Client \ {c}: client'[d] = client[d],
         client[c].pc \notin Uploading,
         client'[c].pc \notin Uploading \cup Cleaning,
         condemned \subseteq condemned', ClientOK(c)'
  PROVE  IInv'
<1>1. SafeStep(c)
  BY DEF SafeStep, RecordMoves
<1>2. OwnsNoMore(c)
  BY DEF OwnsNoMore, Owns
<1>3. \A s \in Source: SourceOK(s)'
  BY <1>1, SourceKept
<1>4. IndexKeyMatchesRecord'
  BY DEF IInv, IndexKeyMatchesRecord
<1> QED
  BY <1>1, <1>2, <1>3, <1>4, StepKept

\* What a source of a type is when it is created, and what an upload may be.
LEMMA NewSource ==
  /\ \A type \in ProductSourceType: ProductSource(type) \in SourceRecord
  /\ \A u: validate_upload(u) => UPLOAD_TYPES[u.extension].source_type \in FILE_BACKED_SOURCE_TYPES
<1>1. ASSUME NEW type \in ProductSourceType PROVE ProductSource(type) \in SourceRecord
  <2>1. 1 \in 1..MaxVersion /\ "none" \in Text /\ "READY" \in ProductSourceStatus
    BY ProductsAssumption, SourcesAssumption DEF ProductSourceStatus
  <2> QED
    BY <2>1 DEF ProductSource, SourceRecord
<1>2. ASSUME NEW u, validate_upload(u)
      PROVE  UPLOAD_TYPES[u.extension].source_type \in {"PDF", "IMAGE", "CSV"}
  BY <1>2 DEF validate_upload, UPLOAD_TYPES
<1> QED
  BY <1>1, <1>2 DEF FILE_BACKED_SOURCE_TYPES, ProductSourceType

\* An upload begins with an id nobody has seen: no record, no file.
LEMMA BeginStep ==
  ASSUME IInv, NEW c \in Client, NEW s \in Source, NEW type \in ProductSourceType,
         NEW pc \in {"create", "reserve_object"}, Begin(c, s, type, pc),
         pc = "create" <=> type = "TEXT"
  PROVE  IInv'
<1> DEFINE new == [Idle EXCEPT !.pc = pc, !.source = s, !.read = ProductSource(type)]
<1>1. ProductSource(type) \in SourceRecord /\ ProductSource(type).source_type = type
  BY NewSource DEF ProductSource
<1>2. new \in Request
  BY <1>1, IdleRests DEF Request, Step
<1>3. new.pc = pc /\ new.source = s /\ new.read = ProductSource(type)
  BY DEF Idle
<1> HIDE DEF new
<1>4. client' = [client EXCEPT ![c] = new]
  BY DEF Begin, new
<1>5. client'[c] = new
  BY <1>4 DEF IInv, TypeOK
<1>6. /\ At(c, "idle") /\ s \notin drawn /\ drawn' = drawn \cup {s}
      /\ UNCHANGED <<product, table, disk, condemned, hit, faults>>
  BY DEF Begin
<1>7. table[s] = Unborn /\ disk[s] = NoFiles
  BY <1>6 DEF IInv, SourceOK
<1>8. TypeOK'
  BY <1>2, <1>4, <1>6 DEF IInv, TypeOK
<1>9. ClientOK(c)'
  <2>1. pc \in Uploading /\ pc \notin OnProduct \cup Cleaning \cup OnSource
    BY DEF Uploading, OnProduct, Cleaning, OnSource, Accepted
  <2>2. FileBacked(new.read) <=> pc = "reserve_object"
    BY <1>1, <1>3 DEF FileBacked, FILE_BACKED_SOURCE_TYPES
  <2>3. FilesAt("reserve_object") = NoFiles
    BY DEF FilesAt, Files, NoFiles
  <2>4. UploadOK(c)'
    BY <1>1, <1>3, <1>5, <1>6, <1>7, <2>1, <2>2, <2>3 DEF UploadOK, S, At
  <2> QED
    BY <1>3, <1>5, <1>6, <2>1, <2>4
       DEF ClientOK, S, ProductViewOK, CleanupOK, SourceViewOK
<1>10. SourceOK(s)'
  BY <1>6, <1>7 DEF SourceOK, Stored
<1> QED
  BY <1>3, <1>4, <1>5, <1>6, <1>7, <1>8, <1>9, <1>10, SourceStepKept
     DEF RecordMoves, IInv, TypeOK

\* The files of an upload change one after the other.
LEMMA UploadMoves ==
  ASSUME IInv, NEW c \in Client, NEW pc \in Uploading \ {"create"}, At(c, pc),
         NEW next \in Uploading, Goto(c, next), UNCHANGED <<table, history, Metadata>>,
         disk' = [disk EXCEPT ![S(c)] = FilesAt(next)]
  PROVE  IInv'
<1> DEFINE s == client[c].source
           new == [client[c] EXCEPT !.pc = next]
<1>1. /\ client[c] \in Request /\ client[c].pc \in Uploading
      /\ s \in Source /\ s \in drawn /\ table[s] = Unborn
      /\ client[c].read \in SourceRecord /\ FileBacked(client[c].read)
  BY DEF At, IInv, TypeOK, ClientOK, UploadOK, S
<1>2. new \in Request /\ new.pc = next /\ new.source = s /\ new.read = client[c].read
  BY <1>1 DEF Request, Uploading, Step
<1> HIDE DEF new
<1>3. client' = [client EXCEPT ![c] = new]
  BY DEF Goto, new, IInv, TypeOK
<1>4. client'[c] = new
  BY <1>3 DEF IInv, TypeOK
<1>5. FilesAt(next) \in [Part -> PartState]
  BY DEF FilesAt, Files, PartState, Part
<1>6. UNCHANGED <<table, condemned, hit, product, drawn, faults>>
  BY DEF history, Metadata
<1>7. TypeOK'
  BY <1>2, <1>3, <1>5, <1>6 DEF IInv, TypeOK, S
<1>8. disk'[s] = FilesAt(next)
  BY <1>1 DEF S, IInv, TypeOK
<1>9. ClientOK(c)'
  <2>1. next \notin OnProduct \cup Cleaning \cup OnSource
    BY DEF Uploading, OnProduct, Cleaning, OnSource, Accepted
  <2>2. UploadOK(c)'
    BY <1>1, <1>2, <1>4, <1>6, <1>8 DEF UploadOK, S, FileBacked
  <2> QED
    BY <1>1, <1>2, <1>4, <1>6, <2>1, <2>2
       DEF ClientOK, S, ProductViewOK, CleanupOK, SourceViewOK
<1>10. SourceOK(s)'
  BY <1>1, <1>2, <1>4, <1>6 DEF SourceOK, S, Stored
<1>11. Owns(c, s)
  BY <1>1 DEF Owns, S
<1>12. \A t \in Source \ {s}: disk'[t] = disk[t]
  BY DEF S, IInv, TypeOK
<1>13. \A d \in Client \ {c}: client'[d] = client[d]
  BY <1>3 DEF IInv, TypeOK
<1> QED
  BY <1>1, <1>2, <1>4, <1>6, <1>7, <1>9, <1>10, <1>11, <1>12, <1>13, SourceStepKept
     DEF RecordMoves, S

\* An upload reserves its two files and replaces them with the data.
LEMMA SaveSteps ==
  ASSUME IInv, NEW c \in Client,
         \/ save_reserve_object(c) \/ save_reserve_sidecar(c)
         \/ save_replace_object(c) \/ save_replace_sidecar(c)
  PROVE  IInv'
<1> DEFINE s == client[c].source
<1>1. ASSUME NEW pc \in Uploading \ {"create"}, At(c, pc)
      PROVE  s \in Source /\ disk[s] = FilesAt(pc)
  BY <1>1 DEF At, IInv, TypeOK, ClientOK, UploadOK, S
<1>2. CASE save_reserve_object(c)
  <2>1. At(c, "reserve_object") /\ disk[s] = FilesAt("reserve_object") /\ s \in Source
    BY <1>1, <1>2 DEF save_reserve_object, FileStep, Uploading
  <2>2. [disk[s] EXCEPT !["object"] = "reserved"] = FilesAt("reserve_sidecar")
    BY <2>1 DEF FilesAt, Files, Part
  <2>3. disk' = [disk EXCEPT ![s]["object"] = "reserved"]
    BY <1>2 DEF save_reserve_object, FileStep, reserve_exclusive, S
  <2>4. disk' = [disk EXCEPT ![s] = FilesAt("reserve_sidecar")]
    BY <2>1, <2>2, <2>3 DEF IInv, TypeOK
  <2> QED
    BY <1>2, <2>1, <2>4, UploadMoves DEF save_reserve_object, FileStep, Uploading, S
<1>3. CASE save_reserve_sidecar(c)
  <2>1. At(c, "reserve_sidecar") /\ disk[s] = FilesAt("reserve_sidecar") /\ s \in Source
    BY <1>1, <1>3 DEF save_reserve_sidecar, FileStep, Uploading
  <2>2. [disk[s] EXCEPT !["sidecar"] = "reserved"] = FilesAt("replace_object")
    BY <2>1 DEF FilesAt, Files, Part
  <2>3. disk' = [disk EXCEPT ![s]["sidecar"] = "reserved"]
    BY <1>3 DEF save_reserve_sidecar, FileStep, reserve_exclusive, S
  <2>4. disk' = [disk EXCEPT ![s] = FilesAt("replace_object")]
    BY <2>1, <2>2, <2>3 DEF IInv, TypeOK
  <2> QED
    BY <1>3, <2>1, <2>4, UploadMoves DEF save_reserve_sidecar, FileStep, Uploading, S
<1>4. CASE save_replace_object(c)
  <2>1. At(c, "replace_object") /\ disk[s] = FilesAt("replace_object") /\ s \in Source
    BY <1>1, <1>4 DEF save_replace_object, FileStep, Uploading
  <2>2. [disk[s] EXCEPT !["object"] = "data"] = FilesAt("replace_sidecar")
    BY <2>1 DEF FilesAt, Files, Part
  <2>3. disk' = [disk EXCEPT ![s]["object"] = "data"]
    BY <1>4 DEF save_replace_object, FileStep, replace_reserved, S
  <2>4. disk' = [disk EXCEPT ![s] = FilesAt("replace_sidecar")]
    BY <2>1, <2>2, <2>3 DEF IInv, TypeOK
  <2> QED
    BY <1>4, <2>1, <2>4, UploadMoves DEF save_replace_object, FileStep, Uploading, S
<1>5. CASE save_replace_sidecar(c)
  <2>1. At(c, "replace_sidecar") /\ disk[s] = FilesAt("replace_sidecar") /\ s \in Source
    BY <1>1, <1>5 DEF save_replace_sidecar, FileStep, Uploading
  <2>2. [disk[s] EXCEPT !["sidecar"] = "data"] = FilesAt("create")
    BY <2>1 DEF FilesAt, Files, Part
  <2>3. disk' = [disk EXCEPT ![s]["sidecar"] = "data"]
    BY <1>5 DEF save_replace_sidecar, FileStep, replace_reserved, S
  <2>4. disk' = [disk EXCEPT ![s] = FilesAt("create")]
    BY <2>1, <2>2, <2>3 DEF IInv, TypeOK
  <2> QED
    BY <1>5, <2>1, <2>4, UploadMoves DEF save_replace_sidecar, FileStep, Uploading, S
<1> QED
  BY <1>2, <1>3, <1>4, <1>5

\* What an upload that has an id knows of its source.
LEMMA UploadKnows ==
  ASSUME IInv, NEW c \in Client, client[c].pc \in Uploading, NEW s, s = client[c].source
  PROVE  /\ s \in Source /\ s \in drawn /\ table[s] = Unborn /\ Owns(c, s)
         /\ client[c].read \in SourceRecord
         /\ disk[s] = IF FileBacked(client[c].read) THEN FilesAt(client[c].pc) ELSE NoFiles
BY DEF IInv, TypeOK, ClientOK, UploadOK, S, Owns

\* The metadata is stored last: the source has its object.
LEMMA CreateSourceStep ==
  ASSUME IInv, NEW c \in Client, create_source(c)
  PROVE  IInv'
<1> PICK s: s = client[c].source
  OBVIOUS
<1>1. /\ s \in Source /\ s \in drawn /\ table[s] = Unborn /\ Owns(c, s)
      /\ client[c].read \in SourceRecord
      /\ disk[s] = IF FileBacked(client[c].read) THEN FilesAt("create") ELSE NoFiles
  BY UploadKnows DEF create_source, At, Uploading
<1>2. /\ table' = [table EXCEPT ![s] = client[c].read] /\ client' = [client EXCEPT ![c] = Idle]
      /\ UNCHANGED <<product, disk, drawn, condemned, hit, faults>>
  BY DEF create_source, S, Finish, history, Metadata
<1>3. TypeOK'
  BY <1>1, <1>2, IdleRests DEF IInv, TypeOK
<1>4. client'[c] = Idle /\ ClientOK(c)'
  BY EndedOK DEF create_source
<1>5. table'[s] = client[c].read /\ Stored(client[c].read)
  BY <1>1, <1>2, SourcesAssumption DEF IInv, TypeOK, Stored
<1>6. SourceOK(s)'
  <2>1. FilesAt("create") = [part \in Part |-> "data"]
    BY DEF FilesAt, Files
  <2> QED
    BY <1>1, <1>2, <1>5, <2>1 DEF SourceOK, Complete, FileBacked, Stored
<1>7. \A t \in Source \ {s}: table'[t] = table[t] /\ disk'[t] = disk[t]
  BY <1>2 DEF IInv, TypeOK
<1>8. \A d \in Client \ {c}: client'[d] = client[d]
  BY <1>2 DEF IInv, TypeOK
<1>9. RecordMoves(table[s], table'[s])
  BY <1>1, <1>5 DEF RecordMoves
<1> QED
  BY <1>1, <1>2, <1>3, <1>4, <1>6, <1>7, <1>8, <1>9, IdleRests, SourceStepKept
     DEF Uploading, Cleaning, S

\* A save that fails leaves the source without metadata, and known to be hit.
LEMMA SaveFailsStep ==
  ASSUME IInv, NEW c \in Client, save_fails(c)
  PROVE  IInv'
<1> PICK s: s = client[c].source
  OBVIOUS
<1>1. s \in Source /\ s \in drawn /\ table[s] = Unborn /\ Owns(c, s)
  BY UploadKnows DEF save_fails, Uploading
<1>2. PICK kept \in SUBSET Part:
        /\ faults' = faults + 1 + (IF kept = {} THEN 0 ELSE 1) /\ faults' <= MaxFaults
        /\ disk' = [disk EXCEPT ![s] = [part \in Part |->
                        IF part \in kept THEN disk[s][part] ELSE "absent"]]
  BY <1>1 DEF save_fails, S, IInv, TypeOK
<1>3. /\ hit' = hit \cup {s} /\ client' = [client EXCEPT ![c] = Idle]
      /\ UNCHANGED <<product, table, drawn, condemned>>
  BY DEF save_fails, S, Finish
<1>4. faults' \in 0..MaxFaults
  BY <1>2, SourcesAssumption DEF IInv, TypeOK
<1>5. disk' \in [Source -> [Part -> PartState]]
  <2>1. [part \in Part |-> IF part \in kept THEN disk[s][part] ELSE "absent"] \in [Part -> PartState]
    BY <1>1 DEF IInv, TypeOK, PartState
  <2> QED
    BY <1>2, <2>1 DEF IInv, TypeOK
<1>6. TypeOK'
  BY <1>1, <1>3, <1>4, <1>5, IdleRests DEF IInv, TypeOK
<1>7. client'[c] = Idle /\ ClientOK(c)'
  BY EndedOK DEF save_fails
<1>8. SourceOK(s)'
  BY <1>1, <1>3 DEF SourceOK, Stored
<1>9. \A t \in Source \ {s}: table'[t] = table[t] /\ disk'[t] = disk[t]
  BY <1>2, <1>3 DEF IInv, TypeOK
<1>10. \A d \in Client \ {c}: client'[d] = client[d]
  BY <1>3 DEF IInv, TypeOK
<1> QED
  BY <1>1, <1>3, <1>6, <1>7, <1>8, <1>9, <1>10, IdleRests, SourceStepKept
     DEF Uploading, Cleaning, S, RecordMoves

\* A create whose call reports an error: if it was applied, the source is
\* condemned, and the cleanup may take its object.
LEMMA CreateFailsStep ==
  ASSUME IInv, NEW c \in Client, NEW applied \in BOOLEAN, create_fails(c, applied)
  PROVE  IInv'
<1> PICK s: s = client[c].source
  OBVIOUS
<1>1. /\ s \in Source /\ s \in drawn /\ table[s] = Unborn /\ Owns(c, s)
      /\ client[c].read \in SourceRecord
      /\ disk[s] = IF FileBacked(client[c].read) THEN FilesAt("create") ELSE NoFiles
  BY UploadKnows DEF create_fails, At, Uploading
<1>2. /\ table' = IF applied THEN [table EXCEPT ![s] = client[c].read] ELSE table
      /\ condemned' = IF applied THEN condemned \cup {s} ELSE condemned
      /\ hit' = hit \cup {s} /\ faults < MaxFaults /\ faults' = faults + 1
      /\ UNCHANGED <<product, disk, drawn>>
  BY DEF create_fails, S
<1>3. PICK new \in Request:
        /\ client' = [client EXCEPT ![c] = new]
        /\ new = Idle \/ (new.pc = "cleanup_object" /\ new.source = s)
  <2>1. CASE FileBacked(client[c].read)
    <3> DEFINE new == [client[c] EXCEPT !.pc = "cleanup_object"]
    <3>1. client[c] \in Request
      BY DEF IInv, TypeOK
    <3>2. new \in Request /\ new.pc = "cleanup_object" /\ new.source = s
      BY <3>1 DEF Request, Step
    <3>3. client' = [client EXCEPT ![c] = new]
      BY <2>1 DEF create_fails, Goto, IInv, TypeOK
    <3> HIDE DEF new
    <3> QED
      BY <3>2, <3>3
  <2>2. CASE ~ FileBacked(client[c].read)
    BY <2>2, IdleRests DEF create_fails, Finish
  <2> QED
    BY <2>1, <2>2
<1>4. client'[c] = new
  BY <1>3 DEF IInv, TypeOK
<1>5. TypeOK'
  <2>1. faults' \in 0..MaxFaults
    BY <1>2, SourcesAssumption DEF IInv, TypeOK
  <2> QED
    BY <1>1, <1>2, <1>3, <2>1 DEF IInv, TypeOK
<1>6. Stored(client[c].read) /\ table'[s] = IF applied THEN client[c].read ELSE Unborn
  BY <1>1, <1>2, SourcesAssumption DEF IInv, TypeOK, Stored
<1>7. ClientOK(c)'
  <2>1. CASE new = Idle
    BY <2>1, <1>3, EndedOK DEF Finish
  <2>2. CASE new # Idle
    <3>1. new.pc = "cleanup_object" /\ new.source = s
      BY <1>3, <2>2
    <3>2. "cleanup_object" \in Cleaning \ (OnProduct \cup Uploading \cup OnSource)
      BY DEF Cleaning, OnProduct, Uploading, OnSource, Accepted
    <3>3. CleanupOK(c)'
      BY <1>2, <1>4, <1>6, <3>1, <3>2 DEF CleanupOK, S
    <3> QED
      BY <1>1, <1>2, <1>4, <3>1, <3>2, <3>3
         DEF ClientOK, S, ProductViewOK, UploadOK, SourceViewOK
  <2> QED
    BY <2>1, <2>2
<1>8. SourceOK(s)'
  <2>1. ~ FileBacked(client[c].read) => disk'[s] = NoFiles
    BY <1>1, <1>2
  <2> QED
    BY <1>1, <1>2, <1>6, <2>1 DEF SourceOK, Stored, FileBacked
<1>9. \A t \in Source \ {s}: table'[t] = table[t] /\ disk'[t] = disk[t]
  BY <1>2 DEF IInv, TypeOK
<1>10. \A d \in Client \ {c}: client'[d] = client[d]
  BY <1>3 DEF IInv, TypeOK
<1>11. RecordMoves(table[s], table'[s])
  BY <1>1, <1>6 DEF RecordMoves
<1>12. client'[c].pc \in Uploading \cup Cleaning => client'[c].source = s
  BY <1>3, <1>4, IdleRests DEF Uploading, Cleaning
<1> QED
  BY <1>1, <1>2, <1>5, <1>7, <1>8, <1>9, <1>10, <1>11, <1>12, SourceStepKept DEF S

\* A request that names a version of a stored source.
LEMMA StartStep ==
  ASSUME IInv, NEW c \in Client, NEW s \in Source, NEW v \in 1..MaxVersion,
         NEW pc \in {"update_read", "delete_read"}, NEW change \in SourceChange \cup {<<>>},
         pc = "update_read" => change \in SourceChange, Start(c, s, v, change, pc)
  PROVE  IInv'
<1> DEFINE new == [Idle EXCEPT !.pc = pc, !.source = s, !.version = v, !.change = change]
<1>1. /\ At(c, "idle") /\ Stored(table[s]) /\ v <= table[s].version
      /\ UNCHANGED <<product, table, disk, drawn, condemned, hit, faults>>
  BY ProductsAssumption DEF Start, KnownVersion, history, IInv, TypeOK, Stored, SourceRecord
<1>2. v \in 0..MaxVersion /\ v >= 1
  BY ProductsAssumption
<1>3. new \in Request
  BY <1>2, IdleRests DEF Request, Step
<1>4. new.pc = pc /\ new.source = s /\ new.version = v /\ new.change = change
  BY DEF Idle
<1> HIDE DEF new
<1>5. client' = [client EXCEPT ![c] = new]
  BY DEF Start, new
<1>6. client'[c] = new
  BY <1>5 DEF IInv, TypeOK
<1>7. TypeOK'
  BY <1>1, <1>3, <1>5 DEF IInv, TypeOK
<1>8. s \in drawn /\ NotBefore(table[s], v)
  BY <1>1 DEF IInv, SourceOK, NotBefore, Stored
<1>9. pc \notin OnProduct \cup Uploading \cup Cleaning \cup Accepted \cup {"update_write"}
  BY DEF OnProduct, Uploading, Cleaning, Accepted
<1>10. pc \notin {"delete_sidecar", "delete_metadata"}
  OBVIOUS
<1>11. SourceViewOK(c)'
  BY <1>1, <1>2, <1>4, <1>6, <1>8, <1>9, <1>10 DEF SourceViewOK, S, At
<1>12. ClientOK(c)'
  BY <1>1, <1>4, <1>6, <1>8, <1>9, <1>11 DEF ClientOK, S, ProductViewOK, UploadOK, CleanupOK
<1>13. \A d \in Client \ {c}: client'[d] = client[d]
  BY <1>5 DEF IInv, TypeOK
<1> QED
  BY <1>1, <1>4, <1>6, <1>7, <1>9, <1>12, <1>13, SourceReadKept DEF At, Uploading

\* What a request on a source knows of it.
LEMMA RequestKnows ==
  ASSUME IInv, NEW c \in Client, client[c].pc \in OnSource, NEW s, s = client[c].source
  PROVE  /\ s \in Source /\ s \in drawn /\ table[s] # Unborn
         /\ table[s] \in SourceRecord \cup {Unborn, Gone}
         /\ NotBefore(table[s], client[c].version)
         /\ client[c].version \in 1..MaxVersion
         /\ client[c] \in Request
<1>1. client[c] \in Request /\ client[c].version \in 0..MaxVersion
  BY DEF IInv, TypeOK, Request
<1>2. s \in Source /\ s \in drawn /\ client[c].version >= 1
      /\ NotBefore(table[s], client[c].version)
  BY DEF IInv, TypeOK, ClientOK, SourceViewOK, S
<1> QED
  BY <1>1, <1>2, ProductsAssumption DEF NotBefore, IInv, TypeOK

\* The read of an update is the stored record, and the transition it asks for is
\* one from there.
LEMMA UpdateReadStep ==
  ASSUME IInv, NEW c \in Client, update_source_read(c)
  PROVE  IInv'
<1> PICK s: s = client[c].source
  OBVIOUS
<1>1. /\ s \in Source /\ s \in drawn /\ table[s] # Unborn
      /\ table[s] \in SourceRecord \cup {Unborn, Gone}
      /\ NotBefore(table[s], client[c].version)
      /\ client[c].version \in 1..MaxVersion
      /\ client[c] \in Request /\ client[c].pc = "update_read"
  BY RequestKnows DEF update_source_read, At, OnSource
<1>2. UNCHANGED <<product, table, disk, drawn, condemned, hit, faults>>
  BY DEF update_source_read, history
<1>3. CASE Finish(c)
  <2>1. client'[c] = Idle /\ ClientOK(c)'
    BY <1>3, EndedOK
  <2>2. TypeOK' /\ \A d \in Client \ {c}: client'[d] = client[d]
    BY <1>2, <1>3, IdleRests DEF Finish, IInv, TypeOK
  <2> QED
    BY <1>1, <1>2, <2>1, <2>2, IdleRests, SourceReadKept DEF Uploading, Cleaning
<1>4. CASE ~ Finish(c)
  <2> DEFINE new == [client[c] EXCEPT !.pc = "update_write", !.read = table[s]]
  <2>1. /\ Stored(table[s])
        /\ "status" \in DOMAIN client[c].change =>
             is_status_transition_allowed(table[s].status, client[c].change.status)
        /\ client' = [client EXCEPT ![c].pc = "update_write", ![c].read = table[s]]
    BY <1>4 DEF update_source_read, get_by_id, S
  <2>2. table[s] \in SourceRecord
    BY <1>1, <2>1 DEF Stored
  <2>3. new \in Request /\ new.pc = "update_write" /\ new.source = s
        /\ new.read = table[s] /\ new.version = client[c].version /\ new.change = client[c].change
    BY <1>1, <2>2 DEF Request, Step
  <2>4. client' = [client EXCEPT ![c] = new]
    BY <2>1 DEF IInv, TypeOK
  <2> HIDE DEF new
  <2>5. client'[c] = new
    BY <2>4 DEF IInv, TypeOK
  <2>6. TypeOK' /\ \A d \in Client \ {c}: client'[d] = client[d]
    BY <1>2, <2>3, <2>4 DEF IInv, TypeOK
  <2>7. "update_write" \notin OnProduct \cup Uploading \cup Cleaning \cup Accepted
    BY DEF OnProduct, Uploading, Cleaning, Accepted
  <2>8. client[c].change \in SourceChange
    BY <1>1 DEF IInv, ClientOK, SourceViewOK, OnSource
  <2>9. SourceViewOK(c)'
    BY <1>1, <1>2, <2>1, <2>2, <2>3, <2>5, <2>7, <2>8 DEF SourceViewOK, S, At, UpToDate
  <2>10. ClientOK(c)'
    BY <1>1, <1>2, <2>3, <2>5, <2>7, <2>9 DEF ClientOK, S, ProductViewOK, UploadOK, CleanupOK
  <2> QED
    BY <1>1, <1>2, <2>3, <2>5, <2>6, <2>7, <2>10, SourceReadKept DEF Uploading
<1> QED
  BY <1>3, <1>4

\* A PATCH of a source gives a source of the same type, with the fields it does
\* not name as they were; the error is dropped only by ClearsError.
LEMMA SourceReplaced ==
  ASSUME NEW current \in SourceRecord, NEW change \in SourceChange
  PROVE  /\ Candidate(current, change) \in SourceRecord
         /\ Candidate(current, change).source_type = current.source_type
         /\ Candidate(current, change).version = current.version
         /\ Candidate(current, change).status =
              IF "status" \in DOMAIN change THEN change.status ELSE current.status
         /\ BuildsOn(current, Candidate(current, change), change, {"version", "error_message"})
         /\ Candidate(current, change).error_message # current.error_message =>
              \/ ClearsError(current.status, Candidate(current, change).status)
              \/ "error_message" \in DOMAIN change
<1> DEFINE new == Replace(current, change)
<1>1. DOMAIN current = {"source_type", "status", "display_name", "error_message", "version"}
  BY DEF SourceRecord
<1>2. /\ DOMAIN change \subseteq {"status", "display_name", "error_message"}
      /\ \A f \in DOMAIN change: change[f] \in SourceFields[f]
  BY SourcesAssumption DEF Edits, SourceFields
<1>3. new = [source_type |-> new.source_type, status |-> new.status,
             display_name |-> new.display_name, error_message |-> new.error_message,
             version |-> new.version]
  BY <1>1 DEF Replace
<1>4. /\ new.status \in ProductSourceStatus /\ new.display_name \in Text /\ new.error_message \in Text
      /\ new.status = IF "status" \in DOMAIN change THEN change.status ELSE current.status
      /\ "error_message" \notin DOMAIN change => new.error_message = current.error_message
  BY <1>1, <1>2 DEF Replace, SourceFields, SourceRecord
<1>5. new.version = current.version /\ new.source_type = current.source_type
  BY <1>1, <1>2 DEF Replace
<1>6. new \in SourceRecord
  <2> HIDE DEF new
  <2> QED
    BY <1>3, <1>4, <1>5 DEF SourceRecord
<1>7. \A f \in DOMAIN current \ DOMAIN change: new[f] = current[f]
  BY DEF Replace
<1> HIDE DEF new
<1>8. CASE Candidate(current, change) = new
  BY <1>4, <1>5, <1>6, <1>7, <1>8 DEF BuildsOn
<1>9. CASE /\ Candidate(current, change) = [new EXCEPT !.error_message = "none"]
           /\ "status" \in DOMAIN change /\ ClearsError(current.status, change.status)
  <2>1. /\ Candidate(current, change) \in SourceRecord
        /\ Candidate(current, change).source_type = new.source_type
        /\ Candidate(current, change).version = new.version
        /\ Candidate(current, change).status = new.status
        /\ Candidate(current, change).display_name = new.display_name
    BY <1>6, <1>9, SourcesAssumption DEF SourceRecord
  <2>2. BuildsOn(current, Candidate(current, change), change, {"version", "error_message"})
    BY <1>1, <1>7, <2>1 DEF BuildsOn
  <2> QED
    BY <1>4, <1>5, <1>9, <2>1, <2>2
<1> QED
  BY <1>8, <1>9 DEF Candidate, new

\* What an update writes: the stored record with the fields of the request, one
\* version later and one allowed step further.
LEMMA UpdateWrites ==
  ASSUME IInv, NEW c \in Client, update_source_write(c), NEW s, s = client[c].source,
         table' # table
  PROVE  /\ s \in Source /\ Stored(table[s]) /\ table[s] \in SourceRecord
         /\ table' = [table EXCEPT ![s] = table'[s]] /\ table'[s] \in SourceRecord
         /\ table'[s].source_type = table[s].source_type
         /\ table'[s].version = table[s].version + 1
         /\ is_status_transition_allowed(table[s].status, table'[s].status)
         /\ BuildsOn(table[s], table'[s], client[c].change, {"version", "error_message"})
         /\ table'[s].error_message # table[s].error_message =>
              \/ ClearsError(table[s].status, table'[s].status)
              \/ "error_message" \in DOMAIN client[c].change
<1> DEFINE r == client[c]
           new == Candidate(table[s], r.change)
<1>1. /\ s \in Source /\ table[s] \in SourceRecord \cup {Unborn, Gone}
      /\ r.version \in 1..MaxVersion
  BY RequestKnows DEF update_source_write, At, OnSource
<1>2. /\ VersionIs(table[s], r.version) /\ r.version < MaxVersion
      /\ table' = [table EXCEPT ![s] =
                     [Candidate(r.read, r.change) EXCEPT !.version = r.version + 1]]
  BY DEF update_source_write, S
<1>3. Stored(table[s]) /\ table[s] \in SourceRecord /\ table[s].version = r.version
  BY <1>1, <1>2 DEF VersionIs, Stored
<1>4. /\ r.read = table[s] /\ r.change \in SourceChange
      /\ "status" \in DOMAIN r.change =>
           is_status_transition_allowed(table[s].status, r.change.status)
  BY <1>2 DEF update_source_write, At, IInv, ClientOK, SourceViewOK, OnSource, UpToDate, S
<1>5. /\ new \in SourceRecord /\ new.source_type = table[s].source_type
      /\ new.status = IF "status" \in DOMAIN r.change THEN r.change.status ELSE table[s].status
      /\ BuildsOn(table[s], new, r.change, {"version", "error_message"})
      /\ new.error_message # table[s].error_message =>
           \/ ClearsError(table[s].status, new.status)
           \/ "error_message" \in DOMAIN r.change
  BY <1>3, <1>4, SourceReplaced
<1> HIDE DEF new
<1>6. table' = [table EXCEPT ![s] = [new EXCEPT !.version = r.version + 1]]
  BY <1>2, <1>4 DEF new
<1>7. table'[s] = [new EXCEPT !.version = r.version + 1]
  BY <1>1, <1>6 DEF IInv, TypeOK
<1>8. r.version + 1 \in 1..MaxVersion
  BY <1>1, <1>2, ProductsAssumption
<1>9. /\ table'[s] \in SourceRecord /\ table'[s].source_type = new.source_type
      /\ table'[s].version = r.version + 1 /\ table'[s].status = new.status
      /\ table'[s].error_message = new.error_message
      /\ \A f \in DOMAIN table[s] \ {"version"}: table'[s][f] = new[f]
  BY <1>3, <1>5, <1>7, <1>8 DEF SourceRecord
<1>10. is_status_transition_allowed(table[s].status, new.status)
  BY <1>4, <1>5 DEF is_status_transition_allowed
<1>11. BuildsOn(table[s], table'[s], r.change, {"version", "error_message"})
  BY <1>5, <1>9 DEF BuildsOn
<1> QED
  BY <1>1, <1>3, <1>5, <1>6, <1>7, <1>9, <1>10, <1>11

\* An update touches no file and keeps the type of the source.
LEMMA UpdateWriteStep ==
  ASSUME IInv, NEW c \in Client, update_source_write(c)
  PROVE  IInv'
<1> PICK s: s = client[c].source
  OBVIOUS
<1>1. /\ s \in Source /\ s \in drawn /\ table[s] # Unborn /\ client[c].pc = "update_write"
  BY RequestKnows DEF update_source_write, At, OnSource
<1>2. /\ UNCHANGED <<product, disk, drawn, condemned, hit, faults>>
      /\ client' = [client EXCEPT ![c] = Idle]
  BY DEF update_source_write, history, Finish
<1>3. client'[c] = Idle /\ ClientOK(c)'
  BY EndedOK DEF update_source_write
<1>4. \A d \in Client \ {c}: client'[d] = client[d]
  BY <1>2 DEF IInv, TypeOK
<1>5. CASE table' = table
  <2>1. TypeOK'
    BY <1>2, <1>5, IdleRests DEF IInv, TypeOK
  <2> QED
    BY <1>1, <1>2, <1>3, <1>4, <1>5, <2>1, IdleRests, SourceReadKept DEF Uploading, Cleaning
<1>6. CASE table' # table
  <2>1. /\ Stored(table[s]) /\ table[s] \in SourceRecord
        /\ table' = [table EXCEPT ![s] = table'[s]] /\ table'[s] \in SourceRecord
        /\ table'[s].source_type = table[s].source_type
        /\ table'[s].version = table[s].version + 1
    BY <1>6, UpdateWrites
  <2>2. Stored(table'[s]) /\ table[s].version \in Nat
    BY <2>1, SourcesAssumption, ProductsAssumption DEF Stored, SourceRecord
  <2>3. RecordMoves(table[s], table'[s])
    BY <2>1, <2>2 DEF RecordMoves
  <2>4. TypeOK'
    <3>1. table' \in [Source -> SourceRecord \cup {Unborn, Gone}]
      <4> PICK x \in SourceRecord: x = table'[s]
        BY <2>1
      <4>1. table' = [table EXCEPT ![s] = x]
        BY <2>1
      <4> QED
        BY <4>1 DEF IInv, TypeOK
    <3> QED
      BY <1>2, <3>1, IdleRests DEF IInv, TypeOK
  <2>5. SourceOK(s)'
    BY <1>1, <1>2, <2>1, <2>2 DEF IInv, SourceOK, FileBacked, Complete, Stored
  <2>6. \A t \in Source \ {s}: table'[t] = table[t] /\ disk'[t] = disk[t]
    <3> PICK x \in SourceRecord: x = table'[s]
      BY <2>1
    <3>1. table' = [table EXCEPT ![s] = x]
      BY <2>1
    <3> QED
      BY <1>2, <3>1 DEF IInv, TypeOK
  <2> QED
    BY <1>1, <1>2, <1>3, <1>4, <2>3, <2>4, <2>5, <2>6, IdleRests, SourceStepKept
       DEF Uploading, Cleaning, S
<1> QED
  BY <1>5, <1>6

\* A delete that is accepted condemns the source; a text source has no files.
LEMMA DeleteReadStep ==
  ASSUME IInv, NEW c \in Client, delete_source_read(c)
  PROVE  IInv'
<1> PICK s: s = client[c].source
  OBVIOUS
<1>1. /\ s \in Source /\ s \in drawn /\ table[s] # Unborn
      /\ table[s] \in SourceRecord \cup {Unborn, Gone}
      /\ NotBefore(table[s], client[c].version)
      /\ client[c].version \in 1..MaxVersion
      /\ client[c] \in Request /\ client[c].pc = "delete_read"
  BY RequestKnows DEF delete_source_read, At, OnSource
<1>2. UNCHANGED <<product, table, disk, drawn, hit, faults>>
  BY DEF delete_source_read
<1>3. CASE Finish(c) /\ UNCHANGED condemned
  <2>1. client'[c] = Idle /\ ClientOK(c)'
    BY <1>3, EndedOK
  <2>2. TypeOK' /\ \A d \in Client \ {c}: client'[d] = client[d]
    BY <1>2, <1>3, IdleRests DEF Finish, IInv, TypeOK
  <2> QED
    BY <1>1, <1>2, <1>3, <2>1, <2>2, IdleRests, SourceReadKept DEF Uploading, Cleaning
<1>4. CASE ~ (Finish(c) /\ UNCHANGED condemned)
  <2> PICK pc: pc = IF FileBacked(table[s]) THEN "delete_object" ELSE "delete_metadata"
    OBVIOUS
  <2> DEFINE new == [client[c] EXCEPT !.read = table[s], !.pc = pc]
  <2>1. /\ Stored(table[s]) /\ condemned' = condemned \cup {s}
        /\ client' = [client EXCEPT ![c].read = table[s], ![c].pc = pc]
    BY <1>4 DEF delete_source_read, get_by_id, S, DeleteAccepted
  <2>2. table[s] \in SourceRecord
    BY <1>1, <2>1 DEF Stored
  <2>3. new \in Request /\ new.pc = pc /\ new.source = s /\ new.version = client[c].version
    BY <1>1, <2>2 DEF Request, Step
  <2>4. client' = [client EXCEPT ![c] = new]
    BY <2>1 DEF IInv, TypeOK
  <2> HIDE DEF new
  <2>5. client'[c] = new
    BY <2>4 DEF IInv, TypeOK
  <2>6. TypeOK' /\ \A d \in Client \ {c}: client'[d] = client[d]
    BY <1>1, <1>2, <2>1, <2>3, <2>4 DEF IInv, TypeOK
  <2>7. pc \in {"delete_object", "delete_metadata"}
    OBVIOUS
  <2>8. pc \notin OnProduct \cup Uploading \cup Cleaning
    BY <2>7 DEF OnProduct, Uploading, Cleaning
  <2>9. pc = "delete_metadata" => disk[s] = NoFiles
    BY <1>1, <2>1 DEF IInv, SourceOK
  <2>10. SourceViewOK(c)'
    BY <1>1, <1>2, <2>1, <2>3, <2>5, <2>7, <2>9 DEF SourceViewOK, S, At
  <2>11. ClientOK(c)'
    BY <1>1, <1>2, <2>3, <2>5, <2>8, <2>10 DEF ClientOK, S, ProductViewOK, UploadOK, CleanupOK
  <2> QED
    BY <1>1, <1>2, <2>1, <2>3, <2>5, <2>6, <2>8, <2>11, SourceReadKept DEF Uploading
<1> QED
  BY <1>3, <1>4

\* Files are removed only of a source that is the request's own or condemned.
LEMMA UnlinkKept ==
  ASSUME IInv, NEW c \in Client, NEW part \in Part,
         client[c].pc \in Cleaning \cup {"delete_object", "delete_sidecar"},
         NEW s, s = client[c].source, NEW new \in Request, client' = [client EXCEPT ![c] = new],
         PathExists(s, part), unlink(s, part),
         UNCHANGED <<product, table, drawn, condemned, hit, faults>>,
         new = Idle \/ (new.source = s /\ new.pc \in Cleaning \cup Accepted),
         new.pc \in Cleaning => client[c].pc \in Cleaning,
         ClientOK(c)'
  PROVE  IInv'
<1>2. s \in Source /\ s \in drawn
  <2>1. hit \subseteq drawn /\ drawn \subseteq Source /\ ClientOK(c)
    BY DEF IInv, TypeOK
  <2> QED
    BY <2>1 DEF ClientOK, CleanupOK, SourceViewOK, S, OnSource, Accepted
<1>3. \/ client[c].pc \in Cleaning /\ s \in hit /\ (table[s] = Unborn \/ s \in condemned)
      \/ client[c].pc \in Accepted /\ s \in condemned /\ table[s] # Unborn
  BY DEF IInv, ClientOK, CleanupOK, SourceViewOK, NotBefore, S, OnSource, Accepted
<1>4. /\ \A p \in Part: disk'[s][p] \in {disk[s][p], "absent"}
      /\ \A t \in Source \ {s}: disk'[t] = disk[t] /\ table'[t] = table[t]
      /\ disk' \in [Source -> [Part -> PartState]]
  BY <1>2 DEF unlink, IInv, TypeOK, PartState
<1>5. TypeOK' /\ client'[c] = new /\ \A d \in Client \ {c}: client'[d] = client[d]
  BY <1>4 DEF IInv, TypeOK
<1>6. disk[s] # NoFiles
  BY DEF PathExists, NoFiles
<1>7. SourceOK(s)'
  <2>1. ~ (Stored(table[s]) /\ ~ FileBacked(table[s]))
    BY <1>2, <1>6 DEF IInv, SourceOK
  <2>2. Stored(table[s]) => s \in condemned
    BY <1>3 DEF Stored
  <2>3. ~ Stored(table[s]) => s \in hit
    <3> SUFFICES ASSUME ~ Stored(table[s]), s \notin hit PROVE FALSE
      OBVIOUS
    <3>1. table[s] # Unborn
      BY <1>3
    <3>2. PICK d \in Client: client[d].pc \in Uploading /\ S(d) = s
      BY <1>2, <1>6 DEF IInv, SourceOK
    <3> QED
      BY <3>1, <3>2 DEF IInv, ClientOK, UploadOK
  <2> QED
    BY <1>2, <2>1, <2>2, <2>3 DEF SourceOK, Stored, FileBacked
<1>8. table[s] = Unborn => Owns(c, s)
  BY <1>3 DEF Owns, S
<1>9. client'[c].pc \in Uploading \cup Cleaning => client'[c].source = s /\ Owns(c, s)
  BY <1>5, IdleRests DEF Owns, S, Uploading, Cleaning, Accepted
<1> QED
  BY <1>2, <1>4, <1>5, <1>7, <1>8, <1>9, SourceStepKept DEF RecordMoves, S

\* The request goes on with the same source.
LEMMA GoesOn ==
  ASSUME IInv, NEW c \in Client, NEW pc \in Step, Goto(c, pc), NEW s, s = client[c].source
  PROVE  \E new \in Request:
           /\ client' = [client EXCEPT ![c] = new] /\ client'[c] = new
           /\ new.pc = pc /\ new.source = s /\ new.version = client[c].version
<1> DEFINE new == [client[c] EXCEPT !.pc = pc]
<1>1. client[c] \in Request
  BY DEF IInv, TypeOK
<1>2. new \in Request /\ new.pc = pc /\ new.source = s /\ new.version = client[c].version
  BY <1>1 DEF Request
<1>3. client' = [client EXCEPT ![c] = new] /\ client'[c] = new
  BY DEF Goto, IInv, TypeOK
<1> QED
  BY <1>2, <1>3

\* A step that only ends the request.
LEMMA OnlyEnds ==
  ASSUME IInv, NEW c \in Client, Finish(c), client[c].pc \notin Uploading,
         UNCHANGED <<product, table, disk, drawn, condemned, hit, faults>>
  PROVE  IInv'
<1>1. client'[c] = Idle /\ ClientOK(c)'
  BY EndedOK
<1>2. TypeOK' /\ \A d \in Client \ {c}: client'[d] = client[d]
  BY IdleRests DEF Finish, IInv, TypeOK
<1> QED
  BY <1>1, <1>2, IdleRests, SourceReadKept DEF Uploading, Cleaning

\* The object is unlinked first; a missing one ends the delete.
LEMMA DeleteObjectStep ==
  ASSUME IInv, NEW c \in Client, storage_delete_object(c)
  PROVE  IInv'
<1> PICK s: s = client[c].source
  OBVIOUS
<1>1. /\ client[c].pc \in {"cleanup_object", "delete_object"}
      /\ UNCHANGED <<product, table, drawn, condemned, hit, faults>>
  BY DEF storage_delete_object, After, history, Metadata
<1>2. CASE PathExists(s, "object")
  <2> PICK pc: pc = After[client[c].pc]
    OBVIOUS
  <2>1. unlink(s, "object") /\ Goto(c, pc)
    BY <1>2 DEF storage_delete_object, S
  <2>2. \/ client[c].pc = "cleanup_object" /\ pc = "cleanup_sidecar"
        \/ client[c].pc = "delete_object" /\ pc = "delete_sidecar"
    BY <1>1 DEF After
  <2>3. pc \in Step
    BY <2>2 DEF Step
  <2>4. PICK new \in Request:
          /\ client' = [client EXCEPT ![c] = new] /\ client'[c] = new
          /\ new.pc = pc /\ new.source = s /\ new.version = client[c].version
    BY <2>1, <2>3, GoesOn
  <2>5. ClientOK(c)'
    <3>1. CASE client[c].pc = "cleanup_object"
      <4>1. s \in drawn /\ s \in hit /\ (table[s] = Unborn \/ s \in condemned)
        BY <3>1 DEF IInv, TypeOK, ClientOK, CleanupOK, Cleaning, S
      <4>2. pc = "cleanup_sidecar" /\ pc \notin OnProduct \cup Uploading \cup OnSource
        BY <2>2, <3>1 DEF OnProduct, Uploading, OnSource, Accepted
      <4> QED
        BY <1>1, <2>4, <4>1, <4>2
           DEF ClientOK, S, ProductViewOK, UploadOK, CleanupOK, SourceViewOK
    <3>2. CASE client[c].pc = "delete_object"
      <4>1. /\ s \in Source /\ s \in drawn /\ NotBefore(table[s], client[c].version)
            /\ client[c].version \in 1..MaxVersion
        BY <3>2, RequestKnows DEF OnSource, Accepted
      <4>2. s \in condemned
        BY <3>2 DEF IInv, ClientOK, SourceViewOK, OnSource, Accepted, S
      <4>3. pc = "delete_sidecar" /\ pc \notin OnProduct \cup Uploading \cup Cleaning
        BY <2>2, <3>2 DEF OnProduct, Uploading, Cleaning
      <4>4. disk'[s]["object"] = "absent"
        BY <2>1, <4>1 DEF unlink, IInv, TypeOK, Part
      <4>5. SourceViewOK(c)'
        BY <1>1, <2>4, <4>1, <4>2, <4>3, <4>4 DEF SourceViewOK, S, At
      <4> QED
        BY <1>1, <2>4, <4>1, <4>3, <4>5 DEF ClientOK, S, ProductViewOK, UploadOK, CleanupOK
    <3> QED
      BY <1>1, <3>1, <3>2
  <2>6. "object" \in Part
    BY DEF Part
  <2>7. /\ client[c].pc \in Cleaning \cup {"delete_object", "delete_sidecar"}
        /\ new.pc \in Cleaning \cup Accepted
        /\ new.pc \in Cleaning => client[c].pc \in Cleaning
    BY <2>2, <2>4 DEF Cleaning, Accepted
  <2> QED
    BY <1>1, <1>2, <2>1, <2>4, <2>5, <2>6, <2>7, UnlinkKept
<1>3. CASE ~ PathExists(s, "object")
  <2>1. Finish(c) /\ UNCHANGED disk
    BY <1>3 DEF storage_delete_object, S
  <2>2. client[c].pc \notin Uploading
    BY <1>1 DEF Uploading
  <2> QED
    BY <1>1, <2>1, <2>2, OnlyEnds
<1> QED
  BY <1>2, <1>3

\* The sidecar is unlinked after the object, by a cleanup or a delete.
LEMMA DeleteSidecarStep ==
  ASSUME IInv, NEW c \in Client, storage_delete_sidecar(c)
  PROVE  IInv'
<1> PICK s: s = client[c].source
  OBVIOUS
<1>1. /\ client[c].pc \in {"cleanup_sidecar", "delete_sidecar"}
      /\ UNCHANGED <<product, table, drawn, condemned, hit, faults>>
      /\ IF PathExists(s, "sidecar") THEN unlink(s, "sidecar") ELSE UNCHANGED disk
  BY DEF storage_delete_sidecar, history, Metadata, S
<1>2. CASE client[c].pc = "cleanup_sidecar"
  <2>1. Finish(c) /\ client[c].pc \in Cleaning /\ client[c].pc \notin Uploading
    BY <1>2 DEF storage_delete_sidecar, At, Cleaning, Uploading
  <2>2. CASE PathExists(s, "sidecar")
    <3>1. ClientOK(c)' /\ client' = [client EXCEPT ![c] = Idle]
      BY <2>1, EndedOK DEF Finish
    <3>2. "sidecar" \in Part
      BY DEF Part
    <3>3. Idle.pc \notin Cleaning
      BY IdleRests DEF Cleaning
    <3> QED
      BY <1>1, <2>1, <2>2, <3>1, <3>2, <3>3, IdleRests, UnlinkKept
  <2>3. CASE ~ PathExists(s, "sidecar")
    BY <1>1, <2>1, <2>3, OnlyEnds
  <2> QED
    BY <2>2, <2>3
<1>3. CASE client[c].pc = "delete_sidecar"
  <2>1. /\ s \in Source /\ s \in drawn /\ table[s] # Unborn
        /\ NotBefore(table[s], client[c].version) /\ client[c].version \in 1..MaxVersion
    BY <1>3, RequestKnows DEF OnSource, Accepted
  <2>2. s \in condemned /\ disk[s]["object"] = "absent"
    BY <1>3 DEF IInv, ClientOK, SourceViewOK, OnSource, Accepted, S, At
  <2>3. Goto(c, "delete_metadata") /\ "delete_metadata" \in Step
    BY <1>3 DEF storage_delete_sidecar, At, Step
  <2>4. PICK new \in Request:
          /\ client' = [client EXCEPT ![c] = new] /\ client'[c] = new
          /\ new.pc = "delete_metadata" /\ new.source = s /\ new.version = client[c].version
    BY <2>3, GoesOn
  <2>5. disk'[s] = NoFiles
    <3>1. disk[s] \in [Part -> PartState]
      BY <2>1 DEF IInv, TypeOK
    <3>2. disk'[s] \in [Part -> PartState] /\ disk'[s]["object"] = "absent"
          /\ disk'[s]["sidecar"] = "absent"
      <4>1. CASE PathExists(s, "sidecar")
        <5>1. disk'[s] = [disk[s] EXCEPT !["sidecar"] = "absent"]
          BY <1>1, <2>1, <4>1 DEF unlink, IInv, TypeOK
        <5> QED
          BY <2>2, <3>1, <5>1 DEF Part, PartState
      <4>2. CASE ~ PathExists(s, "sidecar")
        BY <1>1, <2>2, <3>1, <4>2 DEF PathExists
      <4> QED
        BY <4>1, <4>2
    <3> QED
      BY <3>2 DEF NoFiles, Part
  <2>6. "delete_metadata" \notin OnProduct \cup Uploading \cup Cleaning
    BY DEF OnProduct, Uploading, Cleaning
  <2>7. SourceViewOK(c)'
    BY <1>1, <2>1, <2>2, <2>4, <2>5, <2>6 DEF SourceViewOK, S, At
  <2>8. ClientOK(c)'
    BY <1>1, <2>1, <2>4, <2>6, <2>7 DEF ClientOK, S, ProductViewOK, UploadOK, CleanupOK
  <2>9. "sidecar" \in Part /\ new.pc \in Accepted /\ new.pc \notin Cleaning
    BY <2>4 DEF Part, Accepted, Cleaning
  <2>10. CASE PathExists(s, "sidecar")
    BY <1>1, <1>3, <2>4, <2>8, <2>9, <2>10, UnlinkKept
  <2>11. CASE ~ PathExists(s, "sidecar")
    <3>1. TypeOK' /\ \A d \in Client \ {c}: client'[d] = client[d]
      BY <1>1, <2>4, <2>11 DEF IInv, TypeOK
    <3>2. client[c].pc \notin Uploading
      BY <1>3 DEF Uploading
    <3> QED
      BY <1>1, <2>4, <2>6, <2>8, <2>11, <3>1, <3>2, SourceReadKept
  <2> QED
    BY <2>10, <2>11
<1> QED
  BY <1>1, <1>2, <1>3

\* The metadata goes last, when no file is left.
LEMMA DeleteMetadataStep ==
  ASSUME IInv, NEW c \in Client, delete_metadata(c)
  PROVE  IInv'
<1> PICK s: s = client[c].source
  OBVIOUS
<1>1. /\ Finish(c) /\ client[c].pc = "delete_metadata" /\ client[c].pc \notin Uploading
      /\ UNCHANGED <<product, disk, drawn, condemned, hit, faults>>
  BY DEF delete_metadata, At, history, Metadata, Uploading
<1>2. CASE table' = table
  BY <1>1, <1>2, OnlyEnds
<1>3. CASE table' # table
  <2>1. s \in Source /\ s \in drawn /\ disk[s] = NoFiles
    <3>1. s \in Source /\ s \in drawn
      BY <1>1, RequestKnows DEF OnSource, Accepted
    <3> QED
      BY <1>1, <3>1 DEF IInv, ClientOK, SourceViewOK, OnSource, Accepted, S, At
  <2>2. Stored(table[s]) /\ table' = [table EXCEPT ![s] = Gone]
    BY <1>3 DEF delete_metadata, VersionIs, S
  <2>3. /\ TypeOK' /\ table'[s] = Gone
        /\ \A t \in Source \ {s}: table'[t] = table[t] /\ disk'[t] = disk[t]
        /\ \A d \in Client \ {c}: client'[d] = client[d]
    BY <1>1, <2>1, <2>2, IdleRests DEF Finish, IInv, TypeOK
  <2>4. client'[c] = Idle /\ ClientOK(c)'
    BY <1>1, EndedOK
  <2>5. SourceOK(s)'
    BY <1>1, <2>1, <2>3 DEF SourceOK, Stored
  <2>6. RecordMoves(table[s], table'[s]) /\ table[s] # Unborn
    BY <2>2, <2>3 DEF RecordMoves, Stored
  <2> QED
    BY <1>1, <2>1, <2>3, <2>4, <2>5, <2>6, IdleRests, SourceStepKept
       DEF Uploading, Cleaning, S
<1> QED
  BY <1>2, <1>3

\* A request that is cut off leaves its source known to be hit.
LEMMA CutOffStep ==
  ASSUME IInv, NEW c \in Client, cut_off(c)
  PROVE  IInv'
<1> PICK s: s = client[c].source
  OBVIOUS
<1>1. /\ Finish(c) /\ UNCHANGED <<product, table, disk, drawn, condemned>>
      /\ faults' \in 0..MaxFaults /\ hit' = IF s \in Source THEN hit \cup {s} ELSE hit
  BY SourcesAssumption DEF cut_off, S, IInv, TypeOK
<1>2. s \in drawn \cup {Unborn} /\ Unborn \notin Source
  BY SourcesAssumption DEF IInv, ClientOK, S
<1>3. client'[c] = Idle /\ ClientOK(c)'
  BY <1>1, EndedOK
<1>4. \A d \in Client \ {c}: client'[d] = client[d]
  BY <1>1 DEF Finish, IInv, TypeOK
<1>5. hit' \subseteq drawn'
  BY <1>1, <1>2 DEF IInv, TypeOK
<1>6. TypeOK'
  BY <1>1, <1>5, IdleRests DEF Finish, IInv, TypeOK
<1>7. CASE s \in Source
  <2>1. s \in drawn
    BY <1>2, <1>7
  <2>2. SourceOK(s)'
    BY <1>1, <1>7, <2>1 DEF IInv, SourceOK, Complete
  <2> QED
    BY <1>1, <1>3, <1>4, <1>6, <1>7, <2>2, IdleRests, SourceStepKept
       DEF Uploading, Cleaning, S, RecordMoves
<1>8. CASE s \notin Source
  <2>1. client[c].pc \notin Uploading
    BY <1>8, UploadKnows
  <2> QED
    BY <1>1, <1>3, <1>4, <1>6, <1>8, <2>1, IdleRests, SourceReadKept DEF Uploading, Cleaning
<1> QED
  BY <1>7, <1>8

(* ------------------------------ the invariant --------------------------- *)

\* Nobody works, nothing is stored.
LEMMA InitIInv == Init => IInv
<1> SUFFICES ASSUME Init PROVE IInv
  OBVIOUS
<1>1. product = Unborn /\ table = [s \in Source |-> Unborn] /\ disk = [s \in Source |-> NoFiles]
      /\ client = [c \in Client |-> Idle]
      /\ drawn = {} /\ condemned = {} /\ hit = {} /\ faults = 0
  BY DEF Init
<1>2. NoFiles \in [Part -> PartState]
  BY DEF NoFiles, PartState
<1>3. TypeOK
  BY <1>1, <1>2, IdleRests, SourcesAssumption DEF TypeOK
<1>4. ASSUME NEW c \in Client PROVE ClientOK(c)
  BY <1>1, IdleRests DEF ClientOK, ProductViewOK, UploadOK, CleanupOK, SourceViewOK, S, OnProduct,
                         Uploading, Cleaning, OnSource, Accepted
<1>5. OneOwner
  BY <1>1, IdleRests DEF OneOwner, Uploading, Cleaning
<1>6. ASSUME NEW s \in Source PROVE SourceOK(s)
  BY <1>1 DEF SourceOK, Stored
<1>7. IndexKeyMatchesRecord
  BY <1>1 DEF IndexKeyMatchesRecord, Stored
<1> QED
  BY <1>3, <1>4, <1>5, <1>6, <1>7 DEF IInv

\* Every step of a request keeps the invariant.
LEMMA SourceSteps ==
  ASSUME IInv, NEW c \in Client, SourceStep(c)
  PROVE  IInv'
<1>1. CASE \E s \in Source: create_text_source(c, s)
  <2> PICK s \in Source: Begin(c, s, "TEXT", "create")
    BY <1>1 DEF create_text_source
  <2>1. "TEXT" \in ProductSourceType
    BY DEF ProductSourceType
  <2> QED
    BY <2>1, BeginStep
<1>2. CASE \E s \in Source, u \in Upload: create_file_source(c, s, u)
  <2> PICK s \in Source, u \in Upload:
        validate_upload(u) /\ Begin(c, s, UPLOAD_TYPES[u.extension].source_type, "reserve_object")
    BY <1>2 DEF create_file_source
  <2> PICK type: type = UPLOAD_TYPES[u.extension].source_type
    OBVIOUS
  <2>1. type \in ProductSourceType /\ type # "TEXT"
    BY NewSource DEF FILE_BACKED_SOURCE_TYPES
  <2>2. Begin(c, s, type, "reserve_object")
    OBVIOUS
  <2> QED
    BY <2>1, <2>2, BeginStep
<1>3. CASE \/ save_reserve_object(c) \/ save_reserve_sidecar(c)
           \/ save_replace_object(c) \/ save_replace_sidecar(c)
  BY <1>3, SaveSteps
<1>4. CASE create_source(c) \/ save_fails(c) \/ \E applied \in BOOLEAN: create_fails(c, applied)
  BY <1>4, CreateSourceStep, SaveFailsStep, CreateFailsStep
<1>5. CASE \E s \in Source, v \in 1..MaxVersion, change \in SourceChange:
             update_source(c, s, v, change)
  BY <1>5, StartStep DEF update_source
<1>6. CASE update_source_read(c) \/ update_source_write(c)
  BY <1>6, UpdateReadStep, UpdateWriteStep
<1>7. CASE \E s \in Source, v \in 1..MaxVersion: delete_source(c, s, v)
  BY <1>7, StartStep DEF delete_source
<1>8. CASE delete_source_read(c) \/ storage_delete_object(c) \/ storage_delete_sidecar(c)
  BY <1>8, DeleteReadStep, DeleteObjectStep, DeleteSidecarStep
<1>9. CASE delete_metadata(c) \/ cut_off(c)
  BY <1>9, DeleteMetadataStep, CutOffStep
<1> QED
  BY <1>1, <1>2, <1>3, <1>4, <1>5, <1>6, <1>7, <1>8, <1>9 DEF SourceStep

\* The invariant says nothing of a step that changes nothing.
LEMMA StutterKept == IInv /\ UNCHANGED vars => IInv'
<1> SUFFICES ASSUME IInv, UNCHANGED vars PROVE IInv'
  OBVIOUS
<1>1. UNCHANGED <<product, client, table, disk, drawn, condemned, hit, faults>>
  BY DEF vars
<1>2. TypeOK' /\ IndexKeyMatchesRecord' /\ OneOwner'
  BY <1>1 DEF IInv, TypeOK, IndexKeyMatchesRecord, OneOwner, Owns, S
<1>3. ASSUME NEW c \in Client PROVE ClientOK(c)'
  BY <1>1 DEF IInv, ClientOK, ProductViewOK, UploadOK, CleanupOK, SourceViewOK, S, At
<1>4. ASSUME NEW s \in Source PROVE SourceOK(s)'
  BY <1>1 DEF IInv, SourceOK, Complete, S
<1> QED
  BY <1>2, <1>3, <1>4 DEF IInv

\* The invariant is inductive.
LEMMA NextIInv == IInv /\ [Next]_vars => IInv'
BY ProductSteps, SourceSteps, StutterKept DEF Next

(* -------------------------------- theorems ------------------------------ *)

\* The inductive invariant: no interleaving of PATCHes, uploads, updates,
\* deletes, failing calls and cut-off requests leaves it.
THEOREM SourcesInductive == Spec => []IInv
BY InitIInv, NextIInv, PTL DEF Spec

\* Every record, request and file is of its type in every reachable state.
THEOREM SourcesTypeCorrect == Spec => []TypeOK
<1>1. IInv => TypeOK
  BY DEF IInv
<1> QED
  BY <1>1, SourcesInductive, PTL

\* The second copy of category and status in the index key never parts from the
\* product (products.py update_product, dynamodb_products.py:204).
THEOREM IndexKeysMatch == Spec => []IndexKeyMatchesRecord
<1>1. IInv => IndexKeyMatchesRecord
  BY DEF IInv
<1> QED
  BY <1>1, SourcesInductive, PTL

\* A stored file source has both of its files, unless a delete was accepted for
\* it or its create was applied although it failed.
THEOREM StoredSourcesHaveTheirObjects == Spec => []StoredSourceHasItsObject
<1>1. IInv => StoredSourceHasItsObject
  BY DEF IInv, SourceOK, StoredSourceHasItsObject
<1> QED
  BY <1>1, SourcesInductive, PTL

\* Without a failing call or a cut-off request no file outlives its source.
THEOREM FilesLeakOnlyByFaults == Spec => []FilesLeakOnlyByFault
<1>1. IInv => FilesLeakOnlyByFault
  BY DEF IInv, SourceOK, FilesLeakOnlyByFault
<1> QED
  BY <1>1, SourcesInductive, PTL

\* Only update and mark_ready_to_publish write a product that is stored before
\* and after.
LEMMA ProductUpdates == IInv /\ Next => ProductUpdateBuilds
<1> SUFFICES ASSUME IInv, Next, Stored(product), Stored(product'), product' # product
             PROVE  \E c \in Client:
                      /\ client'[c] = Idle /\ product'.version = product.version + 1
                      /\ IF At(c, "patch")
                         THEN BuildsOn(product, product', client[c].change,
                                       {"version", "categoryStatusKey"})
                         ELSE BuildsOn(product, product', <<>>,
                                       {"version", "status", "categoryStatusKey"})
  BY DEF ProductUpdateBuilds
<1>1. ASSUME NEW c \in Client, SourceStep(c) PROVE product' = product
  BY <1>1 DEF SourceStep, create_text_source, create_file_source, Begin, save_reserve_object,
       save_reserve_sidecar, save_replace_object, save_replace_sidecar, FileStep, create_source,
       save_fails, create_fails, update_source, delete_source, Start, update_source_read,
       update_source_write, delete_source_read, storage_delete_object, storage_delete_sidecar,
       delete_metadata, cut_off, Metadata
<1>2. PICK c \in Client:
        \/ create_product(c)
        \/ \E change \in ProductChange, v \in 1..MaxVersion: update_product(c, change, v)
        \/ update(c)
        \/ judge_readiness(c) \/ mark_ready_read(c) \/ mark_ready_to_publish(c)
        \/ \E v \in 1..MaxVersion: delete_product(c, v)
        \/ delete(c)
  BY <1>1 DEF Next, ProductNext
<1>3. update(c) \/ mark_ready_to_publish(c)
  BY <1>2 DEF create_product, update_product, judge_readiness, mark_ready_read, delete_product,
              delete, Stored
<1>4. client'[c] = Idle
  BY <1>3, EndedOK DEF update, mark_ready_to_publish
<1>5. CASE update(c)
  <2>1. At(c, "patch")
    BY <1>5 DEF update
  <2> QED
    BY <1>4, <1>5, <2>1, PatchWrites
<1>6. CASE mark_ready_to_publish(c)
  <2>1. ~ At(c, "patch")
    BY <1>6 DEF mark_ready_to_publish, At
  <2> QED
    BY <1>4, <1>6, <2>1, ReadyWrites
<1> QED
  BY <1>3, <1>5, <1>6

\* Only update_source_write writes a source that is stored before and after.
LEMMA SourceUpdates == IInv /\ Next => \A s \in Source: SourceUpdateBuilds(s)
<1> SUFFICES ASSUME IInv, Next, NEW s \in Source,
                    Stored(table[s]), Stored(table'[s]), table'[s] # table[s]
             PROVE  SourceUpdateBuilds(s)
  BY DEF SourceUpdateBuilds
<1>1. PICK c \in Client: SourceStep(c)
  BY DEF Next
<1>2. \/ table' = table \/ create_source(c) \/ \E applied \in BOOLEAN: create_fails(c, applied)
      \/ update_source_write(c) \/ delete_metadata(c)
  BY <1>1 DEF SourceStep, create_text_source, create_file_source, Begin, save_reserve_object,
       save_reserve_sidecar, save_replace_object, save_replace_sidecar, FileStep,
       save_fails, update_source, delete_source, Start, update_source_read,
       delete_source_read, storage_delete_object, storage_delete_sidecar, cut_off
<1>3. update_source_write(c)
  <2>1. ~ delete_metadata(c)
    BY DEF delete_metadata, IInv, TypeOK, Stored
  <2>2. ASSUME create_source(c) \/ \E applied \in BOOLEAN: create_fails(c, applied)
        PROVE  FALSE
    <3> PICK t: t = client[c].source
      OBVIOUS
    <3>1. client[c].pc \in Uploading
      BY <2>2 DEF create_source, create_fails, At, Uploading
    <3>2. t \in Source /\ table[t] = Unborn
      BY <3>1, UploadKnows
    <3>3. table' = table \/ table' = [table EXCEPT ![t] = client[c].read]
      BY <2>2 DEF create_source, create_fails, S
    <3>4. table'[s] = table[s]
      BY <3>2, <3>3 DEF IInv, TypeOK, Stored
    <3> QED
      BY <3>4
  <2> QED
    BY <1>2, <2>1, <2>2
<1> PICK t: t = client[c].source
  OBVIOUS
<1>4. /\ t \in Source /\ table' = [table EXCEPT ![t] = table'[t]]
      /\ table'[t].version = table[t].version + 1
      /\ is_status_transition_allowed(table[t].status, table'[t].status)
      /\ BuildsOn(table[t], table'[t], client[c].change, {"version", "error_message"})
      /\ table'[t].error_message # table[t].error_message =>
           \/ ClearsError(table[t].status, table'[t].status)
           \/ "error_message" \in DOMAIN client[c].change
  BY <1>3, UpdateWrites
<1>5. t = s
  <2> PICK x: x = table'[t]
    OBVIOUS
  <2>1. table' = [table EXCEPT ![t] = x]
    BY <1>4
  <2> QED
    BY <2>1 DEF IInv, TypeOK
<1>6. At(c, "update_write") /\ S(c) = s
  BY <1>3, <1>5 DEF update_source_write, S
<1> QED
  BY <1>4, <1>5, <1>6 DEF SourceUpdateBuilds

\* No update is lost: every version of a product or a source builds on the one
\* before it, whatever was read when (products.py:92, product_sources.py:213).
THEOREM UpdatesBuild == Spec => UpdatesBuildOnTheStoredRecord
<1>1. IInv /\ [Next]_vars => [ProductUpdateBuilds /\ \A s \in Source: SourceUpdateBuilds(s)]_vars
  BY ProductUpdates, SourceUpdates
<1> QED
  BY <1>1, SourcesInductive, PTL DEF Spec, UpdatesBuildOnTheStoredRecord
================================================================================
