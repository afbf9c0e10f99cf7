--------------------------- MODULE ProductSources ---------------------------
(***************************************************************************)
(* ProductSourceService over DynamoDBProductSourceRepository and            *)
(* LocalObjectStorage: sources of one product are uploaded, updated and     *)
(* deleted by several requests.  An upload saves an object and its sidecar  *)
(* (two files, each reserved and then replaced), then stores the metadata;  *)
(* a delete removes the object, its sidecar and the metadata.  Each file    *)
(* operation and each database call is a step; any of them may fail, a      *)
(* write may be applied although its call reports an error, and a request   *)
(* may be cut off between two steps.                                        *)
(***************************************************************************)
EXTENDS Products

CONSTANTS Source,        \* source ids, each with the one object key generated for it
          Upload,        \* uploads tried: [extension, mime, content]
          SourceChange,  \* PATCH bodies of a source
          MaxFaults      \* bound: failing calls and cut-off requests

VARIABLES table,     \* metadata items by source id
          disk,      \* files of the source's object key
          drawn,     \* source ids handed out by uuid4
          condemned, \* history: sources a delete was accepted for, or whose create lied
          hit,       \* history: sources an operation of which failed or was cut off
          faults     \* failures so far

vars == <<product, client, table, disk, drawn, condemned, hit, faults>>
history == <<condemned, hit>>

-----------------------------------------------------------------------------
(* Upload validation *)

ProductSourceType == {"PDF", "IMAGE", "CSV", "TEXT"}
FILE_BACKED_SOURCE_TYPES == ProductSourceType \ {"TEXT"}

UPLOAD_TYPES ==
  [ext \in {".pdf", ".png", ".jpg", ".jpeg", ".webp", ".csv"} |->
     CASE ext = ".pdf" -> [source_type |-> "PDF", mime_types |-> {"application/pdf"}]
       [] ext = ".png" -> [source_type |-> "IMAGE", mime_types |-> {"image/png"}]
       [] ext = ".webp" -> [source_type |-> "IMAGE", mime_types |-> {"image/webp"}]
       [] ext = ".csv" -> [source_type |-> "CSV", mime_types |->
            {"text/csv", "application/csv", "application/vnd.ms-excel"}]
       [] OTHER -> [source_type |-> "IMAGE", mime_types |-> {"image/jpeg"}]]

\* The signature found in the first bytes of the stream.
Signature(ext) == CASE ext = ".pdf" -> "pdf" [] ext = ".png" -> "png" [] ext = ".webp" -> "webp"
                    [] ext = ".csv" -> "text" [] OTHER -> "jpeg"

validate_upload(u) ==
  /\ u.extension \in DOMAIN UPLOAD_TYPES
  /\ u.mime \in UPLOAD_TYPES[u.extension].mime_types
  /\ u.content = Signature(u.extension)

-----------------------------------------------------------------------------
(* Source records *)

ProductSourceStatus == {"PENDING", "READY", "PROCESSING", "COMPLETED", "FAILED"}
ALLOWED_TRANSITIONS ==
  [s \in ProductSourceStatus |->
     CASE s = "PENDING" -> {"READY", "FAILED"}
       [] s = "READY" -> {"PROCESSING", "FAILED"}
       [] s = "PROCESSING" -> {"COMPLETED", "FAILED"}
       [] s = "FAILED" -> {"READY"}
       [] s = "COMPLETED" -> {}]
is_status_transition_allowed(current, requested) ==
  requested = current \/ requested \in ALLOWED_TRANSITIONS[current]

\* The fields of a source that the requests read or write.
SourceFields == [status |-> ProductSourceStatus, display_name |-> Text, error_message |-> Text]
SourceRecord ==
  [source_type: ProductSourceType, status: ProductSourceStatus, display_name: Text,
   error_message: Text, version: 1..MaxVersion]

ASSUME SourcesAssumption ==
  /\ MaxFaults \in Nat /\ "none" \in Text
  /\ Unborn \notin Source /\ Unborn \notin SourceRecord /\ Gone \notin SourceRecord
  /\ \A change \in SourceChange: Edits(change, SourceFields)

ProductSource(type) == [source_type |-> type, status |-> "READY", display_name |-> "none",
                        error_message |-> "none", version |-> 1]
FileBacked(r) == r.source_type \in FILE_BACKED_SOURCE_TYPES

\* The two updates that drop the error of the attempt before.
ClearsError(old, new) == <<old, new>> \in {<<"FAILED", "READY">>, <<"PROCESSING", "COMPLETED">>}
Candidate(current, change) ==
  LET new == Replace(current, change)
  IN IF "status" \in DOMAIN change /\ ClearsError(current.status, change.status)
     THEN [new EXCEPT !.error_message = "none"] ELSE new

-----------------------------------------------------------------------------
(* Files of one object key: "object" and "sidecar", each absent, reserved
   (created empty and exclusively) or holding its data. *)

Part == {"object", "sidecar"}
PartState == {"absent", "reserved", "data"}
NoFiles == [part \in Part |-> "absent"]
Complete(s) == disk[s] = [part \in Part |-> "data"]
PathExists(s, part) == disk[s][part] # "absent"
reserve_exclusive(s, part) == ~PathExists(s, part) /\ disk' = [disk EXCEPT ![s][part] = "reserved"]
replace_reserved(s, part) == disk' = [disk EXCEPT ![s][part] = "data"]
unlink(s, part) == disk' = [disk EXCEPT ![s][part] = "absent"]

Goto(c, pc) == client' = [client EXCEPT ![c].pc = pc]
S(c) == client[c].source
Metadata == <<product, drawn, faults>>

Init ==
  /\ product = Unborn
  /\ client = [c \in Client |-> Idle]
  /\ table = [s \in Source |-> Unborn]
  /\ disk = [s \in Source |-> NoFiles]
  /\ drawn = {} /\ condemned = {} /\ hit = {} /\ faults = 0

-----------------------------------------------------------------------------
(* create_text_source, create_file_source: the parent is read, the id drawn. *)

Begin(c, s, type, pc) ==
  /\ At(c, "idle") /\ Stored(get_by_id(product)) /\ s \notin drawn
  /\ drawn' = drawn \cup {s}
  /\ client' = [client EXCEPT ![c] =
       [Idle EXCEPT !.pc = pc, !.source = s, !.read = ProductSource(type)]]
  /\ UNCHANGED <<product, table, disk, condemned, hit, faults>>

create_text_source(c, s) == Begin(c, s, "TEXT", "create")
\* save first streams data and sidecar into temporary files next to the destination.
create_file_source(c, s, u) ==
  validate_upload(u) /\ Begin(c, s, UPLOAD_TYPES[u.extension].source_type, "reserve_object")

FileStep(c, pc, effect, next) ==
  /\ At(c, pc) /\ effect /\ Goto(c, next)
  /\ UNCHANGED <<table, history, Metadata>>

save_reserve_object(c) ==
  FileStep(c, "reserve_object", reserve_exclusive(S(c), "object"), "reserve_sidecar")
save_reserve_sidecar(c) ==
  FileStep(c, "reserve_sidecar", reserve_exclusive(S(c), "sidecar"), "replace_object")
save_replace_object(c) ==
  FileStep(c, "replace_object", replace_reserved(S(c), "object"), "replace_sidecar")
save_replace_sidecar(c) ==
  FileStep(c, "replace_sidecar", replace_reserved(S(c), "sidecar"), "create")

create_source(c) ==
  /\ At(c, "create") /\ table[S(c)] = Unborn
  /\ table' = [table EXCEPT ![S(c)] = client[c].read]
  /\ Finish(c) /\ UNCHANGED <<disk, history, Metadata>>

(* save unlinks what it reserved and raises: a failing unlink is suppressed. *)
save_fails(c) ==
  /\ client[c].pc \in {"reserve_object", "reserve_sidecar", "replace_object", "replace_sidecar"}
  /\ faults < MaxFaults
  /\ \E kept \in SUBSET Part:
       /\ faults' = faults + 1 + (IF kept = {} THEN 0 ELSE 1) /\ faults' <= MaxFaults
       /\ disk' = [disk EXCEPT ![S(c)] = [part \in Part |-> IF part \in kept THEN @[part] ELSE "absent"]]
  /\ hit' = hit \cup {S(c)}
  /\ Finish(c) /\ UNCHANGED <<product, table, drawn, condemned>>

\* The metadata call fails, with or without effect; the uploaded object is cleaned up.
create_fails(c, applied) ==
  /\ At(c, "create") /\ faults < MaxFaults /\ faults' = faults + 1
  /\ table' = IF applied THEN [table EXCEPT ![S(c)] = client[c].read] ELSE table
  /\ condemned' = IF applied THEN condemned \cup {S(c)} ELSE condemned
  /\ hit' = hit \cup {S(c)}
  /\ IF FileBacked(client[c].read) THEN Goto(c, "cleanup_object") ELSE Finish(c)
  /\ UNCHANGED <<product, disk, drawn>>

-----------------------------------------------------------------------------
(* update_source *)

Start(c, s, v, change, pc) ==
  /\ At(c, "idle") /\ Stored(get_by_id(product))
  /\ Stored(table[s]) /\ KnownVersion(table[s], v)
  /\ client' = [client EXCEPT ![c] =
       [Idle EXCEPT !.pc = pc, !.source = s, !.version = v, !.change = change]]
  /\ UNCHANGED <<product, table, disk, drawn, history, faults>>

update_source(c, s, v, change) == Start(c, s, v, change, "update_read")

update_source_read(c) ==
  /\ At(c, "update_read")
  /\ LET current == get_by_id(table[S(c)]) IN
       IF /\ Stored(current)
          /\ "status" \in DOMAIN client[c].change =>
               is_status_transition_allowed(current.status, client[c].change.status)
       THEN client' = [client EXCEPT ![c].pc = "update_write", ![c].read = current]
       ELSE Finish(c)
  /\ UNCHANGED <<product, table, disk, drawn, history, faults>>

update_source_write(c) ==
  /\ At(c, "update_write") /\ Finish(c)
  /\ table' = IF VersionIs(table[S(c)], client[c].version) /\ client[c].version < MaxVersion
              THEN [table EXCEPT ![S(c)] = [Candidate(client[c].read, client[c].change)
                      EXCEPT !.version = client[c].version + 1]]
              ELSE table
  /\ UNCHANGED <<product, disk, drawn, history, faults>>

-----------------------------------------------------------------------------
(* delete_source; the cleanup of a failed upload calls the same delete of
   the storage. *)

delete_source(c, s, v) == Start(c, s, v, <<>>, "delete_read")

DeleteAccepted_any_version(source, expected) == TRUE
DeleteAccepted(source, expected) == source.version = expected

delete_source_read(c) ==
  /\ At(c, "delete_read")
  /\ LET source == get_by_id(table[S(c)]) IN
       IF Stored(source) /\ DeleteAccepted(source, client[c].version)
       THEN /\ condemned' = IF source.version = client[c].version
                              THEN condemned \cup {S(c)} ELSE condemned
            /\ client' = [client EXCEPT ![c].read = source, ![c].pc =
                 IF FileBacked(source) THEN "delete_object" ELSE "delete_metadata"]
       ELSE Finish(c) /\ UNCHANGED condemned
  /\ UNCHANGED <<product, table, disk, drawn, hit, faults>>

After_forgets_sidecar == [cleanup_object |-> "cleanup_sidecar", delete_object |-> "delete_metadata"]
After == [cleanup_object |-> "cleanup_sidecar", delete_object |-> "delete_sidecar"]

\* A missing object raises ObjectNotFoundError: the metadata stays.
storage_delete_object(c) ==
  /\ client[c].pc \in DOMAIN After
  /\ IF PathExists(S(c), "object")
     THEN unlink(S(c), "object") /\ Goto(c, After[client[c].pc])
     ELSE Finish(c) /\ UNCHANGED disk
  /\ UNCHANGED <<table, history, Metadata>>

storage_delete_sidecar(c) ==
  /\ client[c].pc \in {"cleanup_sidecar", "delete_sidecar"}
  /\ IF PathExists(S(c), "sidecar") THEN unlink(S(c), "sidecar") ELSE UNCHANGED disk
  /\ IF At(c, "delete_sidecar") THEN Goto(c, "delete_metadata") ELSE Finish(c)
  /\ UNCHANGED <<table, history, Metadata>>

delete_metadata(c) ==
  /\ At(c, "delete_metadata") /\ Finish(c)
  /\ table' = IF VersionIs(table[S(c)], client[c].version)
              THEN [table EXCEPT ![S(c)] = Gone] ELSE table
  /\ UNCHANGED <<disk, history, Metadata>>

(* Any other call of a request fails, or the request is cut off: it takes
   no further step. *)
cut_off(c) ==
  /\ ~At(c, "idle") /\ faults < MaxFaults /\ faults' = faults + 1
  /\ hit' = IF S(c) \in Source THEN hit \cup {S(c)} ELSE hit
  /\ Finish(c) /\ UNCHANGED <<product, table, disk, drawn, condemned>>

SourceStep(c) ==
  \/ \E s \in Source: create_text_source(c, s)
  \/ \E s \in Source, u \in Upload: create_file_source(c, s, u)
  \/ save_reserve_object(c) \/ save_reserve_sidecar(c)
  \/ save_replace_object(c) \/ save_replace_sidecar(c)
  \/ create_source(c) \/ save_fails(c)
  \/ \E applied \in BOOLEAN: create_fails(c, applied)
  \/ \E s \in Source, v \in 1..MaxVersion, change \in SourceChange: update_source(c, s, v, change)
  \/ update_source_read(c) \/ update_source_write(c)
  \/ \E s \in Source, v \in 1..MaxVersion: delete_source(c, s, v)
  \/ delete_source_read(c) \/ storage_delete_object(c) \/ storage_delete_sidecar(c)
  \/ delete_metadata(c) \/ cut_off(c)

Next ==
  \/ ProductNext /\ UNCHANGED <<table, disk, drawn, history, faults>>
  \/ \E c \in Client: SourceStep(c)

Spec == Init /\ [][Next]_vars

-----------------------------------------------------------------------------
Step == {"idle", "patch", "ready_read", "ready_write", "product_delete", "reserve_object",
         "reserve_sidecar", "replace_object", "replace_sidecar", "create", "cleanup_object",
         "cleanup_sidecar", "update_read", "update_write", "delete_read", "delete_object",
         "delete_sidecar", "delete_metadata"}

Request ==
  [pc: Step, source: Source \cup {Unborn}, read: ProductRecord \cup SourceRecord \cup {Unborn},
   version: 0..MaxVersion, change: ProductChange \cup SourceChange \cup [status: ProductStatus] \cup {<<>>}]

TypeOK ==
  /\ product \in ProductRecord \cup {Unborn, Gone}
  /\ client \in [Client -> Request]
  /\ table \in [Source -> SourceRecord \cup {Unborn, Gone}]
  /\ disk \in [Source -> [Part -> PartState]]
  /\ drawn \subseteq Source /\ condemned \subseteq drawn /\ hit \subseteq drawn
  /\ faults \in 0..MaxFaults

(* A stored file source has its whole object: the metadata is written only
   after both files were replaced (product_sources.py:477-496), no update
   and no delete with a stale version touches the files (:283), and nobody
   else's cleanup does.  The exceptions are the sources a delete was
   accepted for, and a create that was applied although its call reported
   an error, whose cleanup deletes the object of a stored source (:504). *)
StoredSourceHasItsObject ==
  \A s \in Source:
    Stored(table[s]) /\ FileBacked(table[s]) /\ s \notin condemned => Complete(s)

(* Files are leaked only by a failure: once no request works on a source
   that is not stored, none of its two files is left behind, unless a call
   failed or a request was cut off (local.py:83-97, product_sources.py:504). *)
FilesLeakOnlyByFault ==
  \A s \in Source:
    ~Stored(table[s]) /\ s \notin hit /\ (\A c \in Client: S(c) # s) => disk[s] = NoFiles

\* A new version of the product is what one PATCH or one readiness makes of the stored one.
ProductUpdateBuilds ==
  Stored(product) /\ Stored(product') /\ product' # product =>
    \E c \in Client:
      /\ client'[c] = Idle /\ product'.version = product.version + 1
      /\ IF At(c, "patch")
         THEN BuildsOn(product, product', client[c].change, {"version", "categoryStatusKey"})
         ELSE BuildsOn(product, product', <<>>, {"version", "status", "categoryStatusKey"})

\* A new version of a source is what one update makes of the stored one.
SourceUpdateBuilds(s) ==
  Stored(table[s]) /\ Stored(table'[s]) /\ table'[s] # table[s] =>
    /\ table'[s].version = table[s].version + 1
    /\ is_status_transition_allowed(table[s].status, table'[s].status)
    /\ \E c \in Client:
         At(c, "update_write") /\ S(c) = s
         /\ BuildsOn(table[s], table'[s], client[c].change, {"version", "error_message"})
    /\ table'[s].error_message # table[s].error_message =>
         \/ ClearsError(table[s].status, table'[s].status)
         \/ \E c \in Client: "error_message" \in DOMAIN client[c].change

(* Every version of a record is the version before it with the fields of
   one request replaced, its status one allowed step further: what a
   request read before somebody else's write never comes back
   (products.py:92, product_sources.py:213), because the read is consistent
   and the write demands the version the caller named. *)
UpdatesBuildOnTheStoredRecord ==
  [][ProductUpdateBuilds /\ \A s \in Source: SourceUpdateBuilds(s)]_vars

=============================================================================
