---------------------------- MODULE CatalogExport ----------------------------
(***************************************************************************)
(* CatalogExportService.export_for_job on top of its result repository:    *)
(* the three artifacts are saved as objects under the keys of the export,  *)
(* then the record is stored; whatever raises, the saved objects are       *)
(* deleted in reverse.  The other repositories are written without objects. *)
(***************************************************************************)
EXTENDS StoredResults

VARIABLES objects,  \* artifacts saved under each export id
          lied      \* history: exports whose call failed with effect, or was cut off

vars == <<results, objects, lied>>

Format == {1, 2, 3}  \* JSON, CSV, MANIFEST, in the order of the package

Init == ResultsInit /\ objects = [r \in Result |-> {}] /\ lied = {}

Saving(r) == writer[r].pc = "saving"

\* The lookups of _validate_setup may miss a result the index does not show yet.
begin(r) ==
  /\ writer[r].pc = "idle"
  /\ writer' = [writer EXCEPT ![r].pc = IF repo = "catalog_export" THEN "saving" ELSE "writing"]
  /\ UNCHANGED <<repo, items, guard, reader, faults, objects, lied>>

save_artifact(r) ==
  /\ Saving(r) /\ objects[r] # Format
  /\ objects' = [objects EXCEPT ![r] = @ \cup {Cardinality(@) + 1}]
  /\ writer' = [writer EXCEPT ![r].pc = IF objects'[r] = Format THEN "writing" ELSE "saving"]
  /\ UNCHANGED <<repo, items, guard, reader, faults, lied>>

\* A save that raises leaves no object; one whose size or checksum differs has left it.
save_raises(r) ==
  /\ Saving(r) /\ objects[r] # Format /\ faults < MaxFaults /\ faults' = faults + 1
  /\ \/ UNCHANGED objects
     \/ objects' = [objects EXCEPT ![r] = @ \cup {Cardinality(@) + 1}]
  /\ writer' = [writer EXCEPT ![r].pc = "raised"]
  /\ UNCHANGED <<repo, items, guard, reader, lied>>

SavedKeys_unless_stored(r) == IF META \in items[r] THEN 0 ELSE Cardinality(objects[r])
\* What is left to clean up when the export raises: the keys saved so far.
SavedKeys(r) == Cardinality(objects[r])
start_cleanup(r) ==
  /\ writer[r].pc = "raised"
  /\ writer' = [writer EXCEPT ![r].pc = "cleaning", ![r].next = SavedKeys(r)]
  /\ UNCHANGED <<repo, items, guard, reader, faults, objects, lied>>

\* The last key first; a delete that fails is logged and the next key is taken.
cleanup(r) ==
  /\ writer[r].pc = "cleaning" /\ writer[r].next > 0
  /\ \/ objects' = [objects EXCEPT ![r] = @ \ {writer[r].next}] /\ UNCHANGED <<faults, lied>>
     \/ /\ faults < MaxFaults /\ faults' = faults + 1 /\ lied' = lied \cup {r}
        /\ UNCHANGED objects
  /\ writer' = [writer EXCEPT ![r].next = @ - 1]
  /\ UNCHANGED <<repo, items, guard, reader>>

fail_job(r) ==
  /\ writer[r].pc = "cleaning" /\ writer[r].next = 0
  /\ writer' = [writer EXCEPT ![r].pc = "failed"]
  /\ UNCHANGED <<repo, items, guard, reader, faults, objects, lied>>

\* The process ends in the middle.
cut_off(r) ==
  /\ writer[r].pc \in {"saving", "writing", "raised", "cleaning"}
  /\ faults < MaxFaults /\ faults' = faults + 1
  /\ writer' = [writer EXCEPT ![r].pc = "failed"] /\ lied' = lied \cup {r}
  /\ UNCHANGED <<repo, items, guard, reader, objects>>

\* A write that took effect although its call failed.
Lies(r) == items'[r] # items[r]

Next ==
  \/ \E r \in Result:
       \/ begin(r) \/ save_artifact(r) \/ save_raises(r) \/ start_cleanup(r) \/ cleanup(r) \/ fail_job(r) \/ cut_off(r)
       \/ (put_record(r) \/ create_returns(r)) /\ UNCHANGED <<objects, lied>>
       \/ create_raises(r) /\ lied' = (IF Lies(r) THEN lied \cup {r} ELSE lied) /\ UNCHANGED objects
  \/ ReaderStep /\ UNCHANGED <<objects, lied>>

Spec == Init /\ [][Next]_vars

-----------------------------------------------------------------------------
TypeOK ==
  /\ \A r \in Result: items[r] \subseteq Whole /\ objects[r] \subseteq Format
  /\ guard \in Result \cup {Nobody}
  /\ \A r \in Result:
       /\ writer[r].pc \in {"idle", "saving", "writing", "raised", "cleaning", "done", "failed"}
       /\ writer[r].next \in 0..(Len(Plan) + 1)
  /\ reader.seen \subseteq Whole /\ faults \in 0..MaxFaults

(* An export that has ended is there with its three artifacts or not at
   all: a record that can be read has its objects, and one that cannot be
   read, even when META and the guard were stored before an artifact record
   failed (catalog_export.py:164), leaves no object behind.  Only a call
   that took effect although it failed, or a cleanup or request cut short,
   breaks this. *)
ExportIsAllOrNothing ==
  repo = "catalog_export" =>
    \A r \in Result \ lied:
      /\ writer[r].pc = "done" => items[r] = Whole /\ objects[r] = Format
      /\ writer[r].pc = "failed" => from_items(items[r]) # "result" /\ objects[r] = {}

=============================================================================
