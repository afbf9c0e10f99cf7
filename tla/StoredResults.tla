---------------------------- MODULE StoredResults ----------------------------
(***************************************************************************)
(* The result repositories.  A result is a META record and child records   *)
(* under one partition key, written one put at a time (META first, in a    *)
(* transaction with the lineage guard where there is one) and read back    *)
(* page by page.  A reader may come between two puts, and a writer that    *)
(* fails leaves what it wrote: the reader compares what it found with the  *)
(* counts that META and the parent records carry.                          *)
(***************************************************************************)
EXTENDS ResultRepositories, Integers, FiniteSets

CONSTANTS Result,    \* result ids, all for one job or one lineage
          PageSize,  \* bound: records in one page of a query
          MaxFaults, \* bound: failing writes
          Nobody

ASSUME StoredResultsAssumption ==
  PageSize \in Nat \ {0} /\ MaxFaults \in Nat /\ Nobody \notin Result

-----------------------------------------------------------------------------
VARIABLES repo,    \* the repository of this behaviour
          items,   \* record keys stored under each result id
          guard,   \* the result the lineage guard names
          writer,  \* how far the create of each result is
          reader,  \* one get_by_id or get_by_job_id
          faults   \* failing writes so far

results == <<repo, items, guard, writer, reader, faults>>

Plan == Repository[repo].create.records
Whole == {Plan[i] : i \in 1..Len(Plan)}

\* Sort order of the record keys in a partition.
Kinds == <<"ARTIFACT", "ASSESSMENT", "ATTRIBUTE", "BLOCK", "BULLET", "CANDIDATE", "COMPONENT",
           "DESCRIPTION", "GROUP", "KEYWORD", "MATCH", "META", "PAGE", "REGION", "ROW", "SUMMARY",
           "TABLE", "TECHNICAL_SUMMARY", "TITLE">>
Rank(k) == 10 * (CHOOSE i \in 1..Len(Kinds): Kinds[i] = k.kind) + k.n

NoReader == [pc |-> "idle", id |-> Nobody, last |-> 0, seen |-> {}, got |-> "nothing",
             promised |-> FALSE]

ResultsInit ==
  /\ repo \in DOMAIN Repository
  /\ items = [r \in Result |-> {}] /\ guard = Nobody
  /\ writer = [r \in Result |-> [pc |-> "idle", next |-> 1]]
  /\ reader = NoReader /\ faults = 0

\* The condition of a put: attribute_not_exists of the guard's, of the record's key.
MayPut(r, i) == /\ Plan[i] \notin items[r]
                /\ i = 1 /\ Repository[repo].create.guarded => guard = Nobody

\* The records that one call writes, and where the next call continues.
Records(i) == IF Repository[repo].create.atomic THEN Whole ELSE {Plan[i]}
After(i) == IF Repository[repo].create.atomic THEN Len(Plan) + 1 ELSE i + 1

Put(r, i) ==
  /\ items' = [items EXCEPT ![r] = @ \cup Records(i)]
  /\ guard' = IF i = 1 /\ Repository[repo].create.guarded THEN r ELSE guard

\* Where a create that raises continues: with the caller's cleanup, if there is one.
Writing(r) == writer[r].pc = "writing"

put_record(r) ==
  /\ Writing(r) /\ writer[r].next \in 1..Len(Plan) /\ MayPut(r, writer[r].next)
  /\ Put(r, writer[r].next)
  /\ writer' = [writer EXCEPT ![r].next = After(@)]
  /\ UNCHANGED <<repo, reader, faults>>

create_returns(r) ==
  /\ Writing(r) /\ writer[r].next = Len(Plan) + 1
  /\ writer' = [writer EXCEPT ![r].pc = "done"]
  /\ UNCHANGED <<repo, items, guard, reader, faults>>

(* The conditional check fails; or the call fails, with or without effect. *)
create_raises(r) ==
  /\ Writing(r) /\ writer[r].next \in 1..Len(Plan)
  /\ \/ ~MayPut(r, writer[r].next) /\ UNCHANGED <<items, guard, faults>>
     \/ /\ MayPut(r, writer[r].next) /\ faults < MaxFaults /\ faults' = faults + 1
        /\ \/ UNCHANGED <<items, guard>>
           \/ Put(r, writer[r].next)
  /\ writer' = [writer EXCEPT ![r].pc = "raised"]
  /\ UNCHANGED <<repo, reader>>

-----------------------------------------------------------------------------
\* An index may show a META record any time after it was stored; the guard shows at once.
Shown(r) == \E l \in Repository[repo].lookups: IF l = "GUARD" THEN guard = r ELSE META \in items[r]

\* get_by_job_id and the other lookups find the id, and get_by_id reads the result.
find_result(r) ==
  /\ reader.pc = "idle" /\ Shown(r)
  /\ reader' = [NoReader EXCEPT !.pc = "query", !.id = r, !.promised = writer[r].pc = "done"]
  /\ UNCHANGED <<repo, items, guard, writer, faults>>

\* The records after the last key, in key order, at most a page of them.
Remaining == {k \in items[reader.id] : Rank(k) > reader.last}
Page == {k \in Remaining : Cardinality({j \in Remaining : Rank(j) < Rank(k)}) < PageSize}
LastKey_of_partition(page) == IF page = {} THEN reader.last ELSE Rank(CHOOSE k \in items[reader.id] : \A j \in items[reader.id] : Rank(j) <= Rank(k))
LastKey(page) == IF page = {} THEN reader.last
                 ELSE Rank(CHOOSE k \in page : \A j \in page : Rank(j) <= Rank(k))

query_page ==
  /\ reader.pc = "query"
  /\ reader' = [reader EXCEPT !.seen = @ \cup Page, !.last = LastKey(Page),
                              !.pc = IF Page = Remaining THEN "assemble" ELSE "query"]
  /\ UNCHANGED <<repo, items, guard, writer, faults>>

OfKind(S, kind) == {k \in S : k.kind = kind}

\* The numbers of META and of the parents against the records found.
from_items(S) ==
  IF S = {} THEN "nothing"
  ELSE IF META \in S /\ \A kind \in Repository[repo].counts: Cardinality(OfKind(S, kind)) = Cardinality(OfKind(Whole, kind))
       THEN "result" ELSE "serialization_error"

assemble ==
  /\ reader.pc = "assemble"
  /\ reader' = [reader EXCEPT !.pc = "returned", !.got = from_items(reader.seen)]
  /\ UNCHANGED <<repo, items, guard, writer, faults>>

reader_done ==
  /\ reader.pc = "returned" /\ reader' = NoReader
  /\ UNCHANGED <<repo, items, guard, writer, faults>>

ReaderStep == (\E r \in Result: find_result(r)) \/ query_page \/ assemble \/ reader_done

-----------------------------------------------------------------------------
(* A result that is returned has every record its writer stored, although
   the writer may be between two puts or have failed there, and although
   the pages are read at different times (get_by_id and _from_items of
   every repository). *)
ReadIsWhole == reader.got = "result" => reader.seen = Whole

(* A result whose create returned before the read began is read back: no
   record of it is skipped between two pages and no count refuses it. *)
CompletedResultReadsBack ==
  reader.pc = "returned" /\ reader.promised => reader.got = "result"

=============================================================================
