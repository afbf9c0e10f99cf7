--------------------------- MODULE TableProvisioning ---------------------------
(***************************************************************************)
(* create_tables.py run by several deployers at once: every function of    *)
(* main waits for DynamoDB, creates its table unless it is already there   *)
(* and waits until the table exists.  A table that is already there is     *)
(* left as it is, with the indexes it has.                                 *)
(***************************************************************************)
EXTENDS Tables

CONSTANTS Deployers,   \* processes running the script
          Attempts     \* list_tables calls of wait_for_dynamodb

ASSUME DeployersAssumption == Deployers # {}
ASSUME AttemptsAssumption == Attempts \in Nat \ {0}

VARIABLES tables,      \* [a table's name -> [status, indexes]], of the tables that exist
          older,       \* names of the tables that were there before the script ran
          deployer     \* [deployer -> [pc, at, attempt]]

provisioning == <<tables, older, deployer>>

Step == 1..Len(main)
IndexNames(table) == {index.name : index \in table.indexes}

(* An environment is new, has the products table of SPEC-002 with its two  *)
(* indexes, or was provided by the script, which is then not run again.    *)
Before(names) ==
  [n \in names |-> [status |-> "ACTIVE",
     indexes |-> IF names = {"products"}
                 THEN {"CreatedAtIndex", "StatusCreatedAtIndex"}
                 ELSE IndexNames(CHOOSE t \in {main[i] : i \in Step} : t.name = n)]]
AllNames == {main[i].name : i \in Step}

InitTables ==
  /\ older \in {{}, {"products"}, AllNames}
  /\ tables = Before(older)
  /\ deployer = [d \in Deployers |-> IF older = AllNames
                   THEN [pc |-> "provided", at |-> Len(main), attempt |-> 1]
                   ELSE [pc |-> "wait_for_dynamodb", at |-> 1, attempt |-> 1]]

At(d, pc) == deployer[d].pc = pc
Goto(d, pc) == deployer' = [deployer EXCEPT ![d].pc = pc]

\* main calls its functions one after the other.
NextFunction(p) ==
  IF p.at = Len(main) THEN [p EXCEPT !.pc = "provided"]
  ELSE [pc |-> "wait_for_dynamodb", at |-> p.at + 1, attempt |-> 1]

(* list_tables answers, or the bounded number of attempts is used up.      *)
wait_for_dynamodb(d) ==
  /\ At(d, "wait_for_dynamodb")
  /\ \E answers \in BOOLEAN :
       IF answers THEN Goto(d, "create_table")
       ELSE IF deployer[d].attempt = Attempts THEN Goto(d, "raised")
       ELSE deployer' = [deployer EXCEPT ![d].attempt = @ + 1]
  /\ UNCHANGED <<tables, older>>

\* The tables with one that is being created.
With(table) ==
  [n \in DOMAIN tables \cup {table.name} |->
     IF n = table.name THEN [status |-> "CREATING", indexes |-> IndexNames(table)]
                       ELSE tables[n]]

\* Waiting only for a table the call itself has created.
create_table_waiting_for_its_own(d) ==
  LET table == main[deployer[d].at] IN
  /\ At(d, "create_table")
  /\ IF table.name \in DOMAIN tables
     THEN UNCHANGED tables /\ deployer' = [deployer EXCEPT ![d] = NextFunction(@)]
     ELSE /\ tables' = With(table)
          /\ Goto(d, "table_exists")
  /\ UNCHANGED older

(* ResourceInUseException is the one error a function carries on after.    *)
create_table(d) ==
  LET table == main[deployer[d].at] IN
  /\ At(d, "create_table")
  /\ IF table.name \in DOMAIN tables
     THEN UNCHANGED tables
     ELSE tables' = With(table)
  /\ Goto(d, "table_exists")
  /\ UNCHANGED older

(* The waiter returns when the table is ACTIVE; main goes on to the next   *)
(* function, which waits for DynamoDB again.                               *)
table_exists(d) ==
  /\ At(d, "table_exists")
  /\ tables[main[deployer[d].at].name].status = "ACTIVE"
  /\ deployer' = [deployer EXCEPT ![d] = NextFunction(@)]
  /\ UNCHANGED <<tables, older>>

(* Another ClientError, the waiter giving up, or the script interrupted.   *)
CallFails(d) ==
  /\ deployer[d].pc \in {"create_table", "table_exists"}
  /\ Goto(d, "raised")
  /\ UNCHANGED <<tables, older>>

BecomesActive(name) ==
  /\ tables[name].status = "CREATING"
  /\ tables' = [tables EXCEPT ![name].status = "ACTIVE"]
  /\ UNCHANGED <<older, deployer>>

ProvisioningStep ==
  \/ \E d \in Deployers : wait_for_dynamodb(d) \/ create_table(d) \/ table_exists(d)
                          \/ CallFails(d)
  \/ \E name \in DOMAIN tables : BecomesActive(name)

(* The script returned to this deployer and seeding could begin.           *)
Provided(d) == deployer[d].pc \notin {"wait_for_dynamodb", "create_table", "table_exists",
                                      "raised"}

(***************************************************************************)
(* When the script has returned, whatever another deployer is doing at the *)
(* same time, every table can be used and has the indexes the script       *)
(* defines, except a table that was there before the script ran.           *)
(***************************************************************************)
ReturnedScriptProvided ==
  \A d \in Deployers : Provided(d) =>
    \A i \in Step : /\ main[i].name \in DOMAIN tables
                    /\ tables[main[i].name].status = "ACTIVE"
                    /\ \/ main[i].name \in older
                       \/ tables[main[i].name].indexes = IndexNames(main[i])
=============================================================================
