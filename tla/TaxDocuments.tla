---------------------------- MODULE TaxDocuments ----------------------------
(***************************************************************************)
(* The versioned accounting documents of one company and one tax period    *)
(* (accounting/services/tax-documents.service.ts): upload of a version,    *)
(* processing of its file, publication of the period's account rows,       *)
(* classification of historical balances and discarding of balances.       *)
(*                                                                         *)
(* Several HTTP requests run these handlers at once, in one API process or *)
(* in several.  A request is a record with the handler's local variables;  *)
(* the handlers are cut where they await the database or the storage.  A   *)
(* database transaction that only writes rows it has locked is one step;   *)
(* one that decides with the snapshot it took when it began (MySQL         *)
(* REPEATABLE READ) and writes later is two.  The tax_documents row of a   *)
(* request inside such a transaction is locked, by FOR UPDATE or by the    *)
(* foreign key of the import row it inserted.                              *)
(***************************************************************************)
EXTENDS Naturals, FiniteSets

CONSTANTS Docs,         \* identifiers of tax_documents rows, a bound on uploads
          Requests,     \* identifiers of concurrent HTTP requests
          Accounts,     \* internal account codes that files may mention
          Files,        \* what a file may parse to: account rows, no errors?
          None,         \* SQL NULL
          UploadSlots,  \* the slots users upload to in this instance
          Historical,   \* balances uploaded before balance_role existed
          MaxFaults     \* bound on crashes and failed updates of a status

(* A version series: the document type together with the balance role.     *)
BalanceSlots == {"opening", "closing", "historical"}
Slots == BalanceSlots \cup {"general_ledger", "journal"}

Statuses == {"absent", "uploaded", "processing", "processed", "superseded",
             "invalid", "processing_error", "discarded"}

(* Import statuses that hold usable rows (USABLE_BALANCE_STATUSES).        *)
Usable == {"processed", "superseded"}

ASSUME ConstantsAssumption ==
  /\ None \notin Docs
  /\ Files \subseteq [rows : SUBSET Accounts, valid : BOOLEAN]
  /\ UploadSlots \subseteq Slots \ {"historical"}
  /\ Historical \subseteq Docs
  /\ IsFiniteSet(Historical)
  /\ MaxFaults \in Nat

VARIABLES
  docs,       \* the tax_documents table
  imports,    \* balance_imports, general_ledger_imports, journal_imports
  accounts,   \* company_accounts, never deleted
  periodRows, \* tax_period_company_accounts, one row per account
  suggested,  \* accounts with an ACTIVE or REVIEW suggestion
  req,        \* the local state of every request
  faults      \* crashes and failed updates of a status so far

vars == <<docs, imports, accounts, periodRows, suggested, req, faults>>

-----------------------------------------------------------------------------
(* Tables and local state                                                  *)

Row == [slot : Slots, version : Nat, status : Statuses,
        discarded : BOOLEAN, replaces : Docs \cup {None}]

AbsentRow == [slot |-> "closing", version |-> 0, status |-> "absent",
              discarded |-> FALSE, replaces |-> None]

Uploaded(s, v) == [AbsentRow EXCEPT !.slot = s, !.version = v,
                                    !.status = "uploaded"]

Import == [slot : Slots \cup {"none"}, operational : BOOLEAN,
           entries : SUBSET Accounts]

NoImport == [slot |-> "none", operational |-> FALSE, entries |-> {}]

PeriodRow == [source : Docs \cup {None}, discardedBy : Docs \cup {None}]

(* Where a request is: before the INSERT of create; in process after       *)
(* loading the entity, after marking PROCESSING, after parsing, inside the *)
(* persist transaction, in the catch block; inside the transactions of     *)
(* classify and discard.                                                   *)
PCs == {"idle", "creating", "loaded", "processing", "parsed", "open",
        "failing", "classifying", "discarding"}

Request == [pc : PCs, doc : Docs \cup {None}, ent : Row,
            rows : SUBSET Accounts, valid : BOOLEAN,
            seen : Docs \cup {None}, fresh : SUBSET Accounts]

IdleRequest == [pc |-> "idle", doc |-> None, ent |-> AbsentRow, rows |-> {},
                valid |-> FALSE, seen |-> None, fresh |-> {}]

Exists(d) == docs[d].status # "absent"
HasImport(d) == imports[d].slot # "none"
Published(d) == HasImport(d) /\ imports[d].operational
Active(a) == periodRows[a].source # None /\ periodRows[a].discardedBy = None

(* The tax_documents row of d is locked by a transaction in progress.      *)
Locked(d) == \E q \in Requests : /\ req[q].pc \in {"open", "classifying", "discarding"}
                                 /\ req[q].doc = d

Finish(r) == req' = [req EXCEPT ![r] = IdleRequest]

(* An exception brings process to its catch block.                         *)
Fail(r) == req' = [req EXCEPT ![r] = [IdleRequest EXCEPT !.pc = "failing",
                                                         !.doc = req[r].doc]]

-----------------------------------------------------------------------------
(* The closing balance the rest of the system reads                        *)

(* Mutant: a closing whose last import failed still counts.                *)
IsAnyClosing(d) == /\ docs[d].slot = "closing"
                   /\ ~docs[d].discarded
                   /\ docs[d].status \in Usable \cup {"invalid", "processing_error"}

IsUsableClosing(d) == /\ docs[d].slot = "closing"
                      /\ ~docs[d].discarded
                      /\ docs[d].status \in Usable

CurrentClosing ==
  {d \in Docs : /\ IsUsableClosing(d)
                /\ \A e \in Docs : IsUsableClosing(e)
                     => docs[e].version <= docs[d].version}

-----------------------------------------------------------------------------
(* Initially only the historical balances exist, with their own versions.  *)

Init ==
  /\ \E ver \in [Historical -> 1..Cardinality(Historical)] :
       /\ \A d, e \in Historical : ver[d] = ver[e] => d = e
       /\ docs = [d \in Docs |-> IF d \in Historical
                                 THEN Uploaded("historical", ver[d])
                                 ELSE AbsentRow]
  /\ imports = [d \in Docs |-> NoImport]
  /\ accounts = {}
  /\ periodRows = [a \in Accounts |-> [source |-> None, discardedBy |-> None]]
  /\ suggested = {}
  /\ req = [r \in Requests |-> IdleRequest]
  /\ faults = 0

-----------------------------------------------------------------------------
(* create: the next version is computed from a read, the unique key on     *)
(* (type, role, version) decides at the INSERT.                            *)

VersionsOf(s) == {docs[d].version : d \in {e \in Docs : Exists(e) /\ docs[e].slot = s}}

Creating == {r \in Requests : req[r].pc = "creating"}

ReadLatestVersion(r, s) ==
  /\ req[r].pc = "idle"
  /\ Cardinality(Creating) < Cardinality({d \in Docs : ~Exists(d)})
  /\ \E latest \in VersionsOf(s) \cup {0} :
       /\ \A v \in VersionsOf(s) : v <= latest
       /\ req' = [req EXCEPT ![r] = [IdleRequest EXCEPT
                    !.pc = "creating", !.ent = Uploaded(s, latest + 1)]]
  /\ UNCHANGED <<docs, imports, accounts, periodRows, suggested, faults>>

VersionTaken(e) == \E d \in Docs : /\ Exists(d)
                                   /\ docs[d].slot = e.slot
                                   /\ docs[d].version = e.version

InsertDocument(r, d) ==
  /\ req[r].pc = "creating"
  /\ ~Exists(d)
  /\ ~VersionTaken(req[r].ent)
  /\ docs' = [docs EXCEPT ![d] = req[r].ent]
  /\ Finish(r)
  /\ UNCHANGED <<imports, accounts, periodRows, suggested, faults>>

InsertRejected(r) ==
  /\ req[r].pc = "creating"
  /\ VersionTaken(req[r].ent)
  /\ Finish(r)
  /\ UNCHANGED <<docs, imports, accounts, periodRows, suggested, faults>>

-----------------------------------------------------------------------------
(* process: any existing document may be processed, whatever its status.   *)

Load(r, d) ==
  /\ req[r].pc = "idle"
  /\ Exists(d)
  /\ req' = [req EXCEPT ![r] = [IdleRequest EXCEPT
               !.pc = "loaded", !.doc = d, !.ent = docs[d]]]
  /\ UNCHANGED <<docs, imports, accounts, periodRows, suggested, faults>>

MarkProcessing(r) ==
  /\ req[r].pc = "loaded"
  /\ ~Locked(req[r].doc)
  /\ docs' = [docs EXCEPT ![req[r].doc].status = "processing"]
  /\ req' = [req EXCEPT ![r].pc = "processing"]
  /\ UNCHANGED <<imports, accounts, periodRows, suggested, faults>>

(* The update that marks it is before the try: when it fails, applied or   *)
(* not, the request ends without its catch block.                          *)
MarkProcessingFails(r) ==
  /\ req[r].pc = "loaded"
  /\ faults < MaxFaults
  /\ faults' = faults + 1
  /\ \/ UNCHANGED docs
     \/ /\ ~Locked(req[r].doc)
        /\ docs' = [docs EXCEPT ![req[r].doc].status = "processing"]
  /\ Finish(r)
  /\ UNCHANGED <<imports, accounts, periodRows, suggested>>

(* The file is fetched and parsed: its account rows, and whether the       *)
(* report has no errors.                                                   *)
ReadFile(r, file) ==
  /\ req[r].pc = "processing"
  /\ req' = [req EXCEPT ![r].pc = "parsed", ![r].rows = file.rows,
                        ![r].valid = file.valid]
  /\ UNCHANGED <<docs, imports, accounts, periodRows, suggested, faults>>

(* Mutant: the exception escapes process.                                  *)
ReadFileEscapes(r) ==
  /\ req[r].pc = "processing"
  /\ Finish(r)
  /\ UNCHANGED <<docs, imports, accounts, periodRows, suggested, faults>>

ReadFileFails(r) ==
  /\ req[r].pc = "processing"
  /\ Fail(r)
  /\ UNCHANGED <<docs, imports, accounts, periodRows, suggested, faults>>

(* Mutant: the latest other version, be it older or newer.                 *)
ReplaceableAny(e, p) == /\ docs[p].slot = e.slot
                        /\ docs[p].status = "processed"
                        /\ docs[p].version # e.version

(* p is the version the publication of entity e replaces: the highest      *)
(* PROCESSED version of the same series below e's.                         *)
Replaceable(e, p) == /\ docs[p].slot = e.slot
                     /\ docs[p].status = "processed"
                     /\ docs[p].version < e.version

IsPrevious(e, p) ==
  \/ p = None /\ \A q \in Docs : ~Replaceable(e, q)
  \/ /\ p \in Docs
     /\ Replaceable(e, p)
     /\ \A q \in Docs : Replaceable(e, q) => docs[q].version <= docs[p].version

(* Mutant: the accounts are assumed to exist.                              *)
NoNewAccounts(r) == {}

(* Accounts of a valid balance that its publication must insert.           *)
NewAccounts(r) == IF req[r].valid /\ req[r].ent.slot \in BalanceSlots
                  THEN req[r].rows \ accounts
                  ELSE {}

(* Mutant: the import row is upserted.                                     *)
OpenPersistUpsert(r, p) ==
  /\ req[r].pc = "parsed"
  /\ ~Locked(req[r].doc)
  /\ IF req[r].valid THEN IsPrevious(req[r].ent, p) ELSE p = None
  /\ req' = [req EXCEPT ![r].pc = "open", ![r].seen = p, ![r].fresh = NewAccounts(r)]
  /\ UNCHANGED <<docs, imports, accounts, periodRows, suggested, faults>>

(* The persist transaction begins: the import row goes in, unless the      *)
(* document already has one, and the snapshot of its reads is taken.       *)
OpenPersist(r, p) ==
  /\ req[r].pc = "parsed"
  /\ ~Locked(req[r].doc)
  /\ ~HasImport(req[r].doc)
  /\ IF req[r].valid THEN IsPrevious(req[r].ent, p) ELSE p = None
  /\ req' = [req EXCEPT ![r].pc = "open", ![r].seen = p, ![r].fresh = NewAccounts(r)]
  /\ UNCHANGED <<docs, imports, accounts, periodRows, suggested, faults>>

DuplicateImport(r) ==
  /\ req[r].pc = "parsed"
  /\ ~Locked(req[r].doc)
  /\ HasImport(req[r].doc)
  /\ Fail(r)
  /\ UNCHANGED <<docs, imports, accounts, periodRows, suggested, faults>>

Publishes(r) == req[r].valid /\ req[r].ent.slot \in {"closing", "historical"}

(* Mutant: the rows of the closing published before stay in force.         *)
MergedRows(r) ==
  [a \in Accounts |-> IF Publishes(r) /\ a \in req[r].rows
                        THEN [source |-> req[r].doc, discardedBy |-> None]
                      ELSE periodRows[a]]

PublishedRows(r) ==
  [a \in Accounts |->
    IF Publishes(r) /\ a \in req[r].rows
      THEN [source |-> req[r].doc, discardedBy |-> None]
    ELSE IF Publishes(r) /\ req[r].ent.slot = "closing" /\ Active(a)
      THEN [periodRows[a] EXCEPT !.discardedBy = req[r].doc]
    ELSE periodRows[a]]

(* Mutant: the status does not depend on the report.                       *)
SavedProcessed(r) ==
  [req[r].ent EXCEPT !.status = "processed",
                     !.replaces = IF req[r].seen = None THEN @ ELSE req[r].seen]

(* save(document) rewrites every column from the entity loaded before the  *)
(* file was read; save(previous) rewrites its status.                      *)
SavedDocument(r) ==
  [req[r].ent EXCEPT
     !.status = IF req[r].valid THEN "processed" ELSE "invalid",
     !.replaces = IF req[r].seen = None THEN @ ELSE req[r].seen]

SavedDocs(r) ==
  [d \in Docs |->
    IF d = req[r].doc THEN SavedDocument(r)
    ELSE IF d = req[r].seen THEN [docs[d] EXCEPT !.status = "superseded"]
    ELSE docs[d]]

(* The answer of the COMMIT may be lost: then the catch block runs although *)
(* everything is in.                                                       *)
CommitPersist(r) ==
  /\ req[r].pc = "open"
  /\ req[r].valid => req[r].rows # {}
  /\ req[r].fresh \cap accounts = {}
  /\ req[r].seen # None => ~Locked(req[r].seen)
  /\ imports' = [imports EXCEPT ![req[r].doc] =
                   [slot |-> req[r].ent.slot, operational |-> req[r].valid,
                    entries |-> req[r].rows]]
  /\ docs' = SavedDocs(r)
  /\ accounts' = accounts \cup req[r].fresh
  /\ periodRows' = PublishedRows(r)
  /\ Finish(r) \/ Fail(r)
  /\ UNCHANGED <<suggested, faults>>

(* No valid row, an account another import just inserted, a deadlock or a  *)
(* lost connection: the transaction rolls back and the catch block runs.   *)
RollbackPersist(r) ==
  /\ req[r].pc = "open"
  /\ Fail(r)
  /\ UNCHANGED <<docs, imports, accounts, periodRows, suggested, faults>>

(* Mutant: a status the enum does not have.                                *)
MarkFailed(r) ==
  /\ req[r].pc = "failing"
  /\ ~Locked(req[r].doc)
  /\ docs' = [docs EXCEPT ![req[r].doc].status = "failed"]
  /\ Finish(r)
  /\ UNCHANGED <<imports, accounts, periodRows, suggested, faults>>

MarkError(r) ==
  /\ req[r].pc = "failing"
  /\ ~Locked(req[r].doc)
  /\ docs' = [docs EXCEPT ![req[r].doc].status = "processing_error"]
  /\ Finish(r)
  /\ UNCHANGED <<imports, accounts, periodRows, suggested, faults>>

(* The update of the catch block is not tried again: it may wait too long  *)
(* for the row, or the connection may be lost.                             *)
MarkErrorFails(r) ==
  /\ req[r].pc = "failing"
  /\ faults < MaxFaults
  /\ faults' = faults + 1
  /\ Finish(r)
  /\ UNCHANGED <<docs, imports, accounts, periodRows, suggested>>

-----------------------------------------------------------------------------
(* classifyHistoricalBalance: the checks read a snapshot, the row is held. *)

BeginClassify(r, d, role) ==
  /\ req[r].pc = "idle"
  /\ Exists(d) /\ ~Locked(d)
  /\ docs[d].slot = "historical"
  /\ \A e \in Docs : ~(docs[e].slot = role /\ docs[e].status = "processed")
  /\ ~VersionTaken([docs[d] EXCEPT !.slot = role])
  /\ req' = [req EXCEPT ![r] = [IdleRequest EXCEPT
               !.pc = "classifying", !.doc = d,
               !.ent = [docs[d] EXCEPT !.slot = role]]]
  /\ UNCHANGED <<docs, imports, accounts, periodRows, suggested, faults>>

Unpublish(a, d) == [periodRows[a] EXCEPT !.discardedBy = d]

(* Mutant: classifying as opening keeps the published rows.                *)
ClassifyKeepingRows(r) ==
  /\ req[r].pc = "classifying"
  /\ ~VersionTaken(req[r].ent)
  /\ docs' = [docs EXCEPT ![req[r].doc] = req[r].ent]
  /\ Finish(r)
  /\ UNCHANGED <<imports, accounts, periodRows, suggested, faults>>

CommitClassify(r) ==
  LET d == req[r].doc IN
  /\ req[r].pc = "classifying"
  /\ ~VersionTaken(req[r].ent)
  /\ docs' = [docs EXCEPT ![d] = req[r].ent]
  /\ periodRows' = [a \in Accounts |->
       IF /\ req[r].ent.slot = "opening"
          /\ periodRows[a].source = d /\ Active(a)
       THEN Unpublish(a, d) ELSE periodRows[a]]
  /\ Finish(r)
  /\ UNCHANGED <<imports, accounts, suggested, faults>>

(* The unique key rejects the new role, or the database fails.             *)
AbortClassify(r) ==
  /\ req[r].pc = "classifying"
  /\ Finish(r)
  /\ UNCHANGED <<docs, imports, accounts, periodRows, suggested, faults>>

-----------------------------------------------------------------------------
(* discard: of the active rows that come from d, the ones whose account is *)
(* in no other usable document.                                            *)

Affected(d) ==
  {a \in Accounts : /\ Active(a) /\ periodRows[a].source = d
                    /\ \A e \in Docs \ {d} : docs[e].status \in Usable /\ imports[e].slot \in BalanceSlots
                         => a \notin imports[e].entries}

BeginDiscard(r, d) ==
  /\ req[r].pc = "idle"
  /\ Exists(d) /\ ~Locked(d)
  /\ docs[d].slot \in BalanceSlots
  /\ docs[d].status # "discarded"
  /\ req' = [req EXCEPT ![r] = [IdleRequest EXCEPT
               !.pc = "discarding", !.doc = d, !.ent = docs[d],
               !.rows = Affected(d)]]
  /\ UNCHANGED <<docs, imports, accounts, periodRows, suggested, faults>>

CommitDiscard(r) ==
  LET d == req[r].doc IN
  /\ req[r].pc = "discarding"
  /\ suggested' = suggested \ req[r].rows
  /\ periodRows' = [a \in Accounts |->
       IF a \in req[r].rows /\ periodRows[a].source = d /\ Active(a)
       THEN Unpublish(a, d) ELSE periodRows[a]]
  /\ docs' = [docs EXCEPT ![d] = [req[r].ent EXCEPT !.status = "discarded",
                                                    !.discarded = TRUE]]
  /\ Finish(r)
  /\ UNCHANGED <<imports, accounts, faults>>

AbortDiscard(r) ==
  /\ req[r].pc = "discarding"
  /\ Finish(r)
  /\ UNCHANGED <<docs, imports, accounts, periodRows, suggested, faults>>

-----------------------------------------------------------------------------
(* Suggestion generation over the current closing balance (summary of      *)
(* AccountSuggestionService.generate, modelled in AccountMappings).        *)

Suggest(a) ==
  /\ a \notin suggested
  /\ Active(a)
  /\ \E d \in CurrentClosing : a \in imports[d].entries
  /\ suggested' = suggested \cup {a}
  /\ UNCHANGED <<docs, imports, accounts, periodRows, req, faults>>

(* The process running r dies; its open transaction rolls back.            *)
Crash(r) ==
  /\ req[r].pc # "idle"
  /\ faults < MaxFaults
  /\ faults' = faults + 1
  /\ Finish(r)
  /\ UNCHANGED <<docs, imports, accounts, periodRows, suggested>>

Fault(r) == MarkProcessingFails(r) \/ MarkErrorFails(r) \/ Crash(r)

-----------------------------------------------------------------------------

(* What a client may ask for.                                              *)
Call(r) ==
  \/ \E s \in UploadSlots : ReadLatestVersion(r, s)
  \/ \E d \in Docs : Load(r, d) \/ BeginDiscard(r, d)
  \/ \E d \in Docs, role \in {"opening", "closing"} : BeginClassify(r, d, role)

(* The continuation of a request the server has accepted.                  *)
Continue(r) ==
  \/ (\E d \in Docs : InsertDocument(r, d)) \/ InsertRejected(r)
  \/ MarkProcessing(r)
  \/ (\E file \in Files : ReadFile(r, file))
  \/ ReadFileFails(r)
  \/ (\E p \in Docs \cup {None} : OpenPersist(r, p)) \/ DuplicateImport(r)
  \/ CommitPersist(r) \/ RollbackPersist(r)
  \/ MarkError(r)
  \/ CommitClassify(r) \/ AbortClassify(r)
  \/ CommitDiscard(r) \/ AbortDiscard(r)

Next == \/ \E r \in Requests : Call(r) \/ Continue(r) \/ Fault(r)
        \/ \E a \in Accounts : Suggest(a)

Spec == Init /\ [][Next]_vars

(* An accepted request runs to its end, and MySQL does not let it wait for *)
(* ever for a row lock that keeps being released (waiters queue), whence   *)
(* strong fairness; clients and faults owe nothing.                        *)
FairSpec == Spec /\ \A r \in Requests : SF_vars(Continue(r))

-----------------------------------------------------------------------------
(* Properties                                                              *)

(* Every table and every request has the shape the code gives it.          *)
TypeOK ==
  /\ docs \in [Docs -> Row]
  /\ imports \in [Docs -> Import]
  /\ accounts \subseteq Accounts
  /\ periodRows \in [Accounts -> PeriodRow]
  /\ suggested \subseteq Accounts
  /\ req \in [Requests -> Request]
  /\ faults \in 0..MaxFaults

(* No two documents of a series carry the same version, although create    *)
(* computes it from a stale read, classification moves documents between   *)
(* series and process writes back a stale series.                          *)
VersionsUnique ==
  \A d, e \in Docs :
    /\ Exists(d) /\ Exists(e)
    /\ docs[d].slot = docs[e].slot /\ docs[d].version = docs[e].version
    => d = e

(* A status that current-closing-balance.ts takes for "holds usable rows"  *)
(* means that a valid, non-empty import of the document was committed,     *)
(* whatever requests raced on it.                                          *)
UsableHasImport ==
  \A d \in Docs : docs[d].status \in Usable
                  => Published(d) /\ imports[d].entries # {}

(* A period row always leads back to a committed operational import that   *)
(* mentions the account, and to an account of the company: the audit trail *)
(* of the explorer never dangles.                                          *)
RowsAreTraceable ==
  \A a \in Accounts : periodRows[a].source # None =>
    /\ Published(periodRows[a].source)
    /\ a \in imports[periodRows[a].source].entries
    /\ a \in accounts

(* The rows in force that closings published come from one closing: two    *)
(* photographs of the year end are never mixed, even when two of them are  *)
(* processed at once.                                                      *)
OneClosingInForce ==
  \A a, b \in Accounts :
    /\ Active(a) /\ imports[periodRows[a].source].slot = "closing"
    /\ Active(b) /\ imports[periodRows[b].source].slot = "closing"
    => periodRows[a].source = periodRows[b].source

(* No row in force comes from an opening balance, not even from one that   *)
(* published as historical before, or while, it was classified.            *)
OpeningNeverInForce ==
  \A a \in Accounts : Active(a) => docs[periodRows[a].source].slot # "opening"

(* A document the log says it replaces was published and is older.         *)
ReplacesOlderPublication ==
  \A d \in Docs : docs[d].replaces # None =>
    /\ Published(docs[d].replaces)
    /\ docs[docs[d].replaces].version < docs[d].version

Attended(d) == \E r \in Requests :
                 /\ req[r].doc = d
                 /\ req[r].pc \in {"processing", "parsed", "open", "failing"}

(* "Cada importacion es inmutable": no step changes or removes an import.  *)
ImportsImmutable ==
  [][\A d \in Docs : HasImport(d) => imports'[d] = imports[d]]_vars

(* A row that a discard or a newer closing took out of force only returns  *)
(* by the publication of another document.                                 *)
RevivalIsRepublication ==
  [][\A a \in Accounts :
       periodRows[a].discardedBy # None /\ Active(a)'
       => periodRows'[a].source # periodRows[a].source]_vars

(* A document is superseded only in the step that publishes a newer one.   *)
SupersededByPublication ==
  [][\A d \in Docs :
       docs[d].status # "superseded" /\ docs'[d].status = "superseded"
       => \E e \in Docs : /\ docs'[e].replaces = d
                          /\ docs[e].version > docs[d].version
                          /\ ~HasImport(e) /\ Published(e)']_vars

(* "A newer failed import never shadows the last good closing": a step     *)
(* that ends the processing of a document that was not the current closing *)
(* in failure leaves the current closing as it was.                        *)
FailureNeverShadows ==
  [][\A d \in Docs \ CurrentClosing :
       /\ docs'[d].status \in {"invalid", "processing_error"}
       /\ docs[d] # docs'[d]
       => CurrentClosing' = CurrentClosing]_vars

(* Discarding a balance retires the open suggestions of the accounts it    *)
(* takes out of the period.                                                *)
DiscardRetiresSuggestions ==
  [][\A a \in Accounts, d \in Docs :
       /\ Active(a) /\ ~Active(a)'
       /\ docs[d].status # "discarded" /\ docs'[d].status = "discarded"
       => a \notin suggested']_vars

(* "Solo una version puede quedar activa" (README.md): one PROCESSED       *)
(* document per series.                                                    *)
OneVersionActive ==
  \A d, e \in Docs : /\ docs[d].status = "processed" /\ docs[e].status = "processed"
                     /\ docs[d].slot = docs[e].slot
                     => d = e

(* Every processing ends, whatever rows other requests lock and whatever   *)
(* step of it fails: a document stays PROCESSING for ever only when nobody *)
(* works on it any more because a process died, or because one of the two  *)
(* updates of the status, which nothing tries again, failed.               *)
ProcessingSettles ==
  \A d \in Docs : docs[d].status = "processing" ~>
                    docs[d].status # "processing" \/ (faults > 0 /\ ~Attended(d))

=============================================================================
