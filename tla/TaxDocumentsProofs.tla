------------------------- MODULE TaxDocumentsProofs -------------------------
(***************************************************************************)
(* Proofs about TaxDocuments for any number of documents, requests and     *)
(* accounts.                                                               *)
(***************************************************************************)
EXTENDS TaxDocuments, TLAPS

(* What a request does in one step, with its parameters made explicit.     *)
LEMMA StepCases ==
  ASSUME [Next]_vars
  PROVE  \/ UNCHANGED vars
         \/ \E a \in Accounts : Suggest(a)
         \/ \E r \in Requests :
              \/ \E s \in UploadSlots : ReadLatestVersion(r, s)
              \/ \E d \in Docs : InsertDocument(r, d)
              \/ InsertRejected(r)
              \/ \E d \in Docs : Load(r, d)
              \/ MarkProcessing(r)
              \/ \E file \in Files : ReadFile(r, file)
              \/ ReadFileFails(r)
              \/ \E p \in Docs \cup {None} : OpenPersist(r, p)
              \/ DuplicateImport(r)
              \/ CommitPersist(r)
              \/ RollbackPersist(r)
              \/ MarkError(r)
              \/ \E d \in Docs, role \in {"opening", "closing"} : BeginClassify(r, d, role)
              \/ CommitClassify(r)
              \/ AbortClassify(r)
              \/ \E d \in Docs : BeginDiscard(r, d)
              \/ CommitDiscard(r)
              \/ AbortDiscard(r)
              \/ MarkProcessingFails(r)
              \/ MarkErrorFails(r)
              \/ Crash(r)
  BY DEF Next, Call, Continue, Fault, vars

-----------------------------------------------------------------------------
(* Typing                                                                  *)

(* No request and no document are typed.                                   *)
LEMMA IdleTyped == IdleRequest \in Request /\ AbsentRow \in Row
  BY DEF IdleRequest, Request, AbsentRow, Row, PCs, Slots, BalanceSlots, Statuses

(* A document just created is typed.                                       *)
LEMMA UploadedTyped ==
  ASSUME NEW s \in Slots, NEW v \in Nat
  PROVE  Uploaded(s, v) \in Row
  BY DEF Uploaded, AbsentRow, Row, Slots, BalanceSlots, Statuses

(* A document with another status is typed.                                *)
LEMMA RestatusTyped ==
  ASSUME NEW row \in Row, NEW s \in Statuses
  PROVE  [row EXCEPT !.status = s] \in Row
  BY DEF Row

(* TypeOK needs, besides itself, that a request past its first step names  *)
(* a document.                                                             *)
NamesDocument ==
  \A r \in Requests : req[r].pc \notin {"idle", "creating"} => req[r].doc \in Docs

(* The initial states.                                                     *)
LEMMA TypeInit == Init => TypeOK /\ NamesDocument
  <1> SUFFICES ASSUME Init PROVE TypeOK /\ NamesDocument
    OBVIOUS
  <1>1. docs \in [Docs -> Row]
    <2>1. PICK ver \in [Historical -> 1..Cardinality(Historical)] :
             docs = [d \in Docs |-> IF d \in Historical
                                    THEN Uploaded("historical", ver[d])
                                    ELSE AbsentRow]
      BY DEF Init
    <2>2. \A d \in Historical : Uploaded("historical", ver[d]) \in Row
      <3> SUFFICES ASSUME NEW d \in Historical
                   PROVE  Uploaded("historical", ver[d]) \in Row
        OBVIOUS
      <3>1. ver[d] \in 1..Cardinality(Historical)
        OBVIOUS
      <3>2. ver[d] \in Nat
        BY <3>1
      <3> QED BY <3>2, UploadedTyped DEF Slots, BalanceSlots
    <2> QED BY <2>1, <2>2, IdleTyped
  <1>2. imports \in [Docs -> Import]
    BY DEF Init, NoImport, Import
  <1>3. req \in [Requests -> Request] /\ NamesDocument
    BY IdleTyped DEF Init, NamesDocument, IdleRequest
  <1>4. faults \in 0..MaxFaults
    BY ConstantsAssumption DEF Init
  <1> QED BY <1>1, <1>2, <1>3, <1>4 DEF TypeOK, Init, PeriodRow

(* Every step keeps the types, and the document of every request under way. *)
LEMMA TypeStep == TypeOK /\ NamesDocument /\ [Next]_vars => (TypeOK /\ NamesDocument)'
  <1> SUFFICES ASSUME TypeOK, NamesDocument, [Next]_vars
               PROVE  (TypeOK /\ NamesDocument)'
    OBVIOUS
  <1> USE DEF TypeOK, NamesDocument
  <1>1. CASE UNCHANGED vars
    BY <1>1 DEF vars
  <1>2. ASSUME NEW a \in Accounts, Suggest(a) PROVE (TypeOK /\ NamesDocument)'
    BY <1>2 DEF Suggest
  <1>3. ASSUME NEW r \in Requests, NEW s \in UploadSlots, ReadLatestVersion(r, s)
        PROVE  (TypeOK /\ NamesDocument)'
    <2>1. PICK latest \in VersionsOf(s) \cup {0} :
             req' = [req EXCEPT ![r] = [IdleRequest EXCEPT
                        !.pc = "creating", !.ent = Uploaded(s, latest + 1)]]
      BY <1>3 DEF ReadLatestVersion
    <2>2. latest + 1 \in Nat
      BY DEF VersionsOf, Row
    <2>3. Uploaded(s, latest + 1) \in Row
      BY <2>2, UploadedTyped, ConstantsAssumption
    <2> QED BY <1>3, <2>1, <2>3, IdleTyped DEF ReadLatestVersion, Request, IdleRequest, PCs
  <1>4. ASSUME NEW r \in Requests, NEW d \in Docs, InsertDocument(r, d)
        PROVE  (TypeOK /\ NamesDocument)'
    BY <1>4, IdleTyped DEF InsertDocument, Finish, Request, IdleRequest
  <1>5. ASSUME NEW r \in Requests, InsertRejected(r) PROVE (TypeOK /\ NamesDocument)'
    BY <1>5, IdleTyped DEF InsertRejected, Finish, IdleRequest
  <1>6. ASSUME NEW r \in Requests, NEW d \in Docs, Load(r, d)
        PROVE  (TypeOK /\ NamesDocument)'
    BY <1>6, IdleTyped DEF Load, IdleRequest, Request, PCs
  <1>7. ASSUME NEW r \in Requests, MarkProcessing(r) PROVE (TypeOK /\ NamesDocument)'
    <2>1. req[r].doc \in Docs /\ req[r] \in Request
      BY <1>7 DEF MarkProcessing
    <2>2. [docs[req[r].doc] EXCEPT !.status = "processing"] \in Row
      BY <2>1, RestatusTyped DEF Statuses
    <2>3. docs' \in [Docs -> Row]
      BY <1>7, <2>2 DEF MarkProcessing
    <2>4. [req[r] EXCEPT !.pc = "processing"] \in Request
      BY <2>1 DEF Request, PCs
    <2>5. req' \in [Requests -> Request]
      BY <1>7, <2>4 DEF MarkProcessing
    <2> QED BY <1>7, <2>1, <2>3, <2>5 DEF MarkProcessing
  <1>8. ASSUME NEW r \in Requests, NEW file \in Files, ReadFile(r, file)
        PROVE  (TypeOK /\ NamesDocument)'
    <2>1. req[r].doc \in Docs /\ req[r] \in Request
      BY <1>8 DEF ReadFile
    <2>2. [req[r] EXCEPT !.pc = "parsed", !.rows = file.rows, !.valid = file.valid] \in Request
      BY <2>1, ConstantsAssumption DEF Request, PCs
    <2>3. req' \in [Requests -> Request]
      BY <1>8, <2>2 DEF ReadFile
    <2> QED BY <1>8, <2>1, <2>3 DEF ReadFile
  <1>9. ASSUME NEW r \in Requests, Fail(r), req[r].doc \in Docs,
               UNCHANGED <<docs, imports, accounts, periodRows, suggested, faults>>
        PROVE  (TypeOK /\ NamesDocument)'
    BY <1>9, IdleTyped DEF Fail, IdleRequest, Request, PCs
  <1>10. ASSUME NEW r \in Requests, NEW p \in Docs \cup {None}, OpenPersist(r, p)
         PROVE  (TypeOK /\ NamesDocument)'
    <2>1. req[r].doc \in Docs /\ req[r] \in Request
      BY <1>10 DEF OpenPersist
    <2>2. NewAccounts(r) \in SUBSET Accounts
      BY <2>1 DEF NewAccounts, Request
    <2>3. [req[r] EXCEPT !.pc = "open", !.seen = p, !.fresh = NewAccounts(r)] \in Request
      BY <2>1, <2>2 DEF Request, PCs
    <2>4. req' \in [Requests -> Request]
      BY <1>10, <2>3 DEF OpenPersist
    <2> QED BY <1>10, <2>1, <2>4 DEF OpenPersist
  <1>11. ASSUME NEW r \in Requests, CommitPersist(r) PROVE (TypeOK /\ NamesDocument)'
    <2> DEFINE d == req[r].doc
    <2>1. d \in Docs
      BY <1>11 DEF CommitPersist
    <2>2. req[r] \in Request
      OBVIOUS
    <2>3. docs' \in [Docs -> Row]
      <3>1. SavedDocument(r) \in Row
        BY <2>2 DEF SavedDocument, Request, Row, Statuses
      <3>2. \A e \in Docs : [docs[e] EXCEPT !.status = "superseded"] \in Row
        BY DEF Row, Statuses
      <3> QED BY <1>11, <3>1, <3>2 DEF CommitPersist, SavedDocs
    <2>4. imports' \in [Docs -> Import]
      BY <1>11, <2>1, <2>2 DEF CommitPersist, Import, Request, Row
    <2>5. accounts' \subseteq Accounts
      BY <1>11, <2>2 DEF CommitPersist, Request
    <2>6. periodRows' \in [Accounts -> PeriodRow]
      BY <1>11, <2>1 DEF CommitPersist, PublishedRows, PeriodRow
    <2>7. CASE Finish(r)
      BY <1>11, <2>3, <2>4, <2>5, <2>6, <2>7, IdleTyped DEF CommitPersist, Finish, IdleRequest
    <2>8. CASE Fail(r)
      <3>1. [IdleRequest EXCEPT !.pc = "failing", !.doc = d] \in Request
        BY <2>1, IdleTyped DEF Request, PCs
      <3>2. req' = [req EXCEPT ![r] = [IdleRequest EXCEPT !.pc = "failing", !.doc = d]]
        BY <2>8 DEF Fail
      <3>3. req' \in [Requests -> Request]
        BY <3>1, <3>2
      <3>4. NamesDocument'
        BY <2>1, <3>2 DEF IdleRequest
      <3> QED BY <1>11, <2>3, <2>4, <2>5, <2>6, <3>3, <3>4 DEF CommitPersist
    <2> QED BY <1>11, <2>7, <2>8
            DEF CommitPersist
  <1>12. ASSUME NEW r \in Requests, MarkError(r) PROVE (TypeOK /\ NamesDocument)'
    <2>1. req[r].doc \in Docs
      BY <1>12 DEF MarkError
    <2>2. [docs[req[r].doc] EXCEPT !.status = "processing_error"] \in Row
      BY <2>1, RestatusTyped DEF Statuses
    <2>3. docs' \in [Docs -> Row]
      BY <1>12, <2>2 DEF MarkError
    <2> QED BY <1>12, <2>3, IdleTyped DEF MarkError, Finish, IdleRequest
  <1>13. ASSUME NEW r \in Requests, NEW d \in Docs, NEW role \in {"opening", "closing"},
                BeginClassify(r, d, role)
         PROVE  (TypeOK /\ NamesDocument)'
    <2> DEFINE ent == [docs[d] EXCEPT !.slot = role]
    <2>1. ent \in Row
      BY DEF Row, Slots, BalanceSlots
    <2>2. [IdleRequest EXCEPT !.pc = "classifying", !.doc = d, !.ent = ent] \in Request
      BY <2>1, IdleTyped DEF Request, PCs
    <2>3. req' \in [Requests -> Request]
      BY <1>13, <2>2 DEF BeginClassify
    <2> QED BY <1>13, <2>3 DEF BeginClassify, IdleRequest
  <1>14. ASSUME NEW r \in Requests, CommitClassify(r) PROVE (TypeOK /\ NamesDocument)'
    <2>1. req[r].doc \in Docs /\ req[r] \in Request
      BY <1>14 DEF CommitClassify
    <2>2. periodRows' \in [Accounts -> PeriodRow]
      BY <1>14, <2>1 DEF CommitClassify, Unpublish, PeriodRow
    <2>3. docs' \in [Docs -> Row]
      BY <1>14, <2>1 DEF CommitClassify, Request
    <2> QED BY <1>14, <2>2, <2>3, IdleTyped DEF CommitClassify, Finish, IdleRequest
  <1>15. ASSUME NEW r \in Requests, Finish(r),
                UNCHANGED <<docs, imports, accounts, periodRows, suggested, faults>>
         PROVE  (TypeOK /\ NamesDocument)'
    BY <1>15, IdleTyped DEF Finish, IdleRequest
  <1>16. ASSUME NEW r \in Requests, NEW d \in Docs, BeginDiscard(r, d)
         PROVE  (TypeOK /\ NamesDocument)'
    BY <1>16, IdleTyped DEF BeginDiscard, Affected, IdleRequest, Request, PCs
  <1>17. ASSUME NEW r \in Requests, CommitDiscard(r) PROVE (TypeOK /\ NamesDocument)'
    <2>1. req[r].doc \in Docs /\ req[r] \in Request
      BY <1>17 DEF CommitDiscard
    <2>2. periodRows' \in [Accounts -> PeriodRow]
      BY <1>17, <2>1 DEF CommitDiscard, Unpublish, PeriodRow
    <2>3. docs' \in [Docs -> Row]
      BY <1>17, <2>1 DEF CommitDiscard, Request, Row, Statuses
    <2> QED BY <1>17, <2>2, <2>3, IdleTyped DEF CommitDiscard, Finish, IdleRequest
  <1>18. ASSUME NEW r \in Requests, Crash(r) PROVE (TypeOK /\ NamesDocument)'
    BY <1>18, IdleTyped, ConstantsAssumption DEF Crash, Finish, IdleRequest
  <1>19. ASSUME NEW r \in Requests, MarkErrorFails(r) PROVE (TypeOK /\ NamesDocument)'
    BY <1>19, IdleTyped, ConstantsAssumption DEF MarkErrorFails, Finish, IdleRequest
  <1>20. ASSUME NEW r \in Requests, MarkProcessingFails(r) PROVE (TypeOK /\ NamesDocument)'
    <2>1. req[r].doc \in Docs
      BY <1>20 DEF MarkProcessingFails
    <2>2. [docs[req[r].doc] EXCEPT !.status = "processing"] \in Row
      BY <2>1, RestatusTyped DEF Statuses
    <2>3. docs' \in [Docs -> Row]
      BY <1>20, <2>2 DEF MarkProcessingFails
    <2> QED BY <1>20, <2>3, IdleTyped, ConstantsAssumption DEF MarkProcessingFails, Finish, IdleRequest
  <1> QED
    BY <1>1, <1>2, <1>3, <1>4, <1>5, <1>6, <1>7, <1>8, <1>9, <1>10, <1>11, <1>12,
       <1>13, <1>14, <1>15, <1>16, <1>17, <1>18, <1>19, <1>20, StepCases
    DEF ReadFileFails, DuplicateImport, RollbackPersist, AbortClassify, AbortDiscard

(* Every table and every request keep the shape the code gives them.       *)
THEOREM TypeCorrect == Spec => [](TypeOK /\ NamesDocument)
  BY TypeInit, TypeStep, PTL DEF Spec

-----------------------------------------------------------------------------
(* Row locks and entities in memory                                        *)

Working == {"loaded", "processing", "parsed", "open"}
Holding == {"open", "classifying", "discarding"}
Engaged(r) == req[r].pc \notin {"idle", "creating"}

(* A tax_documents row is locked by one transaction at a time.             *)
HoldersExclusive ==
  \A q, r \in Requests : /\ req[q].pc \in Holding /\ req[r].pc \in Holding
                         /\ req[q].doc = req[r].doc
                         => q = r

(* The unique key of the import tables, seen from inside the transaction.  *)
OpenWithoutImport ==
  \A r \in Requests : req[r].pc = "open" => ~HasImport(req[r].doc)

(* Requests and imports are about documents that exist.                    *)
NamedExists ==
  /\ \A r \in Requests : Engaged(r) => Exists(req[r].doc)
  /\ \A d \in Docs : HasImport(d) => Exists(d)

(* Under the lock of classify and discard the entity is the row.           *)
HeldEntity ==
  \A r \in Requests :
    /\ req[r].pc = "discarding" => req[r].ent = docs[req[r].doc]
    /\ req[r].pc = "classifying" =>
         /\ docs[req[r].doc].slot = "historical"
         /\ req[r].ent.slot \in {"opening", "closing"}
         /\ req[r].ent = [docs[req[r].doc] EXCEPT !.slot = req[r].ent.slot]

(* Without a lock only the version is sure to be current; the series may   *)
(* be stale, but only because a historical balance has been classified, or *)
(* because another request imported the document and wrote back its own    *)
(* stale series, after which this one cannot import it.                    *)
StaleEntity ==
  \A r \in Requests : req[r].pc \in Working =>
    /\ req[r].ent.version = docs[req[r].doc].version
    /\ \/ req[r].ent.slot = docs[req[r].doc].slot
       \/ req[r].ent.slot = "historical" /\ req[r].doc \in Historical
       \/ HasImport(req[r].doc)

CreatedEntity ==
  \A r \in Requests : req[r].pc = "creating" =>
    /\ req[r].ent.slot \in UploadSlots
    /\ req[r].ent = Uploaded(req[r].ent.slot, req[r].ent.version)

HistoricalFixed ==
  /\ \A d \in Docs : docs[d].slot = "historical" => d \in Historical
  /\ \A d \in Historical : Exists(d)
  /\ \A d, e \in Historical : docs[d].version = docs[e].version => d = e

EntityInv == /\ TypeOK /\ NamesDocument
             /\ HoldersExclusive /\ OpenWithoutImport /\ NamedExists
             /\ HeldEntity /\ StaleEntity /\ CreatedEntity /\ HistoricalFixed

(* A step that only ends the handler of r, or sends it to its catch block. *)
Quits(r) ==
  /\ \/ Finish(r)
     \/ Fail(r) /\ Engaged(r)
  /\ UNCHANGED <<docs, imports, accounts, periodRows>>

(* A step that writes a status outside any transaction and ends the handler *)
(* of r.                                                                   *)
Closes(r) ==
  /\ req[r].pc \in {"loaded", "failing"}
  /\ ~Locked(req[r].doc)
  /\ \E status \in {"processing", "processing_error"} :
       docs' = [docs EXCEPT ![req[r].doc].status = status]
  /\ Finish(r)
  /\ UNCHANGED <<imports, accounts, periodRows, suggested>>

(* The steps, as far as they matter to requests and tables.                *)
LEMMA CoarseCases ==
  ASSUME [Next]_vars
  PROVE  \/ UNCHANGED <<docs, imports, accounts, periodRows, req>>
         \/ \E r \in Requests :
              \/ Quits(r)
              \/ \E s \in UploadSlots : ReadLatestVersion(r, s)
              \/ \E d \in Docs : InsertDocument(r, d)
              \/ \E d \in Docs : Load(r, d)
              \/ MarkProcessing(r)
              \/ \E file \in Files : ReadFile(r, file)
              \/ \E p \in Docs \cup {None} : OpenPersist(r, p)
              \/ CommitPersist(r)
              \/ Closes(r)
              \/ \E d \in Docs, role \in {"opening", "closing"} : BeginClassify(r, d, role)
              \/ CommitClassify(r)
              \/ \E d \in Docs : BeginDiscard(r, d)
              \/ CommitDiscard(r)
  BY StepCases DEF Quits, Engaged, InsertRejected, ReadFileFails, DuplicateImport,
     RollbackPersist, AbortClassify, AbortDiscard, Closes, MarkError, MarkErrorFails,
     MarkProcessingFails, Crash, Suggest, vars

(* The initial states.                                                     *)
LEMMA EntityInit == Init => EntityInv
  <1> SUFFICES ASSUME Init PROVE EntityInv
    OBVIOUS
  <1>1. \A r \in Requests : req[r].pc = "idle"
    BY DEF Init, IdleRequest
  <1>2. \A d \in Docs : ~HasImport(d)
    BY DEF Init, NoImport, HasImport
  <1>3. HistoricalFixed
    <2>1. PICK ver \in [Historical -> 1..Cardinality(Historical)] :
             /\ \A d, e \in Historical : ver[d] = ver[e] => d = e
             /\ docs = [d \in Docs |-> IF d \in Historical
                                       THEN Uploaded("historical", ver[d])
                                       ELSE AbsentRow]
      BY DEF Init
    <2> QED BY <2>1, ConstantsAssumption DEF HistoricalFixed, Exists, Uploaded, AbsentRow
  <1> QED
    BY <1>1, <1>2, <1>3, TypeInit
    DEF EntityInv, HoldersExclusive, OpenWithoutImport, NamedExists, Engaged,
        HeldEntity, StaleEntity, CreatedEntity, Holding, Working

(* Every step keeps what requests hold in memory as current as the locks make it. *)
LEMMA EntityStep == EntityInv /\ [Next]_vars => EntityInv'
  <1> SUFFICES ASSUME EntityInv, [Next]_vars PROVE EntityInv'
    OBVIOUS
  <1> USE DEF EntityInv
  <1>0. TypeOK' /\ NamesDocument'
    BY TypeStep
  <1>1. CASE UNCHANGED <<docs, imports, accounts, periodRows, req>>
    BY <1>0, <1>1 DEF HoldersExclusive, OpenWithoutImport, NamedExists, HeldEntity, StaleEntity,
       CreatedEntity, HistoricalFixed, Exists, HasImport, Engaged
  <1>2. ASSUME NEW r \in Requests, Quits(r) PROVE EntityInv'
    <2>1. UNCHANGED <<docs, imports>>
      BY <1>2 DEF Quits
    <2>2. \A q \in Requests : q # r => req'[q] = req[q]
      BY <1>2 DEF Quits, Finish, Fail, TypeOK
    <2>3. CASE Finish(r)
      <3>1. req'[r].pc = "idle"
        BY <2>3 DEF Finish, IdleRequest, TypeOK
      <3> QED BY <1>0, <2>1, <2>2, <3>1
              DEF HoldersExclusive, OpenWithoutImport, NamedExists, HeldEntity, StaleEntity,
                  CreatedEntity, HistoricalFixed, Holding, Working, Engaged, HasImport, Exists
    <2>4. CASE Fail(r) /\ Engaged(r)
      <3>1. req'[r].pc = "failing" /\ req'[r].doc = req[r].doc
        BY <2>4 DEF Fail, IdleRequest, TypeOK
      <3>2. Exists(req[r].doc)
        BY <2>4 DEF NamedExists
      <3> QED BY <1>0, <2>1, <2>2, <3>1, <3>2
              DEF HoldersExclusive, OpenWithoutImport, NamedExists, HeldEntity, StaleEntity,
                  CreatedEntity, HistoricalFixed, Holding, Working, Engaged, HasImport, Exists
    <2> QED BY <1>2, <2>3, <2>4 DEF Quits
  <1>3. ASSUME NEW r \in Requests, NEW s \in UploadSlots, ReadLatestVersion(r, s) PROVE EntityInv'
    <2>1. HoldersExclusive'
      BY <1>0, <1>3 DEF TypeOK, NamesDocument, Row, Request, HoldersExclusive, Holding, Locked, ReadLatestVersion, IdleRequest
    <2>2. OpenWithoutImport'
      BY <1>0, <1>3 DEF TypeOK, NamesDocument, Row, Request, OpenWithoutImport, HasImport, Holding, ReadLatestVersion, IdleRequest
    <2>3. NamedExists'
      BY <1>0, <1>3 DEF TypeOK, NamesDocument, Row, Request, NamedExists, Exists, HasImport, Engaged, ReadLatestVersion, IdleRequest
    <2>4. HeldEntity'
      BY <1>0, <1>3 DEF TypeOK, NamesDocument, Row, Request, HeldEntity, Locked, Holding, Exists, ReadLatestVersion, IdleRequest
    <2>5. StaleEntity'
      BY <1>0, <1>3 DEF TypeOK, NamesDocument, Row, Request, StaleEntity, Working, HasImport, Exists, ReadLatestVersion, IdleRequest
    <2>6. CreatedEntity'
      <3>1. PICK v \in VersionsOf(s) \cup {0} :
               req' = [req EXCEPT ![r] = [IdleRequest EXCEPT
                          !.pc = "creating", !.ent = Uploaded(s, v + 1)]]
        BY <1>3 DEF ReadLatestVersion
      <3>2. req'[r].ent = Uploaded(s, v + 1) /\ \A q \in Requests : q # r => req'[q] = req[q]
        BY <3>1 DEF IdleRequest, TypeOK
      <3>3. Uploaded(s, v + 1).slot = s /\ Uploaded(s, v + 1).version = v + 1
        BY DEF Uploaded, AbsentRow
      <3> QED BY <3>2, <3>3 DEF CreatedEntity
    <2>7. HistoricalFixed'
      BY <1>0, <1>3 DEF TypeOK, NamesDocument, Row, Request, HistoricalFixed, Exists, ReadLatestVersion, IdleRequest
    <2> QED BY <1>0, <2>1, <2>2, <2>3, <2>4, <2>5, <2>6, <2>7
  <1>4. ASSUME NEW r \in Requests, NEW d \in Docs, InsertDocument(r, d) PROVE EntityInv'
    <2>1. HoldersExclusive'
      BY <1>0, <1>4 DEF TypeOK, NamesDocument, Row, Request, HoldersExclusive, Holding, Locked, InsertDocument, Finish, IdleRequest
    <2>2. OpenWithoutImport'
      BY <1>0, <1>4 DEF TypeOK, NamesDocument, Row, Request, OpenWithoutImport, HasImport, Holding, InsertDocument, Finish, IdleRequest
    <2>3. NamedExists'
      BY <1>0, <1>4 DEF TypeOK, NamesDocument, Row, Request, NamedExists, Exists, HasImport, Engaged, InsertDocument, Finish, IdleRequest
    <2>4. HeldEntity'
      <3>1. req'[r].pc = "idle" /\ \A q \in Requests : q # r => req'[q] = req[q]
        BY <1>4 DEF InsertDocument, Finish, IdleRequest, TypeOK
      <3>2. \A e \in Docs : Exists(e) => docs'[e] = docs[e]
        BY <1>4 DEF InsertDocument, TypeOK
      <3>3. \A q \in Requests : Engaged(q) => docs'[req[q].doc] = docs[req[q].doc]
        BY <3>2 DEF NamedExists, NamesDocument, Engaged
      <3> QED BY <3>1, <3>3 DEF HeldEntity, Engaged
    <2>5. StaleEntity'
      <3>1. req'[r].pc = "idle" /\ \A q \in Requests : q # r => req'[q] = req[q]
        BY <1>4 DEF InsertDocument, Finish, IdleRequest, TypeOK
      <3>2. \A e \in Docs : Exists(e) => docs'[e] = docs[e]
        BY <1>4 DEF InsertDocument, TypeOK
      <3>3. \A q \in Requests : Engaged(q) => docs'[req[q].doc] = docs[req[q].doc]
        BY <3>2 DEF NamedExists, NamesDocument, Engaged
      <3>4. imports' = imports
        BY <1>4 DEF InsertDocument
      <3> QED BY <3>1, <3>3, <3>4 DEF StaleEntity, Engaged, Working, HasImport
    <2>6. CreatedEntity'
      BY <1>0, <1>4 DEF TypeOK, NamesDocument, Row, Request, CreatedEntity, Uploaded, AbsentRow, InsertDocument, Finish, IdleRequest
    <2>7. HistoricalFixed'
      <3>1. req'[r].pc = "idle" /\ \A q \in Requests : q # r => req'[q] = req[q]
        BY <1>4 DEF InsertDocument, Finish, IdleRequest, TypeOK
      <3>2. \A e \in Docs : Exists(e) => docs'[e] = docs[e]
        BY <1>4 DEF InsertDocument, TypeOK
      <3>3. docs'[d].slot # "historical"
        BY <1>4, ConstantsAssumption DEF InsertDocument, CreatedEntity, TypeOK, Uploaded, AbsentRow
      <3>4. d \notin Historical
        BY <1>4 DEF InsertDocument, HistoricalFixed
      <3>5. \A e \in Docs : e # d => docs'[e] = docs[e]
        BY <1>4 DEF InsertDocument, TypeOK
      <3> QED BY <3>3, <3>4, <3>5, ConstantsAssumption DEF HistoricalFixed, Exists
    <2> QED BY <1>0, <2>1, <2>2, <2>3, <2>4, <2>5, <2>6, <2>7
  <1>5. ASSUME NEW r \in Requests, NEW d \in Docs, Load(r, d) PROVE EntityInv'
    <2>1. HoldersExclusive'
      BY <1>0, <1>5 DEF TypeOK, NamesDocument, Row, Request, HoldersExclusive, Holding, Locked, Load, IdleRequest
    <2>2. OpenWithoutImport'
      BY <1>0, <1>5 DEF TypeOK, NamesDocument, Row, Request, OpenWithoutImport, HasImport, Holding, Load, IdleRequest
    <2>3. NamedExists'
      BY <1>0, <1>5 DEF TypeOK, NamesDocument, Row, Request, NamedExists, Exists, HasImport, Engaged, Load, IdleRequest
    <2>4. HeldEntity'
      BY <1>0, <1>5 DEF TypeOK, NamesDocument, Row, Request, HeldEntity, Locked, Holding, Exists, Load, IdleRequest
    <2>5. StaleEntity'
      BY <1>0, <1>5 DEF TypeOK, NamesDocument, Row, Request, StaleEntity, Working, HasImport, Exists, Load, IdleRequest
    <2>6. CreatedEntity'
      BY <1>0, <1>5 DEF TypeOK, NamesDocument, Row, Request, CreatedEntity, Uploaded, AbsentRow, Load, IdleRequest
    <2>7. HistoricalFixed'
      BY <1>0, <1>5 DEF TypeOK, NamesDocument, Row, Request, HistoricalFixed, Exists, Load, IdleRequest
    <2> QED BY <1>0, <2>1, <2>2, <2>3, <2>4, <2>5, <2>6, <2>7
  <1>6. ASSUME NEW r \in Requests, MarkProcessing(r) PROVE EntityInv'
    <2>1. HoldersExclusive'
      BY <1>0, <1>6 DEF TypeOK, NamesDocument, Row, Request, HoldersExclusive, Holding, Locked, MarkProcessing
    <2>2. OpenWithoutImport'
      BY <1>0, <1>6 DEF TypeOK, NamesDocument, Row, Request, OpenWithoutImport, HasImport, Holding, MarkProcessing
    <2>3. NamedExists'
      BY <1>0, <1>6 DEF TypeOK, NamesDocument, Row, Request, NamedExists, Exists, HasImport, Engaged, MarkProcessing
    <2>4. HeldEntity'
      BY <1>0, <1>6 DEF TypeOK, NamesDocument, Row, Request, HeldEntity, Locked, Holding, Exists, MarkProcessing
    <2>5. StaleEntity'
      BY <1>0, <1>6 DEF TypeOK, NamesDocument, Row, Request, StaleEntity, Working, HasImport, Exists, MarkProcessing
    <2>6. CreatedEntity'
      <3>1. req'[r].pc = "processing" /\ \A q \in Requests : q # r => req'[q] = req[q]
        BY <1>6 DEF MarkProcessing, TypeOK, Request
      <3> QED BY <3>1 DEF CreatedEntity
    <2>7. HistoricalFixed'
      BY <1>0, <1>6 DEF TypeOK, NamesDocument, Row, Request, HistoricalFixed, Exists, MarkProcessing
    <2> QED BY <1>0, <2>1, <2>2, <2>3, <2>4, <2>5, <2>6, <2>7
  <1>7. ASSUME NEW r \in Requests, NEW file \in Files, ReadFile(r, file) PROVE EntityInv'
    <2>1. HoldersExclusive'
      BY <1>0, <1>7 DEF TypeOK, NamesDocument, Row, Request, HoldersExclusive, Holding, Locked, ReadFile
    <2>2. OpenWithoutImport'
      BY <1>0, <1>7 DEF TypeOK, NamesDocument, Row, Request, OpenWithoutImport, HasImport, Holding, ReadFile
    <2>3. NamedExists'
      BY <1>0, <1>7 DEF TypeOK, NamesDocument, Row, Request, NamedExists, Exists, HasImport, Engaged, ReadFile
    <2>4. HeldEntity'
      BY <1>0, <1>7 DEF TypeOK, NamesDocument, Row, Request, HeldEntity, Locked, Holding, Exists, ReadFile
    <2>5. StaleEntity'
      BY <1>0, <1>7 DEF TypeOK, NamesDocument, Row, Request, StaleEntity, Working, HasImport, Exists, ReadFile
    <2>6. CreatedEntity'
      BY <1>0, <1>7 DEF TypeOK, NamesDocument, Row, Request, CreatedEntity, Uploaded, AbsentRow, ReadFile
    <2>7. HistoricalFixed'
      BY <1>0, <1>7 DEF TypeOK, NamesDocument, Row, Request, HistoricalFixed, Exists, ReadFile
    <2> QED BY <1>0, <2>1, <2>2, <2>3, <2>4, <2>5, <2>6, <2>7
  <1>8. ASSUME NEW r \in Requests, NEW p \in Docs \cup {None}, OpenPersist(r, p) PROVE EntityInv'
    <2>1. HoldersExclusive'
      BY <1>0, <1>8 DEF TypeOK, NamesDocument, Row, Request, HoldersExclusive, Holding, Locked, OpenPersist
    <2>2. OpenWithoutImport'
      BY <1>0, <1>8 DEF TypeOK, NamesDocument, Row, Request, OpenWithoutImport, HasImport, Holding, OpenPersist
    <2>3. NamedExists'
      BY <1>0, <1>8 DEF TypeOK, NamesDocument, Row, Request, NamedExists, Exists, HasImport, Engaged, OpenPersist
    <2>4. HeldEntity'
      BY <1>0, <1>8 DEF TypeOK, NamesDocument, Row, Request, HeldEntity, Locked, Holding, Exists, OpenPersist
    <2>5. StaleEntity'
      BY <1>0, <1>8 DEF TypeOK, NamesDocument, Row, Request, StaleEntity, Working, HasImport, Exists, OpenPersist
    <2>6. CreatedEntity'
      BY <1>0, <1>8 DEF TypeOK, NamesDocument, Row, Request, CreatedEntity, Uploaded, AbsentRow, OpenPersist
    <2>7. HistoricalFixed'
      BY <1>0, <1>8 DEF TypeOK, NamesDocument, Row, Request, HistoricalFixed, Exists, OpenPersist
    <2> QED BY <1>0, <2>1, <2>2, <2>3, <2>4, <2>5, <2>6, <2>7
  <1>9. ASSUME NEW r \in Requests, CommitPersist(r) PROVE EntityInv'
    <2> DEFINE d == req[r].doc
    <2>a. d \in Docs /\ req[r].pc = "open" /\ ~HasImport(d) /\ Exists(d)
      BY <1>9 DEF CommitPersist, NamesDocument, OpenWithoutImport, NamedExists, Engaged
    <2>b. /\ req'[r].pc = "idle" \/ (req'[r].pc = "failing" /\ req'[r].doc = d)
          /\ \A q \in Requests : q # r => req'[q] = req[q]
      <3>1. CASE Finish(r)
        <4>1. req' = [req EXCEPT ![r] = IdleRequest]
          BY <3>1 DEF Finish
        <4>2. req'[r] = IdleRequest /\ \A q \in Requests : q # r => req'[q] = req[q]
          BY <4>1 DEF TypeOK
        <4>3. IdleRequest.pc = "idle"
          BY DEF IdleRequest
        <4> QED BY <4>2, <4>3
      <3>2. CASE Fail(r)
        BY <3>2 DEF Fail, IdleRequest, TypeOK
      <3> QED BY <1>9, <3>1, <3>2 DEF CommitPersist
    <2>c. docs'[d] = SavedDocument(r)
      BY <1>9, <2>a DEF CommitPersist, SavedDocs
    <2>i. \A e \in Docs : e # d /\ e # req[r].seen => docs'[e] = docs[e]
      BY <1>9, <2>a DEF CommitPersist, SavedDocs
    <2>j. \A e \in Docs : e # d => /\ docs'[e].slot = docs[e].slot
                                 /\ docs'[e].version = docs[e].version
                                 /\ docs'[e].status \in {docs[e].status, "superseded"}
      BY <1>9, <2>a DEF CommitPersist, SavedDocs, TypeOK, Row
    <2>d. /\ SavedDocument(r).slot = req[r].ent.slot
          /\ SavedDocument(r).version = req[r].ent.version
          /\ SavedDocument(r).status \in {"processed", "invalid"}
      BY DEF SavedDocument, TypeOK, Request, Row
    <2>e. /\ req[r].ent.version = docs[d].version
          /\ \/ req[r].ent.slot = docs[d].slot
             \/ req[r].ent.slot = "historical" /\ d \in Historical
      BY <2>a DEF StaleEntity, Working
    <2>f. \A e \in Docs : e # d => imports'[e] = imports[e]
      BY <1>9 DEF CommitPersist, TypeOK
    <2>g. imports'[d].slot = req[r].ent.slot /\ req[r].ent.slot # "none"
      BY <1>9, <2>a DEF CommitPersist, TypeOK, Request, Row, Slots, BalanceSlots
    <2>h. \A q \in Requests : q # r /\ req[q].pc \in Holding => req[q].doc # d
      BY <2>a DEF HoldersExclusive, Holding
    <2>1. HoldersExclusive'
      BY <2>b DEF HoldersExclusive, Holding
    <2>2. OpenWithoutImport'
      BY <2>b, <2>f, <2>h DEF OpenWithoutImport, HasImport, Holding, NamesDocument
    <2>3. NamedExists'
      <3>1. \A e \in Docs : Exists(e) => Exists(e)'
        BY <2>c, <2>d, <2>j DEF Exists
      <3>2. \A e \in Docs : HasImport(e)' => Exists(e)'
        BY <2>a, <2>f, <3>1 DEF NamedExists, HasImport
      <3> QED BY <2>a, <2>b, <3>1, <3>2 DEF NamedExists, Engaged, NamesDocument
    <2>4. HeldEntity'
      <3>1. \A q \in Requests : q # r /\ req[q].pc \in Holding => req[q].doc # req[r].seen
        BY <1>9, ConstantsAssumption DEF CommitPersist, Locked, NamesDocument, Holding
      <3> QED BY <2>b, <2>i, <2>h, <3>1 DEF HeldEntity, Holding, NamesDocument
    <2>5. StaleEntity'
      <3> SUFFICES ASSUME NEW q \in Requests, q # r, req[q].pc \in Working
                   PROVE  /\ req[q].ent.version = docs'[req[q].doc].version
                          /\ \/ req[q].ent.slot = docs'[req[q].doc].slot
                             \/ req[q].ent.slot = "historical" /\ req[q].doc \in Historical
                             \/ HasImport(req[q].doc)'
        BY <2>b DEF StaleEntity, Working
      <3>1. req[q].doc \in Docs
        BY DEF NamesDocument, Working
      <3>2. CASE req[q].doc = d
        BY <2>c, <2>d, <2>e, <2>g, <3>1, <3>2, <2>b DEF StaleEntity, HasImport
      <3>3. CASE req[q].doc # d
        BY <2>b, <2>j, <2>f, <3>1, <3>3 DEF StaleEntity, HasImport
      <3> QED BY <3>2, <3>3
    <2>6. CreatedEntity'
      BY <2>b DEF CreatedEntity
    <2>7. HistoricalFixed'
      <3>1. \A e \in Docs : Exists(e) => Exists(e)'
        BY <2>c, <2>d, <2>j DEF Exists
      <3>2. \A e \in Docs : docs'[e].version = docs[e].version
        BY <2>c, <2>d, <2>e, <2>j
      <3>3. \A e \in Docs : docs'[e].slot = "historical" => e \in Historical
        BY <2>c, <2>d, <2>e, <2>j DEF HistoricalFixed
      <3> QED BY <3>1, <3>2, <3>3, ConstantsAssumption DEF HistoricalFixed
    <2> QED BY <1>0, <2>1, <2>2, <2>3, <2>4, <2>5, <2>6, <2>7
  <1>10. ASSUME NEW r \in Requests, Closes(r) PROVE EntityInv'
    <2>1. HoldersExclusive'
      BY <1>0, <1>10 DEF TypeOK, NamesDocument, Row, Request, HoldersExclusive, Holding, Locked, Closes, Finish, IdleRequest
    <2>2. OpenWithoutImport'
      BY <1>0, <1>10 DEF TypeOK, NamesDocument, Row, Request, OpenWithoutImport, HasImport, Holding, Closes, Finish, IdleRequest
    <2>3. NamedExists'
      BY <1>0, <1>10 DEF TypeOK, NamesDocument, Row, Request, NamedExists, Exists, HasImport, Engaged, Closes, Finish, IdleRequest
    <2>4. HeldEntity'
      BY <1>0, <1>10 DEF TypeOK, NamesDocument, Row, Request, HeldEntity, Locked, Holding, Exists, Closes, Finish, IdleRequest
    <2>5. StaleEntity'
      BY <1>0, <1>10 DEF TypeOK, NamesDocument, Row, Request, StaleEntity, Working, HasImport, Exists, Closes, Finish, IdleRequest
    <2>6. CreatedEntity'
      BY <1>0, <1>10 DEF TypeOK, NamesDocument, Row, Request, CreatedEntity, Uploaded, AbsentRow, Closes, Finish, IdleRequest
    <2>7. HistoricalFixed'
      BY <1>0, <1>10 DEF TypeOK, NamesDocument, Row, Request, HistoricalFixed, Exists, Closes, Finish, IdleRequest
    <2> QED BY <1>0, <2>1, <2>2, <2>3, <2>4, <2>5, <2>6, <2>7
  <1>11. ASSUME NEW r \in Requests, NEW d \in Docs, NEW role \in {"opening", "closing"}, BeginClassify(r, d, role) PROVE EntityInv'
    <2>1. HoldersExclusive'
      BY <1>0, <1>11 DEF TypeOK, NamesDocument, Row, Request, HoldersExclusive, Holding, Locked, BeginClassify, IdleRequest
    <2>2. OpenWithoutImport'
      BY <1>0, <1>11 DEF TypeOK, NamesDocument, Row, Request, OpenWithoutImport, HasImport, Holding, BeginClassify, IdleRequest
    <2>3. NamedExists'
      BY <1>0, <1>11 DEF TypeOK, NamesDocument, Row, Request, NamedExists, Exists, HasImport, Engaged, BeginClassify, IdleRequest
    <2>4. HeldEntity'
      BY <1>0, <1>11 DEF TypeOK, NamesDocument, Row, Request, HeldEntity, Locked, Holding, Exists, BeginClassify, IdleRequest
    <2>5. StaleEntity'
      BY <1>0, <1>11 DEF TypeOK, NamesDocument, Row, Request, StaleEntity, Working, HasImport, Exists, BeginClassify, IdleRequest
    <2>6. CreatedEntity'
      BY <1>0, <1>11 DEF TypeOK, NamesDocument, Row, Request, CreatedEntity, Uploaded, AbsentRow, BeginClassify, IdleRequest
    <2>7. HistoricalFixed'
      BY <1>0, <1>11 DEF TypeOK, NamesDocument, Row, Request, HistoricalFixed, Exists, BeginClassify, IdleRequest
    <2> QED BY <1>0, <2>1, <2>2, <2>3, <2>4, <2>5, <2>6, <2>7
  <1>12. ASSUME NEW r \in Requests, CommitClassify(r) PROVE EntityInv'
    <2> DEFINE d == req[r].doc
    <2>a. d \in Docs /\ req[r].pc = "classifying" /\ Exists(d)
      BY <1>12 DEF CommitClassify, NamesDocument, NamedExists, Engaged
    <2>b. req'[r].pc = "idle" /\ \A q \in Requests : q # r => req'[q] = req[q]
      BY <1>12 DEF CommitClassify, Finish, IdleRequest, TypeOK
    <2>c. docs'[d] = req[r].ent /\ \A e \in Docs : e # d => docs'[e] = docs[e]
      BY <1>12, <2>a DEF CommitClassify, TypeOK
    <2>d. docs'[d].status = docs[d].status /\ docs'[d].slot \in {"opening", "closing"}
      BY <2>a, <2>c, <1>12 DEF HeldEntity, TypeOK, Row, CommitClassify
    <2>e. docs'[d].version = docs[d].version
      BY <2>a, <2>c, <1>12 DEF HeldEntity, TypeOK, Row, CommitClassify
    <2>f. imports' = imports
      BY <1>12 DEF CommitClassify
    <2>h. \A q \in Requests : q # r /\ req[q].pc \in Holding => req[q].doc # d
      BY <2>a DEF HoldersExclusive, Holding
    <2>1. HoldersExclusive'
      BY <1>0, <1>12 DEF TypeOK, NamesDocument, Row, Request, HoldersExclusive, Holding, Locked, CommitClassify, Finish, IdleRequest
    <2>2. OpenWithoutImport'
      BY <1>0, <1>12 DEF TypeOK, NamesDocument, Row, Request, OpenWithoutImport, HasImport, Holding, CommitClassify, Finish, IdleRequest
    <2>3. NamedExists'
      BY <2>b, <2>c, <2>d, <2>f DEF NamedExists, Exists, HasImport, Engaged, NamesDocument
    <2>4. HeldEntity'
      BY <2>b, <2>c, <2>h DEF HeldEntity, Holding, NamesDocument
    <2>5. StaleEntity'
      <3> SUFFICES ASSUME NEW q \in Requests, q # r, req[q].pc \in Working
                   PROVE  /\ req[q].ent.version = docs'[req[q].doc].version
                          /\ \/ req[q].ent.slot = docs'[req[q].doc].slot
                             \/ req[q].ent.slot = "historical" /\ req[q].doc \in Historical
                             \/ HasImport(req[q].doc)
        BY <2>b, <2>f DEF StaleEntity, Working, HasImport
      <3>1. req[q].doc \in Docs
        BY DEF NamesDocument, Working
      <3>2. CASE req[q].doc = d
        BY <2>a, <2>e, <3>2 DEF StaleEntity, HeldEntity, HistoricalFixed
      <3>3. CASE req[q].doc # d
        BY <2>c, <3>1, <3>3 DEF StaleEntity
      <3> QED BY <3>2, <3>3
    <2>6. CreatedEntity'
      BY <1>0, <1>12 DEF TypeOK, NamesDocument, Row, Request, CreatedEntity, Uploaded, AbsentRow, CommitClassify, Finish, IdleRequest
    <2>7. HistoricalFixed'
      <3>1. \A e \in Docs : Exists(e) => Exists(e)'
        BY <2>a, <2>c, <2>d DEF Exists
      <3>2. \A e \in Docs : docs'[e].version = docs[e].version
        BY <2>c, <2>e
      <3>3. \A e \in Docs : docs'[e].slot = "historical" => e \in Historical
        BY <2>c, <2>d DEF HistoricalFixed
      <3> QED BY <3>1, <3>2, <3>3, ConstantsAssumption DEF HistoricalFixed
    <2> QED BY <1>0, <2>1, <2>2, <2>3, <2>4, <2>5, <2>6, <2>7
  <1>13. ASSUME NEW r \in Requests, NEW d \in Docs, BeginDiscard(r, d) PROVE EntityInv'
    <2>1. HoldersExclusive'
      BY <1>0, <1>13 DEF TypeOK, NamesDocument, Row, Request, HoldersExclusive, Holding, Locked, BeginDiscard, IdleRequest
    <2>2. OpenWithoutImport'
      BY <1>0, <1>13 DEF TypeOK, NamesDocument, Row, Request, OpenWithoutImport, HasImport, Holding, BeginDiscard, IdleRequest
    <2>3. NamedExists'
      BY <1>0, <1>13 DEF TypeOK, NamesDocument, Row, Request, NamedExists, Exists, HasImport, Engaged, BeginDiscard, IdleRequest
    <2>4. HeldEntity'
      BY <1>0, <1>13 DEF TypeOK, NamesDocument, Row, Request, HeldEntity, Locked, Holding, Exists, BeginDiscard, IdleRequest
    <2>5. StaleEntity'
      BY <1>0, <1>13 DEF TypeOK, NamesDocument, Row, Request, StaleEntity, Working, HasImport, Exists, BeginDiscard, IdleRequest
    <2>6. CreatedEntity'
      BY <1>0, <1>13 DEF TypeOK, NamesDocument, Row, Request, CreatedEntity, Uploaded, AbsentRow, BeginDiscard, IdleRequest
    <2>7. HistoricalFixed'
      BY <1>0, <1>13 DEF TypeOK, NamesDocument, Row, Request, HistoricalFixed, Exists, BeginDiscard, IdleRequest
    <2> QED BY <1>0, <2>1, <2>2, <2>3, <2>4, <2>5, <2>6, <2>7
  <1>14. ASSUME NEW r \in Requests, CommitDiscard(r) PROVE EntityInv'
    <2> DEFINE d == req[r].doc
    <2>a. d \in Docs /\ req[r].pc = "discarding" /\ Exists(d)
      BY <1>14 DEF CommitDiscard, NamesDocument, NamedExists, Engaged
    <2>b. req'[r].pc = "idle" /\ \A q \in Requests : q # r => req'[q] = req[q]
      BY <1>14 DEF CommitDiscard, Finish, IdleRequest, TypeOK
    <2>c. docs'[d] = [req[r].ent EXCEPT !.status = "discarded", !.discarded = TRUE] /\ \A e \in Docs : e # d => docs'[e] = docs[e]
      BY <1>14, <2>a DEF CommitDiscard, TypeOK
    <2>i. docs[d] \in Row /\ docs'[d] = [docs[d] EXCEPT !.status = "discarded", !.discarded = TRUE]
      BY <2>a, <2>c DEF HeldEntity, TypeOK
    <2>d. docs'[d].status = "discarded" /\ docs'[d].slot = docs[d].slot
      BY <2>i DEF Row
    <2>e. docs'[d].version = docs[d].version
      BY <2>i DEF Row
    <2>f. imports' = imports
      BY <1>14 DEF CommitDiscard
    <2>h. \A q \in Requests : q # r /\ req[q].pc \in Holding => req[q].doc # d
      BY <2>a DEF HoldersExclusive, Holding
    <2>1. HoldersExclusive'
      BY <1>0, <1>14 DEF TypeOK, NamesDocument, Row, Request, HoldersExclusive, Holding, Locked, CommitDiscard, Finish, IdleRequest
    <2>2. OpenWithoutImport'
      BY <1>0, <1>14 DEF TypeOK, NamesDocument, Row, Request, OpenWithoutImport, HasImport, Holding, CommitDiscard, Finish, IdleRequest
    <2>3. NamedExists'
      BY <1>0, <1>14 DEF TypeOK, NamesDocument, Row, Request, NamedExists, Exists, HasImport, Engaged, CommitDiscard, Finish, IdleRequest
    <2>4. HeldEntity'
      BY <2>b, <2>c, <2>h DEF HeldEntity, Holding, NamesDocument
    <2>5. StaleEntity'
      <3> SUFFICES ASSUME NEW q \in Requests, q # r, req[q].pc \in Working
                   PROVE  /\ req[q].ent.version = docs'[req[q].doc].version
                          /\ \/ req[q].ent.slot = docs'[req[q].doc].slot
                             \/ req[q].ent.slot = "historical" /\ req[q].doc \in Historical
                             \/ HasImport(req[q].doc)
        BY <2>b, <2>f DEF StaleEntity, Working, HasImport
      <3>1. req[q].doc \in Docs
        BY DEF NamesDocument, Working
      <3>2. CASE req[q].doc = d
        BY <2>a, <2>d, <2>e, <3>2 DEF StaleEntity
      <3>3. CASE req[q].doc # d
        BY <2>c, <3>1, <3>3 DEF StaleEntity
      <3> QED BY <3>2, <3>3
    <2>6. CreatedEntity'
      BY <1>0, <1>14 DEF TypeOK, NamesDocument, Row, Request, CreatedEntity, Uploaded, AbsentRow, CommitDiscard, Finish, IdleRequest
    <2>7. HistoricalFixed'
      <3>1. \A e \in Docs : Exists(e) => Exists(e)'
        BY <2>a, <2>c, <2>d DEF Exists
      <3>2. \A e \in Docs : docs'[e].version = docs[e].version
        BY <2>c, <2>e
      <3>3. \A e \in Docs : docs'[e].slot = "historical" => e \in Historical
        BY <2>c, <2>d DEF HistoricalFixed
      <3> QED BY <3>1, <3>2, <3>3, ConstantsAssumption DEF HistoricalFixed
    <2> QED BY <1>0, <2>1, <2>2, <2>3, <2>4, <2>5, <2>6, <2>7
  <1> QED BY <1>1, <1>2, <1>3, <1>4, <1>5, <1>6, <1>7, <1>8, <1>9, <1>10, <1>11, <1>12, <1>13, <1>14, CoarseCases

-----------------------------------------------------------------------------
(* Imports, publications and what was read about them                      *)

Backed(d) == Published(d) /\ imports[d].entries # {}

(* The status of an entity in memory is backed like the one of a row.      *)
EntityBacked ==
  \A r \in Requests : Engaged(r) /\ req[r].ent.status \in Usable => Backed(req[r].doc)

(* The version about to be superseded is an older publication, and the     *)
(* import that supersedes it is valid.                                     *)
SeenPublished ==
  \A r \in Requests : req[r].seen # None =>
    /\ req[r].pc = "open" /\ req[r].valid
    /\ req[r].seen # req[r].doc
    /\ Backed(req[r].seen)
    /\ docs[req[r].seen].version < docs[req[r].doc].version

(* The accounts of a valid balance exist or are about to be inserted.      *)
FreshCovers ==
  \A r \in Requests :
    req[r].pc = "open" /\ req[r].valid /\ req[r].ent.slot \in BalanceSlots
    => req[r].rows \subseteq accounts \cup req[r].fresh

(* What an entity in memory says it replaces, it replaces.                 *)
EntityReplaces ==
  \A r \in Requests : Engaged(r) /\ req[r].ent.replaces # None =>
    /\ Published(req[r].ent.replaces)
    /\ docs[req[r].ent.replaces].version < docs[req[r].doc].version

OnlyRowsReplace == \A d \in Docs : docs[d].replaces # None => Exists(d)

PublicationInv == /\ OnlyRowsReplace /\ UsableHasImport /\ EntityBacked /\ SeenPublished /\ FreshCovers
                  /\ RowsAreTraceable /\ ReplacesOlderPublication /\ EntityReplaces

InForceInv == OneClosingInForce /\ OpeningNeverInForce

IInv == EntityInv /\ PublicationInv /\ InForceInv /\ VersionsUnique

(* Imports are never changed, documents and accounts never disappear and   *)
(* versions are never renumbered.                                          *)
Monotone ==
  /\ \A d \in Docs : HasImport(d) => imports'[d] = imports[d]
  /\ \A d \in Docs : Exists(d) => Exists(d)' /\ docs'[d].version = docs[d].version
  /\ accounts \subseteq accounts'

(* Every step is monotone.                                                 *)
LEMMA EveryStepMonotone == EntityInv /\ [Next]_vars => Monotone
  <1> SUFFICES ASSUME EntityInv, [Next]_vars PROVE Monotone
    OBVIOUS
  <1> USE DEF EntityInv, TypeOK, NamesDocument, Exists
  <1>1. CASE UNCHANGED <<docs, imports, accounts>>
    BY <1>1 DEF Monotone
  <1>2. ASSUME NEW r \in Requests, NEW d \in Docs, InsertDocument(r, d) PROVE Monotone
    BY <1>2 DEF InsertDocument, Monotone
  <1>3. ASSUME NEW r \in Requests, MarkProcessing(r) PROVE Monotone
    BY <1>3 DEF MarkProcessing, Monotone, Row
  <1>4. ASSUME NEW r \in Requests, CommitPersist(r) PROVE Monotone
    <2> DEFINE d == req[r].doc
    <2>1. req[r].pc = "open" /\ ~HasImport(d) /\ d \in Docs
      BY <1>4 DEF CommitPersist, OpenWithoutImport
    <2>2. \A e \in Docs : HasImport(e) => imports'[e] = imports[e]
      BY <1>4, <2>1 DEF CommitPersist
    <2>3. req[r].ent \in Row /\ req[r].ent.version = docs[d].version
      BY <2>1 DEF StaleEntity, Working, Request
    <2>4. docs'[d] = SavedDocument(r)
      BY <1>4, <2>1 DEF CommitPersist, SavedDocs
    <2>5. docs'[d].version = docs[d].version /\ docs'[d].status # "absent"
      BY <2>3, <2>4 DEF SavedDocument, Row
    <2>6. \A e \in Docs : e # d => \/ docs'[e] = docs[e]
                                   \/ docs'[e] = [docs[e] EXCEPT !.status = "superseded"]
      BY <1>4 DEF CommitPersist, SavedDocs
    <2>7. \A e \in Docs : e # d /\ Exists(e) => Exists(e)' /\ docs'[e].version = docs[e].version
      BY <2>6 DEF Row
    <2>8. accounts \subseteq accounts'
      BY <1>4 DEF CommitPersist
    <2> QED BY <2>2, <2>5, <2>7, <2>8 DEF Monotone
  <1>5. ASSUME NEW r \in Requests, Closes(r) PROVE Monotone
    BY <1>5 DEF Closes, Monotone, Row
  <1>6. ASSUME NEW r \in Requests, CommitClassify(r) PROVE Monotone
    <2> DEFINE d == req[r].doc
    <2>1. d \in Docs /\ docs'[d] = req[r].ent /\ docs[d] \in Row
      BY <1>6 DEF CommitClassify
    <2>2. req[r].ent = [docs[d] EXCEPT !.slot = req[r].ent.slot]
      BY <1>6 DEF CommitClassify, HeldEntity
    <2>3. docs'[d].version = docs[d].version /\ docs'[d].status = docs[d].status
      BY <2>1, <2>2 DEF Row
    <2> QED BY <1>6, <2>3 DEF CommitClassify, Monotone
  <1>7. ASSUME NEW r \in Requests, CommitDiscard(r) PROVE Monotone
    <2> DEFINE d == req[r].doc
    <2>1. d \in Docs /\ docs[d] \in Row
      BY <1>7 DEF CommitDiscard
    <2>2. docs'[d] = [docs[d] EXCEPT !.status = "discarded", !.discarded = TRUE]
      BY <1>7, <2>1 DEF CommitDiscard, HeldEntity
    <2>3. docs'[d].version = docs[d].version /\ docs'[d].status # "absent"
      BY <2>1, <2>2 DEF Row
    <2> QED BY <1>7, <2>3 DEF CommitDiscard, Monotone
  <1> QED
    BY <1>1, <1>2, <1>3, <1>4, <1>5, <1>6, <1>7, CoarseCases
    DEF Quits, ReadLatestVersion, Load, ReadFile, OpenPersist, BeginClassify, BeginDiscard

(* What is published and what backs a status stays as it was imported.     *)
LEMMA BackedForEver ==
  ASSUME EntityInv, [Next]_vars, NEW d \in Docs
  PROVE  /\ Published(d) => Published(d)' /\ imports'[d] = imports[d]
         /\ Backed(d) => Backed(d)'
         /\ HasImport(d) => docs'[d].version = docs[d].version
  BY EveryStepMonotone DEF Monotone, Published, Backed, HasImport, EntityInv, NamedExists

-----------------------------------------------------------------------------
(* What a step does to requests, documents and period rows, as far as      *)
(* PublicationInv is concerned.                                            *)

(* Request q ends or starts to create, or goes to its catch block.         *)
Forgets(q) == \/ req'[q].pc \in {"idle", "creating"} /\ req'[q].seen = None
              \/ /\ Engaged(q) /\ req'[q].pc = "failing" /\ req'[q].doc = req[q].doc
                 /\ req'[q].ent = AbsentRow /\ req'[q].seen = None

(* Request q goes on with the same document and entity, out of persist.    *)
GoesOn(q) == /\ Engaged(q) /\ req[q].pc # "open" /\ req'[q].pc # "open"
             /\ req'[q].doc = req[q].doc /\ req'[q].ent = req[q].ent
             /\ req'[q].seen = req[q].seen

(* Request q has read a document.                                          *)
Reads(q) == /\ req'[q].doc \in Docs /\ req'[q].seen = None /\ req'[q].pc # "open"
            /\ Exists(req'[q].doc)
            /\ req'[q].ent.status = docs[req'[q].doc].status
            /\ req'[q].ent.replaces = docs[req'[q].doc].replaces

(* What a step does to a request.                                          *)
LEMMA RequestEffects ==
  ASSUME EntityInv, [Next]_vars, NEW q \in Requests
  PROVE  \/ req'[q] = req[q] \/ Forgets(q) \/ GoesOn(q) \/ Reads(q)
         \/ \E p \in Docs \cup {None} : OpenPersist(q, p)
  <1> USE DEF EntityInv, TypeOK, NamesDocument
  <1> DEFINE Goal == \/ req'[q] = req[q] \/ Forgets(q) \/ GoesOn(q) \/ Reads(q)
                     \/ \E p \in Docs \cup {None} : OpenPersist(q, p)
  <1>1. ASSUME NEW r \in Requests, Finish(r) PROVE Goal
    BY <1>1 DEF Finish, IdleRequest, Forgets
  <1>2. ASSUME NEW r \in Requests, Fail(r), Engaged(r) PROVE Goal
    BY <1>2 DEF Fail, IdleRequest, Forgets
  <1>3. ASSUME NEW r \in Requests, NEW s \in UploadSlots, ReadLatestVersion(r, s) PROVE Goal
    BY <1>3 DEF ReadLatestVersion, IdleRequest, Forgets
  <1>4. ASSUME NEW r \in Requests, NEW d \in Docs, Load(r, d) \/ BeginDiscard(r, d) PROVE Goal
    <2>1. CASE Load(r, d)
      BY <2>1 DEF Load, IdleRequest, Reads, Exists
    <2>2. CASE BeginDiscard(r, d)
      BY <2>2 DEF BeginDiscard, IdleRequest, Reads, Exists
    <2> QED BY <1>4, <2>1, <2>2
  <1>5. ASSUME NEW r \in Requests, MarkProcessing(r) PROVE Goal
    BY <1>5 DEF MarkProcessing, Request, GoesOn, Engaged
  <1>6. ASSUME NEW r \in Requests, NEW file \in Files, ReadFile(r, file) PROVE Goal
    BY <1>6 DEF ReadFile, Request, GoesOn, Engaged
  <1>7. ASSUME NEW r \in Requests, NEW p \in Docs \cup {None}, OpenPersist(r, p) PROVE Goal
    <2>1. q # r => req'[q] = req[q]
      BY <1>7 DEF OpenPersist
    <2> QED BY <1>7, <2>1
  <1>8. ASSUME NEW r \in Requests, NEW d \in Docs, NEW role \in {"opening", "closing"},
               BeginClassify(r, d, role)
        PROVE  Goal
    <2>1. q # r => req'[q] = req[q]
      BY <1>8 DEF BeginClassify
    <2>2. req'[r].doc = d /\ req'[r].seen = None /\ req'[r].pc # "open" /\ Exists(d)
      BY <1>8 DEF BeginClassify, IdleRequest
    <2>3. docs[d] \in Row /\ req'[r].ent = [docs[d] EXCEPT !.slot = role]
      BY <1>8 DEF BeginClassify, IdleRequest
    <2>4. req'[r].ent.status = docs[d].status /\ req'[r].ent.replaces = docs[d].replaces
      BY <2>3 DEF Row
    <2> QED BY <2>1, <2>2, <2>4 DEF Reads
  <1>9. ASSUME NEW r \in Requests, CommitPersist(r) PROVE Goal
    BY <1>1, <1>2, <1>9 DEF CommitPersist, Engaged
  <1> QED
    BY <1>1, <1>2, <1>3, <1>4, <1>5, <1>6, <1>7, <1>8, <1>9, CoarseCases
    DEF Quits, InsertDocument, Closes, CommitClassify, CommitDiscard

(* Document d does not become usable nor gets anything to replace.         *)
Plain(d) == /\ docs'[d].status \in Usable => docs'[d].status = docs[d].status
            /\ docs'[d].replaces \in {None, docs[d].replaces}

(* Only the commit of an import makes documents usable or lets them replace others. *)
LEMMA DocumentEffects ==
  ASSUME EntityInv, [Next]_vars, NEW d \in Docs
  PROVE  \/ Plain(d)
         \/ \E r \in Requests : CommitPersist(r) /\ d \in {req[r].doc, req[r].seen}
  <1> USE DEF EntityInv, TypeOK, NamesDocument
  <1>1. CASE UNCHANGED docs
    BY <1>1 DEF Plain
  <1>2. ASSUME NEW r \in Requests, NEW e \in Docs, InsertDocument(r, e) PROVE Plain(d)
    <2>1. e # d => docs'[d] = docs[d]
      BY <1>2 DEF InsertDocument
    <2>2. docs'[e] = Uploaded(req[r].ent.slot, req[r].ent.version)
      BY <1>2 DEF InsertDocument, CreatedEntity
    <2>3. docs'[e].status = "uploaded" /\ docs'[e].replaces = None
      BY <2>2 DEF Uploaded, AbsentRow
    <2> QED BY <2>1, <2>3 DEF Plain, Usable
  <1>3. ASSUME NEW r \in Requests, MarkProcessing(r) \/ Closes(r) PROVE Plain(d)
    <2>1. docs[d] \in Row
      OBVIOUS
    <2> QED BY <1>3, <2>1 DEF MarkProcessing, Closes, Plain, Usable, Row
  <1>4. ASSUME NEW r \in Requests, CommitPersist(r), d \notin {req[r].doc, req[r].seen}
        PROVE  Plain(d)
    BY <1>4 DEF CommitPersist, SavedDocs, Plain
  <1>5. ASSUME NEW r \in Requests, CommitClassify(r) PROVE Plain(d)
    <2>1. req[r].doc # d => docs'[d] = docs[d]
      BY <1>5 DEF CommitClassify
    <2>2. req[r].doc = d => docs[d] \in Row /\ docs'[d] = [docs[d] EXCEPT !.slot = req[r].ent.slot]
      BY <1>5 DEF CommitClassify, HeldEntity
    <2>3. req[r].doc = d => docs'[d].status = docs[d].status /\ docs'[d].replaces = docs[d].replaces
      BY <2>2 DEF Row
    <2> QED BY <2>1, <2>3 DEF Plain
  <1>6. ASSUME NEW r \in Requests, CommitDiscard(r) PROVE Plain(d)
    <2>1. req[r].doc # d => docs'[d] = docs[d]
      BY <1>6 DEF CommitDiscard
    <2>2. req[r].doc = d => /\ docs[d] \in Row
                            /\ docs'[d] = [docs[d] EXCEPT !.status = "discarded", !.discarded = TRUE]
      BY <1>6 DEF CommitDiscard, HeldEntity
    <2>3. req[r].doc = d => docs'[d].status = "discarded" /\ docs'[d].replaces = docs[d].replaces
      BY <2>2 DEF Row
    <2> QED BY <2>1, <2>3 DEF Plain, Usable
  <1> QED
    BY <1>1, <1>2, <1>3, <1>4, <1>5, <1>6, CoarseCases
    DEF Quits, ReadLatestVersion, Load, ReadFile, OpenPersist, BeginClassify, BeginDiscard

(* The rows that the committing import publishes and supersedes.           *)
LEMMA CommitEffects ==
  ASSUME EntityInv, NEW r \in Requests, CommitPersist(r)
  PROVE  /\ req[r].pc = "open" /\ req[r].doc \in Docs
         /\ imports'[req[r].doc].slot = req[r].ent.slot /\ req[r].ent.slot # "none"
         /\ imports'[req[r].doc].operational = req[r].valid
         /\ imports'[req[r].doc].entries = req[r].rows
         /\ req[r].valid => req[r].rows # {}
         /\ docs'[req[r].doc].status = IF req[r].valid THEN "processed" ELSE "invalid"
         /\ docs'[req[r].doc].slot = req[r].ent.slot
         /\ docs'[req[r].doc].replaces = IF req[r].seen = None THEN req[r].ent.replaces
                                                              ELSE req[r].seen
         /\ \A e \in Docs : e # req[r].doc =>
              /\ docs'[e].replaces = docs[e].replaces
              /\ docs'[e].slot = docs[e].slot
              /\ e # req[r].seen => docs'[e] = docs[e]
  <1> USE DEF EntityInv, TypeOK, NamesDocument
  <1>1. req[r].pc = "open" /\ req[r].doc \in Docs /\ req[r].ent \in Row
    BY DEF CommitPersist, Request
  <1>2. docs'[req[r].doc] = SavedDocument(r)
    BY <1>1 DEF CommitPersist, SavedDocs
  <1>3. \A e \in Docs : e # req[r].doc =>
          /\ docs[e] \in Row
          /\ \/ docs'[e] = docs[e]
             \/ e = req[r].seen /\ docs'[e] = [docs[e] EXCEPT !.status = "superseded"]
    BY DEF CommitPersist, SavedDocs
  <1>4. req[r].ent.slot # "none"
    BY <1>1 DEF Row, Slots, BalanceSlots
  <1>5. /\ docs'[req[r].doc].status = IF req[r].valid THEN "processed" ELSE "invalid"
        /\ docs'[req[r].doc].slot = req[r].ent.slot
        /\ docs'[req[r].doc].replaces = IF req[r].seen = None THEN req[r].ent.replaces
                                                             ELSE req[r].seen
    BY <1>1, <1>2 DEF SavedDocument, Row
  <1>6. \A e \in Docs : e # req[r].doc => docs'[e].replaces = docs[e].replaces
                                          /\ docs'[e].slot = docs[e].slot
    BY <1>3 DEF Row
  <1>7. /\ imports'[req[r].doc].slot = req[r].ent.slot
        /\ imports'[req[r].doc].operational = req[r].valid
        /\ imports'[req[r].doc].entries = req[r].rows
    BY <1>1 DEF CommitPersist
  <1> QED BY <1>1, <1>3, <1>4, <1>5, <1>6, <1>7 DEF CommitPersist

-----------------------------------------------------------------------------
(* Publication                                                             *)

(* The initial states.                                                     *)
LEMMA PublicationInit == Init => PublicationInv
  <1> SUFFICES ASSUME Init PROVE PublicationInv
    OBVIOUS
  <1>1. \A d \in Docs : docs[d].status \in {"absent", "uploaded"} /\ docs[d].replaces = None
    <2>1. PICK ver \in [Historical -> 1..Cardinality(Historical)] :
             docs = [d \in Docs |-> IF d \in Historical
                                    THEN Uploaded("historical", ver[d])
                                    ELSE AbsentRow]
      BY DEF Init
    <2> QED BY <2>1 DEF Uploaded, AbsentRow
  <1>2. \A r \in Requests : req[r].pc = "idle" /\ req[r].seen = None
    BY DEF Init, IdleRequest
  <1>3. \A a \in Accounts : periodRows[a].source = None
    BY DEF Init
  <1> QED
    BY <1>1, <1>2, <1>3 DEF PublicationInv, OnlyRowsReplace, UsableHasImport, Usable, EntityBacked, Engaged,
       SeenPublished, FreshCovers, RowsAreTraceable, ReplacesOlderPublication, EntityReplaces

(* A usable status keeps standing on an import.                            *)
LEMMA UsableStep ==
  ASSUME EntityInv, PublicationInv, [Next]_vars
  PROVE  UsableHasImport'
  <1> SUFFICES ASSUME NEW d \in Docs, docs'[d].status \in Usable
               PROVE  Backed(d)'
    BY DEF UsableHasImport, Backed
  <1>1. CASE Plain(d)
    BY <1>1, BackedForEver DEF Plain, PublicationInv, UsableHasImport, Backed
  <1>2. ASSUME NEW r \in Requests, CommitPersist(r), d \in {req[r].doc, req[r].seen}
        PROVE  Backed(d)'
    <2>1. CASE d = req[r].doc
      <3>1. req[r].valid
        BY <1>2, <2>1, CommitEffects DEF Usable
      <3>2. /\ imports'[d].operational /\ imports'[d].slot # "none"
            /\ imports'[d].entries # {}
        BY <1>2, <2>1, <3>1, CommitEffects
      <3> QED BY <3>2 DEF Backed, Published, HasImport
    <2>2. CASE d = req[r].seen
      <3>1. Backed(d)
        BY <2>2, ConstantsAssumption DEF PublicationInv, SeenPublished
      <3> QED BY <3>1, BackedForEver
    <2> QED BY <1>2, <2>1, <2>2
  <1> QED BY <1>1, <1>2, DocumentEffects

(* What is replaced stays older and published.                             *)
LEMMA ReplacesStep ==
  ASSUME EntityInv, PublicationInv, [Next]_vars
  PROVE  OnlyRowsReplace' /\ ReplacesOlderPublication'
  <1>0. \A d \in Docs : docs'[d].replaces \in Docs \cup {None}
    BY EntityStep DEF EntityInv, TypeOK, Row
  <1> SUFFICES ASSUME NEW d \in Docs, NEW p \in Docs, p # None, docs'[d].replaces = p
               PROVE  Exists(d)' /\ Published(p)' /\ docs'[p].version < docs'[d].version
    BY <1>0 DEF OnlyRowsReplace, ReplacesOlderPublication
  <1>1. Published(p) /\ HasImport(p) /\ Exists(d) /\ docs[p].version < docs[d].version
    <2>1. CASE docs'[d].replaces = docs[d].replaces
      <3>1. Published(p) /\ HasImport(p) /\ docs[p].version < docs[d].version
        BY <2>1 DEF PublicationInv, ReplacesOlderPublication, Published
      <3>2. Exists(d)
        BY <2>1 DEF PublicationInv, OnlyRowsReplace
      <3> QED BY <3>1, <3>2
    <2>2. ASSUME NEW r \in Requests, CommitPersist(r), d = req[r].doc
          PROVE  Published(p) /\ HasImport(p) /\ Exists(d) /\ docs[p].version < docs[d].version
      <3>1. req[r].pc = "open" /\ Engaged(r) /\ Exists(d)
        BY <2>2, CommitEffects DEF Engaged, EntityInv, NamedExists
      <3>2. CASE req[r].seen = None
        <4>1. p = req[r].ent.replaces
          BY <2>2, <3>2, CommitEffects
        <4> QED BY <2>2, <3>1, <4>1 DEF PublicationInv, EntityReplaces, Published
      <3>3. CASE req[r].seen # None
        <4>1. p = req[r].seen
          BY <2>2, <3>3, CommitEffects
        <4> QED BY <2>2, <3>1, <3>3, <4>1 DEF PublicationInv, SeenPublished, Backed, Published
      <3> QED BY <3>2, <3>3
    <2>3. CASE Plain(d)
      BY <2>1, <2>3 DEF Plain
    <2>4. ASSUME NEW r \in Requests, CommitPersist(r), d # req[r].doc
          PROVE  docs'[d].replaces = docs[d].replaces
      BY <2>4, CommitEffects
    <2> QED BY <2>1, <2>2, <2>3, <2>4, DocumentEffects
  <1>2. docs'[d].version = docs[d].version /\ Exists(d)'
    BY <1>1, EveryStepMonotone DEF Monotone
  <1> QED BY <1>1, <1>2, BackedForEver

(* What entities in memory say they replace stays older and published.     *)
LEMMA EntitiesStep ==
  ASSUME EntityInv, PublicationInv, [Next]_vars
  PROVE  EntityBacked' /\ EntityReplaces'
  <1>0. \A q \in Requests : Engaged(q)' => /\ req'[q].doc \in Docs
                                           /\ req'[q].ent.replaces \in Docs \cup {None}
    BY EntityStep DEF EntityInv, TypeOK, NamesDocument, Engaged, Request, Row
  <1> SUFFICES ASSUME NEW q \in Requests, Engaged(q)',
                      NEW d \in Docs, req'[q].doc = d,
                      NEW p \in Docs \cup {None}, req'[q].ent.replaces = p
               PROVE  /\ req'[q].ent.status \in Usable => Backed(d)'
                      /\ p # None => Published(p)' /\ docs'[p].version < docs'[d].version
    BY <1>0 DEF EntityBacked, EntityReplaces
  <1>1. /\ req'[q].ent.status \in Usable => Backed(d)
        /\ p # None => Published(p) /\ Exists(d) /\ docs[p].version < docs[d].version
    <2>1. CASE Engaged(q) /\ req'[q].ent = req[q].ent /\ req'[q].doc = req[q].doc
      BY <2>1 DEF PublicationInv, EntityBacked, EntityReplaces, EntityInv, NamedExists
    <2>2. CASE req'[q] = req[q]
      BY <2>1, <2>2 DEF Engaged
    <2>3. CASE Forgets(q)
      BY <2>3 DEF Forgets, Engaged, AbsentRow, Usable
    <2>4. CASE GoesOn(q)
      BY <2>1, <2>4 DEF GoesOn
    <2>5. CASE Reads(q)
      BY <2>5 DEF Reads, PublicationInv, UsableHasImport, ReplacesOlderPublication, Backed
    <2>6. ASSUME NEW x \in Docs \cup {None}, OpenPersist(q, x)
          PROVE  Engaged(q) /\ req'[q].ent = req[q].ent /\ req'[q].doc = req[q].doc
      BY <2>6 DEF OpenPersist, Engaged, EntityInv, TypeOK, Request
    <2> QED BY <2>1, <2>2, <2>3, <2>4, <2>5, <2>6, RequestEffects
  <1>2. Exists(d) => docs'[d].version = docs[d].version
    BY EveryStepMonotone DEF Monotone
  <1>3. req'[q].ent.status \in Usable => Backed(d)'
    BY <1>1, BackedForEver
  <1>4. ASSUME p # None
        PROVE  Published(p)' /\ docs'[p].version < docs'[d].version
    BY <1>1, <1>2, <1>4, BackedForEver DEF Published
  <1> QED BY <1>3, <1>4

(* The version a publication saw to be replaced stays older and published. *)
LEMMA SeenStep ==
  ASSUME EntityInv, PublicationInv, [Next]_vars
  PROVE  SeenPublished'
  <1>0. \A q \in Requests : req'[q].seen \in Docs \cup {None}
    BY EntityStep DEF EntityInv, TypeOK, Request
  <1> SUFFICES ASSUME NEW q \in Requests, NEW p \in Docs, p # None, req'[q].seen = p,
                      NEW d, d = req'[q].doc
               PROVE  /\ req'[q].pc = "open" /\ req'[q].valid /\ p # d
                      /\ Backed(p)' /\ docs'[p].version < docs'[d].version
    BY <1>0 DEF SeenPublished
  <1>1. /\ req'[q].pc = "open" /\ req'[q].valid /\ p # d /\ d \in Docs
        /\ Backed(p) /\ Exists(d) /\ docs[p].version < docs[d].version
    <2>1. CASE req'[q] = req[q]
      BY <2>1 DEF PublicationInv, SeenPublished, EntityInv, NamedExists, NamesDocument, Engaged
    <2>2. CASE GoesOn(q)
      <3>1. req[q].pc = "open"
        BY <2>2 DEF GoesOn, PublicationInv, SeenPublished
      <3> QED BY <2>2, <3>1 DEF GoesOn
    <2>3. ASSUME NEW x \in Docs \cup {None}, OpenPersist(q, x)
          PROVE  /\ req'[q].pc = "open" /\ req'[q].valid /\ p # d /\ d \in Docs
                 /\ Backed(p) /\ Exists(d) /\ docs[p].version < docs[d].version
      <3>1. /\ req'[q].pc = "open" /\ req'[q].valid = req[q].valid /\ p = x
            /\ d = req[q].doc /\ req[q].pc = "parsed" /\ d \in Docs
        BY <2>3 DEF OpenPersist, EntityInv, TypeOK, NamesDocument, Request
      <3>2. req[q].valid /\ Replaceable(req[q].ent, x)
        BY <2>3, <3>1 DEF OpenPersist, IsPrevious
      <3>3. req[q].ent.version = docs[d].version
        BY <3>1 DEF EntityInv, StaleEntity, Working
      <3>4. docs[x].version < docs[d].version /\ docs[x].status \in Usable
        BY <3>2, <3>3 DEF Replaceable, Usable
      <3>5. Exists(d)
        BY <3>1 DEF EntityInv, NamedExists, Engaged
      <3>6. docs[d].version \in Nat
        BY <3>1 DEF EntityInv, TypeOK, Row
      <3> QED BY <3>1, <3>2, <3>4, <3>5, <3>6 DEF PublicationInv, UsableHasImport, Backed
    <2> QED BY <2>1, <2>2, <2>3, RequestEffects DEF Forgets, Reads
  <1>2. docs'[d].version = docs[d].version
    BY <1>1, EveryStepMonotone DEF Monotone
  <1> QED BY <1>1, <1>2, BackedForEver DEF Backed, Published

(* The accounts of an import under way exist or are about to be inserted.  *)
LEMMA FreshStep ==
  ASSUME EntityInv, PublicationInv, [Next]_vars
  PROVE  FreshCovers'
  <1> SUFFICES ASSUME NEW q \in Requests, req'[q].pc = "open", req'[q].valid,
                      req'[q].ent.slot \in BalanceSlots
               PROVE  req'[q].rows \subseteq accounts' \cup req'[q].fresh
    BY DEF FreshCovers
  <1>1. accounts \subseteq accounts'
    BY EveryStepMonotone DEF Monotone
  <1>2. CASE req'[q] = req[q]
    BY <1>1, <1>2 DEF PublicationInv, FreshCovers
  <1>3. ASSUME NEW x \in Docs \cup {None}, OpenPersist(q, x)
        PROVE  req'[q].rows \subseteq accounts' \cup req'[q].fresh
    <2>0. req[q] \in Request /\ req'[q] = [req[q] EXCEPT !.pc = "open", !.seen = x,
                                                         !.fresh = NewAccounts(q)]
      BY <1>3 DEF OpenPersist, EntityInv, TypeOK
    <2>1. /\ req'[q].rows = req[q].rows /\ req'[q].valid = req[q].valid
          /\ req'[q].ent = req[q].ent /\ req'[q].fresh = NewAccounts(q)
      BY <2>0 DEF Request
    <2> QED BY <1>1, <2>1 DEF NewAccounts
  <1> QED BY <1>2, <1>3, RequestEffects DEF Forgets, GoesOn, Reads

(* Every row keeps leading to an import and to an account.                 *)
LEMMA TraceableStep ==
  ASSUME EntityInv, PublicationInv, [Next]_vars
  PROVE  RowsAreTraceable'
  <1>0. /\ \A a \in Accounts : periodRows'[a].source \in Docs \cup {None}
        /\ accounts \subseteq accounts'
    BY EntityStep, EveryStepMonotone DEF EntityInv, TypeOK, PeriodRow, Monotone
  <1> SUFFICES ASSUME NEW a \in Accounts, NEW d \in Docs, d # None, periodRows'[a].source = d
               PROVE  Published(d)' /\ a \in imports'[d].entries /\ a \in accounts'
    BY <1>0 DEF RowsAreTraceable
  <1>1. CASE d = periodRows[a].source
    BY <1>0, <1>1, BackedForEver DEF PublicationInv, RowsAreTraceable
  <1>2. ASSUME NEW r \in Requests, CommitPersist(r), d # periodRows[a].source
        PROVE  Published(d)' /\ a \in imports'[d].entries /\ a \in accounts'
    <2>1. periodRows' = PublishedRows(r) /\ periodRows[a] \in PeriodRow
      BY <1>2 DEF CommitPersist, EntityInv, TypeOK
    <2>2. Publishes(r) /\ a \in req[r].rows /\ d = req[r].doc
      BY <1>2, <2>1 DEF PublishedRows, PeriodRow
    <2>3. req[r].valid /\ req[r].ent.slot \in BalanceSlots
      BY <2>2 DEF Publishes, BalanceSlots
    <2>4. a \in accounts'
      BY <1>2, <2>2, <2>3 DEF PublicationInv, FreshCovers, CommitPersist
    <2>5. /\ imports'[d].operational /\ imports'[d].slot # "none"
          /\ imports'[d].entries = req[r].rows
      BY <1>2, <2>2, <2>3, CommitEffects
    <2> QED BY <2>2, <2>4, <2>5 DEF Published, HasImport
  <1>3. ASSUME NEW r \in Requests, CommitClassify(r) \/ CommitDiscard(r)
        PROVE  d = periodRows[a].source
    BY <1>3 DEF CommitClassify, CommitDiscard, Unpublish, EntityInv, TypeOK, PeriodRow
  <1> QED
    BY <1>1, <1>2, <1>3, CoarseCases
    DEF Quits, ReadLatestVersion, InsertDocument, Load, MarkProcessing, ReadFile, OpenPersist,
        Closes, BeginClassify, BeginDiscard

(* Every step keeps what publications rest on.                             *)
LEMMA PublicationStep ==
  EntityInv /\ PublicationInv /\ [Next]_vars => PublicationInv'
  <1> SUFFICES ASSUME EntityInv, PublicationInv, [Next]_vars PROVE PublicationInv'
    OBVIOUS
  <1> QED
    BY UsableStep, ReplacesStep, EntitiesStep, SeenStep, FreshStep, TraceableStep
    DEF PublicationInv

-----------------------------------------------------------------------------
(* Versions                                                                *)

(* No step gives two documents of a series the same version.               *)
LEMMA VersionsStep ==
  ASSUME EntityInv, PublicationInv, VersionsUnique, [Next]_vars
  PROVE  VersionsUnique'
  <1> USE DEF EntityInv, TypeOK, NamesDocument
  <1>1. ASSUME \A d \in Docs : Exists(d)' => Exists(d) /\ docs'[d].slot = docs[d].slot
        PROVE  VersionsUnique'
    BY <1>1, EveryStepMonotone DEF VersionsUnique, Monotone
  <1>2. CASE UNCHANGED docs
    BY <1>1, <1>2 DEF Exists
  <1>3. ASSUME NEW r \in Requests, NEW d \in Docs, InsertDocument(r, d)
        PROVE  VersionsUnique'
    <2>1. docs'[d] = req[r].ent /\ \A e \in Docs : e # d => docs'[e] = docs[e]
      BY <1>3 DEF InsertDocument
    <2>2. \A e \in Docs : ~(/\ Exists(e) /\ docs[e].slot = docs'[d].slot
                            /\ docs[e].version = docs'[d].version)
      BY <1>3, <2>1 DEF InsertDocument, VersionTaken
    <2> QED BY <2>1, <2>2 DEF VersionsUnique, Exists
  <1>4. ASSUME NEW r \in Requests, MarkProcessing(r) \/ Closes(r) PROVE VersionsUnique'
    <2>1. req[r].doc \in Docs /\ Exists(req[r].doc) /\ docs[req[r].doc] \in Row
      BY <1>4 DEF MarkProcessing, Closes, NamedExists, Engaged
    <2>2. \A e \in Docs : e # req[r].doc => docs'[e] = docs[e]
      BY <1>4 DEF MarkProcessing, Closes
    <2>3. docs'[req[r].doc].slot = docs[req[r].doc].slot
      BY <1>4, <2>1 DEF MarkProcessing, Closes, Row
    <2> QED BY <1>1, <2>1, <2>2, <2>3 DEF Exists
  <1>5. ASSUME NEW r \in Requests, CommitPersist(r) PROVE VersionsUnique'
    <2> DEFINE d == req[r].doc
    <2>1. /\ d \in Docs /\ Exists(d) /\ ~HasImport(d) /\ docs'[d].slot = req[r].ent.slot
          /\ req[r].pc = "open"
      BY <1>5, CommitEffects DEF NamedExists, Engaged, OpenWithoutImport
    <2>2. \A e \in Docs : docs'[e].slot = docs[e].slot \/ e = d
      BY <1>5, CommitEffects
    <2>3. \A e \in Docs : Exists(e)' => Exists(e)
      <3>1. \A e \in Docs : e # d => \/ docs'[e] = docs[e]
                                     \/ e = req[r].seen
        BY <1>5, CommitEffects
      <3>2. req[r].seen \in Docs => Exists(req[r].seen)
        BY ConstantsAssumption
        DEF PublicationInv, SeenPublished, Backed, Published, NamedExists
      <3> QED BY <2>1, <3>1, <3>2 DEF Exists
    <2>4. \/ docs'[d].slot = docs[d].slot
          \/ docs'[d].slot = "historical" /\ d \in Historical
      BY <2>1 DEF StaleEntity, Working
    <2>5. CASE docs'[d].slot = docs[d].slot
      BY <1>1, <2>2, <2>3, <2>5
    <2>6. CASE docs'[d].slot = "historical" /\ d \in Historical
      <3>1. \A e \in Docs : docs'[e].slot = "historical" => e \in Historical
        BY <2>2, <2>6 DEF HistoricalFixed
      <3>2. \A e, f \in Historical : docs'[e].version = docs'[f].version => e = f
        BY EntityStep DEF HistoricalFixed
      <3>3. ASSUME NEW e \in Docs, NEW f \in Docs, Exists(e)', Exists(f)', e # d, f # d,
                   docs'[e].slot = docs'[f].slot, docs'[e].version = docs'[f].version
            PROVE  e = f
        <4>1. Exists(e) /\ Exists(f)
          BY <2>3, <3>3
        <4>2. docs[e].slot = docs[f].slot /\ docs[e].version = docs[f].version
          BY <2>2, <3>3, <4>1, EveryStepMonotone DEF Monotone
        <4> QED BY <4>1, <4>2 DEF VersionsUnique
      <3> QED BY <2>6, <3>1, <3>2, <3>3 DEF VersionsUnique
    <2> QED BY <2>4, <2>5, <2>6
  <1>6. ASSUME NEW r \in Requests, CommitClassify(r) PROVE VersionsUnique'
    <2> DEFINE d == req[r].doc
    <2>1. d \in Docs /\ docs'[d] = req[r].ent /\ \A e \in Docs : e # d => docs'[e] = docs[e]
      BY <1>6 DEF CommitClassify
    <2>2. \A e \in Docs : ~(/\ Exists(e) /\ docs[e].slot = docs'[d].slot
                            /\ docs[e].version = docs'[d].version)
      BY <1>6, <2>1 DEF CommitClassify, VersionTaken
    <2> QED BY <2>1, <2>2 DEF VersionsUnique, Exists
  <1>7. ASSUME NEW r \in Requests, CommitDiscard(r) PROVE VersionsUnique'
    <2>1. /\ req[r].doc \in Docs /\ Exists(req[r].doc) /\ docs[req[r].doc] \in Row
          /\ docs'[req[r].doc] = [docs[req[r].doc] EXCEPT !.status = "discarded", !.discarded = TRUE]
      BY <1>7 DEF CommitDiscard, NamedExists, Engaged, HeldEntity
    <2>2. \A e \in Docs : e # req[r].doc => docs'[e] = docs[e]
      BY <1>7 DEF CommitDiscard
    <2>3. docs'[req[r].doc].slot = docs[req[r].doc].slot
      BY <2>1 DEF Row
    <2> QED BY <1>1, <2>1, <2>2, <2>3 DEF Exists
  <1> QED
    BY <1>2, <1>3, <1>4, <1>5, <1>6, <1>7, CoarseCases
    DEF Quits, ReadLatestVersion, Load, ReadFile, OpenPersist, BeginClassify, BeginDiscard

-----------------------------------------------------------------------------
(* The rows in force                                                       *)

(* The initial states.                                                     *)
LEMMA InForceInit == Init => InForceInv /\ VersionsUnique
  <1> SUFFICES ASSUME Init PROVE InForceInv /\ VersionsUnique
    OBVIOUS
  <1>1. \A a \in Accounts : ~Active(a)
    BY DEF Init, Active
  <1>2. PICK ver \in [Historical -> 1..Cardinality(Historical)] :
          /\ \A d, e \in Historical : ver[d] = ver[e] => d = e
          /\ docs = [d \in Docs |-> IF d \in Historical
                                    THEN Uploaded("historical", ver[d])
                                    ELSE AbsentRow]
    BY DEF Init
  <1>3. VersionsUnique
    BY <1>2 DEF VersionsUnique, Exists, Uploaded, AbsentRow
  <1> QED BY <1>1, <1>3 DEF InForceInv, OneClosingInForce, OpeningNeverInForce

(* A row in force stays as it is or is published by the committing import. *)
LEMMA ActiveEffects ==
  ASSUME EntityInv, PublicationInv, [Next]_vars, NEW a \in Accounts, Active(a)'
  PROVE  \/ /\ periodRows'[a] = periodRows[a] /\ Active(a)
            /\ HasImport(periodRows[a].source) /\ periodRows[a].source \in Docs
         \/ \E r \in Requests : /\ CommitPersist(r) /\ Publishes(r)
                                /\ periodRows'[a].source = req[r].doc
  <1> USE DEF EntityInv, TypeOK, NamesDocument
  <1>1. ASSUME periodRows'[a] = periodRows[a]
        PROVE  /\ periodRows'[a] = periodRows[a] /\ Active(a)
               /\ HasImport(periodRows[a].source) /\ periodRows[a].source \in Docs
    BY <1>1 DEF Active, PublicationInv, RowsAreTraceable, Published, PeriodRow
  <1>2. ASSUME NEW r \in Requests, CommitPersist(r)
        PROVE  \/ periodRows'[a] = periodRows[a]
               \/ Publishes(r) /\ periodRows'[a].source = req[r].doc
    <2>1. periodRows' = PublishedRows(r) /\ req[r].doc # None /\ periodRows[a] \in PeriodRow
      BY <1>2, ConstantsAssumption DEF CommitPersist
    <2> QED BY <2>1 DEF PublishedRows, PeriodRow, Active
  <1>3. ASSUME NEW r \in Requests, CommitClassify(r) \/ CommitDiscard(r)
        PROVE  periodRows'[a] = periodRows[a]
    <2>1. /\ req[r].doc # None /\ periodRows[a] \in PeriodRow
          /\ periodRows'[a] \in {periodRows[a], Unpublish(a, req[r].doc)}
      BY <1>3, ConstantsAssumption DEF CommitClassify, CommitDiscard
    <2> QED BY <2>1 DEF Unpublish, PeriodRow, Active
  <1> QED
    BY <1>1, <1>2, <1>3, CoarseCases
    DEF Quits, ReadLatestVersion, InsertDocument, Load, MarkProcessing, ReadFile, OpenPersist,
        Closes, BeginClassify, BeginDiscard

(* A step keeps the rows in force of one closing.                          *)
LEMMA OneClosingStep ==
  ASSUME EntityInv, PublicationInv, OneClosingInForce, [Next]_vars
  PROVE  OneClosingInForce'
  <1> SUFFICES ASSUME NEW a \in Accounts, Active(a)', imports'[periodRows'[a].source].slot = "closing",
                      NEW b \in Accounts, Active(b)', imports'[periodRows'[b].source].slot = "closing"
               PROVE  periodRows'[a].source = periodRows'[b].source
    BY DEF OneClosingInForce
  <1>1. ASSUME NEW r \in Requests, CommitPersist(r), Publishes(r),
               NEW x \in Accounts, periodRows'[x].source = req[r].doc,
               imports'[periodRows'[x].source].slot = "closing",
               NEW y \in Accounts, Active(y)'
        PROVE  periodRows'[y].source = req[r].doc
    <2>1. req[r].ent.slot = "closing"
      BY <1>1, CommitEffects
    <2>2. /\ periodRows' = PublishedRows(r) /\ periodRows[y] \in PeriodRow
          /\ req[r].doc \in Docs /\ req[r].doc # None
      BY <1>1, CommitEffects, ConstantsAssumption DEF CommitPersist, EntityInv, TypeOK
    <2> QED BY <1>1, <2>1, <2>2 DEF PublishedRows, Publishes, Active, PeriodRow
  <1>2. CASE /\ periodRows'[a] = periodRows[a] /\ Active(a) /\ HasImport(periodRows[a].source)
             /\ periodRows[a].source \in Docs
             /\ periodRows'[b] = periodRows[b] /\ Active(b) /\ HasImport(periodRows[b].source)
             /\ periodRows[b].source \in Docs
    BY <1>2, EveryStepMonotone DEF Monotone, OneClosingInForce
  <1> QED BY <1>1, <1>2, ActiveEffects

(* No step brings the rows of an opening balance into force.               *)
LEMMA OpeningStep ==
  ASSUME EntityInv, PublicationInv, OpeningNeverInForce, [Next]_vars
  PROVE  OpeningNeverInForce'
  <1> USE DEF EntityInv, TypeOK, NamesDocument
  <1> SUFFICES ASSUME NEW a \in Accounts, Active(a)'
               PROVE  docs'[periodRows'[a].source].slot # "opening"
    BY DEF OpeningNeverInForce
  <1>1. ASSUME NEW r \in Requests, CommitPersist(r), Publishes(r),
               periodRows'[a].source = req[r].doc
        PROVE  docs'[periodRows'[a].source].slot # "opening"
    BY <1>1, CommitEffects DEF Publishes
  <1>2. ASSUME periodRows'[a] = periodRows[a], Active(a),
               NEW s \in Docs, s = periodRows[a].source, HasImport(s)
        PROVE  docs'[s].slot # "opening"
    <2>1. docs[s].slot # "opening" /\ Exists(s) /\ docs[s] \in Row
      BY <1>2 DEF OpeningNeverInForce, NamedExists
    <2>2. CASE docs'[s] = docs[s]
      BY <2>1, <2>2
    <2>3. ASSUME NEW r \in Requests, NEW d \in Docs, InsertDocument(r, d)
          PROVE  docs'[s] = docs[s]
      BY <2>1, <2>3 DEF InsertDocument
    <2>4. ASSUME NEW r \in Requests, MarkProcessing(r) \/ Closes(r)
          PROVE  docs'[s].slot # "opening"
      BY <2>1, <2>4 DEF MarkProcessing, Closes, Row
    <2>5. ASSUME NEW r \in Requests, CommitPersist(r) PROVE docs'[s].slot # "opening"
      <3>1. s # req[r].doc
        BY <1>2, <2>5, CommitEffects DEF OpenWithoutImport
      <3> QED BY <2>1, <2>5, <3>1, CommitEffects
    <2>6. ASSUME NEW r \in Requests, CommitClassify(r) PROVE docs'[s].slot # "opening"
      <3>1. s # req[r].doc => docs'[s] = docs[s]
        BY <2>6 DEF CommitClassify
      <3>2. s = req[r].doc /\ req[r].ent.slot = "opening" => periodRows'[a].discardedBy = s
        BY <1>2, <2>6 DEF CommitClassify, Unpublish, PeriodRow
      <3>3. s = req[r].doc => docs'[s] = req[r].ent
        BY <2>6 DEF CommitClassify
      <3> QED BY <1>2, <2>1, <3>1, <3>2, <3>3, ConstantsAssumption DEF Active
    <2>7. ASSUME NEW r \in Requests, CommitDiscard(r) PROVE docs'[s].slot # "opening"
      <3>1. s # req[r].doc => docs'[s] = docs[s]
        BY <2>7 DEF CommitDiscard
      <3>2. s = req[r].doc => docs'[s] = [docs[s] EXCEPT !.status = "discarded", !.discarded = TRUE]
        BY <2>7 DEF CommitDiscard, HeldEntity
      <3> QED BY <2>1, <3>1, <3>2 DEF Row
    <2> QED
      BY <2>1, <2>2, <2>3, <2>4, <2>5, <2>6, <2>7, CoarseCases
      DEF Quits, ReadLatestVersion, Load, ReadFile, OpenPersist, BeginClassify, BeginDiscard
  <1> QED BY <1>1, <1>2, ActiveEffects

-----------------------------------------------------------------------------
(* Theorems: the invariants                                                *)

(* The inductive invariant holds of every behaviour.                       *)
LEMMA Invariance == Spec => []IInv
  <1>1. Init => IInv
    BY EntityInit, PublicationInit, InForceInit DEF IInv
  <1>2. IInv /\ [Next]_vars => IInv'
    BY EntityStep, PublicationStep, OneClosingStep, OpeningStep, VersionsStep
    DEF IInv, InForceInv
  <1> QED BY <1>1, <1>2, PTL DEF Spec

(* A usable status always means a committed, valid, non-empty import.      *)
THEOREM UsableCorrect == Spec => []UsableHasImport
  <1>1. IInv => UsableHasImport
    BY DEF IInv, PublicationInv
  <1> QED BY <1>1, Invariance, PTL

(* Every period row leads back to a committed import and an account.       *)
THEOREM TraceabilityCorrect == Spec => []RowsAreTraceable
  <1>1. IInv => RowsAreTraceable
    BY DEF IInv, PublicationInv
  <1> QED BY <1>1, Invariance, PTL

(* What a document says it replaces is an older publication.               *)
THEOREM ReplacementCorrect == Spec => []ReplacesOlderPublication
  <1>1. IInv => ReplacesOlderPublication
    BY DEF IInv, PublicationInv
  <1> QED BY <1>1, Invariance, PTL

(* The rows in force that closings published come from one closing.        *)
THEOREM ClosingCorrect == Spec => []OneClosingInForce
  <1>1. IInv => OneClosingInForce
    BY DEF IInv, InForceInv
  <1> QED BY <1>1, Invariance, PTL

(* No row in force comes from an opening balance.                          *)
THEOREM OpeningCorrect == Spec => []OpeningNeverInForce
  <1>1. IInv => OpeningNeverInForce
    BY DEF IInv, InForceInv
  <1> QED BY <1>1, Invariance, PTL

(* No two documents of a series carry the same version.                    *)
THEOREM VersionsCorrect == Spec => []VersionsUnique
  <1>1. IInv => VersionsUnique
    BY DEF IInv
  <1> QED BY <1>1, Invariance, PTL

-----------------------------------------------------------------------------
(* Theorems: what a step may never do                                      *)

(* Imports are never changed nor removed.                                  *)
THEOREM ImmutabilityCorrect == Spec => ImportsImmutable
  <1>1. IInv /\ [Next]_vars => \A d \in Docs : HasImport(d) => imports'[d] = imports[d]
    BY EveryStepMonotone DEF IInv, Monotone
  <1> QED BY <1>1, Invariance, PTL DEF Spec, ImportsImmutable

(* A row out of force returns only by the publication of another document. *)
THEOREM RevivalCorrect == Spec => RevivalIsRepublication
  <1> DEFINE Step == \A a \in Accounts :
                       periodRows[a].discardedBy # None /\ Active(a)'
                       => periodRows'[a].source # periodRows[a].source
  <1>1. IInv /\ [Next]_vars => Step
    <2> SUFFICES ASSUME IInv, [Next]_vars, NEW a \in Accounts,
                        periodRows[a].discardedBy # None, Active(a)'
                 PROVE  periodRows'[a].source # periodRows[a].source
      OBVIOUS
    <2>1. PICK r \in Requests : CommitPersist(r) /\ periodRows'[a].source = req[r].doc
      BY ActiveEffects DEF IInv, Active
    <2>2. req[r].doc \in Docs /\ ~HasImport(req[r].doc) /\ req[r].doc # None
      BY <2>1, CommitEffects, ConstantsAssumption DEF IInv, EntityInv, OpenWithoutImport
    <2>3. periodRows[a].source # None => HasImport(periodRows[a].source)
      BY DEF IInv, PublicationInv, RowsAreTraceable, Published
    <2> QED BY <2>1, <2>2, <2>3
  <1> QED BY <1>1, Invariance, PTL DEF Spec, RevivalIsRepublication

(* A document is superseded only by the publication of a newer one.        *)
THEOREM SupersessionCorrect == Spec => SupersededByPublication
  <1> DEFINE Step == \A d \in Docs :
                       docs[d].status # "superseded" /\ docs'[d].status = "superseded"
                       => \E e \in Docs : /\ docs'[e].replaces = d
                                          /\ docs[e].version > docs[d].version
                                          /\ ~HasImport(e) /\ Published(e)'
  <1>1. IInv /\ [Next]_vars => Step
    <2> SUFFICES ASSUME IInv, [Next]_vars, NEW d \in Docs,
                        docs[d].status # "superseded", docs'[d].status = "superseded"
                 PROVE  \E e \in Docs : /\ docs'[e].replaces = d
                                        /\ docs[e].version > docs[d].version
                                        /\ ~HasImport(e) /\ Published(e)'
      OBVIOUS
    <2>1. PICK r \in Requests : CommitPersist(r) /\ d \in {req[r].doc, req[r].seen}
      BY DocumentEffects DEF IInv, Plain, Usable
    <2>2. d # req[r].doc /\ d = req[r].seen /\ d # None
      BY <2>1, CommitEffects, ConstantsAssumption DEF IInv
    <2>3. req[r].valid /\ docs[req[r].doc].version > docs[d].version
      <3>1. docs[d].version < docs[req[r].doc].version /\ req[r].valid
        BY <2>2 DEF IInv, PublicationInv, SeenPublished
      <3>2. docs[d].version \in Nat /\ docs[req[r].doc].version \in Nat
        BY <2>1, CommitEffects DEF IInv, EntityInv, TypeOK, Row
      <3> QED BY <3>1, <3>2
    <2>4. /\ req[r].doc \in Docs /\ ~HasImport(req[r].doc)
          /\ docs'[req[r].doc].replaces = d
      BY <2>1, <2>2, CommitEffects DEF IInv, EntityInv, OpenWithoutImport
    <2>5. imports'[req[r].doc].slot # "none" /\ imports'[req[r].doc].operational
      BY <2>1, <2>3, CommitEffects DEF IInv
    <2>6. PICK e \in Docs : e = req[r].doc
      BY <2>4
    <2>7. Published(e)'
      BY <2>5, <2>6 DEF Published, HasImport
    <2> QED BY <2>3, <2>4, <2>6, <2>7
  <1> QED BY <1>1, Invariance, PTL DEF Spec, SupersededByPublication

(* Discarding retires the suggestions of the accounts it takes away.       *)
THEOREM DiscardCorrect == Spec => DiscardRetiresSuggestions
  <1> DEFINE Step == \A a \in Accounts, d \in Docs :
                       /\ Active(a) /\ ~Active(a)'
                       /\ docs[d].status # "discarded" /\ docs'[d].status = "discarded"
                       => a \notin suggested'
  <1>1. IInv /\ [Next]_vars => Step
    <2> SUFFICES ASSUME IInv, [Next]_vars, NEW a \in Accounts, NEW d \in Docs,
                        Active(a), ~Active(a)',
                        docs[d].status # "discarded", docs'[d].status = "discarded"
                 PROVE  a \notin suggested'
      OBVIOUS
    <2>1. docs' # docs /\ periodRows' # periodRows
      BY DEF Active
    <2>2. ASSUME NEW r \in Requests, CommitPersist(r) PROVE FALSE
      <3>1. d \in {req[r].doc, req[r].seen}
        BY <2>2, CommitEffects DEF IInv
      <3>2. d # req[r].doc
        BY <2>2, CommitEffects DEF IInv
      <3>3. docs[d] \in Row /\ docs'[d] = [docs[d] EXCEPT !.status = "superseded"]
        BY <2>2, <3>1, <3>2 DEF CommitPersist, SavedDocs, IInv, EntityInv, TypeOK
      <3> QED BY <3>3 DEF Row
    <2>3. ASSUME NEW r \in Requests, CommitClassify(r) PROVE FALSE
      <3>1. req[r].doc = d
        BY <2>3 DEF CommitClassify, IInv, EntityInv, TypeOK
      <3>2. docs[d] \in Row /\ docs'[d] = [docs[d] EXCEPT !.slot = req[r].ent.slot]
        BY <2>3, <3>1 DEF CommitClassify, IInv, EntityInv, TypeOK, HeldEntity
      <3> QED BY <3>2 DEF Row
    <2>4. ASSUME NEW r \in Requests, CommitDiscard(r) PROVE a \notin suggested'
      BY <2>4 DEF CommitDiscard, Active
    <2> QED
      BY <2>1, <2>2, <2>3, <2>4, CoarseCases
      DEF Quits, ReadLatestVersion, InsertDocument, Load, MarkProcessing, ReadFile, OpenPersist,
          Closes, BeginClassify, BeginDiscard
  <1> QED BY <1>1, Invariance, PTL DEF Spec, DiscardRetiresSuggestions

(* The current closing is read from the documents: one that leaves the     *)
(* usable closings without having been the current one changes nothing.    *)
LEMMA CurrentStays ==
  ASSUME TypeOK, TypeOK', NEW d \in Docs, d \notin CurrentClosing,
         docs'[d].status \notin Usable, \A e \in Docs : e # d => docs'[e] = docs[e]
  PROVE  CurrentClosing' = CurrentClosing
  <1>1. \A e \in Docs : docs[e].version \in Nat /\ docs'[e].version \in Nat
    BY DEF TypeOK, Row
  <1>2. ~IsUsableClosing(d)'
    BY DEF IsUsableClosing
  <1>3. \A e \in Docs : e # d => /\ IsUsableClosing(e)' <=> IsUsableClosing(e)
                                 /\ docs'[e].version = docs[e].version
    BY DEF IsUsableClosing
  <1>4. ASSUME NEW x \in Docs, x \in CurrentClosing PROVE x \in CurrentClosing'
    <2>1. x # d /\ IsUsableClosing(x)
          /\ \A e \in Docs : IsUsableClosing(e) => docs[e].version <= docs[x].version
      BY <1>4 DEF CurrentClosing
    <2> QED BY <1>2, <1>3, <2>1 DEF CurrentClosing
  <1>5. ASSUME NEW x \in Docs, x \in CurrentClosing' PROVE x \in CurrentClosing
    <2>1. x # d /\ IsUsableClosing(x)
          /\ \A e \in Docs : e # d /\ IsUsableClosing(e) => docs[e].version <= docs[x].version
      BY <1>2, <1>3, <1>5 DEF CurrentClosing
    <2>2. IsUsableClosing(d) =>
            \E e \in Docs : IsUsableClosing(e) /\ ~(docs[e].version <= docs[d].version)
      BY DEF CurrentClosing
    <2>3. IsUsableClosing(d) => docs[d].version <= docs[x].version
      BY <1>1, <2>1, <2>2
    <2> QED BY <2>1, <2>3 DEF CurrentClosing
  <1>6. CurrentClosing \subseteq Docs /\ CurrentClosing' \subseteq Docs
    BY DEF CurrentClosing
  <1> QED BY <1>4, <1>5, <1>6

(* A processing that fails of a document that was not the current closing  *)
(* leaves the current closing as it was.                                   *)
THEOREM FailureCorrect == Spec => FailureNeverShadows
  <1> DEFINE Step == \A d \in Docs \ CurrentClosing :
                       /\ docs'[d].status \in {"invalid", "processing_error"}
                       /\ docs[d] # docs'[d]
                       => CurrentClosing' = CurrentClosing
  <1>1. IInv /\ [Next]_vars => Step
    <2> SUFFICES ASSUME IInv, [Next]_vars, NEW d \in Docs, d \notin CurrentClosing,
                        docs'[d].status \in {"invalid", "processing_error"}, docs[d] # docs'[d]
                 PROVE  CurrentClosing' = CurrentClosing
      OBVIOUS
    <2> USE DEF IInv, EntityInv, TypeOK, NamesDocument
    <2> DEFINE Alone == \A e \in Docs : e # d => docs'[e] = docs[e]
    <2>1. ASSUME NEW r \in Requests, NEW e \in Docs, InsertDocument(r, e) PROVE Alone
      BY <2>1 DEF InsertDocument
    <2>2. ASSUME NEW r \in Requests, MarkProcessing(r) PROVE Alone
      BY <2>2 DEF MarkProcessing
    <2>3. ASSUME NEW r \in Requests, Closes(r) PROVE Alone
      BY <2>3 DEF Closes
    <2>4. ASSUME NEW r \in Requests, CommitClassify(r) PROVE Alone
      BY <2>4 DEF CommitClassify
    <2>5. ASSUME NEW r \in Requests, CommitDiscard(r) PROVE Alone
      BY <2>5 DEF CommitDiscard
    <2>6. ASSUME NEW r \in Requests, CommitPersist(r) PROVE Alone
      <3>1. d \in {req[r].doc, req[r].seen}
        BY <2>6, CommitEffects
      <3>2. d = req[r].doc
        <4>1. d # req[r].doc => docs[d] \in Row /\ docs'[d] = [docs[d] EXCEPT !.status = "superseded"]
          BY <2>6, <3>1 DEF CommitPersist, SavedDocs
        <4> QED BY <4>1 DEF Row
      <3>3. ~req[r].valid
        BY <2>6, <3>2, CommitEffects
      <3>4. req[r].pc = "open" /\ req[r].seen \in Docs \cup {None}
        BY <2>6 DEF CommitPersist, Request
      <3>5. req[r].seen = None
        BY <3>3, <3>4 DEF PublicationInv, SeenPublished
      <3>6. \A e \in Docs : e # None
        BY ConstantsAssumption
      <3> QED BY <2>6, <3>2, <3>5, <3>6, CommitEffects
    <2>7. Alone
      BY <2>1, <2>2, <2>3, <2>4, <2>5, <2>6, CoarseCases
      DEF Quits, ReadLatestVersion, Load, ReadFile, OpenPersist, BeginClassify, BeginDiscard
    <2>8. docs'[d].status \notin Usable
      BY DEF Usable
    <2>9. TypeOK'
      BY TypeStep
    <2> HIDE DEF IInv, EntityInv, TypeOK
    <2> QED BY <2>7, <2>8, <2>9, CurrentStays DEF IInv, EntityInv
  <1> QED BY <1>1, Invariance, PTL DEF Spec, FailureNeverShadows
=============================================================================
