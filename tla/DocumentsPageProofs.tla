------------------------ MODULE DocumentsPageProofs ------------------------
(***************************************************************************)
(* Proofs about the page of documents and the uploads of files, for any     *)
(* number of uploads, any roles and categories, and any number of faults    *)
(* and gestures.                                                            *)
(***************************************************************************)
EXTENDS DocumentsPage, SequenceTheorems, TLAPS
-----------------------------------------------------------------------------
(* The inductive invariant. *)

\* A file is registered with its object, under the category of its upload.
Registration ==
  \A k \in Keys :
    /\ upload[k].at = "idle" => files[k] = None
    /\ files[k] # None => k \in objects /\ files[k] = upload[k].category

\* An upload of this page keeps the form it was started with.
Ordered ==
  \A k \in Keys : upload[k].page = "documents" =>
    /\ upload[k].category = CategoryForDocument(order[k].type)
    /\ order[k].role = None <=> order[k].type # "balance"

\* The calls of a document follow its upload, and are about its own document.
Handled(o) == o.call \in {"processing", "reading"} \/ o.running

Called ==
  \A k \in Keys :
    /\ order[k].call # None \/ order[k].running =>
         /\ upload[k].page = "documents" /\ upload[k].at = "completed" /\ files[k] # None
    /\ order[k].running => order[k].call \in {"processing", "failed"}
    /\ Handled(order[k]) => order[k].doc \in DOMAIN docs /\ docs[order[k].doc].key = k

\* A document has the form of its upload.
Formed ==
  \A i \in DOMAIN docs :
    LET k == docs[i].key IN
    /\ order[k].call \notin {None, "creating"}
    /\ docs[i].type = order[k].type /\ docs[i].role = order[k].role

\* A file has one document, whatever call was lost.
OneDocument == \A i, j \in DOMAIN docs : docs[i].key = docs[j].key => i = j

\* The dialog discards a balance, under the tab of balances.
Discards ==
  dialog.step # "closed" =>
    /\ form.type = "balance"
    /\ dialog.doc \in DOMAIN docs /\ docs[dialog.doc].type = "balance"

\* A list shows documents there are.
Known(list) == list \in List => list.n <= Len(docs)
Listed == \A q \in Types : Known(cache[q].data) /\ Known(cache[q].fetch)

\* A call of a document will mark the lists when it ends.
Working == \E k \in Keys : order[k].call \in DocCalls

Trusted == visit = "documents" /\ ~doubt

\* Without doubt: no document is processed that the browser gave up, ...
Attended == \A k \in Keys : order[k].running => order[k].call # "failed"

\* ... the list on the screen is fetched as long as it is marked, ...
OnScreen ==
  cache[form.type].fetch = None =>
    cache[form.type].data # None /\ ~cache[form.type].stale

\* ... and what was read, is not marked and did not arrive late is current or
\* will be marked.
Current ==
  \A q \in Types : ~cache[q].late =>
    /\ cache[q].fetch = None /\ cache[q].data # None /\ ~cache[q].stale =>
         cache[q].data.current \/ Working
    /\ cache[q].fetch \in List => cache[q].fetch.current \/ Working

IInv == /\ TypeOK /\ Registration /\ Ordered /\ Called /\ Formed /\ OneDocument
        /\ Discards /\ Listed
        /\ Trusted => Attended /\ OnScreen /\ Current
-----------------------------------------------------------------------------
(* The operators of the model. *)

\* The sequence of documents with the same indices is one.
LEMMA SameDomain ==
  ASSUME TypeOK, NEW d, DOMAIN d = DOMAIN docs,
         d = [i \in DOMAIN docs |-> d[i]],
         \A i \in DOMAIN docs : d[i] \in Document
  PROVE  d \in Seq(Document) /\ Len(d) = Len(docs)
<1>1. docs \in Seq(Document)
  BY DEF TypeOK
<1>2. DOMAIN docs = 1 .. Len(docs) /\ Len(docs) \in Nat
  BY <1>1
<1>3. d \in [1 .. Len(docs) -> Document]
  BY <1>2
<1> QED
  BY <1>2, <1>3

\* A removed load leaves loads.
LEMMA RemovedLoad ==
  ASSUME NEW S, NEW s \in Seq(S), NEW i \in DOMAIN s
  PROVE  RemoveAt(s, i) \in Seq(S)
<1>1. SubSeq(s, 1, i - 1) \in Seq(S) /\ SubSeq(s, i + 1, Len(s)) \in Seq(S)
  BY SubSeqProperties
<1> QED
  BY <1>1 DEF RemoveAt

\* What happens to the uploads, the storage and the registered files.
UploadStep ==
  \/ UNCHANGED <<objects, files, upload>>
  \/ \E k \in Keys, page \in {"files", "documents"} :
       \/ \E c \in Categories : Start(k, page, c) /\ UNCHANGED <<objects, files>>
       \/ CreateUploadUrl(k, page) \/ UploadToStorage(k, page)
       \/ CompleteUpload(k, page) \/ Fail(k, page)

\* The page of files calls nothing else.
LEMMA FilesKinds ==
  ASSUME FilesTypeOK, FilesNext
  PROVE  UploadStep
<1>1. ASSUME NEW k \in Keys, Submit(k)
      PROVE  UploadStep
  <2>1. filesPage.dialog.category \in Categories
    BY <1>1 DEF Submit, FilesTypeOK, FilesPage, Dialog
  <2> QED
    BY <1>1, <2>1 DEF Submit, UploadStep
<1>2. ASSUME NEW k \in Keys, AdvanceFile(k) \/ FileUploaded(k) \/ FailFile(k)
      PROVE  UploadStep
  BY <1>2 DEF AdvanceFile, FileUploaded, FailFile, UploadStep
<1>3. CASE ListFiles \/ Loaded \/ Reload \/ OpenDialog \/ CloseDialog \/ FillDialog
  BY <1>3 DEF ListFiles, Loaded, Reload, OpenDialog, CloseDialog, FillDialog, UploadStep
<1> QED
  BY <1>1, <1>2, <1>3 DEF FilesNext

\* Nor does the page of documents.
LEMMA UploadKinds ==
  ASSUME TypeOK, [Next]_vars
  PROVE  UploadStep
<1> USE DEF filesVars
<1>0. CASE UNCHANGED vars
  BY <1>0 DEF vars, UploadStep
<1>1. CASE FilesNext
  BY <1>1, FilesKinds DEF TypeOK
<1>2. CASE DocumentsNext
  <2>1. ASSUME NEW k \in Keys, Process(k)
        PROVE  UploadStep
    <3>1. CategoryForDocument(form.type) \in Categories
      BY CategoriesAssumption DEF TypeOK, Form
    <3> QED
      BY <2>1, <3>1 DEF Process, UploadStep
  <2>2. ASSUME NEW k \in Keys, AdvanceUpload(k) \/ UploadDone(k) \/ FailUpload(k)
        PROVE  UploadStep
    BY <2>2 DEF AdvanceUpload, UploadDone, FailUpload, UploadStep
  <2>3. \/ \E k \in Keys : Process(k) \/ AdvanceUpload(k) \/ UploadDone(k) \/ FailUpload(k)
        \/ UNCHANGED <<objects, files, upload>>
    BY <1>2 DEF DocumentsNext, Gesture, ChooseType, ChooseRole, AcceptFile, DropMany,
       RemoveFile, OpenDiscard, CancelDiscard, ReadList, ListShown, ListFailed, CreateDocument,
       StartProcessing, EndProcessing, EndUnattended, Finish, FailProcessing, LoseCall,
       Discard, DiscardDone, DiscardFailed
  <2> QED
    BY <2>1, <2>2, <2>3 DEF UploadStep
<1> QED
  BY <1>0, <1>1, <1>2 DEF Next

\* What a step may do to the upload of a key, and to its file.
UploadKept(k) ==
  /\ upload'[k].at = "idle" => upload'[k] = upload[k]
  /\ upload[k].at # "idle" =>
       upload'[k].page = upload[k].page /\ upload'[k].category = upload[k].category
  /\ upload[k].at = "completed" => upload'[k].at = "completed"
  /\ \/ files'[k] = files[k]
     \/ /\ files[k] = None /\ files'[k] = upload[k].category
        /\ k \in objects /\ upload[k].at = "confirming"

\* And nothing else.
LEMMA UploadFrame ==
  ASSUME TypeOK, [Next]_vars
  PROVE  /\ objects \subseteq objects' /\ objects' \subseteq Keys
         /\ files' \in [Keys -> Categories \cup {None}]
         /\ upload' \in [Keys -> Upload]
         /\ \A k \in Keys : UploadKept(k)
<1> DEFINE Goal == /\ objects \subseteq objects' /\ objects' \subseteq Keys
                   /\ files' \in [Keys -> Categories \cup {None}]
                   /\ upload' \in [Keys -> Upload]
                   /\ \A k \in Keys : UploadKept(k)
<1> USE DEF UploadKept
<1>0. FilesTypeOK
  BY DEF TypeOK
<1>1. CASE UNCHANGED <<objects, files, upload>>
  BY <1>0, <1>1 DEF FilesTypeOK
<1>2. ASSUME NEW k \in Keys, NEW page \in {"files", "documents"}, NEW c \in Categories,
             Start(k, page, c), UNCHANGED <<objects, files>>
      PROVE  Goal
  <2>1. [page |-> page, at |-> "preparing", category |-> c] \in Upload
    BY DEF Upload, Calls
  <2>2. upload' = [upload EXCEPT ![k] = [page |-> page, at |-> "preparing", category |-> c]]
        /\ upload[k].at = "idle"
    BY <1>2 DEF Start, Fresh
  <2> QED
    BY <1>0, <1>2, <2>1, <2>2 DEF FilesTypeOK
<1>3. ASSUME NEW k \in Keys, NEW page \in {"files", "documents"}, NEW call \in Calls,
             Answered(k, page, call)
      PROVE  /\ upload' \in [Keys -> Upload] /\ upload[k].at = call
             /\ upload[k].at # "idle" /\ upload[k].at # "completed" /\ upload'[k].at # "idle"
             /\ upload'[k].page = upload[k].page /\ upload'[k].category = upload[k].category
             /\ \A j \in Keys \ {k} : upload'[j] = upload[j]
  <2>1. upload[k] \in Upload
    BY <1>0 DEF FilesTypeOK
  <2>2. NextCall[call] \in {"uploading", "confirming", "completed"}
    BY DEF NextCall, Calls
  <2> DEFINE u == [upload[k] EXCEPT !.at = NextCall[call]]
  <2>3. u \in Upload /\ u.page = upload[k].page /\ u.category = upload[k].category
        /\ u.at = NextCall[call]
    BY <2>1, <2>2 DEF Upload, Calls
  <2>4. upload' = [upload EXCEPT ![k] = u] /\ upload[k].at = call
    BY <1>3, <2>1 DEF Answered, Upload
  <2> HIDE DEF u
  <2> QED
    BY <1>0, <2>2, <2>3, <2>4 DEF FilesTypeOK, Calls
<1>4. ASSUME NEW k \in Keys, NEW page \in {"files", "documents"},
             CreateUploadUrl(k, page) \/ UploadToStorage(k, page)
      PROVE  Goal
  <2>1. PICK call \in Calls : Answered(k, page, call)
    BY <1>4 DEF CreateUploadUrl, UploadToStorage, Calls
  <2>2. objects \subseteq objects' /\ objects' \subseteq Keys /\ files' = files
    BY <1>0, <1>4 DEF CreateUploadUrl, UploadToStorage, FilesTypeOK
  <2> QED
    BY <1>0, <1>3, <2>1, <2>2 DEF FilesTypeOK
<1>5. ASSUME NEW k \in Keys, NEW page \in {"files", "documents"}, CompleteUpload(k, page)
      PROVE  Goal
  <2>1. Answered(k, page, "confirming") /\ "confirming" \in Calls
    BY <1>5 DEF CompleteUpload, Calls
  <2>2. upload[k].category \in Categories \cup {None}
    BY <1>0 DEF FilesTypeOK, Upload
  <2> QED
    BY <1>0, <1>3, <1>5, <2>1, <2>2 DEF FilesTypeOK, CompleteUpload, Completes
<1>6. ASSUME NEW k \in Keys, NEW page \in {"files", "documents"}, Fail(k, page)
      PROVE  Goal
  <2>1. upload[k] \in Upload /\ upload[k].at \in Calls
    BY <1>0, <1>6 DEF FilesTypeOK, Fail
  <2> DEFINE u == [upload[k] EXCEPT !.at = "failed"]
  <2>2. u \in Upload /\ u.page = upload[k].page /\ u.category = upload[k].category
        /\ u.at = "failed"
    BY <2>1 DEF Upload
  <2>3. upload' = [upload EXCEPT ![k] = u]
    BY <1>6, <2>1 DEF Fail, Upload
  <2>4. upload[k].category \in Categories \cup {None}
    BY <2>1 DEF Upload
  <2> HIDE DEF u
  <2>5. /\ upload' \in [Keys -> Upload]
        /\ upload'[k] = u /\ \A j \in Keys \ {k} : upload'[j] = upload[j]
    BY <1>0, <2>2, <2>3 DEF FilesTypeOK
  <2>6. CASE files' = files /\ objects \subseteq objects' /\ objects' \subseteq Keys
    BY <1>0, <2>1, <2>2, <2>5, <2>6 DEF FilesTypeOK, Calls
  <2>7. CASE /\ upload[k].at = "confirming" /\ Completes(k)
             /\ files' = [files EXCEPT ![k] = upload[k].category] /\ UNCHANGED objects
    BY <1>0, <2>1, <2>2, <2>4, <2>5, <2>7 DEF FilesTypeOK, Completes
  <2> QED
    BY <1>0, <1>6, <2>6, <2>7 DEF Fail, FilesTypeOK
<1>7. UploadStep
  BY UploadKinds
<1> QED
  BY <1>1, <1>2, <1>4, <1>5, <1>6, <1>7 DEF UploadStep

\* The page of files stays typed.
LEMMA FilesPageTypes ==
  ASSUME TypeOK, [Next]_vars
  PROVE  filesPage' \in FilesPage
<1> DEFINE Loads == (SUBSET Keys) \cup {None}
<1>1. /\ filesPage \in FilesPage
      /\ filesPage.loads \in Seq(Loads)
      /\ filesPage.dialog \in Dialog
  BY DEF TypeOK, FilesTypeOK, FilesPage
<1>2. ASSUME NEW p \in FilesPage, NEW d \in Dialog
      PROVE  [p EXCEPT !.dialog = d] \in FilesPage
  BY <1>2 DEF FilesPage
<1>3. ASSUME NEW p \in FilesPage
      PROVE  Loading(p) \in FilesPage
  <2>1. p.loads \in Seq(Loads) /\ None \in Loads
    BY DEF FilesPage
  <2>2. Append(p.loads, None) \in Seq(Loads)
    BY <2>1
  <2>3. Loading(p) = [p EXCEPT !.loading = TRUE, !.error = FALSE, !.loads = Append(p.loads, None)]
    BY DEF Loading, FilesPage
  <2> QED
    BY <2>2, <2>3 DEF FilesPage
<1>4. CASE UNCHANGED filesPage
  BY <1>1, <1>4
<1>5. CASE ListFiles
  <2>1. PICK i \in DOMAIN filesPage.loads :
          filesPage' = [filesPage EXCEPT !.loads[i] = Registered]
    BY <1>5 DEF ListFiles
  <2>2. Registered \in Loads
    BY DEF Registered
  <2>3. [filesPage.loads EXCEPT ![i] = Registered] \in Seq(Loads)
    BY <1>1, <2>2
  <2>4. filesPage' = [filesPage EXCEPT !.loads = [filesPage.loads EXCEPT ![i] = Registered]]
    BY <1>1, <2>1 DEF FilesPage
  <2> QED
    BY <1>1, <2>3, <2>4 DEF FilesPage
<1>6. CASE Loaded
  <2>1. PICK i \in DOMAIN filesPage.loads :
          \/ /\ filesPage.loads[i] # None
             /\ filesPage' = [filesPage EXCEPT !.list = filesPage.loads[i], !.loading = FALSE,
                                               !.loads = RemoveAt(filesPage.loads, i)]
          \/ filesPage' = [filesPage EXCEPT !.error = TRUE, !.loading = FALSE,
                                            !.loads = RemoveAt(filesPage.loads, i)]
    BY <1>1, <1>6 DEF Loaded, FilesPage
  <2>2. RemoveAt(filesPage.loads, i) \in Seq(Loads)
    BY <1>1, RemovedLoad
  <2>3. filesPage.loads[i] \in Loads
    BY <1>1
  <2> QED
    BY <1>1, <2>1, <2>2, <2>3 DEF FilesPage
<1>7. CASE Reload
  BY <1>1, <1>3, <1>7 DEF Reload
<1>8. Closed \in Dialog /\ [Closed EXCEPT !.open = TRUE] \in Dialog
  BY DEF Closed, Dialog
<1>9. CASE OpenDialog \/ CloseDialog
  BY <1>1, <1>2, <1>8, <1>9 DEF OpenDialog, CloseDialog
<1>10. CASE FillDialog
  <2>1. \E d \in Dialog : filesPage' = [filesPage EXCEPT !.dialog = d]
    <3>1. ASSUME NEW f \in {"good", "large"}, filesPage' = [filesPage EXCEPT !.dialog.file = f]
          PROVE  \E d \in Dialog : filesPage' = [filesPage EXCEPT !.dialog = d]
      <4>1. [filesPage.dialog EXCEPT !.file = f] \in Dialog
        BY <1>1 DEF Dialog
      <4> QED
        BY <1>1, <3>1, <4>1 DEF FilesPage
    <3>2. ASSUME NEW c \in Categories, filesPage' = [filesPage EXCEPT !.dialog.category = c]
          PROVE  \E d \in Dialog : filesPage' = [filesPage EXCEPT !.dialog = d]
      <4>1. [filesPage.dialog EXCEPT !.category = c] \in Dialog
        BY <1>1 DEF Dialog
      <4> QED
        BY <1>1, <3>2, <4>1 DEF FilesPage
    <3> QED
      BY <1>10, <3>1, <3>2 DEF FillDialog
  <2> QED
    BY <1>1, <1>2, <2>1
<1>11. ASSUME NEW k \in Keys, Submit(k) \/ AdvanceFile(k) \/ FileUploaded(k) \/ FailFile(k)
       PROVE  filesPage' \in FilesPage
  <2>1. ASSUME NEW stage \in Calls \cup {"idle", "completed"}, NEW busy \in BOOLEAN
        PROVE  /\ [filesPage EXCEPT !.dialog.stage = stage] \in FilesPage
               /\ [filesPage EXCEPT !.dialog.stage = stage, !.dialog.submitting = busy] \in FilesPage
    <3>1. /\ [filesPage.dialog EXCEPT !.stage = stage] \in Dialog
          /\ [filesPage.dialog EXCEPT !.stage = stage, !.submitting = busy] \in Dialog
      BY <1>1 DEF Dialog
    <3>2. /\ [filesPage EXCEPT !.dialog.stage = stage]
               = [filesPage EXCEPT !.dialog = [filesPage.dialog EXCEPT !.stage = stage]]
          /\ [filesPage EXCEPT !.dialog.stage = stage, !.dialog.submitting = busy]
               = [filesPage EXCEPT !.dialog =
                    [filesPage.dialog EXCEPT !.stage = stage, !.submitting = busy]]
      BY <1>1 DEF FilesPage, Dialog
    <3> QED
      BY <1>1, <1>2, <3>1, <3>2
  <2>2. CASE Submit(k)
    BY <2>1, <2>2 DEF Submit, Calls
  <2>3. CASE AdvanceFile(k)
    <3>1. PICK call \in {"preparing", "uploading"} : Answered(k, "files", call)
      BY <2>3 DEF AdvanceFile, CreateUploadUrl, UploadToStorage
    <3>2. upload'[k].at \in Calls
      BY <3>1 DEF Answered, NextCall, Calls, TypeOK, FilesTypeOK, Upload
    <3> QED
      BY <2>1, <2>3, <3>2 DEF AdvanceFile
  <2>4. CASE FileUploaded(k)
    BY <1>3, <2>1, <2>4 DEF FileUploaded
  <2>5. CASE FailFile(k)
    BY <2>1, <2>5 DEF FailFile
  <2> QED
    BY <1>11, <2>2, <2>3, <2>4, <2>5
<1>12. UNCHANGED filesPage \/ FilesNext
  BY DEF Next, vars, filesVars, DocumentsNext, Gesture, ChooseType, ChooseRole, AcceptFile,
     DropMany, RemoveFile, OpenDiscard, CancelDiscard, ReadList, ListShown, ListFailed,
     CreateDocument, StartProcessing, EndProcessing, EndUnattended, Finish, FailProcessing,
     LoseCall, Discard, DiscardDone, DiscardFailed, Process, AdvanceUpload, UploadDone, FailUpload
<1> QED
  BY <1>4, <1>5, <1>6, <1>7, <1>9, <1>10, <1>11, <1>12 DEF FilesNext
-----------------------------------------------------------------------------
(* Documents and the calls about them. *)

\* The documents keep what their form said.
DocsKept ==
  /\ docs' \in Seq(Document) /\ Len(docs') = Len(docs)
  /\ \A i \in DOMAIN docs :
       docs'[i].key = docs[i].key /\ docs'[i].type = docs[i].type /\ docs'[i].role = docs[i].role

DocsGrow(k) == order[k].call = "creating" /\ docs' = Append(docs, NewDocument(k, order[k].type))

\* What a step may do to the order of an upload, and to the documents with it.
Begins(k) ==
  /\ DocsKept /\ Process(k)
  /\ upload[k].at = "idle"
  /\ upload'[k].page = "documents"
  /\ upload'[k].category = CategoryForDocument(order'[k].type)
  /\ order'[k].role = None <=> order'[k].type # "balance"
  /\ order'[k].call = order[k].call /\ order'[k].running = order[k].running

Continues(k) ==
  /\ DocsKept /\ UploadDone(k)
  /\ order'[k].call = "creating" /\ order'[k].running = order[k].running

Answers(k) ==
  /\ order[k].call # None
  /\ \/ /\ DocsKept /\ order'[k].doc = order[k].doc
        /\ order'[k].call \in {"processing", "reading", "done", "failed"}
        /\ Handled(order'[k]) => Handled(order[k])
        /\ order'[k].running => order'[k].call \in {"processing", "failed"}
     \/ /\ DocsGrow(k) /\ order'[k].running = order[k].running
        /\ \/ order'[k].call = "processing" /\ order'[k].doc = Len(docs')
           \/ order'[k].call = "failed"

OrderMove(k) ==
  /\ order'[k] \in Order /\ order' = [order EXCEPT ![k] = order'[k]]
  /\ \A j \in Keys \ {k} : order'[j] = order[j]
  /\ \/ Begins(k)
     \/ order'[k].type = order[k].type /\ order'[k].role = order[k].role
        /\ (Continues(k) \/ Answers(k))

\* A document whose status changes keeps its form.
LEMMA StatusKeeps ==
  ASSUME TypeOK, NEW d \in DOMAIN docs, NEW document \in Document,
         document.key = docs[d].key, document.type = docs[d].type, document.role = docs[d].role,
         docs' = [docs EXCEPT ![d] = document]
  PROVE  DocsKept
<1>1. docs \in Seq(Document)
  BY DEF TypeOK
<1>2. docs' \in Seq(Document) /\ Len(docs') = Len(docs)
  BY <1>1, ExceptSeq
<1> QED
  BY <1>1, <1>2 DEF DocsKept

\* What a status makes of a document.
LEMMA StatusTypes ==
  ASSUME NEW document \in Document,
         NEW status \in {"uploaded", "processing", "processed", "invalid",
                         "processing_error", "superseded", "discarded"}
  PROVE  LET changed == [document EXCEPT !.status = status]
             dropped == [document EXCEPT !.status = status, !.discarded = TRUE]
         IN /\ changed \in Document /\ changed.key = document.key
            /\ changed.type = document.type /\ changed.role = document.role
            /\ dropped \in Document /\ dropped.key = document.key
            /\ dropped.type = document.type /\ dropped.role = document.role
BY DEF Document

\* The end of a processing keeps every form.
LEMMA OutcomeKeeps ==
  ASSUME TypeOK, NEW d \in DOMAIN docs,
         NEW status \in {"processed", "invalid", "processing_error"},
         docs' = Outcome(d, status)
  PROVE  DocsKept
<1>1. docs \in Seq(Document) /\ docs[d] \in Document
  BY DEF TypeOK
<1>2. CASE status # "processed"
  <2> DEFINE document == [docs[d] EXCEPT !.status = status]
  <2>1. docs' = [docs EXCEPT ![d] = document]
    BY <1>1, <1>2 DEF Outcome
  <2>2. /\ document \in Document /\ document.key = docs[d].key
        /\ document.type = docs[d].type /\ document.role = docs[d].role
    BY <1>1 DEF Document
  <2> HIDE DEF document
  <2> QED
    BY <2>1, <2>2, StatusKeeps
<1>3. CASE status = "processed"
  <2> DEFINE earlier == {e \in 1 .. d - 1 : /\ docs[e].status = "processed"
                                            /\ docs[e].type = docs[d].type
                                            /\ docs[e].role = docs[d].role}
             last(e) == e \in earlier /\ \A x \in earlier : x <= e
  <2>1. docs' = [e \in DOMAIN docs |->
                   IF e = d THEN [docs[e] EXCEPT !.status = "processed"]
                   ELSE IF last(e) THEN [docs[e] EXCEPT !.status = "superseded"] ELSE docs[e]]
    BY <1>3 DEF Outcome, Published
  <2> HIDE DEF last
  <2>2. ASSUME NEW i \in DOMAIN docs
        PROVE  /\ docs'[i] \in Document
               /\ docs'[i].key = docs[i].key /\ docs'[i].type = docs[i].type
               /\ docs'[i].role = docs[i].role
    <3>1. docs[i] \in Document
      BY <1>1
    <3>2. docs'[i] \in {docs[i], [docs[i] EXCEPT !.status = "processed"],
                               [docs[i] EXCEPT !.status = "superseded"]}
      BY <2>1
    <3> QED
      BY <3>1, <3>2 DEF Document
  <2>3. docs' \in Seq(Document) /\ Len(docs') = Len(docs)
    BY <2>1, <2>2, SameDomain
  <2> QED
    BY <2>2, <2>3 DEF DocsKept
<1> QED
  BY <1>2, <1>3

\* A form that is processed begins its order.
LEMMA ProcessBegins ==
  ASSUME TypeOK, NEW k \in Keys, Process(k)
  PROVE  Begins(k) /\ OrderMove(k)
<1>0. /\ docs \in Seq(Document) /\ order \in [Keys -> Order]
      /\ \A j \in Keys : order[j] \in Order
      /\ UNCHANGED docs => DocsKept
  BY DEF TypeOK, DocsKept
<1>1. form.type \in Types /\ form.role \in Roles
  BY DEF TypeOK, Form
<1> DEFINE role == IF form.type = "balance" THEN form.role ELSE None
           o == [order[k] EXCEPT !.type = form.type, !.role = role]
<1>2. role \in Roles /\ (role = None <=> form.type # "balance")
  BY <1>1 DEF Process, Roles
<1>3. order' = [order EXCEPT ![k] = o]
  BY <1>0 DEF Process, Order
<1> HIDE DEF role
<1>4. /\ o \in Order /\ o.type = form.type /\ o.role = role
      /\ o.call = order[k].call /\ o.running = order[k].running
  BY <1>0, <1>1, <1>2 DEF Order
<1> HIDE DEF o
<1>5. /\ order'[k] = o /\ \A j \in Keys \ {k} : order'[j] = order[j]
  BY <1>0, <1>3
<1>6. /\ upload[k].at = "idle"
      /\ upload'[k] = [page |-> "documents", at |-> "preparing",
                       category |-> CategoryForDocument(form.type)]
  BY DEF Process, Start, Fresh, TypeOK, FilesTypeOK
<1>7. DocsKept
  BY <1>0 DEF Process
<1>8. Begins(k)
  BY <1>2, <1>4, <1>5, <1>6, <1>7 DEF Begins
<1>9. order' = [order EXCEPT ![k] = order'[k]]
  BY <1>3, <1>5
<1> QED
  BY <1>4, <1>5, <1>8, <1>9 DEF OrderMove

\* The orders and documents change together, one order at a time.
LEMMA OrderMoves ==
  ASSUME TypeOK, Called, Discards, [Next]_vars
  PROVE  (order' = order /\ DocsKept) \/ \E k \in Keys : OrderMove(k)
<1> DEFINE Goal == (order' = order /\ DocsKept) \/ \E k \in Keys : OrderMove(k)
<1>0. /\ docs \in Seq(Document) /\ order \in [Keys -> Order]
      /\ \A k \in Keys : order[k] \in Order
      /\ UNCHANGED docs => DocsKept
  BY DEF TypeOK, DocsKept
<1>1. CASE UNCHANGED <<order, docs>>
  BY <1>0, <1>1
<1>2. ASSUME NEW k \in Keys, Process(k)
      PROVE  Goal
  BY <1>2, ProcessBegins
<1>3. ASSUME NEW k \in Keys, UploadDone(k)
      PROVE  Goal
  <2> DEFINE o == [order[k] EXCEPT !.call = "creating"]
  <2>1. order' = [order EXCEPT ![k] = o] /\ docs' = docs
    BY <1>3 DEF UploadDone
  <2>2. /\ o \in Order /\ o.type = order[k].type /\ o.role = order[k].role
        /\ o.call = "creating" /\ o.running = order[k].running
    BY <1>0 DEF Order, DocCalls
  <2> HIDE DEF o
  <2>3. order'[k] = o /\ \A j \in Keys \ {k} : order'[j] = order[j]
    BY <1>0, <2>1
  <2> QED
    BY <1>0, <1>3, <2>1, <2>2, <2>3 DEF OrderMove, Continues
<1>4. ASSUME NEW k \in Keys, order[k].call # None,
             NEW call \in {"processing", "reading", "done", "failed"},
             NEW running \in BOOLEAN,
             order' = [order EXCEPT ![k].running = running, ![k].call = call],
             DocsKept,
             call \in {"processing", "reading"} \/ running => Handled(order[k]),
             running => call \in {"processing", "failed"}
      PROVE  Goal
  <2> DEFINE o == [order[k] EXCEPT !.running = running, !.call = call]
  <2>1. order' = [order EXCEPT ![k] = o]
    BY <1>0, <1>4 DEF Order
  <2>2. /\ o \in Order /\ o.type = order[k].type /\ o.role = order[k].role
        /\ o.call = call /\ o.running = running /\ o.doc = order[k].doc
    BY <1>0, <1>4 DEF Order, DocCalls
  <2> HIDE DEF o
  <2>3. order'[k] = o /\ \A j \in Keys \ {k} : order'[j] = order[j]
    BY <1>0, <2>1
  <2> QED
    BY <1>4, <2>1, <2>2, <2>3 DEF OrderMove, Answers, Handled
<1>5. ASSUME NEW k \in Keys, DocsGrow(k),
             \/ order' = [order EXCEPT ![k].doc = Len(docs'), ![k].call = "processing"]
             \/ order' = [order EXCEPT ![k].call = "failed"]
      PROVE  Goal
  <2>1. Len(docs') \in Nat /\ None # "creating"
    BY <1>0, <1>5, SentAssumption DEF DocsGrow, DocCalls
  <2>2. PICK o \in {[order[k] EXCEPT !.doc = Len(docs'), !.call = "processing"],
                    [order[k] EXCEPT !.call = "failed"]} : order' = [order EXCEPT ![k] = o]
    BY <1>0, <1>5 DEF Order
  <2>3. /\ o \in Order /\ o.type = order[k].type /\ o.role = order[k].role
        /\ o.running = order[k].running
        /\ (o.call = "processing" /\ o.doc = Len(docs')) \/ o.call = "failed"
    BY <1>0, <2>1, <2>2 DEF Order, DocCalls
  <2>4. order'[k] = o /\ \A j \in Keys \ {k} : order'[j] = order[j]
    BY <1>0, <2>2
  <2> QED
    BY <1>5, <2>1, <2>2, <2>3, <2>4 DEF OrderMove, Answers, DocsGrow
<1> HIDE DEF Goal
<1>6. ASSUME NEW k \in Keys, CreateDocument(k)
      PROVE  Goal
  <2>1. DocsGrow(k)
    BY <1>6 DEF CreateDocument, DocsGrow
  <2>2. order' = [order EXCEPT ![k].doc = Len(docs'), ![k].call = "processing"]
    BY <1>6 DEF CreateDocument
  <2> QED
    BY <1>5, <2>1, <2>2
<1>7. ASSUME NEW k \in Keys, Handled(order[k]),
             NEW status \in {"processing", "processing_error"},
             docs' = [docs EXCEPT ![order[k].doc].status = status]
      PROVE  DocsKept
  <2>1. order[k].doc \in DOMAIN docs /\ docs[order[k].doc] \in Document
    BY <1>0, <1>7 DEF Called
  <2>2. docs' = [docs EXCEPT ![order[k].doc] = [docs[order[k].doc] EXCEPT !.status = status]]
    BY <1>0, <1>7, <2>1
  <2> QED
    BY <2>1, <2>2, StatusKeeps, StatusTypes
<1>8. ASSUME NEW k \in Keys, StartProcessing(k)
      PROVE  Goal
  <2>1. Handled(order[k]) /\ DocsKept
    BY <1>7, <1>8 DEF StartProcessing, Handled
  <2>2. order' = [order EXCEPT ![k].running = TRUE, ![k].call = "processing"]
    BY <1>0, <1>8 DEF StartProcessing, Order
  <2>3. order[k].call # None
    BY <1>8, SentAssumption DEF StartProcessing, DocCalls
  <2> QED
    BY <1>4, <2>1, <2>2, <2>3
<1>9. ASSUME NEW k \in Keys, EndProcessing(k)
      PROVE  Goal
  <2>1. Handled(order[k]) /\ order[k].call # None
    BY <1>9, SentAssumption DEF EndProcessing, Handled, DocCalls
  <2>2. order[k].doc \in DOMAIN docs
    BY <2>1 DEF Called
  <2>3. DocsKept
    BY <1>9, <2>2, OutcomeKeeps DEF EndProcessing
  <2>4. order' = [order EXCEPT ![k].running = FALSE, ![k].call = "reading"]
    BY <1>9 DEF EndProcessing
  <2> QED
    BY <1>4, <2>1, <2>3, <2>4
<1>10. ASSUME NEW k \in Keys, EndUnattended(k)
       PROVE  Goal
  <2>1. Handled(order[k]) /\ order[k].call # None
    BY <1>10, SentAssumption DEF EndUnattended, Handled, DocCalls
  <2>2. order[k].doc \in DOMAIN docs
    BY <2>1 DEF Called
  <2>3. DocsKept
    BY <1>10, <2>2, OutcomeKeeps DEF EndUnattended
  <2>4. order' = [order EXCEPT ![k].running = FALSE, ![k].call = "failed"]
    BY <1>0, <1>10 DEF EndUnattended, Order
  <2> QED
    BY <1>4, <2>1, <2>3, <2>4
<1>11. ASSUME NEW k \in Keys, Finish(k)
       PROVE  Goal
  <2>1. order[k].call = "reading" /\ order[k].call # None /\ docs' = docs
    BY <1>11, SentAssumption DEF Finish, DocCalls
  <2>2. ~order[k].running
    BY <1>0, <2>1 DEF Called, Order
  <2>3. order' = [order EXCEPT ![k].running = FALSE, ![k].call = "done"]
    BY <1>0, <1>11, <2>2 DEF Finish, Order
  <2> QED
    BY <1>0, <1>4, <2>1, <2>3
<1>12. ASSUME NEW k \in Keys, FailProcessing(k)
       PROVE  Goal
  <2>1. Handled(order[k]) /\ order[k].call # None
    BY <1>12, SentAssumption DEF FailProcessing, Handled, DocCalls
  <2>2. DocsKept
    BY <1>7, <1>12, <2>1 DEF FailProcessing
  <2>3. order' = [order EXCEPT ![k].running = FALSE, ![k].call = "failed"]
    BY <1>12 DEF FailProcessing
  <2> QED
    BY <1>4, <2>1, <2>2, <2>3
<1>13. ASSUME NEW k \in Keys, LoseCall(k)
       PROVE  Goal
  <2>1. order[k].call \in DocCalls /\ order[k].call # None
    BY <1>13, SentAssumption DEF LoseCall
  <2>2. order' = [order EXCEPT ![k].call = "failed"]
    BY <1>13 DEF LoseCall
  <2>3. CASE docs' = docs
    <3>1. order' = [order EXCEPT ![k].running = order[k].running, ![k].call = "failed"]
      BY <1>0, <2>2 DEF Order
    <3>2. order[k].running \in BOOLEAN /\ (order[k].running => Handled(order[k])) /\ DocsKept
      BY <1>0, <2>3 DEF Order, Handled
    <3> QED
      BY <1>4, <2>1, <3>1, <3>2
  <2>4. CASE order[k].call = "creating" /\ docs' = Append(docs, NewDocument(k, order[k].type))
    BY <1>5, <2>2, <2>4 DEF DocsGrow
  <2> QED
    BY <1>13, <2>3, <2>4 DEF LoseCall
<1>14. CASE DiscardDone \/ DiscardFailed
  <2>1. dialog.step # "closed" /\ order' = order
    BY <1>14 DEF DiscardDone, DiscardFailed
  <2>2. dialog.doc \in DOMAIN docs /\ docs[dialog.doc] \in Document
    BY <1>0, <2>1 DEF Discards
  <2>3. docs' = docs
        \/ docs' = [docs EXCEPT ![dialog.doc] =
                      [docs[dialog.doc] EXCEPT !.status = "discarded", !.discarded = TRUE]]
    BY <1>0, <1>14, <2>2 DEF DiscardDone, DiscardFailed
  <2>4. DocsKept
    BY <1>0, <2>2, <2>3, StatusKeeps, StatusTypes
  <2> QED
    BY <2>1, <2>4 DEF Goal
<1>15. \/ UNCHANGED <<order, docs>> \/ DiscardDone \/ DiscardFailed
       \/ \E k \in Keys : \/ Process(k) \/ UploadDone(k) \/ CreateDocument(k)
                          \/ StartProcessing(k) \/ EndProcessing(k) \/ EndUnattended(k)
                          \/ Finish(k) \/ FailProcessing(k) \/ LoseCall(k)
  BY DEF Next, vars, pageVars, DocumentsNext, Gesture, ChooseType, ChooseRole, AcceptFile,
     DropMany, RemoveFile, OpenDiscard, CancelDiscard, ReadList, ListShown, ListFailed,
     Discard, AdvanceUpload, FailUpload
<1> QED
  BY <1>1, <1>2, <1>3, <1>6, <1>8, <1>9, <1>10, <1>11, <1>12, <1>13, <1>14, <1>15 DEF Goal

\* Where each upload gets the page and the category it has.
LEMMA Started ==
  ASSUME TypeOK, [Next]_vars, NEW k \in Keys
  PROVE  \/ upload'[k].page = upload[k].page /\ upload'[k].category = upload[k].category
         \/ upload'[k].page = "files"
         \/ Process(k)
<1> DEFINE Same(j) == upload'[j].page = upload[j].page /\ upload'[j].category = upload[j].category
           Goal == Same(k) \/ upload'[k].page = "files" \/ Process(k)
<1>0. \A j \in Keys : upload \in [Keys -> Upload] /\ upload[j] \in Upload
  BY DEF TypeOK, FilesTypeOK
<1>1. CASE upload' = upload
  BY <1>1
<1>2. ASSUME NEW j \in Keys, NEW page, NEW c, Start(j, page, c)
      PROVE  Same(k) \/ (j = k /\ upload'[k].page = page)
  BY <1>0, <1>2 DEF Start
<1>3. ASSUME NEW j \in Keys, NEW x, upload' = [upload EXCEPT ![j].at = x]
      PROVE  Same(k)
  BY <1>0, <1>3 DEF Upload
<1>4. ASSUME NEW j \in Keys, NEW page,
             \/ CreateUploadUrl(j, page) \/ UploadToStorage(j, page)
             \/ CompleteUpload(j, page) \/ Fail(j, page)
      PROVE  Same(k)
  <2>1. \E x : upload' = [upload EXCEPT ![j].at = x]
    BY <1>4 DEF CreateUploadUrl, UploadToStorage, CompleteUpload, Answered, Fail
  <2> QED
    BY <1>3, <2>1
<1>5. ASSUME FilesNext
      PROVE  Goal
  <2>1. ASSUME NEW j \in Keys, Submit(j)
        PROVE  Goal
    BY <1>2, <2>1 DEF Submit
  <2>2. ASSUME NEW j \in Keys, AdvanceFile(j) \/ FileUploaded(j) \/ FailFile(j)
        PROVE  Goal
    BY <1>4, <2>2 DEF AdvanceFile, FileUploaded, FailFile
  <2>3. ASSUME ListFiles \/ Loaded \/ Reload \/ OpenDialog \/ CloseDialog \/ FillDialog
        PROVE  Goal
    BY <1>1, <2>3 DEF ListFiles, Loaded, Reload, OpenDialog, CloseDialog, FillDialog
  <2> QED
    BY <1>5, <2>1, <2>2, <2>3 DEF FilesNext
<1>6. ASSUME NEW j \in Keys, Process(j)
      PROVE  Goal
  BY <1>2, <1>6 DEF Process
<1>7. ASSUME NEW j \in Keys, AdvanceUpload(j) \/ UploadDone(j) \/ FailUpload(j)
      PROVE  Goal
  BY <1>4, <1>7 DEF AdvanceUpload, UploadDone, FailUpload
<1>8. \/ FilesNext \/ upload' = upload
      \/ \E j \in Keys : Process(j) \/ AdvanceUpload(j) \/ UploadDone(j) \/ FailUpload(j)
  BY DEF Next, vars, filesVars, DocumentsNext, Gesture, ChooseType, ChooseRole, AcceptFile,
     DropMany, RemoveFile, OpenDiscard, CancelDiscard, ReadList, ListShown, ListFailed,
     CreateDocument, StartProcessing, EndProcessing, EndUnattended, Finish, FailProcessing,
     LoseCall, Discard, DiscardDone, DiscardFailed
<1> QED
  BY <1>1, <1>5, <1>6, <1>7, <1>8

\* Registered files stay with their objects and categories.
LEMMA RegistrationStep ==
  ASSUME TypeOK, Registration, [Next]_vars
  PROVE  Registration'
<1> SUFFICES ASSUME NEW k \in Keys
             PROVE  /\ upload'[k].at = "idle" => files'[k] = None
                    /\ files'[k] # None => k \in objects' /\ files'[k] = upload'[k].category
  BY DEF Registration
<1>1. objects \subseteq objects' /\ UploadKept(k)
  BY UploadFrame
<1>2. upload[k].at = "idle" => files[k] = None
  BY DEF Registration
<1>3. files[k] # None => k \in objects /\ files[k] = upload[k].category
  BY DEF Registration
<1> QED
  BY <1>1, <1>2, <1>3 DEF UploadKept

\* What a step leaves of the documents.
LEMMA DocsGrown ==
  ASSUME TypeOK, NEW k \in Keys, DocsGrow(k)
  PROVE  /\ docs' \in Seq(Document) /\ Len(docs') = Len(docs) + 1
         /\ \A i \in DOMAIN docs : docs'[i] = docs[i]
         /\ docs'[Len(docs')] = NewDocument(k, order[k].type)
         /\ DOMAIN docs' = 1 .. Len(docs') /\ DOMAIN docs = 1 .. Len(docs) /\ Len(docs) \in Nat
<1>1. docs \in Seq(Document) /\ order[k] \in Order
  BY DEF TypeOK
<1>2. NewDocument(k, order[k].type) \in Document
  BY <1>1 DEF NewDocument, Order, Document
<1> QED
  BY <1>1, <1>2 DEF DocsGrow

\* The documents stay a sequence.
LEMMA DocsTypes ==
  ASSUME TypeOK, Called, Discards, [Next]_vars
  PROVE  docs' \in Seq(Document) /\ order' \in [Keys -> Order] /\ Len(docs) <= Len(docs')
<1>1. order \in [Keys -> Order] /\ Len(docs) \in Nat
  BY DEF TypeOK
<1>2. CASE order' = order /\ DocsKept
  BY <1>1, <1>2 DEF DocsKept
<1>3. ASSUME NEW k \in Keys, OrderMove(k)
      PROVE  docs' \in Seq(Document) /\ order' \in [Keys -> Order] /\ Len(docs) <= Len(docs')
  <2>1. DocsKept \/ DocsGrow(k)
    BY <1>3 DEF OrderMove, Begins, Continues, Answers
  <2>2. docs' \in Seq(Document) /\ Len(docs) <= Len(docs')
    BY <1>1, <2>1, DocsGrown DEF DocsKept
  <2>3. order' \in [Keys -> Order]
    BY <1>1, <1>3 DEF OrderMove
  <2> QED
    BY <2>2, <2>3
<1> QED
  BY <1>2, <1>3, OrderMoves

\* An upload of the page of documents keeps the form it was started with.
LEMMA OrderedStep ==
  ASSUME TypeOK, Called, Discards, Ordered, [Next]_vars
  PROVE  Ordered'
<1> SUFFICES ASSUME NEW j \in Keys, upload'[j].page = "documents"
             PROVE  /\ upload'[j].category = CategoryForDocument(order'[j].type)
                    /\ order'[j].role = None <=> order'[j].type # "balance"
  BY DEF Ordered
<1>1. ASSUME order'[j].type = order[j].type, order'[j].role = order[j].role, ~Process(j)
      PROVE  /\ upload'[j].category = CategoryForDocument(order'[j].type)
             /\ order'[j].role = None <=> order'[j].type # "balance"
  BY <1>1, Started DEF Ordered
<1>2. CASE Process(j)
  BY <1>2, ProcessBegins DEF Begins
<1>3. CASE ~Process(j)
  <2>1. ASSUME NEW k \in Keys, OrderMove(k)
        PROVE  order'[j].type = order[j].type /\ order'[j].role = order[j].role
    BY <1>3, <2>1 DEF OrderMove, Begins
  <2>2. order'[j].type = order[j].type /\ order'[j].role = order[j].role
    BY <2>1, OrderMoves
  <2> QED
    BY <1>1, <1>3, <2>2
<1> QED
  BY <1>2, <1>3

\* The calls of a document follow its upload, whatever moves.
LEMMA CalledStep ==
  ASSUME TypeOK, Called, Discards, Ordered, [Next]_vars
  PROVE  Called'
<1> DEFINE Uploaded(k) ==
      upload[k].page = "documents" /\ upload[k].at = "completed" /\ files[k] # None
<1>1. ASSUME NEW k \in Keys, Uploaded(k)
      PROVE  Uploaded(k)'
  BY <1>1, UploadFrame DEF UploadKept
<1>2. /\ docs \in Seq(Document) /\ DOMAIN docs = 1 .. Len(docs) /\ Len(docs) \in Nat
      /\ \A j \in Keys : order[j] \in Order
  BY DEF TypeOK
<1> DEFINE Stays(j, o) ==
      /\ o.call # None \/ o.running => Uploaded(j)'
      /\ o.running => o.call \in {"processing", "failed"}
      /\ Handled(o) => o.doc \in DOMAIN docs' /\ docs'[o.doc].key = j
<1>3. ASSUME NEW j \in Keys, DocsKept \/ \E k \in Keys : DocsGrow(k)
      PROVE  Stays(j, order[j])
  <2>1. DOMAIN docs \subseteq DOMAIN docs' /\ \A i \in DOMAIN docs : docs'[i].key = docs[i].key
    BY <1>2, <1>3, DocsGrown DEF DocsKept
  <2>2. order[j].call # None \/ order[j].running => Uploaded(j)'
    BY <1>1 DEF Called
  <2>3. order[j].running => order[j].call \in {"processing", "failed"}
    BY DEF Called
  <2>4. Handled(order[j]) => order[j].doc \in DOMAIN docs /\ docs[order[j].doc].key = j
    BY DEF Called
  <2> HIDE DEF Uploaded
  <2> QED
    BY <2>1, <2>2, <2>3, <2>4
<1>4. ASSUME NEW k \in Keys, OrderMove(k)
      PROVE  Stays(k, order'[k])
  <2>1. CASE Begins(k)
    <3>1. order[k].call = None /\ ~order[k].running
      BY <1>2, <2>1 DEF Called, Begins, Order
    <3> QED
      BY <2>1, <3>1, SentAssumption DEF Begins, Handled, DocCalls
  <2>2. CASE Continues(k)
    <3>1. Uploaded(k)'
      <4>1. /\ upload[k].page = "documents" /\ upload[k].at = "confirming"
            /\ upload' = [upload EXCEPT ![k].at = "completed"]
            /\ files' = [files EXCEPT ![k] = upload[k].category]
        BY <2>2 DEF Continues, UploadDone, CompleteUpload, Answered, NextCall
      <4>2. upload'[k].at = "completed" /\ upload'[k].page = "documents"
            /\ files'[k] = upload[k].category
        BY <4>1 DEF TypeOK, FilesTypeOK, Upload
      <4>3. upload[k].category \in Categories
        BY <1>2, <4>1, CategoriesAssumption DEF Ordered, Order
      <4> QED
        BY <4>2, <4>3, FilesAssumption
    <3>2. ~order[k].running
      BY <1>2, <2>2, SentAssumption DEF Called, Continues, UploadDone, CompleteUpload, Answered, Order
    <3> QED
      BY <2>2, <3>1, <3>2 DEF Continues, Handled
  <2>3. CASE Answers(k)
    <3>1. Uploaded(k)'
      BY <1>1, <2>3 DEF Answers, Called
    <3> HIDE DEF Uploaded
    <3>2. CASE /\ DocsKept /\ order'[k].doc = order[k].doc
               /\ Handled(order'[k]) => Handled(order[k])
               /\ order'[k].running => order'[k].call \in {"processing", "failed"}
      <4>1. Stays(k, order[k])
        BY <1>3, <3>2
      <4> QED
        BY <3>1, <3>2, <4>1
    <3>3. CASE /\ DocsGrow(k) /\ order'[k].running = order[k].running
               /\ \/ order'[k].call = "processing" /\ order'[k].doc = Len(docs')
                  \/ order'[k].call = "failed"
      <4>1. order[k].call = "creating" /\ ~order[k].running
        BY <1>2, <3>3 DEF DocsGrow, Called, Order
      <4>2. Len(docs') \in DOMAIN docs' /\ docs'[Len(docs')].key = k
        <5>1. Len(docs') = Len(docs) + 1 /\ DOMAIN docs' = 1 .. Len(docs')
              /\ docs'[Len(docs')] = NewDocument(k, order[k].type)
          BY <3>3, DocsGrown
        <5>2. Len(docs') \in DOMAIN docs'
          BY <1>2, <5>1
        <5> QED
          BY <5>1, <5>2 DEF NewDocument
      <4> QED
        BY <3>1, <3>3, <4>1, <4>2 DEF Handled
    <3> QED
      BY <2>3, <3>2, <3>3 DEF Answers
  <2> QED
    BY <1>4, <2>1, <2>2, <2>3 DEF OrderMove
<1>5. ASSUME NEW j \in Keys
      PROVE  Stays(j, order'[j])
  <2>1. ASSUME NEW k \in Keys, OrderMove(k)
        PROVE  Stays(j, order'[j])
    <3>1. DocsKept \/ DocsGrow(k)
      BY <2>1 DEF OrderMove, Begins, Continues, Answers
    <3>2. j # k => Stays(j, order[j]) /\ order'[j] = order[j]
      BY <1>3, <2>1, <3>1 DEF OrderMove
    <3> HIDE DEF Stays
    <3> QED
      BY <1>4, <2>1, <3>2
  <2> HIDE DEF Stays
  <2> QED
    BY <1>3, <2>1, OrderMoves
<1> QED
  BY <1>5 DEF Called

\* A document has the form of its upload, and is the only one of its file.
LEMMA FormedStep ==
  ASSUME TypeOK, Called, Discards, Formed, OneDocument, [Next]_vars
  PROVE  Formed' /\ OneDocument'
<1> DEFINE Fits(d, o) == o.call \notin {None, "creating"} /\ d.type = o.type /\ d.role = o.role
<1>1. /\ docs \in Seq(Document) /\ DOMAIN docs = 1 .. Len(docs) /\ Len(docs) \in Nat
      /\ \A j \in Keys : order[j] \in Order
      /\ \A i \in DOMAIN docs : docs[i].key \in Keys
  <2>1. docs \in Seq(Document) /\ order \in [Keys -> Order]
    BY DEF TypeOK
  <2>2. \A i \in DOMAIN docs : docs[i] \in Document
    BY <2>1
  <2>3. \A i \in DOMAIN docs : docs[i].key \in Keys
    BY <2>2 DEF Document
  <2> QED
    BY <2>1, <2>3
<1>2. \A i \in DOMAIN docs : Fits(docs[i], order[docs[i].key])
  BY DEF Formed
<1>3. ASSUME NEW k \in Keys, OrderMove(k), NEW i \in DOMAIN docs
      PROVE  Fits(docs[i], order'[docs[i].key])
  <2>1. CASE docs[i].key # k
    BY <1>1, <1>2, <1>3, <2>1 DEF OrderMove
  <2>2. CASE docs[i].key = k
    <3>1. order[k].call # None /\ order[k].call # "creating" /\ docs[i].type = order[k].type
          /\ docs[i].role = order[k].role
      BY <1>2, <2>2
    <3>2. upload[k].at = "completed"
      BY <3>1 DEF Called
    <3>3. ~Begins(k) /\ ~Continues(k)
      BY <3>2 DEF Begins, Continues, UploadDone, CompleteUpload, Answered
    <3>4. Answers(k) /\ ~DocsGrow(k) /\ order'[k].type = order[k].type
          /\ order'[k].role = order[k].role
      BY <1>3, <3>1, <3>3 DEF OrderMove, DocsGrow
    <3> QED
      BY <2>2, <3>1, <3>4, SentAssumption DEF Answers, DocCalls
  <2> QED
    BY <2>1, <2>2
<1>4. CASE order' = order /\ DocsKept
  <2>1. DOMAIN docs' = DOMAIN docs
    BY <1>1, <1>4 DEF DocsKept
  <2> QED
    BY <1>2, <1>4, <2>1 DEF DocsKept, Formed, OneDocument
<1>5. ASSUME NEW k \in Keys, OrderMove(k), DocsKept
      PROVE  Formed' /\ OneDocument'
  <2>1. DOMAIN docs' = DOMAIN docs
    BY <1>1, <1>5 DEF DocsKept
  <2>2. \A i \in DOMAIN docs : Fits(docs[i], order'[docs[i].key])
    BY <1>3, <1>5
  <2> QED
    BY <1>5, <2>1, <2>2 DEF DocsKept, Formed, OneDocument
<1>6. ASSUME NEW k \in Keys, OrderMove(k), DocsGrow(k)
      PROVE  Formed' /\ OneDocument'
  <2> DEFINE n == Len(docs) + 1
  <2>1. /\ DOMAIN docs' = 1 .. n /\ \A i \in DOMAIN docs : docs'[i] = docs[i]
        /\ docs'[n] = NewDocument(k, order[k].type) /\ n \notin DOMAIN docs
        /\ DOMAIN docs' = DOMAIN docs \cup {n}
    <3>1. /\ Len(docs') = n /\ DOMAIN docs' = 1 .. Len(docs')
          /\ \A i \in DOMAIN docs : docs'[i] = docs[i]
          /\ docs'[Len(docs')] = NewDocument(k, order[k].type)
      BY <1>6, DocsGrown
    <3>2. n \notin DOMAIN docs /\ 1 .. n = DOMAIN docs \cup {n}
      BY <1>1
    <3> QED
      BY <3>1, <3>2
  <2> HIDE DEF n
  <2>2. \A i \in DOMAIN docs : Fits(docs'[i], order'[docs'[i].key])
    BY <1>3, <1>6, <2>1
  <2>3. \A i \in DOMAIN docs : docs'[i].key # k
    BY <1>2, <1>6, <2>1 DEF DocsGrow
  <2>4. docs'[n].key = k /\ Fits(docs'[n], order'[k])
    <3>1. order[k].call = "creating" /\ order[k].call # None
      BY <1>6, SentAssumption DEF DocsGrow, DocCalls
    <3>2. upload[k].at = "completed"
      BY <3>1 DEF Called
    <3>3. order'[k].type = order[k].type /\ order'[k].role = order[k].role /\ Answers(k)
      BY <1>6, <3>2 DEF OrderMove, Begins, Continues, UploadDone, CompleteUpload, Answered
    <3> QED
      BY <2>1, <3>3, SentAssumption DEF Answers, NewDocument, DocCalls
  <2> HIDE DEF Fits
  <2>5. \A i \in DOMAIN docs' : Fits(docs'[i], order'[docs'[i].key])
    BY <2>1, <2>2, <2>4
  <2>6. OneDocument'
    <3> SUFFICES ASSUME NEW i \in DOMAIN docs', NEW j \in DOMAIN docs',
                        docs'[i].key = docs'[j].key
                 PROVE  i = j
      BY DEF OneDocument
    <3> QED
      BY <2>1, <2>3, <2>4 DEF OneDocument
  <2> QED
    BY <2>5, <2>6 DEF Formed, Fits
<1>7. ASSUME NEW k \in Keys, OrderMove(k)
      PROVE  DocsKept \/ DocsGrow(k)
  BY <1>7 DEF OrderMove, Begins, Continues, Answers
<1> QED
  BY <1>4, <1>5, <1>6, <1>7, OrderMoves
-----------------------------------------------------------------------------
(* The cached lists. *)

\* Lists of no more than n documents.
Upto(c, n) ==
  /\ c \in [Types -> Query]
  /\ \A q \in Types : /\ c[q].data \in List => c[q].data.n <= n
                      /\ c[q].fetch \in List => c[q].fetch.n <= n

\* What a list becomes when its documents change: the same but not current.
LEMMA OutdatedList ==
  ASSUME NEW list \in List \cup {None, Sent}
  PROVE  /\ Outdated(list) \in List \cup {None, Sent}
         /\ Outdated(list) = None <=> list = None
         /\ Outdated(list) = Sent <=> list = Sent
         /\ Outdated(list) \in List => list \in List /\ Outdated(list).n = list.n
<1>1. CASE list \in {None, Sent}
  BY <1>1, SentAssumption DEF Outdated
<1>2. CASE list \in List
  <2>1. list \notin {None, Sent}
    BY <1>2, SentAssumption
  <2>2. Outdated(list) = [list EXCEPT !.current = FALSE]
    BY <2>1 DEF Outdated
  <2>3. [list EXCEPT !.current = FALSE] \in List /\ [list EXCEPT !.current = FALSE].n = list.n
    BY <1>2 DEF List
  <2> QED
    BY <1>2, <2>1, <2>2, <2>3, SentAssumption
<1> QED
  BY <1>1, <1>2

\* What a change of the documents of a type does to the lists.
LEMMA ChangedLists ==
  ASSUME TypeOK, NEW t \in Types
  PROVE  /\ Changed(t) \in [Types -> Query]
         /\ \A q \in Types \ {t} : Changed(t)[q] = cache[q]
         /\ Changed(t)[t].data = Outdated(cache[t].data)
         /\ Changed(t)[t].fetch = Outdated(cache[t].fetch)
         /\ Changed(t)[t].stale = cache[t].stale
         /\ Changed(t)[t].late = cache[t].late
<1>1. cache \in [Types -> Query] /\ cache[t] \in Query
  BY DEF TypeOK
<1>2. cache[t].data \in List \cup {None, Sent} /\ cache[t].data \in List \cup {None}
      /\ cache[t].fetch \in List \cup {None, Sent}
  BY <1>1 DEF Query
<1>3. Outdated(cache[t].data) \in List \cup {None}
  BY <1>2, OutdatedList, SentAssumption
<1>4. Outdated(cache[t].fetch) \in List \cup {None, Sent}
  BY <1>2, OutdatedList
<1> DEFINE x == Outdated(cache[t].data)
           y == Outdated(cache[t].fetch)
           c == [cache[t] EXCEPT !.data = x, !.fetch = y]
<1>5. Changed(t) = [cache EXCEPT ![t] = c]
  BY <1>1 DEF Changed, Query
<1> HIDE DEF x, y
<1>6. /\ c \in Query /\ c.data = x /\ c.fetch = y
      /\ c.stale = cache[t].stale /\ c.late = cache[t].late
  BY <1>1, <1>3, <1>4 DEF x, y, Query
<1> HIDE DEF c
<1> QED
  BY <1>1, <1>5, <1>6 DEF x, y

\* What becomes of a list that is fetched, or marked.
LEMMA QueryOperators ==
  ASSUME NEW q \in Query
  PROVE  /\ Fetched(q) \in Query /\ Fetched(q).fetch = Sent /\ ~Fetched(q).late
         /\ Fetched(q).data = q.data /\ Fetched(q).stale = q.stale
         /\ Marked(q) \in Query /\ Marked(q).fetch = q.fetch /\ Marked(q).data = q.data
         /\ Marked(q).stale
         /\ Marked(q).fetch \notin {None, Sent} => Marked(q).late
BY DEF Query, Fetched, Marked

\* Whatever is marked, its data stay, what is on its way is late, what has
\* arrived is stale, and the list on the screen is fetched.
LEMMA InvalidatedLists ==
  ASSUME NEW c \in [Types -> Query]
  PROVE  /\ Invalidated(c) \in [Types -> Query]
         /\ \A q \in Types :
              /\ Invalidated(c)[q].data = c[q].data
              /\ Invalidated(c)[q].fetch \in {c[q].fetch, Sent}
              /\ Invalidated(c)[q].fetch \notin {None, Sent} => Invalidated(c)[q].late
              /\ Invalidated(c)[q].fetch = None => Invalidated(c)[q].stale /\ q # form.type
<1>1. ASSUME NEW q \in Types
      PROVE  /\ Invalidated(c)[q] \in Query
             /\ Invalidated(c)[q].data = c[q].data
             /\ Invalidated(c)[q].fetch \in {c[q].fetch, Sent}
             /\ Invalidated(c)[q].fetch \notin {None, Sent} => Invalidated(c)[q].late
             /\ Invalidated(c)[q].fetch = None => Invalidated(c)[q].stale /\ q # form.type
  <2>1. c[q] \in Query /\ Marked(c[q]) \in Query
    BY QueryOperators
  <2>2. CASE q = form.type /\ (c[q].data # None \/ c[q].fetch = None)
    <3>1. Invalidated(c)[q] = Fetched(Marked(c[q]))
      BY <2>2 DEF Invalidated
    <3> QED
      BY <2>1, <3>1, QueryOperators, SentAssumption
  <2>3. CASE ~(q = form.type /\ (c[q].data # None \/ c[q].fetch = None))
    <3>1. Invalidated(c)[q] = Marked(c[q])
      BY <2>3 DEF Invalidated
    <3> QED
      BY <2>1, <2>3, <3>1, QueryOperators
  <2> QED
    BY <2>2, <2>3
<1>2. Invalidated(c) \in [Types -> Query]
  <2>1. \A q \in Types : Invalidated(c)[q] \in Query
    BY <1>1
  <2>2. Invalidated(c) = [q \in Types |-> Invalidated(c)[q]]
    BY DEF Invalidated
  <2> QED
    BY <2>1, <2>2
<1> QED
  BY <1>1, <1>2

\* The lists stay lists of as many documents.
LEMMA ListOperators ==
  ASSUME TypeOK, NEW n
  PROVE  /\ Upto(cache, n) => \A t \in Types : Upto(Changed(t), n)
         /\ \A c : Upto(c, n) => Upto(Invalidated(c), n)
         /\ \A c : Upto(c, n) => \A t \in Types : Upto(Fetching(c, t), n)
<1>1. ASSUME Upto(cache, n), NEW t \in Types
      PROVE  Upto(Changed(t), n)
  <2>1. cache[t].data \in List \cup {None, Sent} /\ cache[t].fetch \in List \cup {None, Sent}
    BY DEF TypeOK, Query
  <2>2. /\ Outdated(cache[t].data) \in List => Outdated(cache[t].data).n <= n
        /\ Outdated(cache[t].fetch) \in List => Outdated(cache[t].fetch).n <= n
    BY <1>1, <2>1, OutdatedList DEF Upto
  <2> QED
    BY <1>1, <2>2, ChangedLists DEF Upto
<1>2. ASSUME NEW c, Upto(c, n), NEW t \in Types
      PROVE  Upto(Fetching(c, t), n)
  <2>1. Fetching(c, t) = [c EXCEPT ![t] = Fetched(c[t])] /\ c[t] \in Query
    BY <1>2 DEF Fetching, Upto
  <2> DEFINE q == Fetched(c[t])
  <2>2. q \in Query /\ q.data = c[t].data /\ q.fetch = Sent
    BY <2>1, QueryOperators
  <2>3. Fetching(c, t) = [c EXCEPT ![t] = q]
    BY <2>1
  <2> HIDE DEF q
  <2> QED
    BY <1>2, <2>2, <2>3, SentAssumption DEF Upto
<1>3. ASSUME NEW c, Upto(c, n)
      PROVE  Upto(Invalidated(c), n)
  <2>1. c \in [Types -> Query]
    BY <1>3 DEF Upto
  <2>2. /\ Invalidated(c) \in [Types -> Query]
        /\ \A q \in Types : /\ Invalidated(c)[q].data = c[q].data
                            /\ Invalidated(c)[q].fetch \in {c[q].fetch, Sent}
    BY <2>1, InvalidatedLists
  <2> QED
    BY <1>3, <2>2, SentAssumption DEF Upto
<1> QED
  BY <1>1, <1>2, <1>3

\* What a step does to the lists.
CacheStep ==
  \/ cache' = cache
  \/ \E t \in Types : \/ cache' = Changed(t) \/ cache' = Invalidated(Changed(t))
                      \/ cache' = Fetching(cache, t)
                      \/ ReadList(t) \/ ListShown(t) \/ ListFailed(t)
  \/ cache' = Invalidated(cache)
  \/ cache' = Fetching(Changed("balance"), "balance")

\* And nothing else.
LEMMA CacheKinds ==
  ASSUME TypeOK, [Next]_vars
  PROVE  CacheStep
<1>1. \A k \in Keys : order[k].type \in Types
  BY DEF TypeOK, Order
<1>2. "balance" \in Types
  BY DEF Types
<1>3. ASSUME NEW k \in Keys,
             \/ CreateDocument(k) \/ StartProcessing(k) \/ EndProcessing(k) \/ EndUnattended(k)
             \/ Finish(k) \/ FailProcessing(k) \/ LoseCall(k) \/ FailUpload(k)
      PROVE  CacheStep
  BY <1>1, <1>3 DEF CacheStep, CreateDocument, StartProcessing, EndProcessing, EndUnattended,
     Finish, FailProcessing, LoseCall, FailUpload, Failing
<1>4. CASE DiscardDone \/ DiscardFailed
  BY <1>2, <1>4 DEF CacheStep, DiscardDone, DiscardFailed
<1>5. ASSUME NEW t \in Types, ChooseType(t)
      PROVE  CacheStep
  BY <1>5 DEF CacheStep, ChooseType
<1>6. \/ cache' = cache \/ DiscardDone \/ DiscardFailed
      \/ \E t \in Types : ChooseType(t) \/ ReadList(t) \/ ListShown(t) \/ ListFailed(t)
      \/ \E k \in Keys :
           \/ CreateDocument(k) \/ StartProcessing(k) \/ EndProcessing(k) \/ EndUnattended(k)
           \/ Finish(k) \/ FailProcessing(k) \/ LoseCall(k) \/ FailUpload(k)
  BY DEF Next, vars, pageVars, DocumentsNext, Gesture, ChooseRole, AcceptFile, DropMany,
     RemoveFile, OpenDiscard, CancelDiscard, Discard, Process, AdvanceUpload, UploadDone
<1> QED
  BY <1>3, <1>4, <1>5, <1>6 DEF CacheStep

\* The lists stay lists of documents there are.
LEMMA ListedStep ==
  ASSUME TypeOK, Called, Discards, Listed, [Next]_vars
  PROVE  cache' \in [Types -> Query] /\ Listed'
<1> DEFINE n == Len(docs)
<1>1. n \in Nat /\ cache \in [Types -> Query] /\ \A q \in Types : cache[q] \in Query
  BY DEF TypeOK
<1>2. Upto(cache, n)
  BY <1>1 DEF Listed, Known, Upto
<1>3. "balance" \in Types
  BY DEF Types
<1>4. ASSUME NEW q \in Types, ReadList(q)
      PROVE  Upto(cache', n)
  <2> DEFINE list == [n |-> n, current |-> TRUE]
             new == [cache[q] EXCEPT !.fetch = list]
  <2>1. list \in List /\ list.n <= n
    BY <1>1 DEF List
  <2>2. cache' = [cache EXCEPT ![q] = new]
    BY <1>4 DEF ReadList
  <2> HIDE DEF list
  <2>3. new \in Query /\ new.data = cache[q].data /\ new.fetch = list
    BY <1>1, <2>1 DEF Query
  <2> HIDE DEF new, n
  <2> QED
    BY <1>2, <2>1, <2>2, <2>3 DEF Upto
<1>5. ASSUME NEW q \in Types, ListShown(q)
      PROVE  Upto(cache', n)
  <2> DEFINE new == [data |-> cache[q].fetch, stale |-> FALSE, fetch |-> None,
                     late |-> cache[q].late]
  <2>1. cache[q].fetch \in List
    BY <1>1, <1>5 DEF ListShown, Query
  <2>2. new \in Query /\ new.data = cache[q].fetch /\ new.fetch = None
    BY <1>1, <2>1 DEF Query
  <2>3. cache' = [cache EXCEPT ![q] = new]
    BY <1>5 DEF ListShown
  <2> HIDE DEF new, n
  <2> QED
    BY <1>2, <2>1, <2>2, <2>3, SentAssumption DEF Upto
<1>6. ASSUME NEW q \in Types, ListFailed(q)
      PROVE  Upto(cache', n)
  <2> DEFINE new == [cache[q] EXCEPT !.fetch = None, !.stale = TRUE]
  <2>1. new \in Query /\ new.data = cache[q].data /\ new.fetch = None
    BY <1>1 DEF Query
  <2>2. cache' = [cache EXCEPT ![q] = new]
    BY <1>1, <1>6 DEF ListFailed, Query
  <2> HIDE DEF new, n
  <2> QED
    BY <1>2, <2>1, <2>2, SentAssumption DEF Upto
<1> HIDE DEF n
<1>7. Upto(cache', n)
  BY <1>2, <1>3, <1>4, <1>5, <1>6, CacheKinds, ListOperators DEF CacheStep
<1>8. n <= Len(docs') /\ Len(docs') \in Nat
  BY DocsTypes DEF n
<1>9. ASSUME NEW q \in Types
      PROVE  Known(cache[q].data)' /\ Known(cache[q].fetch)'
  <2>1. /\ cache'[q].data \in List => cache'[q].data.n <= n /\ cache'[q].data.n \in Nat
        /\ cache'[q].fetch \in List => cache'[q].fetch.n <= n /\ cache'[q].fetch.n \in Nat
    BY <1>7 DEF Upto, List
  <2> QED
    BY <1>1, <1>8, <2>1 DEF Known
<1> QED
  BY <1>7, <1>9 DEF Upto, Listed
-----------------------------------------------------------------------------
(* The form, the dialog and the bounds. *)

\* The form stays a form, and only the tabs change its type.
LEMMA FormKinds ==
  ASSUME TypeOK, Called, Discards, [Next]_vars
  PROVE  /\ form' \in Form
         /\ form'.type = form.type \/ \E t \in Types : ChooseType(t) /\ form'.type = t
<1> DEFINE Goal == /\ form' \in Form
                   /\ form'.type = form.type \/ \E t \in Types : ChooseType(t) /\ form'.type = t
<1>0. form \in Form
  BY DEF TypeOK
<1>1. ASSUME form' = form
      PROVE  Goal
  BY <1>0, <1>1
<1>2. ASSUME NEW stage \in {"idle", "selected"} \cup BusyStages \cup Terminal,
             NEW file \in {None, "good", "bad"},
             form' = [form EXCEPT !.stage = stage, !.file = file]
      PROVE  Goal
  BY <1>0, <1>2 DEF Form
<1>3. ASSUME NEW stage \in {"idle", "selected"} \cup BusyStages \cup Terminal,
             form' = [form EXCEPT !.stage = stage]
      PROVE  Goal
  BY <1>0, <1>3 DEF Form
<1>4. ASSUME NEW t \in Types, ChooseType(t)
      PROVE  Goal
  <2>1. form' = [form EXCEPT !.type = t, !.file = None, !.stage = "idle"]
    BY <1>0, <1>4 DEF ChooseType, Reset, Form
  <2> QED
    BY <1>0, <1>4, <2>1 DEF Form
<1>5. ASSUME NEW role \in Roles, ChooseRole(role)
      PROVE  Goal
  <2>1. form' = [form EXCEPT !.role = role, !.file = None, !.stage = "idle"]
    BY <1>0, <1>5 DEF ChooseRole, Reset, Form
  <2> QED
    BY <1>0, <2>1 DEF Form
<1>6. ASSUME NEW file \in {"good", "bad"}, AcceptFile(file)
      PROVE  Goal
  <2>1. form' = [form EXCEPT !.stage = IF file = "bad" THEN "idle" ELSE "selected", !.file = file]
    BY <1>0, <1>6 DEF AcceptFile, Form
  <2> QED
    BY <1>2, <2>1
<1>7. ASSUME DropMany
      PROVE  Goal
  <2>1. Rejected \in {None, "bad"} /\ form' = [form EXCEPT !.file = Rejected]
    BY <1>7 DEF DropMany, Rejected
  <2> QED
    BY <1>0, <2>1 DEF Form
<1>8. ASSUME RemoveFile
      PROVE  Goal
  <2>1. form' = [form EXCEPT !.stage = "idle", !.file = None]
    BY <1>0, <1>8 DEF RemoveFile, Reset, Form
  <2> QED
    BY <1>2, <2>1
<1>9. ASSUME NEW k \in Keys, Finish(k)
      PROVE  Goal
  <2>1. TerminalStage(docs[order[k].doc].status) \in Terminal
    <3>1. order[k].doc \in DOMAIN docs
      BY <1>9 DEF Finish, Called, Handled
    <3>2. docs[order[k].doc] \in Document
      BY <3>1 DEF TypeOK
    <3> QED
      BY <3>2 DEF Document, TerminalStage, Terminal
  <2> QED
    BY <1>3, <1>9, <2>1 DEF Finish
<1>10. ASSUME NEW k \in Keys, FailUpload(k) \/ FailProcessing(k) \/ LoseCall(k)
       PROVE  Goal
  <2>1. form' = [form EXCEPT !.stage = "processing_error", !.file = Rejected]
    BY <1>10 DEF FailUpload, FailProcessing, LoseCall, Failing
  <2>2. "processing_error" \in Terminal /\ Rejected \in {None, "bad"}
    BY DEF Terminal, Rejected
  <2> QED
    BY <1>2, <2>1, <2>2
<1>11. ASSUME NEW k \in Keys,
              Process(k) \/ AdvanceUpload(k) \/ UploadDone(k) \/ CreateDocument(k)
       PROVE  Goal
  <2>1. \E stage \in {"preparing", "uploading", "uploaded", "processing"} :
          form' = [form EXCEPT !.stage = stage]
    BY <1>11 DEF Process, AdvanceUpload, UploadDone, CreateDocument
  <2>2. {"preparing", "uploading", "uploaded", "processing"} \subseteq BusyStages
    BY DEF BusyStages, Calls
  <2> QED
    BY <1>3, <2>1, <2>2
<1>12. \/ form' = form \/ DropMany \/ RemoveFile
       \/ \E t \in Types : ChooseType(t)
       \/ \E role \in Roles : ChooseRole(role)
       \/ \E file \in {"good", "bad"} : AcceptFile(file)
       \/ \E k \in Keys :
            \/ Process(k) \/ AdvanceUpload(k) \/ UploadDone(k) \/ CreateDocument(k)
            \/ Finish(k) \/ FailUpload(k) \/ FailProcessing(k) \/ LoseCall(k)
  BY DEF Next, vars, pageVars, DocumentsNext, Gesture, OpenDiscard, CancelDiscard, ReadList,
     ListShown, ListFailed, StartProcessing, EndProcessing, EndUnattended, Discard,
     DiscardDone, DiscardFailed
<1> HIDE DEF Goal
<1>13. Goal
  BY <1>1, <1>4, <1>5, <1>6, <1>7, <1>8, <1>9, <1>10, <1>11, <1>12
<1> QED
  BY <1>13 DEF Goal

\* The dialog discards a balance on the screen.
LEMMA DiscardsStep ==
  ASSUME TypeOK, Called, Discards, Listed, [Next]_vars
  PROVE  dialog' \in DiscardDialog /\ Discards'
<1>1. /\ docs \in Seq(Document) /\ DOMAIN docs = 1 .. Len(docs) /\ Len(docs) \in Nat
      /\ dialog \in DiscardDialog
  BY DEF TypeOK
<1>2. \/ DocsKept
      \/ \E k \in Keys : DocsGrow(k)
  BY OrderMoves DEF OrderMove, Begins, Continues, Answers
<1>3. DOMAIN docs \subseteq DOMAIN docs' /\ \A i \in DOMAIN docs : docs'[i].type = docs[i].type
  <2>1. CASE DocsKept
    BY <1>1, <2>1 DEF DocsKept
  <2>2. ASSUME NEW k \in Keys, DocsGrow(k)
        PROVE  DOMAIN docs \subseteq DOMAIN docs' /\ \A i \in DOMAIN docs : docs'[i] = docs[i]
    BY <1>1, <2>2, DocsGrown
  <2> QED
    BY <1>2, <2>1, <2>2
<1>4. CASE dialog' = dialog
  <2>1. dialog.step # "closed" => form'.type = "balance"
    BY FormKinds DEF Discards, ChooseType, Free
  <2> QED
    BY <1>1, <1>3, <1>4, <2>1 DEF Discards
<1>5. CASE dialog' = NoDialog
  BY <1>5 DEF NoDialog, DiscardDialog, Discards
<1>6. ASSUME NEW step \in {"open", "discarding", "refreshing"},
             dialog.step # "closed", dialog' = [dialog EXCEPT !.step = step]
      PROVE  dialog' \in DiscardDialog /\ Discards'
  <2>1. dialog' \in DiscardDialog /\ dialog'.doc = dialog.doc
    BY <1>1, <1>6 DEF DiscardDialog
  <2>2. form'.type = "balance"
    BY <1>6, FormKinds DEF Discards, ChooseType, Free
  <2> QED
    BY <1>3, <1>6, <2>1, <2>2 DEF Discards
<1>7. CASE OpenDiscard
  <2>1. cache["balance"].data \in List
    BY <1>7 DEF OpenDiscard, TypeOK, Query, Types
  <2>2. PICK d \in 1 .. cache["balance"].data.n :
          docs[d].type = "balance" /\ dialog' = [doc |-> d, step |-> "open"]
    BY <1>7 DEF OpenDiscard
  <2>3. cache["balance"].data.n <= Len(docs) /\ cache["balance"].data.n \in Nat
    BY <2>1 DEF Listed, Known, List, Types
  <2>4. d \in DOMAIN docs /\ d \in Nat
    BY <1>1, <2>3
  <2>5. form'.type = "balance"
    BY <1>7 DEF OpenDiscard
  <2> QED
    BY <1>3, <2>2, <2>4, <2>5 DEF Discards, DiscardDialog
<1>8. CASE Discard \/ DiscardDone \/ DiscardFailed
  BY <1>6, <1>8 DEF Discard, DiscardDone, DiscardFailed
<1>9. \/ dialog' \in {dialog, NoDialog} \/ OpenDiscard
      \/ Discard \/ DiscardDone \/ DiscardFailed
  BY DEF Next, vars, pageVars, DocumentsNext, Gesture, ChooseType, ChooseRole, AcceptFile,
     DropMany, RemoveFile, CancelDiscard, ReadList, ListShown, ListFailed, CreateDocument,
     StartProcessing, EndProcessing, EndUnattended, Finish, FailUpload, FailProcessing,
     LoseCall, Failing, Released, Process, AdvanceUpload, UploadDone
<1> QED
  BY <1>4, <1>5, <1>7, <1>8, <1>9

\* The bounds hold, and the visit goes on.
LEMMA BoundTypes ==
  ASSUME TypeOK, [Next]_vars
  PROVE  /\ faults' \in 0 .. MaxFaults /\ doubt' \in BOOLEAN
         /\ gestures' \in 0 .. MaxGestures /\ visit' = visit
<1>1. faults \in 0 .. MaxFaults /\ doubt \in BOOLEAN /\ gestures \in 0 .. MaxGestures
  BY DEF TypeOK
<1>2. UNCHANGED <<faults, doubt>> \/ Refused \/ Lost
  BY DEF Next, vars, pageVars, DocumentsNext, Gesture, ChooseType, ChooseRole, AcceptFile,
     DropMany, RemoveFile, OpenDiscard, CancelDiscard, ReadList, ListShown, ListFailed,
     CreateDocument, StartProcessing, EndProcessing, EndUnattended, Finish, FailUpload,
     FailProcessing, LoseCall, Process, AdvanceUpload, UploadDone, Discard, DiscardDone,
     DiscardFailed
<1>3. faults' \in {faults, faults + 1} /\ (faults' # faults => faults < MaxFaults)
  BY <1>1, <1>2 DEF Refused, Lost
<1>4. doubt' \in BOOLEAN
  BY <1>1, <1>2 DEF Refused, Lost
<1>5. /\ gestures' \in {gestures, gestures + 1} /\ (gestures' # gestures => gestures < MaxGestures)
      /\ visit' = visit
  BY <1>1 DEF Next, vars, pageVars, DocumentsNext
<1>6. faults' \in 0 .. MaxFaults
  BY <1>1, <1>3, BoundsAssumption
<1>7. gestures' \in 0 .. MaxGestures
  BY <1>1, <1>5, BoundsAssumption
<1> QED
  BY <1>4, <1>5, <1>6, <1>7

\* Every variable stays typed.
LEMMA TypeStep ==
  ASSUME TypeOK, Called, Discards, Listed, [Next]_vars
  PROVE  TypeOK'
<1>1. FilesTypeOK'
  BY UploadFrame, FilesPageTypes DEF FilesTypeOK
<1>2. visit' \in {"files", "documents"}
  BY BoundTypes DEF TypeOK
<1> QED
  BY <1>1, <1>2, DocsTypes, FormKinds, ListedStep, DiscardsStep, BoundTypes DEF TypeOK
-----------------------------------------------------------------------------
(* The lists of a visit without doubt. *)

\* What such a step does to the lists.
TrustedStep ==
  \/ cache' = cache /\ form'.type = form.type /\ (Working => Working')
  \/ \E t \in Types : cache' = Changed(t) /\ form'.type = form.type /\ Working'
  \/ /\ form'.type = form.type
     /\ \/ cache' = Invalidated(cache)
        \/ \E t \in Types : cache' = Invalidated(Changed(t))
  \/ \E t \in Types : ReadList(t) \/ ListShown(t) \/ ChooseType(t)
  \/ DiscardDone

\* And nothing else; nor does a processing go on that the browser gave up.
LEMMA TrustedKinds ==
  ASSUME TypeOK, Called, Discards, Trusted => Attended, [Next]_vars, Trusted'
  PROVE  /\ Trusted /\ TrustedStep
         /\ \A k \in Keys : order'[k].running => order'[k].call # "failed"
<1> DEFINE NoneLeft == \A k \in Keys : order'[k].running => order'[k].call # "failed"
           Goal == TrustedStep /\ NoneLeft
<1>1. visit' = visit /\ (doubt => doubt')
  <2>1. UNCHANGED <<faults, doubt>> \/ Refused \/ Lost
    BY DEF Next, vars, pageVars, DocumentsNext, Gesture, ChooseType, ChooseRole, AcceptFile,
       DropMany, RemoveFile, OpenDiscard, CancelDiscard, ReadList, ListShown, ListFailed,
       CreateDocument, StartProcessing, EndProcessing, EndUnattended, Finish, FailUpload,
       FailProcessing, LoseCall, Process, AdvanceUpload, UploadDone, Discard, DiscardDone,
       DiscardFailed
  <2>2. CASE UNCHANGED <<faults, doubt>> \/ Refused
    BY <2>2, BoundTypes DEF Refused
  <2>3. CASE Lost
    <3>1. doubt'
      BY <2>3, Zenon DEF Lost
    <3> QED
      BY <3>1, BoundTypes
  <2> QED
    BY <2>1, <2>2, <2>3, BoundTypes
<1>2. Trusted /\ Attended
  BY <1>1 DEF Trusted
<1>3. /\ order \in [Keys -> Order]
      /\ \A k \in Keys : order[k] \in Order /\ order[k].type \in Types
      /\ \A k \in Keys : order[k].running => order[k].call # "failed"
  BY <1>2 DEF TypeOK, Order, Attended
<1>4. ASSUME order' = order
      PROVE  NoneLeft /\ (Working => Working')
  BY <1>3, <1>4 DEF Working
<1>5. ASSUME NEW k \in Keys, NEW o \in Order, order' = [order EXCEPT ![k] = o],
             o.running => o.call # "failed", o.call \in DocCalls
      PROVE  NoneLeft /\ Working'
  <2>1. order'[k] = o
    BY <1>3, <1>5
  <2> QED
    BY <1>3, <1>5, <2>1 DEF Working
<1>6. ASSUME NEW k \in Keys, CreateDocument(k)
      PROVE  Goal
  <2> DEFINE o == [order[k] EXCEPT !.doc = Len(docs'), !.call = "processing"]
  <2>1. order' = [order EXCEPT ![k] = o]
    BY <1>3, <1>6 DEF CreateDocument, Order
  <2>2. Len(docs') \in Nat
    BY DocsTypes
  <2>3. o \in Order /\ o.call = "processing"
    BY <1>3, <2>2 DEF Order, DocCalls
  <2> HIDE DEF o
  <2>4. NoneLeft /\ Working'
    BY <1>5, <2>1, <2>3 DEF DocCalls
  <2>5. cache' = Changed(order[k].type) /\ form'.type = form.type
    BY <1>6 DEF CreateDocument, TypeOK, Form
  <2> QED
    BY <1>3, <2>4, <2>5 DEF TrustedStep
<1>7. ASSUME NEW k \in Keys, StartProcessing(k)
      PROVE  Goal
  <2> DEFINE o == [order[k] EXCEPT !.running = TRUE]
  <2>1. order' = [order EXCEPT ![k] = o]
    BY <1>3, <1>7 DEF StartProcessing, Order
  <2>2. o \in Order /\ o.call = "processing"
    BY <1>3, <1>7 DEF StartProcessing, Order
  <2> HIDE DEF o
  <2>3. NoneLeft /\ Working'
    BY <1>5, <2>1, <2>2 DEF DocCalls
  <2>4. cache' = Changed(order[k].type) /\ form'.type = form.type
    BY <1>7 DEF StartProcessing
  <2> QED
    BY <1>3, <2>3, <2>4 DEF TrustedStep
<1>8. ASSUME NEW k \in Keys, EndProcessing(k)
      PROVE  Goal
  <2> DEFINE o == [order[k] EXCEPT !.running = FALSE, !.call = "reading"]
  <2>1. order' = [order EXCEPT ![k] = o]
    BY <1>3, <1>8 DEF EndProcessing, Order
  <2>2. o \in Order /\ o.call = "reading"
    BY <1>3 DEF Order, DocCalls
  <2> HIDE DEF o
  <2>3. NoneLeft /\ Working'
    BY <1>5, <2>1, <2>2 DEF DocCalls
  <2>4. cache' = Changed(order[k].type) /\ form'.type = form.type
    BY <1>8 DEF EndProcessing
  <2> QED
    BY <1>3, <2>3, <2>4 DEF TrustedStep
<1>9. \A k \in Keys : ~EndUnattended(k)
  BY <1>3 DEF EndUnattended
<1>10. ASSUME NEW k \in Keys, Finish(k) \/ FailProcessing(k)
       PROVE  Goal
  <2>1. form'.type = form.type
    BY <1>10 DEF Finish, FailProcessing, Failing, TypeOK, Form
  <2>2. \/ cache' = Invalidated(cache)
        \/ cache' = Invalidated(Changed(order[k].type))
    BY <1>10 DEF Finish, FailProcessing, Failing
  <2>3. ~order'[k].running
    <3>1. CASE Finish(k)
      BY <1>3, <3>1 DEF Finish, Called, Order
    <3>2. CASE FailProcessing(k)
      BY <1>3, <3>2 DEF FailProcessing, Order
    <3> QED
      BY <1>10, <3>1, <3>2
  <2>4. \A j \in Keys \ {k} : order'[j] = order[j]
    BY <1>3, <1>10 DEF Finish, FailProcessing
  <2> QED
    BY <1>3, <2>1, <2>2, <2>3, <2>4 DEF TrustedStep
<1>11. ASSUME NEW k \in Keys, FailUpload(k)
       PROVE  Goal
  <2>1. form'.type = form.type /\ cache' = Invalidated(cache) /\ order' = order
    BY <1>11 DEF FailUpload, Failing, TypeOK, Form
  <2> QED
    BY <1>4, <2>1 DEF TrustedStep
<1>12. ASSUME NEW k \in Keys, Process(k)
       PROVE  Goal
  <2>1. OrderMove(k) /\ Begins(k)
    BY <1>12, ProcessBegins
  <2>2. \A j \in Keys : order'[j].call = order[j].call /\ order'[j].running = order[j].running
    BY <2>1 DEF OrderMove, Begins
  <2>3. cache' = cache /\ form'.type = form.type
    BY <1>12 DEF Process, TypeOK, Form
  <2> QED
    BY <1>3, <2>2, <2>3 DEF TrustedStep, Working
<1>13. ASSUME NEW k \in Keys, UploadDone(k)
       PROVE  Goal
  <2> DEFINE o == [order[k] EXCEPT !.call = "creating"]
  <2>1. order' = [order EXCEPT ![k] = o]
    BY <1>13 DEF UploadDone
  <2>2. o \in Order /\ o.call = "creating"
    BY <1>3 DEF Order, DocCalls
  <2> HIDE DEF o
  <2>3. NoneLeft /\ Working'
    BY <1>5, <2>1, <2>2 DEF DocCalls
  <2>4. cache' = cache /\ form'.type = form.type
    BY <1>13 DEF UploadDone, TypeOK, Form
  <2> QED
    BY <2>3, <2>4 DEF TrustedStep
<1>14. ASSUME DiscardDone \/ \E t \in Types : ReadList(t) \/ ListShown(t) \/ ChooseType(t)
       PROVE  Goal
  <2>1. order' = order
    BY <1>14 DEF DiscardDone, ReadList, ListShown, ChooseType
  <2> QED
    BY <1>4, <1>14, <2>1 DEF TrustedStep
<1>15. ASSUME order' = order, cache' = cache, form'.type = form.type
       PROVE  Goal
  BY <1>4, <1>15 DEF TrustedStep
<1>16. ~Lost
  BY DEF Lost, Trusted
<1>17. ASSUME DiscardFailed
       PROVE  Goal
  BY <1>15, <1>16, <1>17 DEF DiscardFailed
<1>18. CASE UNCHANGED vars
  BY <1>2, <1>4, <1>15, <1>18 DEF vars, pageVars
<1>19. CASE visit = "documents" /\ DocumentsNext
  <2>1. CASE Gesture
    <3>1. CASE \E t \in Types : ChooseType(t)
      BY <1>2, <1>14, <3>1
    <3>2. CASE \E k \in Keys : Process(k)
      BY <1>2, <1>12, <3>2
    <3>3. CASE \/ \E role \in Roles : ChooseRole(role)
               \/ \E file \in {"good", "bad"} : AcceptFile(file)
               \/ DropMany \/ RemoveFile \/ OpenDiscard \/ CancelDiscard
      <4>1. order' = order /\ cache' = cache /\ form'.type = form.type
        BY <3>3 DEF ChooseRole, AcceptFile, DropMany, RemoveFile, OpenDiscard, CancelDiscard,
           Reset, TypeOK, Form
      <4> QED
        BY <1>2, <1>15, <4>1
    <3> QED
      BY <2>1, <3>1, <3>2, <3>3 DEF Gesture
  <2>2. CASE \E t \in Types : ReadList(t) \/ ListShown(t) \/ ListFailed(t)
    BY <1>2, <1>14, <1>16, <2>2 DEF ListFailed
  <2>3. ASSUME NEW k \in Keys, AdvanceUpload(k)
        PROVE  Goal
    <3>1. order' = order /\ cache' = cache /\ form'.type = form.type
      BY <2>3 DEF AdvanceUpload, TypeOK, Form
    <3> QED
      BY <1>15, <3>1
  <2>4. CASE Discard
    BY <1>2, <1>15, <2>4 DEF Discard
  <2>5. \A k \in Keys : ~LoseCall(k)
    BY <1>16 DEF LoseCall
  <2> HIDE DEF Goal
  <2>6. CASE \E k \in Keys :
             \/ AdvanceUpload(k) \/ UploadDone(k) \/ FailUpload(k)
             \/ CreateDocument(k) \/ StartProcessing(k) \/ EndProcessing(k)
             \/ EndUnattended(k) \/ Finish(k) \/ FailProcessing(k) \/ LoseCall(k)
    <3>1. Goal
      BY <1>6, <1>7, <1>8, <1>9, <1>10, <1>11, <1>13, <2>3, <2>5, <2>6
    <3> QED
      BY <1>2, <3>1 DEF Goal
  <2>7. CASE DiscardDone \/ DiscardFailed
    <3>1. Goal
      BY <1>14, <1>17, <2>7
    <3> QED
      BY <1>2, <3>1 DEF Goal
  <2> QED
    BY <1>19, <2>1, <2>2, <2>4, <2>6, <2>7 DEF DocumentsNext
<1> QED
  BY <1>2, <1>18, <1>19 DEF Next, Trusted

\* The conditions of the lists, of any cache.
Holds(c, shown, working) ==
  /\ c[shown].fetch = None => c[shown].data # None /\ ~c[shown].stale
  /\ \A q \in Types : ~c[q].late =>
       /\ c[q].fetch = None /\ c[q].data # None /\ ~c[q].stale => c[q].data.current \/ working
       /\ c[q].fetch \in List => c[q].fetch.current \/ working

\* After an invalidation they hold, whether or not documents changed with it.
LEMMA InvalidationHolds ==
  ASSUME NEW c \in [Types -> Query], NEW working \in BOOLEAN, form.type \in Types
  PROVE  Holds(Invalidated(c), form.type, working)
BY InvalidatedLists, SentAssumption DEF Holds

\* A list that is outdated is still on the screen, or still fetched.
LEMMA ChangeHolds ==
  ASSUME TypeOK, NEW t \in Types, NEW shown \in Types, NEW working \in BOOLEAN,
         Holds(cache, shown, working)
  PROVE  Holds(Changed(t), shown, TRUE)
<1>1. cache[t].data \in List \cup {None, Sent} /\ cache[t].fetch \in List \cup {None, Sent}
  BY DEF TypeOK, Query
<1>2. /\ Changed(t)[t].fetch = None <=> cache[t].fetch = None
      /\ Changed(t)[t].data = None <=> cache[t].data = None
      /\ Changed(t)[t].stale = cache[t].stale
      /\ \A q \in Types \ {t} : Changed(t)[q] = cache[q]
  BY <1>1, ChangedLists, OutdatedList
<1> QED
  BY <1>2 DEF Holds

\* Without doubt the lists are read, and read again, as they must.
LEMMA TrustedListsStep ==
  ASSUME TypeOK, Called, Discards, Listed, [Next]_vars,
         Trusted => Attended /\ OnScreen /\ Current, Trusted'
  PROVE  Attended' /\ OnScreen' /\ Current'
<1>1. /\ Trusted /\ TrustedStep /\ Attended
      /\ \A k \in Keys : order'[k].running => order'[k].call # "failed"
  BY TrustedKinds
<1>2. /\ form.type \in Types /\ form'.type \in Types /\ cache \in [Types -> Query]
      /\ \A q \in Types : cache[q] \in Query
      /\ Working \in BOOLEAN /\ Working' \in BOOLEAN
  BY FormKinds DEF TypeOK, Form, Working
<1>3. Holds(cache, form.type, Working)
  BY <1>1 DEF Holds, Attended, OnScreen, Current
<1>4. SUFFICES Holds(cache', form'.type, Working')
  BY <1>1 DEF Holds, Attended, OnScreen, Current
<1>5. CASE cache' = cache /\ form'.type = form.type /\ (Working => Working')
  BY <1>3, <1>5 DEF Holds
<1>6. ASSUME NEW t \in Types, cache' = Changed(t), form'.type = form.type, Working'
      PROVE  Holds(cache', form'.type, Working')
  <2>1. Holds(Changed(t), form.type, TRUE)
    BY <1>2, <1>3, ChangeHolds
  <2> QED
    BY <1>6, <2>1 DEF Holds
<1>7. CASE form'.type = form.type /\ cache' = Invalidated(cache)
  BY <1>2, <1>7, InvalidationHolds
<1>8. ASSUME NEW t \in Types, form'.type = form.type, cache' = Invalidated(Changed(t))
      PROVE  Holds(cache', form'.type, Working')
  <2>1. Changed(t) \in [Types -> Query]
    BY ChangedLists
  <2> QED
    BY <1>2, <1>8, <2>1, InvalidationHolds
<1>9. ASSUME NEW q \in Types, ReadList(q)
      PROVE  Holds(cache', form'.type, Working')
  <2> DEFINE list == [n |-> Len(docs), current |-> TRUE]
             new == [cache[q] EXCEPT !.fetch = list]
  <2>1. cache' = [cache EXCEPT ![q] = new] /\ order' = order /\ form' = form
    BY <1>9 DEF ReadList
  <2>2. list \in List /\ list.current
    BY DEF List, TypeOK
  <2> HIDE DEF list
  <2>3. new.fetch = list
    BY <1>2 DEF Query
  <2> HIDE DEF new
  <2>4. cache'[q] = new /\ \A p \in Types \ {q} : cache'[p] = cache[p]
    BY <1>2, <2>1
  <2>5. Working' <=> Working
    BY <2>1 DEF Working
  <2> QED
    BY <1>2, <1>3, <2>1, <2>2, <2>3, <2>4, <2>5, SentAssumption DEF Holds
<1>10. ASSUME NEW q \in Types, ListShown(q)
       PROVE  Holds(cache', form'.type, Working')
  <2> DEFINE new == [data |-> cache[q].fetch, stale |-> FALSE, fetch |-> None,
                     late |-> cache[q].late]
  <2>1. cache' = [cache EXCEPT ![q] = new] /\ order' = order /\ form' = form
        /\ cache[q].fetch \notin {None, Sent}
    BY <1>10 DEF ListShown
  <2>2. cache[q].fetch \in List
    BY <1>2, <2>1 DEF Query
  <2>3. /\ new.data = cache[q].fetch /\ new.fetch = None /\ ~new.stale
        /\ new.late = cache[q].late
    OBVIOUS
  <2>4. cache'[q] = new /\ \A p \in Types \ {q} : cache'[p] = cache[p]
    BY <1>2, <2>1
  <2>5. Working' <=> Working
    BY <2>1 DEF Working
  <2> HIDE DEF new
  <2> QED
    BY <1>2, <1>3, <2>1, <2>2, <2>3, <2>4, <2>5, SentAssumption DEF Holds
<1>11. ASSUME NEW t \in Types, ChooseType(t)
       PROVE  Holds(cache', form'.type, Working')
  <2>1. form'.type = t /\ order' = order
    BY <1>11 DEF ChooseType, Reset, TypeOK, Form
  <2>2. Working' <=> Working
    BY <2>1 DEF Working
  <2>3. \/ cache' = Fetching(cache, t)
        \/ /\ cache' = cache
           /\ \/ t = form.type \/ cache[t].fetch # None
              \/ cache[t].data # None /\ ~cache[t].stale
    BY <1>11 DEF ChooseType
  <2>4. CASE cache' = Fetching(cache, t)
    <3> DEFINE new == Fetched(cache[t])
    <3>1. new.fetch = Sent
      BY <1>2, QueryOperators
    <3>2. cache' = [cache EXCEPT ![t] = new]
      BY <2>4 DEF Fetching
    <3> HIDE DEF new
    <3>3. cache'[t] = new /\ \A p \in Types \ {t} : cache'[p] = cache[p]
      BY <1>2, <3>2
    <3> QED
      BY <1>3, <2>1, <2>2, <3>1, <3>3, SentAssumption DEF Holds
  <2>5. CASE /\ cache' = cache
             /\ \/ t = form.type \/ cache[t].fetch # None
                \/ cache[t].data # None /\ ~cache[t].stale
    BY <1>3, <2>1, <2>2, <2>5 DEF Holds
  <2> QED
    BY <2>3, <2>4, <2>5
<1>12. CASE DiscardDone
  <2>1. form.type = "balance" /\ form' = form /\ order' = order /\ "balance" \in Types
        /\ cache' = Fetching(Changed("balance"), "balance")
    BY <1>12 DEF DiscardDone, Discards, Types
  <2> DEFINE c == Changed("balance")
             new == Fetched(c["balance"])
  <2>2. c \in [Types -> Query] /\ \A q \in Types \ {"balance"} : c[q] = cache[q]
    BY <2>1, ChangedLists
  <2>3. cache' = [c EXCEPT !["balance"] = new]
    BY <2>1 DEF Fetching
  <2> HIDE DEF c
  <2>4. new.fetch = Sent
    BY <2>1, <2>2, QueryOperators
  <2> HIDE DEF new
  <2>5. cache'["balance"] = new /\ \A q \in Types \ {"balance"} : cache'[q] = cache[q]
    BY <2>1, <2>2, <2>3
  <2>6. Working' <=> Working
    BY <2>1 DEF Working
  <2> QED
    BY <1>3, <2>1, <2>4, <2>5, <2>6, SentAssumption DEF Holds
<1> QED
  BY <1>1, <1>5, <1>6, <1>7, <1>8, <1>9, <1>10, <1>11, <1>12 DEF TrustedStep
-----------------------------------------------------------------------------
(* The theorems. *)

\* The visit begins with nothing uploaded, and with the list of the page it is
\* on under way.
LEMMA IInvInit ==
  ASSUME Init
  PROVE  IInv
<1>1. FilesTypeOK
  <2>1. NoUpload \in Upload /\ Closed \in Dialog
    BY DEF NoUpload, Upload, Closed, Dialog
  <2>2. <<None>> \in Seq((SUBSET Keys) \cup {None})
    OBVIOUS
  <2> QED
    BY <2>1, <2>2 DEF Init, FilesInit, FilesTypeOK, FilesPage
<1>2. NoOrder \in Order /\ NoOrder.call = None /\ ~NoOrder.running
  BY DEF NoOrder, Order, Types, Roles
<1>3. order \in [Keys -> Order] /\ \A k \in Keys : order[k].call = None /\ ~order[k].running
  BY <1>2 DEF Init
<1>4. docs \in Seq(Document) /\ DOMAIN docs = {} /\ Len(docs) = 0
  BY DEF Init
<1>5. cache \in [Types -> Query] /\ form \in Form /\ dialog \in DiscardDialog
  BY DEF Init, Query, Form, Types, Roles, NoDialog, DiscardDialog
<1>6. TypeOK
  <2>1. 0 \in 0 .. MaxFaults /\ 0 \in 0 .. MaxGestures
    BY BoundsAssumption
  <2>2. faults = 0 /\ gestures = 0 /\ doubt = FALSE /\ visit \in {"files", "documents"}
    BY DEF Init
  <2> QED
    BY <1>1, <1>3, <1>4, <1>5, <2>1, <2>2 DEF TypeOK
<1>7. Registration /\ Ordered
  BY FilesAssumption DEF Init, FilesInit, Registration, Ordered, NoUpload
<1>8. Called
  BY <1>3, SentAssumption DEF Called, Handled, DocCalls
<1>9. Formed /\ OneDocument /\ Discards
  BY <1>4 DEF Init, Formed, OneDocument, Discards, NoDialog
<1>10. \A q \in Types : cache[q].data = None /\ cache[q].fetch \in {None, Sent}
  BY DEF Init
<1>11. Listed
  BY <1>10, SentAssumption DEF Listed, Known
<1>12. Trusted => Attended /\ OnScreen /\ Current
  <2> SUFFICES ASSUME visit = "documents"
               PROVE  Attended /\ OnScreen /\ Current
    BY DEF Trusted
  <2>1. form.type = "balance" /\ cache["balance"].fetch = Sent
        /\ \A q \in Types \ {"balance"} : cache[q].fetch = None
    BY DEF Init, Types
  <2> QED
    BY <1>3, <1>10, <2>1, SentAssumption DEF Attended, OnScreen, Current
<1> QED
  BY <1>6, <1>7, <1>8, <1>9, <1>11, <1>12 DEF IInv

\* Every step keeps the inductive invariant.
LEMMA IInvStep ==
  ASSUME IInv, [Next]_vars
  PROVE  IInv'
BY TypeStep, RegistrationStep, OrderedStep, CalledStep, FormedStep, DiscardsStep, ListedStep,
   TrustedListsStep DEF IInv

\* The inductive invariant holds from the visit begun to whatever comes.
THEOREM DocumentsPageInvariant == Spec => []IInv
BY IInvInit, IInvStep, PTL DEF Spec

\* Every variable of the pages has its type.
THEOREM TypesOfDocumentsPage == Spec => []TypeOK
<1>1. IInv => TypeOK
  BY DEF IInv
<1> QED
  BY <1>1, DocumentsPageInvariant, PTL

\* A file is registered only with its object, under the category of its upload,
\* and a document has the type and the role its form had when it was processed,
\* for any number of uploads, lost calls and changes of the form meanwhile.
THEOREM FormsStay == Spec => []FormsAreKept
<1>1. IInv => FormsAreKept
  <2> SUFFICES ASSUME IInv
               PROVE  FormsAreKept
    OBVIOUS
  <2>1. \A k \in Registered : k \in objects /\ files[k] = upload[k].category
    BY DEF Registered, IInv, Registration
  <2>2. ASSUME NEW i \in DOMAIN docs
        PROVE  LET k == docs[i].key IN
               /\ files[k] = CategoryForDocument(docs[i].type) /\ k \in objects
               /\ docs[i].type = order[k].type /\ docs[i].role = order[k].role
               /\ docs[i].role = None <=> docs[i].type # "balance"
    <3> DEFINE k == docs[i].key
    <3>1. k \in Keys
      <4>1. docs[i] \in Document
        BY DEF IInv, TypeOK
      <4> QED
        BY <4>1 DEF Document
    <3>2. order[k].call # None /\ docs[i].type = order[k].type /\ docs[i].role = order[k].role
      BY DEF IInv, Formed
    <3> HIDE DEF k
    <3>3. upload[k].page = "documents" /\ files[k] # None
      BY <3>1, <3>2 DEF IInv, Called
    <3>4. /\ upload[k].category = CategoryForDocument(order[k].type)
          /\ order[k].role = None <=> order[k].type # "balance"
      BY <3>1, <3>3 DEF IInv, Ordered
    <3>5. k \in objects /\ files[k] = upload[k].category
      BY <3>1, <3>3 DEF IInv, Registration
    <3> QED
      BY <3>2, <3>3, <3>4, <3>5 DEF k
  <2> QED
    BY <2>1, <2>2 DEF FormsAreKept
<1> QED
  BY <1>1, DocumentsPageInvariant, PTL

\* A file has at most one document, whatever call was lost: an upload whose
\* creation was not answered is never sent again.
THEOREM FilesHaveOneDocument == Spec => []OneDocument
<1>1. IInv => OneDocument
  BY DEF IInv
<1> QED
  BY <1>1, DocumentsPageInvariant, PTL

\* Once every call was answered, the history on the screen is the one the API
\* has, unless an answer was lost or the list had been read before the lists
\* were marked and arrived after it.
THEOREM HistoriesAreCurrent == Spec => []HistoryIsCurrent
<1>1. IInv => HistoryIsCurrent
  <2> SUFFICES ASSUME IInv, Quiet, ~doubt, visit = "documents", ~cache[form.type].late
               PROVE  cache[form.type].data.current
    BY DEF HistoryIsCurrent
  <2>1. form.type \in Types /\ ~Working
    BY DEF IInv, TypeOK, Form, Quiet, InFlight, Working
  <2> QED
    BY <2>1 DEF IInv, Trusted, OnScreen, Current, Quiet
<1> QED
  BY <1>1, DocumentsPageInvariant, PTL
=============================================================================
