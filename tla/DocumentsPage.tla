--------------------------- MODULE DocumentsPage ---------------------------
(***************************************************************************)
(* The page of accounting documents: it uploads a balance or a ledger,      *)
(* creates its document, has it processed, and shows the history of each    *)
(* kind and which documents the period still lacks. The lists are queries   *)
(* cached by the browser. The API takes the document's side of each call in *)
(* one or two steps; TaxDocuments has them in detail.                       *)
(*                                                                          *)
(* One visit of one user to this page or to the page of files. Stage        *)
(* "validating" lasts until the next microtask and is not a state of its    *)
(* own. The card of what the period lacks has a query of its own, with the  *)
(* same treatment as the lists but for the discards, and is left out.       *)
(***************************************************************************)
EXTENDS StoredFiles

CONSTANTS
  Sent,    \* a query whose answer the API has not prepared
  BalanceRoles,
  MaxFaults,    \* bound on failed calls
  MaxGestures   \* bound on what the user does

ASSUME BoundsAssumption == MaxFaults \in Nat /\ MaxGestures \in Nat

VARIABLES
  docs,    \* documents of the period, in order of creation
  order,   \* what the page does with each upload
  form,    \* the form of the page
  cache,   \* cached queries of the page
  dialog,  \* the dialog that discards a version
  faults,  \* calls that failed
  doubt,   \* an answer was lost
  gestures,  \* what the user did on the page
  visit    \* the page the user is on

pageVars == <<docs, order, form, cache, dialog, faults, doubt, gestures, visit>>
vars == <<filesVars, pageVars>>
-----------------------------------------------------------------------------
Types == {"balance", "general_ledger"}
Roles == BalanceRoles \cup {None}

CategoryForDocument(type) == IF type = "general_ledger" THEN "ledger" ELSE type

ASSUME CategoriesAssumption == {CategoryForDocument(t) : t \in Types} \subseteq Categories

Document == [type : Types, role : Roles, key : Keys, discarded : BOOLEAN,
             status : {"uploaded", "processing", "processed", "invalid",
                       "processing_error", "superseded", "discarded"}]

DocCalls == {"creating", "processing", "reading"}

\* "running" while the API processes the document.
Order == [type : Types, role : Roles, doc : Nat, running : BOOLEAN,
          call : DocCalls \cup {None, "done", "failed"}]

NoOrder == [type |-> "balance", role |-> None, doc |-> 0, running |-> FALSE, call |-> None]

BusyStages == Calls \cup {"uploaded", "processing"}
Terminal == {"processed", "validation_error", "processing_error"}

Form == [type : Types, role : Roles, file : {None, "good", "bad"},
         stage : {"idle", "selected"} \cup BusyStages \cup Terminal]

\* A list is known by the documents there were when it was read and by whether
\* it is still what the API has.
List == [n : Nat, current : BOOLEAN]

\* Null, and a call that waits, are no values.
ASSUME SentAssumption ==
  /\ None \notin {Sent, "done", "failed"} \cup DocCalls \cup List
  /\ Sent \notin List

\* A fetch is Sent until the API has read its list. It is late when the lists
\* were marked after that and nothing fetched this one again.
Query == [data : List \cup {None}, stale : BOOLEAN, fetch : List \cup {None, Sent},
          late : BOOLEAN]

DiscardDialog == [doc : Nat, step : {"closed", "open", "discarding", "refreshing"}]

NoDialog == [doc |-> 0, step |-> "closed"]

TypeOK ==
  /\ FilesTypeOK
  /\ docs \in Seq(Document)
  /\ order \in [Keys -> Order]
  /\ form \in Form
  /\ cache \in [Types -> Query]
  /\ dialog \in DiscardDialog
  /\ faults \in 0 .. MaxFaults /\ doubt \in BOOLEAN /\ gestures \in 0 .. MaxGestures
  /\ visit \in {"files", "documents"}

Init ==
  /\ visit \in {"files", "documents"}
  /\ FilesInit
  /\ docs = << >>
  /\ order = [k \in Keys |-> NoOrder]
  /\ form = [type |-> "balance", role |-> None, file |-> None, stage |-> "idle"]
  /\ cache = [q \in Types |->
                [data |-> None, stale |-> FALSE, late |-> FALSE,
                 fetch |-> IF q = "balance" /\ visit = "documents" THEN Sent ELSE None]]
  /\ dialog = NoDialog
  /\ faults = 0
  /\ doubt = FALSE
  /\ gestures = 0

\* A call that fails; with or without an answer that says so.
Refused == faults < MaxFaults /\ faults' = faults + 1 /\ UNCHANGED doubt
Lost == faults < MaxFaults /\ faults' = faults + 1 /\ doubt' = TRUE

Busy == form.stage \in BusyStages
-----------------------------------------------------------------------------
(* Cached queries.                                                         *)

Outdated(list) == IF list \in {None, Sent} THEN list ELSE [list EXCEPT !.current = FALSE]

\* What was read of the documents of this type is no longer what the API has.
Changed(type) == [cache EXCEPT ![type].data = Outdated(@), ![type].fetch = Outdated(@)]

Fetched(query) == [query EXCEPT !.fetch = Sent, !.late = FALSE]

Fetching(c, q) == [c EXCEPT ![q] = Fetched(@)]

\* A fetch under way goes on, read already or not.
Marked(query) ==
  [query EXCEPT !.stale = TRUE, !.late = @ \/ query.fetch \notin {None, Sent}]

\* Mutant: only the list on the screen is marked, the other stays fresh.
InvalidatedShown(c) == Fetching(c, form.type)

\* Every list is marked. The one on the screen is fetched again, and a fetch of
\* it under way is given up; but its first fetch, without data yet, goes on.
Invalidated(c) ==
  [q \in Types |-> IF q = form.type /\ (c[q].data # None \/ c[q].fetch = None)
                   THEN Fetched(Marked(c[q])) ELSE Marked(c[q])]

\* The call that awaited a fetch awaits also the one that replaces it.
Released(d) == IF d.step = "refreshing" THEN NoDialog ELSE d

ReadList(q) ==
  /\ cache[q].fetch = Sent
  /\ cache' = [cache EXCEPT ![q].fetch = [n |-> Len(docs), current |-> TRUE]]
  /\ UNCHANGED <<filesVars, docs, order, form, dialog, faults, doubt>>

\* It counts as fresh, late or not.
ListShown(q) ==
  /\ cache[q].fetch \notin {None, Sent}
  /\ cache' = [cache EXCEPT ![q] = [data |-> @.fetch, stale |-> FALSE, fetch |-> None,
                                    late |-> @.late]]
  /\ dialog' = IF q = form.type THEN Released(dialog) ELSE dialog
  /\ UNCHANGED <<filesVars, docs, order, form, faults, doubt>>

\* After its retry the query keeps what it showed.
ListFailed(q) ==
  /\ cache[q].fetch # None
  /\ cache' = [cache EXCEPT ![q].fetch = None, ![q].stale = TRUE]
  /\ dialog' = IF q = form.type THEN Released(dialog) ELSE dialog
  /\ Lost
  /\ UNCHANGED <<filesVars, docs, order, form>>
-----------------------------------------------------------------------------
(* The calls of a document: the browser goes on with the values the upload  *)
(* was started with, and writes what it reaches on the page, whatever the   *)
(* page shows by then.                                                      *)

NewDocument(k, type) == [type |-> type, role |-> order[k].role, key |-> k,
                         discarded |-> FALSE, status |-> "uploaded"]

\* Mutant: the document takes the type the page shows when it is created.
CreateAsShown(k) ==
  /\ order[k].call = "creating"
  /\ docs' = Append(docs, NewDocument(k, form.type))
  /\ order' = [order EXCEPT ![k].doc = Len(docs'), ![k].call = "processing"]
  /\ form' = [form EXCEPT !.stage = "processing"]
  /\ cache' = Changed(order[k].type)
  /\ UNCHANGED <<filesVars, dialog, faults, doubt>>

CreateDocument(k) ==
  /\ order[k].call = "creating"
  /\ docs' = Append(docs, NewDocument(k, order[k].type))
  /\ order' = [order EXCEPT ![k].doc = Len(docs'), ![k].call = "processing"]
  /\ form' = [form EXCEPT !.stage = "processing"]
  /\ cache' = Changed(order[k].type)
  /\ UNCHANGED <<filesVars, dialog, faults, doubt>>

StartProcessing(k) ==
  /\ order[k].call = "processing" /\ ~order[k].running
  /\ docs' = [docs EXCEPT ![order[k].doc].status = "processing"]
  /\ order' = [order EXCEPT ![k].running = TRUE]
  /\ cache' = Changed(order[k].type)
  /\ UNCHANGED <<filesVars, form, dialog, faults, doubt>>

\* The document becomes current in place of the last earlier one of its kind.
Published(d) ==
  LET earlier == {e \in 1 .. d - 1 : /\ docs[e].status = "processed"
                                     /\ docs[e].type = docs[d].type
                                     /\ docs[e].role = docs[d].role}
  IN [e \in DOMAIN docs |->
        IF e = d THEN [docs[e] EXCEPT !.status = "processed"]
        ELSE IF e \in earlier /\ \A x \in earlier : x <= e
        THEN [docs[e] EXCEPT !.status = "superseded"] ELSE docs[e]]

Outcome(d, status) == IF status = "processed" THEN Published(d)
                      ELSE [docs EXCEPT ![d].status = status]

\* The page waits for the report and reads the document next.
EndProcessing(k) ==
  /\ order[k].running /\ order[k].call = "processing"
  /\ \E status \in {"processed", "invalid"} : docs' = Outcome(order[k].doc, status)
  /\ order' = [order EXCEPT ![k].running = FALSE, ![k].call = "reading"]
  /\ cache' = Changed(order[k].type)
  /\ UNCHANGED <<filesVars, form, dialog, faults, doubt>>

\* The browser has given the call up, and the API goes on.
EndUnattended(k) ==
  /\ order[k].running /\ order[k].call = "failed"
  /\ \E status \in {"processed", "invalid", "processing_error"} :
       docs' = Outcome(order[k].doc, status)
  /\ order' = [order EXCEPT ![k].running = FALSE]
  /\ cache' = Changed(order[k].type)
  /\ UNCHANGED <<filesVars, form, dialog, faults, doubt>>

\* Read with or without warnings, superseded and discarded show as processed.
TerminalStage(status) == IF status = "invalid" THEN "validation_error"
                         ELSE IF status = "processing_error" THEN status ELSE "processed"

Finish(k) ==
  /\ order[k].call = "reading"
  /\ order' = [order EXCEPT ![k].call = "done"]
  /\ form' = [form EXCEPT !.stage = TerminalStage(docs[order[k].doc].status)]
  /\ cache' = Invalidated(cache)
  /\ UNCHANGED <<filesVars, docs, dialog, faults, doubt>>

\* A file shown with an error cannot be processed until it is chosen again.
Rejected == IF form.file = None THEN None ELSE "bad"

Failing(c) ==
  /\ form' = [form EXCEPT !.stage = "processing_error", !.file = Rejected]
  /\ cache' = Invalidated(c)
  /\ UNCHANGED dialog

FailUpload(k) ==
  /\ Fail(k, "documents")
  /\ Refused
  /\ Failing(cache)
  /\ UNCHANGED <<filesPage, docs, order>>

\* The document could not be processed, and the API says so.
FailProcessing(k) ==
  /\ order[k].running /\ order[k].call = "processing"
  /\ docs' = [docs EXCEPT ![order[k].doc].status = "processing_error"]
  /\ order' = [order EXCEPT ![k].running = FALSE, ![k].call = "failed"]
  /\ Refused
  /\ Failing(Changed(order[k].type))
  /\ UNCHANGED filesVars

\* An answer does not come; the document may have been created.
LoseCall(k) ==
  /\ order[k].call \in DocCalls
  /\ Lost
  /\ order' = [order EXCEPT ![k].call = "failed"]
  /\ docs' \in {docs} \cup (IF order[k].call = "creating"
                            THEN {Append(docs, NewDocument(k, order[k].type))} ELSE {})
  /\ Failing(Changed(order[k].type))
  /\ UNCHANGED filesVars
-----------------------------------------------------------------------------
(* The form: neither the tabs, the roles nor the drop area are locked       *)
(* while an upload is under way.                                           *)

Free == dialog.step = "closed"

Reset(f) == [f EXCEPT !.file = None, !.stage = "idle"]

\* The list of the chosen type is fetched if it was never seen, is stale, or is
\* older than the stale time.
ChooseType(type) ==
  /\ Free
  /\ form' = Reset([form EXCEPT !.type = type])
  /\ \E old \in BOOLEAN :
       cache' = IF /\ type # form.type /\ cache[type].fetch = None
                   /\ old \/ cache[type].stale \/ cache[type].data = None
                THEN Fetching(cache, type) ELSE cache
  /\ UNCHANGED <<filesVars, docs, order, dialog, faults, doubt>>

ChooseRole(role) ==
  /\ Free /\ form.type = "balance" /\ role # None
  /\ form' = Reset([form EXCEPT !.role = role])
  /\ UNCHANGED <<filesVars, docs, order, cache, dialog, faults, doubt>>

\* Chosen, when the page is not busy, or dropped on it.
AcceptFile(file) ==
  /\ Free
  /\ form' = [form EXCEPT !.file = file,
                          !.stage = IF file = "bad" THEN "idle" ELSE "selected"]
  /\ UNCHANGED <<filesVars, docs, order, cache, dialog, faults, doubt>>

DropMany ==
  /\ Free
  /\ form' = [form EXCEPT !.file = Rejected]
  /\ UNCHANGED <<filesVars, docs, order, cache, dialog, faults, doubt>>

RemoveFile ==
  /\ Free /\ form.file # None /\ ~Busy
  /\ form' = Reset(form)
  /\ UNCHANGED <<filesVars, docs, order, cache, dialog, faults, doubt>>

Process(k) ==
  /\ Free /\ form.file = "good" /\ ~Busy
  /\ form.type = "balance" => form.role # None
  /\ Start(k, "documents", CategoryForDocument(form.type))
  /\ order' = [order EXCEPT ![k].type = form.type,
                            ![k].role = IF form.type = "balance" THEN form.role ELSE None]
  /\ form' = [form EXCEPT !.stage = "preparing"]
  /\ UNCHANGED <<objects, files, filesPage, docs, cache, dialog, faults, doubt>>
-----------------------------------------------------------------------------
AdvanceUpload(k) ==
  /\ CreateUploadUrl(k, "documents") \/ UploadToStorage(k, "documents")
  /\ form' = [form EXCEPT !.stage = "uploading"]
  /\ UNCHANGED <<filesPage, docs, order, cache, dialog, faults, doubt>>

UploadDone(k) ==
  /\ CompleteUpload(k, "documents")
  /\ order' = [order EXCEPT ![k].call = "creating"]
  /\ form' = [form EXCEPT !.stage = "uploaded"]
  /\ UNCHANGED <<filesPage, docs, cache, dialog, faults, doubt>>
-----------------------------------------------------------------------------
(* Discarding a version of the balance.                                    *)

\* A version on the screen, not discarded when it was read.
OpenDiscard ==
  LET list == cache["balance"].data IN
  /\ Free /\ form.type = "balance" /\ list # None
  /\ \E d \in 1 .. list.n :
       /\ docs[d].type = "balance" /\ docs[d].role = form.role
       /\ docs[d].status = "discarded" => ~list.current
       /\ dialog' = [doc |-> d, step |-> "open"]
  /\ UNCHANGED <<filesVars, docs, order, form, cache, faults, doubt>>

CancelDiscard ==
  /\ dialog.step = "open"
  /\ dialog' = NoDialog
  /\ UNCHANGED <<filesVars, docs, order, form, cache, faults, doubt>>

Discard ==
  /\ dialog.step = "open"
  /\ dialog' = [dialog EXCEPT !.step = "discarding"]
  /\ UNCHANGED <<filesVars, docs, order, form, cache, faults, doubt>>

\* The API discards it and the page fetches the history again: only this list.
DiscardDone ==
  LET d == dialog.doc IN
  /\ dialog.step = "discarding"
  /\ docs[d].status # "discarded"
  /\ docs' = [docs EXCEPT ![d].status = "discarded", ![d].discarded = TRUE]
  /\ dialog' = [dialog EXCEPT !.step = "refreshing"]
  /\ cache' = Fetching(Changed("balance"), "balance")
  /\ UNCHANGED <<filesVars, order, form, faults, doubt>>

\* Refused, or not answered, the dialog stays with the error it shows.
DiscardFailed ==
  LET d == dialog.doc IN
  /\ dialog.step = "discarding"
  /\ dialog' = [dialog EXCEPT !.step = "open"]
  /\ \/ docs[d].status = "discarded" /\ UNCHANGED <<docs, cache, faults, doubt>>
     \/ Lost /\ UNCHANGED <<docs, cache>>
     \/ /\ docs[d].status # "discarded"
        /\ docs' = [docs EXCEPT ![d].status = "discarded", ![d].discarded = TRUE]
        /\ cache' = Changed("balance")
        /\ Lost
  /\ UNCHANGED <<filesVars, order, form>>
-----------------------------------------------------------------------------
Gesture ==
  \/ \E q \in Types : ChooseType(q)
  \/ \E k \in Keys : Process(k)
  \/ \E role \in Roles : ChooseRole(role)
  \/ \E file \in {"good", "bad"} : AcceptFile(file)
  \/ DropMany \/ RemoveFile \/ OpenDiscard \/ CancelDiscard

DocumentsNext ==
  \/ gestures < MaxGestures /\ gestures' = gestures + 1 /\ Gesture
  \/ /\ UNCHANGED gestures
     /\ \/ \E q \in Types : ReadList(q) \/ ListShown(q) \/ ListFailed(q)
        \/ \E k \in Keys :
             \/ AdvanceUpload(k) \/ UploadDone(k) \/ FailUpload(k)
             \/ CreateDocument(k) \/ StartProcessing(k) \/ EndProcessing(k)
             \/ EndUnattended(k) \/ Finish(k) \/ FailProcessing(k) \/ LoseCall(k)
        \/ Discard \/ DiscardDone \/ DiscardFailed

Next ==
  \/ visit = "files" /\ FilesNext /\ UNCHANGED pageVars
  \/ visit = "documents" /\ DocumentsNext /\ UNCHANGED visit

Spec == Init /\ [][Next]_vars
-----------------------------------------------------------------------------
InFlight(k) == \/ upload[k].page = "documents" /\ upload[k].at \in Calls
               \/ order[k].call \in DocCalls

(* A file is registered only with its object in the storage, under the      *)
(* category its upload was started with, and a document has the type and the *)
(* role its form had then: whatever call was lost on the way, and whatever   *)
(* the user chose on the page meanwhile.                                     *)
FormsAreKept ==
  /\ \A k \in Registered : k \in objects /\ files[k] = upload[k].category
  /\ \A i \in DOMAIN docs :
       LET k == docs[i].key IN
       /\ files[k] = CategoryForDocument(docs[i].type) /\ k \in objects
       /\ docs[i].type = order[k].type /\ docs[i].role = order[k].role
       /\ docs[i].role = None <=> docs[i].type # "balance"

Quiet == /\ \A k \in Keys : ~InFlight(k) /\ ~order[k].running
         /\ dialog.step # "refreshing" /\ \A q \in Types : cache[q].fetch = None

(* Once every call was answered, the history on the screen is the one the   *)
(* API has, whichever uploads, discards and changes of tab crossed on the   *)
(* way, unless an answer was lost or the list had been read before the      *)
(* lists were marked and arrived after it. That late list counts as fresh   *)
(* however old it is; only the first list of a tab and one that was left    *)
(* while it was fetched can be so late.                                     *)
HistoryIsCurrent ==
  Quiet /\ ~doubt /\ visit = "documents" /\ ~cache[form.type].late =>
    cache[form.type].data.current
=============================================================================
