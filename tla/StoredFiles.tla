---------------------------- MODULE StoredFiles ----------------------------
(***************************************************************************)
(* The files of a company. The browser uploads a file in three calls: the   *)
(* API signs a URL for a new object key, the object goes straight to the    *)
(* storage, and the API registers what arrived there. This module has the   *)
(* API, the storage, the calls in transit, and the page that lists files.   *)
(*                                                                          *)
(* An upload is named by the object key it is given: nothing else writes    *)
(* under that key, so that a call is served and answered in one step. A     *)
(* connection that breaks fails the call for the browser, served or not.    *)
(***************************************************************************)
EXTENDS Naturals, Sequences, SequencesExt

CONSTANTS
  MaxUploads,  \* bound on the uploads of the browser
  Categories,  \* categories of files
  None

ASSUME FilesAssumption ==
  /\ MaxUploads \in Nat \ {0}
  /\ None \notin Categories \cup {"files", "documents"}

\* Object keys, each drawn by one upload.
Keys == 1 .. MaxUploads

VARIABLES
  objects,   \* keys with an object in the storage
  files,     \* category each key is registered with
  upload,    \* uploads of the browser
  filesPage  \* the page that lists the files

filesVars == <<objects, files, upload, filesPage>>
-----------------------------------------------------------------------------
Calls == {"preparing", "uploading", "confirming"}

NextCall == [preparing |-> "uploading", uploading |-> "confirming",
             confirming |-> "completed"]

Upload == [page : {None, "files", "documents"},
           at : Calls \cup {"idle", "completed", "failed"},
           category : Categories \cup {None}]

NoUpload == [page |-> None, at |-> "idle", category |-> None]

\* The dialog is remounted each time it opens.
Closed == [open |-> FALSE, file |-> None, category |-> None, stage |-> "idle",
           submitting |-> FALSE]

Dialog == [open : BOOLEAN, file : {None, "good", "large"},
           category : Categories \cup {None},
           stage : Calls \cup {"idle", "completed"}, submitting : BOOLEAN]

FilesPage == [list : SUBSET Keys, loading : BOOLEAN, error : BOOLEAN,
              loads : Seq((SUBSET Keys) \cup {None}), dialog : Dialog]

FilesTypeOK ==
  /\ objects \subseteq Keys
  /\ files \in [Keys -> Categories \cup {None}]
  /\ upload \in [Keys -> Upload]
  /\ filesPage \in FilesPage

\* The page loads its list when it is mounted.
FilesInit ==
  /\ objects = {}
  /\ files = [k \in Keys |-> None]
  /\ upload = [k \in Keys |-> NoUpload]
  /\ filesPage = [list |-> {}, loading |-> TRUE, error |-> FALSE,
                  loads |-> <<None>>, dialog |-> Closed]

Registered == {k \in Keys : files[k] # None}

Fresh(k) == upload[k].at = "idle" /\ \A j \in 1 .. k - 1 : upload[j].at # "idle"
-----------------------------------------------------------------------------
(* The three calls, awaited one after the other by the browser.            *)

Start(k, page, category) ==
  /\ Fresh(k)
  /\ upload' = [upload EXCEPT ![k] = [page |-> page, at |-> "preparing",
                                      category |-> category]]

Answered(k, page, call) ==
  /\ upload[k].page = page /\ upload[k].at = call
  /\ upload' = [upload EXCEPT ![k].at = NextCall[call]]

\* The API signs a URL and writes nothing.
CreateUploadUrl(k, page) ==
  /\ Answered(k, page, "preparing")
  /\ UNCHANGED <<objects, files>>

UploadToStorage(k, page) ==
  /\ Answered(k, page, "uploading")
  /\ objects' = objects \cup {k}
  /\ UNCHANGED files

Completes(k) == files[k] = None /\ k \in objects

\* The object is looked for in the storage before it is registered.
CompleteUpload(k, page) ==
  /\ Completes(k)
  /\ Answered(k, page, "confirming")
  /\ files' = [files EXCEPT ![k] = upload[k].category]
  /\ UNCHANGED objects

\* The call is refused, the URL has expired, or the answer does not come.
Fail(k, page) ==
  /\ upload[k].page = page /\ upload[k].at \in Calls
  /\ upload' = [upload EXCEPT ![k].at = "failed"]
  /\ \/ UNCHANGED <<objects, files>>
     \/ /\ upload[k].at = "uploading"
        /\ objects' = objects \cup {k} /\ UNCHANGED files
     \/ /\ upload[k].at = "confirming" /\ Completes(k)
        /\ files' = [files EXCEPT ![k] = upload[k].category] /\ UNCHANGED objects
-----------------------------------------------------------------------------
(* The page of files.                                                      *)

Loading(page) == [page EXCEPT !.loading = TRUE, !.error = FALSE,
                              !.loads = Append(@, None)]

\* What the page shows: a table only when something was loaded.
ViewState == IF filesPage.loading THEN "loading"
             ELSE IF filesPage.list # {} THEN "list"
             ELSE IF filesPage.error THEN "error" ELSE "empty"

ListFiles ==
  /\ \E i \in DOMAIN filesPage.loads :
       /\ filesPage.loads[i] = None
       /\ filesPage' = [filesPage EXCEPT !.loads[i] = Registered]
  /\ UNCHANGED <<objects, files, upload>>

\* Answers are applied as they arrive, whichever load they belong to.
Loaded ==
  /\ \E i \in DOMAIN filesPage.loads :
       \/ /\ filesPage.loads[i] # None
          /\ filesPage' = [filesPage EXCEPT !.list = filesPage.loads[i],
                                            !.loading = FALSE,
                                            !.loads = RemoveAt(@, i)]
       \/ filesPage' = [filesPage EXCEPT !.error = TRUE, !.loading = FALSE,
                                         !.loads = RemoveAt(@, i)]
  /\ UNCHANGED <<objects, files, upload>>

Reload ==
  /\ ViewState = "error"
  /\ filesPage' = Loading(filesPage)
  /\ UNCHANGED <<objects, files, upload>>

DialogBusy == filesPage.dialog.stage \notin {"idle", "completed"}

OpenDialog ==
  /\ ~filesPage.dialog.open
  /\ filesPage' = [filesPage EXCEPT !.dialog = [Closed EXCEPT !.open = TRUE]]
  /\ UNCHANGED <<objects, files, upload>>

CloseDialog ==
  /\ filesPage.dialog.open /\ ~DialogBusy
  /\ filesPage' = [filesPage EXCEPT !.dialog = Closed]
  /\ UNCHANGED <<objects, files, upload>>

FillDialog ==
  /\ filesPage.dialog.open /\ filesPage.dialog.stage = "idle"
  /\ \/ \E f \in {"good", "large"} :
          filesPage' = [filesPage EXCEPT !.dialog.file = f]
     \/ \E c \in Categories :
          filesPage' = [filesPage EXCEPT !.dialog.category = c]
  /\ UNCHANGED <<objects, files, upload>>

Submit(k) ==
  LET d == filesPage.dialog IN
  /\ d.open /\ d.stage = "idle" /\ ~d.submitting
  /\ d.file = "good" /\ d.category # None
  /\ Start(k, "files", d.category)
  /\ filesPage' = [filesPage EXCEPT !.dialog.stage = "preparing",
                                    !.dialog.submitting = TRUE]
  /\ UNCHANGED <<objects, files>>

AdvanceFile(k) ==
  /\ CreateUploadUrl(k, "files") \/ UploadToStorage(k, "files")
  /\ filesPage' = [filesPage EXCEPT !.dialog.stage = upload'[k].at]

FileUploaded(k) ==
  /\ CompleteUpload(k, "files")
  /\ filesPage' = Loading([filesPage EXCEPT !.dialog.stage = "completed",
                                            !.dialog.submitting = FALSE])

FailFile(k) ==
  /\ Fail(k, "files")
  /\ filesPage' = [filesPage EXCEPT !.dialog.stage = "idle",
                                    !.dialog.submitting = FALSE]
-----------------------------------------------------------------------------
FilesNext ==
  \/ \E k \in Keys : Submit(k) \/ AdvanceFile(k) \/ FileUploaded(k) \/ FailFile(k)
  \/ ListFiles \/ Loaded \/ Reload \/ OpenDialog \/ CloseDialog \/ FillDialog

=============================================================================
