---------------------------- MODULE MappingPage ----------------------------
(***************************************************************************)
(* The page that maps the accounts of a period to SII accounts             *)
(* (web account-mapping-page.tsx) and the requests it sends: the filtered  *)
(* list, one decision, the approval of a batch, a generation. The page     *)
(* works on the rows it shows and its dialogs on the row they were opened  *)
(* with; meanwhile lists arrive late and others decide or generate.        *)
(*                                                                         *)
(* The API reads a list in one step and its answer arrives in a later one. *)
(* A batch is approved in two steps, the reading of its snapshot and its   *)
(* commit; a decision and a generation are one (AccountMappings has what   *)
(* happens inside). The answer of what changes the tables arrives with its *)
(* commit. Every account is in the period and fits in one page of the list;*)
(* search is left out.                                                     *)
(***************************************************************************)
EXTENDS Naturals, FiniteSets

CONSTANTS
  Accounts,     \* accounts of the period's balance
  Sii,          \* accounts of the SII catalogue
  Suggestions,  \* primary suggestions a generation may leave
  Filters,      \* filters of the list the user chooses from
  None,         \* null
  Sent,         \* a call the API has not served yet
  MaxGestures,  \* bound on what the user does
  MaxEvents     \* bound on what others do and on failed gestures

Suggestion == [sii : Sii, status : {"active", "review"}, high : BOOLEAN]

ASSUME ConstantsAssumption ==
  /\ Suggestions \subseteq Suggestion
  /\ Filters \subseteq {"all", "pending", "suggested", "withoutSuggestion", "confirmed", "rejected"}
  /\ "all" \in Filters
  /\ None \notin Sii \cup Suggestions
  /\ MaxGestures \in Nat /\ MaxEvents \in Nat

VARIABLES
  mapping,    \* company_account_mappings
  primary,    \* open suggestion of rank 1 of each account
  filter,     \* status filter of the page
  cache,      \* cached lists
  selectedIds,
  approval,   \* dialog of approval
  review,     \* dialog of one account
  approving,  \* null, sent, or the list whose refetch ends it
  generating, \* likewise
  gestures, others, faults

tables == <<mapping, primary>>
dialogs == <<approval, review>>
bounds == <<gestures, others, faults>>
vars == <<tables, filter, cache, selectedIds, dialogs, approving, generating, bounds>>
-----------------------------------------------------------------------------
Mapping == [status : {"pending", "confirmed", "rejected"}, sii : Sii \cup {None}]
Row == [mapping : Mapping, suggestion : Suggestions \cup {None}]
List == [Accounts -> Row \cup {None}]

\* A fetch is Sent until the API has read its list. It is late when the tables
\* changed after that and nothing fetched the list again.
Query == [data : List \cup {None}, fetch : List \cup {None, Sent},
          stale : BOOLEAN, late : BOOLEAN]

\* What a transaction sees of the tables.
Snapshot == [mapping : [Accounts -> Mapping], primary : [Accounts -> Suggestions \cup {None}]]

\* The items are the rows the dialog was opened with.
Approval == [items : List, sent : BOOLEAN, read : Snapshot \cup {None}]

\* asks: the dialog asked to press again to confirm, or to reject.
Review == [account : Accounts, row : Row, sii : Sii \cup {None},
           asks : SUBSET {"confirm", "reject"}, sent : {None, "confirm", "reject"}]

\* Null, and a call that waits, are no values.
ASSUME NullAssumption ==
  /\ None \notin {Sent, "confirm", "reject"}
  /\ None \notin List \cup Row \cup Snapshot \cup Approval \cup Review
  /\ Sent \notin List

Shown(list) == {a \in Accounts : list[a] # None}

\* The suggestion is joined only while the mapping is pending.
PresentListRow(a) ==
  [mapping |-> mapping[a],
   suggestion |-> IF mapping[a].status = "pending" THEN primary[a] ELSE None]

Listed(a, f) ==
  CASE f = "all" -> TRUE
    [] f = "suggested" -> mapping[a].status = "pending" /\ primary[a] # None
    [] f = "withoutSuggestion" -> mapping[a].status = "pending" /\ primary[a] = None
    [] OTHER -> mapping[a].status = f

ListOf(f) == [a \in Accounts |-> IF Listed(a, f) THEN PresentListRow(a) ELSE None]

Pending(row) == row.mapping.status = "pending" /\ row.suggestion # None

IsMassApprovable(row) == Pending(row) /\ row.suggestion.status = "active"

Rows == cache[filter].data
Visible == IF Rows = None THEN {} ELSE Shown(Rows)
IndividuallyApprovable == {a \in Visible : Pending(Rows[a])}
HighConfidence == {a \in Visible : IsMassApprovable(Rows[a]) /\ Rows[a].suggestion.high}
Items(accounts) == [a \in Accounts |-> IF a \in accounts THEN Rows[a] ELSE None]

Gesture == gestures < MaxGestures /\ gestures' = gestures + 1
Free == approval = None /\ review = None /\ Gesture
-----------------------------------------------------------------------------
(* The lists.                                                              *)

NoQuery == [data |-> None, fetch |-> None, stale |-> FALSE, late |-> FALSE]

Init ==
  /\ mapping = [a \in Accounts |-> [status |-> "pending", sii |-> None]]
  /\ primary \in [Accounts -> Suggestions \cup {None}]
  /\ filter = "all"
  /\ cache = [f \in Filters |-> IF f = "all" THEN [NoQuery EXCEPT !.fetch = Sent] ELSE NoQuery]
  /\ selectedIds = {}
  /\ approval = None /\ review = None
  /\ approving = None /\ generating = None
  /\ gestures = 0 /\ others = 0 /\ faults = 0

Fetched(query) == [query EXCEPT !.fetch = Sent, !.late = FALSE]

\* A fetch under way goes on, read already or not.
Marked(query) ==
  [query EXCEPT !.stale = TRUE, !.late = @ \/ query.fetch \notin {None, Sent}]

\* Every list is marked. The one on the screen is fetched again, and a fetch of
\* it under way is given up; but its first fetch, without data yet, goes on.
Invalidated ==
  [f \in Filters |-> IF f = filter /\ (cache[f].data # None \/ cache[f].fetch = None)
                     THEN Fetched(Marked(cache[f])) ELSE Marked(cache[f])]

\* What waited for this list goes on.
Settled(waiting, f) == IF waiting = f THEN None ELSE waiting

ReadList(f) ==
  /\ cache[f].fetch = Sent
  /\ cache' = [cache EXCEPT ![f].fetch = ListOf(f)]
  /\ UNCHANGED <<tables, filter, selectedIds, dialogs, approving, generating, bounds>>

\* It counts as fresh, late or not.
ListArrives(f) ==
  /\ cache[f].fetch \notin {None, Sent}
  /\ cache' = [cache EXCEPT ![f] =
       [data |-> @.fetch, fetch |-> None, stale |-> FALSE, late |-> @.late]]
  /\ approving' = Settled(approving, f)
  /\ generating' = Settled(generating, f)
  /\ UNCHANGED <<tables, filter, selectedIds, dialogs, bounds>>

Fault == others + faults < MaxEvents /\ faults' = faults + 1

ListFails(f) ==
  /\ cache[f].fetch # None
  /\ Fault
  /\ cache' = [cache EXCEPT ![f].fetch = None, ![f].stale = TRUE]
  /\ approving' = Settled(approving, f)
  /\ generating' = Settled(generating, f)
  /\ UNCHANGED <<tables, filter, selectedIds, dialogs, gestures, others>>

\* A list never seen, marked, or older than the stale time is fetched. The
\* selection stays. A fetch of the list left behind goes on.
ChooseFilter(f) ==
  /\ Free /\ f # filter
  /\ filter' = f
  /\ \E old \in BOOLEAN :
       cache' = IF /\ cache[f].fetch = None
                   /\ old \/ cache[f].stale \/ cache[f].data = None
                THEN [cache EXCEPT ![f] = Fetched(@)] ELSE cache
  /\ UNCHANGED <<tables, selectedIds, dialogs, approving, generating, others, faults>>

Select(ids) ==
  /\ Free /\ selectedIds' = ids /\ ids # selectedIds
  /\ UNCHANGED <<tables, filter, cache, dialogs, approving, generating, others, faults>>

Toggle(a) ==
  /\ a \in IndividuallyApprovable
  /\ Select(IF a \in selectedIds THEN selectedIds \ {a} ELSE selectedIds \cup {a})

SelectAll == Rows # None /\ (Select(IndividuallyApprovable) \/ Select({}))

ClearSelection == Select({})
-----------------------------------------------------------------------------
(* Approval of a batch.                                                    *)

OpenApproval(accounts) ==
  /\ Free /\ approving = None /\ accounts # {}
  /\ approval' = [items |-> Items(accounts), sent |-> FALSE, read |-> None]
  /\ UNCHANGED <<tables, filter, cache, selectedIds, review, approving, generating,
                 others, faults>>

ApproveOne(a) == a \in IndividuallyApprovable /\ OpenApproval({a})
ApproveSelected == OpenApproval(IndividuallyApprovable \cap selectedIds)
ApproveHighConfidence == OpenApproval(HighConfidence)

CloseApproval ==
  /\ approval # None /\ ~approval.sent
  /\ Gesture
  /\ approval' = None
  /\ UNCHANGED <<tables, filter, cache, selectedIds, review, approving, generating,
                 others, faults>>

Approve ==
  /\ approval # None /\ ~approval.sent
  /\ Gesture
  /\ approval' = [approval EXCEPT !.sent = TRUE]
  /\ approving' = Sent
  /\ UNCHANGED <<tables, filter, cache, selectedIds, review, generating, others,
                 faults>>

Chosen == Shown(approval.items)

\* Mutant: every approval is explicit.
AllowAlways(items) == TRUE
AllowReview(items) == \E a \in Shown(items) : items[a].suggestion.status = "review"

\* The transaction reads the mappings and suggestions on its snapshot and locks
\* none of them.
BatchReads ==
  /\ approval # None /\ approval.sent /\ approval.read = None
  /\ approval' = [approval EXCEPT !.read = [mapping |-> mapping, primary |-> primary]]
  /\ UNCHANGED <<tables, filter, cache, selectedIds, review, approving, generating, bounds>>

\* Decided again from the snapshot: pending, with an allowed primary suggestion.
Approved(ids, allowReview, read) ==
  {a \in ids : /\ read.mapping[a].status = "pending"
               /\ read.primary[a] # None
               /\ read.primary[a].status = "active" \/ allowReview}

\* It confirms them whatever they are by then, and closes their suggestions.
ApproveBatch(ids, allowReview, read) ==
  LET approved == Approved(ids, allowReview, read) IN
  /\ read # None
  /\ mapping' = [a \in Accounts |-> IF a \in approved
                   THEN [status |-> "confirmed", sii |-> read.primary[a].sii] ELSE mapping[a]]
  /\ primary' = [a \in Accounts |-> IF a \in approved THEN None ELSE primary[a]]

ApprovalDone ==
  /\ approval # None /\ approval.sent
  /\ ApproveBatch(Chosen, AllowReview(approval.items), approval.read)
  /\ selectedIds' = {} /\ approval' = None
  /\ cache' = Invalidated
  /\ approving' = filter
  /\ UNCHANGED <<filter, review, generating, bounds>>

\* The dialog stays, whether or not the batch was committed.
ApprovalFailed ==
  /\ approval # None /\ approval.sent
  /\ Fault
  /\ \/ ApproveBatch(Chosen, AllowReview(approval.items), approval.read)
     \/ UNCHANGED tables
  /\ approval' = [approval EXCEPT !.sent = FALSE, !.read = None]
  /\ approving' = None
  /\ UNCHANGED <<filter, cache, selectedIds, review, generating, gestures, others>>
-----------------------------------------------------------------------------
(* Review of one account.                                                  *)

OpenReview(a) ==
  /\ Free /\ a \in Visible
  /\ LET row == Rows[a] IN
     review' = [account |-> a, row |-> row, asks |-> {}, sent |-> None,
                sii |-> IF row.mapping.sii # None THEN row.mapping.sii
                        ELSE IF row.suggestion # None THEN row.suggestion.sii ELSE None]
  /\ UNCHANGED <<tables, filter, cache, selectedIds, approval, approving, generating,
                 others, faults>>

InReview == review # None /\ review.sent = None /\ Gesture

Answer(r) ==
  /\ review' = r
  /\ UNCHANGED <<tables, filter, cache, selectedIds, approval, approving, generating,
                 others, faults>>

ChooseSii(s) == InReview /\ s # review.sii /\ Answer([review EXCEPT !.sii = s])

CloseReview == InReview /\ Answer(None)

\* Another account for a confirmed mapping has to be confirmed twice.
Replaces(r) == r.row.mapping.status = "confirmed" /\ r.sii # r.row.mapping.sii

SaveMapping ==
  /\ InReview /\ review.sii # None
  /\ IF Replaces(review) /\ "confirm" \notin review.asks
     THEN Answer([review EXCEPT !.asks = @ \cup {"confirm"}])
     ELSE Answer([review EXCEPT !.sent = "confirm"])

Reject ==
  /\ InReview /\ Pending(review.row)
  /\ IF "reject" \notin review.asks
     THEN Answer([review EXCEPT !.asks = @ \cup {"reject"}])
     ELSE Answer([review EXCEPT !.sent = "reject"])

Decision(r) == IF r.sent = "confirm" THEN [status |-> "confirmed", sii |-> r.sii]
               ELSE [status |-> "rejected", sii |-> mapping[r.account].sii]

\* applyMappingDecision: whatever the mapping is by now.
Update ==
  LET a == review.account IN
  /\ mapping' = [mapping EXCEPT ![a] = Decision(review)]
  /\ primary' = [primary EXCEPT ![a] = None]

Saved ==
  /\ review # None /\ review.sent # None
  /\ Update
  /\ review' = None
  /\ cache' = Invalidated
  /\ UNCHANGED <<filter, selectedIds, approval, approving, generating, bounds>>

SaveFailed ==
  /\ review # None /\ review.sent # None
  /\ Fault
  /\ Update \/ UNCHANGED tables
  /\ review' = [review EXCEPT !.sent = None]
  /\ UNCHANGED <<filter, cache, selectedIds, approval, approving, generating, gestures, others>>
-----------------------------------------------------------------------------
(* Generations, and what others do.                                        *)

Generate ==
  /\ Free /\ generating = None
  /\ generating' = Sent
  /\ UNCHANGED <<tables, filter, cache, selectedIds, dialogs, approving, others, faults>>

\* Every account but the confirmed ones gets the primary suggestion of now.
Generated ==
  \E outcome \in [Accounts -> Suggestions \cup {None}] :
    primary' = [a \in Accounts |-> IF mapping[a].status = "confirmed" THEN primary[a]
                                   ELSE outcome[a]]

\* Mutant: the lists are not read again.
DoneUnread ==
  /\ generating = Sent
  /\ Generated
  /\ generating' = None
  /\ UNCHANGED <<mapping, filter, cache, selectedIds, dialogs, approving, bounds>>

GenerationDone ==
  /\ generating = Sent
  /\ Generated
  /\ cache' = Invalidated
  /\ generating' = filter
  /\ UNCHANGED <<mapping, filter, selectedIds, dialogs, approving, bounds>>

GenerationFailed ==
  /\ generating = Sent
  /\ Fault
  /\ Generated \/ UNCHANGED primary
  /\ generating' = None
  /\ UNCHANGED <<mapping, filter, cache, selectedIds, dialogs, approving, gestures, others>>

Other ==
  /\ others + faults < MaxEvents /\ others' = others + 1
  /\ UNCHANGED <<filter, cache, selectedIds, dialogs, approving, generating, gestures, faults>>

OtherDecides(a) ==
  /\ Other
  /\ \E s \in Sii : mapping' = [mapping EXCEPT ![a] = [status |-> "confirmed", sii |-> s]]
  /\ primary' = [primary EXCEPT ![a] = None]

\* Another user generates.
OtherGenerates == Other /\ Generated /\ UNCHANGED mapping
-----------------------------------------------------------------------------
Next ==
  \/ \E f \in Filters : ReadList(f) \/ ListArrives(f) \/ ListFails(f) \/ ChooseFilter(f)
  \/ \E a \in Accounts : Toggle(a) \/ ApproveOne(a) \/ OpenReview(a) \/ OtherDecides(a)
  \/ SelectAll \/ ClearSelection
  \/ ApproveSelected \/ ApproveHighConfidence \/ CloseApproval \/ Approve
  \/ BatchReads \/ ApprovalDone \/ ApprovalFailed
  \/ \E s \in Sii : ChooseSii(s)
  \/ CloseReview \/ SaveMapping \/ Reject \/ Saved \/ SaveFailed
  \/ Generate \/ GenerationDone \/ GenerationFailed \/ OtherGenerates

Spec == Init /\ [][Next]_vars
-----------------------------------------------------------------------------
TypeOK ==
  /\ mapping \in [Accounts -> Mapping]
  /\ primary \in [Accounts -> Suggestions \cup {None}]
  /\ filter \in Filters
  /\ cache \in [Filters -> Query]
  /\ selectedIds \subseteq Accounts
  /\ approval \in Approval \cup {None}
  /\ review \in Review \cup {None}
  /\ approving \in Filters \cup {None, Sent} /\ generating \in Filters \cup {None, Sent}
  /\ gestures \in Nat /\ others \in Nat /\ faults \in Nat

\* "... no entran en la aprobación masiva de alta confianza" (dialog of approval):
\* an approval whose items were all active when it was opened confirms no
\* suggestion to be reviewed, even if a generation put one in the place of what
\* the dialog shows. It confirms only accounts of the dialog, with the primary
\* suggestion they had when the API read the tables, and replaces no mapping that
\* was decided by then; one that another user decides between that reading and
\* the commit is replaced, and nobody but another user can.
ApprovalIsExplicit ==
  [][ApprovalDone \/ ApprovalFailed =>
       \A a \in Accounts : mapping'[a] # mapping[a] =>
         LET read == approval.read IN
         /\ a \in Chosen
         /\ mapping'[a] = [status |-> "confirmed", sii |-> read.primary[a].sii]
         /\ read.mapping[a].status = "pending"
         /\ mapping[a].status # "pending" => others > 0
         /\ read.primary[a].status = "review" =>
              \E b \in Chosen : approval.items[b].suggestion.status = "review"]_vars

\* When nothing is under way the page shows the tables as they are, as long as
\* nobody else changed them and no call was lost: what the user did last is in
\* the list, under whatever filter, unless the list had been read before that and
\* arrived after it. Only the first list of a filter and one that was left while
\* it was fetched can be so late; a list on the screen is fetched again.
ShownIsCurrent ==
  /\ others = 0 /\ faults = 0
  /\ ~(approval # None /\ approval.sent) /\ generating = None
  /\ cache[filter].fetch = None /\ ~cache[filter].late
  => Rows = ListOf(filter)

=============================================================================
