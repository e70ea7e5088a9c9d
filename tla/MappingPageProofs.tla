------------------------- MODULE MappingPageProofs -------------------------
(***************************************************************************)
(* Proofs about the page of mappings, for any accounts, suggestions and     *)
(* filters, and any number of gestures and events.                          *)
(***************************************************************************)
EXTENDS MappingPage, TLAPS
-----------------------------------------------------------------------------
(* The inductive invariant. *)

\* Nobody else changed the tables, and no call was lost.
Alone == others = 0 /\ faults = 0

\* A list that was read and is on its way is what the API would answer now, or
\* is known to be late.
OnTheWay ==
  \A f \in Filters :
    cache[f].fetch \notin {None, Sent} /\ ~cache[f].late => cache[f].fetch = ListOf(f)

\* A list that arrived and is not marked is what the API would answer, or was late.
Current ==
  \A f \in Filters :
    cache[f].fetch = None /\ cache[f].data # None /\ ~cache[f].stale /\ ~cache[f].late =>
      cache[f].data = ListOf(f)

\* The list on the screen is fetched as long as it is marked.
OnScreen == cache[filter].fetch = None => Rows # None /\ ~cache[filter].stale

\* The dialog of approval holds rows that can be approved one by one.
ItemsArePending ==
  approval # None => Chosen # {} /\ \A a \in Chosen : Pending(approval.items[a])

\* What the dialog of one account sends was asked for: a confirmation has an
\* account, a replacement and a rejection were confirmed, and only a suggestion
\* is rejected.
ReviewAsked ==
  review # None =>
    /\ review.sent = "confirm" => review.sii # None
    /\ review.sent = "confirm" /\ Replaces(review) => "confirm" \in review.asks
    /\ review.sent = "reject" => Pending(review.row) /\ "reject" \in review.asks

\* One dialog is open at a time.
OneDialog == approval = None \/ review = None

\* With nobody else at work, the mappings are still those the batch was read from.
ReadIsCurrent ==
  approval # None /\ approval.read # None /\ others = 0 => approval.read.mapping = mapping

IInv == /\ TypeOK /\ ItemsArePending /\ ReviewAsked /\ OneDialog /\ ReadIsCurrent
        /\ Alone => OnTheWay /\ Current /\ OnScreen
-----------------------------------------------------------------------------
(* The operators of the model. *)

\* What the API answers to a filter is a list.
LEMMA ListOfIsList ==
  ASSUME TypeOK, NEW f \in Filters
  PROVE  ListOf(f) \in List
<1>1. ASSUME NEW a \in Accounts
      PROVE  PresentListRow(a) \in Row
  BY DEF TypeOK, PresentListRow, Row
<1> QED
  BY <1>1 DEF ListOf, List

\* A query that is marked, or fetched again, is a query.
LEMMA QueryOperators ==
  ASSUME NEW q \in Query
  PROVE  /\ Fetched(q) \in Query /\ Fetched(q).fetch = Sent /\ ~Fetched(q).late
         /\ Fetched(q).data = q.data /\ Fetched(q).stale = q.stale
         /\ Marked(q) \in Query /\ Marked(q).fetch = q.fetch /\ Marked(q).data = q.data
         /\ Marked(q).stale
         /\ Marked(q).fetch \notin {None, Sent} => Marked(q).late
BY DEF Query, Fetched, Marked

\* Whatever is marked, the cache is typed, what is on its way is late, what has
\* arrived is stale, and the list on the screen is fetched.
LEMMA InvalidatedTypes ==
  ASSUME TypeOK
  PROVE  /\ Invalidated \in [Filters -> Query]
         /\ Invalidated[filter].fetch # None
         /\ \A f \in Filters :
              /\ Invalidated[f].fetch \notin {None, Sent} => Invalidated[f].late
              /\ Invalidated[f].fetch = None => Invalidated[f].stale
<1>1. \A f \in Filters : cache[f] \in Query
  BY DEF TypeOK
<1>2. \A f \in Filters : Marked(cache[f]) \in Query
  BY <1>1, QueryOperators
<1>3. ASSUME NEW f \in Filters
      PROVE  /\ Invalidated[f] \in Query
             /\ Invalidated[f].fetch \notin {None, Sent} => Invalidated[f].late
             /\ Invalidated[f].fetch = None => Invalidated[f].stale /\ f # filter
  <2>1. CASE f = filter /\ (cache[f].data # None \/ cache[f].fetch = None)
    <3>1. Invalidated[f] = Fetched(Marked(cache[f]))
      BY <2>1 DEF Invalidated
    <3> QED
      BY <1>2, <3>1, QueryOperators, NullAssumption
  <2>2. CASE ~(f = filter /\ (cache[f].data # None \/ cache[f].fetch = None))
    <3>1. Invalidated[f] = Marked(cache[f])
      BY <2>2 DEF Invalidated
    <3>2. cache[f] \in Query
      BY <1>1
    <3> QED
      BY <2>2, <3>1, <3>2, QueryOperators
  <2> QED
    BY <2>1, <2>2
<1>4. Invalidated \in [Filters -> Query]
  <2>1. \A f \in Filters : Invalidated[f] \in Query
    BY <1>3
  <2>2. Invalidated = [f \in Filters |-> Invalidated[f]]
    BY DEF Invalidated
  <2> QED
    BY <2>1, <2>2
<1>5. filter \in Filters
  BY DEF TypeOK
<1> QED
  BY <1>3, <1>4, <1>5

\* A row on the screen is a row.
LEMMA VisibleRows ==
  ASSUME TypeOK
  PROVE  /\ Visible \subseteq Accounts
         /\ \A a \in Visible : Rows[a] \in Row
<1>1. Rows \in List \cup {None}
  BY DEF TypeOK, Rows, Query
<1>2. CASE Rows = None
  BY <1>2 DEF Visible
<1>3. CASE Rows \in List
  BY <1>3, NullAssumption DEF Visible, Shown, List
<1> QED
  BY <1>1, <1>2, <1>3

\* Rows that can be approved one by one make the items of the dialog.
LEMMA ItemsOfVisible ==
  ASSUME TypeOK, NEW accounts \in SUBSET IndividuallyApprovable
  PROVE  /\ Items(accounts) \in List
         /\ Shown(Items(accounts)) = accounts
         /\ \A a \in accounts : Pending(Items(accounts)[a])
<1>1. /\ accounts \subseteq Accounts
      /\ \A a \in accounts : Rows[a] \in Row /\ Rows[a] # None /\ Pending(Rows[a])
  BY VisibleRows, NullAssumption DEF IndividuallyApprovable
<1>2. \A a \in Accounts : Items(accounts)[a] = IF a \in accounts THEN Rows[a] ELSE None
  BY DEF Items
<1>3. Items(accounts) \in List
  BY <1>1 DEF Items, List
<1>4. Shown(Items(accounts)) = accounts
  BY <1>1, <1>2 DEF Shown
<1> QED
  BY <1>1, <1>2, <1>3, <1>4

\* What a filter of high confidence shows can be approved one by one.
LEMMA HighConfidenceIsApprovable == HighConfidence \subseteq IndividuallyApprovable
BY DEF HighConfidence, IndividuallyApprovable, IsMassApprovable

\* A batch leaves tables.
LEMMA ApproveBatchTypes ==
  ASSUME TypeOK, NEW ids, NEW allow \in BOOLEAN, NEW read \in Snapshot \cup {None},
         ApproveBatch(ids, allow, read)
  PROVE  /\ mapping' \in [Accounts -> Mapping]
         /\ primary' \in [Accounts -> Suggestions \cup {None}]
<1>1. read \in Snapshot
  BY DEF ApproveBatch
<1>2. \A a \in Approved(ids, allow, read) \cap Accounts : read.primary[a] \in Suggestion
  BY <1>1, ConstantsAssumption DEF Snapshot, Approved
<1>3. \A a \in Approved(ids, allow, read) \cap Accounts :
        [status |-> "confirmed", sii |-> read.primary[a].sii] \in Mapping
  BY <1>2 DEF Suggestion, Mapping
<1> QED
  BY <1>3 DEF ApproveBatch, TypeOK

\* So does a decision.
LEMMA UpdateTypes ==
  ASSUME TypeOK, review # None, Update
  PROVE  /\ mapping' \in [Accounts -> Mapping]
         /\ primary' \in [Accounts -> Suggestions \cup {None}]
<1>1. review \in Review
  BY DEF TypeOK
<1>2. review.account \in Accounts /\ mapping[review.account] \in Mapping
  BY <1>1 DEF Review, TypeOK
<1>3. Decision(review) \in Mapping
  BY <1>1, <1>2 DEF Decision, Review, Mapping
<1> QED
  BY <1>2, <1>3 DEF Update, TypeOK

\* And a generation.
LEMMA GeneratedTypes ==
  ASSUME TypeOK, Generated
  PROVE  primary' \in [Accounts -> Suggestions \cup {None}]
BY DEF TypeOK, Generated
-----------------------------------------------------------------------------
(* The steps, by what they leave. *)

\* What a transaction that begins now sees.
Tables == [mapping |-> mapping, primary |-> primary]

\* What the dialog of approval may become.
ApprovalStep ==
  \/ approval' = approval
  \/ approval' = None
  \/ approval # None /\ approval' \in {[approval EXCEPT !.sent = TRUE],
                                       [approval EXCEPT !.sent = FALSE, !.read = None],
                                       [approval EXCEPT !.read = Tables]}
  \/ \E ids \in SUBSET IndividuallyApprovable :
       /\ ids # {} /\ approval' = [items |-> Items(ids), sent |-> FALSE, read |-> None]
       /\ review = None /\ review' = None

\* What the dialog of one account may become.
ReviewStep ==
  \/ review' = review
  \/ review' = None
  \/ review # None /\ review' = [review EXCEPT !.sent = None]
  \/ \E s \in Sii : review # None /\ review.sent = None /\ review' = [review EXCEPT !.sii = s]
  \/ review # None /\ SaveMapping
  \/ review # None /\ Reject
  \/ \E a \in Accounts : OpenReview(a)

\* What a step of the whole page does to the lists.
ListStep ==
  \/ UNCHANGED <<tables, filter, cache>> /\ (Alone' => Alone)
  \/ filter' = filter /\ cache' = Invalidated /\ (Alone' => Alone)
  \/ \E f \in Filters : ReadList(f)
  \/ \E f \in Filters : ListArrives(f)
  \/ \E f \in Filters : ChooseFilter(f)
  \/ ~Alone' /\ UNCHANGED <<filter, cache>>
  \/ ~Alone' /\ \E f \in Filters : ListFails(f)

\* No step does anything else.
LEMMA StepKinds ==
  ASSUME TypeOK, [Next]_vars
  PROVE  ApprovalStep /\ ReviewStep /\ ListStep
<1> USE DEF dialogs, tables, bounds
<1>0. CASE UNCHANGED vars
  BY <1>0 DEF vars, ApprovalStep, ReviewStep, ListStep, Alone
<1>1. ASSUME NEW f \in Filters,
             ReadList(f) \/ ListArrives(f) \/ ListFails(f) \/ ChooseFilter(f)
      PROVE  ApprovalStep /\ ReviewStep /\ ListStep
  <2>1. UNCHANGED dialogs
    BY <1>1 DEF ReadList, ListArrives, ListFails, ChooseFilter
  <2>2. ListStep
    <3>1. ASSUME ListFails(f)
          PROVE  ~Alone'
      BY <3>1 DEF ListFails, Fault, Alone, TypeOK
    <3> QED
      BY <1>1, <3>1 DEF ListStep
  <2> QED
    BY <2>1, <2>2 DEF ApprovalStep, ReviewStep
<1>2. ASSUME \/ \E a \in Accounts : Toggle(a)
             \/ SelectAll \/ ClearSelection
      PROVE  ApprovalStep /\ ReviewStep /\ ListStep
  BY <1>2 DEF Toggle, SelectAll, ClearSelection, Select, ApprovalStep, ReviewStep, ListStep, Alone
<1>3. ASSUME \/ \E a \in Accounts : ApproveOne(a)
             \/ ApproveSelected \/ ApproveHighConfidence
      PROVE  ApprovalStep /\ ReviewStep /\ ListStep
  <2>1. PICK ids \in SUBSET IndividuallyApprovable : OpenApproval(ids)
    BY <1>3, HighConfidenceIsApprovable DEF ApproveOne, ApproveSelected, ApproveHighConfidence
  <2> QED
    BY <2>1 DEF OpenApproval, Free, ApprovalStep, ReviewStep, ListStep, Alone
<1>4. CASE CloseApproval \/ Approve
  BY <1>4 DEF CloseApproval, Approve, ApprovalStep, ReviewStep, ListStep, Alone
<1>5. CASE ApprovalDone \/ BatchReads
  BY <1>5 DEF ApprovalDone, BatchReads, Tables, ApprovalStep, ReviewStep, ListStep, Alone
<1>6. CASE ApprovalFailed
  <2>1. ~Alone'
    BY <1>6 DEF ApprovalFailed, Fault, Alone, TypeOK
  <2> QED
    BY <1>6, <2>1 DEF ApprovalFailed, ApprovalStep, ReviewStep, ListStep
<1>7. ASSUME NEW a \in Accounts, OpenReview(a)
      PROVE  ApprovalStep /\ ReviewStep /\ ListStep
  <2>1. ReviewStep
    BY <1>7 DEF ReviewStep
  <2> QED
    BY <1>7, <2>1 DEF OpenReview, ApprovalStep, ListStep, Alone
<1>8. ASSUME NEW s \in Sii, ChooseSii(s)
      PROVE  ApprovalStep /\ ReviewStep /\ ListStep
  BY <1>8 DEF ChooseSii, InReview, Answer, ApprovalStep, ReviewStep, ListStep, Alone
<1>9. CASE CloseReview
  BY <1>9 DEF CloseReview, InReview, Answer, ApprovalStep, ReviewStep, ListStep, Alone
<1>10. CASE SaveMapping \/ Reject
  <2>1. ReviewStep
    BY <1>10 DEF ReviewStep, SaveMapping, Reject, InReview
  <2> QED
    BY <1>10, <2>1 DEF SaveMapping, Reject, InReview, Answer, ApprovalStep, ListStep, Alone
<1>11. CASE Saved
  BY <1>11 DEF Saved, ApprovalStep, ReviewStep, ListStep, Alone
<1>12. CASE SaveFailed
  <2>1. ~Alone'
    BY <1>12 DEF SaveFailed, Fault, Alone, TypeOK
  <2> QED
    BY <1>12, <2>1 DEF SaveFailed, ApprovalStep, ReviewStep, ListStep
<1>13. CASE Generate
  BY <1>13 DEF Generate, ApprovalStep, ReviewStep, ListStep, Alone
<1>14. CASE GenerationDone
  BY <1>14 DEF GenerationDone, ApprovalStep, ReviewStep, ListStep, Alone
<1>15. CASE GenerationFailed
  <2>1. ~Alone'
    BY <1>15 DEF GenerationFailed, Fault, Alone, TypeOK
  <2> QED
    BY <1>15, <2>1 DEF GenerationFailed, ApprovalStep, ReviewStep, ListStep
<1>16. ASSUME \/ \E a \in Accounts : OtherDecides(a)
              \/ OtherGenerates
       PROVE  ApprovalStep /\ ReviewStep /\ ListStep
  <2>1. UNCHANGED <<filter, cache, dialogs>> /\ others' = others + 1
    BY <1>16 DEF OtherDecides, OtherGenerates, Other
  <2>2. ~Alone'
    BY <2>1 DEF Alone, TypeOK
  <2> QED
    BY <2>1, <2>2 DEF ApprovalStep, ReviewStep, ListStep
<1> QED
  BY <1>0, <1>1, <1>2, <1>3, <1>4, <1>5, <1>6, <1>7, <1>8, <1>9, <1>10, <1>11, <1>12,
     <1>13, <1>14, <1>15, <1>16 DEF Next
-----------------------------------------------------------------------------
(* Types. *)

\* The tables stay tables.
LEMMA TableTypes ==
  ASSUME TypeOK, [Next]_vars
  PROVE  /\ mapping' \in [Accounts -> Mapping]
         /\ primary' \in [Accounts -> Suggestions \cup {None}]
<1> USE DEF tables
<1>0. CASE UNCHANGED tables
  BY <1>0 DEF TypeOK
<1>1. CASE ApprovalDone \/ ApprovalFailed
  <2>1. AllowReview(approval.items) \in BOOLEAN
    BY DEF AllowReview
  <2>2. approval.read \in Snapshot \cup {None}
    BY <1>1 DEF ApprovalDone, ApprovalFailed, TypeOK, Approval
  <2> QED
    BY <1>1, <2>1, <2>2, ApproveBatchTypes DEF ApprovalDone, ApprovalFailed, TypeOK
<1>2. CASE Saved \/ SaveFailed
  BY <1>2, UpdateTypes DEF Saved, SaveFailed, TypeOK
<1>3. CASE GenerationDone \/ GenerationFailed \/ OtherGenerates
  BY <1>3, GeneratedTypes DEF GenerationDone, GenerationFailed, OtherGenerates, TypeOK
<1>4. ASSUME NEW a \in Accounts, OtherDecides(a)
      PROVE  /\ mapping' \in [Accounts -> Mapping]
             /\ primary' \in [Accounts -> Suggestions \cup {None}]
  BY <1>4 DEF OtherDecides, TypeOK, Mapping
<1>5. \/ UNCHANGED tables \/ ApprovalDone \/ ApprovalFailed \/ Saved \/ SaveFailed
      \/ GenerationDone \/ GenerationFailed \/ OtherGenerates
      \/ \E a \in Accounts : OtherDecides(a)
  BY DEF Next, vars, ReadList, ListArrives, ListFails, BatchReads, ChooseFilter, Toggle, SelectAll, ClearSelection,
         Select, ApproveOne, ApproveSelected, ApproveHighConfidence, OpenApproval, CloseApproval,
         Approve, OpenReview, ChooseSii, CloseReview, SaveMapping, Reject, Answer, Generate
<1> QED
  BY <1>0, <1>1, <1>2, <1>3, <1>4, <1>5

\* The lists stay lists.
LEMMA CacheTypes ==
  ASSUME TypeOK, [Next]_vars
  PROVE  cache' \in [Filters -> Query] /\ filter' \in Filters
<1>1. ListStep
  BY StepKinds
<1>2. ASSUME NEW f \in Filters, ReadList(f) \/ ListArrives(f)
      PROVE  cache' \in [Filters -> Query] /\ filter' \in Filters
  <2>1. cache[f] \in Query /\ ListOf(f) \in List
    BY ListOfIsList DEF TypeOK
  <2>2. CASE ReadList(f)
    <3>1. [cache[f] EXCEPT !.fetch = ListOf(f)] \in Query
      BY <2>1 DEF Query
    <3> QED
      BY <2>2, <3>1 DEF ReadList, TypeOK
  <2>3. CASE ListArrives(f)
    <3>1. cache[f].fetch \in List
      BY <2>1, <2>3 DEF ListArrives, Query
    <3>2. [data |-> cache[f].fetch, fetch |-> None, stale |-> FALSE, late |-> cache[f].late]
            \in Query
      BY <2>1, <3>1 DEF Query
    <3> QED
      BY <2>3, <3>2 DEF ListArrives, TypeOK
  <2> QED
    BY <1>2, <2>2, <2>3
<1>3. ASSUME NEW f \in Filters, ListFails(f)
      PROVE  cache' \in [Filters -> Query] /\ filter' \in Filters
  <2>1. cache[f] \in Query
    BY DEF TypeOK
  <2>2. [cache[f] EXCEPT !.fetch = None, !.stale = TRUE] \in Query
    BY <2>1 DEF Query
  <2>3. cache' = [cache EXCEPT ![f] = [cache[f] EXCEPT !.fetch = None, !.stale = TRUE]]
    BY <1>3, <2>1 DEF ListFails, TypeOK, Query
  <2> QED
    BY <1>3, <2>2, <2>3 DEF ListFails, TypeOK
<1>4. ASSUME NEW f \in Filters, ChooseFilter(f)
      PROVE  cache' \in [Filters -> Query] /\ filter' \in Filters
  <2>1. Fetched(cache[f]) \in Query
    BY QueryOperators DEF TypeOK
  <2> QED
    BY <1>4, <2>1 DEF ChooseFilter, TypeOK
<1>5. CASE filter' = filter /\ cache' = Invalidated
  BY <1>5, InvalidatedTypes DEF TypeOK
<1> QED
  BY <1>1, <1>2, <1>3, <1>4, <1>5 DEF ListStep, TypeOK

\* The dialog of approval stays typed.
LEMMA ApprovalTypes ==
  ASSUME TypeOK, [Next]_vars
  PROVE  approval' \in Approval \cup {None}
<1>1. ApprovalStep
  BY StepKinds
<1>2. ASSUME NEW ids \in SUBSET IndividuallyApprovable,
             approval' = [items |-> Items(ids), sent |-> FALSE, read |-> None]
      PROVE  approval' \in Approval
  BY <1>2, ItemsOfVisible DEF Approval
<1>3. approval # None => approval \in Approval
  BY DEF TypeOK
<1>4. Tables \in Snapshot
  BY DEF TypeOK, Tables, Snapshot
<1>5. ASSUME approval # None
      PROVE  {[approval EXCEPT !.sent = TRUE], [approval EXCEPT !.sent = FALSE, !.read = None],
              [approval EXCEPT !.read = Tables]} \subseteq Approval
  BY <1>3, <1>4, <1>5 DEF Approval
<1> QED
  BY <1>1, <1>2, <1>3, <1>5 DEF ApprovalStep

\* What opening the dialog of one account shows.
LEMMA OpenedReview ==
  ASSUME TypeOK, NEW a \in Accounts, OpenReview(a)
  PROVE  review' \in Review /\ review'.sent = None
<1>1. Rows[a] \in Row
  BY VisibleRows DEF OpenReview
<1> DEFINE shown == IF Rows[a].mapping.sii # None THEN Rows[a].mapping.sii
                    ELSE IF Rows[a].suggestion # None THEN Rows[a].suggestion.sii ELSE None
<1>2. shown \in Sii \cup {None}
  <2>1. Rows[a].mapping.sii \in Sii \cup {None} /\ Rows[a].suggestion \in Suggestions \cup {None}
    BY <1>1 DEF Row, Mapping
  <2>2. Rows[a].suggestion # None => Rows[a].suggestion.sii \in Sii
    BY <2>1, ConstantsAssumption DEF Suggestion
  <2> QED
    BY <2>1, <2>2
<1>3. review' = [account |-> a, row |-> Rows[a], asks |-> {}, sent |-> None, sii |-> shown]
  BY DEF OpenReview
<1> HIDE DEF shown
<1> QED
  BY <1>1, <1>2, <1>3 DEF Review

\* What the buttons of the dialog make of it.
LEMMA AnsweredReview ==
  ASSUME TypeOK, ReviewAsked, review # None, SaveMapping \/ Reject
  PROVE  review' \in Review /\ ReviewAsked'
<1>1. review \in Review /\ review.sent = None
  BY DEF TypeOK, SaveMapping, Reject, InReview
<1>2. CASE SaveMapping
  <2>1. review.sii # None
    BY <1>2 DEF SaveMapping
  <2>2. CASE Replaces(review) /\ "confirm" \notin review.asks
    <3>1. review' = [review EXCEPT !.asks = review.asks \cup {"confirm"}]
      BY <1>1, <1>2, <2>2 DEF SaveMapping, Answer, Review
    <3>2. review' \in Review /\ review'.sent = None
      BY <1>1, <3>1 DEF Review
    <3> QED
      BY <3>2, NullAssumption DEF ReviewAsked
  <2>3. CASE ~(Replaces(review) /\ "confirm" \notin review.asks)
    <3>1. review' = [review EXCEPT !.sent = "confirm"]
      BY <1>2, <2>3 DEF SaveMapping, Answer
    <3>2. /\ review' \in Review /\ review'.sent = "confirm" /\ review'.sii = review.sii
          /\ review'.row = review.row /\ review'.asks = review.asks
      BY <1>1, <3>1 DEF Review
    <3> QED
      BY <2>1, <2>3, <3>2 DEF ReviewAsked, Replaces
  <2> QED
    BY <2>2, <2>3
<1>3. CASE Reject
  <2>1. Pending(review.row)
    BY <1>3 DEF Reject
  <2>2. CASE "reject" \notin review.asks
    <3>1. review' = [review EXCEPT !.asks = review.asks \cup {"reject"}]
      BY <1>1, <1>3, <2>2 DEF Reject, Answer, Review
    <3>2. review' \in Review /\ review'.sent = None
      BY <1>1, <3>1 DEF Review
    <3> QED
      BY <3>2, NullAssumption DEF ReviewAsked
  <2>3. CASE "reject" \in review.asks
    <3>1. review' = [review EXCEPT !.sent = "reject"]
      BY <1>3, <2>3 DEF Reject, Answer
    <3>2. /\ review' \in Review /\ review'.sent = "reject"
          /\ review'.row = review.row /\ review'.asks = review.asks
      BY <1>1, <3>1 DEF Review
    <3> QED
      BY <2>1, <2>3, <3>2 DEF ReviewAsked
  <2> QED
    BY <2>2, <2>3
<1> QED
  BY <1>2, <1>3

\* The dialog of one account sends what was asked for, whatever the step.
LEMMA ReviewStays ==
  ASSUME TypeOK, ReviewAsked, [Next]_vars
  PROVE  review' \in Review \cup {None} /\ ReviewAsked'
<1>1. ReviewStep
  BY StepKinds
<1>2. CASE review' = review
  BY <1>2 DEF ReviewAsked, Replaces, TypeOK
<1>3. CASE review' = None
  BY <1>3 DEF ReviewAsked
<1>4. CASE review # None /\ review' = [review EXCEPT !.sent = None]
  <2>1. review' \in Review /\ review'.sent = None
    BY <1>4 DEF TypeOK, Review
  <2> QED
    BY <2>1, NullAssumption DEF ReviewAsked
<1>5. ASSUME NEW s \in Sii, review # None, review.sent = None,
             review' = [review EXCEPT !.sii = s]
      PROVE  review' \in Review \cup {None} /\ ReviewAsked'
  <2>1. review' \in Review /\ review'.sent = None
    BY <1>5 DEF TypeOK, Review
  <2> QED
    BY <2>1, NullAssumption DEF ReviewAsked
<1>6. ASSUME NEW a \in Accounts, OpenReview(a)
      PROVE  review' \in Review \cup {None} /\ ReviewAsked'
  <2>1. review' \in Review /\ review'.sent = None
    BY <1>6, OpenedReview
  <2> QED
    BY <2>1, NullAssumption DEF ReviewAsked
<1> QED
  BY <1>1, <1>2, <1>3, <1>4, <1>5, <1>6, AnsweredReview DEF ReviewStep

\* What is left to type.
RestOK ==
  /\ selectedIds \subseteq Accounts
  /\ approving \in Filters \cup {None, Sent} /\ generating \in Filters \cup {None, Sent}
  /\ gestures \in Nat /\ others \in Nat /\ faults \in Nat

\* The rest of the page stays typed.
LEMMA RestTypes ==
  ASSUME TypeOK, [Next]_vars
  PROVE  RestOK'
<1> USE DEF dialogs, tables, bounds, Gesture, Fault, Other, Free, RestOK
<1>0. RestOK
  BY DEF TypeOK
<1>1. CASE UNCHANGED vars
  BY <1>0, <1>1 DEF vars
<1>2. filter \in Filters
  BY DEF TypeOK
<1>3. ASSUME NEW f \in Filters, ReadList(f) \/ ListArrives(f) \/ ListFails(f)
      PROVE  RestOK'
  BY <1>0, <1>3 DEF ReadList, ListArrives, ListFails, Settled
<1>4. ASSUME NEW f \in Filters, ChooseFilter(f)
      PROVE  RestOK'
  BY <1>0, <1>4 DEF ChooseFilter
<1>5. IndividuallyApprovable \subseteq Accounts
  BY VisibleRows DEF IndividuallyApprovable
<1>6. ASSUME NEW a \in Accounts, Toggle(a) \/ ApproveOne(a) \/ OpenReview(a)
      PROVE  RestOK'
  BY <1>0, <1>5, <1>6 DEF Toggle, Select, ApproveOne, OpenApproval, OpenReview
<1>7. ASSUME NEW a \in Accounts, OtherDecides(a)
      PROVE  RestOK'
  BY <1>0, <1>7 DEF OtherDecides
<1>8. CASE SelectAll \/ ClearSelection
  BY <1>0, <1>5, <1>8 DEF SelectAll, ClearSelection, Select
<1>9. CASE ApproveSelected \/ ApproveHighConfidence \/ CloseApproval \/ Approve
  BY <1>0, <1>9 DEF ApproveSelected, ApproveHighConfidence, OpenApproval, CloseApproval, Approve
<1>10. CASE BatchReads \/ ApprovalDone \/ ApprovalFailed
  <2>0. CASE BatchReads
    BY <1>0, <2>0 DEF BatchReads
  <2>1. CASE ApprovalDone
    BY <1>0, <1>2, <2>1 DEF ApprovalDone
  <2>2. CASE ApprovalFailed
    BY <1>0, <2>2 DEF ApprovalFailed
  <2> QED
    BY <1>10, <2>0, <2>1, <2>2
<1>11. ASSUME \/ \E s \in Sii : ChooseSii(s)
              \/ CloseReview \/ SaveMapping \/ Reject
       PROVE  RestOK'
  BY <1>0, <1>11 DEF ChooseSii, CloseReview, SaveMapping, Reject, InReview, Answer
<1>12. CASE Saved \/ SaveFailed
  <2>1. CASE Saved
    BY <1>0, <2>1 DEF Saved
  <2>2. CASE SaveFailed
    BY <1>0, <2>2 DEF SaveFailed
  <2> QED
    BY <1>12, <2>1, <2>2
<1>13. CASE Generate \/ GenerationDone \/ GenerationFailed \/ OtherGenerates
  <2>1. CASE Generate
    BY <1>0, <2>1 DEF Generate
  <2>2. CASE GenerationDone
    BY <1>0, <1>2, <2>2 DEF GenerationDone
  <2>3. CASE GenerationFailed
    BY <1>0, <2>3 DEF GenerationFailed
  <2>4. CASE OtherGenerates
    BY <1>0, <2>4 DEF OtherGenerates
  <2> QED
    BY <1>13, <2>1, <2>2, <2>3, <2>4
<1> QED
  BY <1>1, <1>3, <1>4, <1>6, <1>7, <1>8, <1>9, <1>10, <1>11, <1>12, <1>13 DEF Next

\* Every variable stays typed.
LEMMA TypeStep ==
  ASSUME TypeOK, [Next]_vars, ReviewAsked
  PROVE  TypeOK'
BY TableTypes, CacheTypes, ApprovalTypes, ReviewStays, RestTypes DEF TypeOK, RestOK
-----------------------------------------------------------------------------
(* The dialog of approval. *)

\* The rows of the dialog stay those it was opened with.
LEMMA ItemsStay ==
  ASSUME TypeOK, ItemsArePending, [Next]_vars
  PROVE  ItemsArePending'
<1>1. ApprovalStep
  BY StepKinds
<1>2. CASE approval' = approval
  BY <1>2 DEF ItemsArePending, Chosen
<1>3. CASE approval' = None
  BY <1>3 DEF ItemsArePending
<1>4. CASE /\ approval # None
           /\ approval' \in {[approval EXCEPT !.sent = TRUE],
                            [approval EXCEPT !.sent = FALSE, !.read = None],
                            [approval EXCEPT !.read = Tables]}
  <2>1. approval'.items = approval.items
    BY <1>4 DEF TypeOK, Approval
  <2> QED
    BY <1>4, <2>1 DEF ItemsArePending, Chosen
<1>5. ASSUME NEW ids \in SUBSET IndividuallyApprovable, ids # {},
             approval' = [items |-> Items(ids), sent |-> FALSE, read |-> None]
      PROVE  ItemsArePending'
  <2>1. approval'.items = Items(ids)
    BY <1>5
  <2>2. Chosen' = ids
    BY <2>1, ItemsOfVisible DEF Chosen, Shown
  <2> QED
    BY <1>5, <2>1, <2>2, ItemsOfVisible DEF ItemsArePending
<1> QED
  BY <1>1, <1>2, <1>3, <1>4, <1>5 DEF ApprovalStep

\* The dialogs exclude each other.
LEMMA OneDialogStep ==
  ASSUME OneDialog, TypeOK, [Next]_vars
  PROVE  OneDialog'
<1>1. ApprovalStep /\ ReviewStep
  BY StepKinds
<1>2. ASSUME NEW a \in Accounts, OpenReview(a)
      PROVE  approval' = None
  BY <1>2 DEF OpenReview, Free
<1>3. review' # None => review # None \/ approval' = None
  BY <1>1, <1>2 DEF ReviewStep
<1>4. approval' # None => approval # None \/ review' = None
  BY <1>1 DEF ApprovalStep
<1>5. approval' # None /\ approval = None => review' = None
  BY <1>4
<1> QED
  BY <1>3, <1>5 DEF OneDialog

\* What others did is not undone.
LEMMA OthersGrow ==
  ASSUME TypeOK, [Next]_vars, others' = 0
  PROVE  others = 0
<1>1. ASSUME \/ \E a \in Accounts : OtherDecides(a)
             \/ OtherGenerates
      PROVE  others' # 0
  BY <1>1 DEF OtherDecides, OtherGenerates, Other, TypeOK
<1>2. ASSUME ~(\E a \in Accounts : OtherDecides(a)) /\ ~OtherGenerates
      PROVE  others' = others
  BY <1>2 DEF Next, vars, bounds, ReadList, ListArrives, ListFails, ChooseFilter, Toggle,
       SelectAll, ClearSelection, Select, ApproveOne, ApproveSelected, ApproveHighConfidence,
       OpenApproval, CloseApproval, Approve, BatchReads, ApprovalDone, ApprovalFailed, OpenReview,
       ChooseSii, CloseReview, SaveMapping, Reject, InReview, Answer, Saved, SaveFailed, Generate,
       GenerationDone, GenerationFailed, Fault, Free, Gesture
<1> QED
  BY <1>1, <1>2

\* As long as nobody else is at work, a batch confirms what it read.
LEMMA ReadStays ==
  ASSUME TypeOK, OneDialog, ReadIsCurrent, [Next]_vars
  PROVE  ReadIsCurrent'
<1> SUFFICES ASSUME approval' # None, approval'.read # None, others' = 0
             PROVE  approval'.read.mapping = mapping'
  BY DEF ReadIsCurrent
<1>1. ApprovalStep /\ others = 0
  BY StepKinds, OthersGrow
<1>2. mapping' = mapping
  <2>1. ~ApprovalDone
    BY DEF ApprovalDone
  <2>2. ~ApprovalFailed
    BY DEF ApprovalFailed, TypeOK, Approval
  <2>3. ~Saved /\ ~SaveFailed
    BY DEF Saved, SaveFailed, OneDialog
  <2>4. \A a \in Accounts : ~OtherDecides(a)
    BY <1>1 DEF OtherDecides, Other, TypeOK
  <2> QED
    BY <2>1, <2>2, <2>3, <2>4 DEF Next, vars, tables, ReadList, ListArrives, ListFails,
       ChooseFilter, Toggle, SelectAll, ClearSelection, Select, ApproveOne, ApproveSelected,
       ApproveHighConfidence, OpenApproval, CloseApproval, Approve, BatchReads, OpenReview,
       ChooseSii, CloseReview, SaveMapping, Reject, Answer, Generate, GenerationDone,
       GenerationFailed, OtherGenerates
<1>3. CASE approval' = approval
  BY <1>1, <1>2, <1>3 DEF ReadIsCurrent
<1>4. CASE approval # None /\ approval' = [approval EXCEPT !.sent = TRUE]
  <2>1. approval'.read = approval.read
    BY <1>4 DEF TypeOK, Approval
  <2> QED
    BY <1>1, <1>2, <1>4, <2>1 DEF ReadIsCurrent
<1>5. CASE approval # None /\ approval' = [approval EXCEPT !.read = Tables]
  BY <1>2, <1>5 DEF TypeOK, Approval, Tables
<1>6. CASE approval # None /\ approval' = [approval EXCEPT !.sent = FALSE, !.read = None]
  BY <1>6 DEF TypeOK, Approval
<1> QED
  BY <1>1, <1>3, <1>4, <1>5, <1>6 DEF ApprovalStep
-----------------------------------------------------------------------------
(* The lists. *)

\* The API reads a list.
LEMMA ReadingStep ==
  ASSUME TypeOK, OnTheWay, Current, OnScreen, NEW f \in Filters, ReadList(f)
  PROVE  OnTheWay' /\ Current' /\ OnScreen'
<1>1. cache[f].fetch = Sent /\ cache[f] \in Query
  BY DEF ReadList, TypeOK
<1>2. /\ cache' = [cache EXCEPT ![f] = [cache[f] EXCEPT !.fetch = ListOf(f)]]
      /\ filter' = filter
      /\ \A g \in Filters : ListOf(g)' = ListOf(g)
  BY <1>1 DEF ReadList, TypeOK, tables, ListOf, Listed, PresentListRow
<1>3. /\ cache'[f].fetch = ListOf(f)
      /\ \A g \in Filters \ {f} : cache'[g] = cache[g]
  BY <1>1, <1>2 DEF TypeOK, Query
<1>4. ListOf(f) # None
  BY ListOfIsList, NullAssumption
<1>5. OnTheWay'
  BY <1>2, <1>3 DEF OnTheWay
<1>6. Current'
  BY <1>2, <1>3, <1>4 DEF Current
<1>7. OnScreen'
  BY <1>2, <1>3, <1>4 DEF OnScreen, Rows, TypeOK
<1> QED
  BY <1>5, <1>6, <1>7

\* A list arrives as it was read.
LEMMA ArrivalStep ==
  ASSUME TypeOK, OnTheWay, Current, OnScreen, NEW f \in Filters, ListArrives(f)
  PROVE  OnTheWay' /\ Current' /\ OnScreen'
<1>1. cache[f].fetch \in List /\ cache[f].fetch \notin {None, Sent}
  BY DEF ListArrives, TypeOK, Query
<1>2. /\ cache' = [cache EXCEPT ![f] = [data |-> cache[f].fetch, fetch |-> None,
                                       stale |-> FALSE, late |-> cache[f].late]]
      /\ filter' = filter
      /\ \A g \in Filters : ListOf(g)' = ListOf(g)
  BY DEF ListArrives, tables, ListOf, Listed, PresentListRow
<1>3. /\ cache'[f] = [data |-> cache[f].fetch, fetch |-> None, stale |-> FALSE,
                      late |-> cache[f].late]
      /\ \A g \in Filters \ {f} : cache'[g] = cache[g]
  BY <1>2 DEF TypeOK
<1>4. OnTheWay'
  BY <1>2, <1>3 DEF OnTheWay
<1>5. Current'
  BY <1>1, <1>2, <1>3 DEF Current, OnTheWay
<1>6. OnScreen'
  BY <1>1, <1>2, <1>3 DEF OnScreen, Rows, TypeOK
<1> QED
  BY <1>4, <1>5, <1>6

\* A filter is chosen, whatever is under way.
LEMMA FilterStep ==
  ASSUME TypeOK, OnTheWay, Current, OnScreen, NEW f \in Filters, ChooseFilter(f)
  PROVE  OnTheWay' /\ Current' /\ OnScreen'
<1>1. /\ filter' = f
      /\ \A g \in Filters : ListOf(g)' = ListOf(g)
  BY DEF ChooseFilter, tables, ListOf, Listed, PresentListRow
<1>2. CASE /\ cache' = cache
           /\ ~(cache[f].fetch = None /\ (cache[f].stale \/ cache[f].data = None))
  BY <1>1, <1>2 DEF OnTheWay, Current, OnScreen, Rows
<1>3. CASE cache[f].fetch = None /\ cache' = [cache EXCEPT ![f] = Fetched(cache[f])]
  <2>1. /\ cache'[f].fetch = Sent
        /\ \A g \in Filters \ {f} : cache'[g] = cache[g]
    BY <1>3, QueryOperators DEF TypeOK
  <2> QED
    BY <1>1, <2>1, NullAssumption DEF OnTheWay, Current, OnScreen
<1> QED
  BY <1>2, <1>3 DEF ChooseFilter

\* Every list is marked, and the one on the screen is fetched.
LEMMA InvalidationStep ==
  ASSUME TypeOK, filter' = filter, cache' = Invalidated
  PROVE  OnTheWay' /\ Current' /\ OnScreen'
<1>1. filter \in Filters
  BY DEF TypeOK
<1>2. OnTheWay' /\ Current'
  BY InvalidatedTypes DEF OnTheWay, Current
<1>3. OnScreen'
  BY <1>1, InvalidatedTypes DEF OnScreen
<1> QED
  BY <1>2, <1>3

\* As long as the page is alone, its lists are those of the tables.
LEMMA ListsStep ==
  ASSUME TypeOK, Alone => OnTheWay /\ Current /\ OnScreen, [Next]_vars, Alone'
  PROVE  OnTheWay' /\ Current' /\ OnScreen'
<1>1. ListStep
  BY StepKinds
<1>2. CASE UNCHANGED <<tables, filter, cache>> /\ (Alone' => Alone)
  <2>1. \A g \in Filters : ListOf(g)' = ListOf(g)
    BY <1>2 DEF tables, ListOf, Listed, PresentListRow
  <2> QED
    BY <1>2, <2>1 DEF OnTheWay, Current, OnScreen, Rows
<1>3. CASE filter' = filter /\ cache' = Invalidated /\ (Alone' => Alone)
  BY <1>3, InvalidationStep
<1>4. ASSUME NEW f \in Filters, ReadList(f)
      PROVE  OnTheWay' /\ Current' /\ OnScreen'
  BY <1>4, ReadingStep DEF ReadList, bounds, Alone
<1>5. ASSUME NEW f \in Filters, ListArrives(f)
      PROVE  OnTheWay' /\ Current' /\ OnScreen'
  BY <1>5, ArrivalStep DEF ListArrives, bounds, Alone
<1>6. ASSUME NEW f \in Filters, ChooseFilter(f)
      PROVE  OnTheWay' /\ Current' /\ OnScreen'
  BY <1>6, FilterStep DEF ChooseFilter, Alone
<1> QED
  BY <1>1, <1>2, <1>3, <1>4, <1>5, <1>6 DEF ListStep
-----------------------------------------------------------------------------
(* The theorems. *)

\* The page opens with its list under way and no dialog.
LEMMA IInvInit ==
  ASSUME Init
  PROVE  IInv
<1>1. cache \in [Filters -> Query] /\ \A f \in Filters : cache[f].data = None
  BY DEF Init, NoQuery, Query
<1>2. \A f \in Filters : cache[f].fetch = IF f = "all" THEN Sent ELSE None
  BY DEF Init, NoQuery
<1>3. TypeOK
  BY <1>1, ConstantsAssumption DEF Init, TypeOK, Mapping
<1>4. OnTheWay /\ Current /\ OnScreen
  BY <1>1, <1>2, ConstantsAssumption, NullAssumption DEF Init, OnTheWay, Current, OnScreen
<1> QED
  BY <1>3, <1>4 DEF Init, IInv, ItemsArePending, ReviewAsked, OneDialog, ReadIsCurrent

\* Every step keeps the inductive invariant.
LEMMA IInvStep ==
  ASSUME IInv, [Next]_vars
  PROVE  IInv'
BY TypeStep, ItemsStay, ReviewStays, OneDialogStep, ReadStays, ListsStep DEF IInv

\* The inductive invariant holds from the page opened to whatever comes.
THEOREM MappingPageInvariant == Spec => []IInv
BY IInvInit, IInvStep, PTL DEF Spec

\* Every variable of the page has its type.
THEOREM TypesOfMappingPage == Spec => []TypeOK
<1>1. IInv => TypeOK
  BY DEF IInv
<1> QED
  BY <1>1, MappingPageInvariant, PTL

\* With nobody else at work and no call lost, the page that waits for nothing
\* shows the tables, whatever filters were crossed and whatever was approved,
\* saved or generated meanwhile, or a list that was read before that, on its way
\* while its filter had none yet or was not on the screen.
THEOREM PageShowsTheTables == Spec => []ShownIsCurrent
<1>1. IInv => ShownIsCurrent
  BY DEF IInv, TypeOK, Alone, Current, OnScreen, Rows, ShownIsCurrent
<1> QED
  BY <1>1, MappingPageInvariant, PTL

\* The dialog of approval is never empty and holds only pending rows with a
\* suggestion: opened with a selection that outlives its list, it drops what
\* can no longer be approved.
THEOREM ApprovalsHoldPendingRows == Spec => []ItemsArePending
<1>1. IInv => ItemsArePending
  BY DEF IInv
<1> QED
  BY <1>1, MappingPageInvariant, PTL

\* The dialog of one account sends nothing it did not ask for: a confirmation
\* has an account, the replacement of a confirmed one and a rejection were
\* pressed twice, and only a pending suggestion is rejected.
THEOREM ReviewsAreAsked == Spec => []ReviewAsked
<1>1. IInv => ReviewAsked
  BY DEF IInv
<1> QED
  BY <1>1, MappingPageInvariant, PTL

\* A batch confirms only what the dialog showed and was pending when the API read
\* it, and a suggestion to be reviewed only if the dialog showed one, whatever a
\* generation left in the tables after the dialog was opened; and only a decision
\* that another user took since that reading is replaced.
THEOREM ApprovalsAreExplicit == Spec => ApprovalIsExplicit
<1>1. IInv /\ [Next]_vars =>
        [ApprovalDone \/ ApprovalFailed =>
           \A a \in Accounts : mapping'[a] # mapping[a] =>
             LET read == approval.read IN
             /\ a \in Chosen
             /\ mapping'[a] = [status |-> "confirmed", sii |-> read.primary[a].sii]
             /\ read.mapping[a].status = "pending"
             /\ mapping[a].status # "pending" => others > 0
             /\ read.primary[a].status = "review" =>
                  \E b \in Chosen : approval.items[b].suggestion.status = "review"]_vars
  <2> SUFFICES ASSUME IInv, ApprovalDone \/ ApprovalFailed,
                      NEW a \in Accounts, mapping'[a] # mapping[a]
               PROVE  LET read == approval.read IN
                      /\ a \in Chosen
                      /\ mapping'[a] = [status |-> "confirmed", sii |-> read.primary[a].sii]
                      /\ read.mapping[a].status = "pending"
                      /\ mapping[a].status # "pending" => others > 0
                      /\ read.primary[a].status = "review" =>
                           \E b \in Chosen : approval.items[b].suggestion.status = "review"
    OBVIOUS
  <2>1. /\ approval # None
        /\ ApproveBatch(Chosen, AllowReview(approval.items), approval.read)
    BY DEF ApprovalDone, ApprovalFailed, tables
  <2>2. /\ a \in Approved(Chosen, AllowReview(approval.items), approval.read)
        /\ approval.read # None
        /\ mapping'[a] = [status |-> "confirmed", sii |-> approval.read.primary[a].sii]
    BY <2>1 DEF ApproveBatch
  <2>3. a \in Chosen /\ approval.read.mapping[a].status = "pending"
    BY <2>2 DEF Approved
  <2>4. approval.read.primary[a].status = "review" =>
          \E b \in Chosen : approval.items[b].suggestion.status = "review"
    BY <2>2 DEF Approved, AllowReview, Chosen
  <2>5. mapping[a].status # "pending" => others > 0
    <3>1. others = 0 => approval.read.mapping = mapping
      BY <2>1, <2>2 DEF IInv, ReadIsCurrent
    <3>2. others \in Nat
      BY DEF IInv, TypeOK
    <3> QED
      BY <2>3, <3>1, <3>2
  <2> QED
    BY <2>2, <2>3, <2>4, <2>5
<1> QED
  BY <1>1, MappingPageInvariant, PTL DEF Spec, ApprovalIsExplicit
=============================================================================
