------------------------ MODULE AccountMappingsProofs ------------------------
(***************************************************************************)
(* Proofs about AccountMappings, for any accounts, requests and outcomes.  *)
(*                                                                         *)
(* The argument: every transaction either rewrites the status of existing  *)
(* suggestions or adds the rows of a new generation (Follows), what a      *)
(* request saw is still there under the same key (Seen), and the number of *)
(* the last commit bounds what was written (Dated).                        *)
(*                                                                         *)
(* The second half is about SuggestionEngine, the engines that read what   *)
(* was decided: a generation looks at candidates that are compatible and   *)
(* come once each, and the one that is ahead of all the others is the same *)
(* in any order of the catalogue.                                          *)
(*                                                                         *)
(* The last part is about the ranking: all its points are whole numbers    *)
(* (ReasonsTyped, TotalIsInteger), those that take part are finitely many  *)
(* (RanksTyped), so the first five of the sorted list are ahead of all the *)
(* others (EligibleAre, TopIs), and what is written passed the filters     *)
(* (RankInv).                                                              *)
(***************************************************************************)
EXTENDS AccountMappings, SuggestionEngine, FiniteSetTheorems, WellFoundedInduction, TLAPS

(* A suggestion is identified by its account, generation and rank.         *)
Keyed == \A x, y \in suggestions : SameRow(x, y) => x = y

(* Nothing written is newer than the last commit.                          *)
Dated == /\ \A x \in suggestions : x.generation <= clock
         /\ \A h \in history : h.at <= clock

(* The rows of a snapshot are still in their tables.                       *)
Seen == \A r \in Requests :
          /\ \A y \in req[r].primary : \E x \in suggestions : SameRow(x, y) /\ x.sii = y.sii
          /\ req[r].evidence \subseteq Confirmations

Inv == /\ TypeOK
       /\ Keyed
       /\ Dated
       /\ Seen
       /\ OpenIsNewest
       /\ AcceptedIsConfirmed
       /\ LatestIsLearned

(* y is the row x, unchanged if it is still open.                          *)
Follows(y, x) == /\ SameRow(x, y)
                 /\ x.sii = y.sii
                 /\ Open(y) => y = x

(* Everything in S is followed in T.                                       *)
Followed(S, T) == \A x \in S : \E y \in T : Follows(y, x)

-----------------------------------------------------------------------------
(* How the operators rewrite suggestions                                   *)

(* Retiring keeps every row and closes those of the accounts retired.      *)
LEMMA RetiredRows ==
  ASSUME suggestions \subseteq Suggestion, NEW targets
  PROVE  /\ Retired(targets) \subseteq Suggestion
         /\ Followed(suggestions, Retired(targets))
         /\ \A y \in Retired(targets) : \E x \in suggestions :
              /\ Follows(y, x)
              /\ Open(y) => y.account \notin targets
              /\ y.status = "accepted" => y = x
<1> DEFINE f(x) == IF Open(x) /\ x.account \in targets
                     THEN [x EXCEPT !.status = "superseded"] ELSE x
<1>1. Retired(targets) = {f(x) : x \in suggestions}
  BY DEF Retired
<1>2. ASSUME NEW x \in suggestions
      PROVE  /\ f(x) \in Suggestion
             /\ Follows(f(x), x)
             /\ Open(f(x)) => f(x).account \notin targets
             /\ f(x).status = "accepted" => f(x) = x
  <2>1. x \in Suggestion
    OBVIOUS
  <2>2. CASE Open(x) /\ x.account \in targets
    <3>1. f(x) = [x EXCEPT !.status = "superseded"]
      BY <2>2
    <3> QED
      BY <2>1, <3>1 DEF Suggestion, SuggestionStatuses, Follows, SameRow, Open
  <2>3. CASE ~(Open(x) /\ x.account \in targets)
    <3>1. f(x) = x
      BY <2>3
    <3> QED
      BY <2>1, <2>3, <3>1 DEF Follows, SameRow
  <2> QED
    BY <2>2, <2>3
<1> HIDE DEF f
<1> QED
  BY <1>1, <1>2 DEF Followed

(* Reviewing keeps every row, and accepts only what the request confirms.  *)
LEMMA ReviewedRows ==
  ASSUME TypeOK, NEW r \in Requests
  PROVE  /\ Reviewed(r) \subseteq Suggestion
         /\ Followed(suggestions, Reviewed(r))
         /\ \A y \in Reviewed(r) : \E x \in suggestions :
              /\ Follows(y, x)
              /\ y.status = ReviewedStatus(r, x)
              /\ y.status = "accepted" =>
                   y = x \/ (Reviews(r, x) /\ x.sii = req[r].confirms[x.account])
<1> DEFINE f(x) == [x EXCEPT !.status = ReviewedStatus(r, x)]
<1>1. Reviewed(r) = {f(x) : x \in suggestions}
  BY DEF Reviewed
<1>2. ASSUME NEW x \in suggestions
      PROVE  /\ f(x) \in Suggestion
             /\ Follows(f(x), x)
             /\ f(x).status = ReviewedStatus(r, x)
             /\ f(x).status = "accepted" =>
                  f(x) = x \/ (Reviews(r, x) /\ x.sii = req[r].confirms[x.account])
  <2>1. x \in Suggestion
    BY DEF TypeOK
  <2>2. ReviewedStatus(r, x) \in {"accepted", "rejected", "superseded", x.status}
    BY DEF ReviewedStatus
  <2>3. /\ ReviewedStatus(r, x) = "accepted" =>
             x.status = "accepted" \/ (Reviews(r, x) /\ x.sii = req[r].confirms[x.account])
    BY DEF ReviewedStatus
  <2>4. /\ f(x) \in Suggestion
        /\ f(x).status = ReviewedStatus(r, x)
        /\ SameRow(x, f(x)) /\ x.sii = f(x).sii
        /\ f(x).status = x.status => f(x) = x
    BY <2>1, <2>2 DEF Suggestion, SuggestionStatuses, SameRow
  <2>5. Open(f(x)) => f(x).status = x.status
    BY <2>2, <2>4 DEF Open
  <2> HIDE DEF f
  <2> QED
    BY <2>3, <2>4, <2>5 DEF Follows
<1> HIDE DEF f
<1> QED
  BY <1>1, <1>2 DEF Followed

(* A generation has rows of its own, of the accounts it was made for.      *)
LEMMA GeneratedRows ==
  ASSUME clock \in Nat, NEW targets \in SUBSET Accounts,
         NEW outcome \in [targets -> Outcomes]
  PROVE  /\ Generated(targets, outcome) \subseteq Suggestion
         /\ \A x \in Generated(targets, outcome) :
              x.account \in targets /\ x.generation = clock + 1 /\ x.status # "accepted"
         /\ \A x, y \in Generated(targets, outcome) : SameRow(x, y) => x = y
<1> DEFINE written(a, c) == [account |-> a, generation |-> clock + 1, rank |-> c.rank,
                         sii |-> c.sii, status |-> c.status]
<1>1. \A x \in Generated(targets, outcome) :
        \E a \in targets : \E c \in outcome[a] : x = written(a, c)
  BY DEF Generated
<1>2. \A a \in targets : outcome[a] \in Outcomes
  OBVIOUS
<1>3. \A a \in targets : \A c \in outcome[a] :
        /\ c \in Candidate
        /\ \A d \in outcome[a] : c.rank = d.rank => c = d
  BY <1>2, ConstantsAssumption
<1>4. \A a \in targets : \A c \in outcome[a] : written(a, c) \in Suggestion
  BY <1>3 DEF Candidate, Suggestion, SuggestionStatuses
<1>5. \A a \in targets : \A c \in outcome[a] :
        /\ written(a, c).account = a /\ written(a, c).generation = clock + 1
        /\ written(a, c).rank = c.rank /\ written(a, c).status = c.status
        /\ c.status # "accepted"
  BY <1>3 DEF Candidate
<1> HIDE DEF written
<1>6. \A x, y \in Generated(targets, outcome) : SameRow(x, y) => x = y
  <2> SUFFICES ASSUME NEW x \in Generated(targets, outcome),
                      NEW y \in Generated(targets, outcome), SameRow(x, y)
               PROVE  x = y
    OBVIOUS
  <2>1. PICK a \in targets : \E c \in outcome[a] : x = written(a, c)
    BY <1>1
  <2>2. PICK c \in outcome[a] : x = written(a, c)
    BY <2>1
  <2>3. PICK b \in targets : \E d \in outcome[b] : y = written(b, d)
    BY <1>1
  <2>4. PICK d \in outcome[b] : y = written(b, d)
    BY <2>3
  <2>5. a = b /\ c.rank = d.rank
    BY <1>5, <2>2, <2>4 DEF SameRow
  <2> QED
    BY <1>3, <2>2, <2>4, <2>5
<1> QED
  BY <1>1, <1>4, <1>5, <1>6

-----------------------------------------------------------------------------
(* Typing                                                                  *)

(* A request that is not there is a request.                               *)
LEMMA IdleTyped == IdleRequest \in Request
BY DEF IdleRequest, Request, Undecided, Mapping, MappingStatuses

(* A snapshot holds suggestions and decisions of the tables, typed.        *)
LEMMA SnapshotTyped ==
  ASSUME TypeOK, NEW r \in Requests, NEW pc \in {"updating", "approving"},
         NEW confirms \in [Accounts -> Sii \cup {None}], NEW rejects \in SUBSET Accounts,
         Snapshot(r, pc, confirms, rejects)
  PROVE  req' \in [Requests -> Request]
<1> DEFINE q == [IdleRequest EXCEPT !.pc = pc, !.confirms = confirms, !.rejects = rejects,
                                    !.before = mapping, !.primary = Primaries,
                                    !.evidence = Confirmations]
<1>1. Primaries \in SUBSET Suggestion /\ Confirmations \in SUBSET Decision
  BY DEF TypeOK, Primaries, Confirmations
<1>2. q \in Request
  BY <1>1, IdleTyped DEF Request, TypeOK
<1> HIDE DEF q
<1>3. req' = [req EXCEPT ![r] = q]
  BY DEF Snapshot, q
<1> QED
  BY <1>2, <1>3 DEF TypeOK

(* What a snapshot holds, request by request.                              *)
LEMMA SnapshotContents ==
  ASSUME TypeOK, NEW r \in Requests, NEW pc, NEW confirms, NEW rejects,
         Snapshot(r, pc, confirms, rejects)
  PROVE  /\ req'[r].primary = Primaries
         /\ req'[r].evidence = Confirmations
         /\ \A q \in Requests \ {r} : req'[q] = req[q]
BY DEF Snapshot, TypeOK, IdleRequest

(* A request that ends holds nothing, and the others are left alone.       *)
LEMMA FinishTyped ==
  ASSUME TypeOK, NEW r \in Requests, Finish(r)
  PROVE  /\ req' \in [Requests -> Request]
         /\ req'[r].primary = {} /\ req'[r].evidence = {}
         /\ \A q \in Requests \ {r} : req'[q] = req[q]
<1>1. req' = [req EXCEPT ![r] = IdleRequest]
  BY DEF Finish
<1> QED
  BY <1>1, IdleTyped DEF TypeOK, IdleRequest

(* The rows a decision writes to the history.                              *)
LEMMA DecisionsTyped ==
  ASSUME TypeOK, NEW r \in Requests
  PROVE  /\ NewDecisions(r) \subseteq Decision
         /\ \A h \in NewDecisions(r) : h.at = clock + 1
         /\ \A a \in Confirmed(r) : \E h \in NewDecisions(r) :
              h.account = a /\ h.sii = req[r].confirms[a] /\ h.status = "confirmed"
         /\ Confirmed(r) = {} => \A h \in NewDecisions(r) : h.status # "confirmed"
<1> DEFINE written(a) == [account |-> a, sii |-> Entity(r, a).sii,
                      status |-> Entity(r, a).status, at |-> clock + 1]
<1>1. req[r] \in Request /\ clock \in Nat
  BY DEF TypeOK
<1>2. Confirmed(r) \subseteq Accounts /\ Decided(r) \subseteq Accounts
  BY <1>1 DEF Confirmed, Decided, Request
<1>3. \A a \in Accounts :
        /\ Entity(r, a).sii \in Sii \cup {None}
        /\ Entity(r, a).status \in {"confirmed", "rejected"}
        /\ a \in Confirmed(r) => /\ Entity(r, a).sii = req[r].confirms[a]
                                 /\ Entity(r, a).status = "confirmed"
        /\ a \notin Confirmed(r) => Entity(r, a).status = "rejected"
  BY <1>1 DEF Entity, Request, Mapping
<1>4. NewDecisions(r) = {written(a) : a \in Decided(r)}
  BY DEF NewDecisions
<1>5. \A a \in Decided(r) :
        /\ written(a) \in Decision
        /\ written(a).account = a /\ written(a).at = clock + 1
        /\ written(a).sii = Entity(r, a).sii /\ written(a).status = Entity(r, a).status
  BY <1>1, <1>2, <1>3 DEF Decision
<1>6. Confirmed(r) \subseteq Decided(r)
  BY DEF Decided
<1> HIDE DEF written
<1> QED
  BY <1>2, <1>3, <1>4, <1>5, <1>6

(* What a decision saves over the mappings is a table of mappings.         *)
LEMMA SavedTyped ==
  ASSUME TypeOK, NEW r \in Requests
  PROVE  SavedMapping(r) \in [Accounts -> Mapping]
<1>1. req[r] \in Request
  BY DEF TypeOK
<1>2. \A a \in Accounts : Entity(r, a) \in Mapping /\ req[r].before[a] \in Mapping
                         /\ mapping[a] \in Mapping
  BY <1>1 DEF Entity, Request, Mapping, MappingStatuses, TypeOK
<1>3. \A e, b, m \in Mapping : Saved(e, b, m) \in Mapping
  BY DEF Saved, Mapping
<1> QED
  BY <1>2, <1>3 DEF SavedMapping

-----------------------------------------------------------------------------
(* The invariant, one lemma per kind of step                               *)

(* The initial states.                                                     *)
LEMMA InitInv == Init => Inv
<1> SUFFICES ASSUME Init PROVE Inv
  OBVIOUS
<1>1. TypeOK
  BY IdleTyped, ConstantsAssumption DEF Init, TypeOK, Mapping, MappingStatuses
<1>2. Keyed /\ Dated /\ OpenIsNewest /\ AcceptedIsConfirmed /\ LatestIsLearned
  BY DEF Init, Keyed, Dated, OpenIsNewest, AcceptedIsConfirmed, LatestIsLearned, Confirmations
<1>3. Seen
  BY DEF Init, Seen, IdleRequest
<1> QED
  BY <1>1, <1>2, <1>3 DEF Inv

(* Steps that touch no table and see at most what is there.                *)
LEMMA ReadingInv ==
  ASSUME Inv, req' \in [Requests -> Request], NEW r \in Requests,
         \A q \in Requests \ {r} : req'[q] = req[q],
         req'[r].primary \subseteq suggestions, req'[r].evidence \subseteq Confirmations,
         UNCHANGED <<mapping, suggestions, history, learned, clock>>
  PROVE  Inv'
<1>1. TypeOK'
  BY DEF Inv, TypeOK
<1>2. Keyed' /\ Dated' /\ OpenIsNewest' /\ AcceptedIsConfirmed' /\ LatestIsLearned'
  BY DEF Inv, Keyed, Dated, OpenIsNewest, AcceptedIsConfirmed, LatestIsLearned, Confirmations
<1>3. Seen'
  BY DEF Inv, Seen, SameRow, Confirmations
<1> QED
  BY <1>1, <1>2, <1>3 DEF Inv

(* A request that begins from what it reads keeps the invariant.           *)
LEMMA SnapshotInv ==
  ASSUME Inv, NEW r \in Requests, NEW pc \in {"updating", "approving"},
         NEW confirms \in [Accounts -> Sii \cup {None}], NEW rejects \in SUBSET Accounts,
         Snapshot(r, pc, confirms, rejects),
         UNCHANGED <<mapping, suggestions, history, learned, clock>>
  PROVE  Inv'
<1>1. TypeOK
  BY DEF Inv
<1>2. req' \in [Requests -> Request]
  BY <1>1, SnapshotTyped
<1>3. /\ req'[r].primary \subseteq suggestions
      /\ req'[r].evidence \subseteq Confirmations
      /\ \A q \in Requests \ {r} : req'[q] = req[q]
  BY <1>1, SnapshotContents DEF Primaries
<1> QED
  BY <1>2, <1>3, ReadingInv

(* The decision on one mapping begins.                                     *)
LEMMA BeginUpdateInv ==
  ASSUME Inv, NEW r \in Requests, NEW a \in Accounts, BeginUpdate(r, a) PROVE Inv'
<1>1. CASE \E s \in Sii : Snapshot(r, "updating", [b \in Accounts |-> IF b = a THEN s ELSE None], {})
  <2>1. PICK s \in Sii : Snapshot(r, "updating", [b \in Accounts |-> IF b = a THEN s ELSE None], {})
    BY <1>1
  <2>2. [b \in Accounts |-> IF b = a THEN s ELSE None] \in [Accounts -> Sii \cup {None}]
    OBVIOUS
  <2> QED
    BY <2>1, <2>2, SnapshotInv DEF BeginUpdate
<1>2. CASE Snapshot(r, "updating", [b \in Accounts |-> None], {a})
  <2>1. [b \in Accounts |-> None] \in [Accounts -> Sii \cup {None}] /\ {a} \in SUBSET Accounts
    OBVIOUS
  <2> QED
    BY <1>2, <2>1, SnapshotInv DEF BeginUpdate
<1> QED
  BY <1>1, <1>2 DEF BeginUpdate

(* The approval of a batch begins.                                         *)
LEMMA BeginBatchInv ==
  ASSUME Inv, NEW r \in Requests, NEW batch \in SUBSET Accounts, NEW allowReview \in BOOLEAN,
         BeginBatch(r, batch, allowReview)
  PROVE  Inv'
<1>1. PICK confirms \in [Accounts -> Sii \cup {None}] : Snapshot(r, "approving", confirms, {})
  BY DEF BeginBatch
<1>2. {} \in SUBSET Accounts
  OBVIOUS
<1> QED
  BY <1>1, <1>2, SnapshotInv DEF BeginBatch

(* A request that ends or reads contexts holds nothing of the tables.      *)
LEMMA RollbackInv == ASSUME Inv, NEW r \in Requests, Rollback(r) PROVE Inv'
<1>1. TypeOK
  BY DEF Inv
<1> QED
  BY <1>1, FinishTyped, ReadingInv DEF Rollback

(* A generation reads the accounts it is for.                              *)
LEMMA ReadContextsInv ==
  ASSUME Inv, NEW r \in Requests, NEW balance \in SUBSET Accounts, ReadContexts(r, balance)
  PROVE  Inv'
<1> DEFINE targets == {a \in balance : ~(/\ mapping[a].status = "confirmed"
                                        /\ mapping[a].sii # None)}
           q == [IdleRequest EXCEPT !.pc = "generating", !.targets = targets]
<1>1. req' = [req EXCEPT ![r] = q]
  BY DEF ReadContexts
<1>2. targets \in SUBSET Accounts
  OBVIOUS
<1> HIDE DEF targets
<1>3. q \in Request /\ q.primary = {} /\ q.evidence = {}
  BY <1>2, IdleTyped DEF Request, IdleRequest
<1> HIDE DEF q
<1>4. req' \in [Requests -> Request] /\ req'[r] = q
      /\ \A p \in Requests \ {r} : req'[p] = req[p]
  BY <1>1, <1>3 DEF Inv, TypeOK
<1> QED
  BY <1>3, <1>4, ReadingInv DEF ReadContexts

(* What a rewriting of the suggestions preserves: it keeps every row, and  *)
(* all it holds are rows that were there.                                  *)
LEMMA RewrittenRows ==
  ASSUME Inv, NEW T, Followed(suggestions, T), \A y \in T : \E x \in suggestions : Follows(y, x),
         \A y, z \in T : SameRow(y, z) => y = z
  PROVE  /\ \A y \in T : y.generation <= clock
         /\ \A y, z \in T : Open(y) /\ y.account = z.account => z.generation <= y.generation
         /\ \A y : (\E x \in suggestions : SameRow(x, y) /\ x.sii = y.sii)
              => \E x \in T : SameRow(x, y) /\ x.sii = y.sii
<1>1. \A y \in T : y.generation <= clock
  BY DEF Follows, SameRow, Inv, Dated
<1>2. ASSUME NEW y \in T, NEW z \in T, Open(y), y.account = z.account
      PROVE  z.generation <= y.generation
  <2>1. y \in suggestions
    BY <1>2 DEF Follows
  <2>2. PICK x \in suggestions : Follows(z, x)
    OBVIOUS
  <2>3. x.account = z.account /\ x.generation = z.generation
    BY <2>2 DEF Follows, SameRow
  <2> QED
    BY <1>2, <2>1, <2>3 DEF Inv, OpenIsNewest
<1>3. \A y : (\E x \in suggestions : SameRow(x, y) /\ x.sii = y.sii)
        => \E x \in T : SameRow(x, y) /\ x.sii = y.sii
  BY DEF Followed, Follows, SameRow
<1> QED
  BY <1>1, <1>2, <1>3

(* A set of rows that follow those of the table has no row twice when each *)
(* is the image of a row.                                                  *)
LEMMA RetiredKeyed ==
  ASSUME Inv, NEW targets
  PROVE  \A y, z \in Retired(targets) : SameRow(y, z) => y = z
<1> DEFINE f(x) == IF Open(x) /\ x.account \in targets
                     THEN [x EXCEPT !.status = "superseded"] ELSE x
<1>1. Retired(targets) = {f(x) : x \in suggestions}
  BY DEF Retired
<1>2. \A x \in suggestions : SameRow(f(x), x)
  BY DEF Inv, TypeOK, Suggestion, SameRow
<1> HIDE DEF f
<1> QED
  BY <1>1, <1>2 DEF Inv, Keyed, SameRow

(* The review of a decision keeps one suggestion per row.                  *)
LEMMA ReviewedKeyed ==
  ASSUME Inv, NEW r \in Requests
  PROVE  \A y, z \in Reviewed(r) : SameRow(y, z) => y = z
<1> DEFINE f(x) == [x EXCEPT !.status = ReviewedStatus(r, x)]
<1>1. Reviewed(r) = {f(x) : x \in suggestions}
  BY DEF Reviewed
<1>2. \A x \in suggestions : SameRow(f(x), x)
  BY DEF Inv, TypeOK, Suggestion, SameRow
<1> HIDE DEF f
<1> QED
  BY <1>1, <1>2 DEF Inv, Keyed, SameRow

(* A commit is one tick of the clock.                                      *)
LEMMA CommitTyped ==
  ASSUME TypeOK, Commit
  PROVE  clock \in Nat /\ clock' = clock + 1 /\ clock' \in 0..MaxCommits
BY ConstantsAssumption DEF TypeOK, Commit

(* A decision commits: mappings, suggestions, history and what is learned of it. *)
LEMMA CommitDecisionInv ==
  ASSUME Inv, NEW r \in Requests, CommitDecision(r)
  PROVE  Inv'
<1>1. TypeOK /\ Commit /\ Finish(r)
  BY DEF Inv, CommitDecision
<1>2. clock \in Nat /\ clock' = clock + 1 /\ clock' \in 0..MaxCommits
  BY <1>1, CommitTyped
<1>3. /\ suggestions' \subseteq Suggestion
      /\ Followed(suggestions, suggestions')
      /\ \A y \in suggestions' : \E x \in suggestions :
           /\ Follows(y, x)
           /\ y.status = "accepted" =>
                y = x \/ (Reviews(r, x) /\ x.sii = req[r].confirms[x.account])
  BY <1>1, ReviewedRows DEF CommitDecision
<1>4. Keyed'
  BY ReviewedKeyed DEF CommitDecision, Keyed, SameRow
<1>5. /\ \A y \in suggestions' : y.generation <= clock
      /\ \A y, z \in suggestions' : Open(y) /\ y.account = z.account => z.generation <= y.generation
      /\ \A y : (\E x \in suggestions : SameRow(x, y) /\ x.sii = y.sii)
           => \E x \in suggestions' : SameRow(x, y) /\ x.sii = y.sii
  BY <1>3, ReviewedKeyed, RewrittenRows DEF CommitDecision
<1>6. /\ NewDecisions(r) \subseteq Decision
      /\ \A h \in NewDecisions(r) : h.at = clock + 1
      /\ \A a \in Confirmed(r) : \E h \in NewDecisions(r) :
           h.account = a /\ h.sii = req[r].confirms[a] /\ h.status = "confirmed"
      /\ Confirmed(r) = {} => \A h \in NewDecisions(r) : h.status # "confirmed"
  BY <1>1, DecisionsTyped
<1>7. /\ req' \in [Requests -> Request]
      /\ req'[r].primary = {} /\ req'[r].evidence = {}
      /\ \A q \in Requests \ {r} : req'[q] = req[q]
  BY <1>1, FinishTyped
<1>8. history' = history \cup NewDecisions(r) /\ learned' = Rebuilt(r)
  BY DEF CommitDecision
<1>9. req[r].evidence \subseteq Confirmations
  BY DEF Inv, Seen
<1>10. TypeOK'
  <2>1. mapping' \in [Accounts -> Mapping]
    BY <1>1, SavedTyped DEF CommitDecision
  <2>2. learned' \subseteq Decision
    BY <1>1, <1>6, <1>8, <1>9 DEF Rebuilt, TypeOK, Confirmations
  <2> QED
    BY <1>1, <1>2, <1>3, <1>6, <1>7, <1>8, <2>1, <2>2 DEF TypeOK
<1>11. Dated'
  <2>1. \A y \in suggestions' : y.generation <= clock'
    BY <1>2, <1>3, <1>5 DEF Suggestion
  <2>2. \A h \in history' : h.at <= clock'
    BY <1>1, <1>2, <1>6, <1>8 DEF Inv, Dated, TypeOK, Decision
  <2> QED
    BY <2>1, <2>2 DEF Dated
<1>12. Seen'
  <2>1. Confirmations \subseteq Confirmations'
    BY <1>8 DEF Confirmations
  <2>2. ASSUME NEW q \in Requests, q # r
        PROVE  /\ \A y \in req'[q].primary : \E x \in suggestions' : SameRow(x, y) /\ x.sii = y.sii
               /\ req'[q].evidence \subseteq Confirmations'
    BY <1>5, <1>7, <2>1, <2>2 DEF Inv, Seen
  <2> QED
    BY <1>7, <2>2 DEF Seen, SameRow
<1>13. OpenIsNewest'
  BY <1>5 DEF OpenIsNewest, Open
<1>14. AcceptedIsConfirmed'
  <2> SUFFICES ASSUME NEW y \in suggestions', y.status = "accepted"
               PROVE  \E h \in history' : h.account = y.account /\ h.sii = y.sii
                                          /\ h.status = "confirmed"
    BY DEF AcceptedIsConfirmed
  <2>1. PICK x \in suggestions : /\ Follows(y, x)
                                 /\ y = x \/ (Reviews(r, x) /\ x.sii = req[r].confirms[x.account])
    BY <1>3
  <2>2. CASE y = x
    BY <1>8, <2>2 DEF Inv, AcceptedIsConfirmed
  <2>3. CASE Reviews(r, x) /\ x.sii = req[r].confirms[x.account]
    <3>1. x.sii \in Sii /\ x.account \in Accounts
      BY <1>1 DEF TypeOK, Suggestion
    <3>2. x.account \in Confirmed(r)
      BY <2>3, <3>1, ConstantsAssumption DEF Confirmed
    <3> QED
      BY <1>6, <1>8, <2>1, <2>3, <3>2 DEF Follows, SameRow
  <2> QED
    BY <2>1, <2>2, <2>3
<1>15. LatestIsLearned'
  <2>1. CASE Confirmed(r) = {}
    <3>1. Confirmations' = Confirmations /\ learned' = learned
      BY <1>6, <1>8, <2>1 DEF Confirmations, Rebuilt
    <3> QED
      BY <3>1 DEF Inv, LatestIsLearned
  <2>2. CASE Confirmed(r) # {}
    <3>1. learned' = req[r].evidence \cup {h \in NewDecisions(r) : h.status = "confirmed"}
      BY <1>8, <2>2 DEF Rebuilt
    <3>2. Confirmations' = Confirmations \cup {h \in NewDecisions(r) : h.status = "confirmed"}
      BY <1>8 DEF Confirmations
    <3>3. PICK d \in NewDecisions(r) : d.status = "confirmed"
      BY <1>6, <2>2
    <3>4. d \in learned' /\ d.at = clock + 1
      BY <1>6, <3>1, <3>3
    <3>5. \A c \in Confirmations : d.at > c.at
      BY <1>1, <1>2, <3>4 DEF Inv, Dated, Confirmations, TypeOK, Decision
    <3>6. learned' \subseteq Confirmations'
      BY <1>9, <3>1, <3>2
    <3> QED
      BY <3>1, <3>2, <3>4, <3>5, <3>6 DEF LatestIsLearned
  <2> QED
    BY <2>1, <2>2
<1> QED
  BY <1>4, <1>10, <1>11, <1>12, <1>13, <1>14, <1>15 DEF Inv

(* A generation commits: it retires and writes suggestions.                *)
LEMMA CommitGenerationInv ==
  ASSUME Inv, NEW r \in Requests, CommitGeneration(r)
  PROVE  Inv'
<1> DEFINE targets == req[r].targets
<1>1. TypeOK /\ Commit /\ Finish(r) /\ UNCHANGED <<mapping, history, learned>>
  BY DEF Inv, CommitGeneration
<1>2. clock \in Nat /\ clock' = clock + 1 /\ clock' \in 0..MaxCommits
  BY <1>1, CommitTyped
<1>3. targets \in SUBSET Accounts
  BY <1>1 DEF TypeOK, Request
<1> HIDE DEF targets
<1>4. PICK outcome \in [targets -> Outcomes] :
        suggestions' = Retired(targets) \cup Generated(targets, outcome)
  BY DEF CommitGeneration, targets
<1> DEFINE old == Retired(targets)
           new == Generated(targets, outcome)
<1>5. /\ old \subseteq Suggestion
      /\ Followed(suggestions, old)
      /\ \A y \in old : \E x \in suggestions :
           /\ Follows(y, x)
           /\ Open(y) => y.account \notin targets
           /\ y.status = "accepted" => y = x
  BY <1>1, RetiredRows DEF TypeOK
<1>6. \A y, z \in old : SameRow(y, z) => y = z
  BY RetiredKeyed
<1>7. /\ \A y \in old : y.generation <= clock
      /\ \A y, z \in old : Open(y) /\ y.account = z.account => z.generation <= y.generation
      /\ \A y : (\E x \in suggestions : SameRow(x, y) /\ x.sii = y.sii)
           => \E x \in old : SameRow(x, y) /\ x.sii = y.sii
  <2> HIDE DEF old
  <2> QED
    BY <1>5, <1>6, RewrittenRows
<1>8. /\ new \subseteq Suggestion
      /\ \A x \in new : x.account \in targets /\ x.generation = clock + 1 /\ x.status # "accepted"
      /\ \A x, y \in new : SameRow(x, y) => x = y
  BY <1>2, <1>3, GeneratedRows
<1>9. suggestions' = old \cup new
  BY <1>4
<1> HIDE DEF old, new
<1>10. \A y \in old : y.generation \in Nat
  BY <1>5 DEF Suggestion
<1>11. /\ req' \in [Requests -> Request]
       /\ req'[r].primary = {} /\ req'[r].evidence = {}
       /\ \A q \in Requests \ {r} : req'[q] = req[q]
  BY <1>1, FinishTyped
<1>12. Confirmations' = Confirmations
  BY <1>1 DEF Confirmations
<1>13. TypeOK'
  BY <1>1, <1>2, <1>5, <1>8, <1>9, <1>11 DEF TypeOK
<1>14. Keyed'
  <2>1. \A x \in old, y \in new : ~SameRow(x, y) /\ ~SameRow(y, x)
    BY <1>2, <1>7, <1>8, <1>10 DEF SameRow
  <2> QED
    BY <1>6, <1>8, <1>9, <2>1 DEF Keyed, SameRow
<1>15. Dated'
  <2>1. \A x \in suggestions' : x.generation <= clock'
    BY <1>2, <1>7, <1>8, <1>9, <1>10
  <2>2. \A h \in history' : h.at <= clock'
    BY <1>1, <1>2 DEF Inv, Dated, TypeOK, Decision
  <2> QED
    BY <2>1, <2>2 DEF Dated
<1>16. Seen'
  <2>1. ASSUME NEW q \in Requests, q # r
        PROVE  /\ \A y \in req'[q].primary : \E x \in suggestions' : SameRow(x, y) /\ x.sii = y.sii
               /\ req'[q].evidence \subseteq Confirmations'
    BY <1>7, <1>9, <1>11, <1>12, <2>1 DEF Inv, Seen
  <2> QED
    BY <1>11, <2>1 DEF Seen, SameRow
<1>17. OpenIsNewest'
  <2> SUFFICES ASSUME NEW x \in suggestions', NEW y \in suggestions',
                      Open(x), x.account = y.account
               PROVE  y.generation <= x.generation
    BY DEF OpenIsNewest, Open
  <2>1. CASE x \in old
    BY <1>5, <1>7, <1>8, <1>9, <2>1
  <2>2. CASE x \in new
    BY <1>2, <1>7, <1>8, <1>9, <1>10, <2>2
  <2> QED
    BY <1>9, <2>1, <2>2
<1>18. AcceptedIsConfirmed'
  BY <1>1, <1>5, <1>8, <1>9 DEF Inv, AcceptedIsConfirmed
<1>19. LatestIsLearned'
  BY <1>1, <1>12 DEF Inv, LatestIsLearned
<1> QED
  BY <1>13, <1>14, <1>15, <1>16, <1>17, <1>18, <1>19 DEF Inv

(* A document is discarded: the suggestions of the accounts it takes away are retired. *)
LEMMA DiscardInv ==
  ASSUME Inv, NEW gone \in SUBSET Accounts, Discard(gone)
  PROVE  Inv'
<1>1. TypeOK /\ Commit /\ suggestions' = Retired(gone)
      /\ UNCHANGED <<mapping, history, learned, req>>
  BY DEF Inv, Discard
<1>2. clock \in Nat /\ clock' = clock + 1 /\ clock' \in 0..MaxCommits
  BY <1>1, CommitTyped
<1>3. /\ suggestions' \subseteq Suggestion
      /\ Followed(suggestions, suggestions')
      /\ \A y \in suggestions' : \E x \in suggestions :
           Follows(y, x) /\ (y.status = "accepted" => y = x)
  BY <1>1, RetiredRows DEF TypeOK
<1>4. \A y, z \in suggestions' : SameRow(y, z) => y = z
  BY <1>1, RetiredKeyed
<1>5. /\ \A y \in suggestions' : y.generation <= clock
      /\ \A y, z \in suggestions' : Open(y) /\ y.account = z.account => z.generation <= y.generation
      /\ \A y : (\E x \in suggestions : SameRow(x, y) /\ x.sii = y.sii)
           => \E x \in suggestions' : SameRow(x, y) /\ x.sii = y.sii
  BY <1>3, <1>4, RewrittenRows
<1>6. TypeOK'
  BY <1>1, <1>2, <1>3 DEF TypeOK
<1>7. Dated'
  BY <1>1, <1>2, <1>3, <1>5 DEF Inv, Dated, TypeOK, Suggestion, Decision
<1>8. Confirmations' = Confirmations
  BY <1>1 DEF Confirmations
<1>9. Seen'
  BY <1>1, <1>5, <1>8 DEF Inv, Seen
<1>10. Keyed' /\ OpenIsNewest'
  BY <1>4, <1>5 DEF Keyed, OpenIsNewest, SameRow, Open
<1>11. AcceptedIsConfirmed' /\ LatestIsLearned'
  BY <1>1, <1>3, <1>8 DEF Inv, AcceptedIsConfirmed, LatestIsLearned
<1> QED
  BY <1>6, <1>7, <1>9, <1>10, <1>11 DEF Inv

(* The review of a plan proposes a mapping.                                *)
LEMMA PlanReviewInv ==
  ASSUME Inv, NEW a \in Accounts, PlanReview(a)
  PROVE  Inv'
<1>1. TypeOK /\ Commit /\ UNCHANGED <<suggestions, history, learned, req>>
  BY DEF Inv, PlanReview
<1>2. clock \in Nat /\ clock' = clock + 1 /\ clock' \in 0..MaxCommits
  BY <1>1, CommitTyped
<1>3. PICK s \in Sii \cup {None}, status \in {"confirmed", "rejected", "unmapped"} :
        mapping' = [mapping EXCEPT ![a] = [sii |-> s, status |-> status]]
  BY DEF PlanReview
<1>4. [sii |-> s, status |-> status] \in Mapping
  BY DEF Mapping, MappingStatuses
<1>5. TypeOK'
  BY <1>1, <1>2, <1>3, <1>4 DEF TypeOK
<1>6. Dated'
  BY <1>1, <1>2 DEF Inv, Dated, TypeOK, Suggestion, Decision
<1>7. Keyed' /\ Seen' /\ OpenIsNewest' /\ AcceptedIsConfirmed' /\ LatestIsLearned'
  BY <1>1 DEF Inv, Keyed, Seen, OpenIsNewest, AcceptedIsConfirmed, LatestIsLearned, Confirmations
<1> QED
  BY <1>5, <1>6, <1>7 DEF Inv

(* Every step keeps the invariant.                                         *)
LEMMA NextInv == Inv /\ [Next]_vars => Inv'
<1> SUFFICES ASSUME Inv, [Next]_vars PROVE Inv'
  OBVIOUS
<1>1. ASSUME NEW r \in Requests, NEW a \in Accounts, BeginUpdate(r, a) PROVE Inv'
  BY <1>1, BeginUpdateInv
<1>2. ASSUME NEW r \in Requests, NEW batch \in SUBSET Accounts, NEW allowReview \in BOOLEAN,
             BeginBatch(r, batch, allowReview)
      PROVE  Inv'
  BY <1>2, BeginBatchInv
<1>3. ASSUME NEW r \in Requests, CommitDecision(r) PROVE Inv'
  BY <1>3, CommitDecisionInv
<1>4. ASSUME NEW r \in Requests, NEW balance \in SUBSET Accounts, ReadContexts(r, balance)
      PROVE  Inv'
  BY <1>4, ReadContextsInv
<1>5. ASSUME NEW r \in Requests, CommitGeneration(r) PROVE Inv'
  BY <1>5, CommitGenerationInv
<1>6. ASSUME NEW r \in Requests, Rollback(r) PROVE Inv'
  BY <1>6, RollbackInv
<1>7. ASSUME NEW gone \in SUBSET Accounts, Discard(gone) PROVE Inv'
  BY <1>7, DiscardInv
<1>8. ASSUME NEW a \in Accounts, PlanReview(a) PROVE Inv'
  BY <1>8, PlanReviewInv
<1>9. CASE UNCHANGED vars
  <2>1. UNCHANGED <<mapping, suggestions, history, learned, req, clock>>
    BY <1>9 DEF vars
  <2>2. TypeOK'
    BY <2>1 DEF Inv, TypeOK
  <2>3. Keyed' /\ Dated' /\ Seen' /\ OpenIsNewest' /\ AcceptedIsConfirmed' /\ LatestIsLearned'
    BY <2>1 DEF Inv, Keyed, Dated, Seen, OpenIsNewest, AcceptedIsConfirmed, LatestIsLearned,
                Confirmations
  <2> QED
    BY <2>2, <2>3 DEF Inv
<1> QED
  BY <1>1, <1>2, <1>3, <1>4, <1>5, <1>6, <1>7, <1>8, <1>9 DEF Next, Handle

(* The inductive invariant holds in every state.                           *)
LEMMA InvHolds == Spec => []Inv
<1> QED
  BY InitInv, NextInv, PTL DEF Spec

-----------------------------------------------------------------------------
(* The theorems                                                            *)

(* Tables and requests keep their shape whatever transactions overlap.     *)
THEOREM TypeCorrect == Spec => []TypeOK
<1>1. Inv => TypeOK
  BY DEF Inv
<1> QED
  BY <1>1, InvHolds, PTL

(* No generation, decision or discard leaves a stale suggestion open.      *)
THEOREM NewestCorrect == Spec => []OpenIsNewest
<1>1. Inv => OpenIsNewest
  BY DEF Inv
<1> QED
  BY <1>1, InvHolds, PTL

(* Every accepted suggestion stands on a confirmation in the history.      *)
THEOREM AcceptedCorrect == Spec => []AcceptedIsConfirmed
<1>1. Inv => AcceptedIsConfirmed
  BY DEF Inv
<1> QED
  BY <1>1, InvHolds, PTL

(* The projection holds the last confirmation and nothing unconfirmed.     *)
THEOREM LearningCorrect == Spec => []LatestIsLearned
<1>1. Inv => LatestIsLearned
  BY DEF Inv
<1> QED
  BY <1>1, InvHolds, PTL

(* The suggestions of every step are the old ones, or decided, retired or  *)
(* followed by a generation.                                               *)
LEMMA SuggestionCases ==
  ASSUME Inv, [Next]_vars
  PROVE  \/ suggestions' = suggestions
         \/ \E r \in Requests : CommitDecision(r)
         \/ \E targets \in SUBSET Accounts : \E outcome \in [targets -> Outcomes] :
              suggestions' = Retired(targets) \cup Generated(targets, outcome)
         \/ \E targets \in SUBSET Accounts : suggestions' = Retired(targets)
<1>1. ASSUME NEW r \in Requests, CommitGeneration(r)
      PROVE  \E targets \in SUBSET Accounts : \E outcome \in [targets -> Outcomes] :
               suggestions' = Retired(targets) \cup Generated(targets, outcome)
  <2>1. req[r].targets \in SUBSET Accounts
    BY DEF Inv, TypeOK, Request
  <2> QED
    BY <1>1, <2>1 DEF CommitGeneration
<1> QED
  BY <1>1 DEF Next, Handle, BeginUpdate, BeginBatch, ReadContexts, Rollback, Discard, PlanReview,
              vars

(* A suggestion once closed is never open again, and none disappears.      *)
THEOREM ClosedCorrect == Spec => ClosedStaysClosed
<1> DEFINE Step == \A x \in suggestions : \E y \in suggestions' :
                     SameRow(x, y) /\ x.sii = y.sii /\ (Open(y) => x = y)
<1>1. Inv /\ [Next]_vars => Step
  <2> SUFFICES ASSUME Inv, [Next]_vars PROVE Step
    OBVIOUS
  <2>1. CASE suggestions' = suggestions
    BY <2>1 DEF SameRow
  <2>2. ASSUME NEW r \in Requests, CommitDecision(r) PROVE Step
    <3>1. Followed(suggestions, suggestions')
      BY <2>2, ReviewedRows DEF Inv, CommitDecision
    <3> QED
      BY <3>1 DEF Followed, Follows
  <2>3. ASSUME NEW targets \in SUBSET Accounts, Retired(targets) \subseteq suggestions' PROVE Step
    <3>1. Followed(suggestions, Retired(targets))
      BY RetiredRows DEF Inv, TypeOK
    <3> QED
      BY <2>3, <3>1 DEF Followed, Follows
  <2> QED
    BY <2>1, <2>2, <2>3, SuggestionCases
<1> QED
  BY <1>1, InvHolds, PTL DEF Spec, ClosedStaysClosed

(* Acceptance closes every suggestion of the account, seen or not.         *)
THEOREM AcceptCorrect == Spec => AcceptClosesAll
<1> DEFINE Step == \A x \in suggestions, y \in suggestions' :
                     SameRow(x, y) /\ x.status # "accepted" /\ y.status = "accepted"
                     => \A z \in suggestions' : z.account = x.account => ~Open(z)
<1>1. Inv /\ [Next]_vars => Step
  <2> SUFFICES ASSUME Inv, [Next]_vars, NEW x \in suggestions, NEW y \in suggestions',
                      SameRow(x, y), x.status # "accepted", y.status = "accepted",
                      NEW z \in suggestions', z.account = x.account
               PROVE  ~Open(z)
    OBVIOUS
  <2>1. CASE suggestions' = suggestions
    BY <2>1 DEF Inv, Keyed
  <2>2. ASSUME NEW targets \in SUBSET Accounts, y \in Retired(targets) PROVE FALSE
    <3>1. y \in suggestions
      BY <2>2, RetiredRows DEF Inv, TypeOK
    <3> QED
      BY <3>1 DEF Inv, Keyed
  <2>3. ASSUME NEW targets \in SUBSET Accounts, NEW outcome \in [targets -> Outcomes],
               y \in Generated(targets, outcome)
        PROVE  FALSE
    BY <2>3, GeneratedRows DEF Inv, TypeOK
  <2>4. ASSUME NEW r \in Requests, CommitDecision(r) PROVE ~Open(z)
    <3>1. suggestions' = Reviewed(r)
      BY <2>4 DEF CommitDecision
    <3>2. PICK v \in suggestions :
            /\ Follows(y, v)
            /\ y = v \/ (Reviews(r, v) /\ v.sii = req[r].confirms[v.account])
      BY <3>1, ReviewedRows DEF Inv
    <3>3. v = x
      BY <3>2 DEF Inv, Keyed, Follows, SameRow
    <3>4. Reviews(r, x) /\ x.sii = req[r].confirms[x.account]
      BY <3>2, <3>3
    <3>5. PICK p \in req[r].primary : SameRow(x, p)
      BY <3>4 DEF Reviews
    <3>6. p.sii = x.sii
      <4>1. PICK u \in suggestions : SameRow(u, p) /\ u.sii = p.sii
        BY DEF Inv, Seen
      <4> QED
        BY <3>5, <4>1 DEF Inv, Keyed, SameRow
    <3>7. x.account \in Decided(r) /\ Accepts(r, x.account)
      BY <3>4, <3>5, <3>6 DEF Reviews, Accepts, SameRow
    <3>8. PICK w \in suggestions : Follows(z, w) /\ z.status = ReviewedStatus(r, w)
      BY <3>1, ReviewedRows DEF Inv
    <3>9. w.account = x.account
      BY <3>8 DEF Follows, SameRow
    <3>10. ReviewedStatus(r, w) \in {"accepted", "rejected", "superseded"} \/ ~Open(w)
      BY <3>7, <3>9 DEF ReviewedStatus
    <3> QED
      BY <3>8, <3>10 DEF Follows, Open
  <2> QED
    BY <2>1, <2>2, <2>3, <2>4, SuggestionCases
<1> QED
  BY <1>1, InvHolds, PTL DEF Spec, AcceptClosesAll
-----------------------------------------------------------------------------
(***************************************************************************)
(* The engines of the suggestions (SuggestionEngine), for one account.     *)
(*                                                                         *)
(* What a decision leaves of the account, its status and the confirmations *)
(* of its history, is what the engines read in the next generation.  The   *)
(* catalogue, the knowledge and what names say are any that the modules of *)
(* the engines assume.                                                     *)
(***************************************************************************)

(* Sets put in order                                                       *)

\* The pairs put the members of the set one after the other.
Chain(S, before) ==
  /\ \A x \in S : <<x, x>> \notin before
  /\ \A x, y \in S : x # y => <<x, y>> \in before \/ <<y, x>> \in before
  /\ \A x, y, z \in S : <<x, y>> \in before /\ <<y, z>> \in before => <<x, z>> \in before

\* A sorted set has each of its members once, in its order.
LEMMA SortedChain ==
  ASSUME NEW S, IsFiniteSet(S), NEW before, Chain(S, before)
  PROVE  LET o == Sorted(S, before) IN
         /\ DOMAIN o = 1 .. Cardinality(S) /\ Cardinality(S) \in Nat
         /\ \A i \in DOMAIN o : o[i] \in S
         /\ \A x \in S : \E i \in DOMAIN o : o[i] = x
         /\ \A i, j \in DOMAIN o : i < j => <<o[i], o[j]>> \in before /\ o[i] # o[j]
<1> DEFINE n == Cardinality(S)
           o == Sorted(S, before)
           Before(x) == {y \in S : <<y, x>> \in before}
           rank == [x \in S |-> Cardinality(Before(x)) + 1]
<1>1. n \in Nat
  BY FS_CardinalityType
<1>2. DOMAIN o = 1 .. n
  BY DEF Sorted
<1>3. ASSUME NEW x \in S
      PROVE  Cardinality(Before(x)) \in 0 .. n - 1
  <2>1. x \notin Before(x) /\ Before(x) \subseteq S
    BY DEF Chain
  <2>2. /\ IsFiniteSet(Before(x)) /\ Cardinality(Before(x)) <= n
        /\ Cardinality(Before(x)) = n => Before(x) = S
    <3> HIDE DEF Before
    <3> QED BY <2>1, FS_Subset
  <2>3. Cardinality(Before(x)) # n
    BY <2>1, <2>2
  <2>4. Cardinality(Before(x)) \in Nat
    BY <2>2, FS_CardinalityType
  <2> HIDE DEF Before
  <2> QED BY <1>1, <2>2, <2>3, <2>4
<1>4. ASSUME NEW x \in S, NEW y \in S, <<x, y>> \in before
      PROVE  Cardinality(Before(x)) < Cardinality(Before(y))
  <2>1. /\ Before(x) \subseteq Before(y) /\ Before(y) \subseteq S
        /\ x \in Before(y) /\ x \notin Before(x)
    BY <1>4 DEF Chain
  <2> HIDE DEF Before
  <2>2. IsFiniteSet(Before(y))
    BY <2>1, FS_Subset
  <2>3. /\ Cardinality(Before(x)) <= Cardinality(Before(y))
        /\ Cardinality(Before(x)) = Cardinality(Before(y)) => Before(x) = Before(y)
    BY <2>1, <2>2, FS_Subset
  <2>4. Cardinality(Before(x)) # Cardinality(Before(y))
    BY <2>1, <2>3
  <2> QED BY <1>3, <2>3, <2>4
<1>5. rank \in Injection(S, 1 .. n)
  <2>1. \A x \in S : rank[x] \in 1 .. n
    <3> HIDE DEF Before
    <3> QED BY <1>1, <1>3
  <2>2. ASSUME NEW x \in S, NEW y \in S, x # y PROVE rank[x] # rank[y]
    <3>1. <<x, y>> \in before \/ <<y, x>> \in before
      BY <2>2 DEF Chain
    <3> HIDE DEF Before
    <3> QED BY <3>1, <1>3, <1>4
  <2>3. rank \in [S -> 1 .. n]
    BY <2>1
  <2> HIDE DEF rank
  <2> QED BY <2>2, <2>3 DEF Injection, IsInjective
<1>6. rank \in Surjection(S, 1 .. n)
  <2>1. IsFiniteSet(1 .. n) /\ Cardinality(1 .. n) = n
    BY <1>1, FS_Interval
  <2> HIDE DEF rank
  <2> QED BY <1>5, <2>1, FS_Injection
<1>7. ASSUME NEW i \in 1 .. n
      PROVE  o[i] \in S /\ Cardinality(Before(o[i])) = i - 1
  <2>1. PICK x \in S : rank[x] = i
    <3> HIDE DEF rank
    <3> QED BY <1>6 DEF Surjection
  <2>2. Cardinality(Before(x)) = i - 1
    <3> HIDE DEF Before
    <3> QED BY <2>1, <1>3
  <2>3. o[i] = CHOOSE y \in S : Cardinality(Before(y)) = i - 1
    BY DEF Sorted
  <2> HIDE DEF Before, o
  <2> QED BY <2>2, <2>3
<1>8. ASSUME NEW x \in S PROVE \E i \in 1 .. n : o[i] = x
  <2> DEFINE i == rank[x]
  <2>1. i \in 1 .. n /\ i = Cardinality(Before(x)) + 1
    <3>1. rank \in [S -> 1 .. n] /\ i = Cardinality(Before(x)) + 1
      BY <1>5 DEF Injection
    <3> HIDE DEF rank
    <3> QED BY <3>1
  <2>2. o[i] \in S /\ Cardinality(Before(o[i])) = Cardinality(Before(x))
    <3> HIDE DEF Before, o, rank
    <3> QED BY <2>1, <1>7, <1>3
  <2>3. ~(<<x, o[i]>> \in before) /\ ~(<<o[i], x>> \in before)
    <3> HIDE DEF Before, o, i
    <3> QED BY <2>2, <1>4, <1>3
  <2> HIDE DEF o, i
  <2> QED BY <2>1, <2>2, <2>3 DEF Chain
<1>9. ASSUME NEW i \in 1 .. n, NEW j \in 1 .. n, i < j
      PROVE  <<o[i], o[j]>> \in before /\ o[i] # o[j]
  <2>1. /\ o[i] \in S /\ Cardinality(Before(o[i])) = i - 1
        /\ o[j] \in S /\ Cardinality(Before(o[j])) = j - 1
    BY <1>7
  <2> HIDE DEF Before, o
  <2>2. o[i] # o[j]
    BY <2>1, <1>9
  <2>3. ~(<<o[j], o[i]>> \in before)
    BY <2>1, <1>4, <1>9
  <2> QED BY <2>1, <2>2, <2>3 DEF Chain
<1> HIDE DEF o
<1> QED BY <1>1, <1>2, <1>7, <1>8, <1>9 DEF o
-----------------------------------------------------------------------------
\* A sequence of anything.
IsSequence(s) == \E n \in Nat : DOMAIN s = 1 .. n

\* No element comes twice.
Distinct(s) == \A i, j \in DOMAIN s : s[i] = s[j] => i = j

\* What is in a sequence.
Elements(s) == {s[i] : i \in DOMAIN s}

\* The places of a sequence are finitely many numbers.
LEMMA SequenceIsFinite ==
  ASSUME NEW s, IsSequence(s)
  PROVE  IsFiniteSet(DOMAIN s) /\ DOMAIN s \subseteq Nat
<1>1. PICK n \in Nat : DOMAIN s = 1 .. n
  BY DEF IsSequence
<1> QED BY <1>1, FS_Interval

\* Selecting keeps the elements that are in the set and their order, and keeps them distinct.
LEMMA SelectedElements ==
  ASSUME NEW s, IsSequence(s), NEW S
  PROVE  LET t == Selected(s, S) IN
         /\ IsSequence(t)
         /\ Elements(t) = Elements(s) \cap S
         /\ Distinct(s) => Distinct(t)
         /\ \A i, j \in DOMAIN t :
              i < j => \E k, l \in DOMAIN s : k < l /\ t[i] = s[k] /\ t[j] = s[l]
<1> DEFINE places == {i \in DOMAIN s : s[i] \in S}
           before == {p \in places \X places : p[1] < p[2]}
           order == Sorted(places, before)
           t == Selected(s, S)
<1>1. IsFiniteSet(places) /\ places \subseteq Nat
  <2>1. places \subseteq DOMAIN s
    OBVIOUS
  <2> HIDE DEF places
  <2> QED BY <2>1, SequenceIsFinite, FS_Subset
<1>2. Chain(places, before)
  <2>1. \A x, y \in places : <<x, y>> \in before <=> x < y
    OBVIOUS
  <2> HIDE DEF before, places
  <2> QED BY <1>1, <2>1 DEF Chain
<1>3. /\ DOMAIN order = 1 .. Cardinality(places) /\ Cardinality(places) \in Nat
      /\ \A i \in DOMAIN order : order[i] \in places
      /\ \A x \in places : \E i \in DOMAIN order : order[i] = x
      /\ \A i, j \in DOMAIN order :
           i < j => <<order[i], order[j]>> \in before /\ order[i] # order[j]
  <2> HIDE DEF before, places
  <2> QED BY <1>1, <1>2, SortedChain
<1>4. DOMAIN t = DOMAIN order /\ \A i \in DOMAIN order : t[i] = s[order[i]]
  BY DEF Selected
<1> HIDE DEF t, order, before
<1>5. IsSequence(t)
  BY <1>3, <1>4 DEF IsSequence
<1>6. Elements(t) = Elements(s) \cap S
  BY <1>3, <1>4 DEF Elements
<1>7. Distinct(s) => Distinct(t)
  <2> SUFFICES ASSUME Distinct(s), NEW i \in DOMAIN t, NEW j \in DOMAIN t, t[i] = t[j]
               PROVE  i = j
    BY DEF Distinct
  <2>1. order[i] = order[j]
    BY <1>3, <1>4 DEF Distinct
  <2>2. ~(i < j) /\ ~(j < i)
    BY <2>1, <1>3, <1>4
  <2> QED BY <2>2, <1>3, <1>4
<1>8. ASSUME NEW i \in DOMAIN t, NEW j \in DOMAIN t, i < j
      PROVE  \E k, l \in DOMAIN s : k < l /\ t[i] = s[k] /\ t[j] = s[l]
  <2>1. order[i] \in DOMAIN s /\ order[j] \in DOMAIN s /\ order[i] < order[j]
    BY <1>3, <1>4, <1>8 DEF before
  <2> QED BY <2>1, <1>4
<1> QED BY <1>5, <1>6, <1>7, <1>8 DEF t

\* The sort by score is a permutation that puts no lower score first.
LEMMA SortedByScore ==
  ASSUME NEW s, IsSequence(s), \A i \in DOMAIN s : s[i].score \in Int
  PROVE  LET t == ByScore(s) IN
         /\ DOMAIN t = DOMAIN s
         /\ Elements(t) = Elements(s)
         /\ Distinct(s) => Distinct(t)
         /\ \A i, j \in DOMAIN t : i < j => t[i].score >= t[j].score
<1> DEFINE before == {p \in (DOMAIN s) \X (DOMAIN s) :
                        \/ s[p[1]].score > s[p[2]].score
                        \/ s[p[1]].score = s[p[2]].score /\ p[1] < p[2]}
           order == Sorted(DOMAIN s, before)
           t == ByScore(s)
<1>1. PICK n \in Nat : DOMAIN s = 1 .. n
  BY DEF IsSequence
<1>2. \A i, j \in DOMAIN s : <<i, j>> \in before <=>
        s[i].score > s[j].score \/ (s[i].score = s[j].score /\ i < j)
  OBVIOUS
<1>3. Chain(DOMAIN s, before)
  <2> HIDE DEF before
  <2> QED BY <1>1, <1>2 DEF Chain
<1>4. IsFiniteSet(DOMAIN s) /\ Cardinality(DOMAIN s) = n
  BY <1>1, FS_Interval
<1>5. /\ DOMAIN order = 1 .. n
      /\ \A i \in DOMAIN order : order[i] \in DOMAIN s
      /\ \A x \in DOMAIN s : \E i \in DOMAIN order : order[i] = x
      /\ \A i, j \in DOMAIN order :
           i < j => <<order[i], order[j]>> \in before /\ order[i] # order[j]
  <2> HIDE DEF before
  <2> QED BY <1>3, <1>4, SortedChain
<1>6. DOMAIN t = DOMAIN s /\ \A i \in DOMAIN s : t[i] = s[order[i]]
  BY DEF ByScore
<1> HIDE DEF t, order, before
<1>7. Elements(t) = Elements(s)
  BY <1>1, <1>5, <1>6 DEF Elements
<1>8. Distinct(s) => Distinct(t)
  <2> SUFFICES ASSUME Distinct(s), NEW i \in DOMAIN t, NEW j \in DOMAIN t, t[i] = t[j]
               PROVE  i = j
    BY DEF Distinct
  <2>1. order[i] = order[j]
    BY <1>1, <1>5, <1>6 DEF Distinct
  <2>2. ~(i < j) /\ ~(j < i)
    BY <2>1, <1>1, <1>5, <1>6
  <2> QED BY <2>2, <1>1, <1>6
<1>9. ASSUME NEW i \in DOMAIN t, NEW j \in DOMAIN t, i < j
      PROVE  t[i].score >= t[j].score
  <2>1. /\ order[i] \in DOMAIN s /\ order[j] \in DOMAIN s
        /\ <<order[i], order[j]>> \in before
    BY <1>1, <1>5, <1>6, <1>9
  <2>2. s[order[i]].score >= s[order[j]].score
    BY <2>1, <1>2
  <2> QED BY <2>2, <1>6
<1> QED BY <1>6, <1>7, <1>8, <1>9 DEF t
-----------------------------------------------------------------------------
\* The candidates of a layer.
IsLayer(s) ==
  /\ IsSequence(s) /\ s = [i \in DOMAIN s |-> s[i]]
  /\ \A i \in DOMAIN s :
       /\ s[i].score \in Int
       /\ s[i].level \in {"strong", "probable", "weak"}

\* A layer is empty when it has no place.
LEMMA EmptyLayer ==
  ASSUME NEW s, IsLayer(s)
  PROVE  s = <<>> <=> DOMAIN s = {}
BY DEF IsLayer

\* Nothing found is a layer too.
LEMMA EmptyIsLayer == IsLayer(<<>>)
<1> DEFINE s == <<>>
<1>1. DOMAIN s = 1 .. 0 /\ DOMAIN s = {} /\ s = [i \in DOMAIN s |-> s[i]]
  OBVIOUS
<1> HIDE DEF s
<1>2. IsLayer(s)
  BY <1>1 DEF IsLayer, IsSequence
<1> QED BY <1>2 DEF s

\* Ahead of all the others by enough.
Ahead(w, s) == w \in Elements(s) /\ \A x \in Elements(s) \ {w} : w.score - x.score >= 10

\* The winner is the candidate that is ahead of the others, if there is one.
LEMMA WinnerIsAhead ==
  ASSUME NEW s, IsLayer(s), Distinct(s)
  PROVE  LET won == Winner(Outcome(ByScore(s))) IN
         /\ Elements(s) = {} => won = <<"no_candidate", Null>>
         /\ \A w : Ahead(w, s) => won = <<w.level, w.account>>
         /\ Elements(s) # {} /\ (\A w : ~Ahead(w, s)) => won = <<"ambiguous", Null>>
<1> DEFINE t == ByScore(s)
           won == Winner(Outcome(t))
<1>1. /\ DOMAIN t = DOMAIN s /\ Elements(t) = Elements(s) /\ Distinct(t)
      /\ \A i, j \in DOMAIN t : i < j => t[i].score >= t[j].score
  BY SortedByScore DEF IsLayer
<1>2. PICK n \in Nat : DOMAIN t = 1 .. n
  BY <1>1 DEF IsLayer, IsSequence
<1>3. t = [i \in DOMAIN t |-> t[i]]
  <2>1. t = [i \in DOMAIN s |-> s[Sorted(DOMAIN s, {p \in (DOMAIN s) \X (DOMAIN s) :
                   \/ s[p[1]].score > s[p[2]].score
                   \/ s[p[1]].score = s[p[2]].score /\ p[1] < p[2]})[i]]]
    BY DEF ByScore
  <2> QED BY <2>1
<1>4. \A i \in DOMAIN t : t[i] \in Elements(s) /\ t[i].score \in Int
        /\ t[i].level \in {"strong", "probable", "weak"}
  BY <1>1 DEF IsLayer, Elements
<1>5. t = <<>> <=> n = 0
  <2> HIDE DEF t
  <2> QED BY <1>2, <1>3
<1>6. won = LET d == IF t = <<>> THEN "no_candidate"
                     ELSE IF 2 \in DOMAIN t /\ t[1].score - t[2].score < 10 THEN "ambiguous"
                     ELSE t[1].level
            IN <<d, IF d \in {"no_candidate", "ambiguous"} THEN Null ELSE t[1].account>>
  <2> HIDE DEF t
  <2> QED BY DEF Winner, Outcome, Decide
<1> HIDE DEF t, won
<1>7. Elements(s) = {} <=> n = 0
  <2>1. n = 0 => DOMAIN t = {}
    BY <1>2
  <2>2. n # 0 => 1 \in DOMAIN t
    BY <1>2
  <2>3. Elements(t) = {} <=> DOMAIN t = {}
    BY DEF Elements
  <2> QED BY <1>1, <2>1, <2>2, <2>3
<1>8. ASSUME NEW w, Ahead(w, s) PROVE won = <<w.level, w.account>>
  <2>1. PICK k \in DOMAIN t : t[k] = w
    BY <1>1, <1>8 DEF Ahead, Elements
  <2>2. k = 1
    <3> SUFFICES ASSUME k # 1 PROVE FALSE
      OBVIOUS
    <3>1. 1 \in DOMAIN t /\ 1 < k
      BY <1>2, <2>1
    <3>2. t[1] # w
      BY <3>1, <2>1, <1>1 DEF Distinct
    <3>3. w.score - t[1].score >= 10
      BY <3>1, <3>2, <1>4, <1>8 DEF Ahead
    <3> QED BY <3>1, <3>3, <2>1, <1>1, <1>4
  <2>3. 2 \in DOMAIN t => t[1].score - t[2].score >= 10
    <3> SUFFICES ASSUME 2 \in DOMAIN t PROVE t[1].score - t[2].score >= 10
      OBVIOUS
    <3>1. t[2] # w
      BY <2>1, <2>2, <1>1 DEF Distinct
    <3> QED BY <3>1, <2>1, <2>2, <1>4, <1>8 DEF Ahead
  <2>4. ~(2 \in DOMAIN t /\ t[1].score - t[2].score < 10) /\ t # <<>>
    <3>1. 2 \in DOMAIN t => ~(t[1].score - t[2].score < 10)
      BY <2>1, <2>2, <2>3, <1>4
    <3> QED BY <3>1, <2>1, <1>2, <1>5
  <2> QED BY <2>1, <2>2, <2>4, <1>4, <1>6
<1>9. ASSUME Elements(s) # {}, \A w : ~Ahead(w, s) PROVE won = <<"ambiguous", Null>>
  <2>1. 1 \in DOMAIN t /\ t # <<>>
    BY <1>2, <1>5, <1>7, <1>9
  <2>2. PICK x \in Elements(s) \ {t[1]} : ~(t[1].score - x.score >= 10)
    BY <2>1, <1>4, <1>9 DEF Ahead
  <2>3. PICK k \in DOMAIN t : t[k] = x
    BY <1>1, <2>2 DEF Elements
  <2>4. 2 \in DOMAIN t /\ (k = 2 \/ 2 < k)
    BY <1>2, <2>1, <2>2, <2>3
  <2>5. t[2].score >= t[k].score /\ t[2].score \in Int /\ t[1].score \in Int /\ x.score \in Int
    BY <2>1, <2>3, <2>4, <1>1, <1>4
  <2>6. t[1].score - t[2].score < 10
    BY <2>2, <2>3, <2>5
  <2> QED BY <2>1, <2>4, <2>6, <1>6
<1> QED BY <1>5, <1>6, <1>7, <1>8, <1>9 DEF won, t

\* Tried with the same candidates in another order have the same winner.
LEMMA SameWinner ==
  ASSUME NEW s, NEW t, IsLayer(s), IsLayer(t), Distinct(s), Distinct(t),
         Elements(s) = Elements(t)
  PROVE  Winner(Outcome(ByScore(s)))
           = Winner(Outcome(ByScore(t)))
<1>1. \A w : Ahead(w, s) <=> Ahead(w, t)
  BY DEF Ahead
<1>2. CASE Elements(s) = {}
  BY <1>2, WinnerIsAhead
<1>3. CASE \E w : Ahead(w, s)
  <2>1. PICK w : Ahead(w, s) /\ Ahead(w, t)
    BY <1>1, <1>3
  <2> QED BY <2>1, WinnerIsAhead
<1>4. CASE Elements(s) # {} /\ \A w : ~Ahead(w, s)
  BY <1>1, <1>4, WinnerIsAhead
<1> QED BY <1>2, <1>3, <1>4
-----------------------------------------------------------------------------
(* The layers of a context. *)

\* What a generation reads is in its tables.
IsContext(ctx) ==
  /\ ctx.observation.name \in Names /\ ctx.version \in Versions
  /\ IsSequence(ctx.history) /\ IsSequence(ctx.aliases) /\ IsSequence(ctx.terms)
  /\ IsSequence(ctx.order) /\ Distinct(ctx.order)

\* Every candidate of the layer is compatible, and has the type of the layer.
Fits(s, ctx, type) ==
  \A i \in DOMAIN s : s[i].type = type /\ s[i].account \in Destinations(ctx)

\* The candidates of strong evidence, of any selection.
LEMMA StrongLayer ==
  ASSUME NEW s, IsSequence(s), NEW S, NEW type
  PROVE  LET t == Selected(s, S)
             l == Strong(t, type)
         IN /\ IsLayer(l)
            /\ \A i \in DOMAIN l : l[i].type = type /\ l[i].account \in Elements(s) \cap S
            /\ Distinct(s) => Distinct(l)
            /\ Elements(l) = {SuggestionCandidate(a, type, "strong", 100) :
                                 a \in Elements(s) \cap S}
<1> DEFINE t == Selected(s, S)
           l == Strong(t, type)
<1>1. IsSequence(t) /\ Elements(t) = Elements(s) \cap S /\ (Distinct(s) => Distinct(t))
  BY SelectedElements
<1> HIDE DEF t
<1>2. l = [i \in DOMAIN t |-> SuggestionCandidate(t[i], type, "strong", 100)]
  BY DEF Strong
<1> HIDE DEF l
<1>3. DOMAIN l = DOMAIN t /\ l = [i \in DOMAIN l |-> l[i]]
  BY <1>2
<1>4. \A i \in DOMAIN l :
        /\ l[i].account = t[i] /\ l[i].type = type /\ l[i].level = "strong" /\ l[i].score = 100
        /\ t[i] \in Elements(t)
  BY <1>2 DEF SuggestionCandidate, Elements
<1>5. IsLayer(l)
  <2>1. IsSequence(l)
    BY <1>1, <1>3 DEF IsSequence
  <2> QED BY <2>1, <1>3, <1>4 DEF IsLayer
<1>6. Distinct(s) => Distinct(l)
  BY <1>1, <1>3, <1>4 DEF Distinct
<1>7. Elements(l) = {SuggestionCandidate(a, type, "strong", 100) : a \in Elements(t)}
  BY <1>2, <1>3 DEF Elements
<1> QED BY <1>1, <1>4, <1>5, <1>6, <1>7 DEF l, t

\* The candidates of references, each of the account with the code of one.
LEMMA ReferencesLayer ==
  ASSUME NEW ctx, NEW references, IsSequence(references), NEW type
  PROVE  LET l == FromReferences(ctx, references, type) IN
         /\ IsLayer(l) /\ Fits(l, ctx, type)
         /\ \A i \in DOMAIN l : \E j \in DOMAIN references :
              l[i].account = ResolveReference(references[j], ctx.version)
<1> DEFINE s == [i \in DOMAIN references |-> ResolveReference(references[i], ctx.version)]
           l == FromReferences(ctx, references, type)
<1>1. IsSequence(s)
  BY DEF IsSequence
<1>2. l = Strong(Selected(s, Destinations(ctx)), type)
  BY DEF FromReferences
<1>3. /\ IsLayer(l)
      /\ \A i \in DOMAIN l :
           l[i].type = type /\ l[i].account \in Elements(s) \cap Destinations(ctx)
  <2> HIDE DEF s, l
  <2> QED BY <1>1, <1>2, StrongLayer
<1>4. \A x \in Elements(s) : \E j \in DOMAIN references :
        x = ResolveReference(references[j], ctx.version)
  BY DEF Elements
<1> HIDE DEF l, s
<1> QED BY <1>3, <1>4 DEF l, Fits

\* The accounts of the catalogue come once each.
LEMMA InOrderIsDistinct ==
  ASSUME NEW ctx, IsContext(ctx)
  PROVE  IsSequence(InOrder(ctx)) /\ Distinct(InOrder(ctx))
BY DEF IsContext, IsSequence, Distinct, InOrder

\* The candidates found in the catalogue, once each.
LEMMA CatalogueLayer ==
  ASSUME NEW ctx, IsContext(ctx), NEW wanted, NEW type
  PROVE  LET l == FromCatalogue(ctx, wanted, type) IN
         /\ IsLayer(l) /\ Fits(l, ctx, type) /\ Distinct(l)
         /\ Elements(l) = {SuggestionCandidate(a, type, "strong", 100) :
              a \in Elements(InOrder(ctx)) \cap (wanted \cap Destinations(ctx))}
<1> DEFINE l == FromCatalogue(ctx, wanted, type)
           chosen == wanted \cap Destinations(ctx)
<1>1. l = Strong(Selected(InOrder(ctx), chosen), type)
  BY DEF FromCatalogue
<1>2. /\ IsLayer(l)
      /\ \A i \in DOMAIN l :
           l[i].type = type /\ l[i].account \in Elements(InOrder(ctx)) \cap chosen
      /\ Distinct(l)
      /\ Elements(l) = {SuggestionCandidate(a, type, "strong", 100) :
                          a \in Elements(InOrder(ctx)) \cap chosen}
  <2> HIDE DEF l, chosen
  <2> QED BY <1>1, InOrderIsDistinct, StrongLayer
<1> HIDE DEF l
<1> QED BY <1>2 DEF l, Fits

\* What the ranking by likeness gives an account, and the accounts it ranks.
ByLikeness(ctx, a) ==
  RankedCandidate(a, Structure(ctx.observation, Destination[a]),
                         Likeness[ctx.observation.name, NameOf(a)].tokens)

\* The accounts that are ranked.
Alike(ctx) ==
  {a \in Destinations(ctx) :
     Rankable(a)
       /\ Enough(ctx.observation, Destination[a],
                        Structure(ctx.observation, Destination[a]))}

\* The candidates of the ranking by likeness, once each.
LEMMA RankedLayer ==
  ASSUME NEW ctx, IsContext(ctx)
  PROVE  LET l == Ranked(ctx) IN
         /\ IsLayer(l) /\ Fits(l, ctx, "ranked") /\ Distinct(l)
         /\ Elements(l) = {ByLikeness(ctx, a) : a \in Elements(InOrder(ctx)) \cap Alike(ctx)}
<1> DEFINE l == Ranked(ctx)
           t == Selected(InOrder(ctx), Alike(ctx))
<1>1. /\ IsSequence(t) /\ Elements(t) = Elements(InOrder(ctx)) \cap Alike(ctx)
      /\ Distinct(t)
  BY InOrderIsDistinct, SelectedElements
<1>2. l = [i \in DOMAIN t |-> ByLikeness(ctx, t[i])]
  BY DEF Ranked, RankedCandidates, ByLikeness, Alike
<1> HIDE DEF l, t
<1>3. DOMAIN l = DOMAIN t /\ l = [i \in DOMAIN l |-> l[i]]
  BY <1>2
<1>4. ASSUME NEW i \in DOMAIN t
      PROVE  /\ l[i].account = t[i] /\ l[i].type = "ranked" /\ l[i].score \in Int
             /\ l[i].level \in {"strong", "probable", "weak"}
             /\ t[i] \in Destinations(ctx)
  <2>1. t[i] \in Destinations(ctx)
    BY <1>1 DEF Elements, Alike
  <2>2. t[i] \in AllAccounts
    BY <2>1 DEF Destinations, AllAccounts, IsContext
  <2>3. NameOf(t[i]) \in Names
    BY <2>2, PipelineAssumption
  <2> DEFINE like == Likeness[ctx.observation.name, NameOf(t[i])]
             structure == Structure(ctx.observation, Destination[t[i]])
  <2>4. like \in LikenessFacts
    BY <2>3, PipelineAssumption DEF IsContext
  <2>5. l[i] = RankedCandidate(t[i], structure, like.tokens)
    BY <1>2 DEF ByLikeness
  <2> HIDE DEF like, structure
  <2>6. like.tokens \in Int
    BY <2>4 DEF LikenessFacts
  <2> QED BY <2>1, <2>5, <2>6 DEF RankedCandidate, SuggestionCandidate
<1>5. IsLayer(l)
  <2>1. IsSequence(l)
    BY <1>1, <1>3 DEF IsSequence
  <2> QED BY <2>1, <1>3, <1>4 DEF IsLayer
<1>6. Distinct(l)
  BY <1>1, <1>3, <1>4 DEF Distinct
<1>7. Elements(l) = {ByLikeness(ctx, a) : a \in Elements(t)}
  BY <1>2, <1>3 DEF Elements
<1>8. Fits(l, ctx, "ranked")
  BY <1>3, <1>4 DEF Fits
<1> QED BY <1>1, <1>5, <1>6, <1>7, <1>8 DEF l
-----------------------------------------------------------------------------
(* The layer that decides. *)

\* The types of evidence, in the order of the layers.
Types == <<"historical_company_mapping", "company_alias", "exact_official_name",
           "exact_catalog_term", "accounting_rule", "ranked">>

\* Every layer has its own type.
LEMMA LayersAreLayers ==
  ASSUME NEW ctx, IsContext(ctx)
  PROVE  LET layers == Layers(ctx) IN
         /\ DOMAIN layers = 1 .. 6
         /\ \A k \in 1 .. 6 : IsLayer(layers[k]) /\ Fits(layers[k], ctx, Types[k])
         /\ layers[1] = FromReferences(ctx, ctx.history, "historical_company_mapping")
<1> DEFINE layers == Layers(ctx)
           named == {a \in AllAccounts : NameOf(a) = ctx.row.name}
           ruled == {a \in AllAccounts :
                       About[ctx.row.name].family \in About[NameOf(a)].rules}
           l1 == FromReferences(ctx, ctx.history, "historical_company_mapping")
           l2 == FromReferences(ctx, ctx.aliases, "company_alias")
           l3 == FromCatalogue(ctx, named, "exact_official_name")
           l4 == FromReferences(ctx, ctx.terms, "exact_catalog_term")
           l5 == FromCatalogue(ctx, ruled, "accounting_rule")
           l6 == Ranked(ctx)
<1>1. layers = <<l1, l2, l3, l4, l5, l6>>
  BY DEF Layers
<1>2. /\ IsLayer(l1) /\ Fits(l1, ctx, "historical_company_mapping")
      /\ IsLayer(l2) /\ Fits(l2, ctx, "company_alias")
      /\ IsLayer(l4) /\ Fits(l4, ctx, "exact_catalog_term")
  BY ReferencesLayer DEF IsContext
<1>3. /\ IsLayer(l3) /\ Fits(l3, ctx, "exact_official_name")
      /\ IsLayer(l5) /\ Fits(l5, ctx, "accounting_rule")
  BY CatalogueLayer
<1>4. IsLayer(l6) /\ Fits(l6, ctx, "ranked")
  BY RankedLayer
<1> HIDE DEF l1, l2, l3, l4, l5, l6, layers
<1> QED BY <1>1, <1>2, <1>3, <1>4 DEF Types, layers, l1

\* The first layer that has candidates, if any.
LEMMA FirstFoundIs ==
  ASSUME NEW layers, DOMAIN layers = 1 .. 6, NEW found, found = {i \in 1 .. 6 : layers[i] # <<>>}
  PROVE  /\ found = {} => FirstFound(layers) = <<>>
         /\ found # {} => Min(found) \in found
                          /\ FirstFound(layers) = layers[Min(found)]
<1>1. found # {} => \E x \in found : \A y \in found : x <= y
  <2>1. found \subseteq Nat
    OBVIOUS
  <2>2. found # {} => \E x \in found : \A y \in found : <<y, x>> \notin OpToRel(<, Nat)
    BY <2>1, WFMin, NatLessThanWellFounded
  <2>3. \A x, y \in found : <<y, x>> \notin OpToRel(<, Nat) => x <= y
    BY <2>1 DEF OpToRel
  <2> QED BY <2>2, <2>3
<1>2. found # {} => Min(found) \in found
  BY <1>1 DEF Min
<1> QED BY <1>2 DEF FirstFound

\* Two readings of the same tables.
SameTables(c, d) ==
  /\ c.observation = d.observation /\ c.version = d.version /\ c.row = d.row
  /\ c.history = d.history /\ c.aliases = d.aliases /\ c.terms = d.terms
  /\ Elements(InOrder(c)) = Elements(InOrder(d))

\* Each layer has the same candidates, and those of references in the same order.
LEMMA SameLayers ==
  ASSUME NEW c, NEW d, IsContext(c), IsContext(d), SameTables(c, d)
  PROVE  \A k \in 1 .. 6 :
           LET s == Layers(c)[k]
               t == Layers(d)[k]
           IN s = t \/ (Distinct(s) /\ Distinct(t) /\ Elements(s) = Elements(t))
<1> DEFINE named == {a \in AllAccounts : NameOf(a) = c.row.name}
           ruled == {a \in AllAccounts :
                       About[c.row.name].family \in About[NameOf(a)].rules}
           Tried(x) == <<FromReferences(x, x.history, "historical_company_mapping"),
                          FromReferences(x, x.aliases, "company_alias"),
                          FromCatalogue(x, named, "exact_official_name"),
                          FromReferences(x, x.terms, "exact_catalog_term"),
                          FromCatalogue(x, ruled, "accounting_rule"), Ranked(x)>>
           Same(s, t) == s = t \/ (Distinct(s) /\ Distinct(t) /\ Elements(s) = Elements(t))
<1>1. Layers(c) = Tried(c) /\ Layers(d) = Tried(d)
  BY DEF Layers, SameTables
<1>2. Destinations(c) = Destinations(d)
  BY DEF SameTables, Destinations
<1>3. \A references, type :
        FromReferences(c, references, type) = FromReferences(d, references, type)
  BY <1>2 DEF SameTables, FromReferences
<1>4. ASSUME NEW wanted, NEW type
      PROVE  Same(FromCatalogue(c, wanted, type), FromCatalogue(d, wanted, type))
  <2> DEFINE lc == FromCatalogue(c, wanted, type)
             ld == FromCatalogue(d, wanted, type)
             With(S) == {SuggestionCandidate(a, type, "strong", 100) : a \in S}
  <2>1. /\ Distinct(lc)
        /\ Elements(lc) = With(Elements(InOrder(c)) \cap (wanted \cap Destinations(c)))
    BY CatalogueLayer
  <2>2. /\ Distinct(ld)
        /\ Elements(ld) = With(Elements(InOrder(d)) \cap (wanted \cap Destinations(d)))
    BY CatalogueLayer
  <2>3. Elements(InOrder(c)) = Elements(InOrder(d))
    BY DEF SameTables
  <2> HIDE DEF lc, ld, With
  <2>4. Elements(lc) = Elements(ld)
    BY <2>1, <2>2, <2>3, <1>2
  <2> QED BY <2>1, <2>2, <2>4 DEF lc, ld
<1>5. Same(Ranked(c), Ranked(d))
  <2>1. Alike(c) = Alike(d)
    BY <1>2 DEF Alike, SameTables
  <2>2. \A a : ByLikeness(c, a) = ByLikeness(d, a)
    BY DEF ByLikeness, SameTables
  <2>3. {ByLikeness(c, a) : a \in Elements(InOrder(c)) \cap Alike(c)}
          = {ByLikeness(d, a) : a \in Elements(InOrder(d)) \cap Alike(d)}
    <3> DEFINE S == Elements(InOrder(c)) \cap Alike(c)
    <3>1. Elements(InOrder(d)) \cap Alike(d) = S
      BY <2>1 DEF SameTables
    <3>2. {ByLikeness(c, a) : a \in S} = {ByLikeness(d, a) : a \in S}
      <4> HIDE DEF S
      <4> QED BY <2>2
    <3> QED BY <3>1, <3>2
  <2> QED BY <2>3, RankedLayer
<1> HIDE DEF named, ruled, Same
<1>6. \A k \in 1 .. 6 : Same(Tried(c)[k], Tried(d)[k])
  <2>1. \A s : Same(s, s)
    BY DEF Same
  <2>2. Tried(c)[1] = Tried(d)[1] /\ Tried(c)[2] = Tried(d)[2] /\ Tried(c)[4] = Tried(d)[4]
    BY <1>3 DEF SameTables
  <2>3. Same(Tried(c)[3], Tried(d)[3]) /\ Same(Tried(c)[5], Tried(d)[5])
    BY <1>4
  <2>4. Same(Tried(c)[6], Tried(d)[6])
    BY <1>5
  <2> HIDE DEF Tried
  <2>5. \A k \in {1, 2, 4} : Same(Tried(c)[k], Tried(d)[k])
    BY <2>1, <2>2
  <2> QED BY <2>3, <2>4, <2>5
<1> HIDE DEF Tried
<1> QED BY <1>1, <1>6 DEF Same

\* What is suggested depends on no order the catalogue is read in.
LEMMA OrderIsNoMatter ==
  ASSUME NEW c, NEW d, IsContext(c), IsContext(d), SameTables(c, d)
  PROVE  Winner(Resolve(c)) = Winner(Resolve(d))
<1> DEFINE lc == Layers(c)
           ld == Layers(d)
           found == {i \in 1 .. 6 : lc[i] # <<>>}
           k == Min(found)
           WinnerOf(s) == Winner(Outcome(ByScore(s)))
<1>1. /\ DOMAIN lc = 1 .. 6 /\ DOMAIN ld = 1 .. 6
      /\ \A i \in 1 .. 6 : IsLayer(lc[i]) /\ IsLayer(ld[i])
  BY LayersAreLayers
<1>2. \A i \in 1 .. 6 :
        lc[i] = ld[i] \/ (Distinct(lc[i]) /\ Distinct(ld[i]) /\ Elements(lc[i]) = Elements(ld[i]))
  BY SameLayers
<1> HIDE DEF lc, ld
<1>3. \A i \in 1 .. 6 : WinnerOf(lc[i]) = WinnerOf(ld[i])
  <2> HIDE DEF WinnerOf
  <2> SUFFICES ASSUME NEW i \in 1 .. 6, lc[i] # ld[i] PROVE WinnerOf(lc[i]) = WinnerOf(ld[i])
    OBVIOUS
  <2> QED BY <1>1, <1>2, SameWinner DEF WinnerOf
<1>4. \A i \in 1 .. 6 : lc[i] # <<>> <=> ld[i] # <<>>
  <2>1. \A s : IsLayer(s) => (s = <<>> <=> Elements(s) = {})
    <3> SUFFICES ASSUME NEW s, IsLayer(s) PROVE s = <<>> <=> Elements(s) = {}
      OBVIOUS
    <3>1. s = <<>> <=> DOMAIN s = {}
      BY EmptyLayer
    <3>2. \A i \in DOMAIN s : s[i] \in Elements(s)
      BY DEF Elements
    <3>3. \A x \in Elements(s) : \E i \in DOMAIN s : x = s[i]
      BY DEF Elements
    <3> QED BY <3>1, <3>2, <3>3
  <2> QED BY <2>1, <1>1, <1>2
<1>5. found = {i \in 1 .. 6 : ld[i] # <<>>}
  BY <1>4
<1>6. /\ found = {} => FirstFound(lc) = <<>> /\ FirstFound(ld) = <<>>
      /\ found # {} => k \in found /\ FirstFound(lc) = lc[k] /\ FirstFound(ld) = ld[k]
  <2>1. found = {i \in 1 .. 6 : lc[i] # <<>>}
    OBVIOUS
  <2> HIDE DEF found
  <2> QED BY <1>1, <1>5, <2>1, FirstFoundIs
<1>7. WinnerOf(FirstFound(lc)) = WinnerOf(FirstFound(ld))
  <2>1. k \in found => k \in 1 .. 6
    OBVIOUS
  <2> HIDE DEF found, k, WinnerOf
  <2> QED BY <1>3, <1>6, <2>1
<1> HIDE DEF found
<1> QED BY <1>7 DEF Resolve, lc, ld
-----------------------------------------------------------------------------
(* The context of a generation. *)

\* A finite set is listed by a sequence.
LEMMA ListedAccounts ==
  ASSUME NEW found, IsFiniteSet(found)
  PROVE  IsSequence(AccountsOf(found))
<1> DEFINE n == Cardinality(found)
           list == SetToSeq(found)
<1>1. n \in Nat /\ \E f \in [1 .. n -> found] : IsInjective(f)
  BY FS_CardinalityType DEF ExistsBijection, Bijection, Injection
<1>2. \A f : IsInjective(f) <=> IsInjective(f)
  BY DEF IsInjective, IsInjective
<1>3. list = CHOOSE f \in [1 .. n -> found] : IsInjective(f)
  BY DEF SetToSeq
<1> HIDE DEF n, list
<1>4. list \in [1 .. n -> found]
  BY <1>1, <1>2, <1>3
<1>5. DOMAIN AccountsOf(found) = DOMAIN list
  BY DEF AccountsOf, list
<1> QED BY <1>1, <1>4, <1>5 DEF IsSequence

\* What the library says of an interval, for those that start at one.
LEMMA IntervalCount ==
  ASSUME NEW n \in Nat
  PROVE  IsFiniteSet(1 .. n) /\ Cardinality(1 .. n) = n
<1>1. 1 \in Int /\ n \in Int
  OBVIOUS
<1>2. IsFiniteSet(1 .. n) /\ Cardinality(1 .. n) = IF 1 > n THEN 0 ELSE n - 1 + 1
  BY <1>1, FS_Interval
<1> QED BY <1>2

\* An order has each code once.
LEMMA OrderIsDistinct ==
  ASSUME NEW o \in Orders
  PROVE  IsSequence(o) /\ Distinct(o) /\ Elements(o) = Codes
<1>1. o \in Seq(Codes) /\ Elements(o) = Codes /\ Len(o) = Cardinality(Codes)
  BY EngineAssumption DEF ToSet, Elements
<1>2. IsFiniteSet(Codes) /\ Cardinality(Codes) \in Nat
  <2>1. IsFiniteSet(Codes)
    BY PipelineAssumption
  <2> QED BY <2>1, FS_CardinalityType
<1> PICK n \in Nat : n = Cardinality(Codes)
  BY <1>2
<1>3. DOMAIN o = 1 .. n /\ o \in [1 .. n -> Codes]
  BY <1>1, <1>2
<1>4. o \in Surjection(1 .. n, Codes)
  BY <1>1, <1>3 DEF Surjection, Elements
<1>5. IsFiniteSet(1 .. n) /\ Cardinality(1 .. n) = n
  BY IntervalCount
<1>6. o \in Injection(1 .. n, Codes)
  BY <1>4, <1>5, FS_Surjection
<1> QED BY <1>1, <1>2, <1>3, <1>6 DEF Injection, IsInjective, IsSequence, Distinct

\* What the tables and the history of an account are.
Readable ==
  /\ version \in Versions /\ confirmed \in Seq(Account)
  /\ row \in PublishedRows \cup {Null} /\ IsFiniteSet(terms)

\* A generation reads a context of those the lemmas are about.
LEMMA ContextIsRead ==
  ASSUME Readable, row # Null, NEW o \in Orders
  PROVE  IsContext(Context(o))
<1> DEFINE ctx == Context(o)
           aliases == {t \in Applicable : IsAlias(t)}
           others == {t \in Applicable :
                        ~IsAlias(t) /\ t.type \notin {"industry_term", "negative_term"}}
<1>1. /\ ctx.observation = Observation(row) /\ ctx.version = version
      /\ ctx.history = confirmed /\ ctx.order = o
      /\ ctx.aliases = AccountsOf(aliases) /\ ctx.terms = AccountsOf(others)
  BY DEF Context
<1>2. Observation(row).name \in Names
  BY EngineAssumption DEF Observation, Classify, Classified, Readable, Row
<1>3. IsFiniteSet(aliases) /\ IsFiniteSet(others)
  <2>1. aliases \subseteq terms /\ others \subseteq terms
    BY DEF Applicable
  <2> HIDE DEF aliases, others
  <2> QED BY <2>1, FS_Subset DEF Readable
<1>4. IsSequence(AccountsOf(aliases)) /\ IsSequence(AccountsOf(others))
  <2> HIDE DEF aliases, others
  <2> QED BY <1>3, ListedAccounts
<1>5. IsSequence(confirmed)
  BY DEF Readable, IsSequence
<1> HIDE DEF ctx, aliases, others
<1> QED BY <1>1, <1>2, <1>4, <1>5, OrderIsDistinct DEF ctx, IsContext, Readable

\* Two orders of the catalogue read the same tables.
LEMMA ContextsAreSame ==
  ASSUME NEW o \in Orders, NEW p \in Orders
  PROVE  SameTables(Context(o), Context(p))
<1>1. ASSUME NEW q \in Orders
      PROVE  Elements(InOrder(Context(q))) = {<<c, version>> : c \in Codes}
  <2>1. InOrder(Context(q)) = [i \in DOMAIN q |-> <<q[i], version>>]
    BY DEF InOrder, Context
  <2>2. {q[i] : i \in DOMAIN q} = Codes
    BY OrderIsDistinct DEF Elements
  <2> DEFINE s == [i \in DOMAIN q |-> <<q[i], version>>]
  <2>3. \A x : x \in Elements(s) <=> \E i \in DOMAIN q : x = <<q[i], version>>
    BY DEF Elements
  <2>4. \A x : x \in Elements(s) <=> \E c \in Codes : x = <<c, version>>
    BY <2>2, <2>3
  <2> HIDE DEF s
  <2>5. Elements(s) = {<<c, version>> : c \in Codes}
    BY <2>4
  <2> QED BY <2>1, <2>5 DEF s
<1>2. Elements(InOrder(Context(o))) = Elements(InOrder(Context(p)))
  BY <1>1
<1> QED BY <1>2 DEF SameTables, Context

\* What is found by a generation is a sequence of accounts compatible with the
\* row, and what is found in the history has the code of a confirmed account.
LEMMA FoundIsCompatible ==
  ASSUME NEW ctx, IsContext(ctx)
  PROVE  LET found == Resolve(ctx).candidates IN
         /\ IsSequence(found)
         /\ \A i \in DOMAIN found : found[i].account \in Destinations(ctx)
         /\ found # <<>> => 1 \in DOMAIN found
         /\ found # <<>> /\ found[1].type = "historical_company_mapping" =>
              \A i \in DOMAIN found : \E j \in DOMAIN ctx.history :
                found[i].account = ResolveReference(ctx.history[j], ctx.version)
<1> DEFINE layers == Layers(ctx)
           first == FirstFound(layers)
           found == ByScore(first)
           H == FromReferences(ctx, ctx.history, "historical_company_mapping")
<1>1. Resolve(ctx).candidates = found
  BY DEF Resolve, Outcome
<1>2. /\ DOMAIN layers = 1 .. 6
      /\ \A k \in 1 .. 6 : IsLayer(layers[k]) /\ Fits(layers[k], ctx, Types[k])
      /\ layers[1] = H
  BY LayersAreLayers
<1> HIDE DEF layers, H
<1>3. CASE first = <<>>
  <2>1. IsLayer(first)
    <3> HIDE DEF first
    <3> QED BY <1>3, EmptyIsLayer
  <2>2. DOMAIN found = DOMAIN first
    BY <2>1, SortedByScore DEF IsLayer
  <2>3. found = [i \in DOMAIN first |-> found[i]]
    BY DEF ByScore
  <2>4. found = <<>>
    <3> HIDE DEF found, first
    <3> QED BY <1>3, <2>3
  <2>5. IsSequence(found)
    <3>1. IsSequence(first)
      BY <2>1 DEF IsLayer
    <3> HIDE DEF found, first
    <3> QED BY <3>1, <1>3, <2>4
  <2> HIDE DEF found
  <2> QED BY <1>1, <2>4, <2>5
<1>4. CASE first # <<>>
  <2>1. PICK k \in 1 .. 6 : first = layers[k]
    <3> DEFINE filled == {i \in 1 .. 6 : layers[i] # <<>>}
    <3>1. /\ filled = {} => first = <<>>
          /\ filled # {} => Min(filled) \in filled /\ first = layers[Min(filled)]
      <4>1. filled = {i \in 1 .. 6 : layers[i] # <<>>}
        OBVIOUS
      <4> HIDE DEF filled
      <4> QED BY <1>2, <4>1, FirstFoundIs
    <3>2. \A i \in filled : i \in 1 .. 6
      OBVIOUS
    <3> HIDE DEF filled, first
    <3> QED BY <3>1, <3>2, <1>4
  <2> HIDE DEF first
  <2>2. IsLayer(first) /\ Fits(first, ctx, Types[k])
    BY <2>1, <1>2
  <2>3. DOMAIN found = DOMAIN first /\ Elements(found) = Elements(first)
    BY <2>2, SortedByScore DEF IsLayer
  <2> HIDE DEF found
  <2>4. \A i \in DOMAIN found : \E j \in DOMAIN first : found[i] = first[j]
    BY <2>3 DEF Elements
  <2>5. 1 \in DOMAIN found
    <3>1. DOMAIN first # {}
      BY <1>4, <2>2, EmptyLayer
    <3> QED BY <3>1, <2>2, <2>3 DEF IsLayer, IsSequence
  <2>6. \A i \in DOMAIN found :
          found[i].account \in Destinations(ctx) /\ found[i].type = Types[k]
    BY <2>2, <2>4 DEF Fits
  <2>7. ASSUME found[1].type = "historical_company_mapping"
        PROVE  \A i \in DOMAIN found : \E j \in DOMAIN ctx.history :
                 found[i].account = ResolveReference(ctx.history[j], ctx.version)
    <3>1. k = 1
      BY <2>5, <2>6, <2>7 DEF Types
    <3>2. \A i \in DOMAIN first : \E j \in DOMAIN ctx.history :
            first[i].account = ResolveReference(ctx.history[j], ctx.version)
      BY <3>1, <2>1, <1>2, ReferencesLayer DEF H, IsContext
    <3> QED BY <3>2, <2>4
  <2>8. IsSequence(found)
    BY <2>2, <2>3 DEF IsLayer, IsSequence
  <2> QED BY <1>1, <2>5, <2>6, <2>7, <2>8
<1> QED BY <1>3, <1>4
-----------------------------------------------------------------------------
(* Sections of the balance. *)

\* The first that is known is the one no known one comes before.
LEMMA FirstIs ==
  ASSUME NEW s, DOMAIN s = 1 .. 6, NEW k \in 1 .. 6, Known(s[k]),
         \A j \in 1 .. k - 1 : ~Known(s[j])
  PROVE  First(s) = s[k]
<1> DEFINE Is(i) == Known(s[i]) /\ \A j \in 1 .. i - 1 : ~Known(s[j])
<1>1. Is(k)
  OBVIOUS
<1>2. ASSUME NEW i \in 1 .. 6, Is(i) PROVE i = k
  <2>1. ~(i < k)
    BY <1>2
  <2>2. ~(k < i)
    BY <1>2
  <2> QED BY <2>1, <2>2
<1>3. First(s) = s[CHOOSE i \in DOMAIN s : Is(i)]
  BY DEF First
<1> HIDE DEF Is
<1>4. (CHOOSE i \in 1 .. 6 : Is(i)) = k
  BY <1>1, <1>2
<1> QED BY <1>3, <1>4

\* An ordinary name says neither that the account is complementary nor equity.
Ordinary(n) == ~Says(n, "contra") /\ About[n].section # "equity"

\* The columns of a balance are finitely many.
LEMMA ColumnsAreFinite ==
  ASSUME NEW columns \in SUBSET BalanceSections
  PROVE  IsFiniteSet(columns)
<1>1. IsFiniteSet({"asset"}) /\ IsFiniteSet({"liability"}) /\ IsFiniteSet({"expense"})
      /\ IsFiniteSet({"income"})
  BY FS_Singleton
<1>2. IsFiniteSet({"asset"} \cup {"liability"}) /\ IsFiniteSet({"expense"} \cup {"income"})
  BY <1>1, FS_Union
<1>3. IsFiniteSet(({"asset"} \cup {"liability"}) \cup ({"expense"} \cup {"income"}))
  BY <1>2, FS_Union
<1>4. BalanceSections = ({"asset"} \cup {"liability"}) \cup ({"expense"} \cup {"income"})
  BY DEF BalanceSections
<1> QED BY <1>3, <1>4, FS_Subset

\* A row with an ordinary name and one column is observed in it.
LEMMA ObservedByColumn ==
  ASSUME NEW n, Ordinary(n), NEW columns \in SUBSET BalanceSections,
         Cardinality(columns) = 1
  PROVE  /\ columns = {ObservedSection(n, columns, "none", NoKnowledge)}
<1>1. PICK c : columns = {c}
  BY ColumnsAreFinite, FS_Singleton
<1>2. Only(columns) = c /\ Known(c) /\ ~(Cardinality(columns) > 1)
  BY <1>1 DEF Only, Known, BalanceSections
<1>3. \A x2, x3, x4, x5, x6 : First(<<c, x2, x3, x4, x5, x6>>) = c
  <2> SUFFICES ASSUME NEW x2, NEW x3, NEW x4, NEW x5, NEW x6
               PROVE  First(<<c, x2, x3, x4, x5, x6>>) = c
    OBVIOUS
  <2> DEFINE s == <<c, x2, x3, x4, x5, x6>>
  <2>1. DOMAIN s = 1 .. 6 /\ s[1] = c
    OBVIOUS
  <2> HIDE DEF s
  <2>2. First(s) = s[1]
    BY <2>1, <1>2, FirstIs
  <2> QED BY <2>1, <2>2 DEF s
<1>4. ~(Says(n, "contra") \/ NoKnowledge.contra)
      /\ "equity" \notin {About[n].section, NoKnowledge.section}
  BY DEF Ordinary, NoKnowledge
<1>5. ObservedSection(n, columns, "none", NoKnowledge) = c
  BY <1>2, <1>3, <1>4 DEF ObservedSection
<1> QED BY <1>1, <1>5

\* An account of a chapter of the balance, with an ordinary name, is classified in it.
LEMMA ObservedByChapter ==
  ASSUME NEW n, Ordinary(n), NEW chapter \in {"asset", "liability"}
  PROVE  ObservedSection(n, {}, chapter, NoKnowledge) = chapter
<1>1. Cardinality({}) = 0 /\ Cardinality({}) = 0
  BY FS_EmptySet
<1>2. Only({}) = "unknown" /\ ~(Cardinality({}) > 1)
  BY <1>1 DEF Only
<1>3. Known(chapter) /\ chapter \in Sections /\ ~Known("unknown")
  BY DEF Known, Sections, BalanceSections
<1>4. \A x4, x5, x6 : First(<<"unknown", "unknown", chapter, x4, x5, x6>>) = chapter
  <2> SUFFICES ASSUME NEW x4, NEW x5, NEW x6
               PROVE  First(<<"unknown", "unknown", chapter, x4, x5, x6>>) = chapter
    OBVIOUS
  <2> DEFINE s == <<"unknown", "unknown", chapter, x4, x5, x6>>
  <2>1. DOMAIN s = 1 .. 6 /\ s[1] = "unknown" /\ s[2] = "unknown" /\ s[3] = chapter
    OBVIOUS
  <2> HIDE DEF s
  <2>2. First(s) = s[3]
    BY <2>1, <1>3, FirstIs
  <2> QED BY <2>1, <2>2 DEF s
<1>5. /\ ~(Says(n, "contra") \/ NoKnowledge.contra)
      /\ "equity" \notin {About[n].section, NoKnowledge.section}
      /\ NoKnowledge.section = "unknown"
  BY DEF Ordinary, NoKnowledge
<1> QED BY <1>2, <1>3, <1>4, <1>5 DEF ObservedSection
-----------------------------------------------------------------------------
(* The invariant of a generation. *)

\* What a generation of the pipeline left without review was found compatible.
LeadersFit ==
  \A s \in live :
    result.engine = "v2" /\ s.status = "active" /\ s.rank = 1 =>
      /\ result.row \in PublishedRows /\ s.account \in AllAccounts
      /\ Compatible(Observation(result.row), s.account)

\* The inductive invariant of the engines.
EngineInv == Readable /\ HistoryKeepsItsCode /\ LeadersFit

\* What was found compatible is in the column of its row.
LEMMA FitIsInBalance == LeadersFit => ActiveFitsBalance
<1> SUFFICES ASSUME LeadersFit, NEW s \in live,
                    result.engine = "v2", s.status = "active", s.rank = 1,
                    Ordinary(result.row.name), Ordinary(NameOf(s.account)),
                    KnowledgeOf(s.account) = NoKnowledge,
                    Cardinality({c \in BalanceSections : result.row.amounts[c] > 0}) = 1,
                    Chapter[s.account[1]] \in {"asset", "liability"}
             PROVE  {c \in BalanceSections : result.row.amounts[c] > 0}
                      = {Chapter[s.account[1]]}
  BY DEF ActiveFitsBalance, Ordinary
<1> DEFINE columns == {c \in BalanceSections : result.row.amounts[c] > 0}
           source == Observation(result.row)
           target == Destination[s.account]
           chapter == Chapter[s.account[1]]
<1>1. /\ s.account \in AllAccounts
      /\ ~Excluded(source, target)
  BY DEF LeadersFit, Compatible
<1>2. source.section = ObservedSection(result.row.name, columns, "none", NoKnowledge)
  BY DEF Observation, Classify, Classified
<1>3. target.section = ObservedSection(NameOf(s.account), {}, chapter, NoKnowledge)
  BY <1>1 DEF Destination, Classify, Classified
<1>4. columns = {source.section} /\ source.section \in BalanceSections
  <2>1. columns \in SUBSET BalanceSections /\ Cardinality(columns) = 1
    OBVIOUS
  <2> HIDE DEF columns, source
  <2>2. columns = {source.section}
    BY <2>1, <1>2, ObservedByColumn
  <2> QED BY <2>1, <2>2
<1>5. target.section = chapter
  <2> HIDE DEF target
  <2> QED BY <1>3, ObservedByChapter
<1>6. ~Conflict(Base(source.section), Base(target.section))
  <2> HIDE DEF source, target
  <2> QED BY <1>1 DEF Excluded
<1> HIDE DEF source, target
<1>7. source.section = chapter
  BY <1>4, <1>5, <1>6 DEF Conflict, Base, Known, BalanceSections
<1> QED BY <1>4, <1>7

\* A function on a finite set has finitely many values.
LEMMA FiniteElements ==
  ASSUME NEW f, IsFiniteSet(DOMAIN f)
  PROVE  IsFiniteSet({f[x] : x \in DOMAIN f})
<1> DEFINE S == DOMAIN f
           g == [x \in S |-> f[x]]
           T == {f[x] : x \in S}
<1>1. g \in Surjection(S, T)
  BY DEF Surjection
<1> HIDE DEF g, T
<1> QED BY <1>1, FS_Surjection DEF T

\* Initially nothing is suggested.
LEMMA EngineInitInv ==
  ASSUME EngineInit PROVE EngineInv
<1>1. IsFiniteSet(terms) /\ confirmed \in Seq(Account)
  BY FS_EmptySet DEF EngineInit
<1>2. Readable
  BY <1>1, PipelineAssumption DEF Readable, EngineInit
<1>3. HistoryKeepsItsCode /\ LeadersFit
  BY DEF EngineInit, NoResult, HistoryKeepsItsCode, LeadersFit
<1> QED BY <1>2, <1>3 DEF EngineInv

\* What becomes of the suggestions when some of them are left.
LEMMA LeftFit ==
  ASSUME EngineInv, NEW left \in SUBSET live, LiveBecomes(left)
  PROVE  /\ LeadersFit'
         /\ result' = result \/ result' = NoResult
<1>1. result' = result \/ result' = NoResult
  BY DEF LiveBecomes
<1>2. live' \subseteq live
  BY DEF LiveBecomes
<1>3. NoResult.engine # "v2"
  BY DEF NoResult
<1>4. \A s \in live' : result'.engine = "v2" => s \in live /\ result' = result
  BY <1>1, <1>2, <1>3
<1>5. LeadersFit
  BY DEF EngineInv
<1> QED BY <1>1, <1>4, <1>5 DEF LeadersFit

\* A confirmation keeps those already there, and retires suggestions.
LEMMA ConfirmInv ==
  ASSUME EngineInv, NEW code \in Decidable, Confirm(code)
  PROVE  EngineInv'
<1> DEFINE a == <<code, version>>
<1>1. /\ code \in DOMAIN Catalogues[version] /\ confirmed' = <<a>> \o confirmed
      /\ terms' = terms \cup {Term(a, name, "alias", "company", 6000)}
      /\ version' = version /\ row' = row
      /\ LiveBecomes(AfterDecision(a))
  BY DEF Confirm
<1>2. version \in Versions /\ confirmed \in Seq(Account) /\ IsFiniteSet(terms)
      /\ row \in PublishedRows \cup {Null}
  BY DEF EngineInv, Readable
<1>3. a \in Account
  BY <1>1, <1>2, PipelineAssumption DEF Account
<1> HIDE DEF a
<1>4. /\ confirmed' \in Seq(Account)
      /\ \A j \in DOMAIN confirmed : j + 1 \in DOMAIN confirmed' /\ confirmed'[j + 1] = confirmed[j]
  <2> DEFINE h == confirmed'
  <2>1. h = <<a>> \o confirmed /\ <<a>> \in Seq(Account) /\ Len(<<a>>) = 1
    BY <1>1, <1>3
  <2>2. h \in Seq(Account) /\ Len(h) = Len(confirmed) + 1
    BY <2>1, <1>2
  <2>3. ASSUME NEW j \in DOMAIN confirmed
        PROVE  j + 1 \in DOMAIN h /\ h[j + 1] = confirmed[j]
    BY <2>1, <2>2, <1>2
  <2> QED BY <2>2, <2>3
<1>5. IsFiniteSet(terms')
  <2> DEFINE t == Term(a, name, "alias", "company", 6000)
  <2>1. terms' = terms \cup {t}
    BY <1>1
  <2> HIDE DEF t
  <2>2. IsFiniteSet({t})
    BY FS_Singleton
  <2> QED BY <2>1, <2>2, <1>2, FS_Union
<1>6. Readable'
  BY <1>1, <1>2, <1>4, <1>5 DEF Readable, Versions, Account, Codes
<1>7. LeadersFit' /\ (result' = result \/ result' = NoResult)
  <2>1. AfterDecision(a) \in SUBSET live
    BY DEF AfterDecision
  <2> QED BY <2>1, <1>1, LeftFit
<1>8. HistoryKeepsItsCode'
  <2>1. NoResult.kind # "historical_company_mapping"
    BY DEF NoResult
  <2>2. HistoryKeepsItsCode
    BY DEF EngineInv
  <2> SUFFICES ASSUME result'.kind = "historical_company_mapping",
                      NEW i \in DOMAIN result'.accounts
               PROVE  \E j \in DOMAIN confirmed' : confirmed'[j][1] = result'.accounts[i][1]
    BY DEF HistoryKeepsItsCode
  <2>3. result' = result
    BY <2>1, <1>7
  <2>4. PICK j \in DOMAIN confirmed : confirmed[j][1] = result.accounts[i][1]
    BY <2>2, <2>3 DEF HistoryKeepsItsCode
  <2> QED BY <2>3, <2>4, <1>4
<1> QED BY <1>6, <1>7, <1>8 DEF EngineInv

\* A rejection only retires suggestions.
LEMMA RejectInv ==
  ASSUME EngineInv, Reject PROVE EngineInv'
<1>1. /\ version' = version /\ row' = row /\ confirmed' = confirmed /\ terms' = terms
      /\ LiveBecomes({s \in live : s.rank # 1})
  BY DEF Reject
<1>2. LeadersFit' /\ (result' = result \/ result' = NoResult)
  BY <1>1, LeftFit
<1>3. HistoryKeepsItsCode'
  BY <1>1, <1>2 DEF EngineInv, HistoryKeepsItsCode, NoResult
<1>4. Readable'
  BY <1>1 DEF EngineInv, Readable
<1> QED BY <1>2, <1>3, <1>4 DEF EngineInv

\* The steps of the tables leave the suggestions alone.
LEMMA TablesInv ==
  ASSUME EngineInv, Readable', UNCHANGED <<confirmed, live, result>>
  PROVE  EngineInv'
BY DEF EngineInv, HistoryKeepsItsCode, LeadersFit

\* A later import brings another version of the catalogue.
LEMMA ReimportInv ==
  ASSUME EngineInv, Reimport PROVE EngineInv'
<1>1. Readable'
  BY DEF EngineInv, Readable, Reimport, Versions, Account, Codes
<1> QED BY <1>1, TablesInv DEF Reimport

\* A balance publishes one of its rows.
LEMMA PublishInv ==
  ASSUME EngineInv, NEW r \in PublishedRows, Publish(r) PROVE EngineInv'
<1>1. Readable'
  BY DEF EngineInv, Readable, Publish, Versions, Account, Codes
<1> QED BY <1>1, TablesInv DEF Publish

\* The terms of an import are finitely many.
LEMMA SyncTermsInv ==
  ASSUME EngineInv, SyncTerms
  PROVE  EngineInv'
<1> DEFINE current == Current(version)
           official == [a \in current |->
                          Term(a, NameOf(a), "official_name", "global", 4500)]
           chosen == {c \in Curated : c.code \in DOMAIN Catalogues[version]}
           curated == [t \in chosen |->
                         Term(<<t.code, version>>, t.name, t.type, "global", t.weight)]
<1>1. terms' = (terms \cup {official[a] : a \in DOMAIN official})
                 \cup {curated[t] : t \in DOMAIN curated}
  BY DEF SyncTerms
<1>2. IsFiniteSet(DOMAIN official)
  <2> DEFINE listed == [c \in DOMAIN Catalogues[version] |-> <<c, version>>]
  <2>1. IsFiniteSet(DOMAIN listed)
    <3>1. DOMAIN Catalogues[version] \subseteq Codes /\ IsFiniteSet(Codes)
      BY PipelineAssumption DEF EngineInv, Readable
    <3> QED BY <3>1, FS_Subset
  <2>2. current = {listed[c] : c \in DOMAIN listed}
    BY DEF Current
  <2> HIDE DEF listed, current
  <2> QED BY <2>1, <2>2, FiniteElements
<1>3. IsFiniteSet(DOMAIN curated)
  <2>1. chosen \subseteq Curated /\ IsFiniteSet(Curated)
    BY RankingAssumption
  <2> HIDE DEF chosen
  <2> QED BY <2>1, FS_Subset
<1>4. IsFiniteSet(terms)
  BY DEF EngineInv, Readable
<1> HIDE DEF official, curated
<1>5. IsFiniteSet(terms')
  <2>1. IsFiniteSet({official[a] : a \in DOMAIN official})
    BY <1>2, FiniteElements
  <2>2. IsFiniteSet({curated[t] : t \in DOMAIN curated})
    BY <1>3, FiniteElements
  <2>3. IsFiniteSet(terms \cup {official[a] : a \in DOMAIN official})
    BY <2>1, <1>4, FS_Union
  <2> QED BY <2>2, <2>3, <1>1, FS_Union
<1>6. Readable'
  BY <1>5 DEF EngineInv, Readable, SyncTerms, Versions, Account, Codes
<1> QED BY <1>6, TablesInv DEF SyncTerms

\* What the pipeline writes for immediate approval is the leader of what it found.
LEMMA GenerateWithV2Inv ==
  ASSUME EngineInv,
         NEW o \in Orders, GenerateWithV2(o)
  PROVE  EngineInv'
<1> DEFINE ctx == Context(o)
           r == Resolve(ctx)
           found == r.candidates
           kind == IF found = <<>> THEN "none" ELSE found[1].type
           accounts == [i \in DOMAIN found |-> found[i].account]
           status == PipelineStatus(r.decision)
<1>1. row # Null /\ Write("v2", kind, accounts, status)
  BY DEF GenerateWithV2
<1>2. /\ UNCHANGED <<version, row, confirmed, terms>>
      /\ live' = Written(accounts, status)
      /\ result' = IF status = "none" THEN NoResult
                   ELSE [engine |-> "v2", kind |-> kind, accounts |-> accounts, row |-> row]
  <2> HIDE DEF accounts, kind, status
  <2> QED BY <1>1 DEF Write
<1>3. /\ \A i \in DOMAIN found : found[i].account \in Destinations(ctx)
      /\ found # <<>> => 1 \in DOMAIN found
      /\ found # <<>> /\ found[1].type = "historical_company_mapping" =>
           \A i \in DOMAIN found : \E j \in DOMAIN ctx.history :
             found[i].account = ResolveReference(ctx.history[j], ctx.version)
  <2>1. IsContext(ctx)
    BY <1>1, ContextIsRead DEF EngineInv
  <2> HIDE DEF ctx
  <2> QED BY <2>1, FoundIsCompatible
<1>4. ctx.history = confirmed /\ ctx.version = version /\ ctx.observation = Observation(row)
  BY DEF Context
<1>5. r.decision = Decide(found)
  BY DEF Resolve, Outcome
<1> HIDE DEF ctx, r
<1>6. status = "active" => 1 \in DOMAIN found
  <2> HIDE DEF found
  <2> QED BY <1>3, <1>5 DEF PipelineStatus, Decide
<1> HIDE DEF found
<1>7. Readable'
  BY <1>2 DEF EngineInv, Readable, Versions, Account, Codes
<1>8. HistoryKeepsItsCode'
  <2> SUFFICES ASSUME result'.kind = "historical_company_mapping",
                      NEW i \in DOMAIN result'.accounts
               PROVE  \E j \in DOMAIN confirmed : confirmed[j][1] = result'.accounts[i][1]
    BY <1>2 DEF HistoryKeepsItsCode
  <2>1. result'.accounts = accounts /\ kind = "historical_company_mapping"
    BY <1>2 DEF NoResult
  <2>2. i \in DOMAIN found /\ result'.accounts[i] = found[i].account
    BY <2>1
  <2>3. found[i].account \in Current(version)
    BY <2>2, <1>3, <1>4 DEF Destinations
  <2>4. PICK j \in DOMAIN confirmed : found[i].account = ResolveReference(confirmed[j], version)
    BY <2>1, <2>2, <1>3, <1>4
  <2>5. found[i].account # Null
    BY <2>3, PipelineAssumption DEF EngineInv, Readable, Current, Account
  <2>6. found[i].account = <<confirmed[j][1], version>>
    BY <2>4, <2>5 DEF ResolveReference
  <2> QED BY <2>2, <2>6
<1>9. LeadersFit'
  <2> SUFFICES ASSUME NEW s \in live', result'.engine = "v2", s.status = "active", s.rank = 1
               PROVE  /\ row \in PublishedRows /\ result'.row = row
                      /\ s.account \in AllAccounts
                      /\ Compatible(Observation(row), s.account)
    BY DEF LeadersFit
  <2>1. status # "none" /\ result'.row = row
    BY <1>2 DEF NoResult
  <2>2. PICK i \in 1 .. Min({5, Len(accounts)}) :
          s = [account |-> accounts[i], rank |-> i, status |-> status]
    <3> HIDE DEF status, accounts
    <3> QED BY <1>2, <2>1 DEF Written, Rows
  <2>3. status = "active" /\ s.account = accounts[1]
    <3> HIDE DEF status, accounts
    <3> QED BY <2>2
  <2>4. s.account \in Destinations(ctx)
    BY <2>3, <1>3, <1>6
  <2>5. s.account \in Current(version) /\ Compatible(Observation(row), s.account)
    BY <2>4, <1>4 DEF Destinations
  <2>6. s.account \in AllAccounts
    BY <2>5 DEF AllAccounts, EngineInv, Readable
  <2>7. row \in PublishedRows
    BY <1>1 DEF EngineInv, Readable
  <2> QED BY <2>1, <2>5, <2>6, <2>7
<1> QED BY <1>7, <1>8, <1>9 DEF EngineInv

\* The other engine does not write what the properties are about.
LEMMA GenerateWithV7Inv ==
  ASSUME EngineInv, GenerateWithV7 PROVE EngineInv'
<1>1. PICK accounts, status : Write("v7", "ranked", accounts, status)
  BY DEF GenerateWithV7
<1>2. /\ UNCHANGED <<version, row, confirmed, terms>>
      /\ result' = IF status = "none" THEN NoResult
                   ELSE [engine |-> "v7", kind |-> "ranked", accounts |-> accounts, row |-> row]
  BY <1>1 DEF Write
<1>3. result'.engine # "v2" /\ result'.kind # "historical_company_mapping"
  BY <1>2 DEF NoResult
<1>4. Readable'
  BY <1>2 DEF EngineInv, Readable, Versions, Account, Codes
<1> QED BY <1>3, <1>4 DEF EngineInv, LeadersFit, HistoryKeepsItsCode
-----------------------------------------------------------------------------
(* Every step of the engines, and what follows. *)

\* Every step keeps the invariant.
LEMMA EngineStep ==
  ASSUME EngineInv, [EngineNext]_engineVars
  PROVE  EngineInv'
<1>1. CASE EngineNext
  <2>1. ASSUME NEW c \in Decidable, Confirm(c) PROVE EngineInv'
    BY <2>1, ConfirmInv
  <2>2. CASE Reject
    BY <2>2, RejectInv
  <2>3. CASE Reimport
    BY <2>3, ReimportInv
  <2>4. CASE SyncTerms
    BY <2>4, SyncTermsInv
  <2>5. ASSUME NEW r \in PublishedRows, Publish(r) PROVE EngineInv'
    BY <2>5, PublishInv
  <2>6. ASSUME NEW o \in Orders, GenerateWithV2(o) PROVE EngineInv'
    BY <2>6, GenerateWithV2Inv
  <2>7. CASE GenerateWithV7
    BY <2>7, GenerateWithV7Inv
  <2> QED BY <1>1, <2>1, <2>2, <2>3, <2>4, <2>5, <2>6, <2>7 DEF EngineNext
<1>2. CASE UNCHANGED engineVars
  <2>1. UNCHANGED <<version, row, confirmed, terms, live, result>>
    BY <1>2 DEF engineVars
  <2>2. Readable'
    BY <2>1 DEF EngineInv, Readable, Versions, Account, Codes
  <2> QED BY <2>1, <2>2, TablesInv
<1> QED BY <1>1, <1>2

\* The invariant holds of every execution of the engines, for every catalogue, every
\* knowledge and every table of what names say.
THEOREM EngineInvariant == EngineSpec => []EngineInv
<1>1. EngineInit => EngineInv
  BY EngineInitInv
<1>2. EngineInv /\ [EngineNext]_engineVars => EngineInv'
  BY EngineStep
<1> QED BY <1>1, <1>2, PTL DEF EngineSpec

\* The candidate suggested does not depend on the order the catalogue is read in.
LEMMA AnyOrder ==
  ASSUME Readable
  PROVE  WinnerIgnoresOrder
<1> SUFFICES ASSUME row # Null
             PROVE  Cardinality({Winner(Resolve(Context(o))) : o \in Orders}) = 1
  BY DEF WinnerIgnoresOrder
<1> DEFINE W(o) == Winner(Resolve(Context(o)))
<1>1. PICK o \in Orders : TRUE
  BY EngineAssumption
<1>2. ASSUME NEW p \in Orders PROVE W(p) = W(o)
  BY ContextIsRead, ContextsAreSame, OrderIsNoMatter
<1> HIDE DEF W
<1>3. {W(p) : p \in Orders} = {W(o)}
  BY <1>1, <1>2
<1>4. Cardinality({W(p) : p \in Orders}) = 1
  BY <1>3, FS_Singleton
<1> QED BY <1>4 DEF W

\* The audit tells apart what the filter of sections refuses in one.
LEMMA UnknownDoesNotFit ==
  ASSUME NEW observed, NEW target, ~Known(target.section), Known(observed)
  PROVE  ~SectionFits(observed, target)
BY DEF Known, SectionFits

\* The first reason to discard is none exactly for what is kept.
LEMMA AuditIsFilter ==
  ASSUME NEW r, NEW c
  PROVE  Kept(r, c) <=> Discarded(r, c) = "kept"
<1> DEFINE o == ObservedByRanking(r)
<1>1. ~Known(c.is.section) /\ Known(o) => ~SectionFits(o, c.is)
  BY UnknownDoesNotFit
<1> HIDE DEF o
<1> QED BY <1>1 DEF Kept, Discarded, o

\* Candidates are told apart by their evidence and never by the order in which the
\* catalogue was read (suggestion-decision.service.ts, resolver-support.ts).
THEOREM OrderIsIgnored == EngineSpec => []WinnerIgnoresOrder
<1>1. EngineInv => WinnerIgnoresOrder
  BY AnyOrder DEF EngineInv
<1> QED BY <1>1, EngineInvariant, PTL

\* Confirmations of an older import suggest only accounts with their codes, whatever
\* the later imports did with the names (historical-company-mapping-resolver.service.ts).
THEOREM HistoryIsKept == EngineSpec => []HistoryKeepsItsCode
<1>1. EngineInv => HistoryKeepsItsCode
  BY DEF EngineInv
<1> QED BY <1>1, EngineInvariant, PTL

\* Nothing approvable without review leaves the column of its row, whatever the words
\* of the names say (account-observation-classifier and account-compatibility-filter).
THEOREM ActiveFits == EngineSpec => []ActiveFitsBalance
<1>1. EngineInv => ActiveFitsBalance
  BY FitIsInBalance DEF EngineInv
<1> QED BY <1>1, EngineInvariant, PTL
-----------------------------------------------------------------------------
\* What a reason of the ranking may be, and its points.
Signals ==
  {"exact", "token_similarity", "lexical_similarity", "jaccard", "character_trigrams",
   "prefix_match", "canonical", "learning", "expert", "exact_concept",
   "accounting_family_match", "statement_section_match", "balance_nature_match",
   "temporal_classification_match", "contra_account_match", "balance_match",
   "balance_mismatch", "nature_match", "nature_mismatch", "rule", "negative_term",
   "bank_institution_cash_match", "history", "family_match", "classification_match",
   "concept_match", "term_match", "compatible_statement_section"}

Reason == [signal : Signals, points : Int]

\* One reason, and none.
LEMMA OneReason ==
  ASSUME NEW signal \in Signals, NEW points \in Int
  PROVE  <<>> \in Seq(Reason) /\ <<[signal |-> signal, points |-> points]>> \in Seq(Reason)
BY DEF Reason

\* A reason that may hold or not.
LEMMA OfIsReasons ==
  ASSUME NEW holds \in BOOLEAN, NEW signal \in Signals, NEW points \in Int
  PROVE  Of(holds, signal, points) \in Seq(Reason)
BY OneReason DEF Of

\* Reasons one after the other.
LEMMA JoinedReasons ==
  ASSUME NEW s \in Seq(Reason), NEW t \in Seq(Reason)
  PROVE  s \o t \in Seq(Reason)
OBVIOUS

\* The same reason as many times as there are concepts that name the row.
LEMMA TimesIsReasons ==
  ASSUME NEW n \in Nat, NEW signal \in Signals, NEW points \in Int
  PROVE  Times(n, signal, points) \in Seq(Reason)
<1>1. [signal |-> signal, points |-> points] \in Reason
  BY DEF Reason
<1> QED BY <1>1 DEF Times

\* One reason for each row of a finite table, whatever the order they are read in.
LEMMA EachIsReasons ==
  ASSUME NEW rows, IsFiniteSet(rows), NEW signal \in Signals, NEW points,
         \A x \in rows : points[x] \in Int
  PROVE  Each(rows, signal, points) \in Seq(Reason)
<1> DEFINE n == Cardinality(rows)
           list == SetToSeq(rows)
<1>1. n \in Nat /\ \E f \in [1 .. n -> rows] : IsInjective(f)
  BY FS_CardinalityType DEF ExistsBijection, Bijection, Injection
<1>3. list = CHOOSE f \in [1 .. n -> rows] : IsInjective(f)
  BY DEF SetToSeq
<1> HIDE DEF n, list
<1>4. list \in [1 .. n -> rows]
  BY <1>1, <1>3
<1>5. Each(rows, signal, points)
        = [i \in 1 .. n |-> [signal |-> signal, points |-> points[list[i]]]]
  BY <1>4 DEF Each, list
<1>6. \A i \in 1 .. n : [signal |-> signal, points |-> points[list[i]]] \in Reason
  BY <1>4 DEF Reason
<1> QED BY <1>1, <1>5, <1>6

\* The greatest of finitely many numbers.
LEMMA MaxIsMember ==
  ASSUME NEW S \in SUBSET Int, IsFiniteSet(S), S # {}
  PROVE  Max(S) \in S
<1> DEFINE before == {p \in S \X S : p[1] > p[2]}
           o == Sorted(S, before)
<1>1. Chain(S, before)
  BY DEF Chain
<1>2. \A x, y \in S : <<x, y>> \in before => x >= y
  OBVIOUS
<1> HIDE DEF before
<1>3. /\ DOMAIN o = 1 .. Cardinality(S) /\ Cardinality(S) \in Nat
      /\ \A i \in DOMAIN o : o[i] \in S
      /\ \A x \in S : \E i \in DOMAIN o : o[i] = x
      /\ \A i, j \in DOMAIN o : i < j => <<o[i], o[j]>> \in before /\ o[i] # o[j]
  BY <1>1, SortedChain
<1> HIDE DEF o
<1>4. 1 \in DOMAIN o
  <2>1. PICK x \in S : TRUE
    OBVIOUS
  <2>2. PICK i \in DOMAIN o : o[i] = x
    BY <1>3
  <2>3. i \in 1 .. Cardinality(S)
    BY <1>3
  <2> QED BY <1>3, <2>3
<1>5. ASSUME NEW y \in S PROVE o[1] >= y
  <2>1. PICK i \in DOMAIN o : o[i] = y
    BY <1>3
  <2>2. CASE i = 1
    BY <2>1, <2>2, <1>3, <1>4
  <2>3. CASE i # 1
    <3>1. 1 < i
      BY <2>3, <1>3
    <3>2. <<o[1], o[i]>> \in before /\ o[1] \in S
      BY <3>1, <1>3, <1>4
    <3> QED BY <2>1, <3>2, <1>2
  <2> QED BY <2>2, <2>3
<1>6. \E x \in S : \A y \in S : x >= y
  BY <1>3, <1>4, <1>5
<1> QED BY <1>6 DEF Max

\* The best of finitely many percentages, none included, is a number.
LEMMA BestIsNumber ==
  ASSUME NEW S \in SUBSET Int, IsFiniteSet(S)
  PROVE  Best(S) \in Int
<1>1. CASE S = {}
  BY <1>1 DEF Best
<1>2. CASE S # {}
  <2>1. Max(S) \in S
    BY <1>2, MaxIsMember
  <2> QED BY <1>2, <2>1 DEF Best
<1> QED BY <1>1, <1>2

\* A set of numbers without a least one is empty.
LEMMA Descent ==
  ASSUME NEW bad \in SUBSET Nat, \A k \in bad : \E j \in bad : j < k
  PROVE  bad = {}
<1> SUFFICES ASSUME bad # {} PROVE FALSE
  OBVIOUS
<1>1. PICK k \in bad : \A j \in bad : <<j, k>> \notin OpToRel(<, Nat)
  BY WFMin, NatLessThanWellFounded
<1>2. PICK j \in bad : j < k
  OBVIOUS
<1> QED BY <1>1, <1>2 DEF OpToRel

\* The points of a sequence of reasons add up to a number.
LEMMA TotalIsInteger ==
  ASSUME NEW reasons \in Seq(Reason)
  PROVE  Total(reasons) \in Int
<1> DEFINE n == Len(reasons)
           Sums(k, f) == /\ f \in [0 .. k -> Int] /\ f[0] = 0
                         /\ \A i \in 1 .. k : f[i] = f[i - 1] + reasons[i].points
           bad == {k \in 0 .. n : \A f : ~Sums(k, f)}
           S(f) == [i \in 0 .. n |-> IF i = 0 THEN 0 ELSE f[i - 1] + reasons[i].points]
           sum == CHOOSE f : f = S(f)
           wrong == {k \in 0 .. n : sum[k] \notin Int}
<1>1. n \in Nat /\ \A i \in 1 .. n : reasons[i].points \in Int
  <2>1. n \in Nat /\ \A i \in 1 .. n : reasons[i] \in Reason
    OBVIOUS
  <2> QED BY <2>1 DEF Reason
<1>2. Total(reasons) = sum[n]
  BY DEF Total
<1> HIDE DEF n
<1>3. ASSUME NEW k \in bad PROVE k - 1 \in bad /\ k \in 1 .. n
  <2>1. k # 0
    <3> DEFINE f == [i \in 0 .. 0 |-> 0]
    <3>1. Sums(0, f)
      OBVIOUS
    <3> HIDE DEF Sums, f
    <3> QED BY <3>1
  <2>2. k - 1 \in 0 .. n /\ k \in 1 .. n
    BY <1>1, <2>1
  <2>3. ASSUME NEW f, Sums(k - 1, f) PROVE \E g : Sums(k, g)
    <3> DEFINE g == [i \in 0 .. k |-> IF i = k THEN f[k - 1] + reasons[k].points ELSE f[i]]
    <3>1. f[k - 1] + reasons[k].points \in Int
      BY <1>1, <2>2, <2>3
    <3>2. g \in [0 .. k -> Int] /\ g[0] = 0
      BY <2>2, <2>3, <3>1
    <3>3. ASSUME NEW i \in 1 .. k PROVE g[i] = g[i - 1] + reasons[i].points
      <4>1. CASE i = k
        BY <2>2, <4>1
      <4>2. CASE i # k
        BY <2>2, <2>3, <4>2
      <4> QED BY <4>1, <4>2
    <3>4. Sums(k, g)
      BY <3>2, <3>3
    <3> HIDE DEF Sums, g
    <3> QED BY <3>4
  <2> HIDE DEF Sums
  <2> QED BY <2>2, <2>3
<1>4. \E f : Sums(n, f)
  <2>1. bad \in SUBSET Nat /\ \A k \in bad : k - 1 < k
    BY <1>1
  <2>2. bad = {}
    <3> HIDE DEF bad
    <3> QED BY <1>3, <2>1, Descent
  <2>3. n \in 0 .. n
    BY <1>1
  <2> HIDE DEF Sums
  <2>4. ~(n \in 0 .. n /\ \A f : ~Sums(n, f))
    BY <2>2
  <2> QED BY <2>3, <2>4
<1>5. PICK f : f = S(f)
  <2>1. PICK f : Sums(n, f)
    <3> HIDE DEF Sums
    <3> QED BY <1>4
  <2>2. /\ f = [i \in 0 .. n |-> f[i]] /\ f[0] = 0
        /\ \A i \in 1 .. n : f[i] = f[i - 1] + reasons[i].points
    BY <2>1
  <2>3. \A i \in 0 .. n : i # 0 => i \in 1 .. n
    BY <1>1
  <2>4. f = S(f)
    BY <2>2, <2>3
  <2> HIDE DEF S
  <2> QED BY <2>4
<1>6. sum = S(sum)
  <2> HIDE DEF S
  <2> QED BY <1>5
<1> HIDE DEF sum, bad
<1>7. ASSUME NEW k \in wrong PROVE k - 1 \in wrong
  <2>1. k # 0
    BY <1>1, <1>6
  <2>2. k - 1 \in 0 .. n /\ sum[k] = sum[k - 1] + reasons[k].points
    BY <1>1, <1>6, <2>1
  <2>3. reasons[k].points \in Int
    BY <1>1, <2>1
  <2> QED BY <2>2, <2>3
<1>8. wrong = {}
  <2>1. wrong \in SUBSET Nat /\ \A k \in wrong : k - 1 < k
    BY <1>1
  <2> HIDE DEF wrong
  <2> QED BY <1>7, <2>1, Descent
<1> QED BY <1>1, <1>2, <1>8
-----------------------------------------------------------------------------
\* A row of the table of terms, and a term of a candidate.
IsTerm(t) == t.name \in Names /\ t.type \in TermTypes /\ t.weight \in Int

\* What the ranking knows of an account of the catalogue.
IsCandidate(c) ==
  /\ c.code \in Codes /\ c.name \in Names
  /\ \A t \in c.terms : IsTerm(t) /\ t.type # "negative_term"
  /\ IsFiniteSet(c.negative) /\ \A t \in c.negative : IsTerm(t)

\* How alike two names are is in percentages.
LEMMA LikenessTyped ==
  ASSUME NEW m \in Names, NEW n \in Names
  PROVE  LET like == Likeness[m, n] IN
         /\ like.tokens \in 0 .. 100 /\ like.lexical \in 0 .. 100
         /\ like.jaccard \in 0 .. 100 /\ like.trigrams \in 0 .. 100
<1> DEFINE like == Likeness[m, n]
<1>1. like \in LikenessFacts
  BY PipelineAssumption
<1> HIDE DEF like
<1> QED BY <1>1 DEF LikenessFacts, like

\* Bounded numbers are finitely many.
LEMMA BoundedIsFinite ==
  ASSUME NEW a \in Int, NEW b \in Int, NEW S, \A x \in S : x \in Int /\ a <= x /\ x <= b
  PROVE  IsFiniteSet(S) /\ S \in SUBSET Int
<1>1. IsFiniteSet(a .. b)
  BY FS_Interval
<1>2. S \subseteq a .. b
  OBVIOUS
<1>3. IsFiniteSet(S)
  BY <1>1, <1>2, FS_Subset
<1> QED BY <1>3

\* The greatest of some percentages.
LEMMA BestPercentage ==
  ASSUME NEW S, \A x \in S : x \in Int /\ 0 <= x /\ x <= 100
  PROVE  Best(S) \in Int
<1>1. IsFiniteSet(S) /\ S \in SUBSET Int
  BY BoundedIsFinite
<1> QED BY <1>1, BestIsNumber

\* What the name and the terms of an account give to the name of a row: exact
\* weights, tokens, letters, trigrams and prefixes (scoreTerms).
LEMMA TermReasonsTyped ==
  ASSUME NEW n \in Names, NEW c, IsCandidate(c)
  PROVE  TermReasons(n, c) \in Seq(Reason)
<1> DEFINE exact == (IF n = c.name THEN {Weight.official_name} ELSE {})
                    \cup {IF t.scope = "company" THEN Weight.company ELSE Weight[t.type] :
                            t \in {u \in c.terms : u.name = n}}
           near == ({c.name} \cup {t.name : t \in c.terms}) \ {n}
           by(m) == Likeness[n, m]
           token == Best({by(m).tokens : m \in near})
           lexical == Best({by(m).lexical : m \in near})
           like == Likeness[n, c.name]
           shape == IF like.generic THEN <<>>
                    ELSE Of(like.jaccard > 0, "jaccard", Rounded(24, like.jaccard))
                         \o Of(like.trigrams > 0, "character_trigrams", Rounded(18, like.trigrams))
                         \o Of(like.prefix, "prefix_match", 800)
           alike == Of(token >= 34, "token_similarity", Rounded(30, token))
                    \o Of(lexical >= 34, "lexical_similarity", Rounded(25, lexical)) \o shape
<1>1. ASSUME NEW w \in exact PROVE w \in Int /\ 5000 <= w /\ w <= 8000
  <2>1. \A t \in c.terms : t.type \in {"official_name", "alias", "abbreviation",
                                       "manual_term", "erp_term", "industry_term"}
    BY DEF IsCandidate, IsTerm, TermTypes
  <2> DEFINE weights == {5000, 5500, 6000, 8000}
  <2>2. /\ Weight.official_name \in weights /\ Weight.company \in weights
        /\ Weight["official_name"] \in weights /\ Weight["alias"] \in weights
        /\ Weight["abbreviation"] \in weights /\ Weight["manual_term"] \in weights
        /\ Weight["erp_term"] \in weights /\ Weight["industry_term"] \in weights
    BY DEF Weight
  <2>3. \A t \in c.terms : Weight[t.type] \in weights
    BY <2>1, <2>2
  <2>4. CASE w = Weight.official_name
    BY <2>2, <2>4
  <2>5. CASE w # Weight.official_name
    <3>1. PICK t \in c.terms : w = IF t.scope = "company" THEN Weight.company ELSE Weight[t.type]
      BY <2>5
    <3>2. CASE t.scope = "company"
      BY <2>2, <3>1, <3>2
    <3>3. CASE t.scope # "company"
      BY <2>3, <3>1, <3>3
    <3> QED BY <3>2, <3>3
  <2> QED BY <2>4, <2>5
<1>2. near \subseteq Names /\ c.name \in Names
  BY DEF IsCandidate, IsTerm
<1>3. ASSUME NEW m \in near
      PROVE  /\ by(m).tokens \in Int /\ 0 <= by(m).tokens /\ by(m).tokens <= 100
             /\ by(m).lexical \in Int /\ 0 <= by(m).lexical /\ by(m).lexical <= 100
  <2>1. by(m).tokens \in 0 .. 100 /\ by(m).lexical \in 0 .. 100
    <3>1. m \in Names
      BY <1>2
    <3> HIDE DEF near
    <3> QED BY <3>1, LikenessTyped
  <2> HIDE DEF by
  <2> QED BY <2>1
<1>4. token \in Int /\ lexical \in Int
  <2> DEFINE tokens == {by(m).tokens : m \in near}
             lexicals == {by(m).lexical : m \in near}
  <2>1. /\ \A x \in tokens : x \in Int /\ 0 <= x /\ x <= 100
        /\ \A x \in lexicals : x \in Int /\ 0 <= x /\ x <= 100
    <3> HIDE DEF near, by
    <3> QED BY <1>3
  <2> HIDE DEF tokens, lexicals
  <2>2. Best(tokens) \in Int /\ Best(lexicals) \in Int
    BY <2>1, BestPercentage
  <2> HIDE DEF near, by
  <2> QED BY <2>2 DEF tokens, lexicals
<1>5. like.jaccard \in Int /\ like.trigrams \in Int
  <2>1. like.jaccard \in 0 .. 100 /\ like.trigrams \in 0 .. 100
    BY <1>2, LikenessTyped
  <2> HIDE DEF like
  <2> QED BY <2>1
<1>6. TermReasons(n, c) = IF exact # {} THEN Of(TRUE, "exact", Max(exact)) ELSE alike
  BY DEF TermReasons
<1> HIDE DEF exact, near, by, token, lexical, like
<1>7. shape \in Seq(Reason)
  <2>1. Rounded(24, like.jaccard) \in Int /\ Rounded(18, like.trigrams) \in Int
    BY <1>5 DEF Rounded
  <2>2. /\ Of(like.jaccard > 0, "jaccard", Rounded(24, like.jaccard)) \in Seq(Reason)
        /\ Of(like.trigrams > 0, "character_trigrams", Rounded(18, like.trigrams)) \in Seq(Reason)
        /\ Of(like.prefix, "prefix_match", 800) \in Seq(Reason)
    BY <2>1, OneReason DEF Of, Signals
  <2> QED BY <2>2, JoinedReasons
<1> HIDE DEF shape
<1>8. alike \in Seq(Reason)
  <2>1. Rounded(30, token) \in Int /\ Rounded(25, lexical) \in Int
    BY <1>4 DEF Rounded
  <2>2. /\ Of(token >= 34, "token_similarity", Rounded(30, token)) \in Seq(Reason)
        /\ Of(lexical >= 34, "lexical_similarity", Rounded(25, lexical)) \in Seq(Reason)
    BY <2>1, OneReason DEF Of, Signals
  <2> QED BY <2>2, <1>7, JoinedReasons
<1> HIDE DEF alike
<1>9. exact # {} => Of(TRUE, "exact", Max(exact)) \in Seq(Reason)
  <2>1. IsFiniteSet(exact) /\ exact \in SUBSET Int
    BY <1>1, BoundedIsFinite
  <2>2. exact # {} => Max(exact) \in Int
    BY <2>1, MaxIsMember
  <2> QED BY <2>2, OneReason DEF Of, Signals
<1> QED BY <1>6, <1>8, <1>9

\* What is left of points that add up to more than eight hundred.
LEMMA CanonicalTyped ==
  ASSUME NEW reasons \in Seq(Reason)
  PROVE  Canonical(reasons, Total(reasons)) \in Seq(Reason)
<1> DEFINE total == Total(reasons)
           n == Len(reasons)
<1>1. total \in Int
  BY TotalIsInteger
<1> HIDE DEF total
<1>2. n \in Nat /\ DOMAIN reasons = 1 .. n /\ \A i \in 1 .. n : reasons[i].points \in Int
  <2>1. n \in Nat /\ DOMAIN reasons = 1 .. n /\ \A i \in 1 .. n : reasons[i] \in Reason
    OBVIOUS
  <2> QED BY <2>1 DEF Reason
<1> HIDE DEF n
<1> DEFINE share(i) == IF total <= 800 THEN reasons[i].points
                       ELSE (reasons[i].points * 800) \div total
<1>3. ASSUME NEW i \in 1 .. n PROVE share(i) \in Int
  <2> DEFINE p == reasons[i].points
  <2>1. p \in Int
    BY <1>2
  <2> HIDE DEF p
  <2>2. CASE total <= 800
    BY <2>1, <2>2 DEF p
  <2>3. CASE ~(total <= 800)
    <3>1. p * 800 \in Int /\ total \in Nat \ {0}
      BY <1>1, <2>1, <2>3
    <3>2. (p * 800) \div total \in Int
      BY <3>1
    <3> QED BY <3>2, <2>3 DEF p
  <2> QED BY <2>2, <2>3
<1>4. Canonical(reasons, total) = [i \in 1 .. n |-> [signal |-> "canonical", points |-> share(i)]]
  BY <1>2 DEF Canonical
<1> HIDE DEF share
<1>5. ASSUME NEW i \in 1 .. n
      PROVE  [signal |-> "canonical", points |-> share(i)] \in Reason
  <2>1. share(i) \in Int
    BY <1>3
  <2> QED BY <2>1 DEF Reason, Signals
<1>6. Canonical(reasons, total) \in Seq(Reason)
  BY <1>2, <1>4, <1>5
<1> QED BY <1>6 DEF total
-----------------------------------------------------------------------------
\* What was learned from the company and from its industry.
LEMMA LearningTyped ==
  ASSUME NEW r, NEW c
  PROVE  LearningReasons(r, c) \in Seq(Reason)
<1> DEFINE found == {l \in Learned : l.code = c.code /\ l.name = r.name}
           own == [l \in Learned |-> 30 * l.confidence]
           shared == [l \in Learned |-> (30 * l.industry) \div 4]
<1>1. \A l \in Learned : own[l] \in Int /\ shared[l] \in Int
  <2> TAKE l \in Learned
  <2>1. l.confidence \in Int /\ l.industry \in Int
    BY RankingAssumption
  <2> QED BY <2>1
<1>2. found \subseteq Learned /\ IsFiniteSet(Learned)
  BY RankingAssumption
<1> HIDE DEF own, shared
<1>3. ASSUME NEW rows, rows \subseteq Learned, NEW signal \in {"learning", "expert"}
      PROVE  Each(rows, signal, own) \in Seq(Reason) /\ Each(rows, signal, shared) \in Seq(Reason)
  <2>1. IsFiniteSet(rows) /\ signal \in Signals
    BY <1>2, <1>3, FS_Subset DEF Signals
  <2> QED BY <1>1, <1>3, <2>1, EachIsReasons
<1> DEFINE e == {l \in found : l.experts}
           i == {l \in found : l.industry > 0}
           x == {l \in found : l.industryExperts}
<1>4. e \subseteq Learned /\ i \subseteq Learned /\ x \subseteq Learned
  BY <1>2
<1>5. LearningReasons(r, c) = Each(found, "learning", own) \o Each(e, "expert", own)
                              \o Each(i, "learning", shared) \o Each(x, "expert", shared)
  BY DEF LearningReasons, own, shared
<1> HIDE DEF found, e, i, x
<1>6. /\ Each(found, "learning", own) \in Seq(Reason) /\ Each(e, "expert", own) \in Seq(Reason)
      /\ Each(i, "learning", shared) \in Seq(Reason) /\ Each(x, "expert", shared) \in Seq(Reason)
  BY <1>2, <1>3, <1>4
<1> QED BY <1>5, <1>6, JoinedReasons

\* What the concepts of the knowledge give to an account.
LEMMA ConceptTyped ==
  ASSUME NEW n, NEW c
  PROVE  ConceptReasons(n, c) \in Seq(Reason)
<1> DEFINE own == {k \in Concepts : k.code = c.code}
           inside == {k \in own : n \in k.within}
           type(t, signal) == Of(\E k \in own : k.type = t /\ SourceFact(n, t) \in k.fits,
                                 signal, ConceptWeight[t])
<1>1. Cardinality(inside) \in Nat
  <2>1. inside \subseteq Concepts /\ IsFiniteSet(Concepts)
    BY RankingAssumption
  <2> HIDE DEF inside
  <2>2. IsFiniteSet(inside)
    BY <2>1, FS_Subset
  <2> QED BY <2>2, FS_CardinalityType
<1>2. ConceptReasons(n, c)
        = Times(Cardinality(inside), "exact_concept", 3500)
          \o type("accounting_family", "accounting_family_match")
          \o type("statement_section", "statement_section_match")
          \o type("balance_nature", "balance_nature_match")
          \o type("temporal_classification", "temporal_classification_match")
          \o type("contra_account_indicator", "contra_account_match")
  BY DEF ConceptReasons
<1>3. ASSUME NEW t \in DOMAIN ConceptWeight, NEW signal \in Signals
      PROVE  type(t, signal) \in Seq(Reason)
  <2>1. ConceptWeight[t] \in Int
    BY DEF ConceptWeight
  <2> QED BY <2>1, OneReason DEF Of
<1> HIDE DEF inside, type
<1>4. Times(Cardinality(inside), "exact_concept", 3500) \in Seq(Reason)
  <2>1. "exact_concept" \in Signals /\ 3500 \in Int /\ Cardinality(inside) \in Nat
    BY <1>1 DEF Signals
  <2> QED BY <2>1, TimesIsReasons
<1>5. /\ type("accounting_family", "accounting_family_match") \in Seq(Reason)
      /\ type("statement_section", "statement_section_match") \in Seq(Reason)
      /\ type("balance_nature", "balance_nature_match") \in Seq(Reason)
      /\ type("temporal_classification", "temporal_classification_match") \in Seq(Reason)
      /\ type("contra_account_indicator", "contra_account_match") \in Seq(Reason)
  BY <1>3 DEF ConceptWeight, Signals
<1> QED BY <1>2, <1>4, <1>5, JoinedReasons

\* What the columns of the balance give to an account, or take from it.
LEMMA ContextTyped ==
  ASSUME NEW r, NEW c
  PROVE  ContextReasons(r, c) \in Seq(Reason)
<1> DEFINE has(column) == r.amounts[column] # 0
           column == CASE has("liability") -> "liability" [] has("asset") -> "asset"
                       [] has("expense") -> "expense" [] has("income") -> "income"
                       [] OTHER -> "none"
           fits == column = c.is.section \/ (c.is.contra /\ column = "asset")
           nature == IF has("credit") THEN "credit" ELSE "debit"
           balance == Of(column # "none", IF fits THEN "balance_match" ELSE "balance_mismatch",
                         IF fits THEN 1500 ELSE -5000)
           natural == Of(has("debit") \/ has("credit"),
                         IF nature = c.is.nature THEN "nature_match" ELSE "nature_mismatch",
                         IF nature = c.is.nature THEN 1000 ELSE -3500)
<1>1. ContextReasons(r, c) = balance \o natural
  BY DEF ContextReasons
<1>2. balance \in Seq(Reason)
  <2> HIDE DEF column, fits
  <2>1. CASE fits
    BY <2>1, OneReason DEF Of, Signals
  <2>2. CASE ~fits
    BY <2>2, OneReason DEF Of, Signals
  <2> QED BY <2>1, <2>2
<1>3. natural \in Seq(Reason)
  <2> HIDE DEF has, nature
  <2>1. CASE nature = c.is.nature
    BY <2>1, OneReason DEF Of, Signals
  <2>2. CASE nature # c.is.nature
    BY <2>2, OneReason DEF Of, Signals
  <2> QED BY <2>1, <2>2
<1> HIDE DEF balance, natural
<1> QED BY <1>1, <1>2, <1>3, JoinedReasons

\* The greater of two numbers.
LEMMA MaxOfTwo ==
  ASSUME NEW a \in Int, NEW b \in Int
  PROVE  Max({a, b}) \in {a, b} /\ Max({a, b}) >= a /\ Max({a, b}) >= b
<1>1. \E x \in {a, b} : \A y \in {a, b} : x >= y
  OBVIOUS
<1> QED BY <1>1 DEF Max

\* The smaller of two numbers.
LEMMA MinOfTwo ==
  ASSUME NEW a \in Int, NEW b \in Int
  PROVE  Min({a, b}) \in {a, b} /\ Min({a, b}) <= a /\ Min({a, b}) <= b
<1>1. \E x \in {a, b} : \A y \in {a, b} : x <= y
  OBVIOUS
<1> QED BY <1>1 DEF Min

\* The rules written in the code are six, and the points of every rule are numbers.
LEMMA RulesTyped ==
  /\ IsFiniteSet(BuiltInRules \cup Rules)
  /\ \A r \in BuiltInRules \cup Rules : r.points \in Int
<1>1. ASSUME NEW a, NEW b, NEW c, NEW d, NEW e, NEW f
      PROVE  IsFiniteSet({a, b, c, d, e, f})
  <2>1. IsFiniteSet({a}) /\ IsFiniteSet({b}) /\ IsFiniteSet({c})
        /\ IsFiniteSet({d}) /\ IsFiniteSet({e}) /\ IsFiniteSet({f})
    BY FS_Singleton
  <2>2. IsFiniteSet({a} \cup {b}) /\ IsFiniteSet({c} \cup {d}) /\ IsFiniteSet({e} \cup {f})
    BY <2>1, FS_Union
  <2>3. IsFiniteSet(({a} \cup {b}) \cup ({c} \cup {d}))
    BY <2>2, FS_Union
  <2>4. IsFiniteSet((({a} \cup {b}) \cup ({c} \cup {d})) \cup ({e} \cup {f}))
    BY <2>2, <2>3, FS_Union
  <2>5. {a, b, c, d, e, f} = (({a} \cup {b}) \cup ({c} \cup {d})) \cup ({e} \cup {f})
    OBVIOUS
  <2> QED BY <2>4, <2>5
<1>2. IsFiniteSet(BuiltInRules)
  <2> DEFINE a == Rule("sales", [section |-> "expense"], "exclude", 0)
             b == Rule("cost", [section |-> "income"], "exclude", 0)
             c == Rule("capital", [section |-> "equity"], "score", 5000)
             d == Rule("ppm", [taxType |-> "ppm", section |-> "asset"], "score", 4500)
             e == Rule("withholding", [taxType |-> "withholding", section |-> "liability"],
                       "score", 4500)
             f == Rule("partner_account", <<>>, "review", 0)
  <2>1. BuiltInRules = {a, b, c, d, e, f}
    BY DEF BuiltInRules
  <2> HIDE DEF a, b, c, d, e, f
  <2> QED BY <1>1, <2>1
<1>3. \A r \in BuiltInRules : r.points \in Int
  BY DEF BuiltInRules, Rule
<1>4. IsFiniteSet(Rules) /\ \A r \in Rules : r.points \in Int
  BY RankingAssumption
<1>5. IsFiniteSet(BuiltInRules \cup Rules)
  BY <1>2, <1>4, FS_Union
<1> QED BY <1>3, <1>4, <1>5

\* What the ranking reads of a context.
IsRanked(ctx) ==
  /\ ctx.row \in Row /\ ctx.canonical \in Names /\ ctx.version \in Versions
  /\ IsFiniteSet(ctx.rows) /\ \A t \in ctx.rows : IsTerm(t)

\* What the canonical name of a row gives to an account.
LEMMA CanonicalReasonsTyped ==
  ASSUME NEW ctx, IsRanked(ctx), NEW c, IsCandidate(c)
  PROVE  CanonicalReasons(ctx, c) \in Seq(Reason)
<1> DEFINE reasons == IF ctx.canonical = ctx.row.name THEN <<>> ELSE TermReasons(ctx.canonical, c)
<1>1. TermReasons(ctx.canonical, c) \in Seq(Reason)
  BY TermReasonsTyped DEF IsRanked
<1>2. reasons \in Seq(Reason)
  BY <1>1
<1>3. CanonicalReasons(ctx, c) = Canonical(reasons, Total(reasons))
  BY DEF CanonicalReasons
<1> HIDE DEF reasons
<1> QED BY <1>2, <1>3, CanonicalTyped

\* Every reason of the ranking has a known signal and a whole number of points, also
\* where the code divides: the shares of an industry and of a canonical name.
LEMMA ReasonsTyped ==
  ASSUME NEW ctx, IsRanked(ctx), NEW c, IsCandidate(c)
  PROVE  Reasons(ctx, c) \in Seq(Reason)
<1> DEFINE n == ctx.row.name
           a == About[n]
           observed == ObservedByRanking(ctx.row)
           rules == {r \in Applying(ctx.row, c) : r.action = "score"}
           avoided == {t \in c.negative : About[t.name].words \subseteq a.words}
           common == Cardinality(a.words \cap About[c.name].words)
           costs == Says(n, "cost")
           ruled == Each(rules, "rule", [r \in rules |-> r.points])
           against == Each(avoided, "negative_term", [t \in avoided |-> -t.weight])
           shared == Of(common > 0, "concept_match", Min({2400, 800 * common}))
<1>1. n \in Names /\ c.name \in Names
  BY DEF IsRanked, IsCandidate, Row
<1>2. common \in Nat
  <2>1. IsFiniteSet(About[n].words) /\ a.words \cap About[c.name].words \subseteq About[n].words
    BY <1>1, RankingAssumption
  <2> DEFINE both == a.words \cap About[c.name].words
             words == About[n].words
  <2>2. IsFiniteSet(words) /\ both \subseteq words
    BY <2>1
  <2> HIDE DEF both, words
  <2>3. Cardinality(both) \in Nat
    BY <2>2, FS_Subset, FS_CardinalityType
  <2> QED BY <2>3 DEF both
<1>3. shared \in Seq(Reason)
  <2> HIDE DEF common
  <2>1. Min({2400, 800 * common}) \in Int
    <3> DEFINE m == 800 * common
    <3>1. m \in Int
      BY <1>2
    <3> HIDE DEF m
    <3>2. Min({2400, m}) \in {2400, m}
      BY <3>1, MinOfTwo
    <3> QED BY <3>1, <3>2 DEF m
  <2> QED BY <2>1, OneReason DEF Of, Signals
<1>4. ruled \in Seq(Reason)
  <2>1. rules \subseteq BuiltInRules \cup Rules
    BY DEF Applying
  <2> HIDE DEF rules
  <2>2. IsFiniteSet(rules)
    BY <2>1, RulesTyped, FS_Subset
  <2> DEFINE points == [r \in rules |-> r.points]
  <2>3. \A r \in rules : points[r] \in Int
    BY <2>1, RulesTyped
  <2> HIDE DEF points
  <2>4. Each(rules, "rule", points) \in Seq(Reason)
    BY <2>2, <2>3, EachIsReasons DEF Signals
  <2> QED BY <2>4 DEF points
<1>5. against \in Seq(Reason)
  <2>1. avoided \subseteq c.negative
    OBVIOUS
  <2> HIDE DEF avoided
  <2>2. IsFiniteSet(avoided)
    BY <2>1, FS_Subset DEF IsCandidate
  <2> DEFINE points == [t \in avoided |-> -t.weight]
  <2>3. \A t \in avoided : points[t] \in Int
    BY <2>1 DEF IsCandidate, IsTerm
  <2> HIDE DEF points
  <2>4. Each(avoided, "negative_term", points) \in Seq(Reason)
    BY <2>2, <2>3, EachIsReasons DEF Signals
  <2> QED BY <2>4 DEF points
<1> DEFINE bank == Of(Says(n, "bank_institution") /\ About[c.name].basicDestination = "cash_and_bank",
                      "bank_institution_cash_match", 1600)
           past == Of(ctx.history # <<>> /\ Head(ctx.history) = <<c.code, ctx.version>>,
                      "history", 10000)
           family == Of(a.commonFamily = c.is.family /\ c.is.family # "other", "family_match", 1600)
           class == Of(observed = "expense" /\ a.commonFamily = "expenses" /\ c.is.family = "expenses"
                         /\ Says(c.name, IF costs THEN "cost_destination" ELSE "expense_destination"),
                       "classification_match", 1600)
           term == Of(Agree(a.singularTerm, c.is.term), "term_match", 1000)
           contra == Of(c.is.contra /\ Says(n, "complementary"), "contra_account_match", 1400)
           section == Of(Known(observed), "compatible_statement_section", 0)
<1>6. Reasons(ctx, c)
        = TermReasons(n, c) \o CanonicalReasons(ctx, c) \o ruled \o against \o bank \o past
          \o LearningReasons(ctx.row, c) \o ConceptReasons(n, c) \o family \o class \o shared
          \o term \o contra \o ContextReasons(ctx.row, c) \o section
  BY DEF Reasons
<1> HIDE DEF observed, costs, ruled, against, shared
<1>7. bank \in Seq(Reason) /\ past \in Seq(Reason) /\ family \in Seq(Reason)
  BY OneReason DEF Of, Signals
<1>8. class \in Seq(Reason) /\ term \in Seq(Reason)
  BY OneReason DEF Of, Signals
<1>9. contra \in Seq(Reason) /\ section \in Seq(Reason)
  BY OneReason DEF Of, Signals
<1>10. /\ TermReasons(n, c) \in Seq(Reason) /\ CanonicalReasons(ctx, c) \in Seq(Reason)
       /\ LearningReasons(ctx.row, c) \in Seq(Reason) /\ ConceptReasons(n, c) \in Seq(Reason)
       /\ ContextReasons(ctx.row, c) \in Seq(Reason)
  BY <1>1, TermReasonsTyped, CanonicalReasonsTyped, LearningTyped, ConceptTyped, ContextTyped
<1> HIDE DEF n, bank, past, family, class, term, contra, section
<1> QED BY <1>3, <1>4, <1>5, <1>6, <1>7, <1>8, <1>9, <1>10, JoinedReasons
-----------------------------------------------------------------------------
\* What the ranking knows of one account.
CandidateOf(ctx, a) ==
  [code |-> a[1], name |-> NameOf(a), is |-> Metadata[a],
   terms |-> {t \in TermsOf(ctx.rows, a[1]) : t.type # "negative_term"},
   negative |-> {t \in TermsOf(ctx.rows, a[1]) : t.type = "negative_term"}]

\* The terms of an account: those of the table, and those that are curated.
LEMMA TermsOfTyped ==
  ASSUME NEW rows, IsFiniteSet(rows), \A t \in rows : IsTerm(t), NEW c
  PROVE  IsFiniteSet(TermsOf(rows, c)) /\ \A t \in TermsOf(rows, c) : IsTerm(t)
<1> DEFINE own == {u \in rows : u.account[1] = c}
           curated == {u \in Curated : u.code = c}
           f == [t \in own |-> [name |-> t.name, type |-> t.type, scope |-> t.scope,
                                weight |-> t.weight]]
           g == [t \in curated |-> [name |-> t.name, type |-> t.type, scope |-> "global",
                                    weight |-> t.weight]]
<1>1. TermsOf(rows, c) = {f[t] : t \in DOMAIN f} \cup {g[t] : t \in DOMAIN g}
  BY DEF TermsOf
<1>2. own \subseteq rows /\ curated \subseteq Curated /\ IsFiniteSet(Curated)
  BY RankingAssumption
<1>3. \A t \in own : IsTerm(f[t])
  BY DEF IsTerm
<1>4. \A t \in curated : IsTerm(g[t])
  BY RankingAssumption DEF IsTerm
<1>5. DOMAIN f = own /\ DOMAIN g = curated
  OBVIOUS
<1> HIDE DEF own, curated, f, g
<1>6. IsFiniteSet(DOMAIN f) /\ IsFiniteSet(DOMAIN g)
  BY <1>2, <1>5, FS_Subset
<1> DEFINE F == {f[t] : t \in DOMAIN f}
           G == {g[t] : t \in DOMAIN g}
<1>7. IsFiniteSet(F) /\ IsFiniteSet(G)
  BY <1>6, FiniteElements
<1>8. (\A t \in F : IsTerm(t)) /\ (\A t \in G : IsTerm(t))
  BY <1>3, <1>4, <1>5
<1> HIDE DEF F, G
<1>9. IsFiniteSet(F \cup G)
  BY <1>7, FS_Union
<1>10. TermsOf(rows, c) = F \cup G
  BY <1>1 DEF F, G
<1> QED BY <1>8, <1>9, <1>10

\* An account of the catalogue is read as a candidate with its own code.
LEMMA CandidateTyped ==
  ASSUME NEW ctx, IsRanked(ctx), NEW a \in Current(ctx.version)
  PROVE  /\ IsCandidate(CandidateOf(ctx, a)) /\ CandidateOf(ctx, a).code = a[1]
         /\ a = <<a[1], ctx.version>> /\ a \in AllAccounts /\ a \in Account
<1>1. PICK code \in DOMAIN Catalogues[ctx.version] : a = <<code, ctx.version>>
  BY DEF Current
<1>2. a \in AllAccounts /\ ctx.version \in Versions
  BY DEF AllAccounts, IsRanked
<1>3. a[1] \in Codes /\ NameOf(a) \in Names
  BY <1>1, <1>2, PipelineAssumption
<1> DEFINE known == TermsOf(ctx.rows, a[1])
           others == {t \in known : t.type # "negative_term"}
           negative == {t \in known : t.type = "negative_term"}
<1>4. IsFiniteSet(known) /\ \A t \in known : IsTerm(t)
  BY TermsOfTyped DEF IsRanked
<1> HIDE DEF known
<1>5. IsFiniteSet(negative)
  <2>1. negative \subseteq known
    OBVIOUS
  <2> HIDE DEF negative
  <2> QED BY <1>4, <2>1, FS_Subset
<1> DEFINE c == CandidateOf(ctx, a)
<1>6. c.code = a[1] /\ c.name = NameOf(a) /\ c.terms = others /\ c.negative = negative
  BY DEF CandidateOf, known
<1> HIDE DEF c
<1>7. IsCandidate(c)
  BY <1>3, <1>4, <1>5, <1>6 DEF IsCandidate
<1>8. a \in Account
  BY <1>1, <1>2, <1>3 DEF Account
<1> QED BY <1>1, <1>2, <1>6, <1>7, <1>8 DEF c

\* The candidates of a generation: one for each account of the current catalogue.
LEMMA CandidatesAre ==
  ASSUME NEW ctx, IsRanked(ctx)
  PROVE  /\ Candidates(ctx) = {CandidateOf(ctx, a) : a \in Current(ctx.version)}
         /\ IsFiniteSet(Candidates(ctx))
<1>1. Candidates(ctx) = {CandidateOf(ctx, a) : a \in Current(ctx.version)}
  BY DEF Candidates, CandidateOf
<1> DEFINE codes == DOMAIN Catalogues[ctx.version]
           f == [c \in codes |-> CandidateOf(ctx, <<c, ctx.version>>)]
<1>2. IsFiniteSet(codes)
  BY PipelineAssumption, FS_Subset DEF IsRanked
<1>3. Candidates(ctx) = {f[c] : c \in DOMAIN f}
  BY <1>1 DEF Current
<1>4. DOMAIN f = codes
  OBVIOUS
<1> HIDE DEF f, codes
<1>5. IsFiniteSet({f[c] : c \in DOMAIN f})
  BY <1>2, <1>4, FiniteElements
<1> QED BY <1>1, <1>3, <1>5

\* The filters do not look at the terms of an account.
LEMMA KeptByFacts ==
  ASSUME NEW r, NEW c, NEW d, c.code = d.code, c.name = d.name, c.is = d.is
  PROVE  Kept(r, c) <=> Kept(r, d)
<1>1. FactsOfPair(r, c) = FactsOfPair(r, d)
  BY DEF FactsOfPair
<1>2. Applying(r, c) = Applying(r, d)
  BY <1>1 DEF Applying
<1>3. By(r, c, "exclude") <=> By(r, d, "exclude")
  BY <1>2 DEF By
<1>4. Prepaid(r, c) <=> Prepaid(r, d)
  BY DEF Prepaid
<1>5. FamilyFits(BasicFamily(r), c) <=> FamilyFits(BasicFamily(r), d)
  BY DEF FamilyFits
<1>6. MeaningFits(r.name, c) <=> MeaningFits(r.name, d)
  BY DEF MeaningFits
<1> QED BY <1>3, <1>4, <1>5, <1>6 DEF Kept
-----------------------------------------------------------------------------
\* An account that is kept, with its points.
RankedOf(ctx, c) == RankedWith(ctx.row.name, c, Reasons(ctx, c))

\* Put in order by its points, a set has all of its members, and none of fewer
\* points before one of more.
LEMMA ByPointsOrder ==
  ASSUME NEW S, IsFiniteSet(S), \A r \in S : r.score \in Int /\ r.candidate.code \in Nat,
         \A r, q \in S : r.candidate.code = q.candidate.code => r = q
  PROVE  LET t == ByPoints(S) IN
         /\ IsSequence(t) /\ Elements(t) = S
         /\ \A i, j \in DOMAIN t : i < j => t[i].score >= t[j].score
<1> DEFINE before == {p \in S \X S :
                        \/ p[1].score > p[2].score
                        \/ p[1].score = p[2].score /\ p[1].candidate.code < p[2].candidate.code}
           t == ByPoints(S)
<1>1. t = Sorted(S, before)
  BY DEF ByPoints
<1>2. \A r, q \in S : <<r, q>> \in before <=>
         \/ r.score > q.score
         \/ r.score = q.score /\ r.candidate.code < q.candidate.code
  OBVIOUS
<1> HIDE DEF before, t
<1>3. Chain(S, before)
  BY <1>2 DEF Chain
<1>4. /\ DOMAIN t = 1 .. Cardinality(S) /\ Cardinality(S) \in Nat
      /\ \A i \in DOMAIN t : t[i] \in S
      /\ \A x \in S : \E i \in DOMAIN t : t[i] = x
      /\ \A i, j \in DOMAIN t : i < j => <<t[i], t[j]>> \in before /\ t[i] # t[j]
  BY <1>1, <1>3, SortedChain
<1>5. IsSequence(t) /\ Elements(t) = S
  BY <1>4 DEF IsSequence, Elements
<1>6. ASSUME NEW i \in DOMAIN t, NEW j \in DOMAIN t, i < j PROVE t[i].score >= t[j].score
  <2>1. t[i] \in S /\ t[j] \in S /\ <<t[i], t[j]>> \in before
    BY <1>4, <1>6
  <2>2. t[i].score > t[j].score \/ t[i].score = t[j].score
    BY <1>2, <2>1
  <2> QED BY <2>1, <2>2
<1> QED BY <1>5, <1>6 DEF t

\* Those that take part are finitely many, kept by the filters, and one for each code.
LEMMA RanksTyped ==
  ASSUME NEW ctx, IsRanked(ctx)
  PROVE  /\ IsFiniteSet(Ranks(ctx))
         /\ \A r \in Ranks(ctx) :
              /\ r.score \in Int /\ r.candidate.code \in Nat
              /\ r.candidate \in Candidates(ctx) /\ Kept(ctx.row, r.candidate)
              /\ r = RankedOf(ctx, r.candidate)
         /\ \A r, q \in Ranks(ctx) : r.candidate.code = q.candidate.code => r = q
<1> DEFINE kept == {d \in Candidates(ctx) : Kept(ctx.row, d)}
           f == [c \in kept |-> RankedOf(ctx, c)]
           all == {f[c] : c \in DOMAIN f}
<1>1. Ranks(ctx) \subseteq all
  BY DEF Ranks, RankedOf
<1>2. kept \subseteq Candidates(ctx)
  OBVIOUS
<1>3. IsFiniteSet(all)
  <2>1. DOMAIN f = kept
    OBVIOUS
  <2> HIDE DEF kept, f
  <2>2. IsFiniteSet(DOMAIN f)
    BY <1>2, <2>1, CandidatesAre, FS_Subset
  <2> QED BY <2>2, FiniteElements
<1>4. IsFiniteSet(Ranks(ctx))
  <2> HIDE DEF all
  <2> QED BY <1>1, <1>3, FS_Subset
<1>5. ASSUME NEW r \in Ranks(ctx)
      PROVE  /\ r.score \in Int /\ r.candidate.code \in Nat
             /\ r.candidate \in Candidates(ctx) /\ Kept(ctx.row, r.candidate)
             /\ r = RankedOf(ctx, r.candidate)
  <2>1. PICK c \in kept : r = RankedOf(ctx, c)
    BY DEF Ranks, RankedOf
  <2>2. r.candidate = c /\ r.score = Total(Reasons(ctx, c))
    BY <2>1 DEF RankedOf, RankedWith
  <2>3. PICK a \in Current(ctx.version) : c = CandidateOf(ctx, a)
    BY CandidatesAre
  <2>4. IsCandidate(c)
    BY <2>3, CandidateTyped
  <2>5. r.score \in Int
    BY <2>2, <2>4, ReasonsTyped, TotalIsInteger
  <2>6. c.code \in Nat
    BY <2>4, PipelineAssumption DEF IsCandidate
  <2> QED BY <2>1, <2>2, <2>5, <2>6
<1>6. ASSUME NEW r \in Ranks(ctx), NEW q \in Ranks(ctx), r.candidate.code = q.candidate.code
      PROVE  r = q
  <2>1. PICK a \in Current(ctx.version) : r.candidate = CandidateOf(ctx, a)
    BY <1>5, CandidatesAre
  <2>2. PICK b \in Current(ctx.version) : q.candidate = CandidateOf(ctx, b)
    BY <1>5, CandidatesAre
  <2>3. a = b
    BY <1>6, <2>1, <2>2, CandidateTyped
  <2> QED BY <1>5, <2>1, <2>2, <2>3
<1> QED BY <1>4, <1>5, <1>6

\* Those with enough evidence, from the most points to the fewest.
LEMMA EligibleAre ==
  ASSUME NEW ctx, IsRanked(ctx)
  PROVE  LET t == Eligible(ctx) IN
         /\ t \in Seq(Ranks(ctx))
         /\ Elements(t) = {r \in Ranks(ctx) : r.satisfied}
         /\ \A i, j \in DOMAIN t : i < j => t[i].score >= t[j].score
<1> DEFINE s == AllRanked(ctx)
           S == {r \in ToSet(s) : r.satisfied}
           t == Selected(s, S)
<1>1. s = ByPoints(Ranks(ctx))
  BY DEF AllRanked
<1>2. Eligible(ctx) = t
  BY DEF Eligible
<1>3. t = [i \in DOMAIN t |-> t[i]]
  BY DEF Selected
<1> HIDE DEF s
<1>4. /\ IsSequence(s) /\ Elements(s) = Ranks(ctx)
      /\ \A i, j \in DOMAIN s : i < j => s[i].score >= s[j].score
  BY <1>1, RanksTyped, ByPointsOrder
<1>5. S = {r \in Ranks(ctx) : r.satisfied}
  BY <1>4 DEF ToSet, Elements
<1> HIDE DEF S
<1>6. /\ IsSequence(t) /\ Elements(t) = Elements(s) \cap S
      /\ \A i, j \in DOMAIN t :
           i < j => \E k, l \in DOMAIN s : k < l /\ t[i] = s[k] /\ t[j] = s[l]
  BY <1>4, SelectedElements
<1> HIDE DEF t
<1>7. Elements(t) = {r \in Ranks(ctx) : r.satisfied}
  BY <1>4, <1>5, <1>6
<1>8. t \in Seq(Ranks(ctx))
  <2>1. PICK n \in Nat : DOMAIN t = 1 .. n
    BY <1>6 DEF IsSequence
  <2>2. \A i \in 1 .. n : t[i] \in Ranks(ctx)
    BY <1>7, <2>1 DEF Elements
  <2> QED BY <1>3, <2>1, <2>2
<1>9. \A i, j \in DOMAIN t : i < j => t[i].score >= t[j].score
  BY <1>4, <1>6
<1> QED BY <1>2, <1>7, <1>8, <1>9

\* What is shown of them: five at most, from the first.
LEMMA TopIs ==
  ASSUME NEW X, NEW s \in Seq(X)
  PROVE  LET t == Top(s) IN
         /\ Len(t) \in 0 .. 5 /\ DOMAIN t = 1 .. Len(t) /\ Len(t) <= Len(s)
         /\ Len(s) > 0 => Len(t) > 0
         /\ Len(s) > 1 => Len(t) > 1
         /\ \A i \in DOMAIN t : t[i].candidate = s[i].candidate /\ t[i].score = s[i].score
<1> DEFINE n == Min({5, Len(s)})
           t == Top(s)
<1>1. Len(s) \in Nat /\ n \in {5, Len(s)} /\ n <= 5 /\ n <= Len(s)
  <2>1. 5 \in Int /\ Len(s) \in Int /\ Len(s) \in Nat
    OBVIOUS
  <2> DEFINE m == Len(s)
             k == 5
  <2>2. m \in Int /\ k \in Int
    BY <2>1
  <2> HIDE DEF m, k
  <2>3. Min({k, m}) \in {k, m} /\ Min({k, m}) <= k /\ Min({k, m}) <= m
    BY <2>2, MinOfTwo
  <2> QED BY <2>1, <2>3 DEF m, k
<1> DEFINE shown(i) == [candidate |-> s[i].candidate, score |-> s[i].score, strong |-> s[i].strong,
                        confidence |-> Confidence(s[i], IF i < Len(s) THEN s[i + 1].score ELSE 0,
                                                  Len(s))]
<1>2. t = [i \in 1 .. n |-> shown(i)]
  BY DEF Top
<1>3. \A i : shown(i).candidate = s[i].candidate /\ shown(i).score = s[i].score
  OBVIOUS
<1> HIDE DEF n, t, shown
<1>4. n \in Nat
  BY <1>1
<1>5. Len(t) = n /\ DOMAIN t = 1 .. n
  <2>1. t \in Seq({shown(i) : i \in 1 .. n})
    BY <1>2, <1>4
  <2>2. DOMAIN t = 1 .. n
    BY <1>2
  <2> QED BY <1>4, <2>1, <2>2
<1>6. \A i \in DOMAIN t : t[i].candidate = s[i].candidate /\ t[i].score = s[i].score
  BY <1>2, <1>3, <1>5
<1> QED BY <1>1, <1>5, <1>6 DEF t

\* What is decided without review is not near the second.
LEMMA AutomaticIsAhead ==
  ASSUME NEW ctx, NEW X, NEW s \in Seq(X), \A i \in DOMAIN s : s[i].score \in Int,
         RankDecision(ctx, Top(s)) = "automatic"
  PROVE  /\ Len(s) > 0 /\ Top(s)[1].score = s[1].score /\ Top(s)[1].candidate = s[1].candidate
         /\ Len(s) > 1 => /\ s[1].score - s[2].score >= 800
                          /\ 100 * (s[1].score - s[2].score) >= 12 * s[1].score
<1> DEFINE t == Top(s)
           first == t[1]
           gap == first.score - (IF Len(t) > 1 THEN t[2].score ELSE 0)
           near == gap < 800 \/ 100 * gap < 12 * Max({first.score, 100})
<1>1. /\ Len(t) \in 0 .. 5 /\ DOMAIN t = 1 .. Len(t) /\ Len(t) <= Len(s)
      /\ Len(s) > 0 => Len(t) > 0
      /\ Len(s) > 1 => Len(t) > 1
      /\ \A i \in DOMAIN t : t[i].candidate = s[i].candidate /\ t[i].score = s[i].score
  BY TopIs
<1>2. t # <<>> /\ ~(Len(t) > 1 /\ near)
  <2> HIDE DEF t, near
  <2>1. RankDecision(ctx, t)
          = CASE t = <<>> -> "no_candidate"
              [] By(ctx.row, t[1].candidate, "review") \/ ~t[1].strong
                   \/ ~Known(t[1].candidate.is.section) \/ t[1].score < 4500 -> "review"
              [] Len(t) > 1 /\ near -> "ambiguous"
              [] t[1].confidence < 6000 -> "review"
              [] OTHER -> "automatic"
    BY DEF RankDecision, near
  <2>2. RankDecision(ctx, t) = "automatic"
    BY DEF t
  <2> QED BY <2>1, <2>2
<1> HIDE DEF t
<1>3. Len(s) > 0 /\ Len(t) > 0
  <2>1. Len(t) = 0 => t = <<>>
    BY <1>1
  <2> QED BY <1>1, <1>2, <2>1
<1>4. first.score = s[1].score /\ first.candidate = s[1].candidate
  BY <1>1, <1>3
<1>5. ASSUME Len(s) > 1
      PROVE  /\ s[1].score - s[2].score >= 800
             /\ 100 * (s[1].score - s[2].score) >= 12 * s[1].score
  <2>1. Len(t) > 1 /\ t[2].score = s[2].score
    BY <1>1, <1>5
  <2>2. s[1].score \in Int /\ s[2].score \in Int
    BY <1>5
  <2> DEFINE x == s[1].score
             y == s[2].score
             m == Max({x, 100})
  <2>3. ~(x - y < 800) /\ ~(100 * (x - y) < 12 * m)
    BY <1>2, <1>4, <2>1
  <2> HIDE DEF x, y
  <2>4. x \in Int /\ y \in Int
    BY <2>2 DEF x, y
  <2>5. m \in Int /\ m >= x
    <3> DEFINE k == 100
    <3>1. k \in Int
      OBVIOUS
    <3> HIDE DEF k
    <3>2. Max({x, k}) \in {x, k} /\ Max({x, k}) >= x
      BY <2>4, <3>1, MaxOfTwo
    <3> QED BY <2>4, <3>1, <3>2 DEF k
  <2> HIDE DEF m
  <2>6. x - y >= 800 /\ 100 * (x - y) >= 12 * x
    BY <2>3, <2>4, <2>5
  <2> QED BY <2>6 DEF x, y
<1> QED BY <1>3, <1>4, <1>5 DEF t

\* Whoever competes and is not the first is as far behind it as the second, or more.
LEMMA LeadOverRivals ==
  ASSUME NEW ctx, IsRanked(ctx), Rank(ctx).decision = "automatic", NEW c \in Rivals(ctx),
         c.code # Rank(ctx).top[1].candidate.code
  PROVE  LET lead == Rank(ctx).top[1]
             behind == lead.score - Total(Reasons(ctx, c))
         IN behind >= 800 /\ 100 * behind >= 12 * lead.score
<1> DEFINE s == Eligible(ctx)
           r == RankedOf(ctx, c)
<1>1. /\ s \in Seq(Ranks(ctx)) /\ Elements(s) = {q \in Ranks(ctx) : q.satisfied}
      /\ \A i, j \in DOMAIN s : i < j => s[i].score >= s[j].score
  BY EligibleAre
<1>2. Rank(ctx).top = Top(s) /\ RankDecision(ctx, Top(s)) = "automatic"
  BY DEF Rank, Ranking
<1>3. r \in Ranks(ctx) /\ r.satisfied /\ r.candidate = c /\ r.score = Total(Reasons(ctx, c))
  BY DEF Rivals, Ranks, RankedOf, RankedWith
<1> HIDE DEF s, r
<1>4. \A i \in DOMAIN s : s[i].score \in Int
  BY <1>1, RanksTyped
<1>5. /\ Len(s) > 0 /\ Top(s)[1].score = s[1].score /\ Top(s)[1].candidate = s[1].candidate
      /\ Len(s) > 1 => /\ s[1].score - s[2].score >= 800
                       /\ 100 * (s[1].score - s[2].score) >= 12 * s[1].score
  BY <1>1, <1>2, <1>4, AutomaticIsAhead
<1>6. PICK j \in DOMAIN s : s[j] = r
  BY <1>1, <1>3 DEF Elements
<1>7. j # 1
  BY <1>2, <1>3, <1>5, <1>6
<1>8. DOMAIN s = 1 .. Len(s) /\ Len(s) \in Nat
  BY <1>1
<1>9. Len(s) > 1 /\ j >= 2
  BY <1>6, <1>7, <1>8
<1>10. s[2].score >= s[j].score
  BY <1>1, <1>4, <1>8, <1>9, <1>6
<1> DEFINE x == s[1].score
           y == s[2].score
           z == s[j].score
<1>11. x \in Int /\ y \in Int /\ z \in Int
  BY <1>4, <1>6, <1>8, <1>9
<1>12. x - y >= 800 /\ 100 * (x - y) >= 12 * x /\ y >= z
  BY <1>5, <1>9, <1>10
<1>13. Rank(ctx).top[1].score = x /\ Total(Reasons(ctx, c)) = z
  BY <1>2, <1>3, <1>5, <1>6
<1> HIDE DEF x, y, z
<1>14. x - z >= 800 /\ 100 * (x - z) >= 12 * x
  BY <1>11, <1>12
<1> QED BY <1>13, <1>14
-----------------------------------------------------------------------------
\* The types of the engines, with those of the terms, which the ranking reads, and
\* what the ranking has written: the invariant of both theorems.
RankInv == EngineTypeOK /\ (\A t \in terms : IsTerm(t)) /\ RankedAreKept

\* A bounded sequence is one that is not longer.
LEMMA BoundedIs ==
  ASSUME NEW S, NEW n \in Nat, NEW s
  PROVE  s \in BoundedSeq(S, n) <=> s \in Seq(S) /\ Len(s) <= n
<1>1. ASSUME s \in BoundedSeq(S, n) PROVE s \in Seq(S) /\ Len(s) <= n
  <2>1. PICK m \in 0 .. n : s \in [1 .. m -> S]
    BY <1>1 DEF BoundedSeq, SeqOf
  <2>2. m \in Nat /\ m <= n
    BY <2>1
  <2>3. s \in Seq(S) /\ Len(s) = m
    BY <2>1, <2>2
  <2> QED BY <2>2, <2>3
<1>2. ASSUME s \in Seq(S), Len(s) <= n PROVE s \in BoundedSeq(S, n)
  <2> DEFINE m == Len(s)
  <2>1. m \in 0 .. n /\ s \in [1 .. m -> S]
    BY <1>2
  <2> HIDE DEF m
  <2> QED BY <2>1 DEF BoundedSeq, SeqOf
<1> QED BY <1>1, <1>2

\* The invariant holds when nothing was imported yet.
LEMMA RankInit ==
  ASSUME EngineInit PROVE RankInv
<1>1. confirmed \in BoundedSeq(Account, MaxConfirms)
  <2>1. MaxConfirms \in Nat /\ confirmed \in Seq(Account) /\ Len(confirmed) = 0
    BY EngineAssumption DEF EngineInit
  <2>2. Len(confirmed) <= MaxConfirms
    BY <2>1
  <2> QED BY <2>1, <2>2, BoundedIs
<1>2. EngineTypeOK
  BY <1>1, PipelineAssumption DEF EngineInit, EngineTypeOK
<1> QED BY <1>2 DEF EngineInit, RankInv, RankedAreKept

\* Whatever generates, the context is one the lemmas are about.
LEMMA ContextIsRanked ==
  ASSUME EngineInv, RankInv, row # Null, NEW o \in Orders
  PROVE  IsRanked(Context(o)) /\ Context(o).version = version /\ Context(o).row = row
<1> DEFINE ctx == Context(o)
<1>1. ctx.row = row /\ ctx.canonical = name /\ ctx.version = version /\ ctx.rows = terms
  BY DEF Context
<1>2. row \in Row /\ name \in Names /\ version \in Versions
  BY EngineAssumption DEF RankInv, EngineTypeOK
<1>3. IsFiniteSet(terms) /\ \A t \in terms : IsTerm(t)
  BY DEF EngineInv, Readable, RankInv
<1> HIDE DEF ctx
<1> QED BY <1>1, <1>2, <1>3 DEF IsRanked, ctx

\* Fewer suggestions, of the same generation.
LEMMA LeftRanked ==
  ASSUME RankInv, NEW left \in SUBSET live, LiveBecomes(left)
  PROVE  /\ RankedAreKept'
         /\ \A s \in live' : s.account \in Account /\ s.status \in {"active", "review"}
         /\ \A s, t \in live' : s.rank = t.rank => s = t
<1>1. live' \subseteq live /\ result' \in {result, NoResult}
  BY DEF LiveBecomes
<1>2. NoResult.engine # "v7"
  BY DEF NoResult
<1> QED BY <1>1, <1>2 DEF RankInv, EngineTypeOK, RankedAreKept

\* The rows of a generation have the first places, one each.
LEMMA RowsTyped ==
  ASSUME NEW accounts, NEW n \in Nat, accounts = [i \in 1 .. n |-> accounts[i]],
         \A i \in 1 .. n : accounts[i] \in Account, NEW status \in {"active", "review", "none"}
  PROVE  /\ \A s \in Written(accounts, status) :
              s.account \in Account /\ s.status \in {"active", "review"}
         /\ \A s \in Written(accounts, status) : \E i \in 1 .. n : s.account = accounts[i]
         /\ \A s, t \in Written(accounts, status) : s.rank = t.rank => s = t
<1> DEFINE m == Min({5, Len(accounts)})
<1>1. Len(accounts) = n
  <2>1. accounts \in Seq(Account) /\ DOMAIN accounts = 1 .. n
    OBVIOUS
  <2> QED BY <2>1
<1>2. m \in Int /\ m <= n
  <2> DEFINE k == 5
  <2>1. k \in Int /\ n \in Int
    OBVIOUS
  <2> HIDE DEF k
  <2>2. Min({k, n}) \in {k, n} /\ Min({k, n}) <= n
    BY <2>1, MinOfTwo
  <2> QED BY <1>1, <2>1, <2>2 DEF k
<1>3. \A s \in Written(accounts, status) :
        /\ status # "none"
        /\ \E i \in 1 .. m : s = [account |-> accounts[i], rank |-> i, status |-> status]
  BY DEF Written, Rows
<1> HIDE DEF m
<1>4. \A i \in 1 .. m : i \in 1 .. n
  BY <1>2
<1>5. \A s \in Written(accounts, status) :
        /\ s.account \in Account /\ s.status \in {"active", "review"}
        /\ \E i \in 1 .. n : s.account = accounts[i]
  BY <1>3, <1>4
<1>6. \A s, t \in Written(accounts, status) : s.rank = t.rank => s = t
  BY <1>3
<1> QED BY <1>5, <1>6

\* A confirmation teaches a term and leaves fewer suggestions.
LEMMA ConfirmRank ==
  ASSUME EngineInv, RankInv, NEW code \in Decidable, Confirm(code) PROVE RankInv'
<1> DEFINE a == <<code, version>>
           t == Term(a, name, "alias", "company", 6000)
<1>1. /\ code \in DOMAIN Catalogues[version] /\ Len(confirmed) < MaxConfirms
      /\ decided' = [status |-> "confirmed", account |-> a]
      /\ confirmed' = <<a>> \o confirmed /\ terms' = terms \cup {t}
      /\ version' = version /\ row' = row /\ name' = name
      /\ LiveBecomes(AfterDecision(a))
  BY DEF Confirm
<1>2. a \in Account /\ name \in Names
  BY <1>1, PipelineAssumption, EngineAssumption DEF Account, RankInv, EngineTypeOK
<1>3. IsTerm(t) /\ t.account = a
  BY <1>2 DEF Term, IsTerm, TermTypes
<1>4. AfterDecision(a) \in SUBSET live
  BY DEF AfterDecision
<1> HIDE DEF a, t
<1>5. confirmed' \in BoundedSeq(Account, MaxConfirms)
  <2>1. MaxConfirms \in Nat /\ confirmed \in Seq(Account)
    BY EngineAssumption, BoundedIs DEF RankInv, EngineTypeOK
  <2> DEFINE h == confirmed'
  <2>2. h = <<a>> \o confirmed /\ <<a>> \in Seq(Account) /\ Len(<<a>>) = 1
    BY <1>1, <1>2
  <2>3. h \in Seq(Account) /\ Len(h) = Len(confirmed) + 1 /\ Len(confirmed) \in Nat
    BY <2>1, <2>2
  <2>4. Len(h) <= MaxConfirms
    BY <1>1, <2>1, <2>3
  <2> QED BY <2>1, <2>3, <2>4, BoundedIs
<1>6. /\ RankedAreKept'
      /\ \A s \in live' : s.account \in Account /\ s.status \in {"active", "review"}
      /\ \A s, u \in live' : s.rank = u.rank => s = u
  BY <1>1, <1>4, LeftRanked
<1>7. \A u \in terms' : IsTerm(u) /\ u.account \in Account /\ u.name \in Names
  BY <1>1, <1>2, <1>3 DEF RankInv, EngineTypeOK, IsTerm
<1>8. decided' \in [status : {"pending", "confirmed", "rejected"}, account : Account \cup {Null}]
  BY <1>1, <1>2
<1>9. version' \in Versions /\ name' \in FirstNames /\ row' \in PublishedRows \cup {Null}
  BY <1>1 DEF RankInv, EngineTypeOK
<1> QED BY <1>5, <1>6, <1>7, <1>8, <1>9
    DEF RankInv, EngineTypeOK, IsTerm, Account, Codes, Versions

\* A rejection leaves fewer suggestions.
LEMMA RejectRank ==
  ASSUME EngineInv, RankInv, Reject PROVE RankInv'
<1>1. /\ decided' = [decided EXCEPT !.status = "rejected"]
      /\ UNCHANGED <<version, name, row, confirmed, terms>>
      /\ LiveBecomes({s \in live : s.rank # 1})
  BY DEF Reject
<1>2. /\ RankedAreKept'
      /\ \A s \in live' : s.account \in Account /\ s.status \in {"active", "review"}
      /\ \A s, u \in live' : s.rank = u.rank => s = u
  BY <1>1, LeftRanked
<1>3. decided' \in [status : {"pending", "confirmed", "rejected"}, account : Account \cup {Null}]
  BY <1>1 DEF RankInv, EngineTypeOK
<1> QED BY <1>1, <1>2, <1>3 DEF RankInv, EngineTypeOK, IsTerm, Account, Codes, Versions

\* A new catalogue writes no suggestion.
LEMMA ReimportRank ==
  ASSUME RankInv, Reimport PROVE RankInv'
<1>1. version' \in Versions /\ UNCHANGED <<name, row, decided, confirmed, terms, live, result>>
  BY DEF Reimport
<1> QED BY <1>1 DEF RankInv, EngineTypeOK, RankedAreKept, IsTerm, Account, Codes, Versions

\* A new balance has no suggestions yet.
LEMMA PublishRank ==
  ASSUME RankInv, NEW r \in PublishedRows, Publish(r) PROVE RankInv'
<1>1. row' \in PublishedRows
      /\ UNCHANGED <<version, name, decided, confirmed, terms, live, result>>
  BY DEF Publish
<1> QED BY <1>1 DEF RankInv, EngineTypeOK, RankedAreKept, IsTerm, Account, Codes, Versions

\* The synchronisation writes official names as terms, and no suggestion.
LEMMA SyncTermsRank ==
  ASSUME RankInv, SyncTerms PROVE RankInv'
<1>1. UNCHANGED <<version, name, row, decided, confirmed, live, result>>
  BY DEF SyncTerms
<1>2. version \in Versions /\ DOMAIN Catalogues[version] \subseteq Codes
  BY PipelineAssumption DEF RankInv, EngineTypeOK
<1>3. ASSUME NEW a \in Current(version)
      PROVE  LET t == Term(a, NameOf(a), "official_name", "global", 4500)
             IN IsTerm(t) /\ t.account \in Account
  <2>1. a \in AllAccounts /\ a \in Account
    BY <1>2 DEF Current, AllAccounts, Account
  <2>2. NameOf(a) \in Names
    BY <2>1, PipelineAssumption
  <2> QED BY <2>1, <2>2 DEF Term, IsTerm, TermTypes
<1>4. ASSUME NEW c \in Curated, c.code \in DOMAIN Catalogues[version]
      PROVE  LET t == Term(<<c.code, version>>, c.name, c.type, "global", c.weight)
             IN IsTerm(t) /\ t.account \in Account
  <2>1. c.name \in Names /\ c.type \in TermTypes /\ c.weight \in Nat
    BY RankingAssumption
  <2>2. <<c.code, version>> \in Account
    BY <1>2, <1>4 DEF Account
  <2> QED BY <2>1, <2>2 DEF Term, IsTerm
<1>5. ASSUME NEW t \in terms' PROVE IsTerm(t) /\ t.account \in Account /\ t.name \in Names
  <2>1. CASE t \in terms
    BY <2>1 DEF RankInv, EngineTypeOK, IsTerm
  <2>2. CASE t \notin terms
    <3> DEFINE official == {Term(a, NameOf(a), "official_name", "global", 4500) :
                              a \in Current(version)}
               curated == {Term(<<c.code, version>>, c.name, c.type, "global", c.weight) :
                             c \in {d \in Curated : d.code \in DOMAIN Catalogues[version]}}
    <3>1. t \in official \/ t \in curated
      BY <2>2 DEF SyncTerms
    <3>2. CASE t \in official
      <4>1. PICK a \in Current(version) : t = Term(a, NameOf(a), "official_name", "global", 4500)
        BY <3>2
      <4> QED BY <4>1, <1>3 DEF IsTerm
    <3>3. CASE t \in curated
      <4>1. PICK c \in Curated :
              /\ c.code \in DOMAIN Catalogues[version]
              /\ t = Term(<<c.code, version>>, c.name, c.type, "global", c.weight)
        BY <3>3
      <4> QED BY <4>1, <1>4 DEF IsTerm
    <3> QED BY <3>1, <3>2, <3>3
  <2> QED BY <2>1, <2>2
<1> QED BY <1>1, <1>5 DEF RankInv, EngineTypeOK, RankedAreKept, IsTerm, Account, Codes, Versions

\* The pipeline writes accounts of the catalogue with one rank each.
LEMMA GenerateWithV2Rank ==
  ASSUME EngineInv, RankInv, NEW o \in Orders, GenerateWithV2(o) PROVE RankInv'
<1> DEFINE ctx == Context(o)
           r == Resolve(ctx)
           found == r.candidates
           kind == IF found = <<>> THEN "none" ELSE found[1].type
           accounts == [i \in DOMAIN found |-> found[i].account]
           status == PipelineStatus(r.decision)
<1>1. row # Null /\ Write("v2", kind, accounts, status)
  BY DEF GenerateWithV2
<1>2. /\ UNCHANGED <<version, name, row, decided, confirmed, terms>>
      /\ live' = Written(accounts, status)
      /\ result' = IF status = "none" THEN NoResult
                   ELSE [engine |-> "v2", kind |-> kind, accounts |-> accounts, row |-> row]
  <2> HIDE DEF accounts, kind, status
  <2> QED BY <1>1 DEF Write
<1>3. IsContext(ctx)
  BY <1>1, ContextIsRead DEF EngineInv
<1>4. ctx.version = version
  BY DEF Context
<1> HIDE DEF ctx
<1>5. IsSequence(found) /\ \A i \in DOMAIN found : found[i].account \in Destinations(ctx)
  BY <1>3, FoundIsCompatible
<1> HIDE DEF r, found
<1>6. \A i \in DOMAIN found : found[i].account \in Account
  BY <1>4, <1>5, PipelineAssumption DEF Destinations, Current, Account, RankInv, EngineTypeOK
<1>7. PICK n \in Nat : DOMAIN found = 1 .. n
  BY <1>5 DEF IsSequence
<1>8. accounts = [i \in 1 .. n |-> accounts[i]] /\ \A i \in 1 .. n : accounts[i] \in Account
  BY <1>6, <1>7
<1>9. status \in {"active", "review", "none"}
  BY DEF PipelineStatus
<1>10. result'.engine # "v7"
  BY <1>2 DEF NoResult
<1> HIDE DEF accounts, status, kind
<1>11. /\ \A s \in live' : s.account \in Account /\ s.status \in {"active", "review"}
       /\ \A s, t \in live' : s.rank = t.rank => s = t
  BY <1>2, <1>8, <1>9, RowsTyped
<1> QED BY <1>2, <1>10, <1>11
    DEF RankInv, EngineTypeOK, RankedAreKept, IsTerm, Account, Codes, Versions

\* The ranking writes at most five accounts, all of them kept by its filters.
LEMMA GenerateWithV7Rank ==
  ASSUME EngineInv, RankInv, GenerateWithV7 PROVE RankInv'
<1> DEFINE o == CHOOSE q \in Orders : TRUE
           ctx == Context(o)
           r == Rank(ctx)
           accounts == [i \in DOMAIN r.top |-> <<r.top[i].candidate.code, version>>]
           status == RankingStatus(r)
<1>1. row # Null /\ Write("v7", "ranked", accounts, status)
  BY DEF GenerateWithV7
<1>2. /\ UNCHANGED <<version, name, row, decided, confirmed, terms>>
      /\ live' = Written(accounts, status)
      /\ result' = IF status = "none" THEN NoResult
                   ELSE [engine |-> "v7", kind |-> "ranked", accounts |-> accounts, row |-> row]
  <2> HIDE DEF accounts, status
  <2> QED BY <1>1 DEF Write
<1>3. o \in Orders
  BY EngineAssumption
<1>4. IsRanked(ctx) /\ ctx.version = version /\ ctx.row = row
  <2> HIDE DEF o
  <2> QED BY <1>1, <1>3, ContextIsRanked
<1>5. status \in {"active", "review", "none"}
  BY DEF RankingStatus
<1> DEFINE s == Eligible(ctx)
<1>6. r.top = Top(s)
  BY DEF Rank, Ranking
<1> HIDE DEF ctx, r, status
<1>7. s \in Seq(Ranks(ctx))
  BY <1>4, EligibleAre
<1> HIDE DEF s
<1> DEFINE n == Len(r.top)
<1>8. /\ n \in Nat /\ DOMAIN r.top = 1 .. n /\ n <= Len(s)
      /\ \A i \in 1 .. n : r.top[i].candidate = s[i].candidate
  BY <1>6, <1>7, TopIs
<1> HIDE DEF n
<1>9. ASSUME NEW i \in 1 .. n
      PROVE  /\ accounts[i] \in AllAccounts /\ accounts[i] \in Account
             /\ Kept(row, Judged(accounts[i]))
  <2> DEFINE c == s[i].candidate
  <2>1. s[i] \in Ranks(ctx)
    BY <1>7, <1>8
  <2>2. c \in Candidates(ctx) /\ Kept(row, c)
    BY <2>1, <1>4, RanksTyped
  <2>3. PICK a \in Current(ctx.version) : c = CandidateOf(ctx, a)
    BY <2>2, <1>4, CandidatesAre
  <2>4. c.code = a[1] /\ a = <<a[1], version>> /\ a \in AllAccounts /\ a \in Account
    BY <2>3, <1>4, CandidateTyped
  <2>5. accounts[i] = a
    BY <2>4, <1>8
  <2>6. c.code = Judged(a).code /\ c.name = Judged(a).name /\ c.is = Judged(a).is
    BY <2>3 DEF CandidateOf, Judged
  <2> HIDE DEF c
  <2>7. Kept(row, Judged(a))
    BY <2>2, <2>6, KeptByFacts
  <2> QED BY <2>4, <2>5, <2>7
<1>10. accounts = [i \in 1 .. n |-> accounts[i]]
  BY <1>8
<1> HIDE DEF accounts
<1>11. /\ \A x \in live' : x.account \in Account /\ x.status \in {"active", "review"}
       /\ \A x \in live' : \E i \in 1 .. n : x.account = accounts[i]
       /\ \A x, y \in live' : x.rank = y.rank => x = y
  BY <1>2, <1>5, <1>8, <1>9, <1>10, RowsTyped
<1>12. RankedAreKept'
  <2> SUFFICES ASSUME NEW x \in live', result'.engine = "v7"
               PROVE  x.account \in AllAccounts /\ Kept(result'.row, Judged(x.account))
    BY DEF RankedAreKept
  <2>1. result'.row = row
    BY <1>2 DEF NoResult
  <2> QED BY <2>1, <1>9, <1>11
<1> QED BY <1>2, <1>11, <1>12
    DEF RankInv, EngineTypeOK, IsTerm, Account, Codes, Versions

\* One step per action.
LEMMA RankStep ==
  ASSUME EngineInv, RankInv, [EngineNext]_engineVars PROVE RankInv'
<1>1. CASE EngineNext
  <2>1. ASSUME NEW c \in Decidable, Confirm(c) PROVE RankInv'
    BY <2>1, ConfirmRank
  <2>2. CASE Reject
    BY <2>2, RejectRank
  <2>3. CASE Reimport
    BY <2>3, ReimportRank
  <2>4. CASE SyncTerms
    BY <2>4, SyncTermsRank
  <2>5. ASSUME NEW r \in PublishedRows, Publish(r) PROVE RankInv'
    BY <2>5, PublishRank
  <2>6. ASSUME NEW o \in Orders, GenerateWithV2(o) PROVE RankInv'
    BY <2>6, GenerateWithV2Rank
  <2>7. CASE GenerateWithV7
    BY <2>7, GenerateWithV7Rank
  <2> QED BY <1>1, <2>1, <2>2, <2>3, <2>4, <2>5, <2>6, <2>7 DEF EngineNext
<1>2. CASE UNCHANGED engineVars
  <2>1. UNCHANGED <<version, name, row, decided, confirmed, terms, live, result>>
    BY <1>2 DEF engineVars
  <2> QED BY <2>1 DEF RankInv, EngineTypeOK, RankedAreKept, IsTerm, Account, Codes, Versions
<1> QED BY <1>1, <1>2

\* What the engines store has its types, and what the ranking has written passes its
\* filters, after any confirmations, imports and generations.
THEOREM RankInvariant == EngineSpec => []RankInv
<1>1. EngineInit => RankInv
  BY RankInit
<1>2. EngineInv /\ RankInv /\ [EngineNext]_engineVars => RankInv'
  BY RankStep
<1> QED BY <1>1, <1>2, EngineInvariant, PTL DEF EngineSpec

\* Mappings, terms and suggestions of both engines have their types, and a row has one
\* suggestion of each rank (period-account-mappings.service.ts, generate).
THEOREM TypesOfEngines == EngineSpec => []EngineTypeOK
<1>1. RankInv => EngineTypeOK
  BY DEF RankInv
<1> QED BY <1>1, RankInvariant, PTL

\* No alias, history or learning brings back an account that a rule excludes or that is
\* of another section, at any rank: the points are added after the filters
\* (account-suggestion-ranking.service.ts, rank).
THEOREM RankedCorrect == EngineSpec => []RankedAreKept
<1>1. RankInv => RankedAreKept
  BY DEF RankInv
<1> QED BY <1>1, RankInvariant, PTL

\* What is decided without review is ahead of everything it competes with, and not only
\* of the second of the five it shows: the accounts are sorted before they are cut
\* (account-suggestion-ranking.service.ts, rank).
THEOREM LeadCorrect == EngineSpec => []LeadIsClear
<1>1. EngineInv /\ RankInv => LeadIsClear
  <2> DEFINE o == CHOOSE q \in Orders : TRUE
             ctx == Context(o)
  <2> SUFFICES ASSUME EngineInv, RankInv, row # Null, Rank(ctx).decision = "automatic",
                      NEW c \in Rivals(ctx), c.code # Rank(ctx).top[1].candidate.code
               PROVE  LET lead == Rank(ctx).top[1]
                          behind == lead.score - Total(Reasons(ctx, c))
                      IN behind >= 800 /\ 100 * behind >= 12 * lead.score
    BY DEF LeadIsClear
  <2>1. o \in Orders
    BY EngineAssumption
  <2>2. IsRanked(ctx)
    <3> HIDE DEF o
    <3> QED BY <2>1, ContextIsRanked
  <2> HIDE DEF ctx
  <2> QED BY <2>2, LeadOverRivals
<1> QED BY <1>1, EngineInvariant, RankInvariant, PTL

\* Whatever the rules, the row and the evidence, the ranking and its audit agree on what
\* is left out, but for the accounts with only generic words in common with the name
\* (account-suggestion-ranking.service.ts, rank and discardedCandidates).
THEOREM AuditIsTrue == EngineSpec => []AuditExplains
<1>1. EngineInv /\ RankInv => AuditExplains
  <2> DEFINE o == CHOOSE q \in Orders : TRUE
             ctx == Context(o)
             ranked == {r.candidate : r \in Ranks(ctx)}
             unexplained == {c \in Candidates(ctx) :
                               Discarded(row, c) = "kept" /\ ~OnlyGeneric(ctx, c)}
  <2> SUFFICES ASSUME EngineInv, RankInv, row # Null
               PROVE  ranked = unexplained
    BY DEF AuditExplains
  <2>1. o \in Orders
    BY EngineAssumption
  <2>2. IsRanked(ctx) /\ ctx.row = row
    <3> HIDE DEF o
    <3> QED BY <2>1, ContextIsRanked
  <2> HIDE DEF ctx
  <2>3. ASSUME NEW r \in Ranks(ctx)
        PROVE  r.candidate \in unexplained
    <3> DEFINE c == r.candidate
    <3>1. c \in Candidates(ctx) /\ Kept(ctx.row, c) /\ r = RankedOf(ctx, c)
      BY <2>2, RanksTyped
    <3>2. Discarded(row, c) = "kept"
      BY <2>2, <3>1, AuditIsFilter
    <3>3. r.strong \/ ~Likeness[ctx.row.name, c.name].onlyGeneric
      BY DEF Ranks
    <3>4. r.strong = Gains(Reasons(ctx, c), StrongSignals)
      BY <3>1 DEF RankedOf, RankedWith
    <3>5. ~OnlyGeneric(ctx, c)
      BY <3>3, <3>4 DEF OnlyGeneric
    <3> QED BY <3>1, <3>2, <3>5
  <2>4. ASSUME NEW c \in unexplained
        PROVE  c \in ranked
    <3> DEFINE r == RankedOf(ctx, c)
    <3>1. c \in Candidates(ctx) /\ Kept(ctx.row, c)
      BY <2>2, AuditIsFilter
    <3>2. r.candidate = c /\ r.strong = Gains(Reasons(ctx, c), StrongSignals)
      BY DEF RankedOf, RankedWith
    <3>3. r.strong \/ ~Likeness[ctx.row.name, r.candidate.name].onlyGeneric
      BY <3>2 DEF OnlyGeneric
    <3>4. r \in {RankedOf(ctx, d) : d \in {e \in Candidates(ctx) : Kept(ctx.row, e)}}
      BY <3>1
    <3> HIDE DEF r
    <3>5. r \in Ranks(ctx)
      BY <3>3, <3>4 DEF Ranks, RankedOf
    <3> QED BY <3>2, <3>5
  <2> QED BY <2>3, <2>4
<1> QED BY <1>1, EngineInvariant, RankInvariant, PTL
=============================================================================
