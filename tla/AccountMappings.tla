--------------------------- MODULE AccountMappings ---------------------------
(***************************************************************************)
(* The mapping of the internal accounts of one company to SII accounts:    *)
(* decisions of users and approval in batch                                *)
(* (accounting/services/period-account-mappings.service.ts), generation of *)
(* suggestions (sii-account-matching/services/account-suggestion.service)  *)
(* and the learning projection that every confirmation rebuilds            *)
(* (sii-account-matching/services/learning-aggregator.service.ts).         *)
(*                                                                         *)
(* A decision is one transaction under REPEATABLE READ: it is cut where it *)
(* takes its snapshot and where it commits.  A generation reads its        *)
(* contexts before its transaction, which then only writes.  Rows written  *)
(* stay locked until the commit, so a commit is one step.                  *)
(***************************************************************************)
EXTENDS Naturals, FiniteSets

CONSTANTS Accounts,   \* company_accounts of the company
          Sii,        \* accounts of the current SII catalogue
          Outcomes,   \* what the pipeline may resolve an account to
          Requests,   \* concurrent HTTP requests
          MaxCommits, \* bound on the transactions that commit
          None        \* SQL NULL

MappingStatuses == {"pending", "suggested", "confirmed", "rejected", "unmapped"}

SuggestionStatuses == {"active", "review", "accepted", "rejected", "superseded"}

(* A ranked candidate of a resolution.                                     *)
Candidate == [rank : Nat \ {0}, sii : Sii, status : {"active", "review"}]

ASSUME ConstantsAssumption ==
  /\ None \notin Sii
  /\ MaxCommits \in Nat
  /\ Outcomes \subseteq SUBSET Candidate
  /\ \A candidates \in Outcomes : \A x, y \in candidates : x.rank = y.rank => x = y

VARIABLES
  mapping,     \* company_account_mappings, one row per account
  suggestions, \* company_account_suggestions
  history,     \* company_account_mapping_history, one row per decision
  learned,     \* the confirmations account_matching_learning is built from
  req,         \* local state of the requests
  clock        \* transactions committed so far; orders what they write

vars == <<mapping, suggestions, history, learned, req, clock>>

-----------------------------------------------------------------------------

Mapping == [sii : Sii \cup {None}, status : MappingStatuses]

Suggestion == [account : Accounts, generation : Nat, rank : Nat, sii : Sii,
               status : SuggestionStatuses]

Decision == [account : Accounts, sii : Sii \cup {None},
             status : {"confirmed", "rejected"}, at : Nat]

(* A request: the accounts it confirms or rejects, or generates for; what  *)
(* its snapshot showed of the mappings, of the primary suggestions and of  *)
(* the confirmations.                                                      *)
Request == [pc : {"idle", "updating", "approving", "generating"},
            confirms : [Accounts -> Sii \cup {None}], rejects : SUBSET Accounts,
            targets : SUBSET Accounts,
            before : [Accounts -> Mapping], primary : SUBSET Suggestion,
            evidence : SUBSET Decision]

Undecided == [a \in Accounts |-> [sii |-> None, status |-> "pending"]]

IdleRequest == [pc |-> "idle", confirms |-> [a \in Accounts |-> None],
                rejects |-> {}, targets |-> {}, before |-> Undecided,
                primary |-> {}, evidence |-> {}]

Open(x) == x.status \in {"active", "review"}

SameRow(x, y) == /\ x.account = y.account
                 /\ x.generation = y.generation
                 /\ x.rank = y.rank

(* Every confirmation also inserts its row of account_matching_confirmations. *)
Confirmations == {h \in history : h.status = "confirmed"}

Primaries == {x \in suggestions : x.rank = 1 /\ Open(x)}

Deciding(r) == req[r].pc \in {"updating", "approving"}

Confirmed(r) == {a \in Accounts : req[r].confirms[a] # None}

Decided(r) == Confirmed(r) \cup req[r].rejects

Finish(r) == req' = [req EXCEPT ![r] = IdleRequest]

Commit == clock < MaxCommits /\ clock' = clock + 1

-----------------------------------------------------------------------------
(* Mappings come from balances (pending) or from plans (with or without a  *)
(* heuristic suggestion).                                                  *)

Init ==
  /\ mapping \in [Accounts -> {[sii |-> None, status |-> "pending"],
                               [sii |-> None, status |-> "unmapped"]}
                              \cup [sii : Sii, status : {"suggested"}]]
  /\ suggestions = {}
  /\ history = {}
  /\ learned = {}
  /\ req = [r \in Requests |-> IdleRequest]
  /\ clock = 0

-----------------------------------------------------------------------------
(* Decisions: update and approveBatch, both through applyMappingDecision   *)

Snapshot(r, pc, confirms, rejects) ==
  req' = [req EXCEPT ![r] = [IdleRequest EXCEPT
            !.pc = pc, !.confirms = confirms, !.rejects = rejects,
            !.before = mapping, !.primary = Primaries,
            !.evidence = Confirmations]]

BeginUpdate(r, a) ==
  /\ req[r].pc = "idle"
  /\ \/ \E s \in Sii : Snapshot(r, "updating", [b \in Accounts |-> IF b = a THEN s ELSE None], {})
     \/ Snapshot(r, "updating", [b \in Accounts |-> None], {a})
  /\ UNCHANGED <<mapping, suggestions, history, learned, clock>>

(* The primary suggestions a batch of these accounts may approve.          *)
Approvable(batch, allowReview) ==
  {x \in Primaries : /\ x.account \in batch
                     /\ mapping[x.account].status = "pending"
                     /\ x.status = "active" \/ allowReview}

BeginBatch(r, batch, allowReview) ==
  /\ req[r].pc = "idle"
  /\ Approvable(batch, allowReview) # {}
  /\ \E confirms \in [Accounts -> Sii \cup {None}] :
       /\ \A a \in Accounts :
            IF \E x \in Approvable(batch, allowReview) : x.account = a
            THEN \E x \in Approvable(batch, allowReview) : x.account = a /\ confirms[a] = x.sii
            ELSE confirms[a] = None
       /\ Snapshot(r, "approving", confirms, {})
  /\ UNCHANGED <<mapping, suggestions, history, learned, clock>>

(* The entity as the decision leaves it.                                   *)
Entity(r, a) == IF a \in Confirmed(r)
                THEN [sii |-> req[r].confirms[a], status |-> "confirmed"]
                ELSE [sii |-> req[r].before[a].sii, status |-> "rejected"]

(* TypeORM's save writes the columns that differ from the row as read.     *)
Saved(entity, before, row) ==
  [sii |-> IF entity.sii # before.sii THEN entity.sii ELSE row.sii,
   status |-> IF entity.status # before.status THEN entity.status ELSE row.status]

SavedMapping(r) ==
  [a \in Accounts |-> IF a \in Decided(r)
                      THEN Saved(Entity(r, a), req[r].before[a], mapping[a])
                      ELSE mapping[a]]

(* Mutant: the history is written with the account the mapping had.        *)
DecisionsBefore(r) ==
  {[account |-> a, sii |-> req[r].before[a].sii, status |-> Entity(r, a).status,
    at |-> clock + 1] : a \in Decided(r)}

NewDecisions(r) ==
  {[account |-> a, sii |-> Entity(r, a).sii, status |-> Entity(r, a).status,
    at |-> clock + 1] : a \in Decided(r)}

(* The primary suggestion the request saw is reviewed, in whatever status  *)
(* it is by now; if it was accepted, the rows open now are closed.         *)
Reviews(r, x) == x.account \in Decided(r) /\ \E y \in req[r].primary : SameRow(x, y)

Accepts(r, a) == \E y \in req[r].primary : y.account = a /\ y.sii = req[r].confirms[a]

ReviewedStatus(r, x) ==
  IF Reviews(r, x)
    THEN IF x.sii = req[r].confirms[x.account] THEN "accepted" ELSE "rejected"
  ELSE IF Open(x) /\ x.account \in Decided(r) /\ Accepts(r, x.account) THEN "superseded"
  ELSE x.status

Reviewed(r) == {[x EXCEPT !.status = ReviewedStatus(r, x)] : x \in suggestions}

(* Mutant: the confirmations are read before the request records its own.  *)
RebuiltEarly(r) == IF Confirmed(r) = {} THEN learned ELSE req[r].evidence

(* rebuildWithManager: the projection is built again from the confirmations *)
(* of the snapshot and the request's own.                                   *)
Rebuilt(r) == IF Confirmed(r) = {} THEN learned
              ELSE req[r].evidence \cup {h \in NewDecisions(r) : h.status = "confirmed"}

CommitDecision(r) ==
  /\ Deciding(r)
  /\ Commit
  /\ mapping' = SavedMapping(r)
  /\ history' = history \cup NewDecisions(r)
  /\ suggestions' = Reviewed(r)
  /\ learned' = Rebuilt(r)
  /\ Finish(r)

(* The account left the catalogue, a deadlock, or a lost connection.       *)
Rollback(r) ==
  /\ req[r].pc # "idle"
  /\ Finish(r)
  /\ UNCHANGED <<mapping, suggestions, history, learned, clock>>

-----------------------------------------------------------------------------
(* Generation                                                              *)

(* generateWithV2 up to its transaction, for the accounts of the current   *)
(* closing balance of some period.                                         *)
ReadContexts(r, balance) ==
  /\ req[r].pc = "idle"
  /\ req' = [req EXCEPT ![r] = [IdleRequest EXCEPT
               !.pc = "generating",
               !.targets = {a \in balance : ~(/\ mapping[a].status = "confirmed"
                                              /\ mapping[a].sii # None)}]]
  /\ UNCHANGED <<mapping, suggestions, history, learned, clock>>

(* Mutant: only active suggestions are retired.                            *)
RetiredActive(targets) ==
  {IF x.status = "active" /\ x.account \in targets THEN [x EXCEPT !.status = "superseded"] ELSE x
     : x \in suggestions}

(* Mutant: the previous suggestions are deleted.                           *)
Removed(targets) == {x \in suggestions : ~(Open(x) /\ x.account \in targets)}

Retired(targets) ==
  {IF Open(x) /\ x.account \in targets THEN [x EXCEPT !.status = "superseded"] ELSE x
     : x \in suggestions}

Generated(targets, outcome) ==
  UNION {{[account |-> a, generation |-> clock + 1, rank |-> c.rank, sii |-> c.sii,
           status |-> c.status] : c \in outcome[a]} : a \in targets}

CommitGeneration(r) ==
  /\ req[r].pc = "generating"
  /\ Commit
  /\ \E outcome \in [req[r].targets -> Outcomes] :
       suggestions' = Retired(req[r].targets) \cup Generated(req[r].targets, outcome)
  /\ Finish(r)
  /\ UNCHANGED <<mapping, history, learned>>

-----------------------------------------------------------------------------
(* What other parts write to these tables                                  *)

(* TaxDocumentsService.discard retires the suggestions of the accounts it  *)
(* takes out of the period.                                                *)
Discard(gone) ==
  /\ Commit
  /\ suggestions' = Retired(gone)
  /\ UNCHANGED <<mapping, history, learned, req>>

(* The reviews of CompanyAccountPlanService, which load a mapping and save *)
(* it later without a transaction: they may leave any account in it.       *)
PlanReview(a) ==
  /\ Commit
  /\ \E s \in Sii \cup {None}, status \in {"confirmed", "rejected", "unmapped"} :
       mapping' = [mapping EXCEPT ![a] = [sii |-> s, status |-> status]]
  /\ UNCHANGED <<suggestions, history, learned, req>>

-----------------------------------------------------------------------------

Handle(r) ==
  \/ \E a \in Accounts : BeginUpdate(r, a)
  \/ \E batch \in SUBSET Accounts, allowReview \in BOOLEAN : BeginBatch(r, batch, allowReview)
  \/ CommitDecision(r)
  \/ \E balance \in SUBSET Accounts : ReadContexts(r, balance)
  \/ CommitGeneration(r)
  \/ Rollback(r)

Next == \/ \E r \in Requests : Handle(r)
        \/ \E gone \in SUBSET Accounts : Discard(gone)
        \/ \E a \in Accounts : PlanReview(a)

Spec == Init /\ [][Next]_vars

-----------------------------------------------------------------------------
(* Properties                                                              *)

(* The tables and the requests have the shape the code gives them.         *)
TypeOK ==
  /\ mapping \in [Accounts -> Mapping]
  /\ suggestions \subseteq Suggestion
  /\ history \subseteq Decision
  /\ learned \subseteq Decision
  /\ req \in [Requests -> Request]
  /\ clock \in 0..MaxCommits

(* "Una generacion sin resultado no deja sugerencias viejas aprobables":   *)
(* the open suggestions of an account are of its newest generation, however *)
(* generations, decisions from old snapshots and discards interleave.       *)
OpenIsNewest ==
  \A x, y \in suggestions :
    Open(x) /\ x.account = y.account => y.generation <= x.generation

(* An accepted suggestion is explained by a decision of the history that   *)
(* confirmed that SII account, even when a generation had retired it while *)
(* the user decided.                                                       *)
AcceptedIsConfirmed ==
  \A x \in suggestions : x.status = "accepted" =>
    \E h \in history : /\ h.account = x.account /\ h.sii = x.sii
                       /\ h.status = "confirmed"

(* A confirmation that the projection misses was dropped by a later one:   *)
(* the last confirmation is always learned, and nothing else is.           *)
LatestIsLearned ==
  /\ learned \subseteq Confirmations
  /\ \A c \in Confirmations : c \in learned \/ \E d \in learned : d.at > c.at

(* A suggestion that was reviewed or retired never becomes approvable      *)
(* again, and no suggestion is lost ("el historial nunca se borra").       *)
ClosedStaysClosed ==
  [][\A x \in suggestions : \E y \in suggestions' :
       SameRow(x, y) /\ x.sii = y.sii /\ (Open(y) => x = y)]_vars

(* Accepting a suggestion leaves none of the account open, not even those  *)
(* of a generation that committed after the user's snapshot.               *)
AcceptClosesAll ==
  [][\A x \in suggestions, y \in suggestions' :
       SameRow(x, y) /\ x.status # "accepted" /\ y.status = "accepted"
       => \A z \in suggestions' : z.account = x.account => ~Open(z)]_vars

=============================================================================
