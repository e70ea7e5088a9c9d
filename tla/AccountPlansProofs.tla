------------------------ MODULE AccountPlansProofs ------------------------
(***************************************************************************)
(* Proofs about the account plans, for any catalogues, plans, commands and   *)
(* requests.                                                                *)
(***************************************************************************)
EXTENDS AccountPlans, FiniteSetTheorems, SequenceTheorems, TLAPS
-----------------------------------------------------------------------------
(* The inductive invariant. *)

AtWork == {"processing", "matched", "refused", "failing"}

Reviewing == {"choosing", "saved", "loaded"}

Decided == {"confirmed", "rejected", "unmapped"}

Methods == Rules \cup {"manual", "automatic"}

\* What an operation in progress works on is known.
Known ==
  /\ \A i \in Importers : importer[i].pc # "idle" => importer[i].file \in SiiFiles
  /\ \A r \in Requests :
       /\ request[r].pc \in AtWork \cup {"saving"} => request[r].file \in PlanFiles
       /\ request[r].pc \in Reviewing =>
            request[r].code \in Codes /\ mapping[request[r].code] # None

\* A version of the plan that is being imported belongs to one request, and one
\* that was committed without an answer to the request that will mark it failed.
OwnFile ==
  \A r \in Requests : request[r].pc \in AtWork =>
    /\ \/ plan[request[r].file] = "processing"
       \/ request[r].pc = "failing" /\ plan[request[r].file] = "ready"
    /\ \A q \in Requests \ {r} :
         request[q].pc \in AtWork => request[q].file # request[r].file

\* A correspondence nobody reviewed.
Fresh(row) ==
  /\ row \in MappingRow
  /\ row.scored <=> row.method \in Rules
  /\ row.status = "pending" => row.sii = None
  /\ row.status = "suggested" => row.scored /\ row.sii # None
  /\ row.status \in {"pending", "suggested", "unmapped"} /\ ~row.reviewed

\* The codes of an uncommitted import are valid, free, and no other's.
OwnCodes ==
  \A r \in Requests : request[r].pc = "matched" =>
    LET f == request[r].file IN
    /\ CodesOf(f) \subseteq Codes
    /\ \A c \in CodesOf(f) : account[c] = None /\ Fresh(request[r].suggestions[c])
    /\ \A q \in Requests \ {r} : Uncommitted(q) \cap CodesOf(f) = {}

\* The codes of a plan that was imported are codes.
ReadyCodes == \A f \in PlanFiles : Imported(f) => CodesOf(f) \subseteq Codes

\* An account and its correspondence are created together.
Together == \A c \in Codes : account[c] = None <=> mapping[c] = None

\* A review in progress decides, and only decides what the row does not say yet.
Decides ==
  \A r \in Requests :
    /\ request[r].pc = "saved" =>
         /\ request[r].entity \in MappingRow
         /\ request[r].entity.status \in Decided /\ request[r].entity.reviewed
    /\ request[r].pc = "loaded" =>
         LET row == mapping[request[r].code]
             changes == request[r].changes
         IN
         /\ IF "status" \in DOMAIN changes THEN changes["status"] \in Decided
            ELSE row.status \in Decided
         /\ IF "reviewed" \in DOMAIN changes THEN changes["reviewed"] = TRUE
            ELSE row.reviewed

\* A row with the method the correspondence was born with, or decided by hand.
BornWith(row, m) == row.method \in {m, "manual"} /\ (row.scored <=> row.method \in Rules)

ChangesBornWith(changes, m) ==
  /\ "method" \in DOMAIN changes =>
       /\ changes["method"] \in {m, "manual"}
       /\ m \in Rules => "scored" \in DOMAIN changes
  /\ "scored" \in DOMAIN changes =>
       /\ "method" \in DOMAIN changes
       /\ changes["scored"] <=> changes["method"] \in Rules

\* All that is saved of a correspondence has the method it was born with or is
\* by hand, so that columns saved by two reviews still go together.
OneMethod ==
  \A c \in Codes : mapping[c] # None =>
    \E m \in Methods :
      /\ BornWith(mapping[c], m)
      /\ \A r \in Requests :
           /\ request[r].pc = "saved" /\ request[r].code = c =>
                BornWith(request[r].entity, m)
           /\ request[r].pc = "loaded" /\ request[r].code = c =>
                ChangesBornWith(request[r].changes, m)

IInv == /\ TypeOK /\ Known /\ OwnFile /\ OwnCodes /\ ReadyCodes /\ Together /\ Decides /\ OneMethod
        /\ OneCurrent /\ ReadyIsWhole /\ MappingCoherent
-----------------------------------------------------------------------------
(* The operators of the model. *)

\* Any columns of a row are changes that can be saved.
LEMMA ColumnsOfRowAreChanges ==
  ASSUME NEW row \in MappingRow, NEW S \in SUBSET Columns
  PROVE  [k \in S |-> row[k]] \in Changes
BY DEF Changes

\* Saving changes in a row gives a row, with the columns of both.
LEMMA MergedIsRow ==
  ASSUME NEW row \in MappingRow, NEW changes \in Changes
  PROVE  Merged(row, changes) \in MappingRow
<1>1. PICK S \in SUBSET Columns, o \in MappingRow : changes = [k \in S |-> o[k]]
  BY DEF Changes
<1>2. DOMAIN changes = S /\ \A k \in S : changes[k] = o[k]
  BY <1>1
<1> QED
  BY <1>1, <1>2 DEF Merged, Columns, MappingRow

\* A request that does nothing is a request.
LEMMA IdleIsRequest == IdleRequest \in Request
<1>1. [sii |-> None, status |-> "pending", method |-> "manual",
       scored |-> FALSE, reviewed |-> FALSE] \in MappingRow
  BY DEF MappingRow
<1>2. PICK row : row \in MappingRow
  BY <1>1
<1>3. PICK S \in SUBSET Columns : S = {}
  OBVIOUS
<1>4. [k \in S |-> row[k]] \in Changes
  BY <1>2, ColumnsOfRowAreChanges
<1>5. [k \in S |-> row[k]] = NoChanges
  BY <1>3 DEF NoChanges
<1>6. NoChanges \in Changes
  BY <1>4, <1>5
<1> QED
  BY <1>6 DEF IdleRequest, Request

\* A request that marks its version as failed is a request.
LEMMA FailingIsRequest ==
  ASSUME NEW f \in PlanFiles
  PROVE  [IdleRequest EXCEPT !.pc = "failing", !.file = f] \in Request
BY IdleIsRequest DEF Request

\* The accounts of the current catalogue are accounts of the SII.
LEMMA CurrentAccountsKnown ==
  ASSUME NEW x \in CurrentAccounts
  PROVE  x[1] \in SiiFiles /\ x[2].code \in Codes
<1>1. PICK f \in Current : \E a \in Catalogue[f] : x = <<f, a>>
  BY DEF CurrentAccounts
<1>2. PICK a \in Catalogue[f] : x = <<f, a>>
  BY <1>1
<1>3. f \in SiiFiles /\ a \in [code : Codes, name : Names]
  BY <1>2, PlansAssumption DEF Current
<1> QED
  BY <1>2, <1>3

\* Whatever the row and the catalogue are, a suggestion is a row nobody reviewed.
LEMMA SuggestionIsFresh ==
  ASSUME NEW row
  PROVE  Fresh(Suggestion(row))
<1> DEFINE rule == Deciding(row)
<1>1. rule.found \subseteq CurrentAccounts /\ rule.method \in Rules
  BY DEF Deciding, SameCode, SameName, SameNormal, Containing, Rules
<1>2. CASE Cardinality(rule.found) = 1
  <2>1. rule.found # {}
    BY <1>2, FS_EmptySet
  <2>2. PICK x \in rule.found : x = CHOOSE y \in rule.found : TRUE
    BY <2>1
  <2>3. <<x[1], x[2].code>> \in SiiAccount
    BY <1>1, <2>2, CurrentAccountsKnown DEF SiiAccount
  <2>4. Suggestion(row) = [sii |-> <<x[1], x[2].code>>, status |-> "suggested",
                           method |-> rule.method, scored |-> TRUE, reviewed |-> FALSE]
    BY <1>2, <2>2 DEF Suggestion
  <2> QED
    BY <1>1, <2>3, <2>4, PlansAssumption DEF Fresh, MappingRow, SiiAccount
<1>3. CASE Cardinality(rule.found) # 1
  BY <1>3 DEF Suggestion, Fresh, MappingRow, Rules
<1> QED
  BY <1>2, <1>3

\* The codes of a valid plan are codes.
LEMMA ValidCodes ==
  ASSUME NEW f \in PlanFiles, ValidPlan(f)
  PROVE  CodesOf(f) \subseteq Codes
<1>1. Rows[f] \in Seq([code : Codes \cup {None}, name : Names,
                     parent : Codes \cup {None}, wellFormed : BOOLEAN])
  BY PlansAssumption
<1>2. ASSUME NEW n \in DOMAIN Rows[f]
      PROVE  Rows[f][n].code \in Codes
  <2>1. Rows[f][n].code # None
    BY DEF ValidPlan
  <2>2. Rows[f][n] \in [code : Codes \cup {None}, name : Names,
                       parent : Codes \cup {None}, wellFormed : BOOLEAN]
    <3>1. n \in 1 .. Len(Rows[f])
      BY <1>1
    <3> QED
      BY <1>1, <3>1, ElementOfSeq
  <2> QED
    BY <2>1, <2>2
<1> QED
  BY <1>2 DEF CodesOf

\* An entity decided by hand is a row.
LEMMA ByHandIsRow ==
  ASSUME NEW relation \in SiiAccount \cup {None}, NEW sii \in SiiAccount \cup {None},
         NEW status \in Decided
  PROVE  ByHand(relation, sii, status) \in MappingRow
BY DEF ByHand, AccountSaved, MappingRow, Decided, Rules

-----------------------------------------------------------------------------
(* The steps, by what they leave alone. *)

RequestStep(r) ==
  \/ \E f \in PlanFiles : PlanCheck(r, f)
  \/ PlanStep(r) \/ PlanError(r) \/ PlanCommitUnanswered(r) \/ Review(r) \/ Die(r)

\* The import of a plan is committed, with its answer or without.
Committing(r) == PlanCommit(r) \/ PlanCommitUnanswered(r)

\* Every step is one of an import of the catalogue, of a request, of the import
\* of a balance, or none.
LEMMA StepKinds ==
  ASSUME [Next]_vars
  PROVE  \/ \E i \in Importers : Import(i)
         \/ \E r \in Requests : RequestStep(r)
         \/ \E c \in BalanceCodes : BalanceAccount(c)
         \/ UNCHANGED vars
BY DEF Next, RequestStep

\* The commands that import the catalogue touch nothing of the company.
LEMMA ImportFrame ==
  ASSUME NEW i, Import(i)
  PROVE  UNCHANGED <<plan, account, mapping, request, overwritten>>
BY DEF Import, SiiCheck, SiiInsert, SiiActivate, SiiAbort

\* A request touches neither the catalogue nor another request.
LEMMA RequestFrame ==
  ASSUME TypeOK, NEW r \in Requests, RequestStep(r)
  PROVE  /\ UNCHANGED <<catalogue, importer>>
         /\ \A q \in Requests \ {r} : request'[q] = request[q]
<1> USE DEF TypeOK
<1>1. ASSUME NEW f \in PlanFiles, PlanCheck(r, f)
      PROVE  /\ UNCHANGED <<catalogue, importer>>
             /\ \A q \in Requests \ {r} : request'[q] = request[q]
  BY <1>1 DEF PlanCheck
<1>2. CASE PlanStep(r)
  BY <1>2 DEF PlanStep, PlanSave, PlanMatch, PlanCommit, ImportPlan, PlanFail
<1>3. CASE PlanError(r) \/ PlanCommitUnanswered(r) \/ Die(r)
  BY <1>3 DEF PlanError, PlanCommitUnanswered, ImportPlan, Failing, Die
<1>4. CASE Review(r)
  <2>1. ASSUME NEW c \in Codes,
               ConfirmMapping(r, c) \/ RejectMapping(r, c) \/ Unmap(r, c) \/ AssignRead(r, c)
        PROVE  /\ UNCHANGED <<catalogue, importer>>
               /\ \A q \in Requests \ {r} : request'[q] = request[q]
    BY <2>1 DEF ConfirmMapping, RejectMapping, Unmap, AssignRead, Save
  <2>2. ASSUME NEW f \in SiiFiles, NEW a \in Catalogue[f], AssignMapping(r, f, a)
        PROVE  /\ UNCHANGED <<catalogue, importer>>
               /\ \A q \in Requests \ {r} : request'[q] = request[q]
    BY <2>2 DEF AssignMapping
  <2>3. CASE Abandon(r) \/ SaveLoad(r) \/ SaveWrite(r)
    BY <2>3 DEF Abandon, SaveLoad, SaveWrite
  <2> QED
    BY <1>4, <2>1, <2>2, <2>3 DEF Review
<1> QED
  BY <1>1, <1>2, <1>3, <1>4 DEF RequestStep

\* A row is saved by ConfirmMapping, RejectMapping and Unmap with its method or
\* by hand, decided and reviewed.
Decision(entity, row) ==
  /\ entity \in MappingRow
  /\ entity.status \in Decided /\ entity.reviewed
  /\ \/ entity.method = row.method /\ entity.scored = row.scored
     \/ entity.method = "manual" /\ ~entity.scored

\* The steps of a review: it begins with a row that exists, decides, loads the
\* row again, writes, or ends.
LEMMA ReviewKinds ==
  ASSUME TypeOK, NEW r \in Requests, Review(r)
  PROVE  \/ \E c \in Codes : \E entity :
              Decision(entity, mapping[c]) /\ Save(r, c, entity)
         \/ \E c \in Codes : AssignRead(r, c)
         \/ \E entity :
              /\ request[r].pc = "choosing" /\ Decision(entity, entity)
              /\ entity.method = "manual" /\ ~entity.scored
              /\ request' = [request EXCEPT ![r] = [@ EXCEPT !.pc = "saved",
                               !.relation = None, !.entity = entity]]
              /\ UNCHANGED <<plan, account, mapping, overwritten>>
         \/ Abandon(r) \/ SaveLoad(r) \/ SaveWrite(r)
<1> USE DEF TypeOK
<1>1. ASSUME NEW c \in Codes, ConfirmMapping(r, c)
      PROVE  \E entity : Decision(entity, mapping[c]) /\ Save(r, c, entity)
  <2>1. mapping[c] \in MappingRow
    BY <1>1 DEF ConfirmMapping, Save
  <2>2. Decision(Reviewed(mapping[c], "confirmed"), mapping[c])
    BY <2>1 DEF Decision, Reviewed, MappingRow, Decided
  <2> QED
    BY <1>1, <2>2 DEF ConfirmMapping
<1>2. ASSUME NEW c \in Codes, RejectMapping(r, c)
      PROVE  \E entity : Decision(entity, mapping[c]) /\ Save(r, c, entity)
  <2>1. mapping[c] \in MappingRow
    BY <1>2 DEF RejectMapping, Save
  <2>2. Decision(Reviewed(mapping[c], "rejected"), mapping[c])
    BY <2>1 DEF Decision, Reviewed, MappingRow, Decided
  <2> QED
    BY <1>2, <2>2 DEF RejectMapping
<1>3. ASSUME NEW c \in Codes, Unmap(r, c)
      PROVE  \E entity : Decision(entity, mapping[c]) /\ Save(r, c, entity)
  <2>1. mapping[c].sii \in SiiAccount \cup {None}
    BY <1>3 DEF Unmap, Save, MappingRow
  <2>2. ByHand(mapping[c].sii, None, "unmapped") \in MappingRow
    BY <2>1, ByHandIsRow DEF Decided
  <2>3. Decision(ByHand(mapping[c].sii, None, "unmapped"), mapping[c])
    BY <2>2 DEF Decision, ByHand, Decided
  <2> QED
    BY <1>3, <2>3 DEF Unmap
<1>4. ASSUME NEW f \in SiiFiles, NEW a \in Catalogue[f], AssignMapping(r, f, a)
      PROVE  \E entity :
               /\ request[r].pc = "choosing" /\ Decision(entity, entity)
               /\ entity.method = "manual" /\ ~entity.scored
               /\ request' = [request EXCEPT ![r] = [@ EXCEPT !.pc = "saved",
                                !.relation = None, !.entity = entity]]
               /\ UNCHANGED <<plan, account, mapping, overwritten>>
  <2> DEFINE entity == ByHand(request[r].relation, <<f, a.code>>, "confirmed")
  <2>1. request[r].relation \in SiiAccount \cup {None}
    BY DEF Request
  <2>2. a.code \in Codes
    BY PlansAssumption
  <2>3. entity \in MappingRow
    BY <2>1, <2>2, ByHandIsRow DEF Decided, SiiAccount
  <2>4. Decision(entity, entity) /\ entity.method = "manual" /\ ~entity.scored
    BY <2>3 DEF Decision, ByHand, Decided
  <2>5. /\ request[r].pc = "choosing"
        /\ request' = [request EXCEPT ![r] = [@ EXCEPT !.pc = "saved",
                                !.relation = None, !.entity = entity]]
        /\ UNCHANGED <<plan, account, mapping, overwritten>>
    BY <1>4 DEF AssignMapping
  <2> HIDE DEF entity
  <2> QED
    BY <2>4, <2>5
<1> QED
  BY <1>1, <1>2, <1>3, <1>4 DEF Review

-----------------------------------------------------------------------------
(* The types. *)

\* Every step keeps the types.
LEMMA TypeStep == IInv /\ [Next]_vars => TypeOK'
<1> SUFFICES ASSUME TypeOK, Known, Decides, [Next]_vars
             PROVE  TypeOK'
  BY DEF IInv
<1> USE DEF TypeOK
<1>1. ASSUME NEW i \in Importers, Import(i)
      PROVE  TypeOK'
  <2>1. ASSUME NEW f \in SiiFiles, SiiCheck(i, f)
        PROVE  TypeOK'
    BY <2>1 DEF SiiCheck, Importer
  <2>2. CASE SiiInsert(i)
    BY <2>2 DEF SiiInsert, Importer
  <2>3. CASE SiiActivate(i)
    BY <2>3 DEF SiiActivate, Replaced, Importer
  <2>4. CASE SiiAbort(i)
    BY <2>4 DEF SiiAbort, Importer
  <2> QED
    BY <1>1, <2>1, <2>2, <2>3, <2>4 DEF Import
<1>2. ASSUME NEW r \in Requests, NEW f \in PlanFiles, PlanCheck(r, f)
      PROVE  TypeOK'
  BY <1>2, IdleIsRequest DEF PlanCheck, Request
<1>3. ASSUME NEW r \in Requests, PlanSave(r)
      PROVE  TypeOK'
  <2>1. [request[r] EXCEPT !.pc = "processing"] \in Request
    BY DEF Request
  <2> QED
    BY <1>3, <2>1, IdleIsRequest DEF PlanSave
<1>4. ASSUME NEW r \in Requests, PlanMatch(r)
      PROVE  TypeOK'
  <2>1. \A row : Suggestion(row) \in MappingRow
    BY SuggestionIsFresh DEF Fresh
  <2> DEFINE f == request[r].file
             suggestions == [c \in Codes |-> IF c \in CodesOf(f)
                                             THEN Suggestion(RowOf(f, c)) ELSE None]
  <2>2. suggestions \in [Codes -> MappingRow \cup {None}]
    BY <2>1
  <2>3. /\ [request[r] EXCEPT !.pc = "matched", !.suggestions = suggestions] \in Request
        /\ [request[r] EXCEPT !.pc = "refused"] \in Request
    <3> HIDE DEF suggestions
    <3> QED
      BY <2>2 DEF Request
  <2> QED
    BY <1>4, <2>3 DEF PlanMatch
<1>5. ASSUME NEW r \in Requests, PlanCommit(r) \/ PlanCommitUnanswered(r)
      PROVE  TypeOK'
  <2>1. request[r] \in Request /\ request[r].file \in PlanFiles /\ ImportPlan(r)
    BY <1>5 DEF PlanCommit, PlanCommitUnanswered, ImportPlan, Known, AtWork
  <2>2. request[r].suggestions \in [Codes -> MappingRow \cup {None}]
    BY <2>1 DEF Request
  <2>3. request' \in [Requests -> Request]
    BY <1>5, <2>1, IdleIsRequest, FailingIsRequest
    DEF PlanCommit, PlanCommitUnanswered, Failing
  <2> QED
    BY <2>1, <2>2, <2>3 DEF ImportPlan
<1>6. ASSUME NEW r \in Requests, PlanFail(r)
      PROVE  TypeOK'
  <2>1. request[r].file \in PlanFiles
    BY <1>6 DEF PlanFail, Known, AtWork
  <2> QED
    BY <1>6, <2>1, IdleIsRequest DEF PlanFail
<1>7. ASSUME NEW r \in Requests, PlanError(r)
      PROVE  TypeOK'
  <2>1. request[r].file \in PlanFiles
    BY <1>7 DEF PlanError, Known, AtWork
  <2> QED
    BY <1>7, <2>1, FailingIsRequest DEF PlanError, Failing
<1>8. ASSUME NEW r \in Requests, Review(r)
      PROVE  TypeOK'
  <2>1. ASSUME NEW c \in Codes, NEW entity \in MappingRow, Save(r, c, entity)
        PROVE  TypeOK'
    BY <2>1, IdleIsRequest DEF Save, Request
  <2>2. ASSUME NEW c \in Codes, AssignRead(r, c)
        PROVE  TypeOK'
    <3>1. mapping[c].sii \in SiiAccount \cup {None}
      BY <2>2 DEF AssignRead, MappingRow
    <3> QED
      BY <2>2, <3>1, IdleIsRequest DEF AssignRead, Request
  <2>3. ASSUME NEW entity \in MappingRow,
               request' = [request EXCEPT ![r] = [@ EXCEPT !.pc = "saved",
                             !.relation = None, !.entity = entity]],
               request[r].pc = "choosing",
               UNCHANGED <<catalogue, importer, plan, account, mapping, overwritten>>
        PROVE  TypeOK'
    <3>1. PICK q \in Request : q = request[r]
      OBVIOUS
    <3>2. [q EXCEPT !.pc = "saved", !.relation = None, !.entity = entity] \in Request
      BY DEF Request
    <3> QED
      BY <2>3, <3>1, <3>2
  <2>4. CASE Abandon(r)
    BY <2>4, IdleIsRequest DEF Abandon
  <2>5. CASE SaveLoad(r)
    <3> DEFINE row == mapping[request[r].code]
               entity == request[r].entity
               changes == [k \in Different(entity, row) |-> entity[k]]
    <3>1. entity \in MappingRow
      BY <2>5 DEF SaveLoad, Decides
    <3>2. Different(entity, row) \in SUBSET Columns
      BY DEF Different
    <3>3. changes \in Changes
      BY <3>1, <3>2, ColumnsOfRowAreChanges
    <3>4. request' = [request EXCEPT ![r] =
                        [@ EXCEPT !.pc = "loaded", !.entity = None, !.changes = changes]]
      BY <2>5 DEF SaveLoad
    <3>5. UNCHANGED <<catalogue, importer, plan, account, mapping, overwritten>>
      BY <2>5 DEF SaveLoad
    <3>6. [request[r] EXCEPT !.pc = "loaded", !.entity = None, !.changes = changes] \in Request
      <4> HIDE DEF changes
      <4> QED
        BY <3>3 DEF Request
    <3> QED
      BY <3>4, <3>5, <3>6
  <2>6. CASE SaveWrite(r)
    <3>1. request[r].code \in Codes /\ mapping[request[r].code] \in MappingRow
      BY <2>6 DEF SaveWrite, Known, Reviewing
    <3>2. Merged(mapping[request[r].code], request[r].changes) \in MappingRow
      BY <3>1, MergedIsRow DEF Request
    <3> QED
      BY <2>6, <3>2, IdleIsRequest DEF SaveWrite
  <2> QED
    <3>1. UNCHANGED <<catalogue, importer>>
      BY <1>8, RequestFrame DEF RequestStep
    <3> QED
      BY <1>8, <2>1, <2>2, <2>3, <2>4, <2>5, <2>6, <3>1, ReviewKinds DEF Decision
<1>9. ASSUME NEW r \in Requests, Die(r)
      PROVE  TypeOK'
  BY <1>9, IdleIsRequest DEF Die
<1>10. ASSUME NEW c \in BalanceCodes, BalanceAccount(c)
       PROVE  TypeOK'
  BY <1>10 DEF BalanceAccount, MappingRow
<1>11. CASE UNCHANGED vars
  BY <1>11 DEF vars
<1> QED
  BY <1>1, <1>2, <1>3, <1>4, <1>5, <1>6, <1>7, <1>8, <1>9, <1>10, <1>11 DEF Next, PlanStep

-----------------------------------------------------------------------------
(* What the steps do to the accounts and their correspondences. *)

\* The steps of requests that change neither a plan nor an account nor a row.
LEMMA QuietSteps ==
  ASSUME TypeOK, NEW r \in Requests, RequestStep(r),
         ~PlanSave(r), ~Committing(r), ~PlanFail(r), ~SaveWrite(r)
  PROVE  UNCHANGED <<plan, account, mapping, overwritten>>
<1>1. ASSUME NEW f \in PlanFiles, PlanCheck(r, f)
      PROVE  UNCHANGED <<plan, account, mapping, overwritten>>
  BY <1>1 DEF PlanCheck
<1>2. CASE PlanStep(r)
  BY <1>2 DEF PlanStep, PlanMatch, Committing
<1>3. CASE PlanError(r) \/ PlanCommitUnanswered(r) \/ Die(r)
  BY <1>3 DEF PlanError, Committing, Die
<1>4. CASE Review(r)
  BY <1>4, ReviewKinds DEF Save, AssignRead, Abandon, SaveLoad
<1> QED
  BY <1>1, <1>2, <1>3, <1>4 DEF RequestStep

\* Whatever is answered, a commit leaves the plan imported.
LEMMA CommittingImports ==
  ASSUME NEW r, Committing(r)
  PROVE  ImportPlan(r)
BY DEF Committing, PlanCommit, PlanCommitUnanswered

\* What a save writes over a row is a row.
LEMMA SavedIsRow ==
  ASSUME TypeOK, Known, NEW r \in Requests, SaveWrite(r)
  PROVE  /\ request[r].code \in Codes
         /\ mapping[request[r].code] \in MappingRow
         /\ Merged(mapping[request[r].code], request[r].changes) \in MappingRow
         /\ mapping' = [mapping EXCEPT ![request[r].code] = Merged(@, request[r].changes)]
<1>1. request[r].code \in Codes /\ mapping[request[r].code] \in MappingRow
  BY DEF SaveWrite, Known, Reviewing, TypeOK
<1>2. request[r].changes \in Changes
  BY DEF TypeOK, Request
<1> QED
  BY <1>1, <1>2, MergedIsRow DEF SaveWrite

\* An account and its correspondence stay, and only a save writes the latter.
LEMMA RowsStay ==
  ASSUME TypeOK, Known, OwnCodes, Together, [Next]_vars,
         NEW c \in Codes, mapping[c] # None
  PROVE  /\ account'[c] = account[c]
         /\ mapping'[c] # None
         /\ \/ mapping'[c] = mapping[c]
            \/ \E r \in Requests : SaveWrite(r) /\ request[r].code = c
<1> DEFINE Stays == /\ account'[c] = account[c]
                    /\ mapping'[c] # None
                    /\ \/ mapping'[c] = mapping[c]
                       \/ \E r \in Requests : SaveWrite(r) /\ request[r].code = c
<1>0. account[c] # None
  BY DEF Together
<1>1. ASSUME NEW r \in Requests, RequestStep(r)
      PROVE  Stays
  <2>1. CASE ImportPlan(r)
    <3>1. c \notin CodesOf(request[r].file)
      BY <1>0, <2>1 DEF ImportPlan, OwnCodes
    <3> QED
      BY <2>1, <3>1 DEF ImportPlan
  <2>2. CASE SaveWrite(r)
    <3>1. UNCHANGED account
      BY <2>2 DEF SaveWrite
    <3>2. mapping'[c] # None
      BY <2>2, SavedIsRow, NoneAssumption DEF TypeOK
    <3>3. request[r].code # c => mapping'[c] = mapping[c]
      BY <2>2 DEF SaveWrite, TypeOK
    <3> QED
      BY <2>2, <3>1, <3>2, <3>3
  <2>3. CASE PlanSave(r) \/ PlanFail(r)
    BY <2>3 DEF PlanSave, PlanFail
  <2> QED
    BY <1>1, <2>1, <2>2, <2>3, QuietSteps, CommittingImports
<1>2. ASSUME NEW d \in BalanceCodes, BalanceAccount(d)
      PROVE  Stays
  <2>1. d # c
    BY <1>0, <1>2 DEF BalanceAccount
  <2> QED
    BY <1>2, <2>1 DEF BalanceAccount, TypeOK
<1>3. CASE \E i \in Importers : Import(i)
  BY <1>3, ImportFrame
<1>4. CASE UNCHANGED vars
  BY <1>4 DEF vars
<1> QED
  BY <1>1, <1>2, <1>3, <1>4, StepKinds

\* Accounts are created together with their correspondences.
LEMMA TogetherStep ==
  ASSUME TypeOK, Known, OwnCodes, Together, [Next]_vars
  PROVE  Together'
<1> SUFFICES ASSUME NEW c \in Codes, mapping[c] = None
             PROVE  account'[c] = None <=> mapping'[c] = None
  BY RowsStay DEF Together
<1>0. account[c] = None
  BY DEF Together
<1>1. ASSUME NEW r \in Requests, RequestStep(r)
      PROVE  account'[c] = None <=> mapping'[c] = None
  <2>1. CASE ImportPlan(r)
    <3>1. request[r].file \in PlanFiles
      BY <2>1 DEF ImportPlan, Known, AtWork
    <3>2. CASE c \in CodesOf(request[r].file)
      <4>1. request[r].suggestions[c] \in MappingRow
        BY <2>1, <3>2 DEF ImportPlan, OwnCodes, Fresh
      <4> QED
        BY <2>1, <3>1, <3>2, <4>1, NoneAssumption, PlansAssumption DEF ImportPlan
    <3>3. CASE c \notin CodesOf(request[r].file)
      BY <1>0, <2>1, <3>3 DEF ImportPlan
    <3> QED
      BY <3>2, <3>3
  <2>2. CASE SaveWrite(r)
    <3>1. mapping[request[r].code] # None
      BY <2>2, SavedIsRow, NoneAssumption
    <3> QED
      BY <1>0, <2>2, <3>1 DEF SaveWrite, TypeOK
  <2>3. CASE PlanSave(r) \/ PlanFail(r)
    BY <1>0, <2>3 DEF PlanSave, PlanFail
  <2> QED
    BY <1>0, <1>1, <2>1, <2>2, <2>3, QuietSteps, CommittingImports
<1>2. ASSUME NEW d \in BalanceCodes, BalanceAccount(d)
      PROVE  account'[c] = None <=> mapping'[c] = None
  <2>1. mapping'[d] \in MappingRow /\ account'[d] = "balance"
    BY <1>2, PlansAssumption DEF BalanceAccount, MappingRow, TypeOK
  <2>2. c # d => account'[c] = account[c] /\ mapping'[c] = mapping[c]
    BY <1>2 DEF BalanceAccount, TypeOK
  <2> QED
    BY <1>0, <2>1, <2>2, NoneAssumption
<1>3. CASE \E i \in Importers : Import(i)
  BY <1>0, <1>3, ImportFrame
<1>4. CASE UNCHANGED vars
  BY <1>0, <1>4 DEF vars
<1> QED
  BY <1>1, <1>2, <1>3, <1>4, StepKinds

-----------------------------------------------------------------------------
(* What a request works on. *)

\* A review stays with one correspondence that exists.
LEMMA ReviewStays ==
  ASSUME TypeOK, Known, NEW r \in Requests, Review(r)
  PROVE  \/ request'[r] = IdleRequest
         \/ /\ request'[r].pc \in Reviewing
            /\ request'[r].code \in Codes /\ mapping[request'[r].code] # None
<1> USE DEF TypeOK, Reviewing
<1>1. ASSUME NEW c \in Codes, NEW entity, Save(r, c, entity) \/ AssignRead(r, c)
      PROVE  /\ request'[r].pc \in Reviewing
             /\ request'[r].code \in Codes /\ mapping[request'[r].code] # None
  BY <1>1 DEF Save, AssignRead, IdleRequest
<1>2. ASSUME NEW entity, request[r].pc = "choosing",
             request' = [request EXCEPT ![r] = [@ EXCEPT !.pc = "saved",
                           !.relation = None, !.entity = entity]]
      PROVE  /\ request'[r].pc \in Reviewing
             /\ request'[r].code \in Codes /\ mapping[request'[r].code] # None
  BY <1>2 DEF Known, Request
<1>3. CASE SaveLoad(r)
  <2> DEFINE changes == [k \in Different(request[r].entity, mapping[request[r].code])
                           |-> request[r].entity[k]]
  <2>1. request[r].pc = "saved"
    BY <1>3 DEF SaveLoad
  <2>2. request' = [request EXCEPT ![r] =
                      [@ EXCEPT !.pc = "loaded", !.entity = None, !.changes = changes]]
    BY <1>3 DEF SaveLoad
  <2> HIDE DEF changes
  <2> QED
    BY <2>1, <2>2 DEF Known, Request
<1>4. CASE Abandon(r) \/ SaveWrite(r)
  BY <1>4 DEF Abandon, SaveWrite
<1> QED
  BY <1>1, <1>2, <1>3, <1>4, ReviewKinds

\* A request that fails knows what it was importing.
LEMMA FailingKeepsFile ==
  ASSUME TypeOK, NEW r \in Requests, Failing(r)
  PROVE  request'[r].pc = "failing" /\ request'[r].file = request[r].file
BY DEF TypeOK, Failing, IdleRequest

\* The steps of an import of a plan, and of none.
LEMMA PlanStays ==
  ASSUME TypeOK, NEW r \in Requests, RequestStep(r), ~Review(r)
  PROVE  \/ request'[r] = IdleRequest
         \/ \E f \in PlanFiles :
              /\ PlanCheck(r, f)
              /\ request'[r].pc = "saving" /\ request'[r].file = f
         \/ /\ PlanSave(r) /\ plan[request[r].file] = "absent"
            /\ request'[r].pc = "processing" /\ request'[r].file = request[r].file
         \/ /\ PlanMatch(r)
            /\ request'[r].pc \in {"matched", "refused"} /\ request'[r].file = request[r].file
         \/ /\ PlanError(r) \/ PlanCommitUnanswered(r)
            /\ request'[r].pc = "failing" /\ request'[r].file = request[r].file
<1> USE DEF TypeOK
<1>1. ASSUME NEW f \in PlanFiles, PlanCheck(r, f)
      PROVE  request'[r].pc = "saving" /\ request'[r].file = f
  BY <1>1 DEF PlanCheck, IdleRequest
<1>2. ASSUME PlanSave(r)
      PROVE  \/ request'[r] = IdleRequest
             \/ /\ plan[request[r].file] = "absent"
                /\ request'[r].pc = "processing" /\ request'[r].file = request[r].file
  BY <1>2 DEF PlanSave, Request
<1>3. ASSUME PlanMatch(r)
      PROVE  request'[r].pc \in {"matched", "refused"} /\ request'[r].file = request[r].file
  <2>1. \A suggestions :
          /\ [request[r] EXCEPT !.pc = "matched", !.suggestions = suggestions].pc = "matched"
          /\ [request[r] EXCEPT !.pc = "matched", !.suggestions = suggestions].file
               = request[r].file
          /\ [request[r] EXCEPT !.pc = "refused"].pc = "refused"
          /\ [request[r] EXCEPT !.pc = "refused"].file = request[r].file
    BY DEF Request
  <2> QED
    BY <1>3, <2>1 DEF PlanMatch
<1>4. ASSUME PlanCommit(r) \/ PlanFail(r) \/ Die(r)
      PROVE  request'[r] = IdleRequest
  BY <1>4 DEF PlanCommit, PlanFail, Die
<1>5. ASSUME PlanError(r) \/ PlanCommitUnanswered(r)
      PROVE  request'[r].pc = "failing" /\ request'[r].file = request[r].file
  BY <1>5, FailingKeepsFile DEF PlanError, PlanCommitUnanswered
<1> QED
  BY <1>1, <1>2, <1>3, <1>4, <1>5 DEF RequestStep, PlanStep

\* Where a request is when it takes one of these steps.
LEMMA WorkingBefore ==
  ASSUME NEW r \in Requests
  PROVE  /\ PlanSave(r) => request[r].pc = "saving"
         /\ PlanMatch(r) => request[r].pc = "processing"
         /\ ImportPlan(r) \/ PlanError(r) => request[r].pc = "matched"
         /\ PlanCommitUnanswered(r) => request[r].pc = "matched"
         /\ PlanFail(r) => request[r].pc \in {"refused", "failing"}
BY DEF PlanSave, PlanMatch, ImportPlan, PlanCommitUnanswered, PlanError, PlanFail

\* Operations keep working on files and correspondences that exist.
LEMMA KnownStep ==
  ASSUME TypeOK, Known, OwnCodes, Together, [Next]_vars
  PROVE  Known'
<1>1. ASSUME NEW i \in Importers, importer'[i].pc # "idle"
      PROVE  importer'[i].file \in SiiFiles
  <2>1. ASSUME NEW j \in Importers, Import(j)
        PROVE  importer'[i].file \in SiiFiles
    <3> USE DEF TypeOK, Importer, Known
    <3>1. ASSUME NEW f \in SiiFiles, SiiCheck(j, f)
          PROVE  importer'[i].file \in SiiFiles
      BY <1>1, <3>1 DEF SiiCheck
    <3>2. CASE SiiInsert(j)
      BY <1>1, <3>2 DEF SiiInsert
    <3>3. CASE SiiActivate(j) \/ SiiAbort(j)
      BY <1>1, <3>3 DEF SiiActivate, SiiAbort
    <3> QED
      BY <2>1, <3>1, <3>2, <3>3 DEF Import
  <2>2. CASE UNCHANGED importer
    BY <1>1, <2>2 DEF Known
  <2>3. (\E j \in Importers : Import(j)) \/ UNCHANGED importer
    BY StepKinds, RequestFrame DEF BalanceAccount, vars
  <2> QED
    BY <2>1, <2>2, <2>3
<1>2. ASSUME NEW r \in Requests
      PROVE  /\ request'[r].pc \in AtWork \cup {"saving"} => request'[r].file \in PlanFiles
             /\ request'[r].pc \in Reviewing =>
                  request'[r].code \in Codes /\ mapping'[request'[r].code] # None
  <2> DEFINE Works ==
        /\ request'[r].pc \in AtWork \cup {"saving"} => request'[r].file \in PlanFiles
        /\ request'[r].pc \in Reviewing =>
             request'[r].code \in Codes /\ mapping[request'[r].code] # None
  <2>1. ASSUME Review(r)
        PROVE  Works
    BY <2>1, ReviewStays DEF Reviewing, AtWork, IdleRequest
  <2>2. ASSUME RequestStep(r), ~Review(r)
        PROVE  Works
    <3>1. \/ request'[r] = IdleRequest
          \/ /\ request'[r].pc \in AtWork \cup {"saving"}
             /\ request'[r].file \in PlanFiles
      BY <2>2, PlanStays, WorkingBefore DEF Known, AtWork
    <3> QED
      BY <3>1 DEF Reviewing, AtWork, IdleRequest
  <2>3. ASSUME request'[r] = request[r]
        PROVE  Works
    BY <2>3 DEF Known
  <2>4. RequestStep(r) \/ request'[r] = request[r]
    BY StepKinds, RequestFrame, ImportFrame DEF BalanceAccount, vars
  <2>5. Works
    BY <2>1, <2>2, <2>3, <2>4
  <2> QED
    BY <2>5, RowsStay
<1> QED
  BY <1>1, <1>2 DEF Known

\* No step lets two requests import one version of the plan.
LEMMA OwnFileStep ==
  ASSUME TypeOK, Known, OwnFile, [Next]_vars
  PROVE  OwnFile'
<1>1. ASSUME NEW r \in Requests, RequestStep(r)
      PROVE  OwnFile'
  <2>1. \A q \in Requests \ {r} : request'[q] = request[q]
    BY <1>1, RequestFrame
  <2> USE DEF TypeOK, OwnFile
  <2>2. CASE PlanSave(r) /\ plan[request[r].file] = "absent"
    <3>1. request[r].file \in PlanFiles
      BY <2>2 DEF PlanSave, Known
    <3>2. plan' = [plan EXCEPT ![request[r].file] = "processing"]
      BY <2>2 DEF PlanSave
    <3>3. request'[r].pc = "processing" /\ request'[r].file = request[r].file
      BY <2>2 DEF PlanSave, Request
    <3>4. \A q \in Requests : request[q].pc \in AtWork =>
            request[q].file # request[r].file /\ request[q].file \in PlanFiles
      BY <2>2 DEF Known
    <3> QED
      BY <2>1, <3>1, <3>2, <3>3, <3>4 DEF AtWork
  <2>3. CASE (PlanSave(r) /\ plan[request[r].file] # "absent")
    BY <2>1, <2>3 DEF PlanSave, IdleRequest, AtWork
  <2>4. CASE PlanCommit(r) \/ PlanFail(r)
    <3>1. request[r].pc \in AtWork /\ request'[r] = IdleRequest
      BY <2>4 DEF PlanCommit, ImportPlan, PlanFail, AtWork
    <3>2. \A f \in PlanFiles \ {request[r].file} : plan'[f] = plan[f]
      BY <2>4 DEF PlanCommit, ImportPlan, PlanFail
    <3>3. request'[r].pc \notin AtWork
      BY <3>1 DEF IdleRequest, AtWork
    <3> QED
      BY <2>1, <3>1, <3>2, <3>3 DEF Known
  <2>5. CASE SaveWrite(r)
    BY <2>1, <2>5 DEF SaveWrite, IdleRequest, AtWork
  <2>6. CASE PlanCommitUnanswered(r)
    <3>1. request[r].pc \in AtWork /\ request[r].file \in PlanFiles
      BY <2>6, WorkingBefore DEF Known, AtWork
    <3>2. plan' = [plan EXCEPT ![request[r].file] = "ready"]
      BY <2>6 DEF PlanCommitUnanswered, ImportPlan
    <3>3. request'[r].pc = "failing" /\ request'[r].file = request[r].file
      BY <2>6, FailingKeepsFile DEF PlanCommitUnanswered
    <3>4. \A q \in Requests \ {r} : request[q].pc \in AtWork =>
            request[q].file # request[r].file /\ request[q].file \in PlanFiles
      BY <3>1 DEF Known
    <3> QED
      BY <2>1, <3>1, <3>2, <3>3, <3>4
  <2>7. CASE ~PlanSave(r) /\ ~Committing(r) /\ ~PlanFail(r) /\ ~SaveWrite(r)
    <3>1. UNCHANGED plan
      BY <1>1, <2>7, QuietSteps
    <3>2. request'[r].pc \in AtWork =>
            /\ request[r].pc \in AtWork /\ request'[r].file = request[r].file
            /\ plan[request[r].file] = "processing"
      <4>1. CASE Review(r)
        BY <4>1, ReviewStays DEF Reviewing, AtWork, IdleRequest
      <4>2. CASE ~Review(r)
        BY <1>1, <2>7, <4>2, PlanStays, WorkingBefore DEF AtWork, IdleRequest, Committing
      <4> QED
        BY <4>1, <4>2
    <3> QED
      BY <2>1, <3>1, <3>2
  <2> QED
    BY <2>2, <2>3, <2>4, <2>5, <2>6, <2>7 DEF Committing
<1>2. ASSUME NEW d \in BalanceCodes, BalanceAccount(d)
      PROVE  OwnFile'
  BY <1>2 DEF BalanceAccount, OwnFile
<1>3. CASE \E i \in Importers : Import(i)
  BY <1>3, ImportFrame DEF OwnFile
<1>4. CASE UNCHANGED vars
  BY <1>4 DEF vars, OwnFile
<1> QED
  BY <1>1, <1>2, <1>3, <1>4, StepKinds

-----------------------------------------------------------------------------
(* The imports of plans. *)

\* The codes of an uncommitted import stay its own.
LEMMA OwnCodesStep ==
  ASSUME TypeOK, Known, OwnCodes, [Next]_vars
  PROVE  OwnCodes'
<1>1. ASSUME NEW r \in Requests, RequestStep(r)
      PROVE  OwnCodes'
  <2>1. \A q \in Requests \ {r} : request'[q] = request[q]
    BY <1>1, RequestFrame
  <2>2. \A q \in Requests \ {r} : Uncommitted(q)' = Uncommitted(q)
    BY <2>1 DEF Uncommitted
  <2>3. CASE PlanMatch(r) /\ request'[r].pc = "matched"
    <3> DEFINE f == request[r].file
    <3>1. f \in PlanFiles /\ request[r].pc = "processing"
      BY <2>3 DEF PlanMatch, Known, AtWork
    <3>2. ValidPlan(f) /\ Free(f)
      <4>1. ~(ValidPlan(f) /\ Free(f)) => request'[r] = [request[r] EXCEPT !.pc = "refused"]
        BY <2>3 DEF PlanMatch, TypeOK
      <4>2. [request[r] EXCEPT !.pc = "refused"].pc = "refused"
        BY DEF TypeOK, Request
      <4> QED
        BY <2>3, <4>1, <4>2
    <3>3. request'[r] = [request[r] EXCEPT !.pc = "matched",
                           !.suggestions = [c \in Codes |->
                             IF c \in CodesOf(f) THEN Suggestion(RowOf(f, c)) ELSE None]]
      BY <2>3, <3>2 DEF PlanMatch, TypeOK
    <3>4. /\ request'[r].file = f
          /\ request'[r].suggestions = [c \in Codes |->
               IF c \in CodesOf(f) THEN Suggestion(RowOf(f, c)) ELSE None]
      BY <3>3 DEF TypeOK, Request
    <3>5. CodesOf(f) \subseteq Codes
      BY <3>1, <3>2, ValidCodes
    <3>6. \A c \in CodesOf(f) : account[c] = None /\ Fresh(request'[r].suggestions[c])
      BY <3>2, <3>4, <3>5, SuggestionIsFresh DEF Free
    <3>7. \A q \in Requests : Uncommitted(q) \cap CodesOf(f) = {}
      BY <2>3, <3>2 DEF PlanMatch
    <3>8. Uncommitted(r)' = CodesOf(f)
      BY <2>3, <3>4 DEF Uncommitted
    <3>9. UNCHANGED account
      BY <2>3 DEF PlanMatch
    <3>10. ASSUME NEW q \in Requests, request'[q].pc = "matched"
           PROVE  LET g == request'[q].file IN
                  /\ CodesOf(g) \subseteq Codes
                  /\ \A c \in CodesOf(g) :
                       account'[c] = None /\ Fresh(request'[q].suggestions[c])
                  /\ \A p \in Requests \ {q} : Uncommitted(p)' \cap CodesOf(g) = {}
      <4>1. CASE q = r
        BY <2>2, <3>4, <3>5, <3>6, <3>7, <3>9, <4>1
      <4>2. CASE q # r
        <5>1. request'[q] = request[q] /\ Uncommitted(q) = CodesOf(request[q].file)
          BY <2>1, <3>10, <4>2 DEF Uncommitted
        <5> QED
          BY <2>2, <3>7, <3>8, <3>9, <3>10, <4>2, <5>1 DEF OwnCodes
      <4> QED
        BY <4>1, <4>2
    <3> QED
      BY <3>10 DEF OwnCodes, Fresh
  <2>4. ASSUME request'[r].pc # "matched",
               \A q \in Requests \ {r} : request[q].pc = "matched" =>
                 \A c \in CodesOf(request[q].file) : account'[c] = account[c]
        PROVE  OwnCodes'
    <3>1. Uncommitted(r)' = {}
      BY <2>4 DEF Uncommitted
    <3> QED
      BY <2>1, <2>2, <2>4, <3>1 DEF OwnCodes, Fresh
  <2>5. CASE Committing(r)
    <3>1. request'[r].pc # "matched" /\ ImportPlan(r)
      BY <2>5, FailingKeepsFile
      DEF Committing, PlanCommit, PlanCommitUnanswered, IdleRequest, TypeOK
    <3>2. ASSUME NEW q \in Requests \ {r}, request[q].pc = "matched",
                 NEW c \in CodesOf(request[q].file)
          PROVE  account'[c] = account[c]
      <4>1. c \notin CodesOf(request[r].file) /\ c \in Codes
        BY <3>1, <3>2 DEF ImportPlan, OwnCodes, Uncommitted
      <4> QED
        BY <3>1, <4>1 DEF ImportPlan
    <3> QED
      BY <2>4, <3>1, <3>2
  <2>6. CASE request'[r].pc # "matched" /\ ~Committing(r)
    <3>1. UNCHANGED account
      BY <1>1, <2>6, QuietSteps DEF PlanSave, PlanFail, SaveWrite
    <3> QED
      BY <2>4, <2>6, <3>1
  <2>7. request'[r].pc = "matched" => PlanMatch(r)
    <3>1. CASE Review(r)
      BY <3>1, ReviewStays DEF Reviewing, IdleRequest
    <3>2. CASE ~Review(r)
      BY <1>1, <3>2, PlanStays DEF IdleRequest
    <3> QED
      BY <3>1, <3>2
  <2> QED
    BY <2>3, <2>5, <2>6, <2>7
<1>2. ASSUME NEW d \in BalanceCodes, BalanceAccount(d)
      PROVE  OwnCodes'
  <2>1. UNCHANGED request /\ \A c \in Codes \ {d} : account'[c] = account[c]
    BY <1>2 DEF BalanceAccount, TypeOK
  <2>2. \A r \in Requests : request[r].pc = "matched" => d \notin CodesOf(request[r].file)
    BY <1>2 DEF BalanceAccount, Uncommitted
  <2> QED
    BY <2>1, <2>2 DEF OwnCodes, Uncommitted, Fresh
<1>3. CASE UNCHANGED <<account, request>>
  BY <1>3 DEF OwnCodes, Uncommitted, Fresh
<1> QED
  BY <1>1, <1>2, <1>3, StepKinds, ImportFrame DEF vars

\* A plan is imported by the commit of its import, and stays imported.
LEMMA ImportedByCommit ==
  ASSUME TypeOK, Known, [Next]_vars, NEW f \in PlanFiles
  PROVE  /\ Imported(f) => Imported(f)'
         /\ Imported(f)' /\ ~Imported(f) =>
              \E r \in Requests : ImportPlan(r) /\ request[r].file = f
<1> DEFINE Goal == /\ Imported(f) => Imported(f)'
                   /\ Imported(f)' /\ ~Imported(f) =>
                        \E r \in Requests : ImportPlan(r) /\ request[r].file = f
<1>1. ASSUME NEW r \in Requests, RequestStep(r)
      PROVE  Goal
  <2>1. CASE PlanSave(r)
    BY <2>1 DEF PlanSave, TypeOK, Imported
  <2>2. CASE ImportPlan(r)
    BY <2>2 DEF ImportPlan, TypeOK, Imported
  <2>3. CASE PlanFail(r)
    <3>1. plan' = [plan EXCEPT ![request[r].file] = "failed"]
      BY <2>3 DEF PlanFail
    <3>2. overwritten' = IF plan[request[r].file] = "ready"
                         THEN overwritten \cup {request[r].file} ELSE overwritten
      BY <2>3 DEF PlanFail
    <3> QED
      BY <3>1, <3>2 DEF TypeOK, Imported
  <2>4. CASE UNCHANGED <<plan, overwritten>>
    BY <2>4 DEF Imported
  <2> QED
    BY <1>1, <2>1, <2>2, <2>3, <2>4, QuietSteps, CommittingImports DEF SaveWrite
<1>2. CASE UNCHANGED <<plan, overwritten>>
  BY <1>2 DEF Imported
<1> QED
  BY <1>1, <1>2, StepKinds, ImportFrame DEF vars, BalanceAccount

\* Only plans of known codes are imported.
LEMMA ReadyCodesStep ==
  ASSUME TypeOK, Known, OwnCodes, ReadyCodes, [Next]_vars
  PROVE  ReadyCodes'
<1> SUFFICES ASSUME NEW f \in PlanFiles, Imported(f)'
             PROVE  CodesOf(f) \subseteq Codes
  BY DEF ReadyCodes, CodesOf
<1>1. CASE Imported(f)
  BY <1>1 DEF ReadyCodes
<1>2. CASE ~Imported(f)
  <2>1. PICK r \in Requests : ImportPlan(r) /\ request[r].file = f
    BY <1>2, ImportedByCommit
  <2> QED
    BY <2>1, WorkingBefore DEF OwnCodes
<1> QED
  BY <1>1, <1>2

\* An account comes with the commit of the plan it is of, or with a balance.
LEMMA AccountsComeWithPlans ==
  ASSUME TypeOK, Known, [Next]_vars, NEW c \in Codes, NEW f \in PlanFiles,
         account[c] = None, account'[c] = f
  PROVE  \E r \in Requests :
           ImportPlan(r) /\ request[r].file = f /\ c \in CodesOf(f) /\ plan'[f] = "ready"
<1> DEFINE Goal == \E r \in Requests :
           ImportPlan(r) /\ request[r].file = f /\ c \in CodesOf(f) /\ plan'[f] = "ready"
<1>0. f # None /\ f # "balance"
  BY PlansAssumption
<1>1. ASSUME NEW r \in Requests, RequestStep(r)
      PROVE  Goal
  <2>1. ImportPlan(r)
    BY <1>0, <1>1, QuietSteps, CommittingImports DEF PlanSave, PlanFail, SaveWrite
  <2>2. request[r].file \in PlanFiles
    BY <2>1, WorkingBefore DEF Known, AtWork
  <2> QED
    BY <1>0, <2>1, <2>2 DEF ImportPlan, TypeOK
<1>2. ASSUME NEW d \in BalanceCodes, BalanceAccount(d)
      PROVE  FALSE
  BY <1>0, <1>2 DEF BalanceAccount, TypeOK
<1>3. ~UNCHANGED account
  BY <1>0
<1> QED
  BY <1>1, <1>2, <1>3, StepKinds, ImportFrame DEF vars

\* A plan is imported together with its accounts.
LEMMA ReadyIsWholeStep ==
  ASSUME TypeOK, Known, OwnFile, OwnCodes, ReadyCodes, Together, ReadyIsWhole, [Next]_vars
  PROVE  ReadyIsWhole'
<1>1. ASSUME NEW f \in PlanFiles, Imported(f)', NEW c \in CodesOf(f)
      PROVE  account'[c] = f
  <2>1. CASE Imported(f)
    <3>1. account[c] = f /\ c \in Codes /\ f # None
      BY <2>1, PlansAssumption DEF ReadyIsWhole, ReadyCodes
    <3> QED
      BY <3>1, RowsStay DEF Together
  <2>2. CASE ~Imported(f)
    <3>1. PICK r \in Requests : ImportPlan(r) /\ request[r].file = f
      BY <1>1, <2>2, ImportedByCommit
    <3>2. c \in Codes
      BY <3>1, WorkingBefore DEF OwnCodes
    <3> QED
      BY <3>1, <3>2 DEF ImportPlan
  <2> QED
    BY <2>1, <2>2
<1>2. ASSUME NEW f \in PlanFiles, NEW c \in Codes, account'[c] = f
      PROVE  Imported(f)' /\ c \in CodesOf(f) /\ mapping'[c] # None
  <2>1. f # None
    BY PlansAssumption
  <2>2. mapping'[c] # None
    BY <1>2, <2>1, TogetherStep DEF Together
  <2>3. CASE account[c] = None
    BY <1>2, <2>2, <2>3, AccountsComeWithPlans DEF Imported
  <2>4. CASE account[c] # None
    <3>1. account[c] = f
      BY <1>2, <2>4, RowsStay DEF Together
    <3> QED
      BY <2>2, <3>1, ImportedByCommit DEF ReadyIsWhole
  <2> QED
    BY <2>3, <2>4
<1> QED
  BY <1>1, <1>2 DEF ReadyIsWhole, CodesOf

-----------------------------------------------------------------------------
(* The reviews of correspondences. *)

\* The effect of saving the columns of a review.
LEMMA WrittenIsDecided ==
  ASSUME TypeOK, Known, Decides, NEW r \in Requests, SaveWrite(r)
  PROVE  LET c == request[r].code IN
         /\ c \in Codes
         /\ mapping[c] \in MappingRow
         /\ mapping' = [mapping EXCEPT ![c] = Merged(mapping[c], request[r].changes)]
         /\ mapping'[c] \in MappingRow
         /\ mapping'[c] = Merged(mapping[c], request[r].changes)
         /\ mapping'[c].status \in Decided /\ mapping'[c].reviewed
<1> DEFINE c == request[r].code
           row == Merged(mapping[c], request[r].changes)
<1>1. /\ c \in Codes /\ mapping[c] \in MappingRow /\ row \in MappingRow
      /\ mapping' = [mapping EXCEPT ![c] = row]
  BY SavedIsRow
<1>2. mapping'[c] = row
  BY <1>1 DEF TypeOK
<1>3. row.status \in Decided /\ row.reviewed
  BY WorkingBefore DEF SaveWrite, Decides, Merged, Columns
<1> QED
  BY <1>1, <1>2, <1>3

\* A new correspondence was not reviewed, and nobody is reviewing it.
LEMMA CreatedIsFresh ==
  ASSUME TypeOK, Known, OwnCodes, [Next]_vars,
         NEW c \in Codes, mapping[c] = None, mapping'[c] # None
  PROVE  /\ Fresh(mapping'[c])
         /\ \A r \in Requests : request'[r].pc \in {"saved", "loaded"} => request'[r].code # c
<1> DEFINE Goal ==
      /\ Fresh(mapping'[c])
      /\ \A r \in Requests : request'[r].pc \in {"saved", "loaded"} => request'[r].code # c
<1>1. ASSUME NEW r \in Requests, RequestStep(r)
      PROVE  Goal
  <2>1. ~SaveWrite(r)
    <3>1. SUFFICES ASSUME SaveWrite(r)
                   PROVE  FALSE
      OBVIOUS
    <3>2. mapping[request[r].code] # None
      BY <3>1, SavedIsRow, NoneAssumption
    <3> QED
      BY <3>1, <3>2 DEF SaveWrite, TypeOK
  <2>2. Committing(r)
    BY <1>1, <2>1, QuietSteps DEF PlanSave, PlanFail
  <2>3. c \in CodesOf(request[r].file) /\ mapping'[c] = request[r].suggestions[c]
    BY <2>2, CommittingImports DEF ImportPlan
  <2>4. Fresh(mapping'[c])
    BY <2>2, <2>3, CommittingImports, WorkingBefore DEF OwnCodes
  <2>5. \A q \in Requests : request'[q].pc \in {"saved", "loaded"} => request'[q].code # c
    <3>1. request'[r].pc \notin {"saved", "loaded"}
      BY <2>2, FailingKeepsFile
      DEF Committing, PlanCommit, PlanCommitUnanswered, IdleRequest, TypeOK
    <3> QED
      BY <1>1, <3>1, RequestFrame DEF Known, Reviewing
  <2> QED
    BY <2>4, <2>5
<1>2. ASSUME NEW d \in BalanceCodes, BalanceAccount(d)
      PROVE  Goal
  <2>1. c = d
    BY <1>2 DEF BalanceAccount, TypeOK
  <2>2. mapping'[c] = [sii |-> None, status |-> "pending", method |-> "automatic",
                       scored |-> FALSE, reviewed |-> FALSE]
    BY <1>2, <2>1 DEF BalanceAccount, TypeOK
  <2>3. Fresh(mapping'[c])
    BY <2>2 DEF Fresh, MappingRow, Rules
  <2>4. UNCHANGED request
    BY <1>2 DEF BalanceAccount
  <2> QED
    BY <2>3, <2>4 DEF Known, Reviewing
<1>3. ~UNCHANGED mapping
  OBVIOUS
<1> QED
  BY <1>1, <1>2, <1>3, StepKinds, ImportFrame DEF vars

\* How a request comes to save an entity.
LEMMA SavedBy ==
  ASSUME TypeOK, Known, [Next]_vars, NEW r \in Requests,
         request'[r].pc = "saved", request'[r] # request[r]
  PROVE  /\ UNCHANGED mapping
         /\ \/ /\ Decision(request'[r].entity, mapping[request'[r].code])
               /\ mapping[request'[r].code] # None
            \/ /\ Decision(request'[r].entity, request'[r].entity)
               /\ request'[r].entity.method = "manual" /\ ~request'[r].entity.scored
<1>1. RequestStep(r)
  BY StepKinds, RequestFrame, ImportFrame DEF vars, BalanceAccount
<1>2. Review(r)
  BY <1>1, PlanStays DEF IdleRequest
<1>3. ~Abandon(r) /\ ~SaveLoad(r) /\ ~SaveWrite(r)
  <2>1. ~Abandon(r) /\ ~SaveWrite(r)
    BY DEF Abandon, SaveWrite, IdleRequest, TypeOK
  <2>2. ASSUME SaveLoad(r)
        PROVE  FALSE
    <3> DEFINE changes == [k \in Different(request[r].entity, mapping[request[r].code])
                             |-> request[r].entity[k]]
    <3>1. request' = [request EXCEPT ![r] =
                        [@ EXCEPT !.pc = "loaded", !.entity = None, !.changes = changes]]
      BY <2>2 DEF SaveLoad
    <3> HIDE DEF changes
    <3> QED
      BY <3>1 DEF TypeOK, Request
  <2> QED
    BY <2>1, <2>2
<1>4. ASSUME NEW c \in Codes, NEW entity, Decision(entity, mapping[c]), Save(r, c, entity)
      PROVE  /\ UNCHANGED mapping
             /\ Decision(request'[r].entity, mapping[request'[r].code])
             /\ mapping[request'[r].code] # None
  BY <1>4 DEF Save, IdleRequest, TypeOK
<1>5. ASSUME NEW c \in Codes, AssignRead(r, c)
      PROVE  FALSE
  BY <1>5 DEF AssignRead, IdleRequest, TypeOK
<1>6. ASSUME NEW entity, Decision(entity, entity),
             entity.method = "manual" /\ ~entity.scored,
             request' = [request EXCEPT ![r] = [@ EXCEPT !.pc = "saved",
                           !.relation = None, !.entity = entity]]
      PROVE  /\ Decision(request'[r].entity, request'[r].entity)
             /\ request'[r].entity.method = "manual" /\ ~request'[r].entity.scored
  <2>1. request'[r].entity = entity
    BY <1>6 DEF TypeOK, Request
  <2> QED
    BY <1>6, <2>1
<1> QED
  BY <1>2, <1>3, <1>4, <1>5, <1>6, ReviewKinds

\* How a request comes to have loaded the row it saves over.
LEMMA LoadedBy ==
  ASSUME TypeOK, Known, [Next]_vars, NEW r \in Requests,
         request'[r].pc = "loaded", request'[r] # request[r]
  PROVE  /\ UNCHANGED mapping
         /\ request[r].pc = "saved" /\ request'[r].code = request[r].code
         /\ LET row == mapping[request[r].code] IN
            request'[r].changes = [k \in Different(request[r].entity, row)
                                     |-> request[r].entity[k]]
<1>1. RequestStep(r)
  BY StepKinds, RequestFrame, ImportFrame DEF vars, BalanceAccount
<1>2. Review(r)
  BY <1>1, PlanStays DEF IdleRequest
<1>3. ~Abandon(r) /\ ~SaveWrite(r)
  BY DEF Abandon, SaveWrite, IdleRequest, TypeOK
<1>4. ASSUME NEW c \in Codes, NEW entity, Save(r, c, entity) \/ AssignRead(r, c)
      PROVE  FALSE
  BY <1>4 DEF Save, AssignRead, IdleRequest, TypeOK
<1>5. ASSUME NEW entity,
             request' = [request EXCEPT ![r] = [@ EXCEPT !.pc = "saved",
                           !.relation = None, !.entity = entity]]
      PROVE  FALSE
  BY <1>5 DEF TypeOK, Request
<1>6. SaveLoad(r)
  BY <1>2, <1>3, <1>4, <1>5, ReviewKinds
<1> DEFINE changes == [k \in Different(request[r].entity, mapping[request[r].code])
                         |-> request[r].entity[k]]
<1>7. /\ UNCHANGED mapping
      /\ request[r].pc = "saved"
      /\ request' = [request EXCEPT ![r] =
                       [@ EXCEPT !.pc = "loaded", !.entity = None, !.changes = changes]]
  BY <1>6 DEF SaveLoad
<1>8. request'[r].code = request[r].code /\ request'[r].changes = changes
  <2> HIDE DEF changes
  <2> QED
    BY <1>7 DEF TypeOK, Request
<1> QED
  BY <1>7, <1>8

\* Reviews in progress keep deciding what they save over.
LEMMA DecidesStep ==
  ASSUME TypeOK, Known, OwnCodes, Together, Decides, [Next]_vars
  PROVE  Decides'
<1>1. ASSUME NEW r \in Requests, request'[r].pc = "saved"
      PROVE  /\ request'[r].entity \in MappingRow
             /\ request'[r].entity.status \in Decided /\ request'[r].entity.reviewed
  <2>1. CASE request'[r] = request[r]
    BY <1>1, <2>1 DEF Decides
  <2>2. CASE request'[r] # request[r]
    BY <1>1, <2>2, SavedBy DEF Decision
  <2> QED
    BY <2>1, <2>2
<1>2. ASSUME NEW r \in Requests, request'[r].pc = "loaded"
      PROVE  LET row == mapping'[request'[r].code]
                 changes == request'[r].changes
             IN
             /\ IF "status" \in DOMAIN changes THEN changes["status"] \in Decided
                ELSE row.status \in Decided
             /\ IF "reviewed" \in DOMAIN changes THEN changes["reviewed"] = TRUE
                ELSE row.reviewed
  <2>1. CASE request'[r] = request[r]
    <3> DEFINE c == request[r].code
    <3>1. c \in Codes /\ mapping[c] # None
      BY <1>2, <2>1 DEF Known, Reviewing
    <3>2. CASE mapping'[c] = mapping[c]
      BY <1>2, <2>1, <3>2 DEF Decides
    <3>3. CASE \E q \in Requests : SaveWrite(q) /\ request[q].code = c
      <4>1. mapping'[c].status \in Decided /\ mapping'[c].reviewed
        BY <3>3, WrittenIsDecided
      <4> QED
        BY <1>2, <2>1, <4>1 DEF Decides
    <3> QED
      BY <3>1, <3>2, <3>3, RowsStay
  <2>2. CASE request'[r] # request[r]
    <3> DEFINE row == mapping[request[r].code]
               entity == request[r].entity
    <3>1. /\ UNCHANGED mapping /\ request'[r].code = request[r].code
          /\ request'[r].changes = [k \in Different(entity, row) |-> entity[k]]
      BY <1>2, <2>2, LoadedBy
    <3>2. entity \in MappingRow /\ entity.status \in Decided /\ entity.reviewed
      BY <1>2, <2>2, LoadedBy DEF Decides
    <3>3. "status" \in Columns /\ "reviewed" \in Columns
      BY DEF Columns
    <3>4. /\ entity["status"] = entity.status /\ row["status"] = row.status
          /\ entity["reviewed"] = entity.reviewed /\ row["reviewed"] = row.reviewed
      OBVIOUS
    <3>5. entity.reviewed = TRUE
      BY <3>2 DEF MappingRow
    <3> QED
      BY <3>1, <3>2, <3>3, <3>4, <3>5 DEF Different
  <2> QED
    BY <2>1, <2>2
<1> QED
  BY <1>1, <1>2 DEF Decides

\* Columns of two rows born with one method still go together when they are
\* saved one over the other.
LEMMA MergedBornWith ==
  ASSUME NEW m \in Methods, NEW row, NEW changes, BornWith(row, m),
         ChangesBornWith(changes, m)
  PROVE  BornWith(Merged(row, changes), m)
<1>1. "method" \in Columns /\ "scored" \in Columns /\ "manual" \notin Rules
  BY DEF Columns, Rules
<1>2. /\ Merged(row, changes).method = IF "method" \in DOMAIN changes
                                       THEN changes["method"] ELSE row.method
      /\ Merged(row, changes).scored = IF "scored" \in DOMAIN changes
                                       THEN changes["scored"] ELSE row.scored
  BY <1>1 DEF Merged
<1> QED
  BY <1>1, <1>2 DEF BornWith, ChangesBornWith

\* Every step keeps the method each correspondence was born with.
LEMMA OneMethodStep ==
  ASSUME TypeOK, Known, OwnCodes, Together, Decides, OneMethod, [Next]_vars
  PROVE  OneMethod'
<1> SUFFICES ASSUME NEW c \in Codes, mapping'[c] # None
             PROVE  \E m \in Methods :
                      /\ BornWith(mapping'[c], m)
                      /\ \A r \in Requests :
                           /\ request'[r].pc = "saved" /\ request'[r].code = c =>
                                BornWith(request'[r].entity, m)
                           /\ request'[r].pc = "loaded" /\ request'[r].code = c =>
                                ChangesBornWith(request'[r].changes, m)
  BY DEF OneMethod, BornWith, ChangesBornWith
<1>1. CASE mapping[c] = None
  <2>1. mapping'[c].method \in Methods /\ BornWith(mapping'[c], mapping'[c].method)
    BY <1>1, CreatedIsFresh DEF Fresh, MappingRow, Methods, BornWith
  <2> QED
    BY <1>1, <2>1, CreatedIsFresh
<1>2. CASE mapping[c] # None
  <2>1. PICK m \in Methods :
          /\ BornWith(mapping[c], m)
          /\ \A r \in Requests :
               /\ request[r].pc = "saved" /\ request[r].code = c =>
                    BornWith(request[r].entity, m)
               /\ request[r].pc = "loaded" /\ request[r].code = c =>
                    ChangesBornWith(request[r].changes, m)
    BY <1>2 DEF OneMethod
  <2>2. BornWith(mapping'[c], m)
    <3>1. ASSUME NEW r \in Requests, SaveWrite(r), request[r].code = c
          PROVE  BornWith(mapping'[c], m)
      BY <2>1, <3>1, WrittenIsDecided, MergedBornWith DEF SaveWrite
    <3> QED
      BY <1>2, <2>1, <3>1, RowsStay
  <2>3. ASSUME NEW r \in Requests, request'[r].pc = "saved", request'[r].code = c
        PROVE  BornWith(request'[r].entity, m)
    <3>1. CASE request'[r] = request[r]
      BY <2>1, <2>3, <3>1
    <3>2. CASE request'[r] # request[r]
      <4>1. CASE Decision(request'[r].entity, mapping[c])
        BY <2>1, <4>1 DEF Decision, BornWith, Rules
      <4>2. CASE request'[r].entity.method = "manual" /\ ~request'[r].entity.scored
        BY <4>2 DEF BornWith, Rules
      <4> QED
        BY <2>3, <3>2, <4>1, <4>2, SavedBy
    <3> QED
      BY <3>1, <3>2
  <2>4. ASSUME NEW r \in Requests, request'[r].pc = "loaded", request'[r].code = c
        PROVE  ChangesBornWith(request'[r].changes, m)
    <3>1. CASE request'[r] = request[r]
      BY <2>1, <2>4, <3>1
    <3>2. CASE request'[r] # request[r]
      <4> DEFINE row == mapping[c]
                 entity == request[r].entity
                 changes == [k \in Different(entity, row) |-> entity[k]]
      <4>1. request'[r].changes = changes /\ request[r].pc = "saved" /\ request[r].code = c
        BY <2>4, <3>2, LoadedBy
      <4>2. BornWith(entity, m) /\ BornWith(row, m)
        BY <2>1, <4>1
      <4>3. entity \in MappingRow /\ row \in MappingRow
        BY <1>2, <4>1 DEF Decides, TypeOK
      <4>4. /\ "method" \in DOMAIN changes <=> entity.method # row.method
            /\ "scored" \in DOMAIN changes <=> entity.scored # row.scored
            /\ "method" \in DOMAIN changes => changes["method"] = entity.method
            /\ "scored" \in DOMAIN changes => changes["scored"] = entity.scored
        BY DEF Different, Columns
      <4>5. ChangesBornWith(changes, m)
        <5> HIDE DEF changes
        <5> QED
          BY <4>2, <4>3, <4>4 DEF BornWith, ChangesBornWith, MappingRow, Rules
      <4> QED
        BY <4>1, <4>5
    <3> QED
      BY <3>1, <3>2
  <2> QED
    BY <2>2, <2>3, <2>4
<1> QED
  BY <1>1, <1>2

\* Every step leaves every correspondence coherent.
LEMMA MappingCoherentStep ==
  ASSUME TypeOK, Known, OwnCodes, Together, Decides, OneMethod, MappingCoherent, [Next]_vars
  PROVE  MappingCoherent'
<1> SUFFICES ASSUME NEW c \in Codes, mapping'[c] # None
             PROVE  LET row == mapping'[c] IN
                    /\ row.scored <=> row.method \in Rules
                    /\ row.status = "pending" => row.sii = None /\ ~row.reviewed
                    /\ row.status = "suggested" => row.scored /\ ~row.reviewed /\ row.sii # None
                    /\ row.status \in {"confirmed", "rejected"} => row.reviewed
  BY DEF MappingCoherent
<1>1. CASE mapping[c] = None
  BY <1>1, CreatedIsFresh DEF Fresh
<1>2. CASE mapping[c] # None /\ mapping'[c] = mapping[c]
  BY <1>2 DEF MappingCoherent
<1>3. ASSUME NEW r \in Requests, SaveWrite(r), request[r].code = c
      PROVE  /\ mapping'[c].status \in Decided /\ mapping'[c].reviewed
             /\ mapping'[c].scored <=> mapping'[c].method \in Rules
  <2>1. mapping'[c].scored <=> mapping'[c].method \in Rules
    BY OneMethodStep DEF OneMethod, BornWith
  <2> QED
    BY <1>3, <2>1, WrittenIsDecided
<1> QED
  BY <1>1, <1>2, <1>3, RowsStay DEF Decided

-----------------------------------------------------------------------------
(* The catalogue. *)

\* The version in force changes when another one is activated.
LEMMA ActivationReplaces ==
  ASSUME TypeOK, Known, [Next]_vars
  PROVE  UNCHANGED catalogue \/ \E f \in SiiFiles : Current' = {f}
<1>1. ASSUME NEW i \in Importers, SiiActivate(i)
      PROVE  \E f \in SiiFiles : Current' = {f}
  <2>1. importer[i].file \in SiiFiles
    BY <1>1 DEF SiiActivate, Inserted, Known
  <2>2. Current' = {importer[i].file}
    BY <1>1, <2>1 DEF SiiActivate, Replaced, Current
  <2> QED
    BY <2>1, <2>2
<1>2. ASSUME NEW i \in Importers, Import(i), ~SiiActivate(i)
      PROVE  UNCHANGED catalogue
  BY <1>2 DEF Import, SiiCheck, SiiInsert, SiiAbort
<1> QED
  BY <1>1, <1>2, StepKinds, RequestFrame DEF vars, BalanceAccount

-----------------------------------------------------------------------------
(* The theorems. *)

\* The inductive invariant holds at first,
LEMMA IInvInit == Init => IInv
<1> SUFFICES ASSUME Init
             PROVE  IInv
  OBVIOUS
<1> USE DEF Init
<1>1. TypeOK
  BY IdleIsRequest DEF TypeOK, Importer
<1>2. \A r \in Requests : request[r].pc = "idle"
  BY DEF IdleRequest
<1>3. Known /\ OwnFile /\ OwnCodes /\ Decides
  BY <1>2 DEF Known, OwnFile, OwnCodes, Decides, AtWork, Reviewing
<1>4. ReadyCodes /\ Together /\ OneMethod /\ MappingCoherent
  BY DEF ReadyCodes, Imported, Together, OneMethod, MappingCoherent
<1>5. OneCurrent
  BY DEF OneCurrent, Current
<1>6. ReadyIsWhole
  BY PlansAssumption DEF ReadyIsWhole, Imported
<1> QED
  BY <1>1, <1>3, <1>4, <1>5, <1>6 DEF IInv

\* and every step keeps it.
LEMMA IInvStep == IInv /\ [Next]_vars => IInv'
<1> SUFFICES ASSUME IInv, [Next]_vars
             PROVE  IInv'
  OBVIOUS
<1>1. TypeOK' /\ Known'
  BY TypeStep, KnownStep DEF IInv
<1>2. OwnFile' /\ OwnCodes' /\ ReadyCodes' /\ Together'
  BY OwnFileStep, OwnCodesStep, ReadyCodesStep, TogetherStep DEF IInv
<1>3. Decides' /\ OneMethod'
  BY DecidesStep, OneMethodStep DEF IInv
<1>4. ReadyIsWhole' /\ MappingCoherent'
  BY ReadyIsWholeStep, MappingCoherentStep DEF IInv
<1>5. OneCurrent'
  BY ActivationReplaces DEF IInv, OneCurrent, Current
<1> QED
  BY <1>1, <1>2, <1>3, <1>4, <1>5 DEF IInv

\* The inductive invariant holds of every state the plans reach.
THEOREM PlansInvariant == Spec => []IInv
BY IInvInit, IInvStep, PTL DEF Spec

\* The tables, the commands and the requests always have their types.
THEOREM TypesOfPlans == Spec => []TypeOK
<1>1. IInv => TypeOK
  BY DEF IInv
<1> QED
  BY <1>1, PlansInvariant, PTL

\* However many commands import at the same time, at most one version of the
\* catalogue is active.
THEOREM OneCatalogue == Spec => []OneCurrent
<1>1. IInv => OneCurrent
  BY DEF IInv
<1> QED
  BY <1>1, PlansInvariant, PTL

\* No step leaves the matching without a current catalogue.
THEOREM CatalogueIsReplaced == Spec => CatalogueStays
<1>1. IInv /\ [Next]_vars => [Current # {} => Current' # {}]_catalogue
  BY ActivationReplaces DEF IInv
<1> QED
  BY <1>1, PlansInvariant, PTL DEF Spec, CatalogueStays

\* A version of the plan has all its accounts and correspondences exactly when
\* its import was committed, whatever fails, goes unanswered or dies in between:
\* when it is ready, or was and is marked as failed over that.
THEOREM ReadyPlansAreWhole == Spec => []ReadyIsWhole
<1>1. IInv => ReadyIsWhole
  BY DEF IInv
<1> QED
  BY <1>1, PlansInvariant, PTL

\* Every interleaving of reviews leaves every correspondence coherent.
THEOREM ReviewsStayCoherent == Spec => []MappingCoherent
<1>1. IInv => MappingCoherent
  BY DEF IInv
<1> QED
  BY <1>1, PlansInvariant, PTL

=============================================================================
