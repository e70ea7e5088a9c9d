---------------------------- MODULE AccountPlans ----------------------------
(***************************************************************************)
(* The two account plans of Jivatax: the catalogue of accounts of the SII,   *)
(* imported by a command that replaces the current version, and the plan of  *)
(* one company, imported from a stored file and matched with the current     *)
(* catalogue; and the reviews of the correspondences it was given.           *)
(*                                                                          *)
(* A file is named by its checksum, and a version by its file. Names equal  *)
(* up to letter case are one name. Every statement of the database is one   *)
(* step; a transaction that only inserts and never waits is one step too.   *)
(***************************************************************************)
EXTENDS Naturals, Sequences, FiniteSets

CONSTANTS
  SiiFiles,      \* spreadsheets with a catalogue of the SII
  Catalogue,     \* the accounts of each of them, [code, name]
  PlanFiles,     \* stored files with a plan of the company
  Rows,          \* the rows of each of them, in order
  Codes, Names,  \* account codes and names
  BalanceCodes,  \* codes the balances of the company have
  Normal,        \* the normalized form of each name
  Long,          \* normalized names of 8 characters or more
  Includes,      \* pairs of normalized names, the first contains the second
  Importers,     \* runs of the import command
  Requests,      \* HTTP requests in progress
  RelationWins,  \* a loaded relation prevails over its column when saved
  None

ASSUME PlansAssumption ==
  /\ Catalogue \in [SiiFiles -> SUBSET [code : Codes, name : Names]]
  /\ Rows \in [PlanFiles -> Seq([code : Codes \cup {None}, name : Names,
                                 parent : Codes \cup {None}, wellFormed : BOOLEAN])]
  /\ BalanceCodes \subseteq Codes
  /\ Normal \in [Names -> Names] /\ Long \subseteq Names
  /\ Includes \subseteq Names \X Names
  /\ RelationWins \in BOOLEAN
  /\ None \notin Codes \cup SiiFiles \cup PlanFiles
  /\ None \notin SiiFiles \X Codes
  /\ "balance" \notin PlanFiles

VARIABLES
  catalogue,  \* status of each version of the catalogue
  importer,   \* runs of the import command
  plan,       \* status of each version of the company's plan
  account,    \* who created the company account of each code
  mapping,    \* correspondence of the company account of each code
  request,    \* requests in progress
  overwritten \* plans that were committed and then marked as failed

vars == <<catalogue, importer, plan, account, mapping, request, overwritten>>
-----------------------------------------------------------------------------
SiiAccount == SiiFiles \X Codes

Rules == {"exact_code", "exact_name", "normalized_name", "contains_name"}

MappingRow == [sii : SiiAccount \cup {None},
               status : {"pending", "suggested", "confirmed", "rejected", "unmapped"},
               method : Rules \cup {"manual", "automatic"}, scored : BOOLEAN, reviewed : BOOLEAN]

Importer == [pc : {"idle", "checked", "inserted"}, file : SiiFiles \cup {None}]

Columns == {"sii", "status", "method", "scored", "reviewed"}

\* What a save writes: values for some of the columns.
Changes == {[k \in S |-> row[k]] : S \in SUBSET Columns, row \in MappingRow}

Request == [pc : {"idle", "saving", "processing", "matched", "refused", "failing",
                  "choosing", "saved", "loaded"},
            file : PlanFiles \cup {None}, code : Codes \cup {None},
            suggestions : [Codes -> MappingRow \cup {None}],
            relation : SiiAccount \cup {None}, entity : MappingRow \cup {None},
            changes : Changes]

NoChanges == [k \in {} |-> None]

ASSUME NoneAssumption == None \notin MappingRow \cup {"balance"}

IdleRequest == [pc |-> "idle", file |-> None, code |-> None,
                suggestions |-> [c \in Codes |-> None],
                relation |-> None, entity |-> None, changes |-> NoChanges]

Init ==
  /\ catalogue = [f \in SiiFiles |-> "absent"]
  /\ importer = [i \in Importers |-> [pc |-> "idle", file |-> None]]
  /\ plan = [f \in PlanFiles |-> "absent"]
  /\ account = [c \in Codes |-> None]
  /\ mapping = [c \in Codes |-> None]
  /\ request = [r \in Requests |-> IdleRequest]
  /\ overwritten = {}
-----------------------------------------------------------------------------
(* The import of the catalogue of the SII. *)

\* What the validation and the official controls leave of a spreadsheet.
Acceptable(f) ==
  /\ Catalogue[f] # {}
  /\ \A a, b \in Catalogue[f] : a.code = b.code => a = b

\* A dry run, and a file that was imported, end here.
SiiCheck(i, f) ==
  /\ importer[i].pc = "idle"
  /\ Acceptable(f)
  /\ catalogue[f] = "absent"
  /\ importer' = [importer EXCEPT ![i] = [pc |-> "checked", file |-> f]]
  /\ UNCHANGED <<catalogue, plan, account, mapping, request, overwritten>>

Inserted(j) == importer[j].pc = "inserted"

\* Mutant: the version in force is archived before the transaction.
InsertArchiving(i) ==
  /\ importer[i].pc = "checked"
  /\ catalogue[importer[i].file] = "absent"
  /\ \A j \in Importers : Inserted(j) => importer[j].file # importer[i].file
  /\ catalogue' = [g \in SiiFiles |-> IF catalogue[g] = "active" THEN "archived"
                                     ELSE catalogue[g]]
  /\ importer' = [importer EXCEPT ![i].pc = "inserted"]
  /\ UNCHANGED <<plan, account, mapping, request, overwritten>>

\* The transaction looks for the checksum again and inserts the draft and its
\* accounts. The unique checksum makes the insert wait for an uncommitted one,
\* and refuses it like the check does once the other is committed.
SiiInsert(i) ==
  /\ importer[i].pc = "checked"
  /\ \A j \in Importers : Inserted(j) => importer[j].file # importer[i].file
  /\ importer' = [importer EXCEPT ![i] =
       IF catalogue[importer[i].file] = "absent" THEN [@ EXCEPT !.pc = "inserted"]
       ELSE [pc |-> "idle", file |-> None]]
  /\ UNCHANGED <<catalogue, plan, account, mapping, request, overwritten>>

\* Mutant: the version in force is not archived.
ReplacedNone(f) == [catalogue EXCEPT ![f] = "active"]

Replaced(f) ==
  [g \in SiiFiles |-> IF g = f THEN "active"
                      ELSE IF catalogue[g] = "active" THEN "archived" ELSE catalogue[g]]

\* The status has no index: the update that archives locks every version,
\* and waits for the uncommitted ones.
SiiActivate(i) ==
  /\ Inserted(i)
  /\ \A j \in Importers \ {i} : ~Inserted(j)
  /\ catalogue' = Replaced(importer[i].file)
  /\ importer' = [importer EXCEPT ![i] = [pc |-> "idle", file |-> None]]
  /\ UNCHANGED <<plan, account, mapping, request, overwritten>>

\* The victim of a deadlock, a lost connection or a killed command rolls back.
SiiAbort(i) ==
  /\ importer[i].pc # "idle"
  /\ importer' = [importer EXCEPT ![i] = [pc |-> "idle", file |-> None]]
  /\ UNCHANGED <<catalogue, plan, account, mapping, request, overwritten>>

Current == {f \in SiiFiles : catalogue[f] = "active"}

CurrentAccounts == UNION {{<<f, a>> : a \in Catalogue[f]} : f \in Current}
-----------------------------------------------------------------------------
(* Matching a company account with the current catalogue. *)

SameCode(row) == {x \in CurrentAccounts : x[2].code = row.code}
SameName(row) == {x \in CurrentAccounts : x[2].name = row.name}
SameNormal(row) == {x \in CurrentAccounts : Normal[x[2].name] = Normal[row.name]}
Containing(row) ==
  {x \in CurrentAccounts :
     /\ Normal[row.name] \in Long
     /\ \/ <<Normal[x[2].name], Normal[row.name]>> \in Includes
        \/ <<Normal[row.name], Normal[x[2].name]>> \in Includes}

\* Only the first rule that finds anything decides.
Deciding(row) ==
  CASE SameCode(row) # {} -> [found |-> SameCode(row), method |-> "exact_code"]
    [] SameCode(row) = {} /\ SameName(row) # {} ->
         [found |-> SameName(row), method |-> "exact_name"]
    [] SameCode(row) \cup SameName(row) = {} /\ SameNormal(row) # {} ->
         [found |-> SameNormal(row), method |-> "normalized_name"]
    [] OTHER -> [found |-> Containing(row), method |-> "contains_name"]

\* Several candidates of one rule are ambiguous, and none is suggested.
Suggestion(row) ==
  LET rule == Deciding(row) IN
  IF Cardinality(rule.found) = 1
  THEN LET x == CHOOSE x \in rule.found : TRUE IN
       [sii |-> <<x[1], x[2].code>>, status |-> "suggested", method |-> rule.method,
        scored |-> TRUE, reviewed |-> FALSE]
  ELSE [sii |-> None, status |-> "unmapped", method |-> "manual",
        scored |-> FALSE, reviewed |-> FALSE]
-----------------------------------------------------------------------------
(* The import of the plan of the company. *)

CodesOf(f) == {Rows[f][n].code : n \in DOMAIN Rows[f]}

ValidPlan(f) ==
  /\ Rows[f] # << >>
  /\ \A n \in DOMAIN Rows[f] :
       LET row == Rows[f][n] IN
       /\ row.wellFormed /\ row.code # None
       /\ \A m \in 1 .. (n - 1) : Rows[f][m].code # row.code
       /\ row.parent # row.code
       /\ row.parent \in CodesOf(f) \cup {None}

RowOf(f, c) == Rows[f][CHOOSE n \in DOMAIN Rows[f] : Rows[f][n].code = c]

\* A checksum the company has, in whatever status, is refused.
PlanCheck(r, f) ==
  /\ request[r].pc = "idle"
  /\ plan[f] = "absent"
  /\ request' = [request EXCEPT ![r] = [IdleRequest EXCEPT !.pc = "saving", !.file = f]]
  /\ UNCHANGED <<catalogue, importer, plan, account, mapping, overwritten>>

\* The unique checksum refuses the second of two; nothing catches that.
PlanSave(r) ==
  LET f == request[r].file IN
  /\ request[r].pc = "saving"
  /\ IF plan[f] = "absent"
     THEN /\ plan' = [plan EXCEPT ![f] = "processing"]
          /\ request' = [request EXCEPT ![r].pc = "processing"]
     ELSE /\ request' = [request EXCEPT ![r] = IdleRequest]
          /\ UNCHANGED plan
  /\ UNCHANGED <<catalogue, importer, account, mapping, overwritten>>

\* Codes inserted by a transaction that has not committed.
Uncommitted(r) == IF request[r].pc = "matched" THEN CodesOf(request[r].file) ELSE {}

Free(f) == \A c \in CodesOf(f) : account[c] = None

\* A code is unique among the accounts of the company: the insert waits for
\* uncommitted accounts, fails on committed ones, and else is followed by the
\* reading of the current catalogue.
PlanMatch(r) ==
  LET f == request[r].file IN
  /\ request[r].pc = "processing"
  /\ IF ValidPlan(f)
     THEN \A q \in Requests : Uncommitted(q) \cap CodesOf(f) = {}
     ELSE TRUE
  /\ request' = [request EXCEPT ![r] =
       IF ValidPlan(f) /\ Free(f)
       THEN [@ EXCEPT !.pc = "matched",
                      !.suggestions = [c \in Codes |->
                        IF c \in CodesOf(f) THEN Suggestion(RowOf(f, c)) ELSE None]]
       ELSE [@ EXCEPT !.pc = "refused"]]
  /\ UNCHANGED <<catalogue, importer, plan, account, mapping, overwritten>>

\* What the transaction leaves: the accounts, their correspondences and the status.
ImportPlan(r) ==
  LET f == request[r].file IN
  /\ request[r].pc = "matched"
  /\ plan' = [plan EXCEPT ![f] = "ready"]
  /\ account' = [c \in Codes |-> IF c \in CodesOf(f) THEN f ELSE account[c]]
  /\ mapping' = [c \in Codes |-> IF c \in CodesOf(f) THEN request[r].suggestions[c]
                                 ELSE mapping[c]]
  /\ UNCHANGED <<catalogue, importer, overwritten>>

PlanCommit(r) == ImportPlan(r) /\ request' = [request EXCEPT ![r] = IdleRequest]

Failing(r) == request' = [request EXCEPT ![r] =
                [IdleRequest EXCEPT !.pc = "failing", !.file = request[r].file]]

\* The connection is lost while COMMIT is answered: the import is in, and the
\* catch block takes it for an error of the transaction.
PlanCommitUnanswered(r) == ImportPlan(r) /\ Failing(r)

\* Mutant: the accounts are saved without the transaction.
PlanErrorKeeping(r) ==
  /\ request[r].pc = "matched"
  /\ account' = [c \in Codes |-> IF c \in CodesOf(request[r].file)
                                 THEN request[r].file ELSE account[c]]
  /\ Failing(r)
  /\ UNCHANGED <<catalogue, importer, plan, mapping, overwritten>>

\* An error of the transaction, such as a lost lock, rolls it back.
PlanError(r) ==
  /\ request[r].pc = "matched"
  /\ Failing(r)
  /\ UNCHANGED <<catalogue, importer, plan, account, mapping, overwritten>>

\* The catch block saves the status whatever it is by now.
PlanFail(r) ==
  LET f == request[r].file IN
  /\ request[r].pc \in {"refused", "failing"}
  /\ plan' = [plan EXCEPT ![f] = "failed"]
  /\ overwritten' = IF plan[f] = "ready" THEN overwritten \cup {f} ELSE overwritten
  /\ request' = [request EXCEPT ![r] = IdleRequest]
  /\ UNCHANGED <<catalogue, importer, account, mapping>>

\* The import of a balance creates the accounts the company does not have, each
\* with a pending correspondence.
BalanceAccount(c) ==
  /\ account[c] = None
  /\ \A r \in Requests : c \notin Uncommitted(r)
  /\ account' = [account EXCEPT ![c] = "balance"]
  /\ mapping' = [mapping EXCEPT ![c] =
       [sii |-> None, status |-> "pending", method |-> "automatic",
        scored |-> FALSE, reviewed |-> FALSE]]
  /\ UNCHANGED <<catalogue, importer, plan, request, overwritten>>
-----------------------------------------------------------------------------
(* Reviews of correspondences. Each reads the row and its account, changes    *)
(* the entity, and saves it: save reads the row again and writes the columns  *)
(* in which the entity differs from it.                                       *)

\* The account that save finds in an entity read with one account and given
\* another: a loaded relation hides its column.
AccountSaved(relation, sii) == IF RelationWins /\ relation # None THEN relation ELSE sii

Save(r, c, entity) ==
  /\ request[r].pc = "idle"
  /\ mapping[c] # None
  /\ request' = [request EXCEPT ![r] =
       [IdleRequest EXCEPT !.pc = "saved", !.code = c, !.entity = entity]]
  /\ UNCHANGED <<catalogue, importer, plan, account, mapping, overwritten>>

Reviewed(row, status) == [row EXCEPT !.status = status, !.reviewed = TRUE]

\* Mutant: the score of the suggestion is not cleared.
ByHandScored(relation, sii, status) ==
  [sii |-> AccountSaved(relation, sii), status |-> status, method |-> "manual",
   scored |-> relation # None, reviewed |-> TRUE]

ByHand(relation, sii, status) ==
  [sii |-> AccountSaved(relation, sii), status |-> status, method |-> "manual",
   scored |-> FALSE, reviewed |-> TRUE]

ConfirmMapping(r, c) ==
  /\ mapping[c] # None => mapping[c].sii # None
  /\ Save(r, c, Reviewed(mapping[c], "confirmed"))

RejectMapping(r, c) == Save(r, c, Reviewed(mapping[c], "rejected"))

Unmap(r, c) == Save(r, c, ByHand(mapping[c].sii, None, "unmapped"))

\* The row is read before the catalogue is asked for the chosen account.
AssignRead(r, c) ==
  /\ request[r].pc = "idle"
  /\ mapping[c] # None
  /\ request' = [request EXCEPT ![r] =
       [IdleRequest EXCEPT !.pc = "choosing", !.code = c, !.relation = mapping[c].sii]]
  /\ UNCHANGED <<catalogue, importer, plan, account, mapping, overwritten>>

AssignMapping(r, f, a) ==
  /\ request[r].pc = "choosing"
  /\ f \in Current /\ a \in Catalogue[f]
  /\ request' = [request EXCEPT ![r] = [@ EXCEPT !.pc = "saved", !.relation = None,
       !.entity = ByHand(request[r].relation, <<f, a.code>>, "confirmed")]]
  /\ UNCHANGED <<catalogue, importer, plan, account, mapping, overwritten>>

\* Also the answer to an account that is not in the current catalogue.
Abandon(r) ==
  /\ request[r].pc = "choosing"
  /\ request' = [request EXCEPT ![r] = IdleRequest]
  /\ UNCHANGED <<catalogue, importer, plan, account, mapping, overwritten>>

Different(row, base) == {k \in Columns : row[k] # base[k]}

SaveLoad(r) ==
  LET q == request[r]
      columns == Different(q.entity, mapping[q.code])
  IN
  /\ q.pc = "saved"
  /\ request' = [request EXCEPT ![r] = [@ EXCEPT !.pc = "loaded", !.entity = None,
       !.changes = [k \in columns |-> q.entity[k]]]]
  /\ UNCHANGED <<catalogue, importer, plan, account, mapping, overwritten>>

Merged(row, changes) ==
  [k \in Columns |-> IF k \in DOMAIN changes THEN changes[k] ELSE row[k]]

SaveWrite(r) ==
  LET q == request[r] IN
  /\ q.pc = "loaded"
  /\ mapping' = [mapping EXCEPT ![q.code] = Merged(@, q.changes)]
  /\ request' = [request EXCEPT ![r] = IdleRequest]
  /\ UNCHANGED <<catalogue, importer, plan, account, overwritten>>

\* The API dies: the request and its transaction are gone.
Die(r) ==
  /\ request[r].pc # "idle"
  /\ request' = [request EXCEPT ![r] = IdleRequest]
  /\ UNCHANGED <<catalogue, importer, plan, account, mapping, overwritten>>
-----------------------------------------------------------------------------
Import(i) ==
  \/ \E f \in SiiFiles : SiiCheck(i, f)
  \/ SiiInsert(i) \/ SiiActivate(i) \/ SiiAbort(i)

PlanStep(r) ==
  PlanSave(r) \/ PlanMatch(r) \/ PlanCommit(r) \/ PlanFail(r)

Review(r) ==
  \/ \E c \in Codes : \/ ConfirmMapping(r, c) \/ RejectMapping(r, c)
                      \/ Unmap(r, c) \/ AssignRead(r, c)
  \/ \E f \in SiiFiles : \E a \in Catalogue[f] : AssignMapping(r, f, a)
  \/ Abandon(r) \/ SaveLoad(r) \/ SaveWrite(r)

Next ==
  \/ \E i \in Importers : Import(i)
  \/ \E r \in Requests : \/ \E f \in PlanFiles : PlanCheck(r, f)
                         \/ PlanStep(r) \/ PlanError(r) \/ PlanCommitUnanswered(r)
                         \/ Review(r) \/ Die(r)
  \/ \E c \in BalanceCodes : BalanceAccount(c)

Spec == Init /\ [][Next]_vars
-----------------------------------------------------------------------------
\* Type invariant of the tables and of the operations in progress.
TypeOK ==
  /\ catalogue \in [SiiFiles -> {"absent", "active", "archived"}]
  /\ importer \in [Importers -> Importer]
  /\ plan \in [PlanFiles -> {"absent", "processing", "ready", "failed"}]
  /\ account \in [Codes -> PlanFiles \cup {"balance", None}]
  /\ mapping \in [Codes -> MappingRow \cup {None}]
  /\ request \in [Requests -> Request]
  /\ overwritten \subseteq PlanFiles

\* Of the versions of the catalogue at most one is active, also when several
\* commands import at the same time: the matching reads "the" current one.
OneCurrent == \A f, g \in Current : f = g

\* Once there is a current catalogue there always is one: no reader ever finds
\* the old one archived and the new one not active yet.
CatalogueStays == [][Current # {} => Current' # {}]_catalogue

Imported(f) == plan[f] = "ready" \/ f \in overwritten

\* A version of the plan has all its accounts, each with its correspondence, or
\* none: all when it is ready, none before and none when its import failed, but
\* for the version whose COMMIT was applied and not answered: it keeps all of
\* them although the catch block then marks it as failed.
ReadyIsWhole ==
  \A f \in PlanFiles :
    /\ Imported(f) => \A c \in CodesOf(f) : account[c] = f
    /\ \A c \in Codes : account[c] = f =>
         Imported(f) /\ c \in CodesOf(f) /\ mapping[c] # None

\* However reviews of one correspondence interleave, it stays coherent: a score
\* goes with a rule, a suggestion names an account and was not reviewed, and a
\* decision was.
MappingCoherent ==
  \A c \in Codes : mapping[c] # None =>
    LET row == mapping[c] IN
    /\ row.scored <=> row.method \in Rules
    /\ row.status = "pending" => row.sii = None /\ ~row.reviewed
    /\ row.status = "suggested" => row.scored /\ ~row.reviewed /\ row.sii # None
    /\ row.status \in {"confirmed", "rejected"} => row.reviewed

=============================================================================
