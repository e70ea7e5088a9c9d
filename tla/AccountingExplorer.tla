------------------------- MODULE AccountingExplorer -------------------------
(***************************************************************************)
(* The explorer of a period's balance (accounting-explorer.service.ts and   *)
(* the page accounting-explorer.tsx): which documents it takes as sources,  *)
(* the rows in force compared with the movements of the ledger, a page of   *)
(* them and their summary, the movements of one account with their running  *)
(* balance, and the control of the opening balance against the closing of   *)
(* the year before.                                                         *)
(*                                                                         *)
(* A request for a balance is four statements without a transaction, and    *)
(* documents are published and discarded between them. TaxDocuments has     *)
(* how: here a publication and a discard are one step each. Amounts are     *)
(* hundredths; the accounts are their own codes and ids, and one pair of    *)
(* amounts stands for the eight of a row.                                   *)
(***************************************************************************)
EXTENDS Naturals, Integers, FiniteSets, Sequences, SequencesExt

CONSTANTS
  Accounts,    \* numbers
  Balances,    \* what files of balances hold: an amount, or None, per account
  Ledgers,     \* what files of ledgers hold: sets of movements
  Openings, PreviousClosings,  \* opening balance; balances of the year before
  Versions,    \* versions uploaded of the closing balance, numbers
  Filters,     \* filters the user chooses from
  PageSize,
  None,        \* null
  MaxChanges,  \* bound on publications and discards
  MaxChoices   \* bound on what the user chooses on the page

Idle == [step |-> "idle"]

Amount == [debit : Nat, credit : Nat]
Movement == [account : Accounts, date : Nat, id : Nat, debit : Nat, credit : Nat]

Statuses == {"reconciled", "difference", "no_ledger", "unavailable"}

\* search: the accounts whose code or name contains what was typed.
Filter == [document : Versions \cup {None}, search : SUBSET Accounts,
           status : {"all"} \cup Statuses,
           sort : {"code", "debit"}, ascending : BOOLEAN, page : Nat \ {0}]

ASSUME ConstantsAssumption ==
  /\ Accounts \subseteq Nat /\ IsFiniteSet(Accounts)
  /\ Versions \subseteq Nat \ {0} /\ IsFiniteSet(Versions) /\ None \notin Versions
  /\ \A b \in Balances : DOMAIN b = Accounts /\ \A a \in Accounts : b[a] = None \/ b[a] \in Amount
  /\ \A l \in Ledgers : l \subseteq Movement /\ IsFiniteSet(l)
  /\ PageSize \in Nat \ {0} /\ MaxChanges \in Nat /\ MaxChoices \in Nat

VARIABLES
  closing,   \* versions of the closing balance
  rows,      \* tax_period_company_accounts
  ledger,    \* movements of the last usable ledger, or None
  opening,   \* current opening balance, or None
  previous,  \* closing balance of the year before
  call,      \* request for a balance
  filters,   \* what the page asks for
  cache,     \* answers the page has, by filters
  last,      \* filters of the answer shown before
  changes, choices,
  doubt      \* something changed since the request began

tables == <<closing, rows, ledger, opening, previous>>
page == <<filters, cache, last>>
vars == <<tables, call, page, changes, choices, doubt>>
-----------------------------------------------------------------------------
(* The tables                                                              *)

Document == [status : {"uploaded", "processed", "superseded", "discarded"},
             entries : Balances \cup {None}]

Row == [source : Versions \cup {None}, amount : Amount \cup {None}, discarded : BOOLEAN]

NoRow == [source |-> None, amount |-> None, discarded |-> FALSE]

Usable == {v \in Versions : closing[v].status \in {"processed", "superseded"}}

Mentioned(b) == {a \in Accounts : b[a] # None}

\* The rows of the new version take the place of those in force.
Publish(v, b) ==
  LET older == {w \in Versions : w < v /\ closing[w].status = "processed"} IN
  /\ closing[v].status = "uploaded"
  /\ closing' = [w \in Versions |->
       IF w = v THEN [status |-> "processed", entries |-> b]
       ELSE IF w \in older /\ \A x \in older : x <= w
       THEN [closing[w] EXCEPT !.status = "superseded"] ELSE closing[w]]
  /\ rows' = [a \in Accounts |->
       IF b[a] # None THEN [source |-> v, amount |-> b[a], discarded |-> FALSE]
       ELSE IF rows[a].source # None THEN [rows[a] EXCEPT !.discarded = TRUE] ELSE rows[a]]

\* Accounts that another usable version mentions keep their row.
Discard(v) ==
  LET kept == UNION {Mentioned(closing[w].entries) : w \in Usable \ {v}} IN
  /\ v \in Usable
  /\ closing' = [closing EXCEPT ![v].status = "discarded"]
  /\ rows' = [a \in Accounts |-> IF rows[a].source = v /\ a \notin kept
                                 THEN [rows[a] EXCEPT !.discarded = TRUE] ELSE rows[a]]

Change ==
  /\ changes < MaxChanges /\ changes' = changes + 1
  /\ doubt' = (call # Idle)
  /\ UNCHANGED <<opening, previous, call, page, choices>>

PublishClosing ==
  Change /\ (\E v \in Versions, b \in Balances : Publish(v, b)) /\ UNCHANGED ledger
DiscardClosing == Change /\ (\E v \in Versions : Discard(v)) /\ UNCHANGED ledger
PublishLedger == Change /\ ledger' \in Ledgers \ {ledger} /\ UNCHANGED <<closing, rows>>
-----------------------------------------------------------------------------
(* The balance                                                             *)

Greatest(S) == CHOOSE v \in S : \A w \in S : w <= v

\* The version asked for if it is usable, or else the last usable one.
ClosingSource(document) ==
  IF document # None THEN IF document \in Usable THEN document ELSE None
  ELSE IF Usable = {} THEN None ELSE Greatest(Usable)

SumOf(f(_), S) == MapThenSumSet(f, S)
Debits(S) == SumOf(LAMBDA m : m.debit, S)
Credits(S) == SumOf(LAMBDA m : m.credit, S)

Movements(l, a) == {m \in l : m.account = a}

Tolerance == 1
Near(x, y) == x - y \in -Tolerance .. Tolerance

\* Mutant: only the debits are compared.
DebitStatus(l, a, amount) ==
  IF l = None THEN "unavailable"
  ELSE IF Movements(l, a) = {} THEN "no_ledger"
  ELSE IF Near(amount.debit, Debits(Movements(l, a))) THEN "reconciled" ELSE "difference"

ReconciliationStatus(l, a, amount) ==
  IF l = None THEN "unavailable"
  ELSE IF Movements(l, a) = {} THEN "no_ledger"
  ELSE IF /\ Near(amount.debit, Debits(Movements(l, a)))
          /\ Near(amount.credit, Credits(Movements(l, a)))
  THEN "reconciled" ELSE "difference"

\* Rows of version v in force that match what was typed.
Explored(v, f) == {a \in f.search : rows[a].source = v /\ ~rows[a].discarded}

StatusOf(l, a) == ReconciliationStatus(l, a, rows[a].amount)

Matching(v, l, f) ==
  {a \in Explored(v, f) : f.status # "all" => StatusOf(l, a) = f.status}

\* Accounts with the same amount come in the order of their ids.
Before(f, a, b) ==
  LET key(x) == IF f.sort = "code" THEN x ELSE rows[x].amount.debit
  IN \/ key(a) = key(b) /\ a < b
     \/ IF f.ascending THEN key(a) < key(b) ELSE key(a) > key(b)

Sorted(S, f) ==
  CHOOSE s \in SetToSeqs(S) : \A i, j \in DOMAIN s : i < j => Before(f, s[i], s[j])

PageOf(s, n) == SubSeq(s, (n - 1) * PageSize + 1,
                       IF n * PageSize < Len(s) THEN n * PageSize ELSE Len(s))

\* Mutant: the rows of the page are counted.
ItemsCounted(v, l, f) ==
  LET shown == PageOf(Sorted(Matching(v, l, f), f), f.page)
  IN [items |-> [i \in DOMAIN shown |-> <<shown[i], rows[shown[i]].amount, StatusOf(l, shown[i])>>],
      total |-> Len(shown)]

\* A row of the answer carries the number of rows that match; without rows the
\* answer says there is none.
Items(v, l, f) ==
  LET shown == PageOf(Sorted(Matching(v, l, f), f), f.page)
  IN [items |-> [i \in DOMAIN shown |-> <<shown[i], rows[shown[i]].amount, StatusOf(l, shown[i])>>],
      total |-> IF shown = <<>> THEN 0 ELSE Cardinality(Matching(v, l, f))]

\* The summary takes what was typed into account, and not the status.
Summary(v, l, f) ==
  LET of == Explored(v, f)
      count(s) == Cardinality({a \in of : StatusOf(l, a) = s})
  IN [accounts |-> Cardinality(of), reconciled |-> count("reconciled"),
      differences |-> count("difference"), noLedger |-> count("no_ledger"),
      debits |-> SumOf(LAMBDA a : rows[a].amount.debit, of)]

NoSummary == [accounts |-> 0, reconciled |-> 0, differences |-> 0, noLedger |-> 0, debits |-> 0]
-----------------------------------------------------------------------------
(* The control of the opening balance. Its entries and those of the         *)
(* previous closing are of the same accounts.                              *)

SameAmount(x, y) == Near(x.debit, y.debit) /\ Near(x.credit, y.credit)

\* Mutant: the accounts of the previous closing that the opening lacks are left out.
ComparedLeft(o, p) ==
  [a \in Mentioned(o) |->
     IF p[a] = None THEN "only_in_opening"
     ELSE IF SameAmount(o[a], p[a]) THEN "matching" ELSE "difference"]

Compared(o, p) ==
  [a \in Mentioned(o) \cup Mentioned(p) |->
     IF o[a] = None THEN "only_in_previous_closing"
     ELSE IF p[a] = None THEN "only_in_opening"
     ELSE IF SameAmount(o[a], p[a]) THEN "matching" ELSE "difference"]

\* Only a PROCESSED closing of the year before is compared.
Control == IF opening = None \/ previous.status # "processed" THEN <<>>
           ELSE Compared(opening, previous.entries)

Warning == \E a \in DOMAIN Control : Control[a] # "matching"

Completions == {"missing_opening_balance", "missing_closing_balance", "missing_general_ledger",
                "accounting_review_with_warnings", "ready_for_accounting_review"}

Completion(v, l, warning) ==
  IF opening = None THEN "missing_opening_balance"
  ELSE IF v = None THEN "missing_closing_balance"
  ELSE IF l = None THEN "missing_general_ledger"
  ELSE IF warning THEN "accounting_review_with_warnings"
  ELSE "ready_for_accounting_review"
-----------------------------------------------------------------------------
(* The movements of an account                                             *)

Earlier(m, n) == m.date < n.date \/ (m.date = n.date /\ m.id <= n.id)

Between(m, f) == (f.from = None \/ m.date >= f.from) /\ (f.to = None \/ m.date <= f.to)

RunningBalance(S, m) ==
  LET before == {n \in S : Earlier(n, m)} IN Debits(before) - Credits(before)

GeneralLedger(a, f) ==
  LET found == IF ledger = None THEN {} ELSE {m \in Movements(ledger, a) : Between(m, f)}
  IN [m \in found |-> RunningBalance(found, m)]
-----------------------------------------------------------------------------
(* A request: the sources, the control, the page of rows, the summary.      *)

\* torn: something changed between its statements.
Listed == Seq(Accounts \X Amount \X Statuses)
Answer == [document : Versions \cup {None}, completion : Completions,
           items : Listed, total : Nat,
           summary : [accounts : Nat, reconciled : Nat, differences : Nat, noLedger : Nat,
                      debits : Nat],
           torn : BOOLEAN]

FirstPage(f) == [f EXCEPT !.page = 1]
NoFilter == [document |-> None, search |-> Accounts, status |-> "all", sort |-> "code",
             ascending |-> TRUE, page |-> 1]

ASSUME FiltersAssumption ==
  NoFilter \in Filters /\ \A f \in Filters : f \in Filter /\ FirstPage(f) \in Filters

Sending(f) == [step |-> "sent", filters |-> f]

Request ==
  {Idle} \cup {Sending(f) : f \in Filters}
  \cup [step : {"sources"}, filters : Filters, ledger : Ledgers \cup {None},
        document : Versions \cup {None}]
  \cup [step : {"items"}, filters : Filters, ledger : Ledgers \cup {None},
        document : Versions, completion : Completions,
        read : [items : Listed, total : Nat]]

Init ==
  /\ closing = [v \in Versions |-> [status |-> "uploaded", entries |-> None]]
  /\ rows = [a \in Accounts |-> NoRow]
  /\ ledger = None
  /\ opening \in Openings
  /\ previous \in PreviousClosings
  /\ filters = NoFilter
  /\ cache = [f \in Filters |-> None]
  /\ last = NoFilter
  /\ call = Sending(NoFilter)
  /\ changes = 0 /\ choices = 0 /\ doubt = FALSE

\* The identity of the ledger is resolved here, and an import never changes.
ResolveSources ==
  /\ call.step = "sent"
  /\ call' = [step |-> "sources", filters |-> call.filters, ledger |-> ledger,
              document |-> ClosingSource(call.filters.document)]
  /\ UNCHANGED <<tables, page, changes, choices, doubt>>

Answered(answer) ==
  /\ cache' = [cache EXCEPT ![call.filters] = answer]
  /\ last' = IF call.filters = filters THEN filters ELSE last
  /\ call' = IF call.filters = filters THEN Idle ELSE Sending(filters)
  /\ doubt' = FALSE

\* Without a closing balance the answer is empty.
NoBalance ==
  /\ call.step = "sources" /\ call.document = None
  /\ Answered([document |-> None, completion |-> Completion(None, call.ledger, Warning),
               items |-> <<>>, total |-> 0, summary |-> NoSummary, torn |-> doubt])
  /\ UNCHANGED <<tables, filters, changes, choices>>

ReadItems ==
  /\ call.step = "sources" /\ call.document # None
  /\ call' = [step |-> "items", filters |-> call.filters, ledger |-> call.ledger,
              document |-> call.document,
              completion |-> Completion(call.document, call.ledger, Warning),
              read |-> Items(call.document, call.ledger, call.filters)]
  /\ UNCHANGED <<tables, page, changes, choices, doubt>>

ReadSummary ==
  /\ call.step = "items"
  /\ Answered([document |-> call.document, completion |-> call.completion,
               items |-> call.read.items, total |-> call.read.total,
               summary |-> Summary(call.document, call.ledger, call.filters),
               torn |-> doubt])
  /\ UNCHANGED <<tables, filters, changes, choices>>

\* The page keeps the rows it showed until the new ones arrive. Every change but
\* that of the page goes back to the first one. One request at a time: those of
\* filters left behind are answered before.
ChooseFilters(f) ==
  /\ choices < MaxChoices /\ choices' = choices + 1
  /\ f # filters
  /\ f.page = 1 \/ FirstPage(f) = FirstPage(filters)
  /\ f.document = filters.document
  /\ filters' = f
  /\ \E old \in BOOLEAN :
       call' = IF call = Idle /\ (old \/ cache[f] = None) THEN Sending(f) ELSE call
  /\ last' = IF cache[f] # None THEN f ELSE last
  /\ UNCHANGED <<tables, cache, changes, doubt>>

\* From the history of documents, a version of the balance that is not discarded.
OpenVersion(v) ==
  /\ choices < MaxChoices /\ choices' = choices + 1
  /\ call = Idle
  /\ v \in Usable
  /\ filters' = [NoFilter EXCEPT !.document = v]
  /\ filters' \in Filters
  /\ cache' = [f \in Filters |-> None]
  /\ last' = filters'
  /\ call' = Sending(filters')
  /\ UNCHANGED <<tables, changes, doubt>>

Next ==
  \/ PublishClosing \/ DiscardClosing \/ PublishLedger
  \/ ResolveSources \/ NoBalance \/ ReadItems \/ ReadSummary
  \/ (\E f \in Filters : ChooseFilters(f)) \/ (\E v \in Versions : OpenVersion(v))

Spec == Init /\ [][Next]_vars

\* The answer on the page.
Shown == IF cache[filters] # None THEN cache[filters] ELSE cache[last]
-----------------------------------------------------------------------------
TypeOK ==
  /\ closing \in [Versions -> Document]
  /\ rows \in [Accounts -> Row]
  /\ ledger \in Ledgers \cup {None}
  /\ opening \in Openings /\ previous \in PreviousClosings
  /\ call \in Request
  /\ filters \in Filters /\ last \in Filters
  /\ cache \in [Filters -> Answer \cup {None}]
  /\ changes \in Nat /\ choices \in Nat /\ doubt \in BOOLEAN

\* What the explorer calls reconciled agrees with what its other page shows: the
\* last running balance of the account's movements is, within the tolerance of
\* both sides, the balance of its row.
ReconciledRunsToBalance ==
  \A v \in Usable, a \in Accounts :
    LET run == GeneralLedger(a, [from |-> None, to |-> None])
    IN a \in Explored(v, NoFilter) /\ StatusOf(ledger, a) = "reconciled" =>
         \A m \in DOMAIN run : (\A n \in DOMAIN run : Earlier(n, m)) =>
           run[m] - (rows[a].amount.debit - rows[a].amount.credit)
             \in -(2 * Tolerance) .. 2 * Tolerance

\* "ready_for_accounting_review" is not said of a period whose opening balance
\* differs from the closing PROCESSED the year before, in either direction.
ReadyOpensAsClosed ==
  \A f \in Filters :
    /\ cache[f] # None /\ cache[f].completion = "ready_for_accounting_review"
    /\ previous.status = "processed"
    => /\ opening # None
       /\ Mentioned(opening) = Mentioned(previous.entries)
       /\ \A a \in Mentioned(opening) : SameAmount(opening[a], previous.entries[a])

\* Of an answer computed while nothing changed, the rows listed and the counts of
\* the summary are of the same balance, although the summary ignores the status
\* that is asked for and the list does not: a page that is not past the last one
\* says how many rows match.
AnswersAgree ==
  \A f \in Filters : cache[f] # None /\ ~cache[f].torn /\ cache[f].items # <<>> =>
    cache[f].total = IF f.status = "all" THEN cache[f].summary.accounts
                     ELSE IF f.status = "reconciled" THEN cache[f].summary.reconciled
                     ELSE IF f.status = "difference" THEN cache[f].summary.differences
                     ELSE IF f.status = "no_ledger" THEN cache[f].summary.noLedger
                     ELSE cache[f].summary.accounts

=============================================================================
