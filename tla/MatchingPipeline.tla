-------------------------- MODULE MatchingPipeline --------------------------
(***************************************************************************)
(* The deterministic pipeline that suggests an account of the SII catalogue *)
(* for an account of a company (sii-account-matching/pipeline): the name    *)
(* and the row of the balance are classified, layers of evidence are tried  *)
(* from the strongest to the ranking by likeness, and the first one with    *)
(* candidates decides.                                                     *)
(*                                                                         *)
(* The code reads names with patterns; here a name is a value, About has    *)
(* what the patterns find in it, and Likeness how alike two names are. An   *)
(* account of the catalogue is <<code, version>>: each import gives the     *)
(* codes new identifiers.                                                  *)
(***************************************************************************)
EXTENDS Naturals, Integers, FiniteSets, Sequences, SequencesExt

CONSTANTS
  Names,       \* normalized names
  About,       \* what each name says, see NameFacts
  Likeness,    \* by pairs of names, see LikenessFacts
  Chapter,     \* by code, numbers in the order of the codes: "asset", "liability", "equity", "result" or "tax"
  Catalogues,  \* the imports: by code, the name, the parent and the section said
  Knowledge,   \* rows of sii_account_knowledge, by account
  Null

Codes == DOMAIN Chapter
Versions == DOMAIN Catalogues
Account == Codes \X Versions

BalanceSections == {"asset", "liability", "expense", "income"}
Sections == BalanceSections \cup {"equity", "unknown"}
Known(x) == x # "unknown"

\* tags: the yes or no patterns of the code that the name matches.
NameFacts == [section : Sections, nature : {"debit", "credit"},
              term : {"current", "non_current", "unknown"}, family : STRING,
              singularTerm : {"current", "non_current", "unknown"},
              worded : Sections, wordedResult : Sections, tax : STRING, direction : STRING,
              subfamily : STRING, rules : SUBSET STRING, tags : SUBSET STRING,
              commonFamily : STRING, basic : STRING, basicDestination : STRING,
              words : SUBSET STRING]

\* Percentages; shared: a word in common that means something; generic and onlyGeneric:
\* the relevant words in common, or all of them, the other ranking takes for generic.
LikenessFacts == [tokens : 0 .. 100, lexical : 0 .. 100, jaccard : 0 .. 100,
                  trigrams : 0 .. 100, prefix : BOOLEAN, shared : BOOLEAN,
                  generic : BOOLEAN, onlyGeneric : BOOLEAN]

\* An amount of a column of the balance, by its sign.
Row == [name : Names, amounts : [BalanceSections \cup {"debit", "credit"} -> {-1, 0, 1}]]

Says(name, tag) == tag \in About[name].tags

Current(v) == {<<c, v>> : c \in DOMAIN Catalogues[v]}
AllAccounts == UNION {Current(v) : v \in Versions}
NameOf(a) == Catalogues[a[2]][a[1]].name
Grouping(a) == \E b \in Current(a[2]) : Catalogues[b[2]][b[1]].parent = a[1]
Leaves(v) == {a \in Current(v) : ~Grouping(a)}

ASSUME PipelineAssumption ==
  /\ Codes \subseteq Nat
  /\ About \in [Names -> NameFacts]
  /\ Likeness \in [Names \X Names -> LikenessFacts]
  /\ IsFiniteSet(Codes) /\ 1 \in Versions /\ Versions \subseteq Nat
  /\ \A v \in Versions : DOMAIN Catalogues[v] \subseteq Codes
  /\ \A a \in AllAccounts : NameOf(a) \in Names
  /\ \A k \in Knowledge : k.account \in Account
  /\ Null \notin Account

NoKnowledge == [account |-> Null, section |-> "unknown", nature |-> "unknown",
                family |-> "other", term |-> "unknown", contra |-> FALSE, residual |-> FALSE,
                taxType |-> "unknown", financialType |-> "unknown"]
KnowledgeOf(a) == IF \E k \in Knowledge : k.account = a
                  THEN CHOOSE k \in Knowledge : k.account = a ELSE NoKnowledge
-----------------------------------------------------------------------------
(* Classification                                                          *)

\* The first of a sequence that is known.
First(s) == IF \E i \in DOMAIN s : Known(s[i])
            THEN s[CHOOSE i \in DOMAIN s : Known(s[i]) /\ \A j \in 1 .. i - 1 : ~Known(s[j])]
            ELSE "unknown"

PipelineFamilySection(f) ==
  CASE f \in {"marketable_securities", "notes_receivable", "trade_receivable",
              "guarantees_and_deposits", "financial_investments", "lease_asset", "cash",
              "vat_credit", "supplier_advance", "loan_receivable", "prepaid"} -> "asset"
    [] f \in {"vat_debit", "customer_advance", "trade_payable", "bank_debt", "loan_payable",
              "lease_liability", "documents_payable"} -> "liability"
    [] f \in {"lease_interest", "financial_interest", "professional_services",
              "utilities"} -> "expense"
    [] f = "issued_capital" -> "equity"
    [] f = "operating_result" -> "income"
    [] f = "bad_debt_allowance" -> "contra_asset"
    [] OTHER -> "unknown"

\* The side of a deferred tax may be told by the column of the balance.
TaxCategory(n, column) ==
  LET tax == About[n].tax
  IN IF tax \notin {"deferred_tax_asset", "deferred_tax_unspecified"} THEN tax
     ELSE IF column = "liability" THEN "deferred_tax_liability"
     ELSE IF column = "asset" THEN "deferred_tax_asset" ELSE tax

Only(columns) == IF Cardinality(columns) = 1 THEN CHOOSE c \in columns : TRUE ELSE "unknown"

\* Mutant: what the name says goes before the chapter of the destination.
WordsFirst(n, columns, chapter, k) ==
  LET a == About[n]
  IN IF Says(n, "contra") THEN "contra_asset"
     ELSE IF a.section = "equity" THEN "equity"
     ELSE IF Cardinality(columns) > 1 THEN "unknown"
     ELSE First(<<Only(columns), a.worded, a.section, k.section, chapter>>)

\* columns: those with a positive amount; chapter and k are of destinations.
\* In the chapter of results the words of the balance classify nothing.
ObservedSection(n, columns, chapter, k) ==
  LET a == About[n]
      contra == Says(n, "contra") \/ k.contra
      result == chapter = "result"
      undirected == Says(n, "deferred_tax") /\ a.worded \notin {"asset", "liability"}
                    /\ ~Known(Only(columns))
      inferred == IF undirected \/ (result /\ a.section \notin {"income", "expense"})
                  THEN "unknown" ELSE a.section
  IN IF contra
     THEN IF a.family # "bad_debt_allowance" /\ "liability" \in {a.section, k.section}
          THEN "contra_liability" ELSE "contra_asset"
     ELSE IF "equity" \in {a.section, k.section} THEN "equity"
     ELSE IF Cardinality(columns) > 1 THEN "unknown"
     ELSE First(<<Only(columns), k.section, IF chapter \in Sections THEN chapter ELSE "unknown",
                  PipelineFamilySection(a.family),
                  IF result THEN a.wordedResult ELSE a.worded, inferred>>)

BalanceNature(n, section, natures, k) ==
  IF Known(k.nature) THEN k.nature
  ELSE IF Says(n, "contra") \/ k.contra THEN About[n].nature
  ELSE IF Cardinality(natures) = 2 THEN "unknown"
  ELSE IF natures # {} THEN CHOOSE x \in natures : TRUE
  ELSE IF ~Known(section) THEN "unknown"
  ELSE IF section \in {"liability", "equity", "income", "contra_asset"} THEN "credit" ELSE "debit"

Classified(n, section, columns, natures, k) ==
  [name |-> n, section |-> section, nature |-> BalanceNature(n, section, natures, k),
   family |-> About[n].family, related |-> Says(n, "related"),
   term |-> IF Known(k.term) THEN k.term ELSE About[n].term,
   tax |-> TaxCategory(n, Only(columns))]

Classify(n, columns, natures, chapter, k) ==
  Classified(n, ObservedSection(n, columns, chapter, k), columns, natures, k)

Observation(row) ==
  Classify(row.name, {c \in BalanceSections : row.amounts[c] > 0},
           {c \in {"debit", "credit"} : row.amounts[c] > 0}, "none", NoKnowledge)

Destination == [a \in AllAccounts |->
                  Classify(NameOf(a), {}, {}, Chapter[a[1]], KnowledgeOf(a))]
-----------------------------------------------------------------------------
(* Compatibility                                                           *)

Conflict(x, y) == Known(x) /\ Known(y) /\ x # y
Agree(x, y) == Known(x) /\ x = y

Base(section) == IF section = "contra_asset" THEN "asset"
                 ELSE IF section = "contra_liability" THEN "liability" ELSE section

Unspecified(s, t) == /\ s.tax = "deferred_tax_unspecified"
                     /\ t.tax \in {"deferred_tax_asset", "deferred_tax_liability"}

Evidence(s, t) ==
  LET of(label, holds) == IF holds THEN {label} ELSE {}
  IN of("temporal_class", Agree(s.term, t.term))
     \cup of("statement_section", Agree(Base(s.section), Base(t.section)))
     \cup of("balance_nature", Agree(s.nature, t.nature))
     \cup of("account_family", Agree(s.family, t.family))
     \cup of("financial_subfamily", Agree(About[s.name].subfamily, About[t.name].subfamily))
     \cup of("protected_tax_category", s.tax = t.tax /\ t.tax # "none")

SharesTokens(s, t) == Likeness[s.name, t.name].shared

Excluded(s, t) ==
  \/ Conflict(s.term, t.term)
  \/ Conflict(Base(s.section), Base(t.section))
  \/ Conflict(s.nature, t.nature)
  \/ Conflict(About[s.name].direction, About[t.name].direction)
  \/ Conflict(s.family, t.family)
  \/ Conflict(About[s.name].subfamily, About[t.name].subfamily)
  \/ s.tax # t.tax /\ ~Unspecified(s, t)
  \/ s.related # t.related
  \/ Says(s.name, "bridge") /\ (~Says(t.name, "bridge") \/ Says(t.name, "stock"))
  \/ /\ s.name # t.name /\ ~SharesTokens(s, t) /\ Evidence(s, t) = {}
     /\ Known(s.section) \/ Known(s.nature)

Compatible(s, a) == ~Grouping(a) /\ ~Excluded(s, Destination[a])
-----------------------------------------------------------------------------
(* Layers of evidence. A context has the row and what is observed of it, the *)
(* version of the catalogue, the order its accounts are read in, and the     *)
(* evidence that was loaded: references to accounts.                        *)

SuggestionCandidate(a, type, level, score) ==
  [account |-> a, type |-> type, level |-> level, score |-> score]

Strong(accounts, type) ==
  [i \in DOMAIN accounts |-> SuggestionCandidate(accounts[i], type, "strong", 100)]

\* Mutant: a reference to an account of another import is resolved by its name.
ResolveByName(a, v) ==
  IF a \in Leaves(v) THEN a
  ELSE IF \E b \in Leaves(v) : NameOf(b) = NameOf(a)
  THEN CHOOSE b \in Leaves(v) : NameOf(b) = NameOf(a) ELSE Null

\* A code is of one account of an import.
ResolveReference(a, v) == IF <<a[1], v>> \in Leaves(v) THEN <<a[1], v>> ELSE Null

\* A set in the order of the pairs in before.
Sorted(S, before) ==
  [i \in 1 .. Cardinality(S) |->
     CHOOSE x \in S : Cardinality({y \in S : <<y, x>> \in before}) = i - 1]

\* What a sequence has of a set, in its order.
Selected(s, S) ==
  LET places == {i \in DOMAIN s : s[i] \in S}
      order == Sorted(places, {p \in places \X places : p[1] < p[2]})
  IN [i \in DOMAIN order |-> s[order[i]]]

\* The accounts of the catalogue that are compatible with what is observed.
Destinations(ctx) == {a \in Current(ctx.version) : Compatible(ctx.observation, a)}

\* The candidate of each reference that still resolves to something compatible.
FromReferences(ctx, references, type) ==
  Strong(Selected([i \in DOMAIN references |-> ResolveReference(references[i], ctx.version)],
                  Destinations(ctx)), type)

InOrder(ctx) == [i \in DOMAIN ctx.order |-> <<ctx.order[i], ctx.version>>]

FromCatalogue(ctx, wanted, type) ==
  Strong(Selected(InOrder(ctx), wanted \cap Destinations(ctx)), type)

\* Catch-alls, memo accounts and the tax reconciliation are not ranked.
Rankable(a) == /\ Chapter[a[1]] # "tax" /\ ~KnowledgeOf(a).residual
               /\ ~Says(NameOf(a), "residual") /\ ~Says(NameOf(a), "order")

Structure(s, t) ==
  Evidence(s, t) \cup IF s.name = t.name THEN {"exact_normalized_name"} ELSE {}

Enough(s, t, structure) ==
  /\ SharesTokens(s, t) \/ structure \cap {"financial_subfamily", "account_family"} # {}
  /\ structure # {} /\ Likeness[s.name, t.name].tokens > 0

RankedCandidate(a, structure, tokens) ==
  SuggestionCandidate(a, "ranked",
                      IF Cardinality(structure) > 1 /\ tokens >= 75 THEN "probable" ELSE "weak",
                      tokens)

RankedCandidates(s, accounts) ==
  [i \in DOMAIN accounts |->
     RankedCandidate(accounts[i], Structure(s, Destination[accounts[i]]),
                     Likeness[s.name, NameOf(accounts[i])].tokens)]

Ranked(ctx) ==
  LET s == ctx.observation
      wanted == {a \in Destinations(ctx) :
                   Rankable(a) /\ Enough(s, Destination[a], Structure(s, Destination[a]))}
  IN RankedCandidates(s, Selected(InOrder(ctx), wanted))

\* The sort is stable.
ByScore(s) ==
  LET before == {p \in (DOMAIN s) \X (DOMAIN s) :
                   \/ s[p[1]].score > s[p[2]].score
                   \/ s[p[1]].score = s[p[2]].score /\ p[1] < p[2]}
      order == Sorted(DOMAIN s, before)
  IN [i \in DOMAIN s |-> s[order[i]]]

\* Mutant: the first candidate wins, however close the second one is.
DecideFirst(candidates) ==
  IF candidates = <<>> THEN "no_candidate" ELSE candidates[1].level

Decide(candidates) ==
  IF candidates = <<>> THEN "no_candidate"
  ELSE IF 2 \in DOMAIN candidates /\ candidates[1].score - candidates[2].score < 10 THEN "ambiguous"
  ELSE candidates[1].level

Layers(ctx) ==
  LET named == {a \in AllAccounts : NameOf(a) = ctx.row.name}
      ruled == {a \in AllAccounts : About[ctx.row.name].family \in About[NameOf(a)].rules}
  IN <<FromReferences(ctx, ctx.history, "historical_company_mapping"),
       FromReferences(ctx, ctx.aliases, "company_alias"),
       FromCatalogue(ctx, named, "exact_official_name"),
       FromReferences(ctx, ctx.terms, "exact_catalog_term"),
       FromCatalogue(ctx, ruled, "accounting_rule"), Ranked(ctx)>>

\* The layers below the first with candidates are not looked at.
FirstFound(layers) ==
  LET found == {i \in DOMAIN layers : layers[i] # <<>>}
  IN IF found = {} THEN <<>> ELSE layers[Min(found)]

Outcome(candidates) == [decision |-> Decide(candidates), candidates |-> candidates]

Resolve(ctx) == Outcome(ByScore(FirstFound(Layers(ctx))))
=============================================================================
