-------------------------- MODULE SuggestionRanking --------------------------
(***************************************************************************)
(* The other engine of the suggestions, kept behind a setting: every account *)
(* of the catalogue is given points for each reason to be the destination,   *)
(* and the difference between the first two decides                         *)
(* (sii-account-matching/services/account-suggestion-ranking.service.ts).    *)
(*                                                                         *)
(* Points are in hundredths, the confidence in ten thousandths. What was     *)
(* learned or curated for an account of an older import is of the account    *)
(* with its code.                                                          *)
(***************************************************************************)
EXTENDS MatchingPipeline

CONSTANTS
  Curated,   \* [code, name, type, weight]: the aliases written in the code
  Concepts,  \* [code, type, fits, within]: of the values that fit, in the names within
  Learned,   \* [name, code, confidence, experts, industry, industryExperts], percentages
  Rules      \* configured rules, as BuiltInRules

\* Types of terms, those of the tables and the curated ones (SiiAccountTermType).
TermTypes == {"official_name", "alias", "abbreviation", "manual_term", "erp_term",
              "industry_term", "negative_term"}

ASSUME RankingAssumption ==
  /\ IsFiniteSet(Curated) /\ IsFiniteSet(Concepts) /\ IsFiniteSet(Learned) /\ IsFiniteSet(Rules)
  /\ \A c \in Curated \cup Concepts \cup Learned : c.code \in Codes
  /\ \A c \in Curated : c.name \in Names /\ c.type \in TermTypes /\ c.weight \in Nat
  /\ \A l \in Learned : l.confidence \in 0 .. 100 /\ l.industry \in 0 .. 100
  /\ \A r \in Rules : r.points \in Int
  /\ \A n \in Names : IsFiniteSet(About[n].words)
  /\ \A k, l \in Knowledge : k.account[1] = l.account[1] => k = l

\* What a rule asks: a pattern of the name, and facts of the pair.
Rule(source, when, action, points) ==
  [source |-> source, when |-> when, action |-> action, points |-> points]

BuiltInRules ==
  {Rule("sales", [section |-> "expense"], "exclude", 0),
   Rule("cost", [section |-> "income"], "exclude", 0),
   Rule("capital", [section |-> "equity"], "score", 5000),
   Rule("ppm", [taxType |-> "ppm", section |-> "asset"], "score", 4500),
   Rule("withholding", [taxType |-> "withholding", section |-> "liability"], "score", 4500),
   Rule("partner_account", <<>>, "review", 0)}

Weight == [company |-> 8000, alias |-> 6000, erp_term |-> 6000, official_name |-> 5500,
           manual_term |-> 5500, abbreviation |-> 5000, industry_term |-> 5000]

ConceptWeight == [accounting_family |-> 2500, statement_section |-> 2000,
                  balance_nature |-> 1500, temporal_classification |-> 1000,
                  contra_account_indicator |-> 3000]

AllowedFamilies ==
  [cash_and_bank |-> {"cash_and_bank"}, receivables |-> {"receivables"},
   inventory |-> {"inventory"}, prepaid |-> {"prepaid", "payables"},
   fixed_assets |-> {"fixed_assets"}, payables |-> {"payables", "prepaid", "payroll"},
   taxes |-> {"taxes"}, payroll |-> {"payroll", "payables"}, equity |-> {"equity"},
   revenue |-> {"revenue"}, cost |-> {"cost", "expense"},
   expense |-> {"expense", "cost", "deferred"},
   financial_investment |-> {"financial_investment", "cash_and_bank"},
   deferred |-> {"deferred", "expense", "prepaid"}]

Of(holds, signal, points) == IF holds THEN <<[signal |-> signal, points |-> points]>> ELSE <<>>
Times(n, signal, points) == [i \in 1 .. n |-> [signal |-> signal, points |-> points]]
Total(reasons) ==
  LET sum[i \in 0 .. Len(reasons)] == IF i = 0 THEN 0 ELSE sum[i - 1] + reasons[i].points
  IN sum[Len(reasons)]
\* A reason for each of some rows, in no order that matters.
Each(rows, signal, points) ==
  LET listed == SetToSeq(rows)
  IN [i \in DOMAIN listed |-> [signal |-> signal, points |-> points[listed[i]]]]
Gains(reasons, signals) == \E i \in DOMAIN reasons :
                             reasons[i].signal \in signals /\ reasons[i].points > 0
Best(values) == IF values = {} THEN 0 ELSE Max(values)
Rounded(weight, percent) == 100 * ((weight * percent + 50) \div 100)
-----------------------------------------------------------------------------
(* Candidates: an account with what is known of it                         *)

RemappedKnowledge(c) == IF \E k \in Knowledge : k.account[1] = c
                        THEN CHOOSE k \in Knowledge : k.account[1] = c ELSE NoKnowledge

MetadataFrom(n, official, k) ==
  LET inferred == About[n]
      contra == Says(n, "complementary")
      section == IF Known(official) THEN official
                 ELSE IF k # NoKnowledge THEN k.section ELSE inferred.section
  IN [section |-> section,
      nature |-> IF Known(official)
                 THEN IF contra \/ section \in {"liability", "equity", "income"}
                      THEN "credit" ELSE "debit"
                 ELSE IF k # NoKnowledge THEN k.nature ELSE inferred.nature,
      family |-> IF k # NoKnowledge THEN k.family ELSE inferred.commonFamily,
      term |-> IF Known(k.term) THEN k.term ELSE inferred.singularTerm,
      contra |-> IF k # NoKnowledge THEN k.contra ELSE contra]

Metadata ==
  [a \in AllAccounts |->
     MetadataFrom(NameOf(a), First(<<Catalogues[a[2]][a[1]].official,
                                     IF Chapter[a[1]] = "asset" THEN "asset" ELSE "unknown">>),
                  RemappedKnowledge(a[1]))]

\* terms: [account, name, type, scope, weight], of the tables; curated ones are global.
TermsOf(terms, c) ==
  {[name |-> t.name, type |-> t.type, scope |-> t.scope, weight |-> t.weight] :
     t \in {u \in terms : u.account[1] = c}}
  \cup {[name |-> t.name, type |-> t.type, scope |-> "global", weight |-> t.weight] :
          t \in {u \in Curated : u.code = c}}

Candidates(ctx) ==
  {[code |-> a[1], name |-> NameOf(a), is |-> Metadata[a],
    terms |-> {t \in TermsOf(ctx.rows, a[1]) : t.type # "negative_term"},
    negative |-> {t \in TermsOf(ctx.rows, a[1]) : t.type = "negative_term"}] :
     a \in Current(ctx.version)}
-----------------------------------------------------------------------------
(* What excludes a candidate                                               *)

\* Any amount counts, of either sign; the columns in this order.
ObservedByRanking(row) ==
  LET contra == Says(row.name, "complementary")
  IN IF row.amounts.asset # 0 THEN IF contra THEN "contra_asset" ELSE "asset"
     ELSE IF row.amounts.expense # 0 THEN "expense"
     ELSE IF row.amounts.income # 0 THEN "income"
     ELSE IF row.amounts.liability = 0 THEN "unknown"
     ELSE IF About[row.name].section = "equity" THEN "equity"
     ELSE IF contra THEN "contra_liability" ELSE "liability"

BasicFamily(row) ==
  IF Says(row.name, "bank") /\ row.amounts.liability > 0 /\ row.amounts.asset <= 0
  THEN "payables" ELSE About[row.name].basic

FactsOfPair(row, c) ==
  [sourceFamily |-> About[row.name].commonFamily, observed |-> ObservedByRanking(row),
   family |-> c.is.family, taxType |-> RemappedKnowledge(c.code).taxType,
   financialType |-> RemappedKnowledge(c.code).financialType,
   section |-> IF RemappedKnowledge(c.code) # NoKnowledge
               THEN RemappedKnowledge(c.code).section ELSE c.is.section]

Applying(row, c) ==
  {r \in BuiltInRules \cup Rules :
     (r.source = "any" \/ Says(row.name, r.source)) /\ \A f \in DOMAIN r.when : FactsOfPair(row, c)[f] = r.when[f]}

By(row, c, action) == \E r \in Applying(row, c) : r.action = action

Prepaid(row, c) == c.is.family = "prepaid_expenses" => Says(row.name, "prepaid")

SectionFits(observed, target) ==
  \/ observed = "unknown"
  \/ /\ Known(target.section)
     /\ target.section = Base(observed)
     /\ target.contra <=> observed \in {"contra_asset", "contra_liability"}

FamilyFits(family, c) ==
  "other" \in {family, About[c.name].basicDestination}
    \/ About[c.name].basicDestination \in AllowedFamilies[family]

MeaningFits(n, c) ==
  LET term == About[n].singularTerm
      says(tag) == Says(c.name, tag)
      far == About[c.name].singularTerm = "non_current"
  IN /\ ~Conflict(term, c.is.term)
     /\ term = "non_current" => (~says("current") \/ far)
     /\ term = "current" => ~far
     /\ Says(n, "bad_debt") => /\ ~Says(n, "payables_provision") /\ ~says("payable")
                               /\ c.is.contra \/ says("doubtful")
     /\ Says(n, "in_transit") => /\ ~says("stock_in_transit") /\ ~says("shares")
                                 /\ says("cash_bridge")
     /\ Says(n, "related_receivable") => (says("loan") \/ c.is.family # "cash")
     /\ Says(n, "loan_interest") /\ term = "non_current" => ~says("lease")
     /\ Says(n, "retained") => (says("equity_words") \/ c.is.section = "equity")
     /\ Says(n, "rental") => (c.is.section = "expense" \/ says("rental_destination"))
     /\ Says(n, "prepaid_asset") => (c.is.family = "prepaid_expenses" \/ says("deferred"))

\* Mutant: the ranking forgets the rules that exclude.
KeptWithoutRules(row, c) ==
  /\ ~Says(c.name, "aggregate") /\ Prepaid(row, c)
  /\ SectionFits(ObservedByRanking(row), c.is)
  /\ FamilyFits(BasicFamily(row), c) /\ MeaningFits(row.name, c)

\* The filters of the ranking.
Kept(row, c) ==
  /\ ~By(row, c, "exclude")
  /\ ~Says(c.name, "aggregate")
  /\ Prepaid(row, c)
  /\ SectionFits(ObservedByRanking(row), c.is)
  /\ FamilyFits(BasicFamily(row), c)
  /\ MeaningFits(row.name, c)

\* The same, written again for the audit: the first reason to discard.
Discarded(row, c) ==
  LET observed == ObservedByRanking(row)
  IN CASE By(row, c, "exclude") -> "excluded_by_rule"
       [] Says(c.name, "aggregate") -> "aggregate_account_excluded"
       [] ~Prepaid(row, c) -> "missing_prepaid_signal"
       [] ~Known(c.is.section) /\ Known(observed) -> "unknown_candidate_classification"
       [] ~SectionFits(observed, c.is) -> "incompatible_statement_section"
       [] ~FamilyFits(BasicFamily(row), c) -> "incompatible_basic_family"
       [] ~MeaningFits(row.name, c) -> "incompatible_semantic_profile"
       [] OTHER -> "kept"
-----------------------------------------------------------------------------
(* Reasons                                                                 *)

\* The best exact term is the only reason of its kind; names that are near count
\* when there is none, and the shape of the words when they are not all generic.
TermReasons(n, c) ==
  LET exact == (IF n = c.name THEN {Weight.official_name} ELSE {})
               \cup {IF t.scope = "company" THEN Weight.company ELSE Weight[t.type] :
                       t \in {u \in c.terms : u.name = n}}
      near == ({c.name} \cup {t.name : t \in c.terms}) \ {n}
      token == Best({Likeness[n, m].tokens : m \in near})
      lexical == Best({Likeness[n, m].lexical : m \in near})
      like == Likeness[n, c.name]
  IN IF exact # {} THEN Of(TRUE, "exact", Max(exact))
     ELSE Of(token >= 34, "token_similarity", Rounded(30, token))
          \o Of(lexical >= 34, "lexical_similarity", Rounded(25, lexical))
          \o IF like.generic THEN <<>>
             ELSE Of(like.jaccard > 0, "jaccard", Rounded(24, like.jaccard))
                  \o Of(like.trigrams > 0, "character_trigrams", Rounded(18, like.trigrams))
                  \o Of(like.prefix, "prefix_match", 800)

\* The name the company first gave the account adds eight points at most.
Canonical(reasons, total) ==
  [i \in DOMAIN reasons |->
     [signal |-> "canonical",
      points |-> IF total <= 800 THEN reasons[i].points ELSE (reasons[i].points * 800) \div total]]

CanonicalReasons(ctx, c) ==
  LET reasons == IF ctx.canonical = ctx.row.name THEN <<>> ELSE TermReasons(ctx.canonical, c)
  IN Canonical(reasons, Total(reasons))

\* What was learned counts in full, and a quarter of it what the industry learned.
LearningReasons(row, c) ==
  LET found == {l \in Learned : l.code = c.code /\ l.name = row.name}
      own == [l \in Learned |-> 30 * l.confidence]
      shared == [l \in Learned |-> (30 * l.industry) \div 4]
  IN Each(found, "learning", own)
     \o Each({l \in found : l.experts}, "expert", own)
     \o Each({l \in found : l.industry > 0}, "learning", shared)
     \o Each({l \in found : l.industryExperts}, "expert", shared)

SourceFact(n, type) ==
  CASE type = "accounting_family" -> About[n].commonFamily
    [] type = "statement_section" -> About[n].section
    [] type = "balance_nature" -> About[n].nature
    [] type = "temporal_classification" -> About[n].singularTerm
    [] type = "contra_account_indicator" ->
         IF Says(n, "complementary") THEN "contra" ELSE "none"
    [] OTHER -> "none"

ConceptReasons(n, c) ==
  LET own == {k \in Concepts : k.code = c.code}
      type(t, signal) == Of(\E k \in own : k.type = t /\ SourceFact(n, t) \in k.fits,
                            signal, ConceptWeight[t])
  IN Times(Cardinality({k \in own : n \in k.within}), "exact_concept", 3500)
     \o type("accounting_family", "accounting_family_match")
     \o type("statement_section", "statement_section_match")
     \o type("balance_nature", "balance_nature_match")
     \o type("temporal_classification", "temporal_classification_match")
     \o type("contra_account_indicator", "contra_account_match")

\* Liabilities come first here, and assets in ObservedByRanking.
ContextReasons(row, c) ==
  LET has(column) == row.amounts[column] # 0
      column == CASE has("liability") -> "liability" [] has("asset") -> "asset"
                  [] has("expense") -> "expense" [] has("income") -> "income"
                  [] OTHER -> "none"
      fits == column = c.is.section \/ (c.is.contra /\ column = "asset")
      nature == IF has("credit") THEN "credit" ELSE "debit"
  IN Of(column # "none", IF fits THEN "balance_match" ELSE "balance_mismatch",
        IF fits THEN 1500 ELSE -5000)
     \o Of(has("debit") \/ has("credit"),
           IF nature = c.is.nature THEN "nature_match" ELSE "nature_mismatch",
           IF nature = c.is.nature THEN 1000 ELSE -3500)

Reasons(ctx, c) ==
  LET n == ctx.row.name
      a == About[n]
      observed == ObservedByRanking(ctx.row)
      rules == {r \in Applying(ctx.row, c) : r.action = "score"}
      avoided == {t \in c.negative : About[t.name].words \subseteq a.words}
      common == Cardinality(a.words \cap About[c.name].words)
      costs == Says(n, "cost")
  IN TermReasons(n, c) \o CanonicalReasons(ctx, c)
     \o Each(rules, "rule", [r \in rules |-> r.points])
     \o Each(avoided, "negative_term", [t \in avoided |-> -t.weight])
     \o Of(Says(n, "bank_institution") /\ About[c.name].basicDestination = "cash_and_bank",
           "bank_institution_cash_match", 1600)
     \o Of(ctx.history # <<>> /\ Head(ctx.history) = <<c.code, ctx.version>>, "history", 10000)
     \o LearningReasons(ctx.row, c) \o ConceptReasons(n, c)
     \o Of(a.commonFamily = c.is.family /\ c.is.family # "other", "family_match", 1600)
     \o Of(observed = "expense" /\ a.commonFamily = "expenses" /\ c.is.family = "expenses"
             /\ Says(c.name, IF costs THEN "cost_destination" ELSE "expense_destination"),
           "classification_match", 1600)
     \o Of(common > 0, "concept_match", Min({2400, 800 * common}))
     \o Of(Agree(a.singularTerm, c.is.term), "term_match", 1000)
     \o Of(c.is.contra /\ Says(n, "complementary"), "contra_account_match", 1400)
     \o ContextReasons(ctx.row, c)
     \o Of(Known(observed), "compatible_statement_section", 0)
-----------------------------------------------------------------------------
(* Evidence, confidence and decision                                       *)

StrongSignals == {"exact", "exact_concept", "history", "learning", "expert"}

Structural == {"balance_match", "balance_nature_match", "nature_match", "family_match",
               "compatible_statement_section", "accounting_family_match"}

\* Without strong evidence or a rule, names that are somewhat alike need company.
Satisfied(n, c, reasons) ==
  LET reach(signal, points) == \E i \in DOMAIN reasons :
                                 reasons[i].signal = signal /\ reasons[i].points >= points
      alias == Best({Likeness[n, t.name].tokens : t \in {u \in c.terms : u.type # "official_name"}})
  IN \/ Gains(reasons, StrongSignals \cup {"rule"})
     \/ /\ alias >= 25 \/ reach("jaccard", 720) \/ reach("character_trigrams", 360)
        /\ \/ Cardinality({i \in DOMAIN reasons : reasons[i].signal \in Structural}) >= 2
           \/ Gains(reasons, {"concept_match"})

Confidence(r, second, count) ==
  LET part(Test(_)) == SelectSeq(r.reasons, Test)
      penalties == part(LAMBDA x : x.points < 0)
      rules == Len(part(LAMBDA x : x.signal = "rule" /\ x.points >= 4000))
      gains == Min({5500, (5 * Max({0, r.score})) \div 9})
               + Min({1800, 250 * Len(part(LAMBDA x : x.points > 0))})
               + Min({1800, Max({0, r.score - second})})
               + (IF Gains(r.reasons, {"history", "learning", "expert"}) THEN 1000 ELSE 0)
               + (IF Gains(r.reasons, {"expert"}) THEN 400 ELSE 0) + Min({800, 400 * rules})
      losses == Min({3500, 800 * Len(penalties) + (-Total(penalties)) \div 4})
                + Min({800, 100 * (count - 1)})
  IN Max({0, Min({9900, gains - losses})})

\* Kept, and not only for words that say nothing.
RankedWith(n, c, reasons) ==
  [candidate |-> c, score |-> Total(reasons), reasons |-> reasons,
   strong |-> Gains(reasons, StrongSignals), satisfied |-> Satisfied(n, c, reasons)]

ByPoints(ranked) ==
  Sorted(ranked, {p \in ranked \X ranked :
                    \/ p[1].score > p[2].score
                    \/ p[1].score = p[2].score /\ p[1].candidate.code < p[2].candidate.code})

\* Mutant: strong evidence goes round the filters.
RanksStrong(ctx) ==
  {r \in {RankedWith(ctx.row.name, c, Reasons(ctx, c)) : c \in Candidates(ctx)} :
     \/ r.strong
     \/ /\ Kept(ctx.row, r.candidate)
        /\ ~Likeness[ctx.row.name, r.candidate.name].onlyGeneric}

\* What takes part in a ranking.
Ranks(ctx) ==
  {r \in {RankedWith(ctx.row.name, c, Reasons(ctx, c)) :
            c \in {d \in Candidates(ctx) : Kept(ctx.row, d)}} :
     r.strong \/ ~Likeness[ctx.row.name, r.candidate.name].onlyGeneric}

AllRanked(ctx) == ByPoints(Ranks(ctx))

\* Mutant: the lead is taken over the third.
RankDecisionThird(ctx, top) ==
  LET first == top[1]
      gap == first.score - (IF Len(top) > 2 THEN top[3].score ELSE 0)
  IN CASE top = <<>> -> "no_candidate"
       [] By(ctx.row, first.candidate, "review") \/ ~first.strong
            \/ ~Known(first.candidate.is.section) \/ first.score < 4500 -> "review"
       [] Len(top) > 1 /\ (gap < 800 \/ 100 * gap < 12 * Max({first.score, 100})) -> "ambiguous"
       [] first.confidence < 6000 -> "review"
       [] OTHER -> "automatic"

RankDecision(ctx, top) ==
  LET first == top[1]
      gap == first.score - (IF Len(top) > 1 THEN top[2].score ELSE 0)
  IN CASE top = <<>> -> "no_candidate"
       [] By(ctx.row, first.candidate, "review") \/ ~first.strong
            \/ ~Known(first.candidate.is.section) \/ first.score < 4500 -> "review"
       [] Len(top) > 1 /\ (gap < 800 \/ 100 * gap < 12 * Max({first.score, 100})) -> "ambiguous"
       [] first.confidence < 6000 -> "review"
       [] OTHER -> "automatic"

Top(eligible) ==
  LET count == Len(eligible)
  IN [i \in 1 .. Min({5, count}) |->
        [candidate |-> eligible[i].candidate, score |-> eligible[i].score,
         strong |-> eligible[i].strong,
         confidence |-> Confidence(eligible[i], IF i < count THEN eligible[i + 1].score ELSE 0,
                                   count)]]

Ranking(ctx, top) == [decision |-> RankDecision(ctx, top), top |-> top]

\* Those with enough evidence, in their order.
Eligible(ctx) ==
  LET ranked == AllRanked(ctx)
  IN Selected(ranked, {r \in ToSet(ranked) : r.satisfied})

Rank(ctx) == Ranking(ctx, Top(Eligible(ctx)))
=============================================================================
