-------------------------- MODULE SuggestionEngine ---------------------------
(***************************************************************************)
(* One account of a company, the row its balance publishes, what is decided *)
(* on it and the suggestions each engine writes: what the engines read are   *)
(* tables that decisions, new imports of the catalogue and the               *)
(* synchronization of the terms change between two generations.             *)
(***************************************************************************)
EXTENDS SuggestionRanking

CONSTANTS
  PublishedRows,  \* rows a balance may publish for the account
  FirstNames,     \* names the account may have been created with
  Decidable,        \* codes a user decides for
  Orders,         \* orders the catalogue may be read in
  MaxConfirms     \* bound: confirmations

ASSUME EngineAssumption ==
  /\ PublishedRows \subseteq Row /\ FirstNames \subseteq Names
  /\ Orders # {} /\ Orders \subseteq Seq(Codes)
  /\ \A o \in Orders : ToSet(o) = Codes /\ Len(o) = Cardinality(Codes)
  /\ MaxConfirms \in Nat

VARIABLES
  version,     \* the import of the catalogue in force
  name,        \* of the account, which no later import changes
  row,         \* the row of the current closing balance, or Null
  decided,     \* [status, account]
  confirmed,   \* accounts confirmed, the newest first
  terms,       \* rows of sii_account_terms
  live,        \* suggestions active or in review: [account, rank, status]
  result       \* what the last generation wrote them from: [engine, kind, accounts, row]

engineVars == <<version, name, row, decided, confirmed, terms, live, result>>

Term(account, n, type, scope, weight) ==
  [account |-> account, name |-> n, type |-> type, scope |-> scope, weight |-> weight]

NoResult == [engine |-> "none", kind |-> "none", accounts |-> <<>>, row |-> Null]

EngineInit ==
  /\ version = 1
  /\ name \in FirstNames
  /\ row = Null
  /\ decided = [status |-> "pending", account |-> Null]
  /\ confirmed = <<>>
  /\ terms = {}
  /\ live = {}
  /\ result = NoResult
-----------------------------------------------------------------------------
(* What the context factory and the services read                          *)

\* Terms of accounts of the import in force, but those of an industry.
Applicable == {t \in terms : t.account \in Current(version) /\ row.name = t.name}
IsAlias(t) == t.scope = "company" /\ t.type = "alias"
AccountsOf(found) == LET s == SetToSeq(found) IN [i \in DOMAIN s |-> s[i].account]

Context(order) ==
  [row |-> row, observation |-> Observation(row), version |-> version, order |-> order,
   canonical |-> name, history |-> confirmed, rows |-> terms,
   aliases |-> AccountsOf({t \in Applicable : IsAlias(t)}),
   terms |-> AccountsOf({t \in Applicable :
               ~IsAlias(t) /\ t.type \notin {"industry_term", "negative_term"}})]
-----------------------------------------------------------------------------
(* Decisions                                                               *)

\* The suggestion of rank 1 is accepted, and then the others are superseded, or rejected.
AfterDecision(account) ==
  IF [rank |-> 1, account |-> account] \in {[rank |-> s.rank, account |-> s.account] : s \in live}
  THEN {} ELSE {s \in live : s.rank # 1}

\* The result is kept while suggestions of it are.
LiveBecomes(left) == /\ live' = left
                     /\ result' = IF left = {} THEN NoResult ELSE result

Confirm(code) ==
  /\ code \in DOMAIN Catalogues[version]
  /\ Len(confirmed) < MaxConfirms
  /\ decided' = [status |-> "confirmed", account |-> <<code, version>>]
  /\ confirmed' = <<<<code, version>>>> \o confirmed
  /\ LiveBecomes(AfterDecision(<<code, version>>))
  /\ terms' = terms \cup {Term(<<code, version>>, name, "alias", "company", 6000)}
  /\ UNCHANGED <<version, name, row>>

Reject ==
  /\ decided' = [decided EXCEPT !.status = "rejected"]
  /\ LiveBecomes({s \in live : s.rank # 1})
  /\ UNCHANGED <<version, name, row, confirmed, terms>>
-----------------------------------------------------------------------------
(* The catalogue, its terms and the balance                                *)

Reimport ==
  /\ version + 1 \in Versions
  /\ version' = version + 1
  /\ UNCHANGED <<name, row, decided, confirmed, terms, live, result>>

SyncTerms ==
  /\ terms' = terms
       \cup {Term(a, NameOf(a), "official_name", "global", 4500) : a \in Current(version)}
       \cup {Term(<<t.code, version>>, t.name, t.type, "global", t.weight) :
               t \in {c \in Curated : c.code \in DOMAIN Catalogues[version]}}
  /\ UNCHANGED <<version, name, row, decided, confirmed, live, result>>

Publish(r) ==
  /\ row' = r
  /\ UNCHANGED <<version, name, decided, confirmed, terms, live, result>>
-----------------------------------------------------------------------------
(* Generations. A confirmed account is passed over.                        *)

Rows(accounts, status) ==
  {[account |-> accounts[i], rank |-> i, status |-> status] :
     i \in 1 .. Min({5, Len(accounts)})}

\* What there was is retired first, whatever was found.
Written(accounts, status) ==
  IF status = "none" THEN {} ELSE Rows(accounts, status)

Write(engine, kind, accounts, status) ==
  /\ live' = Written(accounts, status)
  /\ result' = IF status = "none" THEN NoResult
               ELSE [engine |-> engine, kind |-> kind, accounts |-> accounts, row |-> row]
  /\ UNCHANGED <<version, name, row, decided, confirmed, terms>>

PipelineStatus(decision) ==
  IF decision \in {"strong", "probable"} THEN "active"
  ELSE IF decision \in {"weak", "ambiguous"} THEN "review" ELSE "none"

GenerateWithV2(order) ==
  /\ row # Null /\ decided.status # "confirmed"
  /\ \E r \in {Resolve(Context(order))} :
       Write("v2", IF r.candidates = <<>> THEN "none" ELSE r.candidates[1].type,
             [i \in DOMAIN r.candidates |-> r.candidates[i].account], PipelineStatus(r.decision))

RankingStatus(r) ==
  IF r.decision = "ambiguous" \/ r.top = <<>> THEN "none"
  ELSE IF r.decision = "review" THEN "review" ELSE "active"

\* What is ambiguous, or has nothing with enough evidence, is not written.
GenerateWithV7 ==
  /\ row # Null /\ decided.status # "confirmed"
  /\ \E r \in {Rank(Context(CHOOSE o \in Orders : TRUE))} :
       Write("v7", "ranked", [i \in DOMAIN r.top |-> <<r.top[i].candidate.code, version>>],
             RankingStatus(r))

EngineNext ==
  \/ \E c \in Decidable : Confirm(c)
  \/ Reject
  \/ Reimport
  \/ SyncTerms
  \/ \E r \in PublishedRows : Publish(r)
  \/ \E o \in Orders : GenerateWithV2(o)
  \/ GenerateWithV7

EngineSpec == EngineInit /\ [][EngineNext]_engineVars
-----------------------------------------------------------------------------
(* Properties                                                              *)

EngineTypeOK ==
  /\ version \in Versions /\ name \in FirstNames
  /\ row \in PublishedRows \cup {Null}
  /\ decided \in [status : {"pending", "confirmed", "rejected"}, account : Account \cup {Null}]
  /\ confirmed \in BoundedSeq(Account, MaxConfirms)
  /\ \A t \in terms : t.account \in Account /\ t.name \in Names
  /\ \A s \in live : s.account \in Account /\ s.status \in {"active", "review"}
  /\ \A s, t \in live : s.rank = t.rank => s = t

Winner(r) == <<r.decision, IF r.decision \in {"no_candidate", "ambiguous"} THEN Null
                           ELSE r.candidates[1].account>>

\* The outcome of the pipeline does not depend on the order the catalogue is read in:
\* candidates that are near are ambiguous, never settled by identifier, code or
\* position (suggestion-decision.service.ts, README of sii-account-matching).
WinnerIgnoresOrder ==
  row # Null =>
    Cardinality({Winner(Resolve(Context(o))) : o \in Orders}) = 1

\* A confirmation of an older import only ever suggests the account with the same
\* code: not the one that took its name, nor one of another code.
HistoryKeepsItsCode ==
  result.kind = "historical_company_mapping" =>
    \A i \in DOMAIN result.accounts :
      \E j \in DOMAIN confirmed : confirmed[j][1] = result.accounts[i][1]

\* What the pipeline leaves approvable without review is in the chapter of the column
\* of the row: no words of a name bring a row of losses to an account of assets
\* (classifier, "they take precedence over a lexical guess"). Complementary accounts,
\* equity and what the knowledge says otherwise are apart.
ActiveFitsBalance ==
  \A s \in live :
    LET source == result.row.name
        columns == {c \in BalanceSections : result.row.amounts[c] > 0}
        ordinary(n) == ~Says(n, "contra") /\ About[n].section # "equity"
    IN (/\ result.engine = "v2" /\ s.status = "active" /\ s.rank = 1
        /\ ordinary(source) /\ ordinary(NameOf(s.account))
        /\ KnowledgeOf(s.account) = NoKnowledge
        /\ Cardinality(columns) = 1 /\ Chapter[s.account[1]] \in {"asset", "liability"})
       => columns = {Chapter[s.account[1]]}

\* Words that say nothing are all it has in common with the row: the audit lists no
\* account for that.
OnlyGeneric(ctx, c) ==
  /\ Likeness[ctx.row.name, c.name].onlyGeneric
  /\ ~Gains(Reasons(ctx, c), StrongSignals)

\* The accounts that the ranking keeps, with enough evidence or without, are those that
\* the audit has no reason to leave out and that have more than generic words in common:
\* the filters are written twice, and the last one (candidateSupportedOnlyByGenericTokens)
\* only once, so that what it leaves out is nowhere explained.
AuditExplains ==
  row # Null =>
    \A ctx \in {Context(CHOOSE o \in Orders : TRUE)} :
      {r.candidate : r \in Ranks(ctx)} =
        {c \in Candidates(ctx) : Discarded(row, c) = "kept" /\ ~OnlyGeneric(ctx, c)}

\* An account as the filters of the ranking see it: its terms do not count.
Judged(a) == [code |-> a[1], name |-> NameOf(a), is |-> Metadata[a]]

\* No suggestion of the ranking, of whatever rank and whatever points, is of an account
\* that the filters leave out for the row it was generated from: no alias, history or
\* learning outweighs a rule that excludes or the section of the balance.
RankedAreKept ==
  \A s \in live :
    result.engine = "v7" =>
      s.account \in AllAccounts /\ Kept(result.row, Judged(s.account))

\* What competes in a ranking: kept, with evidence, and not only for generic words.
Rivals(ctx) ==
  {c \in Candidates(ctx) :
     LET r == RankedWith(ctx.row.name, c, Reasons(ctx, c)) IN
     /\ Kept(ctx.row, c) /\ r.satisfied
     /\ r.strong \/ ~Likeness[ctx.row.name, c.name].onlyGeneric}

\* What the ranking decides without review is ahead of every account it competes with,
\* those below the five it shows included, by eight points and by twelve per cent of its own.
LeadIsClear ==
  row # Null =>
    \A ctx \in {Context(CHOOSE o \in Orders : TRUE)} : \A ranking \in {Rank(ctx)} :
      LET lead == ranking.top[1]
      IN ranking.decision = "automatic" =>
         \A c \in Rivals(ctx) :
           LET behind == lead.score - Total(Reasons(ctx, c))
           IN c.code # lead.candidate.code => behind >= 800 /\ 100 * behind >= 12 * lead.score

=============================================================================
