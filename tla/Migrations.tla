----------------------------- MODULE Migrations -----------------------------
(***************************************************************************)
(* The migrations of the database, and their execution by the commands      *)
(* migration:run and migration:revert. Every migration is the sequence of   *)
(* statements of its up and of its down. MySQL commits implicitly before    *)
(* and after a statement that changes the schema, so that a run that fails  *)
(* or is killed keeps what it changed, and loses what it only wrote: rows   *)
(* and the records of migrations.                                           *)
(*                                                                          *)
(* The schema is a set of facts (see SchemaEntities). Columns are facts     *)
(* where a migration other than the one that creates their table adds,      *)
(* renames or drops them; keys where they are unique.                       *)
(***************************************************************************)
EXTENDS SchemaEntities, Naturals, Sequences, SequencesExt

CONSTANTS
  MaxEvents   \* bound on changes of data and killed runs

ASSUME MigrationsAssumption == MaxEvents \in Nat

VARIABLES
  schema,     \* facts about the database, rows of migrations included
  saved,      \* the same as of the last commit
  executed,   \* recorded migrations, in order of execution
  recorded,   \* the same as of the last commit
  data,       \* what the application has stored, as far as a statement minds
  run,        \* command in progress: migration, direction and next statement
  failure,    \* why the last run that failed did, and in which migration
  events      \* number of changes of data and of killed runs

schemaVars == <<schema, saved, executed, recorded, data, run, failure, events>>
-----------------------------------------------------------------------------
(* Statements.                                                              *)

Statement(op, t, drops, adds, blocked) ==
  [op |-> op, table |-> t, needs |-> {}, drops |-> drops, adds |-> adds,
   blocked |-> blocked, lax |-> FALSE, to |-> t]

\* refs are pairs of a constraint name and a table.
Refs(t, refs) == {Ref(t, r[1], r[2]) : r \in refs}

Create(t, refs, facts) ==
  Statement("create", t, {}, {Table(t)} \cup Refs(t, refs) \cup facts, {})

CreateIfNotExists(t, refs, facts) == [Create(t, refs, facts) EXCEPT !.lax = TRUE]

Drop(t) == Statement("drop", t, {}, {}, {})

DropIfExists(t) == [Drop(t) EXCEPT !.lax = TRUE]

Rename(t, u) == [Statement("rename", t, {}, {}, {}) EXCEPT !.to = u]

Alter(t, drops, adds) == Statement("alter", t, drops, adds, {})

\* An ALTER that fails as long as there is data that does not fit.
AlterUnless(d, t, drops, adds) == Statement("alter", t, drops, adds, {d})

\* Statements on rows and the columns they need, and the query of a down that
\* refuses to go on.
Row(t, what) == <<"row", t, what>>
Write(t, needs, drops, adds) ==
  [Statement("write", t, drops, adds, {}) EXCEPT !.needs = needs]
RefuseIf(d, t) == Statement("check", t, {}, {}, {d})

DDL(st) == st.op \in {"create", "drop", "rename", "alter"}

\* The names of constraints are unique in the schema, not in their table.
Referable(s, t, adds) ==
  \A f \in adds :
    f[1] = "fk" => /\ f[4] = t \/ Table(f[4]) \in s
                   /\ \A g \in s : g[1] = "fk" => g[3] # f[3]

\* What cannot be added or dropped twice; a column is modified over and over.
Unique(facts) == {f \in facts : f[1] \in {"column", "key", "fk"}}

\* The server accepts the statement, whatever the rows are.
Fits(st, s) ==
  LET exists == Table(st.table) \in s IN
  CASE st.op = "create" -> (~exists /\ Referable(s, st.table, st.adds)) \/ (exists /\ st.lax)
    [] st.op = "drop" ->
         IF exists THEN \A f \in s : f[1] = "fk" /\ f[4] = st.table => f[2] = st.table
         ELSE st.lax
    [] st.op = "rename" -> exists /\ Table(st.to) \notin s
    [] st.op = "alter" ->
         /\ exists /\ Unique(st.drops) \subseteq s
         /\ Unique(st.adds) \cap (s \ st.drops) = {}
         /\ Referable(s \ st.drops, st.table, st.adds)
    [] OTHER -> exists /\ st.needs \subseteq s

Renamed(f, t, u) ==
  IF f[1] = "fk" THEN [f EXCEPT ![2] = IF @ = t THEN u ELSE @, ![4] = IF @ = t THEN u ELSE @]
  ELSE [f EXCEPT ![2] = IF @ = t THEN u ELSE @]

Result(st, s) ==
  CASE st.op = "create" -> IF Table(st.table) \in s THEN s ELSE s \cup st.adds
    [] st.op = "drop" -> {f \in s : f[2] # st.table}
    [] st.op = "rename" -> {Renamed(f, st.table, st.to) : f \in s}
    [] OTHER -> (s \ st.drops) \cup st.adds
-----------------------------------------------------------------------------
(* The migrations, each an up and a down.                                   *)

CreateInitialDomain ==
  [up |-> <<
     CreateIfNotExists("users", {},
       {Key("users", "email")}
       \cup Values("users", "status", {"active", "inactive", "blocked"})),
     CreateIfNotExists("organizations", {},
       {Key("organizations", "slug")}
       \cup Values("organizations", "status", {"active", "inactive"})),
     CreateIfNotExists("organization_members",
       {<<"fk_organization_members_organization_id", "organizations">>,
        <<"fk_organization_members_user_id", "users">>},
       {Key("organization_members", "organization_id, user_id")}
       \cup Values("organization_members", "role",
                   {"owner", "admin", "accountant", "auditor", "viewer"})
       \cup Values("organization_members", "status", {"invited", "active", "suspended"})),
     CreateIfNotExists("companies", {<<"fk_companies_organization_id", "organizations">>},
       {Key("companies", "organization_id, rut")}
       \cup Values("companies", "status", {"active", "inactive"}))>>,
   down |-> <<Drop("companies"), Drop("organization_members"), Drop("organizations"),
              Drop("users")>>]

FileCategories == {"balance", "journal", "ledger", "xml", "declaration", "report", "other"}

CreateStoredFiles ==
  [up |-> <<
     CreateIfNotExists("stored_files", {},
       Values("stored_files", "direction", {"input", "output"})
       \cup Values("stored_files", "category", FileCategories)
       \cup Values("stored_files", "status",
                   {"uploaded", "processing", "processed", "failed", "generated"})),
     Alter("stored_files", {}, {Key("stored_files", "bucket, object_key")}),
     Alter("stored_files", {}, Refs("stored_files", {<<"fk_stored_files_company_id", "companies">>}))>>,
   down |-> <<DropIfExists("stored_files")>>]

\* Users that have no password yet.
Passwordless == {<<"nullable", "users", "password_hash">>}

AddCookieAuthentication ==
  [up |-> <<
     Alter("users", {}, Passwordless),
     Alter("users", {}, {Column("users", "password_changed_at")}),
     Alter("users", {}, {Column("users", "failed_login_attempts")}),
     Alter("users", {}, {Column("users", "locked_until")}),
     CreateIfNotExists("auth_sessions",
       {<<"fk_auth_sessions_user_id", "users">>,
        <<"fk_auth_sessions_replaced_by_session_id", "auth_sessions">>,
        <<"fk_auth_sessions_current_organization_id", "organizations">>}, {})>>,
   down |-> <<
     Drop("auth_sessions"),
     Alter("users", {Column("users", "locked_until")}, {}),
     Alter("users", {Column("users", "failed_login_attempts")}, {}),
     Alter("users", {Column("users", "password_changed_at")}, {}),
     AlterUnless("passwordless", "users", Passwordless, {})>>]

PlatformRole ==
  {Column("users", "platform_role")} \cup Values("users", "platform_role", {"user", "metauser"})

AddUserPlatformRole ==
  [up |-> <<Alter("users", {}, PlatformRole)>>, down |-> <<Alter("users", PlatformRole, {})>>]

CreateSiiAccountPlan ==
  [up |-> <<
     Create("sii_account_plan_versions", {},
       {Key("sii_account_plan_versions", "code"),
        Key("sii_account_plan_versions", "source_checksum")}
       \cup Values("sii_account_plan_versions", "status", {"draft", "active", "archived"})),
     Create("sii_accounts", {}, {Key("sii_accounts", "version_id, code")}),
     Alter("sii_accounts", {},
       Refs("sii_accounts", {<<"fk_sii_accounts_version_id", "sii_account_plan_versions">>})),
     Alter("sii_accounts", {}, Refs("sii_accounts", {<<"fk_sii_accounts_parent_id", "sii_accounts">>}))>>,
   down |-> <<DropIfExists("sii_accounts"), DropIfExists("sii_account_plan_versions")>>]

PlanCategory == Values("stored_files", "category", {"company_account_plan"})

CreateCompanyAccountPlan ==
  [up |-> <<
     Alter("stored_files", {}, PlanCategory),
     Create("company_account_plan_versions",
       {<<"fk_company_account_plan_versions_company_id", "companies">>},
       {Key("company_account_plan_versions", "company_id, source_checksum")}
       \cup Values("company_account_plan_versions", "status",
                   {"draft", "processing", "ready", "failed", "archived"})),
     Create("company_accounts",
       {<<"fk_company_accounts_company_id", "companies">>,
        <<"fk_company_accounts_version_id", "company_account_plan_versions">>,
        <<"fk_company_accounts_parent_id", "company_accounts">>},
       {Key("company_accounts", "company_account_plan_version_id, internal_code")}
       \cup Values("company_accounts", "status", {"active", "inactive"})),
     Create("company_account_mappings",
       {<<"fk_company_account_mappings_company_account_id", "company_accounts">>,
        <<"fk_company_account_mappings_sii_account_id", "sii_accounts">>},
       {Key("company_account_mappings", "company_account_id")}
       \cup Values("company_account_mappings", "status",
                   {"suggested", "confirmed", "rejected", "unmapped"})
       \cup Values("company_account_mappings", "mapping_method",
                   {"manual", "exact_code", "exact_name", "normalized_name",
                    "contains_name", "automatic"}))>>,
   down |-> <<
     Drop("company_account_mappings"), Drop("company_accounts"),
     Drop("company_account_plan_versions"),
     AlterUnless("plan_files", "stored_files", PlanCategory, {})>>]
-----------------------------------------------------------------------------

ImportTable(t) ==
  Create(t, {<<"fk_" \o t \o "_document", "tax_documents">>, <<"fk_" \o t \o "_company", "companies">>,
             <<"fk_" \o t \o "_period", "tax_periods">>}, {Key(t, "tax_document_id")})

\* A code is unique in the company, and an account may come from a balance.
PeriodsOfAccounts ==
  {Key("company_accounts", "company_id, internal_code"),
   <<"nullable", "company_accounts", "company_account_plan_version_id">>}
  \cup Columns("company_accounts", {"first_seen_tax_period_id", "last_seen_tax_period_id",
                                    "first_seen_at", "last_seen_at"})
  \cup Refs("company_accounts", {<<"fk_company_accounts_first_period", "tax_periods">>,
                                 <<"fk_company_accounts_last_period", "tax_periods">>})

\* Mutant: the status is added to the entity and not to the type.
NoPendingMapping == {}

PendingMapping == Values("company_account_mappings", "status", {"pending"})

\* Columns of tables of amounts that a later migration renames or makes nullable.
Amounts(t) == Columns(t, {"amounts"})

BalanceImports ==
  Columns("balance_imports", {"sheet_name", "header_row_number", "totals", "is_debit_credit_balanced",
                              "is_equity_balanced"})

Vouchers == Columns("journal_imports", {"vouchers_read", "balanced_vouchers", "unbalanced_vouchers"})

CreateAccountingImportCore ==
  [up |-> <<
     Create("tax_periods", {<<"fk_tax_periods_company", "companies">>},
       {Key("tax_periods", "company_id, tax_year")}
       \cup Values("tax_periods", "status", {"open", "processing", "reviewed", "closed"})),
     Create("tax_documents",
       {<<"fk_tax_documents_company", "companies">>, <<"fk_tax_documents_period", "tax_periods">>,
        <<"fk_tax_documents_file", "stored_files">>, <<"fk_tax_documents_replaces", "tax_documents">>,
        <<"fk_tax_documents_user", "users">>},
       {Key("tax_documents", "company_id, tax_period_id, document_type, version_number")}
       \cup Values("tax_documents", "document_type", {"balance", "general_ledger", "journal"})
       \cup Values("tax_documents", "status",
                   {"uploaded", "validating", "valid", "invalid", "processing", "processed",
                    "superseded", "processing_error"})),
     ImportTable("balance_imports"), ImportTable("general_ledger_imports"),
     ImportTable("journal_imports"),
     Alter("balance_imports", {}, BalanceImports),
     Alter("journal_imports", {}, Vouchers),
     Create("balance_entries", {<<"fk_balance_entries_import", "balance_imports">>},
       Amounts("balance_entries")),
     Create("tax_period_company_accounts",
       {<<"fk_period_accounts_period", "tax_periods">>,
        <<"fk_period_accounts_account", "company_accounts">>,
        <<"fk_period_accounts_document", "tax_documents">>,
        <<"fk_period_accounts_entry", "balance_entries">>},
       {Key("tax_period_company_accounts", "tax_period_id, company_account_id")}),
     Create("general_ledger_entries",
       {<<"fk_ledger_entries_import", "general_ledger_imports">>,
        <<"fk_ledger_entries_account", "company_accounts">>}, {}),
     Create("journal_entries",
       {<<"fk_journal_entries_import", "journal_imports">>,
        <<"fk_journal_entries_account", "company_accounts">>},
       {Key("journal_entries", "journal_import_id, voucher_number, sequence_number")}),
     AlterUnless("duplicate_codes", "company_accounts", {}, PeriodsOfAccounts),
     Alter("company_account_mappings", {}, PendingMapping),
     Create("company_account_mapping_history",
       {<<"fk_mapping_history_account", "company_accounts">>,
        <<"fk_mapping_history_previous_sii", "sii_accounts">>,
        <<"fk_mapping_history_new_sii", "sii_accounts">>, <<"fk_mapping_history_user", "users">>},
       {})>>,
   down |-> <<
     Drop("company_account_mapping_history"), Drop("journal_entries"),
     Drop("general_ledger_entries"), Drop("tax_period_company_accounts"),
     Drop("balance_entries"), Drop("journal_imports"), Drop("general_ledger_imports"),
     Drop("balance_imports"),
     AlterUnless("balance_accounts", "company_accounts", PeriodsOfAccounts, {}),
     AlterUnless("pending", "company_account_mappings", PendingMapping, {}),
     Drop("tax_documents"), Drop("tax_periods")>>]

CreateSiiAccountMatching ==
  [up |-> <<
     Create("sii_account_terms",
       {<<"fk_sii_terms_account", "sii_accounts">>, <<"fk_sii_terms_company", "companies">>},
       {Key("sii_account_terms",
            "sii_account_id, normalized_term, type, source, scope, company_scope")}
       \cup Values("sii_account_terms", "scope", {"global", "company"})
       \cup Values("sii_account_terms", "type",
                   {"official_name", "alias", "abbreviation", "manual_term", "erp_term",
                    "industry_term", "negative_term"})),
     Create("company_account_suggestions",
       {<<"fk_suggestions_company_account", "company_accounts">>,
        <<"fk_suggestions_sii_account", "sii_accounts">>, <<"fk_suggestions_reviewer", "users">>},
       Values("company_account_suggestions", "status",
              {"active", "accepted", "rejected", "superseded"}))>>,
   down |-> <<DropIfExists("company_account_suggestions"), DropIfExists("sii_account_terms")>>]

SourceValues ==
  Columns("balance_entries", {"reported_amounts", "effective_amounts", "calculated_balances",
                              "was_blank", "source_row_id"})
  \cup Refs("balance_entries", {<<"fk_balance_entries_source", "balance_source_rows">>})

NullableAmounts == {<<"nullable", "tax_period_company_accounts", "amounts">>}

SummaryTypes == Values("balance_reported_summaries", "summary_type", {"subtotal", "result", "total"})

PreserveBalanceSourceValues ==
  [up |-> <<
     Create("balance_source_rows",
       {<<"fk_balance_source_import", "balance_imports">>, <<"fk_balance_source_company", "companies">>,
        <<"fk_balance_source_period", "tax_periods">>},
       {Key("balance_source_rows", "balance_import_id, source_row_number")}
       \cup Values("balance_source_rows", "row_type",
                   {"account", "subtotal", "result", "total", "note", "empty", "unknown"})),
     Create("balance_reported_summaries",
       {<<"fk_balance_summaries_import", "balance_imports">>,
        <<"fk_balance_summaries_source", "balance_source_rows">>}, SummaryTypes),
     Alter("balance_entries", Amounts("balance_entries"), SourceValues),
     Write("balance_entries", SourceValues, {}, {}),
     Alter("tax_period_company_accounts", {}, NullableAmounts)>>,
   down |-> <<
     Write("balance_entries", Columns("balance_entries", {"reported_amounts"}), {}, {}),
     Write("tax_period_company_accounts", {}, {}, {}),
     Alter("balance_entries", SourceValues, Amounts("balance_entries")),
     Alter("tax_period_company_accounts", NullableAmounts, {}),
     Drop("balance_reported_summaries"), Drop("balance_source_rows")>>]
-----------------------------------------------------------------------------

CreateAccountMatchingFeedback ==
  [up |-> <<Create("account_matching_feedback",
              {<<"fk_matching_feedback_company", "companies">>,
               <<"fk_matching_feedback_period", "tax_periods">>,
               <<"fk_matching_feedback_sii", "sii_accounts">>}, {})>>,
   down |-> <<DropIfExists("account_matching_feedback")>>]

CreateSiiAccountConcepts ==
  [up |-> <<Create("sii_account_concepts", {<<"fk_sii_account_concepts_account", "sii_accounts">>},
              {Key("sii_account_concepts",
                   "sii_account_id, normalized_concept, concept_type, source")}
              \cup Values("sii_account_concepts", "concept_type",
                          {"economic_concept", "accounting_family", "statement_section",
                           "balance_nature", "temporal_classification",
                           "contra_account_indicator", "tax_concept", "industry_concept"}))>>,
   down |-> <<DropIfExists("sii_account_concepts")>>]

DiscardedStatus == Values("tax_documents", "status", {"discarded"})

Discards ==
  Columns("tax_documents", {"discarded_at", "discarded_by_user_id", "discard_reason",
                            "status_before_discard"})
  \cup Refs("tax_documents", {<<"fk_tax_documents_discard_user", "users">>})

DiscardedAccounts ==
  Columns("tax_period_company_accounts", {"discarded_at", "discarded_by_document_id"})
  \cup Refs("tax_period_company_accounts",
            {<<"fk_period_accounts_discard_document", "tax_documents">>})

DiscardBalanceVersions ==
  [up |-> <<Alter("tax_documents", {}, DiscardedStatus), Alter("tax_documents", {}, Discards),
            Alter("tax_period_company_accounts", {}, DiscardedAccounts)>>,
   down |-> <<Alter("tax_period_company_accounts", DiscardedAccounts, {}),
              Alter("tax_documents", Discards, {}),
              AlterUnless("discarded", "tax_documents", DiscardedStatus, {})>>]

\* One constraint at a time, as the loops over foreign keys add them.
Constrain(t, r) == Alter(t, {}, Refs(t, {r}))

CreateKnowledge ==
  <<Create("sii_account_knowledge", {}, {}),
    Alter("sii_account_knowledge", {}, {Key("sii_account_knowledge", "sii_account_id")}),
    Constrain("sii_account_knowledge", <<"fk_sii_account_knowledge_account", "sii_accounts">>)>>

CreateRules ==
  <<Create("account_matching_rules", {}, {}),
    Alter("account_matching_rules", {}, {Key("account_matching_rules", "rule_key")})>>

CreateLearning ==
  <<Create("account_matching_learning", {},
      Values("account_matching_learning", "scope", {"company", "industry", "global"})),
    Alter("account_matching_learning", {}, {Key("account_matching_learning", "scope, keys")}),
    Constrain("account_matching_learning", <<"fk_account_matching_learning_company", "companies">>),
    Constrain("account_matching_learning", <<"fk_account_matching_learning_sii", "sii_accounts">>),
    Constrain("account_matching_learning", <<"fk_account_matching_learning_user", "users">>)>>

CreateDiagnostics ==
  <<Create("account_matching_diagnostics", {}, {}),
    Constrain("account_matching_diagnostics",
              <<"fk_account_matching_diagnostics_company", "companies">>),
    Constrain("account_matching_diagnostics",
              <<"fk_account_matching_diagnostics_period", "tax_periods">>),
    Constrain("account_matching_diagnostics",
              <<"fk_account_matching_diagnostics_account", "company_accounts">>)>>

CreateProfessionalAccountInference ==
  [up |-> CreateKnowledge \o CreateRules \o CreateLearning \o CreateDiagnostics,
   down |-> <<DropIfExists("account_matching_diagnostics"), DropIfExists("account_matching_learning"),
              DropIfExists("account_matching_rules"), DropIfExists("sii_account_knowledge")>>]

IndustryOfCompany ==
  {Column("companies", "industry_id")}
  \cup Refs("companies", {<<"fk_companies_industry_id", "industries">>})

CreateGlobalIndustryLearning ==
  [up |-> <<
     Create("industries", {<<"fk_industries_created_by_user", "users">>},
       {Key("industries", "normalized_name")}),
     Alter("companies", {}, IndustryOfCompany),
     Create("account_matching_confirmations",
       {<<"fk_confirmations_company", "companies">>, <<"fk_confirmations_industry", "industries">>,
        <<"fk_confirmations_company_account", "company_accounts">>,
        <<"fk_confirmations_sii", "sii_accounts">>, <<"fk_confirmations_confirmed_user", "users">>,
        <<"fk_confirmations_invalidated_user", "users">>},
       Values("account_matching_confirmations", "source", {"user", "expert", "import"})),
     Rename("account_matching_learning", "account_matching_learning_legacy"),
     Create("account_matching_learning", {<<"fk_learning_sii", "sii_accounts">>},
       {Key("account_matching_learning", "normalized_name_hash, sii_account_id")}),
     Create("account_matching_learning_industries",
       {<<"fk_learning_industries_learning", "account_matching_learning">>,
        <<"fk_learning_industries_industry", "industries">>},
       {Key("account_matching_learning_industries", "learning_id, industry_id")})>>,
   down |-> <<
     Drop("account_matching_learning_industries"), Drop("account_matching_learning"),
     Rename("account_matching_learning_legacy", "account_matching_learning"),
     Drop("account_matching_confirmations"), Alter("companies", IndustryOfCompany, {}),
     Drop("industries")>>]

ExpertCount(t) == {Column(t, "expert_confirmation_count")}

SourceReference ==
  {Column("account_matching_confirmations", "source_reference"),
   Key("account_matching_confirmations", "source_reference")}

AddExpertMappingEvidence ==
  [up |-> <<
     Alter("account_matching_confirmations", {}, SourceReference),
     Alter("account_matching_learning", {}, ExpertCount("account_matching_learning")),
     Alter("account_matching_learning_industries", {},
           ExpertCount("account_matching_learning_industries"))>>,
   down |-> <<
     Alter("account_matching_learning_industries",
           ExpertCount("account_matching_learning_industries"), {}),
     Alter("account_matching_learning", ExpertCount("account_matching_learning"), {}),
     Alter("account_matching_confirmations", SourceReference, {})>>]

ReviewStatus == Values("company_account_suggestions", "status", {"review"})

AddReviewSuggestionStatus ==
  [up |-> <<Alter("company_account_suggestions", {}, ReviewStatus)>>,
   down |-> <<Write("company_account_suggestions", {}, {}, {}),
              Alter("company_account_suggestions", ReviewStatus, {})>>]
-----------------------------------------------------------------------------

VersionKey == {Key("tax_documents", "company_id, tax_period_id, document_type, version_number")}

BalanceRoles ==
  {Key("tax_documents",
       "company_id, tax_period_id, document_type, balance_role_key, version_number")}
  \cup Columns("tax_documents", {"balance_role", "balance_role_key", "balance_role_classified_at",
                                 "balance_role_classified_by_user_id"})
  \cup Values("tax_documents", "balance_role", {"opening", "closing"})
  \cup Refs("tax_documents", {<<"fk_tax_documents_balance_classifier", "users">>})

AccountOfEntry ==
  {Column("balance_entries", "company_account_id")}
  \cup Refs("balance_entries", {<<"fk_balance_entries_company_account", "company_accounts">>})

\* Mutant: collisions are looked for when the first table is already altered.
AddBalanceRoleCheckedLate ==
  [up |-> <<Alter("tax_documents", VersionKey, BalanceRoles),
            Alter("balance_entries", {}, AccountOfEntry)>>,
   down |-> <<Alter("balance_entries", AccountOfEntry, {}),
              RefuseIf("collisions", "tax_documents"),
              AlterUnless("collisions", "tax_documents", BalanceRoles, VersionKey)>>]

AddBalanceRole ==
  [up |-> <<Alter("tax_documents", VersionKey, BalanceRoles),
            Alter("balance_entries", {}, AccountOfEntry)>>,
   down |-> <<RefuseIf("collisions", "tax_documents"),
              Alter("balance_entries", AccountOfEntry, {}),
              AlterUnless("collisions", "tax_documents", BalanceRoles, VersionKey)>>]

GenericRows == Values("balance_source_rows", "row_type", {"reported_summary"})

GenericSummaries ==
  Columns("balance_reported_summaries",
          {"company_id", "tax_period_id", "tax_document_id", "balance_role", "source_row_number",
           "normalized_label", "raw_data"})
  \cup Refs("balance_reported_summaries",
            {<<"fk_balance_summaries_company", "companies">>,
             <<"fk_balance_summaries_period", "tax_periods">>,
             <<"fk_balance_summaries_document", "tax_documents">>})

ExtendBalanceReportedSummaries ==
  [up |-> <<Alter("balance_source_rows", {}, GenericRows),
            Alter("balance_reported_summaries", SummaryTypes, GenericSummaries)>>,
   down |-> <<
     RefuseIf("summaries", "balance_reported_summaries"),
     AlterUnless("summaries", "balance_reported_summaries", GenericSummaries, SummaryTypes),
     AlterUnless("summaries", "balance_source_rows", GenericRows, {})>>]

OfExecution(name) == {<<name, "tax_work_paper_executions">>}

ApplicabilityOfAccount ==
  {Key("tax_work_paper_applicabilities", "definition_id, sii_account_id, role_key"),
   Column("tax_work_paper_applicabilities", "sii_account_id")}

SiiOfApplicability ==
  Refs("tax_work_paper_applicabilities", {<<"fk_work_paper_app_sii", "sii_accounts">>})

CreateTaxWorkPapers ==
  [up |-> <<
     Create("tax_work_paper_definitions", {},
       {Key("tax_work_paper_definitions", "code, version")}
       \cup Values("tax_work_paper_definitions", "status", {"draft", "active", "retired"})),
     Create("tax_work_paper_applicabilities",
       {<<"fk_work_paper_app_definition", "tax_work_paper_definitions">>},
       SiiOfApplicability \cup ApplicabilityOfAccount),
     Create("tax_work_paper_executions",
       {<<"fk_work_paper_exec_company", "companies">>, <<"fk_work_paper_exec_period", "tax_periods">>,
        <<"fk_work_paper_exec_definition", "tax_work_paper_definitions">>,
        <<"fk_work_paper_exec_supersedes", "tax_work_paper_executions">>,
        <<"fk_work_paper_exec_creator", "users">>, <<"fk_work_paper_exec_reviewer", "users">>},
       {Key("tax_work_paper_executions", "company_id, tax_period_id, definition_id, revision")}
       \cup Values("tax_work_paper_executions", "status", {"draft", "finalized"})),
     Create("tax_work_paper_inputs", OfExecution("fk_work_paper_input_execution"),
       {Key("tax_work_paper_inputs", "execution_id, input_key, revision")}
       \cup Values("tax_work_paper_inputs", "source_type",
                   {"balance", "general_ledger", "tax_document", "auxiliary", "manual",
                    "economic_series", "prior_period", "work_paper_execution"})
       \cup Values("tax_work_paper_inputs", "status", {"draft", "finalized", "void"})),
     Create("tax_work_paper_dependencies",
       OfExecution("fk_work_paper_dep_execution") \cup OfExecution("fk_work_paper_dep_source"),
       {Key("tax_work_paper_dependencies", "execution_id, depends_on_execution_id")}),
     Create("tax_adjustments",
       {<<"fk_tax_adjustment_company", "companies">>, <<"fk_tax_adjustment_period", "tax_periods">>}
       \cup OfExecution("fk_tax_adjustment_execution"),
       Values("tax_adjustments", "type",
              {"RLI_ADD", "RLI_DEDUCT", "CPT_ASSET_ADD", "CPT_ASSET_DEDUCT", "CPT_LIABILITY_ADD",
               "CPT_LIABILITY_DEDUCT", "DEFERRED_TAX_ASSET", "DEFERRED_TAX_LIABILITY"})
       \cup Values("tax_adjustments", "difference_nature",
                   {"temporary", "permanent", "not_applicable"})
       \cup Values("tax_adjustments", "status", {"draft", "finalized", "void"})),
     Create("tax_work_paper_evidence",
       {<<"fk_work_paper_evidence_input", "tax_work_paper_inputs">>,
        <<"fk_work_paper_evidence_adjustment", "tax_adjustments">>}
       \cup OfExecution("fk_work_paper_evidence_execution"), {}),
     Write("tax_work_paper_definitions", {}, {}, {Row("tax_work_paper_definitions", "A.1 to A.20")})>>,
   down |-> <<Drop("tax_work_paper_evidence"), Drop("tax_adjustments"),
              Drop("tax_work_paper_dependencies"), Drop("tax_work_paper_inputs"),
              Drop("tax_work_paper_executions"), Drop("tax_work_paper_applicabilities"),
              Drop("tax_work_paper_definitions")>>]

A17Configured == {Row("tax_work_paper_definitions", "A.17 implemented")}

ImplementA17WorkPaper ==
  [up |-> <<Write("tax_work_paper_definitions", {}, {}, A17Configured)>>,
   down |-> <<Write("tax_work_paper_applicabilities", {}, {}, {}),
              Write("tax_work_paper_definitions", {}, A17Configured, {})>>]

CodeOfApplicability == {Column("tax_work_paper_applicabilities", "sii_account_code")}

ApplicabilityOfCode ==
  {Key("tax_work_paper_applicabilities", "definition_id, sii_account_code, role_key"),
   Column("tax_work_paper_applicabilities", "legacy_sii_account_id")}

StabilizeWorkPaperApplicability ==
  [up |-> <<
     Alter("tax_work_paper_applicabilities", {}, CodeOfApplicability),
     Write("tax_work_paper_applicabilities", CodeOfApplicability \cup {Column("tax_work_paper_applicabilities", "sii_account_id")}, {}, {}),
     Alter("tax_work_paper_applicabilities", SiiOfApplicability, {}),
     Alter("tax_work_paper_applicabilities", ApplicabilityOfAccount, ApplicabilityOfCode)>>,
   down |-> <<
     Write("tax_work_paper_applicabilities", ApplicabilityOfCode, {}, {}),
     AlterUnless("orphan_codes", "tax_work_paper_applicabilities",
                 ApplicabilityOfCode \cup CodeOfApplicability, ApplicabilityOfAccount),
     Alter("tax_work_paper_applicabilities", {}, SiiOfApplicability)>>]

Curated == {Row("tax_work_paper_applicabilities", "curated")}

LoadCuratedWorkPaperApplicability ==
  [up |-> <<Write("tax_work_paper_applicabilities", ApplicabilityOfCode, {}, Curated)>>,
   down |-> <<Write("tax_work_paper_applicabilities", {}, Curated, {})>>]

CreateWorkPaperJobs ==
  [up |-> <<Create("tax_work_paper_jobs",
              OfExecution("fk_work_paper_job_execution")
              \cup {<<"fk_work_paper_job_requester", "users">>},
              Values("tax_work_paper_jobs", "job_type", {"calculator_run"})
              \cup Values("tax_work_paper_jobs", "status",
                          {"pending", "running", "completed", "failed"}))>>,
   down |-> <<Drop("tax_work_paper_jobs")>>]

Script ==
  [CreateInitialDomain |-> CreateInitialDomain, CreateStoredFiles |-> CreateStoredFiles,
   AddCookieAuthentication |-> AddCookieAuthentication,
   AddUserPlatformRole |-> AddUserPlatformRole, CreateSiiAccountPlan |-> CreateSiiAccountPlan,
   CreateCompanyAccountPlan |-> CreateCompanyAccountPlan,
   CreateAccountingImportCore |-> CreateAccountingImportCore,
   CreateSiiAccountMatching |-> CreateSiiAccountMatching,
   PreserveBalanceSourceValues |-> PreserveBalanceSourceValues,
   CreateAccountMatchingFeedback |-> CreateAccountMatchingFeedback,
   CreateSiiAccountConcepts |-> CreateSiiAccountConcepts,
   DiscardBalanceVersions |-> DiscardBalanceVersions,
   CreateProfessionalAccountInference |-> CreateProfessionalAccountInference,
   CreateGlobalIndustryLearning |-> CreateGlobalIndustryLearning,
   AddExpertMappingEvidence |-> AddExpertMappingEvidence,
   AddReviewSuggestionStatus |-> AddReviewSuggestionStatus, AddBalanceRole |-> AddBalanceRole,
   ExtendBalanceReportedSummaries |-> ExtendBalanceReportedSummaries,
   CreateTaxWorkPapers |-> CreateTaxWorkPapers, ImplementA17WorkPaper |-> ImplementA17WorkPaper,
   StabilizeWorkPaperApplicability |-> StabilizeWorkPaperApplicability,
   LoadCuratedWorkPaperApplicability |-> LoadCuratedWorkPaperApplicability,
   CreateWorkPaperJobs |-> CreateWorkPaperJobs]

\* In the order of the timestamps in their names; migrations with one timestamp
\* are executed in the order in which the files are found.
Batches ==
  <<{"CreateInitialDomain"}, {"CreateStoredFiles"}, {"AddCookieAuthentication"},
    {"AddUserPlatformRole"}, {"CreateSiiAccountPlan"}, {"CreateCompanyAccountPlan"},
    {"CreateAccountingImportCore"}, {"CreateSiiAccountMatching", "PreserveBalanceSourceValues"},
    {"CreateAccountMatchingFeedback"}, {"CreateSiiAccountConcepts", "DiscardBalanceVersions"},
    {"CreateProfessionalAccountInference"}, {"CreateGlobalIndustryLearning"},
    {"AddExpertMappingEvidence"}, {"AddReviewSuggestionStatus"}, {"AddBalanceRole"},
    {"ExtendBalanceReportedSummaries"}, {"CreateTaxWorkPapers"}, {"ImplementA17WorkPaper"},
    {"StabilizeWorkPaperApplicability"}, {"LoadCuratedWorkPaperApplicability"},
    {"CreateWorkPaperJobs"}>>

Names == DOMAIN Script

\* What a migration:run executes next: of the earliest timestamp that is not recorded.
Pending(log) ==
  LET waiting == {i \in DOMAIN Batches : ~(Batches[i] \subseteq ToSet(log))} IN
  IF waiting = {} THEN {}
  ELSE Batches[CHOOSE i \in waiting : \A j \in waiting : i <= j] \ ToSet(log)

Played(statements, s) == FoldLeft(LAMBDA t, st : Result(st, t), s, statements)

\* The schema that the recorded migrations make.
Replay(log) ==
  LET after[n \in 0 .. Len(log)] ==
        IF n = 0 THEN {} ELSE UNION {Played(Script[log[n]].up, s) : s \in {after[n - 1]}}
  IN after[Len(log)]

Whole == schema = Replay(executed)
-----------------------------------------------------------------------------
(* Data that a statement minds, and what the application needs to store it. *)

DataNeeds ==
  [passwordless |-> Passwordless,
   duplicate_codes |-> {Table("company_accounts")},
   plan_files |-> PlanCategory,
   balance_accounts |-> PeriodsOfAccounts,
   pending |-> PendingMapping,
   discarded |-> DiscardedStatus \cup Discards,
   collisions |-> BalanceRoles,
   summaries |-> GenericSummaries,
   orphan_codes |-> ApplicabilityOfCode]

\* Codes are unique in a company since its accounts have periods.
Storable(d) ==
  /\ DataNeeds[d] \subseteq schema
  /\ d = "duplicate_codes" => PeriodsOfAccounts \cap schema = {}

Kept(s) == {d \in data : DataNeeds[d] \subseteq s}

NoRun(whole) == [migration |-> "none", direction |-> "none", step |-> 0, whole |-> whole]

NoFailure == [cause |-> "none", migration |-> "none", direction |-> "none"]

Resting == run.migration = "none"

Event == events < MaxEvents /\ events' = events + 1

SchemaInit ==
  /\ schema = {} /\ saved = {}
  /\ executed = <<>> /\ recorded = <<>>
  /\ data = {}
  /\ run = NoRun(TRUE) /\ failure = NoFailure
  /\ events = 0

Statements == Script[run.migration][run.direction]
Current == Statements[run.step]

Begin(m, direction) ==
  /\ run' = [migration |-> m, direction |-> direction, step |-> 1, whole |-> Whole]
  /\ failure' = NoFailure

\* migration:run
Start ==
  /\ Resting
  /\ \E m \in Pending(executed) : Begin(m, "up")
  /\ UNCHANGED <<schema, saved, executed, recorded, data, events>>

\* migration:revert undoes the migration that was recorded last.
Revert ==
  /\ Resting /\ executed # <<>>
  /\ Begin(Last(executed), "down")
  /\ UNCHANGED <<schema, saved, executed, recorded, data, events>>

\* A statement that changes the schema commits what was written before it.
Execute ==
  /\ ~Resting /\ run.step <= Len(Statements)
  /\ Fits(Current, schema) /\ Current.blocked \cap data = {}
  /\ schema' = Result(Current, schema)
  /\ data' = Kept(schema')
  /\ run' = [run EXCEPT !.step = @ + 1]
  /\ IF DDL(Current) THEN saved' = schema' /\ recorded' = executed
     ELSE UNCHANGED <<saved, recorded>>
  /\ UNCHANGED <<executed, failure, events>>

\* What is left when the transaction is rolled back.
Lose(s, log, cause) ==
  /\ schema' = s /\ saved' = s
  /\ executed' = log /\ recorded' = log
  /\ data' = Kept(s)
  /\ failure' = [cause |-> cause, migration |-> run.migration, direction |-> run.direction]
  /\ run' = NoRun(run.whole)

Fail ==
  /\ ~Resting /\ run.step <= Len(Statements)
  /\ ~Fits(Current, schema) \/ Current.blocked \cap data # {}
  /\ LET cause == IF Fits(Current, schema) THEN "data" ELSE "structure" IN
     IF DDL(Current) THEN Lose(schema, executed, cause) ELSE Lose(saved, recorded, cause)
  /\ UNCHANGED events

Kill ==
  /\ ~Resting
  /\ Lose(saved, recorded, "killed")
  /\ Event

Commit(log) ==
  /\ saved' = schema /\ recorded' = log
  /\ run' = NoRun(run.whole)

\* All pending migrations are executed in one transaction.
Record ==
  /\ run.direction = "up" /\ run.step > Len(Statements)
  /\ executed' = Append(executed, run.migration)
  /\ IF Pending(executed') = {} THEN Commit(executed')
     ELSE /\ \E m \in Pending(executed') : run' = [run EXCEPT !.migration = m, !.step = 1]
          /\ UNCHANGED <<saved, recorded>>
  /\ UNCHANGED <<schema, data, failure, events>>

\* The record of the migration that was undone is the last one.
Erase ==
  /\ run.direction = "down" /\ run.step > Len(Statements)
  /\ executed' = Front(executed)
  /\ Commit(executed')
  /\ UNCHANGED <<schema, data, failure, events>>

\* The application stores data between two commands.
Store(d) ==
  /\ Resting /\ d \notin data /\ Storable(d)
  /\ data' = data \cup {d}
  /\ Event
  /\ UNCHANGED <<schema, saved, executed, recorded, run, failure>>

SchemaNext ==
  \/ Start \/ Revert \/ Execute \/ Fail \/ Kill \/ Record \/ Erase
  \/ \E d \in DOMAIN DataNeeds : Store(d)

SchemaSpec == SchemaInit /\ [][SchemaNext]_schemaVars
-----------------------------------------------------------------------------
\* Commands name migrations, and only recorded ones are undone.
SchemaTypeOK ==
  /\ executed \in Seq(Names) /\ recorded \in Seq(Names) /\ IsInjective(executed)
  /\ data \subseteq DOMAIN DataNeeds
  /\ failure.cause \in {"none", "data", "structure", "killed"}
  /\ run.migration \in Names \cup {"none"} /\ run.direction \in {"none", "up", "down"}
  /\ run.direction = "down" => run.migration = Last(executed)
  /\ run.direction = "up" => run.migration \in Pending(executed)
  /\ events \in 0 .. MaxEvents

\* Migrations are recorded in the order of their timestamps: every one of an earlier
\* timestamp is before it in the log, whatever was killed, failed or reverted. The
\* executor compares names, not positions (migration:run).
InOrder(log) ==
  \A n \in DOMAIN log : \E k \in DOMAIN Batches :
    /\ log[n] \in Batches[k]
    /\ \A j \in 1 .. k - 1 : Batches[j] \subseteq {log[i] : i \in 1 .. n - 1}

RecordedInOrder == InOrder(executed)

\* What docs/audits/opening-closing-balances-2026-08-04.md says of the rollback:
\* versions that collide, or summaries that do not fit, are found before the
\* schema is modified.
RefusedRevertsAreWhole ==
  Resting /\ run.whole /\ failure.cause = "data"
    /\ failure.migration \in {"AddBalanceRole", "ExtendBalanceReportedSummaries"} => Whole

\* When everything is migrated, the database has what the entities expect:
\* their tables, the tables they refer to, the unique keys that make concurrent
\* inserts fail, and every value they may write.
EntitiesFit ==
  Resting /\ Whole /\ Pending(executed) = {} =>
    \A e \in Entities :
      /\ Table(e.table) \in schema /\ e.facts \subseteq schema
      /\ \A t \in e.refs : \E f \in schema : f[1] = "fk" /\ f[2] = e.table /\ f[4] = t
=============================================================================
