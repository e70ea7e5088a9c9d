--------------------------- MODULE SchemaEntities ---------------------------
(***************************************************************************)
(* What the entities of the API expect of the database: their table, the    *)
(* unique keys they rely on, the tables they refer to, the values they may  *)
(* write into enumerated columns and the columns that the table did not     *)
(* have when it was created. A fact about the schema is a tuple of strings. *)
(***************************************************************************)

Table(t) == <<"table", t>>
Key(t, columns) == <<"key", t, columns>>
Column(t, c) == <<"column", t, c>>
Columns(t, cs) == {Column(t, c) : c \in cs}
Values(t, c, vs) == {<<"value", t, c, v>> : v \in vs}

\* A constraint named n of table t that refers to table r.
Ref(t, n, r) == <<"fk", t, n, r>>

\* refs are the tables a row refers to, facts what else must hold.
Entity(t, refs, facts) == [table |-> t, refs |-> refs, facts |-> facts]
-----------------------------------------------------------------------------
OrganizationEntity ==
  Entity("organizations", {},
         {Key("organizations", "slug")}
         \cup Values("organizations", "status", {"active", "inactive"}))

OrganizationMemberEntity ==
  Entity("organization_members", {"organizations", "users"},
         {Key("organization_members", "organization_id, user_id")}
         \cup Values("organization_members", "role",
                     {"owner", "admin", "accountant", "auditor", "viewer"})
         \cup Values("organization_members", "status", {"invited", "active", "suspended"}))

UserEntity ==
  Entity("users", {},
         {Key("users", "email")}
         \cup Columns("users", {"password_changed_at", "failed_login_attempts",
                                "locked_until", "platform_role"})
         \cup Values("users", "status", {"active", "inactive", "blocked"})
         \cup Values("users", "platform_role", {"user", "metauser"}))

AuthSessionEntity == Entity("auth_sessions", {"users", "auth_sessions"}, {})

CompanyEntity ==
  Entity("companies", {"organizations", "industries"},
         {Key("companies", "organization_id, rut"), Column("companies", "industry_id")}
         \cup Values("companies", "status", {"active", "inactive"}))

IndustryEntity == Entity("industries", {}, {Key("industries", "normalized_name")})

StoredFileEntity ==
  Entity("stored_files", {"companies"},
         {Key("stored_files", "bucket, object_key")}
         \cup Values("stored_files", "direction", {"input", "output"})
         \cup Values("stored_files", "category",
                     {"balance", "journal", "ledger", "xml", "declaration", "report",
                      "company_account_plan", "other"})
         \cup Values("stored_files", "status",
                     {"uploaded", "processing", "processed", "failed", "generated"}))

SiiAccountPlanVersionEntity ==
  Entity("sii_account_plan_versions", {},
         {Key("sii_account_plan_versions", "code"),
          Key("sii_account_plan_versions", "source_checksum")}
         \cup Values("sii_account_plan_versions", "status", {"draft", "active", "archived"}))

SiiAccountEntity ==
  Entity("sii_accounts", {"sii_account_plan_versions", "sii_accounts"},
         {Key("sii_accounts", "version_id, code")})
-----------------------------------------------------------------------------
CompanyAccountPlanVersionEntity ==
  Entity("company_account_plan_versions", {"companies"},
         {Key("company_account_plan_versions", "company_id, source_checksum")}
         \cup Values("company_account_plan_versions", "status",
                     {"draft", "processing", "ready", "failed", "archived"}))

CompanyAccountEntity ==
  Entity("company_accounts",
         {"company_account_plan_versions", "companies", "company_accounts"},
         {Key("company_accounts", "company_account_plan_version_id, internal_code"),
          Key("company_accounts", "company_id, internal_code"),
          <<"nullable", "company_accounts", "company_account_plan_version_id">>}
         \cup Columns("company_accounts",
                      {"first_seen_tax_period_id", "last_seen_tax_period_id",
                       "first_seen_at", "last_seen_at"})
         \cup Values("company_accounts", "status", {"active", "inactive"}))

CompanyAccountMappingEntity ==
  Entity("company_account_mappings", {"company_accounts", "sii_accounts"},
         {Key("company_account_mappings", "company_account_id")}
         \cup Values("company_account_mappings", "status",
                     {"pending", "suggested", "confirmed", "rejected", "unmapped"})
         \cup Values("company_account_mappings", "mapping_method",
                     {"manual", "exact_code", "exact_name", "normalized_name",
                      "contains_name", "automatic"}))

CompanyAccountMappingHistoryEntity ==
  Entity("company_account_mapping_history", {"company_accounts", "sii_accounts", "users"}, {})

TaxPeriodEntity ==
  Entity("tax_periods", {"companies"},
         {Key("tax_periods", "company_id, tax_year")}
         \cup Values("tax_periods", "status", {"open", "processing", "reviewed", "closed"}))

TaxDocumentEntity ==
  Entity("tax_documents", {"tax_periods", "stored_files", "users"},
         {Key("tax_documents",
              "company_id, tax_period_id, document_type, balance_role_key, version_number")}
         \cup Columns("tax_documents",
                      {"discarded_at", "discarded_by_user_id", "discard_reason",
                       "status_before_discard", "balance_role", "balance_role_key",
                       "balance_role_classified_at", "balance_role_classified_by_user_id"})
         \cup Values("tax_documents", "balance_role", {"opening", "closing"})
         \cup Values("tax_documents", "document_type", {"balance", "general_ledger", "journal"})
         \cup Values("tax_documents", "status",
                     {"uploaded", "validating", "valid", "invalid", "processing", "processed",
                      "superseded", "discarded", "processing_error"}))

TaxPeriodCompanyAccountEntity ==
  Entity("tax_period_company_accounts", {"tax_periods", "company_accounts", "tax_documents"},
         {Key("tax_period_company_accounts", "tax_period_id, company_account_id")}
         \cup Columns("tax_period_company_accounts", {"discarded_at", "discarded_by_document_id"}))

CompanyAccountSuggestionEntity ==
  Entity("company_account_suggestions", {"company_accounts", "sii_accounts", "users"},
         Values("company_account_suggestions", "status",
                {"active", "review", "accepted", "rejected", "superseded"}))
-----------------------------------------------------------------------------
SiiAccountTermEntity ==
  Entity("sii_account_terms", {"sii_accounts", "companies"},
         Values("sii_account_terms", "scope", {"global", "company"})
         \cup Values("sii_account_terms", "type",
                     {"official_name", "alias", "abbreviation", "manual_term", "erp_term",
                      "industry_term", "negative_term"}))

SiiAccountConceptEntity ==
  Entity("sii_account_concepts", {"sii_accounts"},
         {Key("sii_account_concepts",
              "sii_account_id, normalized_concept, concept_type, source")}
         \cup Values("sii_account_concepts", "concept_type",
                     {"economic_concept", "accounting_family", "statement_section",
                      "balance_nature", "temporal_classification",
                      "contra_account_indicator", "tax_concept", "industry_concept"}))

SiiAccountKnowledgeEntity ==
  Entity("sii_account_knowledge", {"sii_accounts"},
         {Key("sii_account_knowledge", "sii_account_id")})

AccountMatchingRuleEntity ==
  Entity("account_matching_rules", {}, {Key("account_matching_rules", "rule_key")})

AccountMatchingFeedbackEntity == Entity("account_matching_feedback", {}, {})

AccountMatchingDiagnosticEntity == Entity("account_matching_diagnostics", {}, {})

AccountMatchingConfirmationEntity ==
  Entity("account_matching_confirmations", {"industries", "sii_accounts"},
         {Key("account_matching_confirmations", "source_reference"),
          Column("account_matching_confirmations", "source_reference")}
         \cup Values("account_matching_confirmations", "source", {"user", "expert", "import"}))

AccountMatchingLearningEntity ==
  Entity("account_matching_learning", {},
         {Key("account_matching_learning", "normalized_name_hash, sii_account_id"),
          Column("account_matching_learning", "expert_confirmation_count")})

AccountMatchingLearningIndustryEntity ==
  Entity("account_matching_learning_industries", {"account_matching_learning", "industries"},
         {Key("account_matching_learning_industries", "learning_id, industry_id"),
          Column("account_matching_learning_industries", "expert_confirmation_count")})
-----------------------------------------------------------------------------
WorkPaperDefinitionEntity ==
  Entity("tax_work_paper_definitions", {},
         {Key("tax_work_paper_definitions", "code, version")}
         \cup Values("tax_work_paper_definitions", "status", {"draft", "active", "retired"}))

WorkPaperApplicabilityEntity ==
  Entity("tax_work_paper_applicabilities", {"tax_work_paper_definitions"},
         {Key("tax_work_paper_applicabilities", "definition_id, sii_account_code, role_key"),
          Column("tax_work_paper_applicabilities", "sii_account_code"),
          Column("tax_work_paper_applicabilities", "legacy_sii_account_id")})

WorkPaperExecutionEntity ==
  Entity("tax_work_paper_executions",
         {"companies", "tax_periods", "tax_work_paper_definitions",
          "tax_work_paper_executions", "users"},
         {Key("tax_work_paper_executions", "company_id, tax_period_id, definition_id, revision")}
         \cup Values("tax_work_paper_executions", "status", {"draft", "finalized"}))

WorkPaperInputEntity ==
  Entity("tax_work_paper_inputs", {"tax_work_paper_executions"},
         {Key("tax_work_paper_inputs", "execution_id, input_key, revision")}
         \cup Values("tax_work_paper_inputs", "source_type",
                     {"balance", "general_ledger", "tax_document", "auxiliary", "manual",
                      "economic_series", "prior_period", "work_paper_execution"})
         \cup Values("tax_work_paper_inputs", "status", {"draft", "finalized", "void"}))

WorkPaperDependencyEntity ==
  Entity("tax_work_paper_dependencies", {"tax_work_paper_executions"},
         {Key("tax_work_paper_dependencies", "execution_id, depends_on_execution_id")})

WorkPaperEvidenceEntity ==
  Entity("tax_work_paper_evidence", {"tax_work_paper_executions"}, {})

TaxAdjustmentEntity ==
  Entity("tax_adjustments", {"tax_work_paper_executions"},
         Values("tax_adjustments", "type",
                {"RLI_ADD", "RLI_DEDUCT", "CPT_ASSET_ADD", "CPT_ASSET_DEDUCT",
                 "CPT_LIABILITY_ADD", "CPT_LIABILITY_DEDUCT", "DEFERRED_TAX_ASSET",
                 "DEFERRED_TAX_LIABILITY"})
         \cup Values("tax_adjustments", "difference_nature",
                     {"temporary", "permanent", "not_applicable"})
         \cup Values("tax_adjustments", "status", {"draft", "finalized", "void"}))

WorkPaperJobEntity ==
  Entity("tax_work_paper_jobs", {"tax_work_paper_executions", "users"},
         Values("tax_work_paper_jobs", "job_type", {"calculator_run"})
         \cup Values("tax_work_paper_jobs", "status",
                     {"pending", "running", "completed", "failed"}))

\* The entities that data-source.ts registers.
Entities ==
  {OrganizationEntity, OrganizationMemberEntity, UserEntity, AuthSessionEntity,
   CompanyEntity, IndustryEntity, StoredFileEntity, SiiAccountPlanVersionEntity,
   SiiAccountEntity, CompanyAccountPlanVersionEntity, CompanyAccountEntity,
   CompanyAccountMappingEntity, CompanyAccountMappingHistoryEntity, TaxPeriodEntity,
   TaxDocumentEntity, TaxPeriodCompanyAccountEntity, CompanyAccountSuggestionEntity,
   SiiAccountTermEntity, SiiAccountConceptEntity, SiiAccountKnowledgeEntity,
   AccountMatchingRuleEntity, AccountMatchingFeedbackEntity,
   AccountMatchingDiagnosticEntity, AccountMatchingConfirmationEntity,
   AccountMatchingLearningEntity, AccountMatchingLearningIndustryEntity,
   WorkPaperDefinitionEntity, WorkPaperApplicabilityEntity, WorkPaperExecutionEntity,
   WorkPaperInputEntity, WorkPaperDependencyEntity, WorkPaperEvidenceEntity,
   TaxAdjustmentEntity, WorkPaperJobEntity}
=============================================================================
