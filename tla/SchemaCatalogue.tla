------------------------- MODULE SchemaCatalogue -------------------------
(***************************************************************************)
(* The PostgreSQL schema twice over: as the Alembic scripts build it       *)
(* (infra/migrations/versions) and as the SQLAlchemy models declare it     *)
(* (packages/regulatory_core/models).  A table is its foreign keys, the    *)
(* enum types its columns use and its unique keys; columns that are none   *)
(* of these, and plain indexes, are abstracted.                            *)
(***************************************************************************)
EXTENDS Sequences

Refers(column, table) == [column |-> column, table |-> table, on_delete |-> "NO ACTION"]
Owns(column, table) == [column |-> column, table |-> table, on_delete |-> "CASCADE"]

Table(name, keys, types, unique) ==
  [name |-> name, keys |-> keys, types |-> types, unique |-> unique]

-----------------------------------------------------------------------------
(* upgrade() of 6ebd241e922e_initial_schema.py: the tables in the order the
   script creates them. *)
InitialTables1 == <<
  Table("evaluation_datasets", {}, {}, {}),
  Table("organizations", {}, {}, {{"slug"}}),
  Table("prompt_versions", {}, {}, {{"name", "version"}}),
  Table("regulatory_sources", {}, {}, {}),
  Table("users", {}, {}, {{"email"}}),
  Table("audit_events", {Refers("organization_id", "organizations"), Refers("user_id",
    "users")}, {}, {}),
  Table("controls", {Refers("organization_id", "organizations"), Refers("owner_id",
    "users")}, {}, {}) >>

InitialTables2 == <<
  Table("evaluation_runs", {Refers("dataset_id", "evaluation_datasets")}, {}, {}),
  Table("graph_nodes", {Refers("organization_id", "organizations")}, {}, {{"node_type",
    "entity_id"}}),
  Table("organization_memberships", {Owns("organization_id", "organizations"),
    Owns("user_id", "users")}, {"userrole"}, {{"user_id", "organization_id"}}),
  Table("processes", {Refers("organization_id", "organizations"), Refers("owner_id",
    "users")}, {}, {}),
  Table("refresh_tokens", {Owns("user_id", "users")}, {}, {{"token_hash"}}) >>

InitialTables3 == <<
  Table("regulatory_documents", {Refers("organization_id", "organizations"),
    Refers("source_id", "regulatory_sources")}, {"documenttype", "regulatorydomain",
    "documentstatus"}, {}),
  Table("document_pages", {Owns("document_id", "regulatory_documents")}, {},
    {{"document_id", "page_number"}}),
  Table("document_relationships", {Refers("source_document_id", "regulatory_documents"),
    Refers("target_document_id", "regulatory_documents")}, {}, {}),
  Table("document_sections", {Owns("document_id", "regulatory_documents"),
    Refers("parent_section_id", "document_sections")}, {}, {}),
  Table("extraction_runs", {Refers("document_id", "regulatory_documents"),
    Refers("organization_id", "organizations")}, {"workflowstatus"}, {}) >>

InitialTables4 == <<
  Table("graph_edges", {Owns("source_node_id", "graph_nodes"), Owns("target_node_id",
    "graph_nodes")}, {}, {}),
  Table("agent_runs", {Owns("extraction_run_id", "extraction_runs")}, {"agentstatus"}, {}),
  Table("clauses", {Owns("document_id", "regulatory_documents"), Refers("parent_clause_id",
    "clauses"), Refers("section_id", "document_sections")}, {"clausetype"}, {}),
  Table("workflow_events", {Owns("extraction_run_id", "extraction_runs")}, {}, {}),
  Table("agent_steps", {Owns("agent_run_id", "agent_runs")}, {}, {}),
  Table("clause_embeddings", {Owns("clause_id", "clauses"), Refers("document_id",
    "regulatory_documents")}, {}, {}) >>

InitialTables5 == <<
  Table("evaluation_examples", {Refers("annotator_id", "users"), Owns("dataset_id",
    "evaluation_datasets"), Refers("source_clause_id", "clauses"),
    Refers("source_document_id", "regulatory_documents")}, {}, {}),
  Table("model_invocations", {Refers("agent_run_id", "agent_runs")}, {}, {}),
  Table("obligations", {Refers("clause_id", "clauses"), Refers("document_id",
    "regulatory_documents"), Refers("organization_id", "organizations"),
    Refers("reviewer_id", "users")}, {"risklevel", "obligationstatus"}, {}),
  Table("compliance_calendar_events", {Refers("obligation_id", "obligations"),
    Refers("organization_id", "organizations"), Refers("owner_id", "users")}, {}, {}) >>

InitialTables6 == <<
  Table("compliance_tasks", {Refers("assigned_to", "users"), Refers("obligation_id",
    "obligations"), Refers("organization_id", "organizations")}, {"taskstatus"}, {}),
  Table("evaluation_results", {Owns("evaluation_run_id", "evaluation_runs"),
    Refers("example_id", "evaluation_examples")}, {}, {}),
  Table("evidence_requirements", {Refers("obligation_id", "obligations"),
    Refers("organization_id", "organizations")}, {}, {}),
  Table("obligation_citations", {Refers("clause_id", "clauses"), Owns("obligation_id",
    "obligations")}, {}, {}),
  Table("obligation_control_mappings", {Refers("control_id", "controls"),
    Refers("obligation_id", "obligations"), Refers("organization_id", "organizations")}, {},
    {}),
  Table("regulatory_changes", {Refers("new_clause_id", "clauses"), Refers("new_document_id",
    "regulatory_documents"), Refers("new_obligation_id", "obligations"),
    Refers("old_clause_id", "clauses"), Refers("old_document_id", "regulatory_documents"),
    Refers("old_obligation_id", "obligations")}, {"changetype"}, {}) >>

InitialTables7 == <<
  Table("review_tasks", {Refers("assigned_to", "users"), Refers("obligation_id",
    "obligations"), Refers("organization_id", "organizations")}, {}, {}),
  Table("risk_scores", {Refers("obligation_id", "obligations"), Refers("organization_id",
    "organizations")}, {}, {}),
  Table("validation_results", {Owns("obligation_id", "obligations")}, {}, {}),
  Table("evidence_artifacts", {Refers("evidence_requirement_id", "evidence_requirements"),
    Refers("obligation_id", "obligations"), Refers("organization_id", "organizations"),
    Refers("owner_id", "users"), Refers("reviewer_id", "users")}, {"evidencestatus"}, {}),
  Table("impact_assessments", {Refers("change_id", "regulatory_changes"),
    Refers("organization_id", "organizations")}, {}, {}) >>

InitialTables8 == <<
  Table("review_decisions", {Refers("review_task_id", "review_tasks"), Refers("reviewer_id",
    "users")}, {"reviewaction"}, {}),
  Table("evidence_audit_entries", {Refers("actor_id", "users"),
    Refers("evidence_artifact_id", "evidence_artifacts")}, {}, {}),
  Table("obligation_evidence_mappings", {Refers("evidence_artifact_id",
    "evidence_artifacts"), Refers("obligation_id", "obligations"), Refers("organization_id",
    "organizations")}, {}, {}) >>

InitialTables ==
  InitialTables1 \o InitialTables2 \o InitialTables3 \o InitialTables4 \o
  InitialTables5 \o InitialTables6 \o InitialTables7 \o InitialTables8

(* downgrade() of the same script: the order in which it drops them. *)
InitialDowngrade == <<
  "obligation_evidence_mappings", "evidence_audit_entries", "review_decisions",
  "impact_assessments", "evidence_artifacts", "validation_results", "risk_scores",
  "review_tasks", "regulatory_changes", "obligation_control_mappings",
  "obligation_citations", "evidence_requirements", "evaluation_results", "compliance_tasks",
  "compliance_calendar_events", "obligations", "model_invocations", "evaluation_examples",
  "clause_embeddings", "agent_steps", "workflow_events", "clauses", "agent_runs",
  "graph_edges", "extraction_runs", "document_sections", "document_relationships",
  "document_pages", "regulatory_documents", "refresh_tokens", "processes",
  "organization_memberships", "graph_nodes", "evaluation_runs", "controls", "audit_events",
  "users", "regulatory_sources", "prompt_versions", "organizations", "evaluation_datasets" >>

(* e4b4305debd7_phase2_add_diff_fields_and_diff_runs.py: its table, and the
   columns it adds to regulatory_changes. *)
PhaseTwoTable ==
  Table("diff_runs", {Refers("old_document_id", "regulatory_documents"),
    Refers("new_document_id", "regulatory_documents")}, {"diffrunstatus"}, {})
PhaseTwoTypes == <<"materialitylevel", "diffrunstatus">>
PhaseTwoAltered == "regulatory_changes"
PhaseTwoColumnTypes == {"materialitylevel"}
PhaseTwoKey == Refers("diff_run_id", "diff_runs")
-----------------------------------------------------------------------------
(* The declarative models, one definition per part of a models/ file. *)
AuthModels == {
  Table("organizations", {}, {}, {{"slug"}}),
  Table("users", {}, {}, {{"email"}}),
  Table("organization_memberships", {Owns("user_id", "users"), Owns("organization_id",
    "organizations")}, {"userrole"}, {{"user_id", "organization_id"}}),
  Table("refresh_tokens", {Owns("user_id", "users")}, {}, {{"token_hash"}}),
  Table("audit_events", {Refers("organization_id", "organizations"), Refers("user_id",
    "users")}, {}, {}) }

DocumentsModels1 == {
  Table("regulatory_sources", {}, {}, {}),
  Table("regulatory_documents", {Refers("organization_id", "organizations"),
    Refers("source_id", "regulatory_sources")}, {"documenttype", "regulatorydomain",
    "documentstatus"}, {}),
  Table("document_pages", {Owns("document_id", "regulatory_documents")}, {},
    {{"document_id", "page_number"}}) }

DocumentsModels2 == {
  Table("document_sections", {Owns("document_id", "regulatory_documents"),
    Refers("parent_section_id", "document_sections")}, {}, {}),
  Table("clauses", {Owns("document_id", "regulatory_documents"), Refers("section_id",
    "document_sections"), Refers("parent_clause_id", "clauses")}, {"clausetype"}, {}),
  Table("document_relationships", {Refers("source_document_id", "regulatory_documents"),
    Refers("target_document_id", "regulatory_documents")}, {}, {}) }

ObligationsModels1 == {
  Table("obligations", {Refers("organization_id", "organizations"), Refers("document_id",
    "regulatory_documents"), Refers("clause_id", "clauses"), Refers("reviewer_id",
    "users")}, {"risklevel", "obligationstatus"}, {}),
  Table("obligation_citations", {Owns("obligation_id", "obligations"), Refers("clause_id",
    "clauses")}, {}, {}) }

ObligationsModels2 == {
  Table("validation_results", {Owns("obligation_id", "obligations")}, {}, {}),
  Table("review_tasks", {Refers("organization_id", "organizations"), Refers("obligation_id",
    "obligations"), Refers("assigned_to", "users")}, {}, {}),
  Table("review_decisions", {Refers("review_task_id", "review_tasks"), Refers("reviewer_id",
    "users")}, {"reviewaction"}, {}),
  Table("regulatory_changes", {Refers("old_document_id", "regulatory_documents"),
    Refers("new_document_id", "regulatory_documents"), Refers("old_clause_id", "clauses"),
    Refers("new_clause_id", "clauses"), Refers("old_obligation_id", "obligations"),
    Refers("new_obligation_id", "obligations"), Refers("diff_run_id", "diff_runs")},
    {"changetype", "materialitylevel"}, {}) }

ObligationsModels3 == {
  Table("diff_runs", {Refers("old_document_id", "regulatory_documents"),
    Refers("new_document_id", "regulatory_documents")}, {"diffrunstatus"}, {}),
  Table("impact_assessments", {Refers("change_id", "regulatory_changes"),
    Refers("organization_id", "organizations")}, {}, {}) }

ComplianceModels1 == {
  Table("controls", {Refers("organization_id", "organizations"), Refers("owner_id",
    "users")}, {}, {}),
  Table("processes", {Refers("organization_id", "organizations"), Refers("owner_id",
    "users")}, {}, {}),
  Table("evidence_requirements", {Refers("obligation_id", "obligations"),
    Refers("organization_id", "organizations")}, {}, {}),
  Table("evidence_artifacts", {Refers("organization_id", "organizations"),
    Refers("evidence_requirement_id", "evidence_requirements"), Refers("obligation_id",
    "obligations"), Refers("owner_id", "users"), Refers("reviewer_id", "users")},
    {"evidencestatus"}, {}) }

ComplianceModels2 == {
  Table("evidence_audit_entries", {Refers("evidence_artifact_id", "evidence_artifacts"),
    Refers("actor_id", "users")}, {}, {}),
  Table("obligation_control_mappings", {Refers("obligation_id", "obligations"),
    Refers("control_id", "controls"), Refers("organization_id", "organizations")}, {}, {}),
  Table("obligation_evidence_mappings", {Refers("obligation_id", "obligations"),
    Refers("evidence_artifact_id", "evidence_artifacts"), Refers("organization_id",
    "organizations")}, {}, {}),
  Table("compliance_tasks", {Refers("organization_id", "organizations"),
    Refers("obligation_id", "obligations"), Refers("assigned_to", "users")}, {"taskstatus"},
    {}) }

ComplianceModels3 == {
  Table("compliance_calendar_events", {Refers("organization_id", "organizations"),
    Refers("obligation_id", "obligations"), Refers("owner_id", "users")}, {}, {}),
  Table("risk_scores", {Refers("obligation_id", "obligations"), Refers("organization_id",
    "organizations")}, {}, {}) }

AgentsModels1 == {
  Table("extraction_runs", {Refers("organization_id", "organizations"),
    Refers("document_id", "regulatory_documents")}, {"workflowstatus"}, {}),
  Table("agent_runs", {Owns("extraction_run_id", "extraction_runs")}, {"agentstatus"}, {}),
  Table("agent_steps", {Owns("agent_run_id", "agent_runs")}, {}, {}) }

AgentsModels2 == {
  Table("model_invocations", {Refers("agent_run_id", "agent_runs")}, {}, {}),
  Table("prompt_versions", {}, {}, {{"name", "version"}}),
  Table("workflow_events", {Owns("extraction_run_id", "extraction_runs")}, {}, {}) }

GraphModels == {
  Table("graph_nodes", {Refers("organization_id", "organizations")}, {}, {{"node_type",
    "entity_id"}}),
  Table("graph_edges", {Owns("source_node_id", "graph_nodes"), Owns("target_node_id",
    "graph_nodes")}, {}, {}),
  Table("clause_embeddings", {Owns("clause_id", "clauses"), Refers("document_id",
    "regulatory_documents")}, {}, {}) }

EvaluationModels == {
  Table("evaluation_datasets", {}, {}, {}),
  Table("evaluation_examples", {Owns("dataset_id", "evaluation_datasets"),
    Refers("source_document_id", "regulatory_documents"), Refers("source_clause_id",
    "clauses"), Refers("annotator_id", "users")}, {}, {}),
  Table("evaluation_runs", {Refers("dataset_id", "evaluation_datasets")}, {}, {}),
  Table("evaluation_results", {Owns("evaluation_run_id", "evaluation_runs"),
    Refers("example_id", "evaluation_examples")}, {}, {}) }

Models ==
  UNION {AuthModels, DocumentsModels1, DocumentsModels2, ObligationsModels1,
         ObligationsModels2, ObligationsModels3, ComplianceModels1,
         ComplianceModels2, ComplianceModels3, AgentsModels1, AgentsModels2,
         GraphModels, EvaluationModels}
=============================================================================
