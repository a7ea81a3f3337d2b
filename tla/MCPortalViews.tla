--------------------------- MODULE MCPortalViews ---------------------------
(***************************************************************************)
(* Every view alone, and together the views of one session that share a    *)
(* key or refresh each other's.                                            *)
(***************************************************************************)
EXTENDS PortalViews

Alone == {{q} : q \in Names}
Sharing == {
  {"ClusterMetrics", "NodeMetrics"}, {"CatalogTable", "CommandPalette"},
  {"ScorecardsTable_RulesModal", "ServiceQualityTab_RulesModal"},
  {"CostBreakdownTable", "CostOverview"}, {"RoutesTable", "SettingsPrewarmer_routes"},
  {"UsersTable", "SettingsPrewarmer_users"}, {"UsersTable", "GroupsTable_users"},
  {"GroupsTable_users", "SettingsPrewarmer_users"}, {"GroupsTable", "GroupsTable_users"},
  {"GroupsTable", "SettingsPrewarmer_groups"}}
MCPages == Alone \cup Sharing

\* Views that throw when they find an error body as their data.  GroupsTable and
\* GroupsTable_users turn one into [] themselves, and still meet it in the entries
\* that SettingsPrewarmer and UsersTable fill.
MCFragile == {
  "HeroZone", "ArgoCDStatus", "ArgoCDAppsTable", "EventTimeline", "MyAppsView", "ToolsGrid",
  "CommandPalette", "TracesTable", "ScorecardsTable_RulesModal", "VulnerabilitiesTable",
  "ExpandedVulnPanel", "RuntimeEventsFeed", "ConfigAuditTable", "RbacAuditTable",
  "InfraAuditList", "FrameworksGrid", "KisaChecklist", "CatalogTable",
  "ServiceQualityTab_RulesModal", "PlatformArchitecture", "ServiceMapView",
  "EffectivePermissions", "UsersTable", "GroupsTable", "GroupsTable_users"}

\* Views that show a failure as an empty or blank answer, keep quiet about it, or
\* share an entry with one that coerces an error to [] (UsersTable).
Misleading == {
  "ClusterMetrics", "NodeMetrics", "MetricChart", "AlertsWidget", "ActivityFeed_alerts",
  "ActivityFeed_events", "ToolsGrid_health", "DependencyHealthIndicator", "TemplateList",
  "ResourceChart", "RbacTable", "AuditTable", "ScorecardsTable_RulesModal",
  "ExpandedVulnPanel", "ExpandedConfigPanel", "ExpandedRbacPanel", "ExpandedInfraPanel",
  "ExpandedFrameworkPanel", "ServiceQualityTab", "RoutesTable", "UsersTable", "GroupsTable",
  "GroupsTable_attributes", "GroupsTable_users", "SettingsPrewarmer_users",
  "SettingsPrewarmer_groups", "SettingsPrewarmer_routes", "PoliciesTable", "NamespaceForm",
  "CertsTable"}
MCFrank == Names \ Misleading
=============================================================================
