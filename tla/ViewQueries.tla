---------------------------- MODULE ViewQueries ----------------------------
(***************************************************************************)
(* The queries of the portal's views (portal/src/components), one row for  *)
(* each useQuery: its key, what its queryFn does with an answer that is    *)
(* not ok, and what the view shows of a failure.                           *)
(*                                                                         *)
(*   fetch  "checked": a non-ok answer throws; "raw": its JSON becomes the *)
(*          data; "coerced": what is not an array becomes []               *)
(*   body   what the view makes of an error body it finds as data: an      *)
(*          error state, an empty list, blank values, or a TypeError       *)
(*   lone   what it shows of a failure without data                        *)
(*   over   what it shows of a failed refresh: the data marked "stale", an *)
(*          error in place of the data, nothing ("silent"), or no view     *)
(*          at all ("blank")                                               *)
(*   part   the part of the key after its name: "chosen" for a selection   *)
(*   writes the keys whose mutation the view offers, and what onSuccess    *)
(*          needs ("checked": an ok answer) and does ("patch":             *)
(*          setQueryData instead of invalidateQueries)                     *)
(***************************************************************************)
Query(key, fetch, body, lone, over) ==
  [key |-> key, fetch |-> fetch, body |-> body, lone |-> lone, over |-> over,
   part |-> "", writes |-> {}, how |-> "none"]
Checked(key, lone, over) == Query(key, "checked", "failure", lone, over)
Raw(key, body, lone, over) == Query(key, "raw", body, lone, over)
Coerced(key, body, lone, over) == Query(key, "coerced", body, lone, over)

PerSelection(q) == [q EXCEPT !.part = "chosen"]
Pinned(q, s) == [q EXCEPT !.part = s]
Writing(q, keys, how) == [q EXCEPT !.writes = keys, !.how = how]
Patching(q, key) == Writing(q, {key}, "patch")

(* Dashboard.                                                              *)
HeroZone == Writing(Raw("hero", "crash", "failure", "stale"), {"hero"}, "checked")
ClusterMetrics == Raw("metrics", "blank", "failure", "failure")
NodeMetrics == Raw("metrics", "empty", "failure", "failure")
MetricChart == PerSelection(Raw("metrics-range", "empty", "failure", "stale"))
ArgoCDStatus == Raw("argocd", "crash", "failure", "stale")
ArgoCDAppsTable == Writing(Raw("argocd", "crash", "failure", "failure"), {"argocd"}, "unchecked")
AlertsWidget == Coerced("alerts", "crash", "failure", "stale")
ActivityFeed_alerts == Writing(Coerced("alerts", "crash", "failure", "stale"), {"alerts"}, "unchecked")
ActivityFeed_events == Coerced("events", "crash", "failure", "stale")
EventTimeline == Raw("events", "crash", "failure", "stale")
MyAppsView == Raw("my-apps", "crash", "failure", "failure")
ToolsGrid == Raw("tools", "crash", "failure", "failure")
ToolsGrid_health == Raw("tools-health", "blank", "blank", "silent")
StatusView == Checked("platform-status", "failure", "failure")
DependencyHealthIndicator == Checked("health-summary", "blank", "blank")
CommandPalette == Raw("catalog", "crash", "failure", "stale")
TemplateList == Raw("templates", "empty", "failure", "failure")

(* Governance.                                                             *)
DistributionView == Checked("governance-distribution", "failure", "failure")
ContainerVulnSummary == PerSelection(Checked("governance-container-vuln", "failure", "stale"))
ResourceDetailDrawer_pods == PerSelection(Checked("governance-pods", "failure", "stale"))
ResourceDetailDrawer_detail == PerSelection(Checked("governance-pod-detail", "failure", "stale"))
ResourceDetailDrawer_events == PerSelection(Checked("governance-pod-events", "failure", "stale"))
ResourceChart == Raw("governance-resources", "empty", "failure", "failure")
RbacTable == Raw("governance-rbac", "empty", "failure", "failure")
AuditTable == Raw("governance-events", "empty", "failure", "failure")
DoraMetricsWidget == Checked("governance-dora", "failure", "stale")
ScorecardTable == Checked("governance-scorecard", "failure", "failure")
TracesTable == PerSelection(Raw("governance-traces", "crash", "failure", "failure"))
ScorecardsTable == PerSelection(Raw("scorecards", "failure", "failure", "failure"))
ScorecardsTable_RulesModal == Raw("scorecard-rules", "crash", "empty", "silent")

(* Security.                                                               *)
VulnerabilitiesTable == PerSelection(Raw("security-vulnerabilities", "crash", "failure", "failure"))
ExpandedVulnPanel == PerSelection(Raw("security-vuln-detail", "crash", "empty", "silent"))
RuntimeEventsFeed == PerSelection(Raw("security-runtime-events", "crash", "failure", "stale"))
TrivyDbStatusCard == Checked("security-trivy-db", "failure", "failure")
ConfigAuditTable == PerSelection(Raw("compliance-config-audit", "crash", "failure", "failure"))
ExpandedConfigPanel == PerSelection(Raw("compliance-config-audit-detail", "empty", "empty", "silent"))
RbacAuditTable == PerSelection(Raw("compliance-rbac-audit", "crash", "failure", "failure"))
ExpandedRbacPanel == PerSelection(Raw("compliance-rbac-detail", "empty", "empty", "silent"))
InfraAuditList == Raw("compliance-infra-audit", "crash", "failure", "failure")
ExpandedInfraPanel == PerSelection(Raw("compliance-infra-detail", "empty", "empty", "silent"))
FrameworksGrid == Raw("compliance-frameworks", "crash", "failure", "failure")
ExpandedFrameworkPanel == PerSelection(Raw("compliance-framework-detail", "empty", "empty", "silent"))
KisaChecklist == Pinned(Raw("compliance", "crash", "failure", "failure"), "kisa")

(* Catalog.                                                                *)
CatalogTable == Raw("catalog", "crash", "failure", "stale")
ServiceDetail == PerSelection(Checked("catalog", "failure", "failure"))
ServiceQualityTab == PerSelection(Raw("scorecard-detail", "failure", "empty", "silent"))
ServiceQualityTab_RulesModal == Raw("scorecard-rules", "crash", "failure", "stale")
ServiceDependenciesTab == PerSelection(Checked("service-dependencies", "failure", "stale"))
PodLogsViewer_pods == PerSelection(Checked("pods", "failure", "stale"))
PodLogsViewer_logs == PerSelection(Checked("pods-logs", "failure", "stale"))
ServiceCostTab_detail == PerSelection(Checked("cost-service", "failure", "stale"))
ServiceCostTab_trend == PerSelection(Checked("cost-trend", "failure", "stale"))
CostBreakdownTable == PerSelection(Checked("cost", "failure", "failure"))
CostOverview == Pinned(Checked("cost", "failure", "failure"), "a")
CostOverview_trend == Checked("cost-trend", "failure", "failure")
PlatformArchitecture == Raw("architecture", "crash", "failure", "stale")
ClusterInfraView == Raw("cluster-infra", "failure", "failure", "stale")
ServiceMapView == PerSelection(Raw("service-graph", "crash", "failure", "failure"))

(* Settings.                                                               *)
RoutesTable == Writing(Raw("apisix-routes", "empty", "failure", "failure"), {"apisix-routes"}, "unchecked")
UsersTable == Writing(Raw("settings-users", "crash", "failure", "failure"), {"settings-users"}, "unchecked")
GroupsTable == Writing(Coerced("settings-groups", "crash", "failure", "failure"), {"settings-groups", "settings-users"}, "unchecked")
GroupsTable_attributes == Patching(GroupsTable, "settings-groups")
GroupsTable_users == Coerced("settings-users", "crash", "empty", "silent")
SettingsPrewarmer_users == Raw("settings-users", "blank", "blank", "silent")
SettingsPrewarmer_groups == Raw("settings-groups", "blank", "blank", "silent")
SettingsPrewarmer_routes == Raw("apisix-routes", "blank", "blank", "silent")
PoliciesTable == Raw("settings-policies", "empty", "failure", "failure")
EffectivePermissions == Raw("settings-effective-permissions", "crash", "failure", "failure")
NamespaceForm == Coerced("namespaces", "crash", "failure", "failure")
CertsTable == Raw("settings-certs", "empty", "failure", "failure")
SecretsTable == Checked("secrets", "failure", "failure")
OssUpdatesTable == Checked("settings-oss-updates", "failure", "failure")

Queries == [
  HeroZone |-> HeroZone, ClusterMetrics |-> ClusterMetrics, NodeMetrics |-> NodeMetrics,
  MetricChart |-> MetricChart, ArgoCDStatus |-> ArgoCDStatus, ArgoCDAppsTable |-> ArgoCDAppsTable,
  AlertsWidget |-> AlertsWidget, ActivityFeed_alerts |-> ActivityFeed_alerts,
  ActivityFeed_events |-> ActivityFeed_events, EventTimeline |-> EventTimeline,
  MyAppsView |-> MyAppsView, ToolsGrid |-> ToolsGrid, ToolsGrid_health |-> ToolsGrid_health,
  StatusView |-> StatusView, DependencyHealthIndicator |-> DependencyHealthIndicator,
  CommandPalette |-> CommandPalette, TemplateList |-> TemplateList,
  DistributionView |-> DistributionView, ContainerVulnSummary |-> ContainerVulnSummary,
  ResourceDetailDrawer_pods |-> ResourceDetailDrawer_pods,
  ResourceDetailDrawer_detail |-> ResourceDetailDrawer_detail,
  ResourceDetailDrawer_events |-> ResourceDetailDrawer_events, ResourceChart |-> ResourceChart,
  RbacTable |-> RbacTable, AuditTable |-> AuditTable, DoraMetricsWidget |-> DoraMetricsWidget,
  ScorecardTable |-> ScorecardTable, TracesTable |-> TracesTable,
  ScorecardsTable |-> ScorecardsTable, ScorecardsTable_RulesModal |-> ScorecardsTable_RulesModal,
  VulnerabilitiesTable |-> VulnerabilitiesTable, ExpandedVulnPanel |-> ExpandedVulnPanel,
  RuntimeEventsFeed |-> RuntimeEventsFeed, TrivyDbStatusCard |-> TrivyDbStatusCard,
  ConfigAuditTable |-> ConfigAuditTable, ExpandedConfigPanel |-> ExpandedConfigPanel,
  RbacAuditTable |-> RbacAuditTable, ExpandedRbacPanel |-> ExpandedRbacPanel,
  InfraAuditList |-> InfraAuditList, ExpandedInfraPanel |-> ExpandedInfraPanel,
  FrameworksGrid |-> FrameworksGrid, ExpandedFrameworkPanel |-> ExpandedFrameworkPanel,
  KisaChecklist |-> KisaChecklist, CatalogTable |-> CatalogTable, ServiceDetail |-> ServiceDetail,
  ServiceQualityTab |-> ServiceQualityTab,
  ServiceQualityTab_RulesModal |-> ServiceQualityTab_RulesModal,
  ServiceDependenciesTab |-> ServiceDependenciesTab, PodLogsViewer_pods |-> PodLogsViewer_pods,
  PodLogsViewer_logs |-> PodLogsViewer_logs, ServiceCostTab_detail |-> ServiceCostTab_detail,
  ServiceCostTab_trend |-> ServiceCostTab_trend, CostBreakdownTable |-> CostBreakdownTable,
  CostOverview |-> CostOverview, CostOverview_trend |-> CostOverview_trend,
  PlatformArchitecture |-> PlatformArchitecture, ClusterInfraView |-> ClusterInfraView,
  ServiceMapView |-> ServiceMapView, RoutesTable |-> RoutesTable, UsersTable |-> UsersTable,
  GroupsTable |-> GroupsTable, GroupsTable_attributes |-> GroupsTable_attributes,
  GroupsTable_users |-> GroupsTable_users, SettingsPrewarmer_users |-> SettingsPrewarmer_users,
  SettingsPrewarmer_groups |-> SettingsPrewarmer_groups,
  SettingsPrewarmer_routes |-> SettingsPrewarmer_routes, PoliciesTable |-> PoliciesTable,
  EffectivePermissions |-> EffectivePermissions, NamespaceForm |-> NamespaceForm,
  CertsTable |-> CertsTable, SecretsTable |-> SecretsTable, OssUpdatesTable |-> OssUpdatesTable]
=============================================================================
