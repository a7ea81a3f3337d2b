---------------------------- MODULE PortalRoutes ----------------------------
(***************************************************************************)
(* The portal's route handlers (portal/src/app/api), as programs of Steps. *)
(***************************************************************************)
EXTENDS Sequences, Steps

(* app/api/alerts/route.ts                                                 *)
alerts_GET == Route(<<Session, Check, Need("getAlerts")>>)

(* app/api/architecture/route.ts                                           *)
architecture_GET == Route(<<
    Session, Hit("architecture:topology"), Need("getArgoApps"), Put("architecture:topology")>>)

(* app/api/argocd/route.ts                                                 *)
argocd_GET == Route(<<Session, Need("getArgoApps"), Scope, Filter>>)

(* app/api/catalog/[name]/route.ts                                         *)
catalog_name_GET == Route(<<
    Session, Need("getArgoApp"), Each("getAlerts"), Found, Scope, Gate>>)

(* app/api/catalog/route.ts                                                *)
catalog_GET == Route(<<Session, Scope, Need("getArgoApps"), Filter>>)

(* app/api/cluster/route.ts                                                *)
clusterReads == <<
    Role("member"), Need("getCluster"), Check, Hit("cluster:{id}:infra"), Mute("nodes"),
    Mute("node-metrics"), Mute("control-plane-pods"), Mute("pods"), Mute("namespaces")>>
cluster_GET == Route(clusterReads \o <<Put("cluster:{id}:infra")>>)

(* app/api/compliance/config-audit/route.ts                                *)
config_audit_GET == Route(<<Role("admin"), Need("getConfigAuditList")>>)
config_audit_detail_GET == Route(<<Role("admin"), Need("getConfigAuditDetail"), Found>>)

(* app/api/compliance/frameworks/route.ts                                  *)
frameworks_GET == Route(<<Role("admin"), Need("getComplianceFrameworks")>>)
frameworks_detail_GET == Route(<<Role("admin"), Need("getComplianceFrameworkDetail"), Found>>)

(* app/api/compliance/infra-audit/route.ts                                 *)
infra_audit_GET == Route(<<Role("admin"), Need("getInfraAuditList")>>)
infra_audit_detail_GET == Route(<<Role("admin"), Need("getInfraAuditDetail"), Found>>)

(* app/api/compliance/kisa/route.ts                                        *)
kisa_GET == Route(<<Role("admin"), Need("getKisaControls")>>)

(* app/api/compliance/rbac-audit/route.ts                                  *)
rbac_audit_GET == Route(<<Role("admin"), Need("getRbacAuditList")>>)
rbac_audit_detail_GET == Route(<<Role("admin"), Need("getRbacAuditDetail"), Found>>)

(* app/api/compliance/summary/route.ts                                     *)
compliance_summary_GET == Route(<<Role("admin"), Need("getComplianceSummary")>>)

(* app/api/cost/[svc]/route.ts                                             *)
cost_svc_GET == Route(<<
    Role("member"), Check, Need("getArgoApp"), Check, Scope, Gate, Check,
    Need("getCostByService")>>)

(* app/api/cost/route.ts                                                   *)
cost_cluster_GET == Route(<<Role("member"), Check, Scope, Check, Need("getCostCluster")>>)
cost_namespace_GET == Route(<<Role("member"), Check, Scope, Check, Need("getCostNamespace")>>)
cost_service_GET == Route(<<Role("member"), Check, Scope, Check, Need("getCostService")>>)

(* app/api/cost/trend/route.ts                                             *)
cost_trend_GET == Route(<<Role("member"), Check, Scope, Check, Need("getCostTrend")>>)

(* app/api/domain/clusters/route.ts                                        *)
resolveDomainForCluster == Lib("throw", <<
    Hit("cluster:{id}:domain"), Try("cluster-probe"), Put("cluster:{id}:domain")>>)
domain_clusters_GET == Route(<<
    Session, Need("listClusters"), Check, Need("resolveDomainForCluster")>>)

(* app/api/dr/restore-preflight/route.ts                                   *)
restore_preflight_POST == Route(<<
    Role("writer"), Check, Scope, Gate, Need("getNamespacesForScope"), Check>>)

(* app/api/events/route.ts                                                 *)
events_GET == Route(<<
    Session, Check, Scope, Hit("events:timeline"), Need("getArgoApps"), Need("getAlerts"),
    Filter, Put("events:timeline")>>)

(* app/api/governance/audit/route.ts                                       *)
governance_audit_GET == Route(<<Need("getOperationalEventsResponse")>>)

(* app/api/governance/events/route.ts                                      *)
governance_events_GET == Route(<<Need("getOperationalEventsResponse")>>)

(* app/api/governance/distribution/route.ts                                *)
distributionReads == <<
    Session, Hit("governance:distribution:v2"), Need("getAllNodesForDistribution"),
    Need("getAllPodsForDistribution"), Drop("getNodeMetrics")>>
distribution_GET == Route(distributionReads \o <<Put("governance:distribution:v2")>>)

(* app/api/governance/dora/route.ts                                        *)
getMttrMinutes == Lib("empty", <<Need("prometheus-alerts")>>)
doraReads == <<
    Session, Scope, Hit("governance:dora:v2"), Need("getArgoApps"), Filter,
    Each("getCommitTimestamp"), Each("getMttrMinutes")>>
dora_GET == Lib("empty", doraReads \o <<PutIfSome("governance:dora:v2")>>)

(* app/api/governance/rbac/route.ts                                        *)
rbacReads == <<
    Role("admin"), Hit("governance:rbac:v2"), Need("getRbacBindings"), Need("getClusterRoles"),
    Need("getRoles")>>
governance_rbac_GET == Route(rbacReads \o <<Put("governance:rbac:v2")>>)

(* app/api/governance/resources/route.ts                                   *)
resourcesReads == <<
    Session, Scope, Hit("governance:resources:v3"), Need("getNamespaces"), Need("queryVector"),
    Need("getClusterMetrics"), Need("getAllPodsMinimal")>>
resources_GET == Route(resourcesReads \o <<Hush, Filter, Put("governance:resources:v3")>>)

(* app/api/governance/scorecard/route.ts                                   *)
scorecard_gov_GET == Route(<<
    Session, Scope, Hit("governance:scorecard"), Need("getArgoAppsOrThrow"), Need("getAlerts"),
    Filter, Put("governance:scorecard")>>)

(* app/api/health/dependencies/route.ts                                    *)
health_dependencies_GET == Route(<<Role("admin"), Need("getDependencyHealthSnapshot")>>)

(* app/api/health/ready/route.ts                                           *)
health_ready_GET == Route(<<Check, Need("valkey-ping")>>)

(* app/api/health/status/route.ts                                          *)
health_status_GET == Route(<<Role("admin"), Try("status-endpoint"), Try("valkey-ping")>>)

(* app/api/health/summary/route.ts                                         *)
health_summary_GET == Route(<<Role("any"), Need("getDependencyHealthSummary")>>)

(* app/api/hero/route.ts                                                   *)
hero_GET == Route(<<Session, Need("getHeroResponse")>>)

(* app/api/k8s/events/route.ts                                             *)
k8s_events_GET == Route(<<
    Session, Check, Scope, Gate, Hit("k8s:events"), Need("getResourceEvents"),
    Put("k8s:events")>>)

(* app/api/k8s/pods/route.ts                                               *)
k8s_pods_GET == Route(<<
    Session, Check, Scope, Gate, Hit("k8s:pods"), Need("getPodsList"), Put("k8s:pods")>>)

(* app/api/k8s/resource/route.ts                                           *)
k8s_resource_GET == Route(<<
    Session, Check, Scope, Gate, Hit("k8s:resource"), Need("getPodDetail"),
    Put("k8s:resource")>>)

(* app/api/metrics/range/route.ts                                          *)
metrics_range_GET == Route(<<Role("member"), Check, Need("queryRange")>>)

(* app/api/metrics/route.ts                                                *)
metrics_GET == Route(<<Role("member"), Need("getClusterMetrics"), Need("getNodeMetrics")>>)

(* app/api/my-apps/route.ts                                                *)
my_apps_GET == Route(<<
    Session, Scope, Hit("my-apps"), Nothing("my-apps"), Mute("getArgoApps"), Mute("getAlerts"),
    Filter, Put("my-apps")>>)

(* app/api/namespaces/route.ts                                             *)
namespaces_GET == Route(<<Session, Scope, Need("getNamespacesForScope"), Filter>>)

(* app/api/nodes/[name]/route.ts                                           *)
nodes_name_GET == Route(<<
    Role("member"), Check, Need("getNodeDetail"), Found, Try("getNodeMetrics"),
    Try("getNodePodCount")>>)

(* app/api/pods/[namespace]/[pod]/logs/route.ts                            *)
pod_logs_GET == Route(<<
    Role("member"), Check, Scope, Gate, Check, Hit("pods:logs"), Need("pod-log"),
    Put("pods:logs")>>)

(* app/api/pods/route.ts                                                   *)
fetchPodsByNamespace == Lib("throw", <<
    Hit("pods:list"), Need("pods-of-namespace"), Put("pods:list")>>)
pods_GET == Route(<<Session, Check, Scope, Gate, Need("fetchPodsByNamespace")>>)

(* app/api/scorecards/[svc]/route.ts                                       *)
scorecards_svc_GET == Route(<<
    Role("member"), Need("loadRules"), Need("getArgoApp"), Need("evaluateService"), Found,
    Scope, Gate>>)

(* app/api/scorecards/route.ts                                             *)
scorecards_GET == Route(<<
    Role("member"), Need("loadRules"), Need("getArgoApps"), Need("evaluateAll"), Scope,
    Filter>>)

(* app/api/scorecards/rules/route.ts                                       *)
scorecards_rules_GET == Route(<<Role("member"), Need("loadRules"), Need("getRulesRaw")>>)

(* app/api/secrets/route.ts                                                *)
secrets_GET == Route(<<Role("admin"), Need("listSecrets")>>)

(* app/api/security/runtime-events/route.ts                                *)
runtime_events_GET == Route(<<Role("admin"), Check, Need("getRuntimeEvents")>>)

(* app/api/security/summary/route.ts                                       *)
security_summary_GET == Route(<<Role("admin"), Need("getSecuritySummary")>>)

(* app/api/security/trivy-db/route.ts                                      *)
trivy_db_GET == Route(<<Role("admin"), Need("getTrivyDbStatus")>>)

(* app/api/security/vulnerabilities/route.ts                               *)
vulnerabilities_GET == Route(<<
    Role("admin"), Need("getWorkloadVulnerabilitiesWithMeta"), Check>>)
vulnerabilities_image_GET == Route(<<Role("admin"), Bare("getImageVulnReport"), Found>>)

(* app/api/service-graph/[svc]/route.ts                                    *)
service_graph_svc_GET == Route(<<Role("member"), Check, Need("getServiceDependencies")>>)

(* app/api/service-graph/route.ts                                          *)
service_graph_GET == Route(<<Role("member"), Check, Need("getServiceGraph")>>)

(* app/api/settings/certs/route.ts                                         *)
certs_GET == Route(<<Role("admin"), Need("getCertificates")>>)

(* app/api/settings/clusters/route.ts                                      *)
clusters_GET == Route(<<Role("admin"), Need("listClusters")>>)
clusters_POST == Route(<<
    Role("admin"), Check, Need("registerCluster"), Fire("cluster.changed")>>)
clusters_DELETE == Route(<<
    Role("admin"), Check, Need("removeCluster"), Fire("cluster.changed")>>)

(* app/api/settings/effective-permissions/route.ts                         *)
effective_permissions_GET == Route(<<Session, Need("getNamespaces"), Scope, Filter>>)

(* app/api/settings/groups/route.ts                                        *)
groups_GET == Route(<<
    Role("admin"), Hit("api:groups-enriched"), Need("getGroupsDetailed"), Need("getUsers"),
    PutWhole("api:groups-enriched")>>)
groups_members_PATCH == Route(<<
    Role("admin"), Check, Need("addUserToGroup"), Fire("iam.changed")>>)
groups_removal_PATCH == Route(<<
    Role("admin"), Check, Need("removeUserFromGroup"), Fire("iam.changed")>>)
groups_attributes_PATCH == Route(<<
    Role("admin"), Check, Need("updateGroupAttributes"), Fire("iam.changed")>>)

(* app/api/settings/oss-updates/route.ts                                   *)
oss_updates_GET == Route(<<Role("admin"), Need("getOssUpdateStatus")>>)

(* app/api/settings/policies/route.ts                                      *)
policies_GET == Route(<<Role("admin"), Need("getKyvernoPolicies")>>)

(* app/api/settings/role-mappings/preflight/route.ts                       *)
role_mappings_preflight_GET == Route(<<Role("admin"), Need("getNamespaces")>>)

(* app/api/settings/routes/route.ts                                        *)
routes_GET == Route(<<
    Role("admin"), Hit("api:routes-list"), Need("getRoutes"), Put("api:routes-list")>>)
routes_PATCH == Route(<<
    Role("admin"), Check, Need("toggleRoute"), Fire("apisix.route.changed")>>)

(* app/api/status/route.ts                                                 *)
status_GET == Route(<<Session, Need("getPlatformStatus")>>)

(* app/api/storage/pvc-expansion-preflight/route.ts                        *)
pvc_preflight_POST == Route(<<
    Role("writer"), Check, Scope, Gate, Need("getPersistentVolumeClaim"), Found,
    Try("getStorageClass"), Try("getResourceQuotas")>>)

(* app/api/tools/health/route.ts                                           *)
tools_health_GET == Route(<<
    Session, Hit("tools:health"), Try("tool-endpoint"), Put("tools:health")>>)

(* app/api/tools/route.ts                                                  *)
tools_GET == Route(<<Session, Drop("getGroupsDetailed")>>)

(* app/api/traces/route.ts                                                 *)
traces_GET == Lib("empty", <<
    Session, Check, Hit("traces"), Need("tempo-search"), Put("traces")>>)

(* app/api/settings/users/route.ts                                         *)
users_GET == Route(<<Role("admin"), Need("getUsers")>>)

(* app/api/settings/users/[pk]/route.ts                                    *)
users_pk_PATCH == Route(<<Role("admin"), Check, Need("setUserActive"), Fire("iam.changed")>>)

(* app/api/alerts/silence/route.ts                                         *)
silence_POST == Route(<<
    Role("writer"), Check, Scope, Check, Claim("proceed"), Open, Attempt("createSilence"),
    Fire("alert.silence.changed"), Fulfill, Done>>)

silence_DELETE == Route(<<
    Role("writer"), Check, Need("getSilenceOrThrow"), Check, Open, Attempt("deleteSilence"),
    Fire("alert.silence.changed"), Done>>)

(* app/api/argocd/sync/route.ts                                            *)
argocd_sync_POST == Route(<<
    Role("writer"), Check, Need("assertAppAccessible"), Open, Attempt("syncArgoApp"),
    Fire("argocd.app.changed"), Verify("getArgoAppFresh"), Done>>)

(* app/api/catalog/[name]/sync/route.ts                                    *)
catalog_sync_POST == Route(<<
    Role("writer"), Check, Need("assertAppAccessible"), Open, Attempt("syncArgoApp"),
    Fire("argocd.app.changed"), Verify("getArgoAppFresh"), Done>>)

(* app/api/catalog/[name]/rollback/route.ts                                *)
rollback_POST == Route(<<
    Role("admin"), Check, Need("assertAppAccessible"), Open, Attempt("rollbackArgoApp"),
    Fire("argocd.app.changed"), Verify("getArgoAppFresh"), Done>>)

(* app/api/settings/certs/renew/route.ts                                   *)
certs_renew_POST == Route(<<
    Role("admin"), Check, Need("getCertificate"), Found, Claim("conflict"), Open,
    Attempt("renewCertificate"), Fire("certificate.renewed"), Verify("getCertificate"), Done,
    Fulfill>>)

(* app/api/settings/users/route.ts                                         *)
userChecks == <<Role("admin"), Check, Need("getGroups"), Check>>
createUserAndPurge == Lib("throw", <<Need("createUser"), Fire("iam.changed")>>)
users_POST == Route(userChecks \o <<
    Claim("exact"), Open, Attempt("createUserAndPurge"), Partly("addUserToGroup"), Done,
    Fulfill>>)

(* app/api/namespaces/route.ts                                             *)
namespaces_POST == Route(<<
    Role("writer"), Check, Open, Attempt("requestTenantNamespace"), Fire("namespace.changed"),
    Done>>)

(* app/api/settings/oss-updates/request/route.ts                           *)
oss_request_POST == Route(<<
    Role("admin"), Check, Need("getUpstreamReleases"), Check, Claim("taken"), Open, Done>>)

(* app/api/events/ingest/route.ts                                          *)
ingestAuth == <<Check>>
ingestEnvelope == <<Check>>
ingest_POST == Route(ingestAuth \o ingestEnvelope \o <<Claim("taken"), Write("live-stream")>>)

(* app/api/nodes/[name]/tuning/apply/route.ts                              *)
tuning_apply_POST == Route(<<
    Role("admin"), Check, Need("getNodeDetail"), Found, Check, Check, Open,
    Attempt("runHostJob"), Fire("node.tuning.changed"), Done>>)

RoutePrograms ==
  [ alerts_GET |-> alerts_GET, architecture_GET |-> architecture_GET,
    argocd_GET |-> argocd_GET, catalog_name_GET |-> catalog_name_GET,
    catalog_GET |-> catalog_GET, cluster_GET |-> cluster_GET,
    config_audit_GET |-> config_audit_GET, config_audit_detail_GET |-> config_audit_detail_GET,
    frameworks_GET |-> frameworks_GET, frameworks_detail_GET |-> frameworks_detail_GET,
    infra_audit_GET |-> infra_audit_GET, infra_audit_detail_GET |-> infra_audit_detail_GET,
    kisa_GET |-> kisa_GET, rbac_audit_GET |-> rbac_audit_GET,
    rbac_audit_detail_GET |-> rbac_audit_detail_GET,
    compliance_summary_GET |-> compliance_summary_GET, cost_svc_GET |-> cost_svc_GET,
    cost_cluster_GET |-> cost_cluster_GET, cost_namespace_GET |-> cost_namespace_GET,
    cost_service_GET |-> cost_service_GET, cost_trend_GET |-> cost_trend_GET,
    domain_clusters_GET |-> domain_clusters_GET,
    restore_preflight_POST |-> restore_preflight_POST, events_GET |-> events_GET,
    governance_audit_GET |-> governance_audit_GET,
    governance_events_GET |-> governance_events_GET, distribution_GET |-> distribution_GET,
    dora_GET |-> dora_GET, governance_rbac_GET |-> governance_rbac_GET,
    resources_GET |-> resources_GET, scorecard_gov_GET |-> scorecard_gov_GET,
    health_dependencies_GET |-> health_dependencies_GET, health_ready_GET |-> health_ready_GET,
    health_status_GET |-> health_status_GET, health_summary_GET |-> health_summary_GET,
    hero_GET |-> hero_GET, k8s_events_GET |-> k8s_events_GET, k8s_pods_GET |-> k8s_pods_GET,
    k8s_resource_GET |-> k8s_resource_GET, metrics_range_GET |-> metrics_range_GET,
    metrics_GET |-> metrics_GET, my_apps_GET |-> my_apps_GET,
    namespaces_GET |-> namespaces_GET, nodes_name_GET |-> nodes_name_GET,
    pod_logs_GET |-> pod_logs_GET, pods_GET |-> pods_GET,
    scorecards_svc_GET |-> scorecards_svc_GET, scorecards_GET |-> scorecards_GET,
    scorecards_rules_GET |-> scorecards_rules_GET, secrets_GET |-> secrets_GET,
    runtime_events_GET |-> runtime_events_GET, security_summary_GET |-> security_summary_GET,
    trivy_db_GET |-> trivy_db_GET, vulnerabilities_GET |-> vulnerabilities_GET,
    vulnerabilities_image_GET |-> vulnerabilities_image_GET,
    service_graph_svc_GET |-> service_graph_svc_GET, service_graph_GET |-> service_graph_GET,
    certs_GET |-> certs_GET, clusters_GET |-> clusters_GET, clusters_POST |-> clusters_POST,
    clusters_DELETE |-> clusters_DELETE,
    effective_permissions_GET |-> effective_permissions_GET, groups_GET |-> groups_GET,
    groups_members_PATCH |-> groups_members_PATCH,
    groups_removal_PATCH |-> groups_removal_PATCH,
    groups_attributes_PATCH |-> groups_attributes_PATCH, oss_updates_GET |-> oss_updates_GET,
    policies_GET |-> policies_GET, role_mappings_preflight_GET |-> role_mappings_preflight_GET,
    routes_GET |-> routes_GET, routes_PATCH |-> routes_PATCH, status_GET |-> status_GET,
    pvc_preflight_POST |-> pvc_preflight_POST, tools_health_GET |-> tools_health_GET,
    tools_GET |-> tools_GET, traces_GET |-> traces_GET, users_GET |-> users_GET,
    users_pk_PATCH |-> users_pk_PATCH, silence_POST |-> silence_POST,
    silence_DELETE |-> silence_DELETE, argocd_sync_POST |-> argocd_sync_POST,
    catalog_sync_POST |-> catalog_sync_POST, rollback_POST |-> rollback_POST,
    certs_renew_POST |-> certs_renew_POST, users_POST |-> users_POST,
    namespaces_POST |-> namespaces_POST, oss_request_POST |-> oss_request_POST,
    ingest_POST |-> ingest_POST, tuning_apply_POST |-> tuning_apply_POST ]
RouteHelpers ==
  [ resolveDomainForCluster |-> resolveDomainForCluster, getMttrMinutes |-> getMttrMinutes,
    fetchPodsByNamespace |-> fetchPodsByNamespace, createUserAndPurge |-> createUserAndPurge ]
=============================================================================
