---------------------------- MODULE PortalReads ----------------------------
(***************************************************************************)
(* The portal's library reads and writes, as programs of Steps, in the     *)
(* order of their files under portal/src/.  Data is abstracted: a step     *)
(* names the upstream it asks, the cache namespace it uses, and what the   *)
(* code does with a failure and with a truncated list.  The mock data of a *)
(* development build is left out.                                          *)
(***************************************************************************)
EXTENDS Sequences, Steps

(* lib/k8s-client.ts                                                       *)
getPersistentVolumeClaim == Lib("throw", <<Need("pvc")>>)
getStorageClass == Lib("throw", <<Need("storageclass")>>)
getResourceQuotas == Lib("throw", <<Need("resourcequotas")>>)
getConfigMap == Lib("empty", <<Need("cilium-config")>>)
getCiliumVersionFromDaemonSet == Lib("empty", <<Need("cilium-daemonset")>>)
getLiveCniPlugin == Lib("throw", <<
    Hit("k8s:cni-plugin"), Need("getConfigMap"), Need("getCiliumVersionFromDaemonSet"),
    PutIfSome("k8s:cni-plugin")>>)
getLiveKubeletConfig == Lib("empty", <<
    Hit("k8s:kubelet-config"), Need("kubelet-configz"), PutIfSome("k8s:kubelet-config")>>)
getNamespaces == Lib("empty", <<
    Hit("k8s:namespaces"), Bare("namespaces"), Put("k8s:namespaces")>>)
getNamespacesForScope == Lib("throw", <<Drop("namespaces"), Filter>>)
getRbacBindings == Lib("empty", <<
    Hit("k8s:rbac"), Drop("clusterrolebindings"), Drop("rolebindings"), Put("k8s:rbac")>>)
getEvents == Lib("empty", <<Hit("k8s:events-all"), Bare("events"), Put("k8s:events-all")>>)
getEventsBounded == Lib("empty", <<Need("events")>>)
getCertificates == Lib("empty", <<Hit("k8s:certs"), Need("certificates"), Put("k8s:certs")>>)
getCertificate == Lib("throw", <<Need("certificate")>>)
getKyvernoPolicies == Lib("empty", <<
    Hit("k8s:kyverno"), Mute("clusterpolicies"), Mute("policies"), Put("k8s:kyverno")>>)
getApiServerPods == Lib("empty", <<
    Hit("k8s:apiserver-pods"), Need("apiserver-pods"), Put("k8s:apiserver-pods")>>)
getNodeReadiness == Lib("empty", <<
    Hit("k8s:node-readiness"), Need("nodes"), Put("k8s:node-readiness")>>)
getControlPlaneHealth == Lib("empty", <<
    Hit("k8s:control-plane-health"), Need("control-plane-pods"),
    Put("k8s:control-plane-health")>>)
getNetworkPolicies == Lib("empty", <<
    Hit("k8s:netpol"), Need("networkpolicies"), Put("k8s:netpol")>>)
getNodeDetail == Lib("empty", <<
    Hit("k8s:node"), Mute("getLiveCniPlugin"), Mute("getLiveKubeletConfig"), Need("nodes"),
    Put("k8s:node")>>)
getPodsByNode == Lib("empty", <<Need("pods-of-node")>>)
getPodsList == Lib("throw", <<Mute("labelled-pods"), Need("pods-of-namespace")>>)
getPodDetail == Lib("throw", <<Need("pod")>>)
getResourceEvents == Lib("throw", <<Need("pod-events")>>)
getClusterRoles == Lib("empty", <<Bare("clusterroles")>>)
getRoles == Lib("empty", <<Bare("roles")>>)
getAllPodsMinimal == Lib("told", <<Need("pods")>>)
getAllNodesForDistribution == Lib("told", <<Need("node-list")>>)
getAllPodsForDistribution == Lib("told", <<Need("pods")>>)
renewCertificate == Lib("throw", <<Need("certificate"), Write("certificates")>>)

(* lib/argocd.ts                                                           *)
loadArgoApps == Lib("throw", <<Hit("argocd:apps"), Need("applications"), Put("argocd:apps")>>)
getArgoAppsOrThrow == Lib("throw", <<Need("loadArgoApps")>>)
getArgoApps == Lib("empty", <<Need("loadArgoApps")>>)
getArgoApp == Lib("empty", <<Hit("argocd:app"), Need("application"), Put("argocd:app")>>)
getArgoAppOrThrow == Lib("throw", <<Hit("argocd:app"), Need("application"), Put("argocd:app")>>)
getArgoAppFresh == Lib("throw", <<Del("argocd:app"), Need("getArgoApp")>>)
syncArgoApp == Lib("throw", <<Write("applications")>>)
rollbackArgoApp == Lib("throw", <<Write("applications")>>)
assertAppAccessible == Lib("throw", <<Need("getArgoAppOrThrow"), Found, Scope, Gate>>)

(* lib/alertmanager.ts                                                     *)
createSilence == Lib("throw", <<Write("alertmanager-alerts")>>)
getSilenceOrThrow == Lib("throw", <<Need("silence")>>)
deleteSilence == Lib("throw", <<Write("alertmanager-alerts")>>)
getAlertsOrThrow == Lib("throw", <<
    Hit("alerts:active"), Need("alertmanager-alerts"), Put("alerts:active")>>)
getAlerts == Lib("empty", <<Need("getAlertsOrThrow")>>)

(* lib/apisix-client.ts                                                    *)
getRoutes == Lib("empty", <<Hit("apisix:routes"), Need("apisix-routes"), Put("apisix:routes")>>)
toggleRoute == Lib("throw", <<Write("apisix-routes"), Del("apisix:routes")>>)

(* lib/falco.ts                                                            *)
queryLoki == Lib("throw", <<Need("loki")>>)
getRuntimeEvents == Lib("empty", <<
    Hit("falco:events"), Need("queryLoki"), Put("falco:events")>>)
getCriticalRuntimeAlerts == Lib("empty", <<
    Hit("falco:critical"), Need("getRuntimeEvents"), Put("falco:critical")>>)

(* lib/trivy.ts                                                            *)
listVulnerabilityReports == Lib("throw", <<Need("vulnerabilityreports")>>)
getSecuritySummary == Lib("empty", <<
    Hit("security:summary"), Need("listVulnerabilityReports"), PutWhole("security:summary")>>)
getWorkloadVulnerabilitiesWithMeta == Lib("empty", <<
    Hit("security:workloads"), Need("listVulnerabilityReports"),
    PutWhole("security:workloads")>>)
getImageVulnReport == Lib("empty", <<
    Hit("security:image"), Need("listVulnerabilityReports"), PutWhole("security:image")>>)
getTopVulnerableImages == Lib("empty", <<
    Hit("security:top-vulnerable"), Need("getWorkloadVulnerabilitiesWithMeta"),
    PutWhole("security:top-vulnerable")>>)

(* lib/trivy-db-status.ts                                                  *)
readScanner == Lib("throw", <<Bare("getSecuritySummary"), Need("getEvents")>>)
getTrivyDbStatus == Lib("throw", <<
    Hit("security:trivy-db"), Try("harbor-artifacts"), Drop("readScanner"),
    PutWhole("security:trivy-db")>>)

(* lib/governance-operational-events.ts                                    *)
getOperationalEventsResponse == Lib("error", <<
    Role("admin"), Hit("governance:operational-events:v3"), Need("getEventsBounded"),
    PutWhole("governance:operational-events:v3")>>)

(* lib/keycloak-client.ts                                                  *)
getUsers == Lib("throw", <<Hit("keycloak:users"), Need("kc-users"), Put("keycloak:users")>>)
getGroups == Lib("throw", <<Hit("keycloak:groups"), Need("kc-groups"), Put("keycloak:groups")>>)

getGroupsDetailed == Lib("throw", <<
    Hit("keycloak:groups-detailed"), Need("kc-groups"), Try("kc-members"),
    PutWhole("keycloak:groups-detailed")>>)
createUser == Lib("throw", <<Write("kc-users"), Need("kc-user"), Del("keycloak:users")>>)
setUserActive == Lib("throw", <<Write("kc-users"), Del("keycloak:users")>>)
addUserToGroup == Lib("throw", <<
    Write("kc-members"), Del("keycloak:groups-detailed"), Del("keycloak:users"),
    Del("api:groups-enriched")>>)
removeUserFromGroup == Lib("throw", <<
    Write("kc-members"), Del("keycloak:groups-detailed"), Del("keycloak:users"),
    Del("api:groups-enriched")>>)
updateGroupAttributes == Lib("throw", <<
    Need("kc-group"), Write("kc-groups"), Del("keycloak:groups"),
    Del("keycloak:groups-detailed"), Del("api:groups-enriched")>>)

(* lib/openbao.ts                                                          *)
listSecrets == Lib("throw", <<
    Hit("openbao:secrets"), Need("openbao-list"), Need("openbao-metadata"),
    Put("openbao:secrets")>>)

(* lib/gitea.ts                                                            *)
requestTenantNamespace == Lib("throw", <<Write("gitea-branch"), Write("gitea-pull-request")>>)
getCommitTimestamp == Lib("empty", <<
    Hit("dora:commit"), Need("gitea-commit"), PutIfSome("dora:commit")>>)

(* lib/prometheus.ts                                                       *)
queryScalarExplicit == Lib("told", <<
    Hit("prom:query"), Need("prometheus"), PutIfSome("prom:query")>>)
query == Lib("throw", <<Must("queryScalarExplicit")>>)
queryVectorExplicit == Lib("told", <<
    Hit("prom:vector"), Need("prometheus"), Put("prom:vector")>>)
queryVector == Lib("throw", <<Must("queryVectorExplicit")>>)
queryRangeExplicit == Lib("told", <<
    Hit("prom:range"), Need("prometheus"), PutIfSome("prom:range")>>)
queryRange == Lib("throw", <<Drop("queryRangeExplicit")>>)
getNodePodCountExplicit == Lib("throw", <<Need("queryScalarExplicit")>>)
getNodePodCount == Lib("throw", <<Need("getNodePodCountExplicit")>>)
getNodeMetrics == Lib("throw", <<
    Hit("prom:node-metrics"), Need("queryVectorExplicit"), Need("queryVectorExplicit"),
    PutIfSome("prom:node-metrics")>>)
k8sCountsFallback == Lib("empty", <<Need("nodes"), Need("pods-of-cluster")>>)
getClusterMetrics == Lib("throw", <<
    Hit("prom:cluster"), Need("queryScalarExplicit"), Need("k8sCountsFallback"),
    Put("prom:cluster")>>)

(* lib/cost.ts                                                             *)
getCostCluster == Lib("throw", <<
    Hit("cost:v2"), Try("prometheus"), Try("prometheus"), Filter, PutWhole("cost:v2")>>)
getCostNamespace == Lib("throw", <<
    Hit("cost:v2"), Try("prometheus"), Try("prometheus"), Filter, PutWhole("cost:v2")>>)
getCostService == Lib("throw", <<
    Hit("cost:v2"), Try("prometheus"), Try("prometheus"), Filter, PutWhole("cost:v2")>>)
getCostByService == Lib("throw", <<
    Hit("cost:service:v2"), Try("service-usage"), Try("service-usage"),
    PutWhole("cost:service:v2")>>)
getCostTrend == Lib("throw", <<
    Hit("cost:trend:v2"), Nothing("cost:trend:v2"), Try("prometheus"), Try("prometheus"),
    Filter, PutWhole("cost:trend:v2")>>)

(* lib/compliance.ts                                                       *)
getConfigAuditList == Lib("empty", <<
    Hit("compliance:config-audit:list"), Need("configauditreports"),
    Put("compliance:config-audit:list")>>)
getConfigAuditDetail == Lib("empty", <<
    Hit("compliance:config-audit:detail"), Need("configauditreports"),
    PutIfSome("compliance:config-audit:detail")>>)
getRbacAuditList == Lib("empty", <<
    Hit("compliance:rbac-audit:list"), Mute("rbacassessmentreports"),
    Mute("clusterrbacassessmentreports"), Put("compliance:rbac-audit:list")>>)
getRbacAuditDetail == Lib("empty", <<
    Hit("compliance:rbac-audit:detail"), Mute("rbacassessmentreports"),
    Mute("clusterrbacassessmentreports"), PutIfSome("compliance:rbac-audit:detail")>>)
getInfraAuditList == Lib("empty", <<
    Hit("compliance:infra-audit:list"), Mute("infraassessmentreports"),
    Mute("clusterinfraassessmentreports"), Put("compliance:infra-audit:list")>>)
getInfraAuditDetail == Lib("empty", <<
    Hit("compliance:infra-audit:detail"), Mute("infraassessmentreports"),
    Mute("clusterinfraassessmentreports"), PutIfSome("compliance:infra-audit:detail")>>)
getComplianceFrameworks == Lib("empty", <<
    Hit("compliance:frameworks:list"), Need("clustercompliancereports"),
    Put("compliance:frameworks:list")>>)
getComplianceFrameworkDetail == Lib("empty", <<
    Hit("compliance:frameworks:detail"), Need("clustercompliancereports"),
    PutIfSome("compliance:frameworks:detail")>>)
getComplianceSummary == Lib("empty", <<
    Hit("compliance:summary"), Need("getConfigAuditList"), Need("getRbacAuditList"),
    Need("getInfraAuditList"), Need("getComplianceFrameworks"),
    Mute("clustercompliancereports"), Put("compliance:summary")>>)

(* lib/kisa.ts                                                             *)
checkImg03 == Lib("throw", <<Drop("getSecuritySummary")>>)
checkCfg01 == Lib("throw", <<Need("getComplianceFrameworks"), Need("getConfigAuditList")>>)
checkTls02 == Lib("throw", <<Need("getCertificates")>>)
checkAdm01 == Lib("throw", <<Need("getKyvernoPolicies")>>)
checkCp01 == Lib("throw", <<Need("getApiServerPods")>>)
checkEtcd01 == Lib("throw", <<Need("getApiServerPods")>>)
checkPod01 == Lib("throw", <<Need("getNamespaces")>>)
checkNet01 == Lib("throw", <<Need("getNetworkPolicies")>>)
checkRbac == Lib("throw", <<
    Need("getRbacBindings"), Need("getClusterRoles"), Need("getRoles")>>)
getKisaControls == Lib("throw", <<
    Hit("compliance:kisa:list"), Mute("checkCp01"), Mute("checkEtcd01"), Mute("checkPod01"),
    Mute("checkNet01"), Mute("checkImg03"), Mute("checkCfg01"), Mute("checkTls02"),
    Mute("checkAdm01"), Mute("checkRbac"), Put("compliance:kisa:list")>>)

(* lib/hero.ts                                                             *)
getNodePressureNodes == Lib("empty", <<Need("nodes")>>)
buildHeroResponse == Lib("throw", <<
    Mute("getAlerts"), Mute("getArgoApps"), Mute("getClusterMetrics"),
    Mute("getNodePressureNodes")>>)
getHeroResponse == Lib("throw", <<
    Hit("hero:summary"), Need("buildHeroResponse"), Put("hero:summary")>>)

(* lib/platform-status.ts                                                  *)
aggregatePlatformStatus == Lib("throw", <<
    Hit("status:platform"), Mute("getNodeReadiness"), Mute("getControlPlaneHealth"),
    Try("getArgoAppsOrThrow"), Try("getAlertsOrThrow"), PutWhole("status:platform")>>)
getPlatformStatus == Lib("throw", <<Need("aggregatePlatformStatus")>>)

(* lib/service-graph.ts                                                    *)
buildWorkloadToServiceMap == Lib("throw", <<Need("getArgoApps")>>)
buildNodeStatusMap == Lib("throw", <<Need("getArgoApps")>>)
buildEdgesFromIstio == Lib("throw", <<Need("prometheus"), Mute("prometheus")>>)
buildEdgesFromIstioTcp == Lib("throw", <<Need("prometheus")>>)
getServiceGraph == Lib("throw", <<
    Hit("graph:cluster"), Need("buildWorkloadToServiceMap"), Need("buildNodeStatusMap"),
    Mute("buildEdgesFromIstio"), Spare("buildEdgesFromIstioTcp"), PutWhole("graph:cluster")>>)
getServiceDependencies == Lib("throw", <<
    Hit("graph:svc"), Need("getServiceGraph"), PutWhole("graph:svc")>>)

(* lib/scorecard.ts                                                        *)
loadRules == Lib("throw", <<
    Hit("scorecard:rules"), Need("rules-configmap"), Put("scorecard:rules")>>)
getRulesRaw == Lib("throw", <<Need("rules-configmap")>>)
listK8sResources == Lib("told", <<Need("service-objects")>>)
getPodsForService == Lib("told", <<Need("service-pods")>>)
evalK8sResource == Lib("throw", <<Need("listK8sResources")>>)
evalPodSpec == Lib("throw", <<Need("getPodsForService")>>)
evaluateService == Lib("throw", <<
    Need("loadRules"), Hit("scorecard:detail"), Need("getArgoApp"), Need("getPodsForService"),
    Need("evalK8sResource"), Need("evalPodSpec"), Put("scorecard:detail")>>)
evaluateAll == Lib("throw", <<
    Need("loadRules"), Hit("scorecard:all"), Need("getArgoApps"), Mute("evaluateService"),
    Put("scorecard:all")>>)

(* lib/oss-updates/upstream.ts                                             *)
getUpstreamReleases == Lib("throw", <<
    Hit("oss-updates:upstream"), Try("github-releases"), Put("oss-updates:upstream")>>)

(* lib/oss-updates/status.ts                                               *)
getOssUpdateStatus == Lib("throw", <<
    Try("getArgoAppsOrThrow"), Need("getWorkloadVulnerabilitiesWithMeta"),
    Need("getUpstreamReleases")>>)

(* lib/dependency-health.ts                                                *)
probeHttpDependency == Lib("told", <<Need("health-endpoint")>>)
probeK8sDependency == Lib("told", <<Need("kubernetes-probe")>>)
probeValkeyDependency == Lib("told", <<Need("valkey-ping")>>)
runDependencyProbes == Lib("throw", <<
    Need("probeHttpDependency"), Need("probeK8sDependency"), Need("probeValkeyDependency")>>)
getDependencyHealthSnapshot == Lib("throw", <<
    Hit("health:dependencies"), Need("runDependencyProbes"), PutWhole("health:dependencies")>>)
getDependencyHealthSummary == Lib("throw", <<
    Hit("health:summary"), Need("getDependencyHealthSnapshot"), Put("health:summary")>>)

(* lib/cluster-registry.ts                                                 *)
listClusters == Lib("throw", <<Need("clusters-file")>>)
getCluster == Lib("throw", <<Need("clusters-file")>>)
registerCluster == Lib("throw", <<Check, Write("clusters-file")>>)
removeCluster == Lib("throw", <<Check, Write("clusters-file")>>)

(* lib/k8s-job-runner.ts                                                   *)
runHostJob == Lib("throw", <<Write("nodes")>>)

LibPrograms ==
  [ getPersistentVolumeClaim |-> getPersistentVolumeClaim, getStorageClass |-> getStorageClass,
    getResourceQuotas |-> getResourceQuotas, getConfigMap |-> getConfigMap,
    getCiliumVersionFromDaemonSet |-> getCiliumVersionFromDaemonSet,
    getLiveCniPlugin |-> getLiveCniPlugin, getLiveKubeletConfig |-> getLiveKubeletConfig,
    getNamespaces |-> getNamespaces, getNamespacesForScope |-> getNamespacesForScope,
    getRbacBindings |-> getRbacBindings, getEvents |-> getEvents,
    getEventsBounded |-> getEventsBounded, getCertificates |-> getCertificates,
    getCertificate |-> getCertificate, getKyvernoPolicies |-> getKyvernoPolicies,
    getApiServerPods |-> getApiServerPods, getNodeReadiness |-> getNodeReadiness,
    getControlPlaneHealth |-> getControlPlaneHealth, getNetworkPolicies |-> getNetworkPolicies,
    getNodeDetail |-> getNodeDetail, getPodsByNode |-> getPodsByNode,
    getPodsList |-> getPodsList, getPodDetail |-> getPodDetail,
    getResourceEvents |-> getResourceEvents, getClusterRoles |-> getClusterRoles,
    getRoles |-> getRoles, getAllPodsMinimal |-> getAllPodsMinimal,
    getAllNodesForDistribution |-> getAllNodesForDistribution,
    getAllPodsForDistribution |-> getAllPodsForDistribution,
    renewCertificate |-> renewCertificate, loadArgoApps |-> loadArgoApps,
    getArgoAppsOrThrow |-> getArgoAppsOrThrow, getArgoApps |-> getArgoApps,
    getArgoApp |-> getArgoApp, getArgoAppOrThrow |-> getArgoAppOrThrow,
    getArgoAppFresh |-> getArgoAppFresh, syncArgoApp |-> syncArgoApp,
    rollbackArgoApp |-> rollbackArgoApp, assertAppAccessible |-> assertAppAccessible,
    createSilence |-> createSilence, getSilenceOrThrow |-> getSilenceOrThrow,
    deleteSilence |-> deleteSilence, getAlertsOrThrow |-> getAlertsOrThrow,
    getAlerts |-> getAlerts, getRoutes |-> getRoutes, toggleRoute |-> toggleRoute,
    queryLoki |-> queryLoki, getRuntimeEvents |-> getRuntimeEvents,
    getCriticalRuntimeAlerts |-> getCriticalRuntimeAlerts,
    listVulnerabilityReports |-> listVulnerabilityReports,
    getSecuritySummary |-> getSecuritySummary,
    getWorkloadVulnerabilitiesWithMeta |-> getWorkloadVulnerabilitiesWithMeta,
    getImageVulnReport |-> getImageVulnReport,
    getTopVulnerableImages |-> getTopVulnerableImages, readScanner |-> readScanner,
    getTrivyDbStatus |-> getTrivyDbStatus,
    getOperationalEventsResponse |-> getOperationalEventsResponse, getUsers |-> getUsers,
    getGroups |-> getGroups, getGroupsDetailed |-> getGroupsDetailed,
    createUser |-> createUser, setUserActive |-> setUserActive,
    addUserToGroup |-> addUserToGroup, removeUserFromGroup |-> removeUserFromGroup,
    updateGroupAttributes |-> updateGroupAttributes, listSecrets |-> listSecrets,
    requestTenantNamespace |-> requestTenantNamespace,
    getCommitTimestamp |-> getCommitTimestamp, queryScalarExplicit |-> queryScalarExplicit,
    query |-> query, queryVectorExplicit |-> queryVectorExplicit, queryVector |-> queryVector,
    queryRangeExplicit |-> queryRangeExplicit, queryRange |-> queryRange,
    getNodePodCountExplicit |-> getNodePodCountExplicit, getNodePodCount |-> getNodePodCount,
    getNodeMetrics |-> getNodeMetrics, k8sCountsFallback |-> k8sCountsFallback,
    getClusterMetrics |-> getClusterMetrics, getCostCluster |-> getCostCluster,
    getCostNamespace |-> getCostNamespace, getCostService |-> getCostService,
    getCostByService |-> getCostByService, getCostTrend |-> getCostTrend,
    getConfigAuditList |-> getConfigAuditList, getConfigAuditDetail |-> getConfigAuditDetail,
    getRbacAuditList |-> getRbacAuditList, getRbacAuditDetail |-> getRbacAuditDetail,
    getInfraAuditList |-> getInfraAuditList, getInfraAuditDetail |-> getInfraAuditDetail,
    getComplianceFrameworks |-> getComplianceFrameworks,
    getComplianceFrameworkDetail |-> getComplianceFrameworkDetail,
    getComplianceSummary |-> getComplianceSummary, checkImg03 |-> checkImg03,
    checkCfg01 |-> checkCfg01, checkTls02 |-> checkTls02, checkAdm01 |-> checkAdm01,
    checkCp01 |-> checkCp01, checkEtcd01 |-> checkEtcd01, checkPod01 |-> checkPod01,
    checkNet01 |-> checkNet01, checkRbac |-> checkRbac, getKisaControls |-> getKisaControls,
    getNodePressureNodes |-> getNodePressureNodes, buildHeroResponse |-> buildHeroResponse,
    getHeroResponse |-> getHeroResponse, aggregatePlatformStatus |-> aggregatePlatformStatus,
    getPlatformStatus |-> getPlatformStatus,
    buildWorkloadToServiceMap |-> buildWorkloadToServiceMap,
    buildNodeStatusMap |-> buildNodeStatusMap, buildEdgesFromIstio |-> buildEdgesFromIstio,
    buildEdgesFromIstioTcp |-> buildEdgesFromIstioTcp, getServiceGraph |-> getServiceGraph,
    getServiceDependencies |-> getServiceDependencies, loadRules |-> loadRules,
    getRulesRaw |-> getRulesRaw, listK8sResources |-> listK8sResources,
    getPodsForService |-> getPodsForService, evalK8sResource |-> evalK8sResource,
    evalPodSpec |-> evalPodSpec, evaluateService |-> evaluateService,
    evaluateAll |-> evaluateAll, getUpstreamReleases |-> getUpstreamReleases,
    getOssUpdateStatus |-> getOssUpdateStatus, probeHttpDependency |-> probeHttpDependency,
    probeK8sDependency |-> probeK8sDependency, probeValkeyDependency |-> probeValkeyDependency,
    runDependencyProbes |-> runDependencyProbes,
    getDependencyHealthSnapshot |-> getDependencyHealthSnapshot,
    getDependencyHealthSummary |-> getDependencyHealthSummary, listClusters |-> listClusters,
    getCluster |-> getCluster, registerCluster |-> registerCluster,
    removeCluster |-> removeCluster, runHostJob |-> runHostJob ]
=============================================================================
