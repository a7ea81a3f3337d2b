-------------------------- MODULE MCPortalRequests --------------------------
(***************************************************************************)
(* Two requests of the portal's own routes at a time.  n1 and n2 are       *)
(* namespaces, p1 is a project.                                            *)
(***************************************************************************)
EXTENDS PortalRequests, PortalReads, PortalRoutes, CacheRegistry

MCAreas == {"n1", "n2", "p1"}
MCCallers == {"adm", "u1", "u2", "guest"}
MCRoleOf == [adm |-> "cluster-admin", u1 |-> "developer", u2 |-> "viewer", guest |-> "guest"]
MCAllowed ==
  [admin |-> {"cluster-admin"}, writer |-> {"cluster-admin", "developer"},
   member |-> {"cluster-admin", "developer", "viewer"},
   any |-> {"cluster-admin", "developer", "viewer", "guest"}]
MCMapped == [adm |-> {}, u1 |-> {"p1"}, u2 |-> {}, guest |-> {}]
MCOwned == [adm |-> {}, u1 |-> {"n1"}, u2 |-> {"n2"}, guest |-> {"n1"}]

LibNames == DOMAIN LibPrograms
RouteNames == DOMAIN RoutePrograms
HelperNames == DOMAIN RouteHelpers
MCProg ==
  [p \in LibNames \cup RouteNames \cup HelperNames \cup Events |->
     CASE p \in LibNames -> LibPrograms[p]
       [] p \in RouteNames -> RoutePrograms[p]
       [] p \in HelperNames -> RouteHelpers[p]
       [] OTHER -> invalidateFor(p)]

MCPaged == {"namespaces", "clusterrolebindings", "rolebindings", "events", "clusterroles", "roles",
            "pods", "node-list", "vulnerabilityreports"}
MCObjectReads == {"pods-of-namespace", "labelled-pods", "pod", "pod-events", "pod-log", "pvc",
                  "resourcequotas", "service-usage", "application", "service-objects", "service-pods"}
MCPlainReads == {"rules-configmap", "storageclass", "silence", "valkey-ping", "clusters-file"}

MCScoped == {k \in Keys : "scope" \in KeyDims[k]} \ {"cost:service:v2"}

-----------------------------------------------------------------------------
(* Where a loss goes unmentioned.                                          *)

\* Namespaces that come to hold an answer with data missing.
MayHoldPartial == {
  "api:routes-list", "architecture:topology", "cluster:{id}:domain", "cluster:{id}:infra",
  "compliance:infra-audit:detail", "compliance:infra-audit:list", "compliance:kisa:list",
  "compliance:rbac-audit:detail", "compliance:rbac-audit:list", "compliance:summary",
  "events:timeline", "falco:critical", "governance:distribution:v2", "governance:dora:v2",
  "governance:operational-events:v3", "governance:rbac:v2", "governance:resources:v3",
  "governance:scorecard", "graph:cluster", "graph:svc", "health:summary", "hero:summary",
  "k8s:cni-plugin", "k8s:events-all", "k8s:kyverno", "k8s:namespaces", "k8s:node", "k8s:pods",
  "k8s:rbac", "my-apps", "oss-updates:upstream", "prom:cluster", "prom:node-metrics",
  "scorecard:all", "scorecard:detail", "security:top-vulnerable", "security:trivy-db",
  "status:platform", "tools:health"}
MCGuarded == Keys \ MayHoldPartial

\* Read routes that leave data out of an answer and do not say so.
Silent == {
  "alerts_GET", "architecture_GET", "argocd_GET", "catalog_GET", "catalog_name_GET",
  "certs_GET", "cluster_GET", "compliance_summary_GET", "config_audit_GET",
  "config_audit_detail_GET", "cost_svc_GET", "distribution_GET", "dora_GET",
  "effective_permissions_GET", "events_GET", "frameworks_GET", "frameworks_detail_GET",
  "governance_audit_GET", "governance_events_GET", "governance_rbac_GET", "hero_GET",
  "infra_audit_GET", "infra_audit_detail_GET", "k8s_pods_GET", "kisa_GET", "metrics_GET",
  "metrics_range_GET", "my_apps_GET", "namespaces_GET", "nodes_name_GET", "oss_updates_GET",
  "policies_GET", "rbac_audit_GET", "rbac_audit_detail_GET", "resources_GET",
  "restore_preflight_POST", "role_mappings_preflight_GET", "routes_GET", "runtime_events_GET",
  "scorecard_gov_GET", "scorecards_GET", "scorecards_svc_GET", "security_summary_GET",
  "service_graph_GET", "service_graph_svc_GET", "status_GET", "tools_GET", "traces_GET",
  "trivy_db_GET", "vulnerabilities_GET", "vulnerabilities_image_GET"}

-----------------------------------------------------------------------------
(* Scenarios.                                                              *)
Req(p, c, a, n) == [prog |-> p, caller |-> c, area |-> a, runs |-> n, keyed |-> FALSE, body |-> "b1"]
Off == Req("status_GET", "adm", "n1", 0)
Pair(q1, q2, f) == [req |-> [s1 |-> q1, s2 |-> q2], writer |-> None, touched |-> {}, purged |-> {}, faults |-> f]
Alone(q, f) == Pair(q, Off, f)

HasOp(p, ops) == \E i \in DOMAIN MCProg[p].steps : MCProg[p].steps[i].op \in ops
ReadRoutes == {p \in RouteNames : ~HasOp(p, {"Open", "Fire", "Claim", "Write"})}
MCHonest == ReadRoutes \ Silent

\* Reads whose results admit what they miss, reads whose results miss nothing, and
\* namespaces whose entries admit what they miss.
MCFrank == MCHonest \cup {
  "fetchPodsByNamespace", "getCostCluster", "getCostNamespace", "getCostService", "getCostTrend",
  "getDependencyHealthSnapshot", "getDependencyHealthSummary", "getGroupsDetailed",
  "getPersistentVolumeClaim", "getPodDetail", "getResourceEvents", "getResourceQuotas",
  "getRulesRaw", "getStorageClass", "getUsers", "listClusters", "listSecrets",
  "listVulnerabilityReports", "loadRules", "probeHttpDependency", "probeK8sDependency",
  "probeValkeyDependency", "queryLoki", "queryVectorExplicit", "resolveDomainForCluster",
  "runDependencyProbes"}
MCWhole == {"getPodDetail", "getResourceEvents", "queryLoki"}
MCMarked == MCGuarded \cup {"cluster:{id}:domain", "health:summary", "tools:health"}

\* Routes, and the library calls that deny a request for them.
MCDeciding == RouteNames \cup {"assertAppAccessible", "getOperationalEventsResponse", "registerCluster", "removeCluster"}

ScopedRoutes == {p \in ReadRoutes : HasOp(p, {"Scope"})}

-----------------------------------------------------------------------------
(* What answers and entries show (ScopeFlow).                              *)
MCRescoping == RouteNames \cup {"assertAppAccessible"}
MCOwn == {
  "getPersistentVolumeClaim", "getStorageClass", "getResourceQuotas", "getPodsList", "getPodDetail",
  "getResourceEvents", "getArgoApp", "getArgoAppOrThrow", "loadRules", "listK8sResources",
  "getPodsForService", "evalK8sResource", "evalPodSpec", "evaluateService", "getCostByService",
  "fetchPodsByNamespace"}
MCOwnKeys == {
  "argocd:app", "k8s:pods", "k8s:events", "k8s:resource", "pods:logs", "pods:list",
  "cost:service:v2", "scorecard:rules", "scorecard:detail"}
Costs == {"getCostCluster", "getCostNamespace", "getCostService", "getCostTrend"}
ScopingRoutes == {p \in RouteNames : HasOp(p, {"Scope"})}
MCSeen == ScopingRoutes \cup Costs \cup {"assertAppAccessible", "createSilence", "getNamespacesForScope"}
MCFull == {"getNamespaces", "loadArgoApps", "getArgoAppsOrThrow", "getArgoApps"}
MCFullKeys == {"k8s:namespaces", "argocd:apps"}
FilteringRoutes == {p \in ScopingRoutes : HasOp(p, {"Filter"})}
MCCovering == FilteringRoutes \cup Costs \cup {
  "getNamespacesForScope", "restore_preflight_POST", "cost_cluster_GET", "cost_namespace_GET",
  "cost_service_GET", "cost_trend_GET"}
MCCoveringKeys == {
  "cost:v2", "cost:trend:v2", "my-apps", "events:timeline", "governance:dora:v2",
  "governance:resources:v3", "governance:scorecard"}

(* What programs change and purge (EffectFlow).                            *)
Changers ==
  [renewCertificate |-> {"certificates"}, syncArgoApp |-> {"applications"}, rollbackArgoApp |-> {"applications"},
   createSilence |-> {"alertmanager-alerts"}, deleteSilence |-> {"alertmanager-alerts"},
   toggleRoute |-> {"apisix-routes"}, createUser |-> {"kc-users"}, createUserAndPurge |-> {"kc-users"},
   setUserActive |-> {"kc-users"}, addUserToGroup |-> {"kc-members"}, removeUserFromGroup |-> {"kc-members"},
   updateGroupAttributes |-> {"kc-groups"}, requestTenantNamespace |-> {"gitea-branch", "gitea-pull-request"},
   registerCluster |-> {"clusters-file"}, removeCluster |-> {"clusters-file"}, runHostJob |-> {"nodes"}]
ChangingRoutes ==
  [certs_renew_POST |-> {"certificates"}, argocd_sync_POST |-> {"applications"},
   catalog_sync_POST |-> {"applications"}, rollback_POST |-> {"applications"},
   silence_POST |-> {"alertmanager-alerts"}, silence_DELETE |-> {"alertmanager-alerts"},
   routes_PATCH |-> {"apisix-routes"}, users_POST |-> {"kc-users", "kc-members"},
   users_pk_PATCH |-> {"kc-users"}, groups_members_PATCH |-> {"kc-members"},
   groups_removal_PATCH |-> {"kc-members"}, groups_attributes_PATCH |-> {"kc-groups"},
   namespaces_POST |-> {"gitea-branch", "gitea-pull-request"}, clusters_POST |-> {"clusters-file"},
   clusters_DELETE |-> {"clusters-file"}, tuning_apply_POST |-> {"nodes"}, ingest_POST |-> {"live-stream"}]
Or(f, p) == IF p \in DOMAIN f THEN f[p] ELSE {}
MCTouching == [p \in DOMAIN MCProg |-> Or(Changers, p) \cup Or(ChangingRoutes, p)]
MCLanding == [p \in DOMAIN MCProg |-> Or(Changers, p)]
Members == {"keycloak:groups-detailed", "keycloak:users", "api:groups-enriched"}
MCClearing ==
  [p \in DOMAIN MCProg |->
     IF p \in Events THEN {MCProg[p].steps[i].arg : i \in DOMAIN MCProg[p].steps}
     ELSE IF p \in {"addUserToGroup", "removeUserFromGroup"} THEN Members ELSE {}]
Renewals ==
  [setUserActive |-> {<<"kc-users", "keycloak:users">>},
   addUserToGroup |-> {<<"kc-members", "keycloak:groups-detailed">>},
   removeUserFromGroup |-> {<<"kc-members", "keycloak:groups-detailed">>},
   updateGroupAttributes |-> {<<"kc-groups", "keycloak:groups-detailed">>}]
MCRenewing == [p \in DOMAIN MCProg |-> Or(Renewals, p)]
MCTracked == {
  "applications", "application", "alertmanager-alerts", "certificates", "apisix-routes", "kc-users",
  "kc-members", "kc-groups", "clusters-file", "gitea-pull-request", "nodes", "live-stream", "no-upstream"}
MCSteady == {"getLiveCniPlugin", "getConfigMap", "getCiliumVersionFromDaemonSet", "getLiveKubeletConfig"}
MCSteadyKeys == {"k8s:cni-plugin", "k8s:kubelet-config"}
MCDirect == {"getCluster"}

-----------------------------------------------------------------------------
\* Every read twice in a row, with one failure, cut list, expiry or outage.
Twice == {Alone(Req(p, "adm", "n1", 2), 1) : p \in ReadRoutes}

\* A scoped read by two callers with different scopes.
Tenants == {Pair(Req(p, "u1", "n1", 1), Req(p, c, "n1", 1), 0) : p \in ScopedRoutes, c \in {"u2", "guest"}}

\* A mutation, and a read of what it changes before, during and after it.
\* purged holds the namespaces read straight from the upstream.
Beside(w, g, touched, purged, f) ==
  [Pair(Req(w, "adm", "n1", 1), Req(g, "adm", "n1", 2), f) EXCEPT
     !.writer = "s1", !.touched = touched, !.purged = purged]
Apps == {"applications", "application"}
Changes == {
  Beside("argocd_sync_POST", "argocd_GET", Apps, {"argocd:apps", "argocd:app"}, 0),
  Beside("catalog_sync_POST", "catalog_name_GET", Apps, {"argocd:apps", "argocd:app"}, 0),
  Beside("rollback_POST", "catalog_name_GET", Apps, {"argocd:apps", "argocd:app"}, 0),
  Beside("silence_POST", "alerts_GET", {"alertmanager-alerts"}, {"alerts:active"}, 1),
  Beside("silence_DELETE", "alerts_GET", {"alertmanager-alerts"}, {"alerts:active"}, 1),
  Beside("certs_renew_POST", "certs_GET", {"certificates"}, {"k8s:certs"}, 1),
  Beside("routes_PATCH", "routes_GET", {"apisix-routes"}, {"apisix:routes"}, 1),
  Beside("users_pk_PATCH", "users_GET", {"kc-users"}, {"keycloak:users"}, 1),
  Beside("users_POST", "users_GET", {"kc-users"}, {"keycloak:users"}, 0),
  Beside("groups_members_PATCH", "groups_GET", {"kc-members"}, {"keycloak:groups-detailed"}, 0),
  Beside("groups_removal_PATCH", "groups_GET", {"kc-members"}, {"keycloak:groups-detailed"}, 0),
  Beside("groups_attributes_PATCH", "groups_GET", {"kc-groups"}, {"keycloak:groups-detailed"}, 0),
  Beside("clusters_POST", "clusters_GET", {"clusters-file"}, {"cluster:{id}:infra"}, 0),
  Beside("clusters_DELETE", "clusters_GET", {"clusters-file"}, {"cluster:{id}:infra"}, 0),
  Beside("namespaces_POST", "namespaces_GET", {"gitea-pull-request"}, {"k8s:namespaces"}, 0),
  Beside("tuning_apply_POST", "nodes_name_GET", {"nodes"}, {"k8s:node", "k8s:node-readiness"}, 0)}

\* One Idempotency-Key on two requests, for the same body or another one.
Keyed(p, b, n) == [Req(p, "adm", "n1", n) EXCEPT !.keyed = TRUE, !.body = b]
KeyTarget == [silence_POST |-> "alertmanager-alerts", certs_renew_POST |-> "certificates",
              users_POST |-> "kc-users", ingest_POST |-> "live-stream", oss_request_POST |-> "no-upstream"]
Retries(bodies) ==
  {[Pair(Keyed(p, "b1", 1), Keyed(p, b, 1), 1) EXCEPT !.touched = {KeyTarget[p]}] :
     p \in DOMAIN KeyTarget, b \in bodies}

BothBodies == Retries({"b1", "b2"})
All == Twice \cup Tenants \cup Changes \cup BothBodies
=============================================================================
