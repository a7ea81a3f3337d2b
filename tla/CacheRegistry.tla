--------------------------- MODULE CacheRegistry ---------------------------
(***************************************************************************)
(* The contract of the shared cache (portal/src/lib/cache-keys.ts): every  *)
(* namespace with the dimensions its keys carry, the mutation events that  *)
(* make it stale and a pattern that purges it (one row per pattern), and   *)
(* what invalidateFor does with them.  A pattern of two rows is purged     *)
(* twice, to the same end as in the code, which dedups them first.         *)
(* Freshness metadata (the :meta sibling) lives and dies with its entry    *)
(* and is left out, and so are the namespaces no read uses.                *)
(***************************************************************************)
EXTENDS Sequences, Steps

Purged(key, dims, on, purge) == [key |-> key, dims |-> dims, on |-> on, purge |-> purge]
TtlOnly(key, dims) == Purged(key, dims, {}, Del(key))

RouteNamespaces == <<
  Purged("my-apps", {"user", "scope"}, {"iam.changed", "namespace.changed", "cluster.changed", "argocd.app.changed"}, Purge("my-apps")),
  Purged("api:routes-list", {}, {"apisix.route.changed"}, Del("api:routes-list")),
  TtlOnly("traces", {"query"}),
  TtlOnly("tools:health", {"role"}),
  TtlOnly("architecture:topology", {}),
  Purged("k8s:pods", {"namespace"}, {"namespace.changed"}, Purge("k8s:pods")),
  Purged("k8s:events", {"namespace", "query"}, {"namespace.changed"}, Purge("k8s:events")),
  Purged("k8s:events", {"namespace", "query"}, {"namespace.changed"}, Purge("k8s:events-all")),
  Purged("k8s:resource", {"namespace"}, {"namespace.changed"}, Purge("k8s:resource")),
  Purged("pods:list", {"namespace"}, {"namespace.changed"}, Purge("pods:list")),
  Purged("pods:logs", {"namespace", "query"}, {"namespace.changed"}, Purge("pods:logs")) >>

GovernanceNamespaces == <<
  TtlOnly("governance:rbac:v2", {}),
  Purged("governance:resources:v3", {"scope"}, {"iam.changed", "namespace.changed"}, Purge("governance:resources:v3")),
  TtlOnly("governance:distribution:v2", {}),
  TtlOnly("governance:operational-events:v3", {}),
  Purged("governance:dora:v2", {"scope"}, {"iam.changed", "namespace.changed"}, Purge("governance:dora:v2")),
  Purged("governance:scorecard", {"scope"}, {"iam.changed", "namespace.changed"}, Purge("governance:scorecard")),
  Purged("events:timeline", {"scope"}, {"iam.changed"}, Purge("events:timeline")),
  Purged("cluster:{id}:infra", {"cluster"}, {"cluster.changed"}, Purge("cluster:{id}:infra")),
  Purged("cluster:{id}:domain", {"cluster"}, {"cluster.changed"}, Purge("cluster:{id}:domain")) >>

ReadModelNamespaces == <<
  TtlOnly("falco:events", {"query"}),
  TtlOnly("falco:critical", {}),
  TtlOnly("compliance:kisa:list", {}),
  TtlOnly("hero:summary", {}),
  Purged("cost:v2", {"scope", "query"}, {"iam.changed", "namespace.changed"}, Purge("cost:v2")),
  Purged("cost:service:v2", {"scope", "query"}, {"iam.changed", "namespace.changed"}, Purge("cost:service:v2")),
  Purged("cost:trend:v2", {"scope", "query"}, {"iam.changed", "namespace.changed"}, Purge("cost:trend:v2")),
  Purged("apisix:routes", {}, {"apisix.route.changed"}, Del("apisix:routes")),
  TtlOnly("prom:query", {"cluster", "query"}),
  TtlOnly("prom:vector", {"cluster", "query"}),
  TtlOnly("prom:range", {"cluster", "query"}),
  TtlOnly("prom:node-metrics", {"cluster"}),
  TtlOnly("prom:cluster", {"cluster"}),
  TtlOnly("status:platform", {}) >>

SecurityNamespaces == <<
  TtlOnly("security:summary", {}),
  TtlOnly("security:trivy-db", {}),
  TtlOnly("security:workloads", {}),
  TtlOnly("security:image", {"query"}),
  TtlOnly("security:top-vulnerable", {"query"}),
  TtlOnly("scorecard:rules", {}),
  TtlOnly("scorecard:detail", {"version", "query"}),
  TtlOnly("scorecard:all", {"version", "query"}),
  TtlOnly("openbao:secrets", {}),
  Purged("alerts:active", {}, {"alert.silence.changed"}, Del("alerts:active")) >>

ComplianceNamespaces == <<
  TtlOnly("compliance:config-audit:list", {}),
  TtlOnly("compliance:config-audit:detail", {"query"}),
  TtlOnly("compliance:rbac-audit:list", {}),
  TtlOnly("compliance:rbac-audit:detail", {"query"}),
  TtlOnly("compliance:infra-audit:list", {}),
  TtlOnly("compliance:infra-audit:detail", {"query"}),
  TtlOnly("compliance:frameworks:list", {}),
  TtlOnly("compliance:frameworks:detail", {"query"}),
  TtlOnly("compliance:summary", {}),
  Purged("graph:cluster", {"query"}, {"namespace.changed"}, Purge("graph:cluster")),
  Purged("graph:svc", {"query"}, {"namespace.changed"}, Purge("graph:svc")) >>

ClusterNamespaces == <<
  TtlOnly("k8s:cni-plugin", {}),
  TtlOnly("k8s:kubelet-config", {"query"}),
  Purged("k8s:namespaces", {}, {"namespace.changed", "cluster.changed"}, Del("k8s:namespaces")),
  Purged("k8s:rbac", {}, {"iam.changed", "cluster.changed"}, Del("k8s:rbac")),
  TtlOnly("k8s:events-all", {"query"}),
  Purged("k8s:certs", {}, {"certificate.renewed"}, Del("k8s:certs")),
  TtlOnly("k8s:kyverno", {}),
  TtlOnly("k8s:apiserver-pods", {}),
  Purged("k8s:node-readiness", {}, {"node.tuning.changed"}, Del("k8s:node-readiness")),
  Purged("k8s:node-readiness", {}, {"node.tuning.changed"}, Purge("k8s:node")),
  TtlOnly("k8s:control-plane-health", {}),
  TtlOnly("k8s:netpol", {}),
  TtlOnly("k8s:node", {"query"}) >>

PlatformNamespaces == <<
  TtlOnly("health:dependencies", {}),
  TtlOnly("health:summary", {}),
  TtlOnly("oss-updates:upstream", {"query"}),
  TtlOnly("keycloak:users", {}),
  TtlOnly("keycloak:groups", {}),
  TtlOnly("keycloak:groups-detailed", {}),
  TtlOnly("api:groups-enriched", {}),
  Purged("argocd:apps", {}, {"argocd.app.changed", "namespace.changed"}, Del("argocd:apps")),
  Purged("argocd:app", {"query"}, {"argocd.app.changed", "namespace.changed"}, Purge("argocd:app")),
  TtlOnly("dora:commit", {"query"}) >>

CACHE_NAMESPACES ==
  RouteNamespaces \o GovernanceNamespaces \o ReadModelNamespaces \o SecurityNamespaces
  \o ComplianceNamespaces \o ClusterNamespaces \o PlatformNamespaces

Events == UNION {CACHE_NAMESPACES[i].on : i \in DOMAIN CACHE_NAMESPACES}
Keys == {CACHE_NAMESPACES[i].key : i \in DOMAIN CACHE_NAMESPACES}
KeyDims == [k \in Keys |-> Head(SelectSeq(CACHE_NAMESPACES, LAMBDA n : n.key = k)).dims]

\* The patterns of the namespaces an event makes stale, in the order of the registry.
invalidationPatternsFor(e) ==
  LET stale == SelectSeq(CACHE_NAMESPACES, LAMBDA n : e \in n.on) IN
  [i \in DOMAIN stale |-> stale[i].purge]

\* A literal key goes through cacheDel, a glob through deletePattern; neither throws.
invalidateFor(e) == Lib("throw", invalidationPatternsFor(e))
=============================================================================
