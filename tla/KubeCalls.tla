------------------------------ MODULE KubeCalls ------------------------------
(* The services of the Kubernetes part of the browser application: what each *)
(* function sends, in which order.  An object is read twice at once, as an   *)
(* object and as the text of its manifest: one request here.  A patch that   *)
(* changes nothing is not sent; here there is something to change.           *)
EXTENDS PortainerCalls

KubernetesNamespaceService ==
  [get |-> Read("namespace") \o Read("namespace"),          \* its status first
   getAll |-> Read("namespace") \o PassedOver(Read("namespace")),
   create |-> Create("namespace"), delete |-> Delete("namespace")]
KubernetesResourceQuotaService ==
  [get |-> Read("quota"), create |-> Create("quota"), patch |-> Update("quota"), delete |-> Delete("quota")]
KubernetesIngressService ==
  [get |-> Read("ingress"), create |-> Create("ingress"), patch |-> Update("ingress"), delete |-> Delete("ingress")]

KubernetesConfigMapService ==
  [getAccess |-> Read("config_map"),                        \* none where there is none
   updateAccess |-> Update("config_map"),                   \* or created, where there is none
   get |-> Read("configuration"), create |-> Create("configuration"),
   update |-> Update("configuration"), delete |-> Delete("configuration")]
KubernetesSecretService ==
  [get |-> Read("configuration"), create |-> Create("configuration"),
   update |-> Update("configuration"), delete |-> Delete("configuration")]
\* A configuration is a config map or a secret, whichever can be read
KubernetesConfigurationService ==
  [get |-> KubernetesSecretService.get, getAll |-> KubernetesNamespaceService.getAll \o KubernetesConfigMapService.get,
   create |-> KubernetesSecretService.create, update |-> KubernetesSecretService.update,
   delete |-> KubernetesSecretService.delete]

\* What a user sees of a resource pool is its namespace; its quota may be missing.
\* Nothing is undone when a later request of a creation or an update fails.
KubernetesResourcePoolService ==
  [get    |-> KubernetesNamespaceService.get \o PassedOver(KubernetesResourceQuotaService.get),
   getAll |-> KubernetesNamespaceService.getAll \o PassedOver(KubernetesResourceQuotaService.get),
   create |-> KubernetesNamespaceService.create \o KubernetesResourceQuotaService.create
              \o KubernetesIngressService.create \o EndpointService.updateRegistryAccess,
   patch  |-> KubernetesResourceQuotaService.patch
              \o AtOnce({KubernetesIngressService.create, KubernetesIngressService.delete, KubernetesIngressService.patch})
              \o EndpointService.updateRegistryAccess,
   delete |-> KubernetesNamespaceService.delete]

KubernetesPersistentVolumeClaimService ==
  [get |-> Read("claim"), create |-> Create("claim"), patch |-> Update("claim"), delete |-> Delete("claim")]
KubernetesVolumeService ==
  [get    |-> AtOnce({KubernetesPersistentVolumeClaimService.get, KubernetesResourcePoolService.get}),
   getAll |-> KubernetesResourcePoolService.getAll \o KubernetesPersistentVolumeClaimService.get,
   delete |-> KubernetesPersistentVolumeClaimService.delete]
KubernetesStorageService == [get |-> Read("storage_class"), patch |-> Update("storage_class")]

KubernetesServiceService ==
  [get |-> Read("k8s_service"), create |-> Create("k8s_service"), patch |-> Update("k8s_service"), delete |-> Delete("k8s_service")]
KubernetesPodService ==
  [get |-> Read("pod"), logs |-> Read("pod"), patch |-> Update("pod"), delete |-> Delete("pod"), eviction |-> Delete("pod")]
KubernetesDeploymentService ==
  [get |-> Read("deployment"), create |-> Create("deployment"), patch |-> Update("deployment"),
   delete |-> Delete("deployment"), rollback |-> Update("deployment")]
KubernetesDaemonSetService == KubernetesDeploymentService
\* With the service without an address, whose absence is not looked at
KubernetesStatefulSetService ==
  [KubernetesDeploymentService EXCEPT !.get = @ \o PassedOver(KubernetesServiceService.get)]
KubernetesHorizontalPodAutoScalerService ==
  [get |-> Read("auto_scaler"), create |-> Create("auto_scaler"), patch |-> Update("auto_scaler"), delete |-> Delete("auto_scaler")]

KubernetesControllerRevisionService == [get |-> Read("revision")]
KubernetesReplicaSetService         == [get |-> Read("revision")]
\* Replica sets of a deployment, controller revisions of the others, none of a pod
KubernetesHistoryService == [get |-> KubernetesReplicaSetService.get]
KubernetesEventService    == [get |-> Read("event")]
KubernetesHealthService   == [ping |-> Read("endpoint")]
KubernetesEndpointService == [get |-> Read("leader")]
KubernetesComponentStatusService == [get |-> Read("component_status")]
KubernetesNodeService     == [get |-> Read("cluster_node"), patch |-> Update("cluster_node")]
KubernetesMetricsService  == [nodeMetrics |-> Read("metrics"), podMetrics |-> Read("metrics"), capabilities |-> Read("metrics")]

\* An application is asked for as each of the kinds it may be, and found as one of
\* them; then come its service, its scaler and its history
ApplicationReading ==
  PassedOver(AtOnce({KubernetesDeploymentService.get, KubernetesDaemonSetService.get, KubernetesStatefulSetService.get,
                     KubernetesPodService.get, KubernetesHorizontalPodAutoScalerService.get, KubernetesIngressService.get}))
  \o KubernetesServiceService.get \o KubernetesServiceService.get \o KubernetesHorizontalPodAutoScalerService.get
  \o KubernetesHistoryService.get
\* Those of a namespace.  Their scalers are asked for as well, but nobody waits for
\* that: Promise.all is given the applications, not the promises
ApplicationsOfNamespace ==
  AtOnce({KubernetesDeploymentService.get, KubernetesServiceService.get, KubernetesPodService.get,
          KubernetesIngressService.get, KubernetesHorizontalPodAutoScalerService.get})
\* An application goes under the kind of its deployment, be it one or not.  What
\* a change of one sends, in its order, is in KubeApplications
KubernetesApplicationService ==
  [get |-> ApplicationReading, getAll |-> KubernetesNamespaceService.getAll \o ApplicationsOfNamespace,
   getIn |-> ApplicationsOfNamespace, patch |-> KubernetesDeploymentService.patch,
   delete |-> KubernetesDeploymentService.delete, rollback |-> KubernetesDeploymentService.rollback]
KubernetesStackService == [get |-> ApplicationsOfNamespace]
=============================================================================
