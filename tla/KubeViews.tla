------------------------------ MODULE KubeViews ------------------------------
(* The views of the Kubernetes part of the browser application, without the  *)
(* form of applications (KubeApplications).                                  *)
EXTENDS PortainerViews, KubeCalls, SequencesExt

\* Reads each of which is caught on its own
Caught(chains) == FoldLeft(LAMBDA chain, c : chain \o PassedOver(c), Nothing, chains)
RemovedInTurn(chain) == Then(Asked(InTurn(chain)), Reload)

KubernetesDashboardView ==
  Waiting(FormView("kubernetes.dashboard",
    AtOnce({EndpointService.endpoint, KubernetesResourcePoolService.getAll, KubernetesApplicationService.getAll,
            KubernetesConfigurationService.getAll, KubernetesVolumeService.getAll, TagService.tags}), NoOperations))

ResourcePoolsView ==
  Waiting(ListView("kubernetes.resourcePools", "namespace", Caught(<<KubernetesResourcePoolService.getAll>>),
    [removeAction |-> RemovedInTurn(KubernetesResourcePoolService.delete)]))
CreateResourcePoolView ==
  Waiting(FormView("kubernetes.resourcePools.new",
    KubernetesNodeService.get \o Caught(<<KubernetesResourcePoolService.getAll, KubernetesIngressService.get,
                                          EndpointService.registries>>),
    [createResourcePool |-> ToList(New(KubernetesResourcePoolService.create), "kubernetes.resourcePools")]))
\* A dialog comes first when a quota is reduced or an ingress class is given up
ResourcePoolView ==
  Waiting(OneView("kubernetes.resourcePools.resourcePool", "namespace",
    AtOnce({KubernetesNodeService.get, KubernetesResourcePoolService.getAll})
      \o Caught(<<KubernetesEventService.get, KubernetesApplicationService.getIn, KubernetesIngressService.get,
                  EndpointService.registries>>),
    [updateResourcePool |-> Then(MayAsk(Flagged(OnIt(KubernetesResourcePoolService.patch))), Reload)]))
\* The flag is raised but disables nothing: the button looks at ctrl.actionInProgress
ResourcePoolAccessView ==
  LET updateAccess == Then(OnIt(KubernetesConfigMapService.updateAccess), Reload)
  IN  Waiting(OneView("kubernetes.resourcePools.resourcePool.access", "namespace",
        AtOnce({EndpointService.endpoint, KubernetesResourcePoolService.get, KubernetesConfigMapService.getAccess})
          \o GroupService.group \o AccessService.accesses,
        [authorizeAccess |-> updateAccess, unauthorizeAccess |-> updateAccess]))

KubernetesConfigurationsView ==
  Waiting(ListView("kubernetes.configurations", "configuration",
    Caught(<<KubernetesApplicationService.getAll, KubernetesConfigurationService.getAll>>),
    [removeAction |-> RemovedInTurn(KubernetesConfigurationService.delete)]))
CreateConfigurationView ==
  Editing(Waiting(FormView("kubernetes.configurations.new",
    KubernetesResourcePoolService.getAll \o Caught(<<KubernetesConfigurationService.getAll>>),
    [createConfiguration |-> Saving(ToList(New(KubernetesConfigurationService.create), "kubernetes.configurations"))])))
\* Nothing marks its editor as clean; a refused reading leads to the list.  A new
\* name makes a new configuration of it, which is shown in its place.
ConfigurationView ==
  LET update(chain) == MayAsk(Flagged(Submitting(OnIt(chain))))
  IN  MayBeLostTo(Editing(Waiting(OneView("kubernetes.configurations.configuration", "configuration",
        KubernetesResourcePoolService.getAll \o KubernetesConfigurationService.get
          \o Caught(<<KubernetesApplicationService.getIn>>) \o KubernetesEventService.get
          \o Caught(<<KubernetesConfigurationService.getAll>>),
        [updateConfiguration |-> Then(update(KubernetesConfigurationService.update), Reload),
         renameConfiguration |-> Then(update(KubernetesConfigurationService.create \o KubernetesConfigurationService.delete),
                                      "kubernetes.configurations.configuration")]))), "kubernetes.configurations")

KubernetesVolumesView ==
  Waiting(ListView("kubernetes.volumes", "claim",
    PassedOver(AtOnce({KubernetesVolumeService.getAll, KubernetesApplicationService.getAll, KubernetesStorageService.get})),
    [removeAction |-> RemovedInTurn(KubernetesVolumeService.delete)]))
\* Where the volume is in use a dialog offers to redeploy its applications; whoever
\* cancels it declines that, and the volume is changed all the same
KubernetesVolumeView ==
  Waiting(OneView("kubernetes.volumes.volume", "claim",
    PassedOver(AtOnce({KubernetesVolumeService.get, KubernetesApplicationService.getIn})) \o Caught(<<KubernetesEventService.get>>),
    [updateVolume |-> Then(OnIt(KubernetesPersistentVolumeClaimService.patch), Reload),
     redeploy     |-> Then(Asked(OnIt(KubernetesPersistentVolumeClaimService.patch \o KubernetesPodService.delete)), Reload)]))

KubernetesDeployView ==
  Editing(Waiting(FormView("kubernetes.deploy", Caught(<<KubernetesResourcePoolService.getAll>>),
    [deploy |-> Saving(ToList(New(Create("manifest")), "kubernetes.applications"))])))

\* Stacks are groups of applications: all those of one are deleted at once, one
\* stack after the other
KubernetesApplicationsView ==
  Waiting(ListView("kubernetes.applications", "deployment", Caught(<<KubernetesApplicationService.getAll>>),
    [removeAction       |-> RemovedInTurn(KubernetesApplicationService.delete),
     removeStacksAction |-> RemovedInTurn(KubernetesApplicationService.delete)]))
KubernetesApplicationView ==
  Waiting(OneView("kubernetes.applications.application", "deployment",
    PassedOver(AtOnce({KubernetesApplicationService.get, KubernetesNodeService.get})) \o Caught(<<KubernetesEventService.get>>),
    [rollbackApplication |-> Then(Asked(OnIt(KubernetesApplicationService.rollback)), Reload),
     redeployApplication |-> Then(Asked(OnIt(KubernetesPodService.delete)), Reload),
     updateApplication   |-> Then(OnIt(KubernetesApplicationService.patch), Reload)]))
KubernetesConsoleView ==
  Waiting(FormView("kubernetes.applications.application.console", KubernetesApplicationService.get, NoOperations))
KubernetesLogsView ==
  PollingOnDemand(Waiting(FormView("kubernetes.applications.application.logs",
    AtOnce({KubernetesApplicationService.get, KubernetesPodService.logs}), NoOperations)))
KubernetesStackLogsView ==
  PollingOnDemand(Waiting(FormView("kubernetes.stacks.stack.logs",
    Caught(<<KubernetesStackService.get, KubernetesPodService.logs>>), NoOperations)))
\* What their intervals read catches its own failures: nothing stops them.  A
\* first reading that fails leaves the charts without an interval.
KubernetesStatsView ==
  Unstopped(Polling(Waiting(FormView("kubernetes.applications.application.stats",
    KubernetesMetricsService.podMetrics \o KubernetesPodService.get \o KubernetesNodeService.get
      \o KubernetesMetricsService.podMetrics, NoOperations))))
KubernetesNodeStatsView ==
  Unstopped(Polling(Waiting(FormView("kubernetes.cluster.node.stats",
    KubernetesMetricsService.nodeMetrics \o KubernetesNodeService.get \o KubernetesMetricsService.nodeMetrics, NoOperations))))

KubernetesClusterView ==
  Waiting(ListView("kubernetes.cluster", "cluster_node",
    Caught(<<KubernetesNodeService.get, KubernetesEndpointService.get, KubernetesComponentStatusService.get,
             KubernetesApplicationService.getAll>>), NoOperations))
\* A drain is a patch, the evictions of the pods, and a patch whatever became of them
NodeChanges ==
  LET drain == KubernetesNodeService.patch \o PassedOver(KubernetesPodService.eviction) \o KubernetesNodeService.patch
  IN  [updateNode |-> Then(MayAsk(OnIt(KubernetesNodeService.patch)), Reload), drainNode |-> Then(Asked(OnIt(drain)), Reload)]
\* Without its node the view fails on the way to being ready, and stays blank
KubernetesNodeView ==
  WaitingForSuccess(OneView("kubernetes.cluster.node", "cluster_node",
    KubernetesNodeService.get
      \o Caught(<<KubernetesEventService.get, KubernetesApplicationService.getAll, KubernetesEndpointService.get>>),
    NodeChanges))

\* Before ingress classes are given up, the ingresses of all namespaces are: under
\* the identifier of the endpoint that is configured, until they have been read
KubernetesConfigureView ==
  LET applied == EndpointService.updateEndpoint \o KubernetesStorageService.patch
  IN  Waiting(OneView("portainer.endpoints.endpoint.kubernetesConfig", "endpoint",
        AtOnce({KubernetesStorageService.get, EndpointService.endpoint}),
        [configure           |-> ToList(OnIt(applied), "portainer.home"),
         configureLess       |-> ToList(Asked(LendingToRead(OnIt(KubernetesResourcePoolService.getAll
                                   \o KubernetesIngressService.delete \o applied))), "portainer.home"),
         enableMetricsServer |-> OnIt(KubernetesMetricsService.capabilities)]))
KubernetesRegistryAccessView ==
  LET updateNamespaces == Then(OnIt(EndpointService.updateRegistryAccess), Reload)
  IN  OneView("kubernetes.registries.access", "registry",
        Caught(<<EndpointService.registry, KubernetesResourcePoolService.getAll>>),
        [submit |-> updateNamespaces, handleRemove |-> updateNamespaces])
=============================================================================
