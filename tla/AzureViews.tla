----------------------------- MODULE AzureViews -----------------------------
(* The Azure part of the browser application and the cluster of Storidge:    *)
(* their services and views.                                                 *)
EXTENDS EdgeViews

ContainerGroupService ==
  [containerGroup |-> Read("container_group"), containerGroups |-> Read("container_group"),
   create |-> Create("container_group")]
SubscriptionService  == [subscription |-> Read("subscription"), subscriptions |-> Read("subscription")]
ResourceGroupService == [resourceGroup |-> Read("resource_group"), resourceGroups |-> Read("resource_group")]
ProviderService      == [containerInstanceProvider |-> Read("provider")]
\* What is read for each subscription is read at once: one request stands for them
AzureService ==
  [subscriptions |-> SubscriptionService.subscriptions, resourceGroups |-> ResourceGroupService.resourceGroups,
   containerGroups |-> ContainerGroupService.containerGroups,
   containerInstanceProvider |-> ProviderService.containerInstanceProvider,
   createContainerGroup |-> ContainerGroupService.create, deleteContainerGroup |-> Delete("container_group")]

AzureDashboardView ==
  FormView("azure.dashboard", AzureService.subscriptions \o AzureService.resourceGroups, NoOperations)
ContainerInstancesView ==
  ListView("azure.containerinstances", "container_group", AzureService.subscriptions \o AzureService.containerGroups,
    [deleteAction |-> Then(Each(AzureService.deleteContainerGroup), Reload)])
CreateContainerInstanceView ==
  FormView("azure.containerinstances.new",
    AzureService.subscriptions \o AtOnce({AzureService.resourceGroups, AzureService.containerInstanceProvider}),
    [create |-> ToList(New(CreatedAndControlled(AzureService.createContainerGroup)), "azure.containerinstances")])
ContainerInstanceView ==
  Waiting(OneView("azure.containerinstances.container", "container_group",
    SubscriptionService.subscription \o ContainerGroupService.containerGroup \o ResourceGroupService.resourceGroup,
    NoOperations))

StoridgeClusterService ==
  [info |-> Read("cluster"), version |-> Read("cluster"), events |-> Read("cluster"),
   reboot |-> Update("cluster"), shutdown |-> Update("cluster")]
StoridgeNodeService ==
  [nodes |-> Read("storidge_node"), node |-> Read("storidge_node"), add |-> Read("storidge_node"),
   cordon |-> Update("storidge_node"), uncordon |-> Update("storidge_node"), remove |-> Delete("storidge_node")]
\* The node of a drive is read in a promise of its own, whose failure settles nothing
StoridgeDriveService ==
  [drives |-> Read("drive"), drive |-> Read("drive") \o Unheeded(Read("storidge_node")), add |-> Update("drive"),
   remove |-> Delete("drive"), rescan |-> Update("drive")]
StoridgeProfileService ==
  [profile |-> Read("profile"), profiles |-> Read("profile"), create |-> Create("profile"),
   update |-> Update("profile"), delete |-> Delete("profile")]

\* Whether the cluster has heard the command or not, the user is led on
StoridgeClusterView ==
  LET command(chain, flag) == Asked(Raising(New(PassedOver(chain)), flag))
  IN  FormView("storidge.cluster",
        AtOnce({StoridgeClusterService.info, StoridgeClusterService.version, StoridgeNodeService.nodes}),
        [rebootCluster   |-> Then(command(StoridgeClusterService.reboot, "rebootInProgress"), Reload),
         shutdownCluster |-> Then(command(StoridgeClusterService.shutdown, "shutdownInProgress"), "docker.dashboard"),
         addNodeAction   |-> New(StoridgeNodeService.add)])
StoridgeNodeView ==
  LET maintenance(chain) == Then(Asked(OnIt(PassedOver(chain))), Reload)
  IN  OneView("storidge.cluster.node", "storidge_node", StoridgeNodeService.node,
        [removeNodeAction   |-> Then(Asked(OnIt(StoridgeNodeService.remove)), "storidge.cluster"),
         cordonNodeAction   |-> maintenance(StoridgeNodeService.cordon),
         uncordonNodeAction |-> maintenance(StoridgeNodeService.uncordon)])
StoridgeMonitorView ==
  Polling(FormView("storidge.monitor", AtOnce({StoridgeClusterService.events, StoridgeClusterService.info}), NoOperations))
StoridgeDrivesView ==
  ListView("storidge.drives", "drive", StoridgeDriveService.drives,
    [addAction    |-> Then(Flagged(OnRow(StoridgeDriveService.add)), Reload),
     rescanAction |-> Then(New(StoridgeDriveService.rescan), Reload)])
StoridgeDriveView ==
  OneView("storidge.drives.drive", "drive", StoridgeDriveService.drive,
    [removeDrive |-> Then(Asked(Flagged(OnIt(StoridgeDriveService.remove))), "storidge.drives")])
StoridgeProfilesView ==
  ListView("storidge.profiles", "profile", StoridgeProfileService.profiles,
    [removeAction |-> Then(Each(StoridgeProfileService.delete), Reload),
     create       |-> Then(Flagged(New(StoridgeProfileService.create)), Reload)])
StoridgeCreateProfileView ==
  FormView("storidge.profiles.new", Nothing,
    [create |-> ToList(New(StoridgeProfileService.create), "storidge.profiles")])
StoridgeProfileView ==
  LET ends(op, flag) == Then(Raising(op, flag), "storidge.profiles")
  IN  OneView("storidge.profiles.profile", "profile", StoridgeProfileService.profile,
        [update |-> ends(OnIt(StoridgeProfileService.update), "updateInProgress"),
         delete |-> ends(Asked(OnIt(StoridgeProfileService.delete)), "deleteInProgress")])
\* Its removal leads to a state that the router does not know
StoridgeSnapshotView ==
  OneView("docker.volumes.volume.snapshot", "snapshot", StoridgeSnapshotService.snapshot,
    [removeSnapshot |-> Then(Asked(OnIt(StoridgeSnapshotService.remove)), "portainer.volumes.volume")])
=============================================================================
