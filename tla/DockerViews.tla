----------------------------- MODULE DockerViews -----------------------------
(* The views of the Docker part of the browser application, without those of *)
(* containers (ContainerViews).                                              *)
EXTENDS PortainerCalls, TLC

\* What a form does to create an object under access control
CreatedAndControlled(chain) == chain \o ResourceControlService.applyResourceControl
ToList(op, state) == Then(Flagged(op), state)

NetworksView ==
  ListView("docker.networks", "network",
    AtOnce({NetworkService.networks, NodeService.nodes}),
    [removeAction |-> Then(Aimed(Each(NetworkService.remove)), Reload)])
NetworkView ==
  AimedView(OneView("docker.networks.network", "network",
    NetworkService.network \o ContainerService.containers,
    [removeNetwork |-> Then(OnIt(NetworkService.remove), "docker.networks"),
     \* the rows are made of the network's own list, which has no nodes to aim at
     containerLeaveNetwork |-> Then(OnIt(NetworkService.disconnectContainer), "docker.networks.network")]))
CreateNetworkView ==
  LET createNetwork == CreatedAndControlled(NetworkService.create)
  IN  FormView("docker.networks.new", PluginService.networkPlugins,
        [create  |-> ToList(Aimed(New(createNetwork)), "docker.networks"),
         \* Macvlan: a configuration on each of the nodes; they share one context,
         \* so that the first answer reloads although the last was meant to
         macvlan |-> ToList(Aimed(Copies(createNetwork)), "docker.networks")])

VolumesView ==
  ListView("docker.volumes", "volume",
    AtOnce({VolumeService.volumes, ServiceService.services}),
    [removeAction |-> Then(Asked(Aimed(Each(VolumeService.remove))), Reload)])
\* With what a Storidge volume has in addition; a snapshot stands for those ticked
VolumeView ==
  AimedView(OneView("docker.volumes.volume", "volume",
    VolumeService.volume \o AtOnce({ContainerService.containers, StoridgeVolumeService.volume})
      \o StoridgeSnapshotService.snapshots,
    [removeVolume   |-> Then(Asked(OnIt(VolumeService.remove)), "docker.volumes"),
     removeSnapshot |-> Then(Asked(OnIt(PassedOver(StoridgeSnapshotService.remove))), Reload),
     createSnapshot |-> Then(Flagged(New(StoridgeSnapshotService.create)), Reload),
     confirmUpdate  |-> Then(OnIt(StoridgeVolumeService.update), Reload)]))
CreateVolumeView ==
  FormView("docker.volumes.new", PluginService.volumePlugins,
    [create |-> ToList(Aimed(New(CreatedAndControlled(VolumeService.createVolume))), "docker.volumes")])

\* The files of a folder, which are listed anew after each change; the flag of an
\* upload disables nothing
FileOperations(service) ==
  [browse |-> New(service.ls), rename |-> OnRow(service.rename \o service.ls), download |-> OnRow(service.get),
   delete |-> Asked(OnRow(service.delete \o service.ls)), upload |-> New(service.upload \o Unheeded(service.ls))]
BrowseVolumeView ==
  AimedView(ListView("docker.volumes.volume.browse", "file", VolumeBrowserService.ls,
                     FileOperations(VolumeBrowserService)))

ImagesView ==
  ListView("docker.images", "image", ImageService.images,
    [pullImage      |-> Then(Flagged(Aimed(New(ImageService.pullImage))), Reload),
     downloadAction |-> Asked(Raising(Aimed(Together(ImageService.downloadImages)), "exportInProgress")),
     removeAction   |-> Then(Aimed(Each(ImageService.deleteImage)), Reload),
     confirmRemovalAction |-> Then(Asked(Aimed(Each(ImageService.deleteImage))), Reload)])
ImageView ==
  LET registry == RegistryService.retrievePorRegistryModelFromRepository
  IN  LostTo(AimedView(OneView("docker.images.image", "image",
        AtOnce({ImageService.image, ImageService.history}),
        [tagImage    |-> Then(OnIt(ImageService.tagImage), "docker.images.image"),
         pushTag     |-> OnIt(registry \o ImageService.pushImage),
         pullTag     |-> OnIt(registry \o ImageService.pullImage),
         removeTag   |-> Then(OnIt(ImageService.tagImage), "docker.images.image"),
         removeLastTag |-> Then(OnIt(ImageService.deleteImage), "docker.images"),
         removeImage |-> Then(OnIt(ImageService.deleteImage), "docker.images"),
         exportImage |-> Asked(Raising(Aimed(OnIt(ImageService.downloadImages)), "exportInProgress"))])),
        "docker.images")
BuildImageView ==
  Editing(FormView("docker.images.build", Nothing,
    \* the log of a build that failed is a success without the mark of a saved editor
    [buildImage |-> Saving(Flagged(Aimed(New(BuildService.buildImageFromDockerfileContent))))]))
ImportImageView ==
  FormView("docker.images.import", Nothing,
    [uploadImage |-> Flagged(Aimed(New(ImageService.uploadImage)))])

ConfigsView ==
  ListView("docker.configs", "config", ConfigService.configs,
    [removeAction |-> Then(InTurn(ConfigService.remove), Reload)])
ConfigView ==
  OneView("docker.configs.config", "config", ConfigService.config,
    [removeConfig |-> Then(OnIt(ConfigService.remove), "docker.configs")])
CreateConfigView ==
  Editing(FormView("docker.configs.new", ConfigService.config,
    [create |-> Saving(Then(New(CreatedAndControlled(ConfigService.create)), "docker.configs"))]))

SecretsView ==
  ListView("docker.secrets", "secret", SecretService.secrets,
    [removeAction |-> Then(Each(SecretService.remove), Reload)])
SecretView ==
  OneView("docker.secrets.secret", "secret", SecretService.secret,
    [removeSecret |-> Then(OnIt(SecretService.remove), "docker.secrets")])
CreateSecretView ==
  FormView("docker.secrets.new", Nothing,
    [create |-> ToList(New(CreatedAndControlled(SecretService.create)), "docker.secrets")])

\* With the actions of the services' table
ServiceActions ==
  [scaleAction  |-> Then(Together(ServiceService.update), Reload),
   updateAction |-> Then(Asked(Each(ServiceService.update)), Reload),
   removeAction |-> Then(Asked(Each(ServiceService.remove \o WebhookService.webhooks \o WebhookService.deleteWebhook)),
                         Reload)]
ServicesView ==
  ListView("docker.services", "service",
    AtOnce({ServiceService.services, TaskService.tasks, ContainerService.containers, NodeService.nodes}),
    ServiceActions)

ServiceReads ==
  ServiceService.service
  \o AtOnce({VolumeService.volumes, TaskService.tasks, ContainerService.containers, NodeService.nodes,
             SecretService.secrets, ConfigService.configs, ImageService.images, PluginService.loggingPlugins,
             NetworkService.networks, WebhookService.webhooks})
  \o NetworkService.network
ServiceView ==
  OneView("docker.services.service", "service", ServiceReads,
    [updateService      |-> Then(OnIt(ServiceService.update), Reread),
     rollbackService    |-> Then(Asked(Raising(OnIt(ServiceService.update), "rollbackInProgress")), Reread),
     forceUpdateService |-> Then(Asked(Raising(OnIt(ServiceService.update), "updateInProgress")), Reread),
     updateWebhook      |-> OnIt(WebhookService.createServiceWebhook),
     removeWebhook      |-> OnIt(WebhookService.deleteWebhook),
     removeService      |-> Then(Asked(Raising(OnIt(ServiceService.remove \o WebhookService.deleteWebhook),
                                               "deletionInProgress")), "docker.services")])
CreateServiceView ==
  LET createNewService == Create("service") \o AtOnce({ResourceControlService.applyResourceControl,
                                                       WebhookService.createServiceWebhook})
  IN  FormView("docker.services.new",
        AtOnce({VolumeService.volumes, NetworkService.networks, SecretService.secrets, ConfigService.configs,
                NodeService.nodes, PluginService.loggingPlugins}),
        [create |-> ToList(New(createNewService), "docker.services")])

\* Logs and statistics: an interval is set when the first have come
ServiceLogsView ==
  Polling(OneView("docker.services.service.logs", "service", ServiceService.service \o ServiceService.logs, NoOperations))
TaskLogsView ==
  Polling(OneView("docker.tasks.task.logs", "task", TaskService.task \o ServiceService.service \o TaskService.logs,
                  NoOperations))
TaskView == OneView("docker.tasks.task", "task", TaskService.task \o ServiceService.service, NoOperations)
ContainerLogsView ==
  Polling(AimedView(OneView("docker.containers.container.logs", "container",
    ContainerService.container \o ContainerService.logs, NoOperations)))
ContainerStatsView ==
  Polling(AimedView(OneView("docker.containers.container.stats", "container",
    AtOnce({ContainerService.container, ContainerService.stats, ContainerService.top}), NoOperations)))
ContainerInspectView ==
  AimedView(OneView("docker.containers.container.inspect", "container", ContainerService.inspect, NoOperations))
\* Up to the websocket; a button connects only what is disconnected
ContainerConsoleView ==
  LET connecting(chain) == Raising(OnIt(chain), "state")
  IN  AimedView(OneView("docker.containers.container.exec", "container",
        ContainerService.container \o ImageService.image,
        [connectExec   |-> connecting(ContainerService.createExec),
         connectAttach |-> connecting(ContainerService.container)]))
SwarmVisualizerView ==
  Polling(FormView("docker.swarm.visualizer",
    AtOnce({NodeService.nodes, ServiceService.services, TaskService.tasks}), NoOperations))
SwarmView ==
  FormView("docker.swarm", AtOnce({SystemService.version, SystemService.info}) \o NodeService.nodes, NoOperations)

DashboardView ==
  FormView("docker.dashboard",
    AtOnce({ContainerService.containers, ImageService.images, VolumeService.volumes, NetworkService.networks,
            ServiceService.services, StackReads.stacks, SystemService.info, EndpointService.endpoint,
            TagService.tags}), NoOperations)
EventsView == FormView("docker.events", SystemService.events, NoOperations)
HostView ==
  FormView("docker.host", AtOnce({SystemService.version, SystemService.info, ContainerService.containers})
                          \o AgentService.hostInfo, NoOperations)
HostBrowserView ==
  ListView("docker.host.browser", "file", SystemService.info \o HostBrowserService.ls, FileOperations(HostBrowserService))
NodeDetailsView ==
  OneView("docker.nodes.node", "node",
    AtOnce({NodeService.node, ContainerService.containers}) \o AgentService.hostInfo, NoOperations)
NodeBrowserView ==
  ListView("docker.nodes.node.browse", "file", NodeService.node \o HostBrowserService.ls, FileOperations(HostBrowserService))
\* The settings are saved in place, and the open endpoint takes them over
DockerFeaturesView ==
  FormView("docker.featuresConfiguration", Nothing,
    [save |-> Flagged(New(EndpointService.updateSecuritySettings))])
DockerRegistryAccessView ==
  OneView("docker.registries.access", "registry", EndpointService.registry \o GroupService.group,
    [updateAccess |-> Then(FlaggedUntilFailure(OnIt(EndpointService.updateRegistryAccess)), Reload)])
=============================================================================
