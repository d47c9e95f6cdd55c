---------------------------- MODULE BrowserRoutes ----------------------------
(* The states of the router that a user can be in: those the modules of the  *)
(* browser application register, less the abstract ones, which only hold     *)
(* others.                                                                   *)

DockerStates ==
  {"docker.configs", "docker.configs.config", "docker.configs.new", "docker.containers",
   "docker.containers.container", "docker.containers.container.attach", "docker.containers.container.exec",
   "docker.containers.new", "docker.containers.container.inspect", "docker.containers.container.logs",
   "docker.containers.container.stats"}
DockerTemplateStates ==
  {"docker.templates.custom", "docker.templates.custom.new", "docker.templates.custom.edit",
   "docker.dashboard", "docker.host", "docker.host.browser", "docker.events"}
DockerImageStates ==
  {"docker.images", "docker.images.image", "docker.images.build", "docker.images.import",
   "docker.networks", "docker.networks.network", "docker.networks.new",
   "docker.nodes.node", "docker.nodes.node.browse"}
DockerSwarmStates ==
  {"docker.secrets", "docker.secrets.secret", "docker.secrets.new", "docker.services",
   "docker.services.service", "docker.services.new", "docker.services.service.logs",
   "docker.stacks", "docker.stacks.stack", "docker.stacks.newstack", "docker.swarm", "docker.swarm.visualizer"}
DockerVolumeStates ==
  {"docker.tasks.task", "docker.tasks.task.logs", "docker.templates", "docker.volumes",
   "docker.volumes.volume", "docker.volumes.volume.browse", "docker.volumes.new",
   "docker.featuresConfiguration", "docker.registries", "docker.registries.access"}

PortainerEndpointStates ==
  {"portainer.account", "portainer.auth", "portainer.logout", "portainer.endpoints",
   "portainer.endpoints.endpoint", "portainer.endpoints.endpoint.kubernetesConfig"}
PortainerGroupStates ==
  {"portainer.endpoints.new", "portainer.endpoints.endpoint.access", "portainer.groups",
   "portainer.groups.group", "portainer.groups.new", "portainer.groups.group.access", "portainer.home",
   "portainer.init.endpoint", "portainer.init.admin"}
PortainerSettingStates ==
  {"portainer.registries", "portainer.registries.registry", "portainer.registries.new",
   "portainer.settings", "portainer.settings.authentication", "portainer.tags", "portainer.users",
   "portainer.users.user", "portainer.teams", "portainer.teams.team", "portainer.roles"}

KubernetesApplicationStates ==
  {"kubernetes.applications", "kubernetes.applications.new", "kubernetes.applications.application",
   "kubernetes.applications.application.edit", "kubernetes.applications.application.console",
   "kubernetes.applications.application.logs", "kubernetes.applications.application.stats",
   "kubernetes.stacks.stack.logs"}
KubernetesClusterStates ==
  {"kubernetes.configurations", "kubernetes.configurations.new", "kubernetes.configurations.configuration",
   "kubernetes.cluster", "kubernetes.cluster.node", "kubernetes.cluster.node.stats", "kubernetes.dashboard",
   "kubernetes.deploy", "kubernetes.resourcePools", "kubernetes.resourcePools.new",
   "kubernetes.resourcePools.resourcePool", "kubernetes.resourcePools.resourcePool.access",
   "kubernetes.volumes", "kubernetes.volumes.volume", "kubernetes.registries", "kubernetes.registries.access"}

EdgeStates ==
  {"edge.groups", "edge.groups.new", "edge.groups.edit", "edge.stacks", "edge.stacks.new",
   "edge.stacks.edit", "edge.jobs", "edge.jobs.job", "edge.jobs.new"}
AzureStates ==
  {"azure.containerinstances", "azure.containerinstances.container", "azure.containerinstances.new", "azure.dashboard"}
StoridgeStates ==
  {"storidge.profiles", "storidge.profiles.profile", "storidge.profiles.new", "storidge.drives",
   "storidge.drives.drive", "docker.volumes.volume.snapshot", "storidge.cluster", "storidge.cluster.node",
   "storidge.monitor"}

AllStates ==
  UNION {DockerStates, DockerTemplateStates, DockerImageStates, DockerSwarmStates, DockerVolumeStates,
         PortainerEndpointStates, PortainerGroupStates, PortainerSettingStates,
         KubernetesApplicationStates, KubernetesClusterStates, EdgeStates, AzureStates, StoridgeStates}
=============================================================================
