--------------------------- MODULE MCBrowserViews ---------------------------
(* BrowserViews for all views of the browser application.                   *)
EXTENDS BrowserViews, BrowserRoutes, AzureViews

AllViews ==
  {NetworksView, NetworkView, CreateNetworkView, VolumesView, VolumeView, CreateVolumeView,
   BrowseVolumeView, ImagesView, ImageView, BuildImageView, ImportImageView, ConfigsView, ConfigView,
   CreateConfigView, SecretsView, SecretView, CreateSecretView, ServicesView, ServiceView,
   CreateServiceView, ServiceLogsView, TaskLogsView, TaskView, ContainerLogsView, ContainerStatsView,
   ContainerInspectView, ContainerConsoleView, SwarmVisualizerView, SwarmView, DashboardView, EventsView,
   HostView, HostBrowserView, NodeDetailsView, NodeBrowserView, DockerFeaturesView,
   DockerRegistryAccessView, StacksView, CreateStackView, StackView, EndpointsView, EndpointAccessView,
   CreateEndpointView, EndpointView, EndpointRegistriesView, GroupsView, GroupAccessView, CreateGroupView,
   GroupView, RegistriesView, CreateRegistryView, RegistryView, UsersView, UserView, TeamsView, TeamView,
   SettingsView, SettingsAuthenticationView, TagsView, TemplatesView, AuthenticationView, LogoutView,
   CreateCustomTemplateView, EditCustomTemplateView, CustomTemplatesView, InitAdminView, InitEndpointView,
   HomeView, AccountView, KubernetesDashboardView, ResourcePoolsView, CreateResourcePoolView,
   ResourcePoolView, ResourcePoolAccessView, KubernetesConfigurationsView, CreateConfigurationView,
   ConfigurationView, KubernetesVolumesView, KubernetesVolumeView, KubernetesDeployView,
   KubernetesApplicationsView, KubernetesApplicationView, KubernetesConsoleView, KubernetesLogsView,
   KubernetesStackLogsView, KubernetesStatsView, KubernetesNodeStatsView, KubernetesClusterView,
   KubernetesNodeView, KubernetesConfigureView, KubernetesRegistryAccessView, EdgeGroupsView,
   CreateEdgeGroupView, EditEdgeGroupView, EdgeJobsView, CreateEdgeJobView, EdgeJobView, EdgeStacksView,
   CreateEdgeStackView, EditEdgeStackView, AzureDashboardView, ContainerInstancesView,
   CreateContainerInstanceView, ContainerInstanceView, StoridgeClusterView, StoridgeNodeView,
   StoridgeMonitorView, StoridgeDrivesView, StoridgeDriveView, StoridgeProfilesView,
   StoridgeCreateProfileView, StoridgeProfileView, StoridgeSnapshotView}
MCDocker == DockerKinds
MCNodeOf == [i \in {"i1", "i2", "new"} |-> IF i = "i2" THEN "n2" ELSE "n1"]
=============================================================================
