--------------------------- MODULE PortainerViews ---------------------------
(* The views of the server itself: stacks, templates, endpoints, groups,     *)
(* registries, users, teams, settings.                                       *)
EXTENDS DockerViews

StacksView ==
  ListView("docker.stacks", "stack", StackReads.stacks,
    [removeAction |-> Then(Asked(Each(StackChanges.remove)), Reload)])
CreateStackView ==
  Editing(FormView("docker.stacks.newstack",
    CustomTemplateService.customTemplates \o ContainerService.containers,
    [deployStack      |-> Saving(ToList(New(CreatedAndControlled(StackCreations.createSwarmStackFromFileContent)),
                                        "docker.stacks")),
     onChangeTemplate |-> New(CustomTemplateService.customTemplateFile)]))
StackReading ==
  AtOnce({EndpointService.endpoints, StackReads.stack, GroupService.groups, ContainerService.containers})
  \o AtOnce({StackReads.getStackFile, ServiceService.services, TaskService.tasks, ContainerService.containers,
             NodeService.nodes})
\* The duplication restores the endpoint when it has succeeded only
StackMoves ==
  [duplicateStack |-> LendingUntilDone(Then(Raising(OnIt(StackCreations.duplicateStack), "duplicationInProgress"),
                                            "docker.stacks")),
   migrateStack   |-> Lending(Then(Asked(Raising(OnIt(StackMigrations.migrateSwarmStack), "migrationInProgress")),
                                   "docker.stacks")),
   removeStack    |-> Then(Asked(OnIt(StackChanges.remove)), "docker.stacks")]
StackView ==
  Editing(OneView("docker.stacks.stack", "stack", StackReading,
    StackMoves @@
    [associateStack |-> ToList(OnIt(CreatedAndControlled(StackChanges.associate)), "docker.stacks"),
     deployStack    |-> Saving(Then(Flagged(OnIt(StackChanges.updateStack)), Reload)),
     stopStack      |-> Then(Asked(Flagged(OnIt(StackChanges.stop))), Reload),
     startStack     |-> Then(Flagged(OnIt(StackChanges.start)), Reload),
     \* the form to redeploy from git
     redeploy       |-> Then(Asked(Raising(OnIt(StackChanges.updateGit), "inProgress")), Reload)]))

\* The promise of a page of the list is never settled when a request fails
EndpointsView ==
  WaitingForSuccess(ListView("portainer.endpoints", "endpoint",
    AtOnce({EndpointService.endpoints, GroupService.groups}),
    [removeAction |-> Then(InTurn(EndpointService.deleteEndpoint), Reload)]))
EndpointAccessView ==
  OneView("portainer.endpoints.endpoint.access", "endpoint", EndpointService.endpoint \o GroupService.group,
    [updateAccess |-> Then(FlaggedUntilFailure(OnIt(EndpointService.updateEndpoint)), Reload)])
\* Where the new endpoint is shown depends on its type
EndpointAdditions ==
  [createAzureEndpoint |-> ToList(New(EndpointService.createAzureEndpoint), "portainer.endpoints"),
   addEndpoint         |-> ToList(New(EndpointService.createRemoteEndpoint), "portainer.endpoints"),
   addEdgeEndpoint     |-> ToList(New(EndpointService.createRemoteEndpoint), "portainer.endpoints.endpoint")]
CreateEndpointView ==
  FormView("portainer.endpoints.new",
    AtOnce({GroupService.groups, TagService.tags, SettingsService.settings}),
    EndpointAdditions @@
    [onCreateTag           |-> New(TagService.createTag),
     addDockerEndpoint     |-> ToList(New(EndpointService.createLocalEndpoint), "portainer.endpoints"),
     addKubernetesEndpoint |-> ToList(New(EndpointService.createLocalKubernetesEndpoint),
                                      "portainer.endpoints.endpoint.kubernetesConfig")])
EndpointView ==
  OneView("portainer.endpoints.endpoint", "endpoint",
    AtOnce({EndpointService.endpoint, GroupService.groups, TagService.tags, SettingsService.settings}),
    [onCreateTag    |-> New(TagService.createTag),
     updateEndpoint |-> Then(FlaggedUntilFailure(OnIt(EndpointService.updateEndpoint)), "portainer.endpoints")])
EndpointRegistriesView == ListView("docker.registries", "registry", EndpointService.registries, NoOperations)

GroupsView ==
  ListView("portainer.groups", "group", GroupService.groups,
    [removeAction |-> Then(InTurn(GroupService.deleteGroup), Reload)])
GroupAccessView ==
  OneView("portainer.groups.group.access", "group", GroupService.group,
    [updateAccess |-> Then(FlaggedUntilFailure(OnIt(GroupService.updateGroup)), Reload)])
CreateGroupView ==
  FormView("portainer.groups.new", TagService.tags,
    [create |-> ToList(New(GroupService.createGroup), "portainer.groups"), onCreateTag |-> New(TagService.createTag)])
GroupView ==
  OneView("portainer.groups.group", "group", AtOnce({GroupService.group, TagService.tags}),
    [update |-> ToList(OnIt(GroupService.updateGroup), "portainer.groups"), onCreateTag |-> New(TagService.createTag)])

RegistriesView ==
  ListView("portainer.registries", "registry", RegistryService.registries,
    [removeAction |-> Then(Asked(Each(RegistryService.deleteRegistry)), Reload)])
\* Back to the list of registries it was opened from
CreateRegistryView ==
  LET back(chain) == Then(FlaggedUntilFailure(New(chain)), "portainer.registries")
  IN  FormView("portainer.registries.new", Nothing,
        [retrieveGitlabRegistries |-> Flagged(New(Read("gitlab"))),
         createGitlabRegistries   |-> back(RegistryService.createGitlabRegistries),
         createRegistry           |-> back(RegistryService.createRegistry)])
RegistryView ==
  OneView("portainer.registries.registry", "registry", RegistryService.registry,
    [updateRegistry |-> ToList(OnIt(RegistryService.updateRegistry), "portainer.registries")])

UsersView ==
  ListView("portainer.users", "user",
    AtOnce({UserService.users, UserService.userLeadingTeams, TeamMembershipService.memberships,
            SettingsService.publicSettings}),
    [addUser      |-> Then(Flagged(New(UserService.createUser)), Reload),
     removeAction |-> Then(Asked(Each(UserService.deleteUser)), Reload)])
UserView ==
  OneView("portainer.users.user", "user", AtOnce({UserService.user, SettingsService.publicSettings}),
    [deleteUser     |-> Then(Asked(OnIt(UserService.deleteUser)), "portainer.users"),
     renameUser     |-> Then(Asked(OnIt(UserService.updateUser)), Reload),
     updateUser     |-> Then(OnIt(UserService.updateUser), Reload),
     updatePassword |-> Then(OnIt(UserService.updateUser), Reload)])
TeamsView ==
  ListView("portainer.teams", "team", AtOnce({UserService.users, UserService.userLeadingTeams}),
    [addTeam      |-> Then(Flagged(New(TeamService.createTeam)), Reload),
     removeAction |-> Then(Asked(Each(TeamService.deleteTeam)), Reload)])
TeamView ==
  OneView("portainer.teams.team", "team",
    AtOnce({TeamService.team, UserService.users, TeamService.userMemberships}),
    [deleteTeam      |-> Then(Asked(OnIt(TeamService.deleteTeam)), "portainer.teams"),
     promoteToLeader |-> OnIt(TeamMembershipService.updateMembership),   \* demoteToMember
     addUser         |-> OnIt(TeamMembershipService.createMembership),   \* addAllUsers
     removeUser      |-> OnIt(TeamMembershipService.deleteMembership)])  \* removeAllUsers

\* The labels are saved with all settings, by an operation that lowers the flag
\* of the others
SettingsView ==
  LET updateSettings == Then(New(SettingsService.update), Reload)
  IN  FormView("portainer.settings", SettingsService.settings,
        [filteredContainerLabels |-> Lowering(updateSettings, "actionInProgress"),
         saveApplicationSettings |-> Flagged(updateSettings),
         downloadBackup          |-> Raising(New(BackupService.downloadBackup), "backupInProgress")])
SettingsAuthenticationView ==
  LET uploaded(chain) == UploadOfTLS.uploadLDAPTLSFiles \o chain
  IN  FormView("portainer.settings.authentication", AtOnce({SettingsService.settings, TeamService.teams}),
        [LDAPConnectivityCheck |-> Raising(New(uploaded(SettingsService.checkLDAPConnectivity)),
                                           "connectivityCheckInProgress"),
         saveSettings          |-> Flagged(New(uploaded(SettingsService.update)))])
TagsView ==
  ListView("portainer.tags", "tag", TagService.tags,
    [createTag    |-> Then(New(TagService.createTag), Reload),
     removeAction |-> Then(InTurn(TagService.deleteTag), Reload)])

\* The steps of an application template: what was made before a step that fails remains
TemplateCreations ==
  [createContainerFromTemplate    |->
     ToList(New(CreatedAndControlled(VolumeService.createXAutoGeneratedLocalVolumes \o ImageService.pullImage
                                     \o Create("container") \o Update("container"))), "docker.containers"),
   createComposeStackFromTemplate |->
     ToList(New(CreatedAndControlled(StackCreations.createComposeStackFromGitRepository)), "docker.stacks"),
   createStackFromTemplate        |->
     ToList(New(CreatedAndControlled(StackCreations.createSwarmStackFromGitRepository)), "docker.stacks")]
TemplatesView ==
  FormView("docker.templates",
    AtOnce({TemplateService.templates, VolumeService.getVolumes, NetworkService.networks}), TemplateCreations)

\* Login: nobody sees a form before the public settings have come
Initialized == AtOnce({StatusService.status, SettingsService.publicSettings})
AuthenticationView ==
  WaitingForSuccess(FormView("portainer.auth", SettingsService.publicSettings \o UserService.administratorExists,
    [authenticateUser |-> Then(UntilFailure(Raising(New(Create("session") \o Initialized \o EndpointService.endpoints),
                                                    "loginInProgress")), "portainer.home")]))
LogoutView ==
  OnTo(FormView("portainer.logout", SettingsService.publicSettings \o Delete("session"), NoOperations), "portainer.auth")

CreateCustomTemplateView ==
  Editing(Waiting(FormView("docker.templates.custom.new", CustomTemplateService.customTemplates,
    [createCustomTemplate |->
       Saving(ToList(New(CreatedAndControlled(CustomTemplateService.createCustomTemplateFromFileContent)),
                     "docker.templates.custom"))])))
EditCustomTemplateView ==
  Editing(OneView("docker.templates.custom.edit", "custom_template",
    AtOnce({CustomTemplateService.customTemplate, CustomTemplateService.customTemplateFile,
            CustomTemplateService.customTemplates}),
    [submitAction |-> Saving(ToList(OnIt(CreatedAndControlled(CustomTemplateService.updateCustomTemplate)),
                                    "docker.templates.custom"))]))
\* Its template's file is read when one is selected; nothing ties the answer to the selection
CustomTemplatesView ==
  ListView("docker.templates.custom", "custom_template",
    AtOnce({CustomTemplateService.customTemplates, NetworkService.networks}),
    [selectTemplate |-> OnRow(CustomTemplateService.customTemplateFile),
     createStack    |-> ToList(New(CreatedAndControlled(StackCreations.createSwarmStackFromFileContent)), "docker.stacks"),
     confirmDelete  |-> Asked(OnRow(CustomTemplateService.remove))])

\* The first start: what was done before a step that fails is not done again
InitAdminView ==
  OnTo(FormView("portainer.init.admin", UserService.administratorExists,
    [createAdminUser |-> ToList(New(UserService.initAdministrator \o Create("session") \o SettingsService.update
                                    \o Initialized \o EndpointService.endpoints), "portainer.init.endpoint"),
     uploadBackup    |-> Then(Raising(New(BackupService.uploadBackup \o StatusService.status), "backupInProgress"),
                              "portainer.auth")]), "portainer.home")
InitEndpointView ==
  FormView("portainer.init.endpoint", Nothing,
    [createLocalEndpoint           |-> ToList(New(EndpointService.createLocalEndpoint), "portainer.home"),
     createLocalKubernetesEndpoint |-> ToList(New(EndpointService.createLocalKubernetesEndpoint),
                                              "portainer.endpoints.endpoint.kubernetesConfig"),
     createAgentEndpoint           |-> ToList(New(EndpointService.createRemoteEndpoint), "portainer.home")])
HomeView ==
  WaitingForSuccess(FormView("portainer.home",
    AtOnce({Read("motd"), EndpointService.endpoints, GroupService.groups, TagService.tags}),
    [triggerSnapshot |-> Then(Asked(New(EndpointService.snapshotEndpoints)), Reload)]))
AccountView ==
  FormView("portainer.account", SettingsService.publicSettings,
    [updatePassword |-> Then(New(UserService.updateUserPassword), Reload)])
=============================================================================
