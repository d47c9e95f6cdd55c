--------------------------- MODULE PortainerCalls ---------------------------
(* The service factories over the API of the server itself: what each       *)
(* function sends, in which order.  Requests that are sent under a condition *)
(* (the swarm of a Swarm stack, the TLS files that were given) are sent.     *)
EXTENDS DockerCalls

ResourceControlService ==
  [applyResourceControl       |-> Update("resource_control"),
   duplicateResourceControl   |-> Update("resource_control"),
   applyResourceControlChange |-> Update("resource_control"),   \* or created, where there is none
   retrieveOwnershipDetails   |-> AtOnce({Read("user"), Read("team")}),
   retrieveUserPermissionsOnResource |-> Read("membership")]

FileUploadService ==
  [buildImage |-> Create("build"), loadImages |-> Create("image"), uploadBackup |-> Update("backup"),
   createSwarmStack |-> Create("stack"), createComposeStack |-> Create("stack"),
   createEdgeStack |-> Create("edge_stack"), createCustomTemplate |-> Create("custom_template"),
   configureRegistry |-> Update("registry")]
UploadOfTLS ==
  [createEndpoint |-> Create("endpoint"), createAzureEndpoint |-> Create("endpoint"),
   \* the certificates that were given, side by side
   uploadLDAPTLSFiles |-> Update("tls_files"), uploadTLSFilesForEndpoint |-> Update("tls_files")]

EndpointService ==
  [endpoint |-> Read("endpoint"), endpoints |-> Read("endpoint"), endpointsByGroup |-> Read("endpoint"),
   snapshotEndpoints |-> Update("snapshot"), snapshotEndpoint |-> Update("snapshot"),
   updateAccess |-> Update("endpoint"), deleteEndpoint |-> Delete("endpoint"),
   updateEndpoint |-> UploadOfTLS.uploadTLSFilesForEndpoint \o Update("endpoint"),
   createLocalEndpoint |-> Create("endpoint"), createLocalKubernetesEndpoint |-> Create("endpoint"),
   createRemoteEndpoint |-> Create("endpoint"), createAzureEndpoint |-> Create("endpoint"),
   updateRegistryAccess |-> Update("registry_access"), registries |-> Read("registry"),
   registry |-> Read("registry"), updateSecuritySettings |-> Update("endpoint")]

TeamMembershipService ==
  [memberships |-> Read("membership"), createMembership |-> Create("membership"),
   deleteMembership |-> Delete("membership"), updateMembership |-> Update("membership")]

\* The promises of the memberships are not returned: a failure there settles nothing
TeamService ==
  [teams |-> Read("team"), team |-> Read("team"), deleteTeam |-> Delete("team"),
   createTeam |-> Create("team") \o Unheeded(TeamMembershipService.createMembership),
   userMemberships |-> Read("membership")]
UserService ==
  [users |-> Read("user"), user |-> Read("user"), deleteUser |-> Delete("user"), updateUser |-> Update("user"),
   createUser |-> Create("user") \o Unheeded(TeamMembershipService.createMembership),
   updateUserPassword |-> Update("user"), userMemberships |-> Read("membership"),
   userLeadingTeams |-> AtOnce({TeamService.teams, Read("membership")}),
   initAdministrator |-> Create("user"), administratorExists |-> Read("user")]

RegistryService ==
  [registries |-> Read("registry"), registry |-> Read("registry"), deleteRegistry |-> Delete("registry"),
   updateRegistry |-> Update("registry"), configureRegistry |-> FileUploadService.configureRegistry,
   createRegistry |-> Create("registry"), createGitlabRegistries |-> Create("registry"),
   retrievePorRegistryModelFromRepository |-> EndpointService.registries]

AccessService == [accesses |-> AtOnce({UserService.users, TeamService.teams})]
TagService    == [tags |-> Read("tag"), tagNames |-> Read("tag"), createTag |-> Create("tag"), deleteTag |-> Delete("tag")]
GroupService  ==
  [group |-> Read("group"), groups |-> Read("group"), createGroup |-> Create("group"),
   updateGroup |-> Update("group"), updateAccess |-> Update("group"), addEndpoint |-> Update("endpoint"),
   removeEndpoint |-> Update("endpoint"), deleteGroup |-> Delete("group")]
SettingsService ==
  [settings |-> Read("settings"), update |-> Update("settings"), publicSettings |-> Read("settings"),
   checkLDAPConnectivity |-> Update("ldap_check")]
StatusService  == [status |-> Read("status"), version |-> Read("status")]
WebhookService == [webhooks |-> Read("webhook"), createServiceWebhook |-> Create("webhook"), deleteWebhook |-> Delete("webhook")]
BackupService  ==
  [downloadBackup |-> Read("backup"), uploadBackup |-> FileUploadService.uploadBackup,
   getS3Settings |-> Read("backup"), saveS3Settings |-> Update("backup"), exportBackup |-> Create("backup"),
   restoreFromS3 |-> Update("backup"), getBackupStatus |-> Read("backup")]
TemplateService ==
  [templates |-> AtOnce({Read("template"), EndpointService.registries}), templateFile |-> Read("template")]
CustomTemplateService ==
  LET create == Create("custom_template")
  IN  [customTemplate |-> Read("custom_template"), customTemplates |-> Read("custom_template"),
       remove |-> Delete("custom_template"), customTemplateFile |-> Read("custom_template"),
       updateCustomTemplate |-> Update("custom_template"),
       createCustomTemplateFromFileContent |-> create, createCustomTemplateFromFileUpload |-> create,
       createCustomTemplateFromGitRepository |-> create]

StackReads ==
  LET composeStacks == AtOnce({Read("stack"), ContainerService.containers})
      swarmStacks   == SwarmService.swarm \o AtOnce({Read("stack"), ServiceService.services})
  IN  [stack |-> Read("stack"), getStackFile |-> Read("stack"), composeStacks |-> composeStacks,
       swarmStacks |-> swarmStacks, stacks |-> AtOnce({composeStacks, swarmStacks}),
       externalSwarmStacks |-> ServiceService.services, externalComposeStacks |-> ContainerService.containers]
StackChanges ==
  [remove |-> Delete("stack"), associate |-> SwarmService.swarm \o Update("stack"),
   updateStack |-> Update("stack"), start |-> Update("stack"), stop |-> Update("stack"),
   updateGit |-> Update("stack"), kubernetesDeploy |-> Create("stack")]
\* Both send their requests to the endpoint the stack migrates to (see Lending)
StackMigrations ==
  [migrateSwarmStack |-> SwarmService.swarm \o Update("stack"), migrateComposeStack |-> Update("stack")]
StackCreations ==
  LET swarm == SwarmService.swarm \o Create("stack")
      compose == Create("stack")
  IN  [createComposeStackFromFileUpload |-> compose, createSwarmStackFromFileUpload |-> swarm,
       createComposeStackFromFileContent |-> compose, createSwarmStackFromFileContent |-> swarm,
       createComposeStackFromGitRepository |-> compose, createSwarmStackFromGitRepository |-> swarm,
       duplicateStack |-> swarm]
=============================================================================
