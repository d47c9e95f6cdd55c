------------------------------ MODULE EdgeViews ------------------------------
(* The Edge part of the browser application: its services and its views.     *)
EXTENDS KubeViews

EdgeGroupService ==
  [group |-> Read("edge_group"), groups |-> Read("edge_group"), remove |-> Delete("edge_group"),
   create |-> Create("edge_group"), update |-> Update("edge_group")]
EdgeJobService ==
  [edgeJob |-> Read("edge_job"), edgeJobs |-> Read("edge_job"), jobResults |-> Read("edge_job_result"),
   logFile |-> Read("edge_job_result"), getScriptFile |-> Read("edge_job"), remove |-> Delete("edge_job"),
   collectLogs |-> Update("edge_job_result"), clearLogs |-> Update("edge_job_result"),
   createEdgeJobFromFileContent |-> Create("edge_job"), createEdgeJobFromFileUpload |-> Create("edge_job"),
   updateEdgeJob |-> Update("edge_job")]
\* updateStack returns the resource, not its promise: a failure passes for a success
EdgeStackService ==
  [stack |-> Read("edge_stack"), stacks |-> Read("edge_stack"), stackFile |-> Read("edge_stack"),
   remove |-> Delete("edge_stack"), updateStack |-> PassedOver(Update("edge_stack")),
   createStackFromFileContent |-> Create("edge_stack"),
   createStackFromFileUpload |-> FileUploadService.createEdgeStack,
   createStackFromGitRepository |-> Create("edge_stack")]
EdgeTemplateService == [edgeTemplates |-> Read("template"), edgeTemplate |-> Read("template")]

EdgeGroupsView ==
  ListView("edge.groups", "edge_group", EdgeGroupService.groups,
    [removeAction |-> Then(InTurn(EdgeGroupService.remove), Reload)])
\* What fails to load leaves these two without a form
CreateEdgeGroupView ==
  WaitingForSuccess(FormView("edge.groups.new", AtOnce({TagService.tags, GroupService.groups}),
    [createGroup |-> ToList(New(EdgeGroupService.create), "edge.groups")]))
EditEdgeGroupView ==
  WaitingForSuccess(OneView("edge.groups.edit", "edge_group",
    AtOnce({TagService.tags, GroupService.groups, EdgeGroupService.group}),
    [updateGroup |-> ToList(OnIt(EdgeGroupService.update), "edge.groups")]))

EdgeJobsView ==
  ListView("edge.jobs", "edge_job", EdgeJobService.edgeJobs, [removeAction |-> RemovedInTurn(EdgeJobService.remove)])
CreateEdgeJobView ==
  Editing(FormView("edge.jobs.new", AtOnce({GroupService.groups, TagService.tags}),
    [create |-> Saving(ToList(New(EdgeJobService.createEdgeJobFromFileContent), "edge.jobs"))]))
EdgeJobView ==
  Editing(OneView("edge.jobs.job", "edge_job",
    AtOnce({EdgeJobService.edgeJob, EdgeJobService.getScriptFile, EdgeJobService.jobResults, GroupService.groups, TagService.tags})
      \o EndpointService.endpoints,
    [update       |-> Saving(ToList(OnIt(EdgeJobService.updateEdgeJob), "edge.jobs")),
     downloadLogs |-> OnIt(EdgeJobService.logFile), collectLogs |-> OnIt(EdgeJobService.collectLogs),
     clearLogs    |-> OnIt(EdgeJobService.clearLogs)]))

EdgeStacksView ==
  ListView("edge.stacks", "edge_stack", EdgeStackService.stacks,
    [removeAction |-> Then(InTurn(EdgeStackService.remove), Reload)])
\* The file of a template is written into the editor when it comes, whatever the
\* template chosen by then
CreateEdgeStackView ==
  Editing(FormView("edge.stacks.new", Caught(<<EdgeGroupService.groups, EdgeTemplateService.edgeTemplates>>),
    [createStack      |-> Saving(ToList(New(EdgeStackService.createStackFromFileContent), "edge.stacks")),
     onChangeTemplate |-> New(EdgeTemplateService.edgeTemplate)]))
EditEdgeStackView ==
  Editing(OneView("edge.stacks.edit", "edge_stack",
    AtOnce({EdgeGroupService.groups, EdgeStackService.stack, EdgeStackService.stackFile}),
    [deployStack           |-> Saving(ToList(OnIt(EdgeStackService.updateStack), "edge.stacks")),
     getPaginatedEndpoints |-> OnIt(EndpointService.endpoints)]))
=============================================================================
