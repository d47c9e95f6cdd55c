----------------------------- MODULE DockerCalls -----------------------------
(* The service factories of the Docker part of the browser application: what *)
(* each function sends.  An answer that carries a message in place of what   *)
(* was asked for counts as a failure, as it does in the code.                *)
EXTENDS BrowserProgram

\* The kinds of objects whose requests go to an agent with a target header
DockerKinds == {"network", "volume", "image", "config", "secret", "build", "service", "task",
                "node", "plugin", "container", "exec", "swarm", "system", "agent", "file"}

NetworkService ==
  [network |-> Read("network"), networks |-> Read("network"), create |-> Create("network"),
   remove |-> Delete("network"), connectContainer |-> Update("network"),
   disconnectContainer |-> Update("network")]

VolumeService ==
  [volume |-> Read("volume"), volumes |-> Read("volume"), getVolumes |-> Read("volume"),
   remove |-> Delete("volume"), createVolume |-> Create("volume"),
   \* one request per volume, the first failure fails them all
   createVolumes |-> Create("volume"), createXAutoGeneratedLocalVolumes |-> Create("volume")]

ContainerService ==
  [container |-> Read("container"), containers |-> Read("container"), stats |-> Read("container"),
   logs |-> Read("container"), inspect |-> Read("container"), top |-> Read("container"),
   attach |-> Update("exec"), createExec |-> Create("exec"), resizeTTY |-> Update("container"),
   updateRestartPolicy |-> Update("container")]

ImageService ==
  [image |-> Read("image"), history |-> Read("image"),
   images |-> AtOnce({Read("container"), Read("image")}),       \* with the use of each
   pushImage |-> Update("image"), pullImage |-> Create("image"), tagImage |-> Update("image"),
   downloadImages |-> Read("image"), uploadImage |-> Create("image"), deleteImage |-> Delete("image")]

BuildService ==
  [buildImageFromUpload |-> Create("build"), buildImageFromURL |-> Create("build"),
   buildImageFromDockerfileContent |-> Create("build")]

ConfigService ==
  [config |-> Read("config"), configs |-> Read("config"), create |-> Create("config"), remove |-> Delete("config")]

SecretService ==
  [secret |-> Read("secret"), secrets |-> Read("secret"), create |-> Create("secret"), remove |-> Delete("secret")]

ServiceService ==
  [service |-> Read("service"), services |-> Read("service"), remove |-> Delete("service"),
   \* the version an update is checked against is read just before it
   update |-> Read("service") \o Update("service"), logs |-> Read("service")]

TaskService   == [task |-> Read("task"), tasks |-> Read("task"), logs |-> Read("task")]
NodeService   == [node |-> Read("node"), nodes |-> Read("node"), updateNode |-> Update("node"),
                  getActiveManager |-> Read("node")]
SystemService == [plugins |-> Read("system"), info |-> Read("system"), ping |-> Read("system"),
                  version |-> Read("system"), events |-> Read("system"), dataUsage |-> Read("system")]
PluginService ==
  LET servicePlugins == AtOnce({SystemService.plugins, Read("plugin")})
  IN  [plugins |-> Read("plugin"), volumePlugins |-> servicePlugins,
       networkPlugins |-> servicePlugins, loggingPlugins |-> servicePlugins]
SwarmService  == [swarm |-> Read("swarm")]
ExecService   == [resizeTTY |-> Update("exec")]

\* The services of agents
AgentService         == [agents |-> Read("agent"), hostInfo |-> Read("agent")]
HostBrowserService   == [ls |-> Read("file"), get |-> Read("file"), delete |-> Delete("file"),
                         rename |-> Update("file"), upload |-> Create("file")]
VolumeBrowserService == [ls |-> Read("file"), get |-> Read("file"), delete |-> Delete("file"),
                         rename |-> Update("file"), upload |-> Create("file")]

\* The services of Storidge, a driver of Docker volumes
StoridgeVolumeService   == [volume |-> Read("storidge_volume"), update |-> Update("storidge_volume")]
StoridgeSnapshotService == [snapshot |-> Read("snapshot"), snapshots |-> Read("snapshot"),
                            create |-> Create("snapshot"), remove |-> Delete("snapshot")]
=============================================================================
