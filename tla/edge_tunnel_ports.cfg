\* Two endpoints contend for the last port.
CONSTANTS
  Endpoints = {e1, e2}
  NoEndpoint = NoEndpoint
  KubeEndpoints = {e1, e2}
  Requests = {r1}
  Jobs = {}
  Ports = {p1}
  NoPort = NoPort
  NoProxy = NoProxy
  RequiredTimeout = 1
  ActiveTimeout = 2
SYMMETRY Symmetry
SPECIFICATION Spec
INVARIANTS TypeOK   
  
