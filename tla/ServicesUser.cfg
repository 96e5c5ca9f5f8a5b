SPECIFICATION ServicesSpec
CONSTANTS
  Callers = {"a"}
  Protocols <- MCProtocols
  Ports <- MCPorts
  SysFiles <- MCFiles
  UserFiles <- MCUserFiles
  NoFile = NoFile
INVARIANTS
  Identified
