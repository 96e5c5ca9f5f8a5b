SPECIFICATION ServicesSpec
CONSTANTS
  Callers = {"a", "b"}
  Protocols <- MCProtocols
  Ports <- MCPorts
  SysFiles <- MCFiles
  UserFiles <- MCUserFiles
  NoFile = NoFile
INVARIANTS
  OnlyListed
  IdentifiedAlone
