SPECIFICATION FairSpec
CONSTANTS
  PortSpace = 4
  DefaultPort = 2
  Ports = {1, 6}
  Info = "info"
  Levels = {"info", "error"}
  Unset = Unset
INVARIANTS TypeOK OneWholeFile
PROPERTIES UsersFileKept StartEnds
