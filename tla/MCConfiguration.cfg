CONSTANTS
  MaxStreams = 3
  MaxEdits = 2
  Types = {"none", "motionService", "ftpTriggered"}
  Configurations <- MCConfigurations
  SearchResults <- MCSearchResults
  DgCams = {"c1", "c2"}
  DgStreams = {"s1", "s2"}
  MaskFiles = {"f1", "f2"}
  MaxChanges = 4
  OnvifHosts = {1, 2, 3}
  DefaultHost = 1
  MaxDiscoveries = 3
  Cameras = {"c1", "c2"}
  WithUri = {"c1", "c2"}
  Passwords = {"p"}
  MaxAsked = 3
  Users = {"u1", "u2"}
  Devices = {"d1", "d2"}
  MaxHostingCalls = 2
  MaxConnections = 1
SPECIFICATION PartSpec
INVARIANTS
  SavedAsEntered
  RightDevice
PROPERTIES
  FailuresStayListed
CHECK_DEADLOCK FALSE
