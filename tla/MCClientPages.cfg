CONSTANTS
  RcStreams = {"s1", "s2"}
  TimesOf <- MCTimesOf
  PerDay = 2
  DaysInYear = 2
  MaxRequests = 2
  RpCams = {"s1", "s2"}
  RpLevels = {2, 3}
  RpDefault = 2
  Containers <- MCContainers
  MaxScale = 3
  Fingers = {"f1", "f2", "f3"}
  Windows <- MCWindows
  Ratios = {56, 75, 133}
  Sizes = {100, 50, 33, 25}
  CamCount = 3
  StreamCount = 2
  Columns = {0, 1, 2, 3}
  CpCams = {"c1", "c2"}
  Settings = {"x", "y"}
  CpMaxRequests = 2
  AccessPoints = {"a", "b"}
  MaxCalls = 2
  Buttons = {"a", "b"}
  MaxOnTheirWay = 2
  DeviceRows = {"a"}
  MaxRows = 2
  MaxSaves = 2
  CpsMaxRequests = 3
  Entries = {"a", "b"}
  AfMaxRequests = 2
  Usernames = {"u1", "u2"}
  AdMaxRequests = 2
  NavTabs = {"t1", "t2"}
  Temperatures = {60}
  MaxChoices = 3
SPECIFICATION PartSpec
INVARIANTS
  ShowsWhatIs
  DoesAsAsked
PROPERTIES
  AllInPlace
CHECK_DEADLOCK FALSE
