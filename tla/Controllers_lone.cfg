SPECIFICATION FairSpec
CONSTANTS
  known = known
  similar = similar
  Guids = {known, similar}
  Known = {known}
  Similar = {similar}
  Unsupported = {}
  Recognised = {similar}
  NoGuid = NoGuid
  MaxGamepads = 2
  MaxPlugged = 3
  KeptUpToDate = {"JOYADDED", "CONTROLLERADDED"}
  DevicesPerTypeBelow = 1
  Wiimotes = {0}
  Configured = {0}
  FilesMayFail = TRUE
  Emulators = {}
  MaxAttached = 1
  MaxInstances = 3
  MaxQueue = 6
INVARIANT NoControllerTwice
INVARIANT SlotsShowWhatIsPluggedIn
PROPERTY HotplugIsDetected
PROPERTY GoneControllersLeave
PROPERTY ComingControllersArrive
