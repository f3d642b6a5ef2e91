SPECIFICATION Spec
CONSTANTS
  known = known
  Guids = {known}
  Known = {known}
  Similar = {}
  Unsupported = {}
  Recognised = {}
  NoGuid = NoGuid
  MaxGamepads = 2
  MaxPlugged = 4
  KeptUpToDate = {"JOYADDED", "CONTROLLERADDED"}
  DevicesPerTypeBelow = 1
  Wiimotes = {}
  Configured = {}
  FilesMayFail = FALSE
  Emulators = {}
  MaxAttached = 2
  MaxInstances = 4
  MaxQueue = 4
PROPERTY HotplugIsDetected
