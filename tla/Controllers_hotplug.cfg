SPECIFICATION Spec
CONSTANTS
  known = known
  similar = similar
  unknown = unknown
  Guids = {known, similar, unknown}
  Known = {known}
  Similar = {similar}
  Unsupported = {}
  Recognised = {}
  NoGuid = NoGuid
  MaxGamepads = 2
  MaxPlugged = 3
  KeptUpToDate = {"JOYADDED", "CONTROLLERADDED"}
  DevicesPerTypeBelow = 1
  Wiimotes = {}
  Configured = {0, 1}
  FilesMayFail = TRUE
  Emulators = {"forwarding"}
  MaxAttached = 2
  MaxInstances = 4
  MaxQueue = 5
INVARIANT TypeOK
INVARIANT CountMatchesSlots
INVARIANT GoneControllersAreOnTheirWayOut
