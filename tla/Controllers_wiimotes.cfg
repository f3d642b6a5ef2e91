SPECIFICATION Spec
CONSTANTS
  known = known
  wiiremote = wiiremote
  Guids = {known, wiiremote}
  Known = {known}
  Similar = {}
  Unsupported = {wiiremote}
  Recognised = {}
  NoGuid = NoGuid
  MaxGamepads = 2
  MaxPlugged = 3
  KeptUpToDate = {"JOYADDED"}
  DevicesPerTypeBelow = 0
  Wiimotes = {0, 1}
  Configured = {0}
  FilesMayFail = FALSE
  Emulators = {"forwarding", "deaf"}
  MaxAttached = 2
  MaxInstances = 2
  MaxQueue = 4
INVARIANT WiimoteSlotsAreOnline
PROPERTY PlayersKeepTheirSlots
PROPERTY ImplementsSlotTable
