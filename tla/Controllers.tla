---------------------------- MODULE Controllers ----------------------------
(***************************************************************************)
(* The controller table of Marley's launcher (src/controller.cpp), the SDL *)
(* hotplug events that drive it, the Wiimotes that share it (src/wii.cpp)  *)
(* and the emulators that take the event queue over while a game runs.     *)
(*                                                                         *)
(* SDL is not part of the repository: the list of attached devices, the    *)
(* instance numbers and the event queue below are what src/ relies on.     *)
(***************************************************************************)
EXTENDS Integers, Sequences, FiniteSets

CONSTANTS
  Guids,        \* the models of controllers that may be plugged in
  Known,        \* those whose GUID is in gamecontrollerdb.txt
  Similar,      \* those that only share a GUID prefix with an entry of it
  Unsupported,  \* those whose name contains "Nintendo Wii"
  Recognised,   \* those SDL has a mapping for, whatever the two files say
  NoGuid,       \* joy == NULL
  MaxGamepads,  \* MAX_GAMEPADS: the slots
  MaxPlugged,   \* MAX_GAMEPADS_PLUGGED: the length of gGamepad[]
  KeptUpToDate, \* the queued ADDED events whose index SDL adjusts
  DevicesPerTypeBelow, \* what devicesPerType[-1] reads: undefined in C++
  Wiimotes,     \* the Wiimotes (numbers 0 and 1) that may connect
  Configured,   \* the slots (0 and 1) whose buttons the user configures
  FilesMayFail, \* whether writing or loading internaldb.txt may fail
  Emulators,    \* how the installed emulators treat hotplug events
  MaxAttached,  \* bound: devices attached at the same time
  MaxInstances, \* bound: devices attached in one session
  MaxQueue      \* bound: events waiting after a device came or went, or setMapping

ASSUME SetsAssumption ==
  /\ Known \subseteq Guids /\ Similar \subseteq Guids \ Known
  /\ Unsupported \subseteq Guids /\ Recognised \subseteq Guids
  /\ NoGuid \notin Guids
  /\ KeptUpToDate \subseteq {"JOYADDED", "CONTROLLERADDED"}
  /\ Wiimotes \subseteq {0, 1} /\ Configured \subseteq {0, 1}
  /\ FilesMayFail \in BOOLEAN
  /\ Emulators \subseteq {"forwarding", "deaf"}

ASSUME NumbersAssumption ==
  /\ MaxGamepads \in Nat /\ MaxGamepads >= 2
  /\ MaxPlugged \in Nat \ {0}
  /\ DevicesPerTypeBelow \in Int /\ DevicesPerTypeBelow <= 1
  /\ MaxAttached \in Nat /\ MaxInstances \in Nat /\ MaxQueue \in Nat

VARIABLES
  attached,     \* SDL: the attached devices, by device index
  nextInstance, \* SDL: the instance id of the next device
  queue,        \* SDL: the event queue
  gDesignatedControllers,
  gNumDesignatedControllers,
  gGamepad,     \* the instance of the joystick each entry points to, or -1
  internalDB,   \* the GUIDs in internaldb.txt
  confPage,     \* 0: gState = STATE_CONF0, 1: STATE_CONF1, -1: any other
  g_wiimotes,   \* Dolphin: which Wiimotes are connected
  wiimoteOnline_prev,
  mode          \* who polls the event queue

sdl   == <<attached, nextInstance>>
table == <<gDesignatedControllers, gNumDesignatedControllers, gGamepad>>
wii   == <<g_wiimotes, wiimoteOnline_prev>>
vars  == <<sdl, queue, table, internalDB, confPage, wii, mode>>

Slots     == 0 .. MaxGamepads - 1
Instances == 0 .. MaxInstances - 1
Devices   == [instance : Instances, guid : Guids]
Events    == [type  : {"JOYADDED", "CONTROLLERADDED",
                       "JOYREMOVED", "CONTROLLERREMOVED"},
              which : Int]

STD     == 0
WIIMOTE == 1

\* devicesPerType[type]; both entries are 1, a slot without a type has -1.
devicesPerType(type) == IF type = -1 THEN DevicesPerTypeBelow ELSE 1

NoController ==
  [numberOfDevices |-> 0, instance |-> -1, index |-> -1,
   controllerType |-> -1, joy |-> NoGuid, mappingOK |-> FALSE]

\* A slot is free (mappingOK may be left over in one, see Designate), or it
\* designates an SDL controller, or a Wiimote.
FreeSlots == {NoController, [NoController EXCEPT !.mappingOK = TRUE]}
StdSlots  ==
  [numberOfDevices : {1}, instance : Instances, index : 0 .. MaxPlugged - 1,
   controllerType : {STD}, joy : Guids, mappingOK : BOOLEAN]
WiiSlots  ==
  [numberOfDevices : {1}, instance : {0, 1}, index : {-1},
   controllerType : {WIIMOTE}, joy : {NoGuid}, mappingOK : {TRUE}]

-----------------------------------------------------------------------------
(* SDL, as far as the launcher sees it.                                    *)

Indices         == 0 .. Len(attached) - 1
DeviceAt(i)     == attached[i + 1]
AttachedInst    == {attached[k].instance : k \in DOMAIN attached}
Added(kind, i)  == [type |-> kind, which |-> i]
HasMapping(g, db) == g \in Known \cup Recognised \cup db

\* A device comes: it gets the next instance and the last index, and a second
\* event when SDL can use it as a game controller.
Attach(g) ==
  /\ Len(attached) < MaxAttached /\ nextInstance < MaxInstances
  /\ Len(queue) + 2 <= MaxQueue
  /\ attached' = Append(attached, [instance |-> nextInstance, guid |-> g])
  /\ nextInstance' = nextInstance + 1
  /\ queue' = queue \o <<Added("JOYADDED", Len(attached))>>
                    \o IF HasMapping(g, internalDB)
                       THEN <<Added("CONTROLLERADDED", Len(attached))>>
                       ELSE <<>>
  /\ UNCHANGED <<table, internalDB, confPage, wii, mode>>

\* When the device with index i goes, SDL adjusts queued ADDED events: -1 stands
\* for that device. Which of them it adjusts depends on the version of SDL.
Renumbered(e, i) ==
  IF e.type \notin KeptUpToDate \/ e.which < i THEN e
  ELSE [e EXCEPT !.which = IF e.which = i THEN -1 ELSE e.which - 1]

Detach(i) ==
  /\ i \in Indices
  /\ Len(queue) + 2 <= MaxQueue
  /\ attached' = [k \in 1 .. Len(attached) - 1 |->
                    IF k <= i THEN attached[k] ELSE attached[k + 1]]
  /\ queue' = [k \in DOMAIN queue |-> Renumbered(queue[k], i)]
                \o <<Added("JOYREMOVED", DeviceAt(i).instance)>>
                \o IF HasMapping(DeviceAt(i).guid, internalDB)
                   THEN <<Added("CONTROLLERREMOVED", DeviceAt(i).instance)>>
                   ELSE <<>>
  /\ UNCHANGED <<nextInstance, table, internalDB, confPage, wii, mode>>

\* What SDL posts when its game controller subsystem starts again: an event for
\* each attached device it has a mapping for, in the order of the indices.
Reposts(db) ==
  LET mapped == {i \in Indices : HasMapping(DeviceAt(i).guid, db)}
      Ascending(f) == \A a, b \in DOMAIN f : a < b => f[a] < f[b]
  IN  {[k \in DOMAIN f |-> Added("CONTROLLERADDED", f[k])] :
         f \in {g \in [1 .. Cardinality(mapped) -> mapped] : Ascending(g)}}

-----------------------------------------------------------------------------
(* The table: each operation maps [slots, num] to the one it leaves.       *)

Table == [slots |-> gDesignatedControllers, num |-> gNumDesignatedControllers]

EmptyTable == [slots |-> [s \in Slots |-> NoController], num |-> 0]

Free(slots) == {s \in Slots : slots[s].numberOfDevices = 0}

\* Mutant of FirstFree: the last free slot.
LastFree(slots) == CHOOSE s \in Free(slots) : \A t \in Free(slots) : s >= t

FirstFree(slots) == CHOOSE s \in Free(slots) : \A t \in Free(slots) : s <= t

\* Mutants of Holding: ids compared with the index; only the first slot searched.
HoldingByIndex(slots, ids) ==
  {s \in Slots : slots[s].instance # -1 /\ slots[s].index \in ids}
HoldingInFirstSlot(slots, ids) ==
  {s \in {0} : slots[s].instance # -1 /\ slots[s].instance \in ids}

\* The slots closeJoy clears for the instance ids in ids: a slot without a type
\* has instance -1 and is skipped. NumbersAssumption keeps devicesPerType[-1] at most 1:
\* with more, the loop would leave instance[], which has one entry.
Holding(slots, ids) ==
  {s \in Slots : slots[s].instance # -1 /\ slots[s].instance \in ids}

\* Mutant of ClosedJoys: the number of designated controllers is not decremented.
ClosedJoysUncounted(t, ids) ==
  LET gone == Holding(t.slots, {n \in ids : n < MaxPlugged})
  IN  [slots |-> [s \in Slots |-> IF s \in gone THEN NoController ELSE t.slots[s]],
       num   |-> t.num]

\* closeJoy for each id in ids: ids gGamepad[] has no entry for change nothing.
ClosedJoys(t, ids) ==
  LET gone == Holding(t.slots, {n \in ids : n < MaxPlugged})
  IN  [slots |-> [s \in Slots |-> IF s \in gone THEN NoController ELSE t.slots[s]],
       num   |-> t.num - Cardinality(gone)]

\* closeJoy leaves the controller page of a slot that has no device.
ClosedPage(slots, ids) ==
  IF /\ confPage # -1 /\ slots[confPage].numberOfDevices = 0
     /\ \E n \in ids : n < MaxPlugged
  THEN -1 ELSE confPage

\* openJoy's assignment of device i to slot s. A slot counts when it has all the
\* devices of its type.
Designated(t, s, i, ok) ==
  [slots |-> [t.slots EXCEPT ![s] =
                [numberOfDevices |-> 1, instance |-> DeviceAt(i).instance,
                 index |-> i, controllerType |-> STD,
                 joy |-> DeviceAt(i).guid, mappingOK |-> ok]],
   num   |-> IF devicesPerType(STD) = 1 THEN t.num + 1 ELSE t.num]

\* Mutant of DesignatedAfterReset: the device is counted after checkMapping.
DesignatedBeforeReset(s) ==
  [slots |-> [EmptyTable.slots EXCEPT ![s].mappingOK = TRUE, ![s].numberOfDevices = 1],
   num   |-> 1]

\* The same when checkMapping has cleared the table under openJoy's hands: the
\* slot has mappingOK, no device and no type, and devicesPerType[-1] decides
\* whether it counts.
DesignatedAfterReset(s) ==
  [slots |-> [EmptyTable.slots EXCEPT ![s].mappingOK = TRUE],
   num   |-> IF devicesPerType(-1) = 0 THEN 1 ELSE 0]

OpenedWiimote(t, w) ==
  IF Free(t.slots) = {} THEN t
  ELSE [slots |-> [t.slots EXCEPT ![FirstFree(t.slots)] =
                     [numberOfDevices |-> 1, instance |-> w, index |-> -1,
                      controllerType |-> WIIMOTE, joy |-> NoGuid,
                      mappingOK |-> TRUE]],
        num   |-> t.num + 1]

\* Mutant of ClosedWiimote: the type of the slot is not looked at.
ClosedWiimoteOfAnyType(t, w) ==
  LET own == {s \in Slots : t.slots[s].instance = w}
  IN  IF own = {} THEN t
      ELSE [slots |-> [t.slots EXCEPT ![CHOOSE s \in own : \A r \in own : s <= r]
                                      = NoController],
            num   |-> t.num - 1]

\* closeWiimote clears the first slot that designates Wiimote w.
ClosedWiimote(t, w) ==
  LET own == {s \in Slots : /\ t.slots[s].controllerType = WIIMOTE
                            /\ t.slots[s].instance = w}
  IN  IF own = {} THEN t
      ELSE [slots |-> [t.slots EXCEPT ![CHOOSE s \in own : \A r \in own : s <= r]
                                      = NoController],
            num   |-> t.num - 1]

SetTable(t) ==
  /\ gDesignatedControllers' = t.slots
  /\ gNumDesignatedControllers' = t.num

NoGamepads == [i \in 0 .. MaxPlugged - 1 |-> -1]

\* Mutant of ResetSDL: the events that wait are thrown away.
ResetSDLFlushing(t, db, rest) ==
  /\ confPage' = ClosedPage(ClosedJoys(t, Indices).slots, Indices)
  /\ gGamepad' = NoGamepads
  /\ internalDB' = db
  /\ queue' = <<>>

\* closeAllJoy, SDL_QuitSubSystem, initJoy: closeAllJoy passes device indices
\* where closeJoy expects instance ids, then initJoy clears everything. SDL's
\* joystick subsystem has a second user (init of marley.cpp) and keeps running;
\* only its game controllers start again.
ResetSDL(t, db, rest) ==
  /\ confPage' = ClosedPage(ClosedJoys(t, Indices).slots, Indices)
  /\ gGamepad' = NoGamepads
  /\ internalDB' = db
  /\ \E posted \in Reposts(db) : queue' = rest \o posted

-----------------------------------------------------------------------------
(* The handlers of the launcher's event loops.                             *)

\* openJoy when device i gets the first free slot; checkMapping looks the GUID
\* up and, for a similar one, writes an entry of its own and starts SDL again.
Designate(i, rest) ==
  LET s  == FirstFree(gDesignatedControllers)
      g  == DeviceAt(i).guid
      Keep(ok, db) ==
        /\ SetTable(Designated(Table, s, i, ok))
        /\ gGamepad' = [gGamepad EXCEPT ![i] = DeviceAt(i).instance]
        /\ internalDB' = db
        /\ queue' = rest
        /\ UNCHANGED confPage
  IN  \/ g \in Known \cup internalDB /\ Keep(TRUE, internalDB)
      \/ g \notin Known \cup Similar \cup internalDB /\ Keep(FALSE, internalDB)
      \/ /\ g \in Similar \ internalDB
         /\ \/ FilesMayFail /\ Keep(FALSE, internalDB)          \* not written
            \/ FilesMayFail /\ Keep(FALSE, internalDB \cup {g}) \* not loaded
            \/ /\ SetTable(DesignatedAfterReset(s))
               /\ ResetSDL(Designated(Table, s, i, FALSE),
                           internalDB \cup {g}, rest)

\* Mutants of Ignored: without the check of slot 0's index; one slot too few.
IgnoredUnlessUnsupported(i) ==
  DeviceAt(i).guid \in Unsupported \/ Free(gDesignatedControllers) = {}
IgnoredWhenOneIsDesignated(i) ==
  \/ gDesignatedControllers[0].index = i
  \/ DeviceAt(i).guid \in Unsupported
  \/ gNumDesignatedControllers >= MaxGamepads - 1

\* The cases in which openJoy only stores the handle: the device has the index
\* slot 0 remembers, it is not supported, or no slot is free.
Ignored(i) ==
  \/ gDesignatedControllers[0].index = i
  \/ DeviceAt(i).guid \in Unsupported
  \/ Free(gDesignatedControllers) = {}

openJoy(i, rest) ==
  \/ /\ i \notin Indices \/ i >= MaxPlugged     \* SDL_JoystickOpen fails
     /\ queue' = rest
     /\ UNCHANGED <<table, internalDB, confPage>>
  \/ /\ i \in Indices /\ i < MaxPlugged /\ Ignored(i)
     /\ gGamepad' = [gGamepad EXCEPT ![i] = DeviceAt(i).instance]
     /\ queue' = rest
     /\ UNCHANGED <<gDesignatedControllers, gNumDesignatedControllers,
                    internalDB, confPage>>
  \/ i \in Indices /\ i < MaxPlugged /\ ~Ignored(i) /\ Designate(i, rest)

\* closeJoy also closes gGamepad[n], which for n >= MaxPlugged is not there:
\* that read is undefined and the other effects of closeJoy do not depend on it.
closeJoy(n, rest) ==
  LET t == ClosedJoys(Table, {n})
  IN  /\ SetTable(t)
      /\ gGamepad' = IF n < MaxPlugged THEN [gGamepad EXCEPT ![n] = -1]
                     ELSE gGamepad
      /\ confPage' = ClosedPage(t.slots, {n})
      /\ queue' = rest
      /\ UNCHANGED internalDB

Handled(e) ==
  \/ mode = "launcher"
  \/ mode = "forwarding" /\ e.type \in {"JOYADDED", "JOYREMOVED"}

\* One turn of a poll loop. The launcher's loops handle all four events, PPSSPP's
\* only those of joysticks, the other emulators' none.
PollEvent ==
  /\ queue # <<>>
  /\ LET e == Head(queue)
         rest == Tail(queue)
     IN  \/ /\ Handled(e) /\ e.type \in {"JOYADDED", "CONTROLLERADDED"}
            /\ openJoy(e.which, rest)
         \/ /\ Handled(e) /\ e.type \in {"JOYREMOVED", "CONTROLLERREMOVED"}
            /\ closeJoy(e.which, rest)
         \/ /\ ~Handled(e)
            /\ queue' = rest
            /\ UNCHANGED <<table, internalDB, confPage>>
  /\ UNCHANGED <<sdl, wii, mode>>

\* setMapping at the end of the configuration of slot c: an entry for the joystick
\* in that slot, if there is one, then SDL starts again.
setMapping(c) ==
  /\ mode = "launcher"
  /\ Len(queue) + Len(attached) <= MaxQueue
  /\ \E written \in IF FilesMayFail THEN BOOLEAN ELSE {TRUE} :
       LET g == gDesignatedControllers[c].joy
       IN  ResetSDL(Table, IF written /\ g # NoGuid THEN internalDB \cup {g}
                           ELSE internalDB, queue)
  /\ SetTable(EmptyTable)
  /\ UNCHANGED <<sdl, wii, mode>>

-----------------------------------------------------------------------------
(* Wiimotes, the controller pages of the menu, and games.                  *)

\* Dolphin's scanner thread connects and disconnects Wiimotes.
Scan(w) ==
  /\ g_wiimotes' = [g_wiimotes EXCEPT ![w] = ~@]
  /\ UNCHANGED <<sdl, queue, table, internalDB, confPage, wiimoteOnline_prev, mode>>

\* Mutant of WiimoteTick: the previous state is not compared.
WiimoteTickWithoutEdge(t, w, online, still) ==
  IF online /\ still THEN OpenedWiimote(t, w) ELSE t

\* One Wiimote in mainLoopWii: online is what the first read of g_wiimotes[w]
\* saw, still what the read before openWiimote sees.
WiimoteTick(t, w, online, still) ==
  IF online = wiimoteOnline_prev[w] THEN t
  ELSE IF online /\ still THEN OpenedWiimote(t, w)
  ELSE ClosedWiimote(t, w)

\* mainLoopWii runs between two rounds of the poll loop. The scanner may take a
\* Wiimote away between the two reads.
mainLoopWii ==
  /\ mode = "launcher" /\ queue = <<>>
  /\ \E lost \in SUBSET {w \in Wiimotes : g_wiimotes[w]} :
       /\ SetTable(WiimoteTick(WiimoteTick(Table, 0, g_wiimotes[0], 0 \notin lost),
                               1, g_wiimotes[1], 1 \notin lost))
       /\ g_wiimotes' = [w \in {0, 1} |-> g_wiimotes[w] /\ w \notin lost]
  /\ wiimoteOnline_prev' = g_wiimotes
  /\ UNCHANGED <<sdl, queue, gGamepad, internalDB, confPage, mode>>

\* The menu's moves to the page of a controller and away from it.
ShowPage(p) ==
  /\ mode = "launcher"
  /\ confPage # p
  /\ p # -1 => gDesignatedControllers[p].numberOfDevices # 0
  /\ confPage' = p
  /\ UNCHANGED <<sdl, queue, table, internalDB, wii, mode>>

\* A game is launched from another part of the menu; its emulator polls the
\* event queue until it returns.
launch_emulator(e) ==
  /\ mode = "launcher" /\ confPage = -1
  /\ mode' = e
  /\ UNCHANGED <<sdl, queue, table, internalDB, confPage, wii>>

EmulatorReturns ==
  /\ mode # "launcher"
  /\ mode' = "launcher"
  /\ UNCHANGED <<sdl, queue, table, internalDB, confPage, wii>>

-----------------------------------------------------------------------------
Init ==
  /\ attached = <<>> /\ nextInstance = 0 /\ queue = <<>>
  /\ gDesignatedControllers = EmptyTable.slots
  /\ gNumDesignatedControllers = 0
  /\ gGamepad = NoGamepads
  /\ internalDB \in SUBSET Guids    \* what earlier sessions have written
  /\ confPage = -1
  /\ g_wiimotes = [w \in {0, 1} |-> FALSE]
  /\ wiimoteOnline_prev = [w \in {0, 1} |-> FALSE]
  /\ mode = "launcher"

Next ==
  \/ \E g \in Guids : Attach(g)
  \/ \E i \in 0 .. MaxAttached - 1 : Detach(i)
  \/ PollEvent
  \/ \E c \in Configured : setMapping(c)
  \/ \E w \in Wiimotes : Scan(w)
  \/ mainLoopWii
  \/ \E p \in {-1, 0, 1} : ShowPage(p)
  \/ \E e \in Emulators : launch_emulator(e)
  \/ EmulatorReturns

Spec == Init /\ [][Next]_vars
-----------------------------------------------------------------------------
Std(s)        == gDesignatedControllers[s].controllerType = STD
Wii(s)        == gDesignatedControllers[s].controllerType = WIIMOTE
Occupied      == Slots \ Free(gDesignatedControllers)
InstanceOf(s) == gDesignatedControllers[s].instance
Removed(n)    == \E k \in DOMAIN queue : queue[k] = Added("JOYREMOVED", n)

\* Every slot is free, an SDL controller or a Wiimote with all its fields, the
\* queue holds SDL's four hotplug events and the counters stay numbers.
TypeOK ==
  /\ attached \in Seq(Devices)
  /\ nextInstance \in 0 .. MaxInstances
  /\ queue \in Seq(Events)
  /\ gDesignatedControllers \in [Slots -> FreeSlots \cup StdSlots \cup WiiSlots]
  /\ gNumDesignatedControllers \in Int
  /\ gGamepad \in [0 .. MaxPlugged - 1 -> Instances \cup {-1}]
  /\ internalDB \subseteq Guids
  /\ confPage \in {-1, 0, 1}
  /\ g_wiimotes \in [{0, 1} -> BOOLEAN]
  /\ wiimoteOnline_prev \in [{0, 1} -> BOOLEAN]
  /\ mode \in {"launcher", "forwarding", "deaf"}

\* The menus offer "play" and "setup" by gNumDesignatedControllers: it counts the
\* occupied slots through every open, close and reset (statemachine.cpp:605). The
\* count after a reset inside openJoy reads devicesPerType[-1]: exact unless that
\* is 0, and never too small.
CountMatchesSlots ==
  /\ gNumDesignatedControllers >= Cardinality(Occupied)
  /\ DevicesPerTypeBelow # 0 => gNumDesignatedControllers = Cardinality(Occupied)

\* openJoy runs for both ADDED events of a device, and again for those posted by a
\* reset: the same controller never ends up as two players.
NoControllerTwice ==
  \A s, r \in Slots : Std(s) /\ Std(r) /\ InstanceOf(s) = InstanceOf(r) => s = r

\* A slot outlives its controller only until closeJoy has seen the removal, or when
\* gGamepad[] has no entry for its instance and closeJoy does nothing: nothing else
\* (a reset, an index that moved, an event queued before a game) leaves a designated
\* controller that is gone.
GoneControllersAreOnTheirWayOut ==
  \A s \in Slots : Std(s) => \/ InstanceOf(s) \in AttachedInst \/ Removed(InstanceOf(s))
                             \/ InstanceOf(s) >= MaxPlugged

\* mainLoopWii opens a Wiimote when it comes and closes it when it goes: no slot
\* belongs to a Wiimote the last tick saw offline, and none has two.
WiimoteSlotsAreOnline ==
  /\ \A s \in Slots : Wii(s) => wiimoteOnline_prev[InstanceOf(s)]
  /\ \A s, r \in Slots : Wii(s) /\ Wii(r) /\ InstanceOf(s) = InstanceOf(r) => s = r

\* The players keep their slots: an SDL controller leaves its slot only when its
\* own removal is handled, or when SDL starts again and every slot is cleared.
PlayersKeepTheirSlots ==
  [][\A s \in Slots :
       Std(s) /\ gDesignatedControllers'[s] # gDesignatedControllers[s]
         => \/ \A r \in Slots : gDesignatedControllers'[r].numberOfDevices = 0
            \/ /\ queue # <<>>
               /\ Head(queue).type \in {"JOYREMOVED", "CONTROLLERREMOVED"}
               /\ Head(queue).which = InstanceOf(s)]_vars

\* With one controller at a time that SDL can use, no games and a slot the Wiimotes leave
\* free, the slots show what is plugged in whenever no event waits, after any resets by
\* openJoy and setMapping and any removals: the launcher polls all its events before it
\* draws the controllers (marley.cpp:374).
SlotsShowWhatIsPluggedIn ==
  queue = <<>> =>
    /\ \A s \in Slots : Std(s) => InstanceOf(s) \in AttachedInst
    /\ \A k \in DOMAIN attached :
         attached[k].guid \notin Unsupported
           => \E s \in Slots : Std(s) /\ InstanceOf(s) = attached[k].instance

\* The launcher hears of a new controller while a slot is free.
HearsOf(n) ==
  /\ mode = "launcher" /\ queue # <<>>
  /\ Head(queue).type = "JOYADDED" /\ Head(queue).which \in Indices
  /\ DeviceAt(Head(queue).which).instance = n
  /\ DeviceAt(Head(queue).which).guid \notin Unsupported
  /\ Free(gDesignatedControllers) # {}

\* "Gamepads can be hotplugged and automatically detected in the launcher
\* interface" (README.md:28-29): a new controller the launcher hears of while a slot
\* is free has a slot afterwards.
HotplugIsDetected ==
  [][\A n \in Instances :
       HearsOf(n) /\ queue' = Tail(queue)
         => \E s \in Slots : Std(s)' /\ InstanceOf(s)' = n]_vars

\* Whatever comes of events, indices, Wiimotes and resets, players take the first free
\* slot, keep it until their number is called, and are counted: the table implements
\* SlotTable. SDL's controllers and Wiimotes share the numbers (controller.cpp:144).
Players == INSTANCE SlotTable
             WITH Numbers <- Instances \cup {0, 1},
                  player  <- [s \in Slots |-> gDesignatedControllers[s].instance],
                  number  <- gNumDesignatedControllers
ImplementsSlotTable == Players!Spec

\* The event loops run as long as the launcher or an emulator does.
FairSpec == Spec /\ WF_vars(PollEvent)

\* Hotplug reaches its goal: a controller that is gone leaves its slot ...
GoneControllersLeave ==
  \A n \in Instances :
    (n \notin AttachedInst /\ \E s \in Slots : Std(s) /\ InstanceOf(s) = n)
      ~> ~\E s \in Slots : Std(s) /\ InstanceOf(s) = n

\* ... and one that is attached gets a slot, unless it is unplugged before.
ComingControllersArrive ==
  \A n \in Instances :
    (\E k \in DOMAIN attached :
       attached[k].instance = n /\ attached[k].guid \notin Unsupported)
      ~> \/ n \notin AttachedInst
         \/ \E s \in Slots : Std(s) /\ InstanceOf(s) = n
=============================================================================
