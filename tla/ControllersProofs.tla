------------------------- MODULE ControllersProofs -------------------------
(***************************************************************************)
(* Theorems about Controllers for every value of its constants.            *)
(***************************************************************************)
EXTENDS Controllers, FiniteSetTheorems, SequenceTheorems, WellFoundedInduction, TLAPS

SlotValues == FreeSlots \cup StdSlots \cup WiiSlots
SlotArrays == [Slots -> SlotValues]
Tables     == [slots : SlotArrays, num : Int]

-----------------------------------------------------------------------------
(* Sets and sequences.                                                     *)

\* A non-empty set of natural numbers has a smallest element.
LEMMA SmallestExists ==
  ASSUME NEW T, T \subseteq Nat, T # {}
  PROVE  \E m \in T : \A n \in T : m <= n
<1> DEFINE Below == {0 .. n : n \in T}
<1>1. Below \subseteq FiniteSubsetsOf(Nat) /\ Below # {}
  <2>1. ASSUME NEW n \in T
        PROVE  0 .. n \in FiniteSubsetsOf(Nat)
    <3>1. IsFiniteSet(0 .. n)
      BY FS_Interval
    <3>2. 0 .. n \in SUBSET Nat
      OBVIOUS
    <3> QED
      BY <3>1, <3>2, Zenon DEF FiniteSubsetsOf
  <2> QED
    BY <2>1, Zenon
<1>2. PICK B \in Below : \A C \in Below : <<C, B>> \notin StrictSubsetOrdering(Nat)
  <2>1. IsWellFoundedOn(StrictSubsetOrdering(Nat), FiniteSubsetsOf(Nat))
    BY FS_StrictSubsetOrderingWellFounded
  <2> HIDE DEF Below
  <2> QED
    BY <1>1, <2>1, WFMin, Zenon
<1>3. PICK m \in T : B = 0 .. m
  OBVIOUS
<1>4. ASSUME NEW n \in T, n < m
      PROVE  FALSE
  <2>1. 0 .. n \in Below /\ 0 .. n \subseteq 0 .. m /\ m \in 0 .. m /\ m \notin 0 .. n
    BY <1>4
  <2>2. 0 .. n \in SUBSET Nat /\ 0 .. m \in SUBSET Nat
    OBVIOUS
  <2> QED
    BY <1>2, <1>3, <2>1, <2>2, Zenon DEF StrictSubsetOrdering
<1> QED
  BY <1>4

\* The first free slot is a free slot.
LEMMA FirstFreeIsFree ==
  ASSUME NEW slots, Free(slots) # {}
  PROVE  FirstFree(slots) \in Free(slots)
<1>1. Free(slots) \subseteq Nat
  BY NumbersAssumption DEF Free, Slots
<1> QED
  BY <1>1, SmallestExists DEF FirstFree

\* An event behind the queue, or two.
LEMMA QueuePlus ==
  ASSUME NEW q \in Seq(Events), NEW e \in Events, NEW f \in Events, NEW b \in BOOLEAN
  PROVE  q \o <<e>> \o (IF b THEN <<f>> ELSE <<>>) \in Seq(Events)
<1>1. <<e>> \in Seq(Events) /\ <<f>> \in Seq(Events) /\ <<>> \in Seq(Events)
  OBVIOUS
<1>2. q \o <<e>> \in Seq(Events)
  BY <1>1, ConcatProperties
<1> QED
  BY <1>1, <1>2, ConcatProperties

\* What SDL posts after a reset are events.
LEMMA RepostsType ==
  ASSUME attached \in Seq(Devices), NEW db, NEW posted \in Reposts(db)
  PROVE  posted \in Seq(Events)
<1> DEFINE mapped == {i \in Indices : HasMapping(DeviceAt(i).guid, db)}
<1>1. IsFiniteSet(mapped) /\ mapped \subseteq Int
  <2>1. Len(attached) \in Nat
    BY LenProperties
  <2>2. IsFiniteSet(Indices) /\ Indices \subseteq Int
    BY <2>1, FS_Interval DEF Indices
  <2> QED
    BY <2>2, FS_Subset
<1>2. Cardinality(mapped) \in Nat
  BY <1>1, FS_CardinalityType
<1> HIDE DEF mapped
<1>3. PICK f \in [1 .. Cardinality(mapped) -> mapped] :
        posted = [k \in DOMAIN f |-> Added("CONTROLLERADDED", f[k])]
  BY DEF Reposts, mapped
<1>4. \A k \in 1 .. Cardinality(mapped) : Added("CONTROLLERADDED", f[k]) \in Events
  BY <1>1 DEF Added, Events
<1> QED
  BY <1>2, <1>3, <1>4

-----------------------------------------------------------------------------
(* The operations of the table map tables to tables.                       *)

LEMMA EmptyTableType == EmptyTable \in Tables
  BY DEF EmptyTable, Tables, SlotArrays, SlotValues, FreeSlots

LEMMA SlotsFinite == IsFiniteSet(Slots)
  BY FS_Interval, NumbersAssumption DEF Slots

LEMMA ClosedJoysType ==
  ASSUME NEW t \in Tables, NEW ids
  PROVE  ClosedJoys(t, ids) \in Tables
<1> DEFINE gone == Holding(t.slots, {n \in ids : n < MaxPlugged})
<1>1. Cardinality(gone) \in Nat
  <2>1. gone \subseteq Slots
    BY DEF Holding
  <2> QED
    BY <2>1, SlotsFinite, FS_Subset, FS_CardinalityType
<1>2. t.num - Cardinality(gone) \in Int
  BY <1>1 DEF Tables
<1>3. [s \in Slots |-> IF s \in gone THEN NoController ELSE t.slots[s]] \in SlotArrays
  BY DEF Tables, SlotArrays, SlotValues, FreeSlots
<1> QED
  BY <1>2, <1>3 DEF ClosedJoys, Tables

LEMMA DesignatedType ==
  ASSUME attached \in Seq(Devices), NEW t \in Tables, NEW s, NEW i \in Indices,
         i < MaxPlugged, NEW ok \in BOOLEAN
  PROVE  Designated(t, s, i, ok) \in Tables
<1> DEFINE new == [numberOfDevices |-> 1, instance |-> DeviceAt(i).instance,
                   index |-> i, controllerType |-> STD,
                   joy |-> DeviceAt(i).guid, mappingOK |-> ok]
<1>1. DeviceAt(i) \in Devices /\ i \in Nat
  BY LenProperties, ElementOfSeq DEF DeviceAt, Indices
<1>2. new \in SlotValues
  BY <1>1, NumbersAssumption DEF SlotValues, StdSlots, Devices
<1>3. [t.slots EXCEPT ![s] = new] \in SlotArrays
  BY <1>2 DEF Tables, SlotArrays
<1>4. (IF devicesPerType(STD) = 1 THEN t.num + 1 ELSE t.num) \in Int
  BY DEF Tables
<1> QED
  BY <1>3, <1>4 DEF Designated, Tables

LEMMA DesignatedAfterResetType ==
  ASSUME NEW s
  PROVE  DesignatedAfterReset(s) \in Tables
<1> DEFINE arr == [EmptyTable.slots EXCEPT ![s].mappingOK = TRUE]
<1>1. EmptyTable.slots = [r \in Slots |-> NoController]
  BY DEF EmptyTable
<1>2. arr = [r \in Slots |-> IF r = s THEN [NoController EXCEPT !.mappingOK = TRUE]
                             ELSE NoController]
  BY <1>1
<1>3. arr \in SlotArrays
  <2> HIDE DEF arr
  <2> QED
    BY <1>2 DEF SlotArrays, SlotValues, FreeSlots
<1>4. (IF devicesPerType(-1) = 0 THEN 1 ELSE 0) \in Int
  OBVIOUS
<1> HIDE DEF arr
<1> QED
  BY <1>3, <1>4 DEF DesignatedAfterReset, Tables, arr

LEMMA WiimoteType ==
  ASSUME NEW t \in Tables, NEW w \in {0, 1}
  PROVE  OpenedWiimote(t, w) \in Tables /\ ClosedWiimote(t, w) \in Tables
<1> DEFINE new == [numberOfDevices |-> 1, instance |-> w, index |-> -1,
                   controllerType |-> WIIMOTE, joy |-> NoGuid, mappingOK |-> TRUE]
<1>1. new \in SlotValues /\ NoController \in SlotValues
  BY DEF SlotValues, WiiSlots, FreeSlots
<1>2. t.slots \in SlotArrays /\ t.num \in Int
  BY DEF Tables
<1>3. OpenedWiimote(t, w) \in Tables
  <2>1. [t.slots EXCEPT ![FirstFree(t.slots)] = new] \in SlotArrays
    BY <1>1, <1>2 DEF SlotArrays
  <2> HIDE DEF new
  <2> QED
    BY <1>2, <2>1 DEF OpenedWiimote, Tables, new
<1>4. ClosedWiimote(t, w) \in Tables
  <2> DEFINE own == {s \in Slots : /\ t.slots[s].controllerType = WIIMOTE
                                   /\ t.slots[s].instance = w}
             first == CHOOSE s \in own : \A r \in own : s <= r
  <2>1. [t.slots EXCEPT ![first] = NoController] \in SlotArrays
    BY <1>1, <1>2 DEF SlotArrays
  <2> QED
    BY <1>2, <2>1 DEF ClosedWiimote, Tables
<1> QED
  BY <1>3, <1>4

LEMMA WiimoteTickType ==
  ASSUME NEW t \in Tables, NEW w \in {0, 1}, NEW online, NEW still
  PROVE  WiimoteTick(t, w, online, still) \in Tables
  BY WiimoteType DEF WiimoteTick

-----------------------------------------------------------------------------
(* The handlers.                                                           *)

LEMMA TableType ==
  ASSUME TypeOK
  PROVE  Table \in Tables
  BY DEF TypeOK, Table, Tables, SlotArrays, SlotValues

\* The part of TypeOK a handler of the poll loop can disturb.
HandlerOK ==
  /\ queue \in Seq(Events)
  /\ gDesignatedControllers \in SlotArrays
  /\ gNumDesignatedControllers \in Int
  /\ gGamepad \in [0 .. MaxPlugged - 1 -> Instances \cup {-1}]
  /\ internalDB \subseteq Guids
  /\ confPage \in {-1, 0, 1}

LEMMA SetTableType ==
  ASSUME NEW t \in Tables, SetTable(t)
  PROVE  gDesignatedControllers' \in SlotArrays /\ gNumDesignatedControllers' \in Int
  BY DEF SetTable, Tables

LEMMA NoGamepadsType == NoGamepads \in [0 .. MaxPlugged - 1 -> Instances \cup {-1}]
  BY DEF NoGamepads

LEMMA ClosedPageType ==
  ASSUME confPage \in {-1, 0, 1}, NEW slots, NEW ids
  PROVE  ClosedPage(slots, ids) \in {-1, 0, 1}
  BY DEF ClosedPage

LEMMA ResetType ==
  ASSUME TypeOK, NEW t, NEW db \in SUBSET Guids, NEW rest \in Seq(Events),
         ResetSDL(t, db, rest)
  PROVE  /\ queue' \in Seq(Events) /\ internalDB' \subseteq Guids
         /\ gGamepad' \in [0 .. MaxPlugged - 1 -> Instances \cup {-1}]
         /\ confPage' \in {-1, 0, 1}
<1>1. PICK posted \in Reposts(db) : queue' = rest \o posted
  BY DEF ResetSDL
<1>2. posted \in Seq(Events)
  BY RepostsType DEF TypeOK
<1>3. queue' \in Seq(Events)
  BY <1>1, <1>2, ConcatProperties
<1>4. confPage' \in {-1, 0, 1}
  BY ClosedPageType DEF ResetSDL, TypeOK
<1> QED
  BY <1>3, <1>4, NoGamepadsType DEF ResetSDL

\* gGamepad[] holds instances of devices.
LEMMA GamepadType ==
  ASSUME TypeOK, NEW i \in Indices
  PROVE  /\ DeviceAt(i) \in Devices
         /\ [gGamepad EXCEPT ![i] = DeviceAt(i).instance]
              \in [0 .. MaxPlugged - 1 -> Instances \cup {-1}]
<1>1. DeviceAt(i) \in Devices
  BY LenProperties, ElementOfSeq DEF DeviceAt, Indices, TypeOK
<1>2. DeviceAt(i).instance \in Instances
  BY <1>1 DEF Devices
<1> QED
  BY <1>1, <1>2 DEF TypeOK

LEMMA openJoyType ==
  ASSUME TypeOK, NEW i, NEW rest \in Seq(Events), openJoy(i, rest)
  PROVE  HandlerOK'
<1>1. CASE ~(i \in Indices /\ i < MaxPlugged /\ Designate(i, rest))
  <2>1. /\ queue' = rest /\ UNCHANGED <<gDesignatedControllers,
                                  gNumDesignatedControllers, internalDB, confPage>>
        /\ \/ gGamepad' = gGamepad
           \/ i \in Indices /\ gGamepad' = [gGamepad EXCEPT ![i] = DeviceAt(i).instance]
    BY <1>1 DEF openJoy, table
  <2> QED
    BY <2>1, GamepadType DEF HandlerOK, TypeOK, SlotArrays, SlotValues
<1>2. CASE i \in Indices /\ i < MaxPlugged /\ Designate(i, rest)
  <2> DEFINE s == FirstFree(gDesignatedControllers)
             g == DeviceAt(i).guid
             Keep(ok, db) ==
               /\ SetTable(Designated(Table, s, i, ok))
               /\ gGamepad' = [gGamepad EXCEPT ![i] = DeviceAt(i).instance]
               /\ internalDB' = db
               /\ queue' = rest
               /\ UNCHANGED confPage
  <2>1. g \in Guids
    BY <1>2, GamepadType DEF Devices
  <2>2. ASSUME NEW ok \in BOOLEAN, NEW db \in SUBSET Guids, Keep(ok, db)
        PROVE  HandlerOK'
    <3>1. Designated(Table, s, i, ok) \in Tables
      BY <1>2, DesignatedType, TableType DEF TypeOK
    <3>2. gDesignatedControllers' \in SlotArrays /\ gNumDesignatedControllers' \in Int
      BY <2>2, <3>1, SetTableType
    <3> QED
      BY <1>2, <2>2, <3>2, GamepadType DEF HandlerOK, TypeOK
  <2>3. CASE \/ Keep(TRUE, internalDB) \/ Keep(FALSE, internalDB)
             \/ Keep(FALSE, internalDB \cup {g})
    <3>1. internalDB \in SUBSET Guids /\ internalDB \cup {g} \in SUBSET Guids
      BY <2>1 DEF TypeOK
    <3> HIDE DEF Keep
    <3> QED
      BY <2>2, <2>3, <3>1
  <2>4. CASE /\ SetTable(DesignatedAfterReset(s))
             /\ ResetSDL(Designated(Table, s, i, FALSE), internalDB \cup {g}, rest)
    <3>1. internalDB \cup {g} \in SUBSET Guids
      BY <2>1 DEF TypeOK
    <3>2. gDesignatedControllers' \in SlotArrays /\ gNumDesignatedControllers' \in Int
      BY <2>4, DesignatedAfterResetType, SetTableType
    <3> QED
      BY <2>4, <3>1, <3>2, ResetType DEF HandlerOK
  <2> QED
    BY <1>2, <2>3, <2>4 DEF Designate
<1> QED
  BY <1>1, <1>2 DEF openJoy

LEMMA closeJoyType ==
  ASSUME TypeOK, NEW n \in Int, NEW rest \in Seq(Events), closeJoy(n, rest)
  PROVE  HandlerOK'
<1>1. gDesignatedControllers' \in SlotArrays /\ gNumDesignatedControllers' \in Int
  BY TableType, ClosedJoysType, SetTableType DEF closeJoy
<1>2. confPage' \in {-1, 0, 1}
  BY ClosedPageType DEF closeJoy, TypeOK
<1>3. gGamepad' \in [0 .. MaxPlugged - 1 -> Instances \cup {-1}]
  BY DEF closeJoy, TypeOK
<1> QED
  BY <1>1, <1>2, <1>3 DEF closeJoy, HandlerOK, TypeOK

-----------------------------------------------------------------------------
(* Type correctness.                                                       *)

LEMMA InitType == Init => TypeOK
<1> SUFFICES ASSUME Init PROVE TypeOK
  OBVIOUS
<1>1. EmptyTable.slots \in SlotArrays
  BY EmptyTableType DEF Tables
<1> QED
  BY <1>1, NoGamepadsType, NumbersAssumption
     DEF Init, TypeOK, SlotArrays, SlotValues

\* Every action but those of SDL leaves the devices, and a step of the table and
\* the queue is a step of HandlerOK.
LEMMA HandlerType ==
  ASSUME TypeOK, HandlerOK', UNCHANGED sdl,
         g_wiimotes' \in [{0, 1} -> BOOLEAN], wiimoteOnline_prev' \in [{0, 1} -> BOOLEAN],
         mode' \in {"launcher", "forwarding", "deaf"}
  PROVE  TypeOK'
  BY DEF TypeOK, HandlerOK, sdl, SlotArrays, SlotValues

LEMMA AttachType ==
  ASSUME TypeOK, NEW g \in Guids, Attach(g)
  PROVE  TypeOK'
<1> DEFINE e == Added("JOYADDED", Len(attached))
           f == Added("CONTROLLERADDED", Len(attached))
           b == HasMapping(g, internalDB)
<1>1. Len(attached) \in Nat
  BY LenProperties DEF TypeOK
<1>2. e \in Events /\ f \in Events /\ b \in BOOLEAN
  BY <1>1 DEF Added, Events, HasMapping
<1>3. queue' \in Seq(Events)
  <2>1. queue' = queue \o <<e>> \o (IF b THEN <<f>> ELSE <<>>)
    BY DEF Attach
  <2> HIDE DEF e, f, b
  <2> QED
    BY <1>2, <2>1, QueuePlus DEF TypeOK
<1>4. attached' \in Seq(Devices) /\ nextInstance' \in 0 .. MaxInstances
  <2>1. [instance |-> nextInstance, guid |-> g] \in Devices
    BY NumbersAssumption DEF Attach, TypeOK, Devices, Instances
  <2>2. nextInstance' \in 0 .. MaxInstances
    BY NumbersAssumption DEF Attach, TypeOK
  <2> QED
    BY <2>1, <2>2, AppendProperties DEF Attach, TypeOK
<1> QED
  BY <1>3, <1>4 DEF Attach, TypeOK, table, wii

LEMMA RenumberedType ==
  ASSUME NEW e \in Events, NEW i \in Int
  PROVE  Renumbered(e, i) \in Events
  BY DEF Renumbered, Events

LEMMA DetachType ==
  ASSUME TypeOK, NEW i, Detach(i)
  PROVE  TypeOK'
<1>1. Len(attached) \in Nat /\ i \in 0 .. Len(attached) - 1
  BY LenProperties DEF TypeOK, Detach, Indices
<1>2. attached' \in Seq(Devices)
  <2>1. \A k \in 1 .. Len(attached) - 1 :
          (IF k <= i THEN attached[k] ELSE attached[k + 1]) \in Devices
    BY <1>1, ElementOfSeq DEF TypeOK
  <2> QED
    BY <1>1, <2>1 DEF Detach
<1>3. queue' \in Seq(Events)
  <2> DEFINE q == [k \in DOMAIN queue |-> Renumbered(queue[k], i)]
             e == Added("JOYREMOVED", DeviceAt(i).instance)
             f == Added("CONTROLLERREMOVED", DeviceAt(i).instance)
             b == HasMapping(DeviceAt(i).guid, internalDB)
  <2>1. q \in Seq(Events)
    <3>1. Len(queue) \in Nat /\ DOMAIN queue = 1 .. Len(queue)
      BY LenProperties DEF TypeOK
    <3>2. \A k \in 1 .. Len(queue) : Renumbered(queue[k], i) \in Events
      BY <1>1, <3>1, RenumberedType, ElementOfSeq DEF TypeOK
    <3> QED
      BY <3>1, <3>2
  <2>2. e \in Events /\ f \in Events /\ b \in BOOLEAN
    <3>1. DeviceAt(i).instance \in Int
      BY <1>1, GamepadType, NumbersAssumption DEF Indices, Devices, Instances
    <3> QED
      BY <3>1 DEF Added, Events, HasMapping
  <2>3. queue' = q \o <<e>> \o (IF b THEN <<f>> ELSE <<>>)
    BY DEF Detach
  <2> HIDE DEF q, e, f, b
  <2> QED
    BY <2>1, <2>2, <2>3, QueuePlus
<1> QED
  BY <1>2, <1>3 DEF Detach, TypeOK, table, wii

LEMMA PollEventType ==
  ASSUME TypeOK, PollEvent
  PROVE  TypeOK'
<1> DEFINE e == Head(queue)
           rest == Tail(queue)
<1>1. e \in Events /\ rest \in Seq(Events)
  BY HeadTailProperties DEF PollEvent, TypeOK
<1>2. e.which \in Int
  BY <1>1 DEF Events
<1>3. HandlerOK'
  <2>1. CASE openJoy(e.which, rest)
    BY <1>1, <2>1, openJoyType
  <2>2. CASE closeJoy(e.which, rest)
    BY <1>1, <1>2, <2>2, closeJoyType
  <2>3. CASE queue' = rest /\ UNCHANGED <<table, internalDB, confPage>>
    BY <1>1, <2>3 DEF HandlerOK, TypeOK, table, SlotArrays, SlotValues
  <2> QED
    BY <2>1, <2>2, <2>3 DEF PollEvent
<1> QED
  BY <1>3, HandlerType DEF PollEvent, wii, TypeOK

LEMMA setMappingType ==
  ASSUME TypeOK, NEW c \in Configured, setMapping(c)
  PROVE  TypeOK'
<1> DEFINE g == gDesignatedControllers[c].joy
<1>1. PICK written \in BOOLEAN :
        ResetSDL(Table, IF written /\ g # NoGuid THEN internalDB \cup {g}
                        ELSE internalDB, queue)
  BY SetsAssumption DEF setMapping
<1>2. g # NoGuid => g \in Guids
  <2>1. c \in Slots
    BY SetsAssumption, NumbersAssumption DEF Slots
  <2>2. gDesignatedControllers[c] \in FreeSlots \cup StdSlots \cup WiiSlots
    BY <2>1 DEF TypeOK
  <2>3. \A v \in FreeSlots : v.joy = NoGuid
    BY DEF FreeSlots, NoController
  <2>4. \A v \in StdSlots : v.joy \in Guids
    BY DEF StdSlots
  <2>5. \A v \in WiiSlots : v.joy = NoGuid
    BY DEF WiiSlots
  <2> QED
    BY <2>2, <2>3, <2>4, <2>5
<1>3. (IF written /\ g # NoGuid THEN internalDB \cup {g} ELSE internalDB) \in SUBSET Guids
  BY <1>2 DEF TypeOK
<1>4. gDesignatedControllers' \in SlotArrays /\ gNumDesignatedControllers' \in Int
  BY EmptyTableType, SetTableType DEF setMapping
<1>5. queue \in Seq(Events)
  BY DEF TypeOK
<1>6. HandlerOK'
  BY <1>1, <1>3, <1>4, <1>5, ResetType DEF HandlerOK
<1> QED
  BY <1>6, HandlerType DEF setMapping, wii, TypeOK

LEMMA mainLoopWiiType ==
  ASSUME TypeOK, mainLoopWii
  PROVE  TypeOK'
<1>1. PICK lost :
        /\ SetTable(WiimoteTick(WiimoteTick(Table, 0, g_wiimotes[0], 0 \notin lost),
                                1, g_wiimotes[1], 1 \notin lost))
        /\ g_wiimotes' = [w \in {0, 1} |-> g_wiimotes[w] /\ w \notin lost]
  BY DEF mainLoopWii
<1>2. gDesignatedControllers' \in SlotArrays /\ gNumDesignatedControllers' \in Int
  BY <1>1, TableType, WiimoteTickType, SetTableType
<1>3. HandlerOK'
  BY <1>2 DEF mainLoopWii, HandlerOK, TypeOK
<1>4. g_wiimotes' \in [{0, 1} -> BOOLEAN] /\ wiimoteOnline_prev' \in [{0, 1} -> BOOLEAN]
  BY <1>1, Zenon DEF mainLoopWii, TypeOK
<1> QED
  BY <1>3, <1>4, HandlerType DEF mainLoopWii, TypeOK

LEMMA NextType == TypeOK /\ [Next]_vars => TypeOK'
<1> SUFFICES ASSUME TypeOK, [Next]_vars PROVE TypeOK'
  OBVIOUS
<1>1. ASSUME NEW g \in Guids, Attach(g) PROVE TypeOK'
  BY <1>1, AttachType
<1>2. ASSUME NEW i \in 0 .. MaxAttached - 1, Detach(i) PROVE TypeOK'
  BY <1>2, DetachType
<1>3. CASE PollEvent
  BY <1>3, PollEventType
<1>4. ASSUME NEW c \in Configured, setMapping(c) PROVE TypeOK'
  BY <1>4, setMappingType
<1>5. ASSUME NEW w \in Wiimotes, Scan(w) PROVE TypeOK'
  BY <1>5, SetsAssumption DEF Scan, TypeOK, sdl, table
<1>6. CASE mainLoopWii
  BY <1>6, mainLoopWiiType
<1>7. ASSUME NEW p \in {-1, 0, 1}, ShowPage(p) PROVE TypeOK'
  BY <1>7 DEF ShowPage, TypeOK, sdl, table, wii
<1>8. ASSUME NEW e \in Emulators, launch_emulator(e) PROVE TypeOK'
  BY <1>8, SetsAssumption DEF launch_emulator, TypeOK, sdl, table, wii
<1>9. CASE EmulatorReturns
  BY <1>9 DEF EmulatorReturns, TypeOK, sdl, table, wii
<1>10. CASE UNCHANGED vars
  BY <1>10 DEF vars, TypeOK, sdl, table, wii
<1> QED
  BY <1>1, <1>2, <1>3, <1>4, <1>5, <1>6, <1>7, <1>8, <1>9, <1>10 DEF Next

\* The queue, the table, the page and the pairing of a slot's fields stay in
\* their types through every handler (TypeOK).
THEOREM TypeCorrect == Spec => []TypeOK
  BY InitType, NextType, PTL DEF Spec

-----------------------------------------------------------------------------
(* The number of designated controllers.                                   *)

OccupiedIn(slots) == Slots \ Free(slots)

Counted(t) ==
  /\ t.num >= Cardinality(OccupiedIn(t.slots))
  /\ DevicesPerTypeBelow # 0 => t.num = Cardinality(OccupiedIn(t.slots))

LEMMA OccupiedFinite ==
  ASSUME NEW slots
  PROVE  /\ IsFiniteSet(OccupiedIn(slots)) /\ Cardinality(OccupiedIn(slots)) \in Nat
         /\ Free(slots) \subseteq Slots
<1>1. OccupiedIn(slots) \subseteq Slots /\ Free(slots) \subseteq Slots
  BY DEF OccupiedIn, Free
<1> QED
  BY <1>1, SlotsFinite, FS_Subset, FS_CardinalityType

\* A slot that has an instance or a type is occupied.
LEMMA HoldersAreOccupied ==
  ASSUME NEW slots \in SlotArrays, NEW s \in Slots
  PROVE  /\ slots[s].instance # -1 => s \in OccupiedIn(slots)
         /\ slots[s].controllerType # -1 => s \in OccupiedIn(slots)
<1>1. slots[s] \in SlotValues
  BY DEF SlotArrays
<1>2. slots[s] \in FreeSlots => slots[s].instance = -1 /\ slots[s].controllerType = -1
  BY DEF FreeSlots, NoController
<1>3. slots[s] \in StdSlots \cup WiiSlots => slots[s].numberOfDevices # 0
  <2>1. \A v \in StdSlots : v.numberOfDevices = 1
    BY DEF StdSlots
  <2>2. \A v \in WiiSlots : v.numberOfDevices = 1
    BY DEF WiiSlots
  <2> QED
    BY <2>1, <2>2
<1> QED
  BY <1>1, <1>2, <1>3 DEF SlotValues, OccupiedIn, Free

\* Putting a device into a free slot, and counting it.
LEMMA FilledIsCounted ==
  ASSUME NEW t \in Tables, Counted(t), NEW s \in Free(t.slots),
         NEW new, new.numberOfDevices = 1
  PROVE  Counted([slots |-> [t.slots EXCEPT ![s] = new], num |-> t.num + 1])
<1> DEFINE slots == [t.slots EXCEPT ![s] = new]
<1>1. s \in Slots /\ s \notin OccupiedIn(t.slots)
  BY DEF Free, OccupiedIn
<1>2. OccupiedIn(slots) = OccupiedIn(t.slots) \cup {s}
  BY <1>1 DEF OccupiedIn, Free, Tables, SlotArrays
<1>3. Cardinality(OccupiedIn(slots)) = Cardinality(OccupiedIn(t.slots)) + 1
  BY <1>1, <1>2, OccupiedFinite, FS_AddElement
<1> HIDE DEF slots
<1>4. Cardinality(OccupiedIn(t.slots)) \in Nat /\ t.num \in Int
  BY OccupiedFinite DEF Tables
<1>5. Counted([slots |-> slots, num |-> t.num + 1])
  BY <1>3, <1>4 DEF Counted
<1> QED
  BY <1>5 DEF slots

LEMMA EmptyIsCounted ==
  /\ OccupiedIn(EmptyTable.slots) = {}
  /\ Counted(EmptyTable)
<1>1. OccupiedIn(EmptyTable.slots) = {}
  BY DEF OccupiedIn, Free, EmptyTable, NoController
<1> QED
  BY <1>1, FS_EmptySet DEF Counted, EmptyTable

LEMMA ClosedJoysCounted ==
  ASSUME NEW t \in Tables, Counted(t), NEW ids
  PROVE  Counted(ClosedJoys(t, ids))
<1> DEFINE gone == Holding(t.slots, {n \in ids : n < MaxPlugged})
           slots == [s \in Slots |-> IF s \in gone THEN NoController ELSE t.slots[s]]
           occ == OccupiedIn(t.slots)
<1>1. gone \subseteq occ
  BY HoldersAreOccupied DEF Holding, Tables
<1>2. OccupiedIn(slots) = occ \ gone /\ occ \cap gone = gone
  BY <1>1 DEF OccupiedIn, Free, NoController
<1>3. Cardinality(gone) \in Nat
  BY <1>1, OccupiedFinite, FS_Subset, FS_CardinalityType
<1>4. Cardinality(OccupiedIn(slots)) = Cardinality(occ) - Cardinality(gone)
  BY <1>2, OccupiedFinite, FS_Difference
<1> HIDE DEF gone, slots
<1>5. Counted([slots |-> slots, num |-> t.num - Cardinality(gone)])
  BY <1>3, <1>4, OccupiedFinite DEF Counted, Tables
<1> QED
  BY <1>5 DEF ClosedJoys, gone, slots

LEMMA DesignatedCounted ==
  ASSUME NEW t \in Tables, Counted(t), NEW s \in Free(t.slots), NEW i, NEW ok
  PROVE  Counted(Designated(t, s, i, ok))
<1> DEFINE new == [numberOfDevices |-> 1, instance |-> DeviceAt(i).instance,
                   index |-> i, controllerType |-> STD,
                   joy |-> DeviceAt(i).guid, mappingOK |-> ok]
<1>1. new.numberOfDevices = 1
  OBVIOUS
<1> HIDE DEF new
<1>2. Counted([slots |-> [t.slots EXCEPT ![s] = new], num |-> t.num + 1])
  BY <1>1, FilledIsCounted
<1>3. devicesPerType(STD) = 1
  BY DEF devicesPerType, STD
<1> QED
  BY <1>2, <1>3 DEF Designated, new

LEMMA AfterResetCounted ==
  ASSUME NEW s
  PROVE  Counted(DesignatedAfterReset(s))
<1> DEFINE arr == [EmptyTable.slots EXCEPT ![s].mappingOK = TRUE]
<1>1. \A r \in Slots : arr[r].numberOfDevices = 0
  BY DEF EmptyTable, NoController
<1>2. OccupiedIn(arr) = {}
  BY <1>1 DEF OccupiedIn, Free
<1>3. Cardinality(OccupiedIn(arr)) = 0
  BY <1>2, FS_EmptySet
<1> DEFINE n == IF devicesPerType(-1) = 0 THEN 1 ELSE 0
<1>4. n >= 0 /\ (DevicesPerTypeBelow # 0 => n = 0)
  BY DEF devicesPerType
<1> HIDE DEF arr, n
<1>5. Counted([slots |-> arr, num |-> n])
  BY <1>3, <1>4 DEF Counted
<1> QED
  BY <1>5 DEF DesignatedAfterReset, arr, n

LEMMA WiimoteCounted ==
  ASSUME NEW t \in Tables, Counted(t), NEW w \in {0, 1}
  PROVE  Counted(OpenedWiimote(t, w)) /\ Counted(ClosedWiimote(t, w))
<1>1. Counted(OpenedWiimote(t, w))
  <2> DEFINE new == [numberOfDevices |-> 1, instance |-> w, index |-> -1,
                     controllerType |-> WIIMOTE, joy |-> NoGuid, mappingOK |-> TRUE]
  <2>1. CASE Free(t.slots) = {}
    BY <2>1 DEF OpenedWiimote
  <2>2. CASE Free(t.slots) # {}
    <3>1. FirstFree(t.slots) \in Free(t.slots)
      BY <2>2, FirstFreeIsFree
    <3>2. new.numberOfDevices = 1
      OBVIOUS
    <3> HIDE DEF new
    <3>3. Counted([slots |-> [t.slots EXCEPT ![FirstFree(t.slots)] = new],
                   num |-> t.num + 1])
      BY <3>1, <3>2, FilledIsCounted
    <3> QED
      BY <2>2, <3>3 DEF OpenedWiimote, new
  <2> QED
    BY <2>1, <2>2
<1>2. Counted(ClosedWiimote(t, w))
  <2> DEFINE own == {s \in Slots : /\ t.slots[s].controllerType = WIIMOTE
                                   /\ t.slots[s].instance = w}
             first == CHOOSE s \in own : \A r \in own : s <= r
             slots == [t.slots EXCEPT ![first] = NoController]
             occ == OccupiedIn(t.slots)
  <2>1. CASE own = {}
    BY <2>1 DEF ClosedWiimote
  <2>2. CASE own # {}
    <3>1. own \subseteq Nat /\ own \subseteq occ
      BY NumbersAssumption, HoldersAreOccupied DEF Slots, Tables, WIIMOTE
    <3>2. first \in own
      <4> HIDE DEF own
      <4>1. \E s \in own : \A r \in own : s <= r
        BY <2>2, <3>1, SmallestExists
      <4> QED
        BY <4>1
    <3>3. first \in occ /\ first \in Slots
      BY <3>1, <3>2
    <3> HIDE DEF first
    <3>4. OccupiedIn(slots) = occ \ {first}
      BY <3>3 DEF OccupiedIn, Free, Tables, SlotArrays, NoController
    <3>5. Cardinality(OccupiedIn(slots)) = Cardinality(occ) - 1
      BY <3>3, <3>4, OccupiedFinite, FS_RemoveElement
    <3> HIDE DEF slots
    <3>6. Counted([slots |-> slots, num |-> t.num - 1])
      BY <3>5, OccupiedFinite DEF Counted, Tables
    <3> QED
      BY <2>2, <3>6 DEF ClosedWiimote, slots, first
  <2> QED
    BY <2>1, <2>2
<1> QED
  BY <1>1, <1>2

LEMMA WiimoteTickCounted ==
  ASSUME NEW t \in Tables, Counted(t), NEW w \in {0, 1}, NEW online, NEW still
  PROVE  Counted(WiimoteTick(t, w, online, still))
  BY WiimoteCounted DEF WiimoteTick

-----------------------------------------------------------------------------
LEMMA CountOfTable ==
  ASSUME TypeOK
  PROVE  CountMatchesSlots <=> Counted(Table)
  BY DEF CountMatchesSlots, Counted, Table, Occupied, OccupiedIn

LEMMA CountOfNextTable ==
  ASSUME NEW t, Counted(t), SetTable(t)
  PROVE  CountMatchesSlots'
  BY DEF CountMatchesSlots, Counted, SetTable, Occupied, OccupiedIn, Free

LEMMA CountUnchanged ==
  ASSUME CountMatchesSlots,
         UNCHANGED <<gDesignatedControllers, gNumDesignatedControllers>>
  PROVE  CountMatchesSlots'
  BY DEF CountMatchesSlots, Occupied, Free

LEMMA openJoyCounted ==
  ASSUME TypeOK, CountMatchesSlots, NEW i, NEW rest, openJoy(i, rest)
  PROVE  CountMatchesSlots'
<1>1. CASE UNCHANGED <<gDesignatedControllers, gNumDesignatedControllers>>
  BY <1>1, CountUnchanged
<1>2. CASE ~Ignored(i) /\ Designate(i, rest)
  <2> DEFINE s == FirstFree(gDesignatedControllers)
  <2>1. s \in Free(Table.slots)
    BY <1>2, FirstFreeIsFree DEF Ignored, Table
  <2>2. Table \in Tables /\ Counted(Table)
    BY TableType, CountOfTable
  <2>3. ASSUME NEW ok, SetTable(Designated(Table, s, i, ok))
        PROVE  CountMatchesSlots'
    BY <2>1, <2>2, <2>3, DesignatedCounted, CountOfNextTable
  <2>4. CASE SetTable(DesignatedAfterReset(s))
    BY <2>4, AfterResetCounted, CountOfNextTable
  <2>5. \/ \E ok \in BOOLEAN : SetTable(Designated(Table, s, i, ok))
        \/ SetTable(DesignatedAfterReset(s))
    BY <1>2 DEF Designate
  <2> QED
    BY <2>3, <2>4, <2>5
<1> QED
  BY <1>1, <1>2 DEF openJoy, table

LEMMA CountPreserved ==
  TypeOK /\ CountMatchesSlots /\ [Next]_vars => CountMatchesSlots'
<1> SUFFICES ASSUME TypeOK, CountMatchesSlots, [Next]_vars
             PROVE  CountMatchesSlots'
  OBVIOUS
<1>1. Table \in Tables /\ Counted(Table)
  BY TableType, CountOfTable
<1>2. CASE PollEvent
  <2>1. PICK i, rest : \/ openJoy(i, rest) \/ closeJoy(i, rest) \/ UNCHANGED table
    BY <1>2 DEF PollEvent
  <2>2. CASE openJoy(i, rest)
    BY <2>2, openJoyCounted
  <2>3. CASE closeJoy(i, rest)
    BY <1>1, <2>3, ClosedJoysCounted, CountOfNextTable DEF closeJoy
  <2>4. CASE UNCHANGED table
    BY <2>4, CountUnchanged DEF table
  <2> QED
    BY <2>1, <2>2, <2>3, <2>4
<1>3. ASSUME NEW c \in Configured, setMapping(c)
      PROVE  CountMatchesSlots'
  BY <1>3, EmptyIsCounted, CountOfNextTable DEF setMapping
<1>4. CASE mainLoopWii
  <2>1. PICK lost :
          SetTable(WiimoteTick(WiimoteTick(Table, 0, g_wiimotes[0], 0 \notin lost),
                               1, g_wiimotes[1], 1 \notin lost))
    BY <1>4 DEF mainLoopWii
  <2> QED
    BY <1>1, <2>1, WiimoteTickType, WiimoteTickCounted, CountOfNextTable
<1>5. CASE UNCHANGED table
  BY <1>5, CountUnchanged DEF table
<1>6. \/ PollEvent \/ \E c \in Configured : setMapping(c)
      \/ mainLoopWii \/ UNCHANGED table
  BY DEF Next, vars, Attach, Detach, Scan, ShowPage, launch_emulator, EmulatorReturns
<1> QED
  BY <1>2, <1>3, <1>4, <1>5, <1>6

\* gNumDesignatedControllers, by which the menus are built, is the number of
\* occupied slots (at least that number where devicesPerType[-1] reads 0).
THEOREM CountCorrect == Spec => []CountMatchesSlots
<1>1. Init => CountMatchesSlots
  <2> SUFFICES ASSUME Init PROVE CountMatchesSlots
    OBVIOUS
  <2>1. Table = EmptyTable
    BY DEF Init, Table, EmptyTable
  <2> QED
    BY <2>1, InitType, EmptyIsCounted, CountOfTable
<1> QED
  BY <1>1, TypeCorrect, CountPreserved, PTL DEF Spec

-----------------------------------------------------------------------------
(* Controllers that are gone. The events of a queue q that remove instance *)
(* n, and what has to hold of a table t, the attached instances and q.     *)

RemovedIn(q, n) == \E k \in DOMAIN q : q[k] = Added("JOYREMOVED", n)

OnTheirWayOut(slots, present, q) ==
  \A s \in Slots : slots[s].controllerType = STD =>
    \/ slots[s].instance \in present \/ RemovedIn(q, slots[s].instance)
    \/ slots[s].instance >= MaxPlugged

\* Only emulators that forward the events are running.
NobodyIsDeaf == mode # "deaf"

LEMMA GoneIsOnTheirWayOut ==
  GoneControllersAreOnTheirWayOut <=>
    OnTheirWayOut(gDesignatedControllers, AttachedInst, queue)
  BY DEF GoneControllersAreOnTheirWayOut, OnTheirWayOut, Std, InstanceOf, Removed,
         RemovedIn

\* Another queue and other slots will do as well when they miss nothing.
LEMMA StillOnTheirWayOut ==
  ASSUME NEW slots, NEW present, NEW q, OnTheirWayOut(slots, present, q),
         NEW slots2, NEW present2, NEW q2,
         \A s \in Slots : slots2[s].controllerType = STD =>
           \/ slots2[s].instance \in present2
           \/ /\ slots2[s] = slots[s]
              /\ slots[s].instance \in present =>
                   slots[s].instance \in present2 \/ RemovedIn(q2, slots[s].instance)
              /\ RemovedIn(q, slots[s].instance) => RemovedIn(q2, slots[s].instance)
  PROVE  OnTheirWayOut(slots2, present2, q2)
  BY DEF OnTheirWayOut

LEMMA RemovedInConcat ==
  ASSUME NEW q \in Seq(Events), NEW r \in Seq(Events), NEW n,
         RemovedIn(q, n) \/ RemovedIn(r, n)
  PROVE  RemovedIn(q \o r, n)
<1>1. /\ DOMAIN q = 1 .. Len(q) /\ Len(q) \in Nat
      /\ DOMAIN r = 1 .. Len(r) /\ Len(r) \in Nat
      /\ DOMAIN (q \o r) = 1 .. Len(q) + Len(r)
  BY LenProperties, ConcatProperties
<1>2. CASE RemovedIn(q, n)
  <2>1. PICK k \in 1 .. Len(q) : q[k] = Added("JOYREMOVED", n)
    BY <1>1, <1>2 DEF RemovedIn
  <2>2. (q \o r)[k] = q[k] /\ k \in DOMAIN (q \o r)
    BY <1>1, ConcatProperties
  <2> QED
    BY <2>1, <2>2 DEF RemovedIn
<1>3. CASE RemovedIn(r, n)
  <2>1. PICK k \in 1 .. Len(r) : r[k] = Added("JOYREMOVED", n)
    BY <1>1, <1>3 DEF RemovedIn
  <2>2. (q \o r)[Len(q) + k] = r[k] /\ Len(q) + k \in DOMAIN (q \o r)
    BY <1>1, ConcatProperties
  <2> QED
    BY <2>1, <2>2 DEF RemovedIn
<1> QED
  BY <1>2, <1>3

\* The poll loop takes one event off the queue.
LEMMA RemovedInTail ==
  ASSUME NEW q \in Seq(Events), q # <<>>, NEW n, RemovedIn(q, n),
         Head(q) # Added("JOYREMOVED", n)
  PROVE  RemovedIn(Tail(q), n)
<1>1. PICK k \in DOMAIN q : q[k] = Added("JOYREMOVED", n)
  BY DEF RemovedIn
<1>2. k \in 1 .. Len(q) /\ Len(q) \in Nat /\ k # 1
  BY <1>1, LenProperties
<1>3. Tail(q) \in Seq(Events) /\ Len(Tail(q)) = Len(q) - 1
  BY HeadTailProperties
<1>4. k - 1 \in 1 .. Len(Tail(q)) /\ Tail(q)[k - 1] = q[k]
  BY <1>2, <1>3, HeadTailProperties
<1>5. k - 1 \in DOMAIN Tail(q)
  BY <1>3, <1>4, LenProperties
<1> QED
  BY <1>1, <1>4, <1>5 DEF RemovedIn

LEMMA WiimotesBringNoStd ==
  ASSUME NEW t \in Tables, NEW w \in {0, 1}, NEW online, NEW still, NEW s \in Slots,
         WiimoteTick(t, w, online, still).slots[s].controllerType = STD
  PROVE  WiimoteTick(t, w, online, still).slots[s] = t.slots[s]
<1>0. t.slots \in SlotArrays
  BY DEF Tables
<1>2. ASSUME OpenedWiimote(t, w).slots[s].controllerType = STD
      PROVE  OpenedWiimote(t, w).slots[s] = t.slots[s]
  <2> DEFINE new == [numberOfDevices |-> 1, instance |-> w, index |-> -1,
                     controllerType |-> WIIMOTE, joy |-> NoGuid, mappingOK |-> TRUE]
             after == OpenedWiimote(t, w).slots
  <2>1. new.controllerType # STD
    BY DEF WIIMOTE, STD
  <2>2. after = t.slots \/ after = [t.slots EXCEPT ![FirstFree(t.slots)] = new]
    BY DEF OpenedWiimote
  <2>3. after[s].controllerType = STD
    BY <1>2
  <2> HIDE DEF new, after
  <2>4. after[s] = t.slots[s]
    BY <1>0, <2>1, <2>2, <2>3 DEF SlotArrays
  <2> QED
    BY <2>4 DEF after
<1>3. ASSUME ClosedWiimote(t, w).slots[s].controllerType = STD
      PROVE  ClosedWiimote(t, w).slots[s] = t.slots[s]
  <2> DEFINE own == {r \in Slots : /\ t.slots[r].controllerType = WIIMOTE
                                   /\ t.slots[r].instance = w}
             first == CHOOSE r \in own : \A q \in own : r <= q
             after == ClosedWiimote(t, w).slots
  <2>1. NoController.controllerType # STD
    BY DEF NoController, STD
  <2>2. after = t.slots \/ after = [t.slots EXCEPT ![first] = NoController]
    BY DEF ClosedWiimote
  <2>3. after[s].controllerType = STD
    BY <1>3
  <2> HIDE DEF own, first, after
  <2>4. after[s] = t.slots[s]
    BY <1>0, <2>1, <2>2, <2>3 DEF SlotArrays
  <2> QED
    BY <2>4 DEF after
<1> QED
  BY <1>2, <1>3 DEF WiimoteTick

-----------------------------------------------------------------------------
(* One lemma per action that moves a device, an event or a slot.           *)

LEMMA GoneNext ==
  ASSUME OnTheirWayOut(gDesignatedControllers', AttachedInst', queue')
  PROVE  GoneControllersAreOnTheirWayOut'
  BY DEF GoneControllersAreOnTheirWayOut, OnTheirWayOut, Std, InstanceOf, Removed,
         RemovedIn, Added

\* Nothing is lost where the slots stay and no instance is taken away.
LEMMA GoneKept ==
  ASSUME GoneControllersAreOnTheirWayOut,
         gDesignatedControllers' = gDesignatedControllers,
         \A s \in Slots :
           Std(s) /\ (InstanceOf(s) \in AttachedInst \/ RemovedIn(queue, InstanceOf(s)))
             => (InstanceOf(s) \in AttachedInst' \/ RemovedIn(queue', InstanceOf(s)))
  PROVE  GoneControllersAreOnTheirWayOut'
<1>1. OnTheirWayOut(gDesignatedControllers', AttachedInst', queue')
  BY GoneIsOnTheirWayOut DEF OnTheirWayOut, Std, InstanceOf
<1> QED
  BY <1>1, GoneNext

LEMMA AttachGone ==
  ASSUME TypeOK, GoneControllersAreOnTheirWayOut, NEW g \in Guids, Attach(g)
  PROVE  GoneControllersAreOnTheirWayOut'
<1> DEFINE e == Added("JOYADDED", Len(attached))
           f == Added("CONTROLLERADDED", Len(attached))
           b == HasMapping(g, internalDB)
           more == IF b THEN <<f>> ELSE <<>>
<1>1. Len(attached) \in Nat /\ DOMAIN attached = 1 .. Len(attached)
  BY LenProperties DEF TypeOK
<1>2. ASSUME NEW n \in AttachedInst
      PROVE  n \in AttachedInst'
  <2>1. PICK k \in 1 .. Len(attached) : n = attached[k].instance
    BY <1>1 DEF AttachedInst
  <2>2. /\ attached' = Append(attached, [instance |-> nextInstance, guid |-> g])
        /\ [instance |-> nextInstance, guid |-> g] \in Devices
    BY NumbersAssumption DEF Attach, TypeOK, Devices, Instances
  <2>3. attached'[k] = attached[k] /\ attached' \in Seq(Devices)
        /\ Len(attached') = Len(attached) + 1
    BY <2>2, AppendProperties DEF TypeOK
  <2>4. k \in DOMAIN attached'
    BY <1>1, <2>3, LenProperties
  <2> QED
    BY <2>1, <2>3, <2>4 DEF AttachedInst
<1>3. ASSUME NEW n, RemovedIn(queue, n)
      PROVE  RemovedIn(queue', n)
  <2>1. e \in Events /\ f \in Events
    BY <1>1 DEF Added, Events
  <2>2. queue \in Seq(Events) /\ <<e>> \in Seq(Events) /\ more \in Seq(Events)
    BY <2>1 DEF TypeOK
  <2>3. queue' = (queue \o <<e>>) \o more
    BY DEF Attach
  <2> HIDE DEF e, f, b, more
  <2>4. RemovedIn(queue \o <<e>>, n) /\ queue \o <<e>> \in Seq(Events)
    BY <1>3, <2>2, RemovedInConcat, ConcatProperties
  <2> QED
    BY <2>2, <2>3, <2>4, RemovedInConcat
<1>4. gDesignatedControllers' = gDesignatedControllers
  BY DEF Attach, table
<1> QED
  BY <1>2, <1>3, <1>4, GoneKept

\* The queued events that remove a controller are not the ones SDL adjusts.
LEMMA DetachGone ==
  ASSUME TypeOK, GoneControllersAreOnTheirWayOut, NEW i, Detach(i)
  PROVE  GoneControllersAreOnTheirWayOut'
<1> DEFINE q == [k \in DOMAIN queue |-> Renumbered(queue[k], i)]
           e == Added("JOYREMOVED", DeviceAt(i).instance)
           f == Added("CONTROLLERREMOVED", DeviceAt(i).instance)
           b == HasMapping(DeviceAt(i).guid, internalDB)
           more == IF b THEN <<f>> ELSE <<>>
<1>1. /\ Len(attached) \in Nat /\ i \in 0 .. Len(attached) - 1
      /\ DOMAIN attached = 1 .. Len(attached)
  BY LenProperties DEF TypeOK, Detach, Indices
<1>2. e \in Events /\ f \in Events
  <2>1. DeviceAt(i).instance \in Int
    BY <1>1, GamepadType, NumbersAssumption DEF Indices, Devices, Instances
  <2> QED
    BY <2>1 DEF Added, Events
<1>3. q \in Seq(Events)
  <2>1. Len(queue) \in Nat /\ DOMAIN queue = 1 .. Len(queue)
    BY LenProperties DEF TypeOK
  <2>2. \A k \in 1 .. Len(queue) : Renumbered(queue[k], i) \in Events
    BY <1>1, <2>1, RenumberedType, ElementOfSeq DEF TypeOK
  <2> QED
    BY <2>1, <2>2
<1>4. queue' = (q \o <<e>>) \o more /\ <<e>> \in Seq(Events) /\ more \in Seq(Events)
  BY <1>2 DEF Detach
<1>5. ASSUME NEW n, RemovedIn(queue, n)
      PROVE  RemovedIn(q, n)
  <2>1. PICK k \in DOMAIN queue : queue[k] = Added("JOYREMOVED", n)
    BY <1>5 DEF RemovedIn
  <2>2. Renumbered(queue[k], i) = queue[k]
    BY <2>1, SetsAssumption DEF Renumbered, Added
  <2> QED
    BY <2>1, <2>2 DEF RemovedIn
<1>6. ASSUME NEW n, RemovedIn(q, n) \/ n = DeviceAt(i).instance
      PROVE  RemovedIn(queue', n)
  <2>1. RemovedIn(q, n) \/ RemovedIn(<<e>>, n)
    BY <1>6 DEF RemovedIn
  <2> HIDE DEF q, e, f, b, more
  <2>2. RemovedIn(q \o <<e>>, n) /\ q \o <<e>> \in Seq(Events)
    BY <1>3, <1>4, <2>1, RemovedInConcat, ConcatProperties
  <2> QED
    BY <1>4, <2>2, RemovedInConcat
<1>7. ASSUME NEW n \in AttachedInst, n # DeviceAt(i).instance
      PROVE  n \in AttachedInst'
  <2>1. PICK k \in 1 .. Len(attached) : n = attached[k].instance /\ k # i + 1
    BY <1>1, <1>7 DEF AttachedInst, DeviceAt
  <2>2. attached' = [j \in 1 .. Len(attached) - 1 |->
                       IF j <= i THEN attached[j] ELSE attached[j + 1]]
    BY DEF Detach
  <2>3. CASE k <= i
    <3>1. k \in DOMAIN attached' /\ attached'[k] = attached[k]
      BY <1>1, <2>1, <2>2, <2>3
    <3> QED
      BY <2>1, <3>1 DEF AttachedInst
  <2>4. CASE k > i + 1
    <3>1. k - 1 \in DOMAIN attached' /\ attached'[k - 1] = attached[k]
      BY <1>1, <2>1, <2>2, <2>4
    <3> QED
      BY <2>1, <3>1 DEF AttachedInst
  <2> QED
    BY <1>1, <2>1, <2>3, <2>4
<1>8. gDesignatedControllers' = gDesignatedControllers
  BY DEF Detach, table
<1> HIDE DEF q
<1> QED
  BY <1>5, <1>6, <1>7, <1>8, GoneKept

\* The event an openJoy handles removes nobody, and the slot it fills belongs to
\* an attached device.
LEMMA openJoyGone ==
  ASSUME TypeOK, GoneControllersAreOnTheirWayOut, queue # <<>>, NEW i,
         Head(queue).type \in {"JOYADDED", "CONTROLLERADDED"},
         openJoy(i, Tail(queue)), UNCHANGED attached
  PROVE  GoneControllersAreOnTheirWayOut'
<1>1. AttachedInst' = AttachedInst
  BY DEF AttachedInst
<1>2. ASSUME NEW n, RemovedIn(queue, n)
      PROVE  RemovedIn(Tail(queue), n)
  <2>1. Head(queue) # Added("JOYREMOVED", n)
    BY DEF Added
  <2> QED
    BY <1>2, <2>1, RemovedInTail DEF TypeOK
<1>3. CASE gDesignatedControllers' = gDesignatedControllers /\ queue' = Tail(queue)
  BY <1>1, <1>2, <1>3, GoneKept
<1>4. CASE i \in Indices /\ Designate(i, Tail(queue))
  <2> DEFINE s == FirstFree(gDesignatedControllers)
  <2>1. ASSUME NEW ok, SetTable(Designated(Table, s, i, ok)), queue' = Tail(queue)
        PROVE  GoneControllersAreOnTheirWayOut'
    <3> DEFINE new == [numberOfDevices |-> 1, instance |-> DeviceAt(i).instance,
                       index |-> i, controllerType |-> STD,
                       joy |-> DeviceAt(i).guid, mappingOK |-> ok]
    <3>1. DeviceAt(i).instance \in AttachedInst
      <4>1. i + 1 \in DOMAIN attached
        BY <1>4, LenProperties DEF Indices, TypeOK
      <4> QED
        BY <4>1 DEF AttachedInst, DeviceAt
    <3>2. gDesignatedControllers' = [gDesignatedControllers EXCEPT ![s] = new]
      BY <2>1 DEF SetTable, Designated, Table
    <3>3. new.instance \in AttachedInst
      BY <3>1
    <3>4. gDesignatedControllers \in SlotArrays
      BY DEF TypeOK, SlotArrays, SlotValues
    <3> HIDE DEF new, s
    <3>5. \A r \in Slots : \/ gDesignatedControllers'[r] = gDesignatedControllers[r]
                           \/ gDesignatedControllers'[r].instance \in AttachedInst
      BY <3>2, <3>3, <3>4 DEF SlotArrays
    <3>6. OnTheirWayOut(gDesignatedControllers', AttachedInst', queue')
      BY <1>1, <1>2, <2>1, <3>5, GoneIsOnTheirWayOut DEF OnTheirWayOut
    <3> QED
      BY <3>6, GoneNext
  <2>2. CASE SetTable(DesignatedAfterReset(s))
    <3>1. \A r \in Slots : gDesignatedControllers'[r].controllerType # STD
      BY <2>2 DEF SetTable, DesignatedAfterReset, EmptyTable, NoController, STD
    <3> QED
      BY <3>1, GoneNext DEF OnTheirWayOut
  <2>3. \/ /\ queue' = Tail(queue)
           /\ \E ok \in BOOLEAN : SetTable(Designated(Table, s, i, ok))
        \/ SetTable(DesignatedAfterReset(s))
    BY <1>4 DEF Designate
  <2> QED
    BY <2>1, <2>2, <2>3
<1> QED
  BY <1>3, <1>4 DEF openJoy, table

\* closeJoy clears every slot of the instance whose removal it handles, if that
\* instance has an entry in gGamepad[].
LEMMA closeJoyGone ==
  ASSUME TypeOK, GoneControllersAreOnTheirWayOut,
         queue # <<>>, closeJoy(Head(queue).which, Tail(queue)), UNCHANGED attached
  PROVE  GoneControllersAreOnTheirWayOut'
<1> DEFINE n == Head(queue).which
           t == ClosedJoys(Table, {n})
<1>1. AttachedInst' = AttachedInst
  BY DEF AttachedInst
<1>2. queue' = Tail(queue) /\ gDesignatedControllers' = t.slots
  BY DEF closeJoy, SetTable
<1>3. gDesignatedControllers \in SlotArrays
  BY DEF TypeOK, SlotArrays, SlotValues
<1>4. ASSUME NEW s \in Slots, t.slots[s].controllerType = STD
      PROVE  /\ t.slots[s] = gDesignatedControllers[s]
             /\ gDesignatedControllers[s].instance = n => n >= MaxPlugged
  <2>1. t.slots[s] = gDesignatedControllers[s]
        /\ s \notin Holding(gDesignatedControllers, {m \in {n} : m < MaxPlugged})
    BY <1>4 DEF ClosedJoys, Table, NoController, STD
  <2>2. gDesignatedControllers[s] \in StdSlots
    <3>1. gDesignatedControllers[s] \in SlotValues
      BY <1>3 DEF SlotArrays
    <3>2. \A v \in FreeSlots : v.controllerType # STD
      BY DEF FreeSlots, NoController, STD
    <3>3. \A v \in WiiSlots : v.controllerType # STD
      BY DEF WiiSlots, STD, WIIMOTE
    <3> QED
      BY <1>4, <2>1, <3>1, <3>2, <3>3 DEF SlotValues
  <2>3. gDesignatedControllers[s].instance \in Instances
    BY <2>2 DEF StdSlots
  <2>4. gDesignatedControllers[s].instance \in Nat
    BY <2>3, NumbersAssumption DEF Instances
  <2> QED
    BY <2>1, <2>4, NumbersAssumption DEF Holding
<1>5. ASSUME NEW m, m # n, RemovedIn(queue, m)
      PROVE  RemovedIn(Tail(queue), m)
  <2>1. Head(queue) # Added("JOYREMOVED", m)
    BY <1>5 DEF Added
  <2> QED
    BY <1>5, <2>1, RemovedInTail DEF TypeOK
<1> HIDE DEF n, t
<1>6. OnTheirWayOut(gDesignatedControllers', AttachedInst', queue')
  BY <1>1, <1>2, <1>4, <1>5, GoneIsOnTheirWayOut DEF OnTheirWayOut
<1> QED
  BY <1>6, GoneNext

LEMMA PollEventGone ==
  ASSUME NobodyIsDeaf, TypeOK, GoneControllersAreOnTheirWayOut, PollEvent
  PROVE  GoneControllersAreOnTheirWayOut'
<1> DEFINE e == Head(queue)
<1>1. queue # <<>> /\ UNCHANGED attached
  BY DEF PollEvent, sdl
<1>2. CASE e.type \in {"JOYADDED", "CONTROLLERADDED"} /\ openJoy(e.which, Tail(queue))
  BY <1>1, <1>2, openJoyGone
<1>3. CASE closeJoy(e.which, Tail(queue))
  BY <1>1, <1>3, closeJoyGone
<1>4. CASE /\ ~Handled(e) /\ queue' = Tail(queue)
           /\ UNCHANGED <<table, internalDB, confPage>>
  <2>1. mode = "forwarding" /\ e.type # "JOYREMOVED"
    BY <1>4 DEF Handled, NobodyIsDeaf, TypeOK
  <2>2. ASSUME NEW n, RemovedIn(queue, n)
        PROVE  RemovedIn(queue', n)
    <3>1. e # Added("JOYREMOVED", n)
      BY <2>1 DEF Added
    <3> QED
      BY <1>1, <1>4, <2>2, <3>1, RemovedInTail DEF TypeOK
  <2>3. gDesignatedControllers' = gDesignatedControllers /\ AttachedInst' = AttachedInst
    BY <1>1, <1>4 DEF table, AttachedInst
  <2> QED
    BY <2>2, <2>3, GoneKept
<1> QED
  BY <1>2, <1>3, <1>4 DEF PollEvent

LEMMA mainLoopWiiGone ==
  ASSUME TypeOK, GoneControllersAreOnTheirWayOut, mainLoopWii
  PROVE  GoneControllersAreOnTheirWayOut'
<1>1. PICK lost :
        SetTable(WiimoteTick(WiimoteTick(Table, 0, g_wiimotes[0], 0 \notin lost),
                             1, g_wiimotes[1], 1 \notin lost))
  BY DEF mainLoopWii
<1> DEFINE first == WiimoteTick(Table, 0, g_wiimotes[0], 0 \notin lost)
           both  == WiimoteTick(first, 1, g_wiimotes[1], 1 \notin lost)
<1>2. first \in Tables
  BY TableType, WiimoteTickType
<1>3. ASSUME NEW s \in Slots, both.slots[s].controllerType = STD
      PROVE  both.slots[s] = gDesignatedControllers[s]
  <2> HIDE DEF first
  <2>1. both.slots[s] = first.slots[s]
    BY <1>2, <1>3, WiimotesBringNoStd
  <2> USE DEF first
  <2>2. first.slots[s] = Table.slots[s]
    BY <1>3, <2>1, TableType, WiimotesBringNoStd
  <2> QED
    BY <2>1, <2>2 DEF Table
<1>4. gDesignatedControllers' = both.slots
  BY <1>1 DEF SetTable
<1>5. AttachedInst' = AttachedInst /\ queue' = queue
  BY DEF mainLoopWii, sdl, AttachedInst
<1> HIDE DEF both
<1>6. OnTheirWayOut(gDesignatedControllers', AttachedInst', queue')
  BY <1>3, <1>4, <1>5, GoneIsOnTheirWayOut DEF OnTheirWayOut
<1> QED
  BY <1>6, GoneNext

-----------------------------------------------------------------------------
\* The steps that move a device, an event or a slot, and the others.
LEMMA NextCases ==
  ASSUME [Next]_vars
  PROVE  \/ \E g \in Guids : Attach(g)
         \/ \E i \in 0 .. MaxAttached - 1 : Detach(i)
         \/ PollEvent
         \/ \E c \in Configured : setMapping(c)
         \/ mainLoopWii
         \/ UNCHANGED <<sdl, queue, table>>
<1>1. ASSUME NEW w \in Wiimotes, Scan(w)
      PROVE  UNCHANGED <<sdl, queue, table>>
  BY <1>1 DEF Scan
<1>2. ASSUME NEW p \in {-1, 0, 1}, ShowPage(p)
      PROVE  UNCHANGED <<sdl, queue, table>>
  BY <1>2 DEF ShowPage
<1>3. ASSUME NEW e \in Emulators, launch_emulator(e)
      PROVE  UNCHANGED <<sdl, queue, table>>
  BY <1>3 DEF launch_emulator
<1>4. EmulatorReturns => UNCHANGED <<sdl, queue, table>>
  BY DEF EmulatorReturns
<1>5. UNCHANGED vars => UNCHANGED <<sdl, queue, table>>
  BY DEF vars
<1> QED
  BY <1>1, <1>2, <1>3, <1>4, <1>5, Zenon DEF Next

GoneInv == TypeOK /\ NobodyIsDeaf /\ GoneControllersAreOnTheirWayOut

LEMMA GonePreserved ==
  ASSUME "deaf" \notin Emulators, GoneInv, [Next]_vars
  PROVE  GoneInv'
<1> USE DEF GoneInv
<1>1. TypeOK'
  BY NextType
<1>2. NobodyIsDeaf'
  BY DEF NobodyIsDeaf, Next, vars, Attach, Detach, PollEvent, setMapping, Scan,
         mainLoopWii, ShowPage, launch_emulator, EmulatorReturns
<1>3. GoneControllersAreOnTheirWayOut'
  <2>1. ASSUME NEW g \in Guids, Attach(g) PROVE GoneControllersAreOnTheirWayOut'
    BY <2>1, AttachGone
  <2>2. ASSUME NEW i, Detach(i) PROVE GoneControllersAreOnTheirWayOut'
    BY <2>2, DetachGone
  <2>3. CASE PollEvent
    BY <2>3, PollEventGone
  <2>4. ASSUME NEW c \in Configured, setMapping(c)
        PROVE  GoneControllersAreOnTheirWayOut'
    <3>1. \A s \in Slots : gDesignatedControllers'[s].controllerType # STD
      BY <2>4 DEF setMapping, SetTable, EmptyTable, NoController, STD
    <3> QED
      BY <3>1, GoneNext DEF OnTheirWayOut
  <2>5. CASE mainLoopWii
    BY <2>5, mainLoopWiiGone
  <2>6. CASE UNCHANGED <<sdl, queue, table>>
    <3>1. AttachedInst' = AttachedInst /\ queue' = queue
          /\ gDesignatedControllers' = gDesignatedControllers
      BY <2>6 DEF sdl, table, AttachedInst
    <3> QED
      BY <3>1, GoneKept
  <2> QED
    BY <2>1, <2>2, <2>3, <2>4, <2>5, <2>6, NextCases
<1> QED
  BY <1>1, <1>2, <1>3

\* While the emulators forward the removals, no slot keeps a controller that is gone,
\* unless its instance has no entry in gGamepad[]: resets, moved indices, repeated
\* events and Wiimotes included.
THEOREM GoneCorrect ==
  ASSUME "deaf" \notin Emulators
  PROVE  Spec => []GoneControllersAreOnTheirWayOut
<1>1. Init => GoneInv
  <2> SUFFICES ASSUME Init PROVE GoneInv
    OBVIOUS
  <2>1. GoneControllersAreOnTheirWayOut
    BY DEF Init, GoneControllersAreOnTheirWayOut, Std, EmptyTable, NoController, STD
  <2> QED
    BY <2>1, InitType DEF GoneInv, NobodyIsDeaf, Init
<1>2. GoneInv /\ [Next]_vars => GoneInv'
  BY GonePreserved
<1>3. GoneInv => GoneControllersAreOnTheirWayOut
  BY DEF GoneInv
<1> QED
  BY <1>1, <1>2, <1>3, PTL DEF Spec

=============================================================================
