-------------------------- MODULE SlotTableProofs --------------------------
(***************************************************************************)
(* The table of controllers implements SlotTable, for any number of slots, *)
(* devices and events.  DevicesPerTypeBelow # 0 is what CountMatchesSlots  *)
(* needs for an exact count.  Then: players keep their slots, the slots of *)
(* Wiimotes belong to Wiimotes that are there, and a gamepad that is the   *)
(* only one has one slot, gets it when it is plugged in, and has it as     *)
(* long as it is there whenever no event waits.                            *)
(***************************************************************************)
EXTENDS ControllersProofs

\* The players of a table's slots.
PlayersOf(slots) == [s \in Slots |-> slots[s].instance]

-----------------------------------------------------------------------------
(* What the slots of Controllers are in SlotTable.                         *)

LEMMA SlotHasPlayer ==
  ASSUME NEW slots \in SlotArrays, NEW s \in Slots
  PROVE  /\ slots[s].instance \in Instances \cup {0, 1} \cup {-1}
         /\ slots[s].instance # -1 <=> slots[s].numberOfDevices # 0
<1>1. slots[s] \in SlotValues
  BY DEF SlotArrays
<1>2. \A v \in FreeSlots : v.instance = -1 /\ v.numberOfDevices = 0
  BY DEF FreeSlots, NoController
<1>3. \A v \in StdSlots : v.instance \in Instances /\ v.numberOfDevices = 1
  BY DEF StdSlots
<1>4. \A v \in WiiSlots : v.instance \in {0, 1} /\ v.numberOfDevices = 1
  BY DEF WiiSlots
<1>5. -1 \notin Instances
  BY DEF Instances
<1> QED
  BY <1>1, <1>2, <1>3, <1>4, <1>5 DEF SlotValues

LEMMA TakenIsOccupied ==
  ASSUME NEW slots \in SlotArrays
  PROVE  /\ PlayersOf(slots) \in Players!Tables
         /\ Players!Taken(PlayersOf(slots)) = OccupiedIn(slots)
<1>1. PlayersOf(slots) \in Players!Tables
  BY SlotHasPlayer DEF PlayersOf, Players!Tables, Players!Nobody
<1>2. ASSUME NEW s \in Slots
      PROVE  s \in Players!Taken(PlayersOf(slots)) <=> s \in OccupiedIn(slots)
  BY SlotHasPlayer DEF PlayersOf, Players!Taken, Players!Nobody, OccupiedIn, Free
<1>3. Players!Taken(PlayersOf(slots)) \subseteq Slots /\ OccupiedIn(slots) \subseteq Slots
  BY DEF Players!Taken, OccupiedIn
<1> QED
  BY <1>1, <1>2, <1>3

\* SlotTable counts as Controllers does.
LEMMA SameCardinality == \A S : Players!Cardinality(S) = Cardinality(S)
  BY Zenon DEF Players!Cardinality, Cardinality, Players!IsFiniteSet, IsFiniteSet

\* The first free slot is the smallest one.
LEMMA FirstFreeIsFirst ==
  ASSUME NEW slots, Free(slots) # {}
  PROVE  \A s \in Free(slots) : FirstFree(slots) <= s
<1>1. Free(slots) \subseteq Nat
  BY NumbersAssumption DEF Free, Slots
<1> QED
  BY <1>1, SmallestExists DEF FirstFree

-----------------------------------------------------------------------------
(* The operations of the table are changes of SlotTable.                   *)

LEMMA NobodyMoves ==
  ASSUME NEW slots
  PROVE  Players!Change(PlayersOf(slots), PlayersOf(slots))
<1>1. PlayersOf(slots) = [s \in Slots |-> IF s \in {} THEN Players!Nobody
                                          ELSE PlayersOf(slots)[s]]
  BY DEF PlayersOf
<1>2. {} \in SUBSET Players!Taken(PlayersOf(slots))
  OBVIOUS
<1> QED
  BY <1>1, <1>2, Zenon DEF Players!Change, Players!Leave

LEMMA FillingIsJoining ==
  ASSUME NEW slots \in SlotArrays, Free(slots) # {}, NEW new, new.instance # -1
  PROVE  Players!Change(PlayersOf(slots),
                        PlayersOf([slots EXCEPT ![FirstFree(slots)] = new]))
<1> DEFINE s == FirstFree(slots)
           t == PlayersOf(slots)
           u == PlayersOf([slots EXCEPT ![s] = new])
<1>1. s \in Free(slots) /\ \A r \in Free(slots) : s <= r
  BY FirstFreeIsFree, FirstFreeIsFirst
<1> HIDE DEF s
<1>2. s \in Slots \ Players!Taken(t)
  BY <1>1, TakenIsOccupied DEF Free, OccupiedIn
<1>3. ASSUME NEW r \in Slots, r < s
      PROVE  r \in Players!Taken(t)
  <2>1. r \notin Free(slots)
    BY <1>1, <1>2, <1>3, NumbersAssumption DEF Slots
  <2> QED
    BY <2>1, TakenIsOccupied DEF OccupiedIn
<1>4. u[s] = new.instance /\ u = [t EXCEPT ![s] = new.instance]
  BY <1>2 DEF PlayersOf, SlotArrays
<1> QED
  BY <1>2, <1>3, <1>4 DEF Players!Change, Players!Join, Players!Nobody, s

\* Slots of one instance are emptied.
LEMMA EmptyingIsLeaving ==
  ASSUME NEW slots \in SlotArrays, NEW gone \in SUBSET OccupiedIn(slots),
         \A s, r \in gone : slots[s].instance = slots[r].instance
  PROVE  Players!Change(PlayersOf(slots),
           PlayersOf([s \in Slots |-> IF s \in gone THEN NoController ELSE slots[s]]))
<1> DEFINE t == PlayersOf(slots)
           u == PlayersOf([s \in Slots |-> IF s \in gone THEN NoController ELSE slots[s]])
<1>1. gone \in SUBSET Players!Taken(t)
  BY TakenIsOccupied
<1>2. u = [s \in Slots |-> IF s \in gone THEN Players!Nobody ELSE t[s]]
  BY DEF PlayersOf, NoController, Players!Nobody
<1>3. \A s, r \in gone : t[s] = t[r]
  BY DEF PlayersOf, OccupiedIn
<1> HIDE DEF t, u
<1>4. Players!Change(t, u)
  BY <1>1, <1>2, <1>3 DEF Players!Change, Players!Leave
<1> QED
  BY <1>4 DEF t, u

LEMMA ClosingIsLeaving ==
  ASSUME NEW t \in Tables, NEW n
  PROVE  Players!Change(PlayersOf(t.slots), PlayersOf(ClosedJoys(t, {n}).slots))
<1> DEFINE gone == Holding(t.slots, {m \in {n} : m < MaxPlugged})
<1>1. gone \in SUBSET OccupiedIn(t.slots)
  BY HoldersAreOccupied DEF Holding, Tables
<1>2. \A s, r \in gone : t.slots[s].instance = t.slots[r].instance
  BY DEF Holding
<1>3. ClosedJoys(t, {n}).slots
        = [s \in Slots |-> IF s \in gone THEN NoController ELSE t.slots[s]]
  BY DEF ClosedJoys
<1>4. t.slots \in SlotArrays
  BY DEF Tables
<1> HIDE DEF gone
<1> QED
  BY <1>1, <1>2, <1>3, <1>4, EmptyingIsLeaving

LEMMA OpeningAWiimote ==
  ASSUME NEW t \in Tables, NEW w \in {0, 1}
  PROVE  Players!Change(PlayersOf(t.slots), PlayersOf(OpenedWiimote(t, w).slots))
<1>1. CASE Free(t.slots) = {}
  BY <1>1, NobodyMoves DEF OpenedWiimote
<1>2. CASE Free(t.slots) # {}
  <2> DEFINE new == [numberOfDevices |-> 1, instance |-> w, index |-> -1,
                     controllerType |-> WIIMOTE, joy |-> NoGuid, mappingOK |-> TRUE]
  <2>1. new.instance # -1 /\ t.slots \in SlotArrays
    BY DEF Tables
  <2>2. OpenedWiimote(t, w).slots = [t.slots EXCEPT ![FirstFree(t.slots)] = new]
    BY <1>2 DEF OpenedWiimote
  <2> HIDE DEF new
  <2> QED
    BY <1>2, <2>1, <2>2, FillingIsJoining
<1> QED
  BY <1>1, <1>2

LEMMA ClosingAWiimote ==
  ASSUME NEW t \in Tables, NEW w \in {0, 1}
  PROVE  Players!Change(PlayersOf(t.slots), PlayersOf(ClosedWiimote(t, w).slots))
<1> DEFINE own == {s \in Slots : /\ t.slots[s].controllerType = WIIMOTE
                                 /\ t.slots[s].instance = w}
           first == CHOOSE s \in own : \A r \in own : s <= r
<1>1. CASE own = {}
  BY <1>1, NobodyMoves DEF ClosedWiimote
<1>2. CASE own # {}
  <2>1. own \subseteq Nat /\ own \subseteq OccupiedIn(t.slots)
    BY NumbersAssumption, HoldersAreOccupied DEF Slots, Tables, WIIMOTE
  <2>2. first \in own
    <3> HIDE DEF own
    <3>1. \E s \in own : \A r \in own : s <= r
      BY <1>2, <2>1, SmallestExists
    <3> QED
      BY <3>1
  <2>3. ClosedWiimote(t, w).slots = [t.slots EXCEPT ![first] = NoController]
    BY <1>2 DEF ClosedWiimote
  <2>4. t.slots \in SlotArrays
    BY DEF Tables
  <2> HIDE DEF own, first
  <2>5. [t.slots EXCEPT ![first] = NoController]
          = [s \in Slots |-> IF s \in {first} THEN NoController ELSE t.slots[s]]
    BY <2>4 DEF SlotArrays
  <2>6. {first} \in SUBSET OccupiedIn(t.slots)
    BY <2>1, <2>2
  <2>7. \A s, r \in {first} : t.slots[s].instance = t.slots[r].instance
    OBVIOUS
  <2>8. Players!Change(PlayersOf(t.slots),
          PlayersOf([s \in Slots |-> IF s \in {first} THEN NoController ELSE t.slots[s]]))
    BY <2>4, <2>6, <2>7, EmptyingIsLeaving, Zenon
  <2> QED
    BY <2>3, <2>5, <2>8, Zenon
<1> QED
  BY <1>1, <1>2

LEMMA WiimoteTickIsAChange ==
  ASSUME NEW t \in Tables, NEW w \in {0, 1}, NEW online, NEW still
  PROVE  Players!Change(PlayersOf(t.slots), PlayersOf(WiimoteTick(t, w, online, still).slots))
  BY NobodyMoves, OpeningAWiimote, ClosingAWiimote DEF WiimoteTick

-----------------------------------------------------------------------------
(* The actions.                                                            *)

\* Every slot is emptied, though one may keep mappingOK.
LEMMA ResetEmpties ==
  ASSUME NEW s
  PROVE  /\ PlayersOf(EmptyTable.slots) = Players!Empty
         /\ PlayersOf(DesignatedAfterReset(s).slots) = Players!Empty
<1>1. \A r \in Slots : EmptyTable.slots[r].instance = -1
  BY DEF EmptyTable, NoController
<1>2. \A r \in Slots : DesignatedAfterReset(s).slots[r].instance = -1
  BY DEF DesignatedAfterReset, EmptyTable, NoController
<1> QED
  BY <1>1, <1>2 DEF PlayersOf, Players!Empty, Players!Nobody

\* A handler opens or closes a controller, makes a reset, or leaves the table.
LEMMA openJoyIsAChange ==
  ASSUME TypeOK, NEW i, NEW rest, openJoy(i, rest)
  PROVE  \/ Players!Change(PlayersOf(gDesignatedControllers),
                           PlayersOf(gDesignatedControllers'))
         \/ PlayersOf(gDesignatedControllers') = Players!Empty
<1>1. CASE UNCHANGED gDesignatedControllers
  BY <1>1, NobodyMoves
<1>2. CASE i \in Indices /\ ~Ignored(i) /\ Designate(i, rest)
  <2> DEFINE s == FirstFree(gDesignatedControllers)
  <2>1. ASSUME NEW ok, SetTable(Designated(Table, s, i, ok))
        PROVE  Players!Change(PlayersOf(gDesignatedControllers),
                              PlayersOf(gDesignatedControllers'))
    <3> DEFINE new == [numberOfDevices |-> 1, instance |-> DeviceAt(i).instance,
                       index |-> i, controllerType |-> STD,
                       joy |-> DeviceAt(i).guid, mappingOK |-> ok]
    <3>1. new.instance # -1
      <4>1. DeviceAt(i) \in Devices
        BY <1>2, GamepadType
      <4> QED
        BY <4>1 DEF Devices, Instances
    <3>2. gDesignatedControllers' = [gDesignatedControllers EXCEPT ![s] = new]
      BY <2>1 DEF SetTable, Designated, Table
    <3>3. gDesignatedControllers \in SlotArrays /\ Free(gDesignatedControllers) # {}
      BY <1>2 DEF TypeOK, SlotArrays, SlotValues, Ignored
    <3> HIDE DEF new
    <3> QED
      BY <3>1, <3>2, <3>3, FillingIsJoining
  <2>2. CASE SetTable(DesignatedAfterReset(s))
    BY <2>2, ResetEmpties DEF SetTable
  <2>3. \/ \E ok \in BOOLEAN : SetTable(Designated(Table, s, i, ok))
        \/ SetTable(DesignatedAfterReset(s))
    BY <1>2 DEF Designate
  <2> QED
    BY <2>1, <2>2, <2>3
<1> QED
  BY <1>1, <1>2 DEF openJoy, table

\* The rest of SlotTable's Next: the second change, and the number of players.
LEMMA OneOrTwoChanges ==
  ASSUME TypeOK, TypeOK', CountMatchesSlots', DevicesPerTypeBelow # 0,
         \/ \E t \in SlotArrays :
              /\ Players!Change(PlayersOf(gDesignatedControllers), PlayersOf(t))
              /\ Players!Change(PlayersOf(t), PlayersOf(gDesignatedControllers'))
         \/ PlayersOf(gDesignatedControllers') = Players!Empty
  PROVE  Players!Next
<1>1. gDesignatedControllers' \in SlotArrays
  BY DEF TypeOK, SlotArrays, SlotValues
<1>2. gNumDesignatedControllers' = Cardinality(OccupiedIn(gDesignatedControllers'))
  BY DEF CountMatchesSlots, Occupied, OccupiedIn, Free
<1>3. gNumDesignatedControllers'
        = Cardinality(Players!Taken(PlayersOf(gDesignatedControllers')))
  BY <1>1, <1>2, TakenIsOccupied
<1>4. \/ \E t \in Players!Tables :
           /\ Players!Change(PlayersOf(gDesignatedControllers), t)
           /\ Players!Change(t, PlayersOf(gDesignatedControllers'))
      \/ PlayersOf(gDesignatedControllers') = Players!Empty
  BY TakenIsOccupied
<1> QED
  BY <1>3, <1>4, SameCardinality, Zenon DEF Players!Next, PlayersOf

LEMMA StepIsAStep ==
  ASSUME DevicesPerTypeBelow # 0, TypeOK, CountMatchesSlots, [Next]_vars
  PROVE  \/ Players!Next
         \/ UNCHANGED <<gDesignatedControllers, gNumDesignatedControllers>>
<1>1. TypeOK' /\ CountMatchesSlots'
  BY NextType, CountPreserved
<1>2. Table \in Tables /\ Table.slots = gDesignatedControllers
      /\ gDesignatedControllers \in SlotArrays
  BY TableType DEF Table, Tables
<1>3. ASSUME \/ Players!Change(PlayersOf(gDesignatedControllers),
                               PlayersOf(gDesignatedControllers'))
             \/ PlayersOf(gDesignatedControllers') = Players!Empty
      PROVE  Players!Next
  BY <1>1, <1>2, <1>3, NobodyMoves, OneOrTwoChanges
<1>4. CASE PollEvent
  <2>1. PICK i, rest : \/ openJoy(i, rest) \/ closeJoy(i, rest) \/ UNCHANGED table
    BY <1>4 DEF PollEvent
  <2>2. CASE openJoy(i, rest)
    BY <1>3, <2>2, openJoyIsAChange
  <2>3. CASE closeJoy(i, rest)
    BY <1>2, <1>3, <2>3, ClosingIsLeaving DEF closeJoy, SetTable
  <2>4. CASE UNCHANGED table
    BY <2>4 DEF table
  <2> QED
    BY <2>1, <2>2, <2>3, <2>4
<1>5. ASSUME NEW c \in Configured, setMapping(c)
      PROVE  Players!Next
  BY <1>3, <1>5, ResetEmpties DEF setMapping, SetTable
<1>6. CASE mainLoopWii
  <2>1. PICK lost :
          SetTable(WiimoteTick(WiimoteTick(Table, 0, g_wiimotes[0], 0 \notin lost),
                               1, g_wiimotes[1], 1 \notin lost))
    BY <1>6 DEF mainLoopWii
  <2> DEFINE first == WiimoteTick(Table, 0, g_wiimotes[0], 0 \notin lost)
             both  == WiimoteTick(first, 1, g_wiimotes[1], 1 \notin lost)
  <2>2. first \in Tables
    BY <1>2, WiimoteTickType
  <2>3. Players!Change(PlayersOf(gDesignatedControllers), PlayersOf(first.slots))
    BY <1>2, WiimoteTickIsAChange
  <2>4. gDesignatedControllers' = both.slots
    BY <2>1 DEF SetTable
  <2> HIDE DEF first
  <2>5. Players!Change(PlayersOf(first.slots), PlayersOf(gDesignatedControllers'))
    BY <2>2, <2>4, WiimoteTickIsAChange
  <2>6. first.slots \in SlotArrays
    BY <2>2 DEF Tables
  <2> QED
    BY <1>1, <2>3, <2>5, <2>6, OneOrTwoChanges
<1>7. CASE UNCHANGED table
  BY <1>7 DEF table
<1>8. \/ PollEvent \/ \E c \in Configured : setMapping(c)
      \/ mainLoopWii \/ UNCHANGED table
  BY DEF Next, vars, Attach, Detach, Scan, ShowPage, launch_emulator, EmulatorReturns
<1> QED
  BY <1>4, <1>5, <1>6, <1>7, <1>8

\* Through events out of date, moved indices, files that fail, resets and Wiimotes, a
\* player sits down on the first free slot, stays until his number is called and is
\* counted (openJoy, closeJoy, openWiimote, closeWiimote, initJoy).
THEOREM TableImplementsSlotTable ==
  ASSUME DevicesPerTypeBelow # 0
  PROVE  Spec => ImplementsSlotTable
<1>1. Init => Players!Init
  <2> SUFFICES ASSUME Init PROVE Players!Init
    OBVIOUS
  <2>1. PlayersOf(gDesignatedControllers) = Players!Empty
    BY ResetEmpties DEF Init
  <2> QED
    BY <2>1 DEF Init, Players!Init, PlayersOf
<1>2. TypeOK /\ CountMatchesSlots /\ [Next]_vars
        => [Players!Next]_<<[s \in Slots |-> gDesignatedControllers[s].instance],
                            gNumDesignatedControllers>>
  BY StepIsAStep
<1> QED
  BY <1>1, <1>2, TypeCorrect, CountCorrect, PTL DEF Spec, ImplementsSlotTable, Players!Spec
-----------------------------------------------------------------------------
(* Players keep their slots.                                               *)

\* What is in an occupied slot is not lost to a Wiimote, unless it is one.
LEMMA WiimotesTakeNoStd ==
  ASSUME NEW t \in Tables, NEW w \in {0, 1}, NEW online, NEW still,
         NEW s \in Slots, t.slots[s].controllerType = STD
  PROVE  WiimoteTick(t, w, online, still).slots[s] = t.slots[s]
<1>1. t.slots \in SlotArrays /\ s \in OccupiedIn(t.slots)
  BY HoldersAreOccupied DEF Tables, STD
<1>2. OpenedWiimote(t, w).slots[s] = t.slots[s]
  <2>1. CASE Free(t.slots) = {}
    BY <2>1 DEF OpenedWiimote
  <2>2. CASE Free(t.slots) # {}
    <3>1. FirstFree(t.slots) # s
      BY <1>1, <2>2, FirstFreeIsFree DEF OccupiedIn
    <3> QED
      BY <1>1, <2>2, <3>1 DEF OpenedWiimote, SlotArrays
  <2> QED
    BY <2>1, <2>2
<1>3. ClosedWiimote(t, w).slots[s] = t.slots[s]
  <2> DEFINE own == {r \in Slots : /\ t.slots[r].controllerType = WIIMOTE
                                   /\ t.slots[r].instance = w}
             first == CHOOSE r \in own : \A q \in own : r <= q
  <2>1. CASE own = {}
    BY <2>1 DEF ClosedWiimote
  <2>2. CASE own # {}
    <3>1. own \subseteq Nat
      BY NumbersAssumption DEF Slots
    <3>2. first \in own
      <4> HIDE DEF own
      <4>1. \E r \in own : \A q \in own : r <= q
        BY <2>2, <3>1, SmallestExists
      <4> QED
        BY <4>1
    <3>3. t.slots[first].controllerType = WIIMOTE
      <4> HIDE DEF first
      <4> QED
        BY <3>2
    <3>5. first # s
      <4> HIDE DEF first
      <4> QED
        BY <3>3 DEF STD, WIIMOTE
    <3>4. ClosedWiimote(t, w).slots = [t.slots EXCEPT ![first] = NoController]
      BY <2>2 DEF ClosedWiimote
    <3> HIDE DEF own, first
    <3> QED
      BY <1>1, <3>4, <3>5 DEF SlotArrays
  <2> QED
    BY <2>1, <2>2
<1> QED
  BY <1>2, <1>3 DEF WiimoteTick

\* What makes a player leave slot s.
MayLeave(s) ==
  \/ \A r \in Slots : gDesignatedControllers'[r].numberOfDevices = 0
  \/ /\ queue # <<>>
     /\ Head(queue).type \in {"JOYREMOVED", "CONTROLLERREMOVED"}
     /\ Head(queue).which = InstanceOf(s)

LEMMA openJoyKeeps ==
  ASSUME TypeOK, NEW i, NEW rest, openJoy(i, rest), NEW s \in Slots, Std(s),
         gDesignatedControllers'[s] # gDesignatedControllers[s]
  PROVE  MayLeave(s)
<1> DEFINE first == FirstFree(gDesignatedControllers)
<1>1. ~Ignored(i) /\ Designate(i, rest)
  BY DEF openJoy, table
<1>2. gDesignatedControllers \in SlotArrays
  BY DEF TypeOK, SlotArrays, SlotValues
<1>3. first # s
  <2>1. first \in Free(gDesignatedControllers)
    BY <1>1, FirstFreeIsFree DEF Ignored
  <2>2. s \in OccupiedIn(gDesignatedControllers)
    BY <1>2, HoldersAreOccupied DEF Std, STD
  <2> QED
    BY <2>1, <2>2 DEF OccupiedIn
<1>4. ASSUME NEW ok, SetTable(Designated(Table, first, i, ok))
      PROVE  FALSE
  BY <1>2, <1>3, <1>4 DEF SetTable, Designated, Table, SlotArrays
<1>5. SetTable(DesignatedAfterReset(first))
  <2>1. \/ \E ok \in BOOLEAN : SetTable(Designated(Table, first, i, ok))
        \/ SetTable(DesignatedAfterReset(first))
    BY <1>1 DEF Designate
  <2> QED
    BY <1>4, <2>1
<1> QED
  BY <1>5 DEF MayLeave, SetTable, DesignatedAfterReset, EmptyTable, NoController

LEMMA StepKeeps ==
  ASSUME TypeOK, [Next]_vars, NEW s \in Slots, Std(s),
         gDesignatedControllers'[s] # gDesignatedControllers[s]
  PROVE  MayLeave(s)
<1>1. Table \in Tables /\ Table.slots = gDesignatedControllers
  BY TableType DEF Table
<1>2. CASE PollEvent
  <2>1. queue # <<>> /\ ~UNCHANGED table
    BY <1>2 DEF PollEvent, table
  <2>2. CASE openJoy(Head(queue).which, Tail(queue))
    BY <2>2, openJoyKeeps
  <2>3. CASE /\ Head(queue).type \in {"JOYREMOVED", "CONTROLLERREMOVED"}
             /\ closeJoy(Head(queue).which, Tail(queue))
    <3>1. s \in Holding(Table.slots, {Head(queue).which})
      BY <1>1, <2>3 DEF closeJoy, SetTable, ClosedJoys, Holding
    <3> QED
      BY <1>1, <2>1, <2>3, <3>1 DEF MayLeave, Holding, InstanceOf
  <2> QED
    BY <1>2, <2>1, <2>2, <2>3 DEF PollEvent
<1>3. ASSUME NEW c \in Configured, setMapping(c)
      PROVE  MayLeave(s)
  BY <1>3 DEF setMapping, SetTable, EmptyTable, NoController, MayLeave
<1>4. CASE mainLoopWii
  <2>1. PICK lost :
          SetTable(WiimoteTick(WiimoteTick(Table, 0, g_wiimotes[0], 0 \notin lost),
                               1, g_wiimotes[1], 1 \notin lost))
    BY <1>4 DEF mainLoopWii
  <2> DEFINE first == WiimoteTick(Table, 0, g_wiimotes[0], 0 \notin lost)
             both  == WiimoteTick(first, 1, g_wiimotes[1], 1 \notin lost)
  <2>2. first \in Tables /\ first.slots[s] = gDesignatedControllers[s]
    BY <1>1, WiimoteTickType, WiimotesTakeNoStd DEF Std
  <2>3. gDesignatedControllers' = both.slots
    BY <2>1 DEF SetTable
  <2> HIDE DEF first
  <2>4. both.slots[s] = first.slots[s]
    BY <2>2, WiimotesTakeNoStd DEF Std
  <2> QED
    BY <2>2, <2>3, <2>4
<1>5. \/ PollEvent \/ \E c \in Configured : setMapping(c)
      \/ mainLoopWii \/ UNCHANGED table
  BY DEF Next, vars, Attach, Detach, Scan, ShowPage, launch_emulator, EmulatorReturns
<1> QED
  BY <1>2, <1>3, <1>4, <1>5 DEF table

\* No event of another device, no index that moved, no Wiimote and no failed file takes
\* an SDL controller from its slot: only its own removal does, or a reset that empties
\* every slot (closeJoy, openWiimote, closeWiimote, resetSDL).
THEOREM PlayersKeepTheirSlotsAlways == Spec => PlayersKeepTheirSlots
<1>1. TypeOK /\ [Next]_vars
        => [\A s \in Slots :
              Std(s) /\ gDesignatedControllers'[s] # gDesignatedControllers[s]
                => \/ \A r \in Slots : gDesignatedControllers'[r].numberOfDevices = 0
                   \/ /\ queue # <<>>
                      /\ Head(queue).type \in {"JOYREMOVED", "CONTROLLERREMOVED"}
                      /\ Head(queue).which = InstanceOf(s)]_vars
  BY StepKeeps DEF MayLeave
<1> QED
  BY <1>1, TypeCorrect, PTL DEF Spec, PlayersKeepTheirSlots

-----------------------------------------------------------------------------
(* Wiimotes in the table, and what the last tick saw of them.              *)

OneSlotEach(slots) ==
  \A s, r \in Slots :
    /\ slots[s].controllerType = WIIMOTE /\ slots[r].controllerType = WIIMOTE
    /\ slots[s].instance = slots[r].instance
    => s = r

SeenOnline(slots, prev) ==
  \A s \in Slots : slots[s].controllerType = WIIMOTE => prev[slots[s].instance]

OnlineIn(slots, prev) == SeenOnline(slots, prev) /\ OneSlotEach(slots)

\* Slots of which none has become a Wiimote.
LEMMA FewerWiimotes ==
  ASSUME NEW slots, NEW prev, OnlineIn(slots, prev), NEW slots2,
         \A s \in Slots : slots2[s].controllerType = WIIMOTE => slots2[s] = slots[s]
  PROVE  OnlineIn(slots2, prev)
<1>1. \A s \in Slots : slots2[s].controllerType = WIIMOTE
        => slots[s].controllerType = WIIMOTE /\ slots2[s].instance = slots[s].instance
  OBVIOUS
<1>2. \A s \in Slots : slots2[s].controllerType = WIIMOTE => prev[slots2[s].instance]
  BY <1>1, Zenon DEF OnlineIn, SeenOnline
<1>3. OneSlotEach(slots2)
  BY <1>1 DEF OnlineIn, OneSlotEach
<1> QED
  BY <1>2, <1>3, Zenon DEF OnlineIn, SeenOnline

\* A tick for Wiimote w.
LEMMA TickKeepsOnline ==
  ASSUME NEW t \in Tables, NEW w \in {0, 1}, NEW prev \in [{0, 1} -> BOOLEAN],
         OnlineIn(t.slots, prev), prev[w] = wiimoteOnline_prev[w],
         NEW online \in BOOLEAN, NEW still \in BOOLEAN
  PROVE  OnlineIn(WiimoteTick(t, w, online, still).slots, [prev EXCEPT ![w] = online])
<1> DEFINE next == [prev EXCEPT ![w] = online]
<1>0. /\ t.slots \in SlotArrays /\ next[w] = online
      /\ \A v \in {0, 1} : v # w => next[v] = prev[v]
  BY DEF Tables
<1>1. ASSUME NEW s \in Slots, t.slots[s].controllerType = WIIMOTE
      PROVE  t.slots[s].instance \in {0, 1} /\ prev[t.slots[s].instance]
  <2>1. t.slots[s] \in SlotValues
    BY <1>0 DEF SlotArrays
  <2>2. \A v \in FreeSlots \cup StdSlots : v.controllerType # WIIMOTE
    BY DEF FreeSlots, NoController, StdSlots, STD, WIIMOTE
  <2>3. \A v \in WiiSlots : v.instance \in {0, 1}
    BY DEF WiiSlots
  <2> QED
    BY <1>1, <2>1, <2>2, <2>3 DEF SlotValues, OnlineIn, SeenOnline
<1>2. CASE online = prev[w]
  <2>1. next = prev
    BY <1>2
  <2> QED
    BY <1>2, <2>1 DEF WiimoteTick
<1>3. CASE online /\ ~prev[w]
  <2>1. ASSUME NEW s \in Slots, t.slots[s].controllerType = WIIMOTE
        PROVE  t.slots[s].instance # w
    BY <1>1, <1>3, <2>1
  <2>2. OnlineIn(t.slots, next)
    BY <1>0, <1>1, <2>1 DEF OnlineIn, SeenOnline
  <2>3. OnlineIn(ClosedWiimote(t, w).slots, next)
    BY <2>1, <2>2 DEF ClosedWiimote
  <2>4. OnlineIn(OpenedWiimote(t, w).slots, next)
    <3>1. CASE Free(t.slots) = {}
      BY <2>2, <3>1 DEF OpenedWiimote
    <3>2. CASE Free(t.slots) # {}
      <4> DEFINE first == FirstFree(t.slots)
                 new == [numberOfDevices |-> 1, instance |-> w, index |-> -1,
                         controllerType |-> WIIMOTE, joy |-> NoGuid, mappingOK |-> TRUE]
      <4>1. OpenedWiimote(t, w).slots = [t.slots EXCEPT ![first] = new]
        BY <3>2 DEF OpenedWiimote
      <4>2. new.instance = w
        OBVIOUS
      <4> DEFINE filled == [t.slots EXCEPT ![first] = new]
      <4>3. next[w]
        BY <1>0, <1>3, Zenon
      <4> HIDE DEF new, first, next
      <4>4. \A s \in Slots : filled[s] = IF s = first THEN new ELSE t.slots[s]
        BY <1>0 DEF SlotArrays
      <4> HIDE DEF filled
      <4>5. \A s \in Slots : filled[s].controllerType = WIIMOTE => next[filled[s].instance]
        <5> SUFFICES ASSUME NEW s \in Slots, filled[s].controllerType = WIIMOTE
                     PROVE  next[filled[s].instance]
          OBVIOUS
        <5>1. CASE s = first
          BY <4>2, <4>3, <4>4, <5>1, Zenon
        <5>2. CASE s # first
          <6>1. filled[s] = t.slots[s]
            BY <4>4, <5>2
          <6> QED
            BY <2>2, <6>1, Zenon DEF OnlineIn, SeenOnline
        <5> QED
          BY <5>1, <5>2
      <4>6. OneSlotEach(filled)
        BY <2>1, <2>2, <4>2, <4>4 DEF OnlineIn, OneSlotEach
      <4>7. OnlineIn(filled, next)
        BY <4>5, <4>6, Zenon DEF OnlineIn, SeenOnline
      <4> QED
        BY <4>1, <4>7 DEF filled
    <3> QED
      BY <3>1, <3>2
  <2> QED
    BY <1>3, <2>3, <2>4 DEF WiimoteTick
<1>4. CASE ~online /\ prev[w]
  <2> DEFINE own == {s \in Slots : /\ t.slots[s].controllerType = WIIMOTE
                                   /\ t.slots[s].instance = w}
             first == CHOOSE s \in own : \A r \in own : s <= r
             after == ClosedWiimote(t, w).slots
  <2>1. WiimoteTick(t, w, online, still) = ClosedWiimote(t, w)
    BY <1>4 DEF WiimoteTick
  <2>2. ASSUME NEW s \in Slots, after[s].controllerType = WIIMOTE
        PROVE  after[s] = t.slots[s] /\ t.slots[s].instance # w
    <3>1. CASE own = {}
      BY <2>2, <3>1 DEF ClosedWiimote
    <3>2. CASE own # {}
      <4>1. own \subseteq Nat
        BY NumbersAssumption DEF Slots
      <4>2. first \in own
        <5> HIDE DEF own
        <5>1. \E r \in own : \A q \in own : r <= q
          BY <3>2, <4>1, SmallestExists
        <5> QED
          BY <5>1
      <4>3. after = [t.slots EXCEPT ![first] = NoController]
        BY <3>2 DEF ClosedWiimote
      <4>4. first \in Slots /\ t.slots[first].controllerType = WIIMOTE
            /\ t.slots[first].instance = w
        BY <4>2
      <4> HIDE DEF own, first, after
      <4>5. s # first /\ after[s] = t.slots[s]
        BY <1>0, <2>2, <4>3 DEF SlotArrays, NoController, WIIMOTE
      <4> QED
        BY <1>0, <2>2, <4>4, <4>5 DEF OnlineIn, OneSlotEach
    <3> QED
      BY <3>1, <3>2
  <2> HIDE DEF after, own, first, next
  <2>3. OnlineIn(after, next)
    <3>1. ASSUME NEW s \in Slots, after[s].controllerType = WIIMOTE
          PROVE  next[after[s].instance]
      <4>1. /\ after[s] = t.slots[s] /\ t.slots[s].controllerType = WIIMOTE
            /\ t.slots[s].instance # w
        BY <2>2, <3>1
      <4>2. t.slots[s].instance \in {0, 1} /\ prev[t.slots[s].instance]
        BY <1>1, <4>1
      <4>3. next[t.slots[s].instance] = prev[t.slots[s].instance]
        BY <1>0, <4>1, <4>2
      <4> QED
        BY <4>1, <4>2, <4>3, Zenon
    <3>2. OneSlotEach(after)
      BY <2>2 DEF OnlineIn, OneSlotEach
    <3> QED
      BY <3>1, <3>2, Zenon DEF OnlineIn, SeenOnline
  <2> QED
    BY <2>1, <2>3 DEF after, next
<1> QED
  BY <1>2, <1>3, <1>4

LEMMA OnlineOfTable ==
  WiimoteSlotsAreOnline <=> OnlineIn(gDesignatedControllers, wiimoteOnline_prev)
  BY Zenon DEF WiimoteSlotsAreOnline, OnlineIn, SeenOnline, OneSlotEach, Wii, InstanceOf

LEMMA OnlinePreserved ==
  ASSUME TypeOK, WiimoteSlotsAreOnline, [Next]_vars
  PROVE  WiimoteSlotsAreOnline'
<1>1. /\ Table \in Tables /\ Table.slots = gDesignatedControllers
      /\ gDesignatedControllers \in SlotArrays
      /\ OnlineIn(gDesignatedControllers, wiimoteOnline_prev)
  BY TableType, OnlineOfTable DEF Table, Tables
<1>2. ASSUME OnlineIn(gDesignatedControllers', wiimoteOnline_prev')
      PROVE  WiimoteSlotsAreOnline'
  BY <1>2, Zenon DEF WiimoteSlotsAreOnline, OnlineIn, SeenOnline, OneSlotEach, Wii,
       InstanceOf
<1>3. ASSUME UNCHANGED wiimoteOnline_prev,
             \A s \in Slots : gDesignatedControllers'[s].controllerType = WIIMOTE
                              => gDesignatedControllers'[s] = gDesignatedControllers[s]
      PROVE  WiimoteSlotsAreOnline'
  BY <1>1, <1>2, <1>3, FewerWiimotes
<1>4. CASE PollEvent
  <2>1. UNCHANGED wiimoteOnline_prev
    BY <1>4 DEF PollEvent, wii
  <2>2. PICK i, rest : \/ openJoy(i, rest) \/ closeJoy(i, rest) \/ UNCHANGED table
    BY <1>4 DEF PollEvent
  <2>3. CASE closeJoy(i, rest)
    BY <1>1, <1>3, <2>1, <2>3 DEF closeJoy, SetTable, ClosedJoys, NoController, WIIMOTE
  <2>4. CASE openJoy(i, rest)
    <3> DEFINE first == FirstFree(gDesignatedControllers)
    <3>1. ASSUME NEW ok, SetTable(Designated(Table, first, i, ok))
          PROVE  WiimoteSlotsAreOnline'
      <4> DEFINE new == [numberOfDevices |-> 1, instance |-> DeviceAt(i).instance,
                         index |-> i, controllerType |-> STD,
                         joy |-> DeviceAt(i).guid, mappingOK |-> ok]
      <4>1. gDesignatedControllers' = [gDesignatedControllers EXCEPT ![first] = new]
        BY <3>1 DEF SetTable, Designated, Table
      <4>2. new.controllerType # WIIMOTE
        BY DEF STD, WIIMOTE
      <4> HIDE DEF new, first
      <4> QED
        BY <1>1, <1>3, <2>1, <4>1, <4>2 DEF SlotArrays
    <3>2. CASE SetTable(DesignatedAfterReset(first))
      <4>1. \A s \in Slots : gDesignatedControllers'[s].controllerType # WIIMOTE
        BY <3>2 DEF SetTable, DesignatedAfterReset, EmptyTable, NoController, WIIMOTE
      <4> QED
        BY <1>3, <2>1, <4>1
    <3>3. CASE UNCHANGED gDesignatedControllers
      BY <1>3, <2>1, <3>3
    <3>4. \/ \E ok \in BOOLEAN : SetTable(Designated(Table, first, i, ok))
          \/ SetTable(DesignatedAfterReset(first))
          \/ UNCHANGED gDesignatedControllers
      BY <2>4 DEF openJoy, Designate, table
    <3> QED
      BY <3>1, <3>2, <3>3, <3>4
  <2>5. CASE UNCHANGED table
    BY <1>3, <2>1, <2>5 DEF table
  <2> QED
    BY <2>2, <2>3, <2>4, <2>5
<1>5. ASSUME NEW c \in Configured, setMapping(c)
      PROVE  WiimoteSlotsAreOnline'
  BY <1>3, <1>5 DEF setMapping, SetTable, EmptyTable, NoController, WIIMOTE, wii
<1>6. CASE mainLoopWii
  <2>1. PICK lost :
          SetTable(WiimoteTick(WiimoteTick(Table, 0, g_wiimotes[0], 0 \notin lost),
                               1, g_wiimotes[1], 1 \notin lost))
    BY <1>6 DEF mainLoopWii
  <2> DEFINE first == WiimoteTick(Table, 0, g_wiimotes[0], 0 \notin lost)
             prev1 == [wiimoteOnline_prev EXCEPT ![0] = g_wiimotes[0]]
             prev2 == [prev1 EXCEPT ![1] = g_wiimotes[1]]
             both  == WiimoteTick(first, 1, g_wiimotes[1], 1 \notin lost)
  <2>2. /\ wiimoteOnline_prev \in [{0, 1} -> BOOLEAN] /\ g_wiimotes \in [{0, 1} -> BOOLEAN]
        /\ g_wiimotes[0] \in BOOLEAN /\ g_wiimotes[1] \in BOOLEAN
        /\ (0 \notin lost) \in BOOLEAN /\ (1 \notin lost) \in BOOLEAN
    BY DEF TypeOK
  <2>3. /\ prev1 \in [{0, 1} -> BOOLEAN] /\ prev1[1] = wiimoteOnline_prev[1]
        /\ prev2 = g_wiimotes
    BY <2>2
  <2>4. OnlineIn(first.slots, prev1) /\ first \in Tables
    BY <1>1, <2>2, WiimoteTickType, TickKeepsOnline
  <2> HIDE DEF first, prev1
  <2>5. OnlineIn(both.slots, prev2)
    BY <2>2, <2>3, <2>4, TickKeepsOnline
  <2>6. gDesignatedControllers' = both.slots /\ wiimoteOnline_prev' = g_wiimotes
    BY <1>6, <2>1 DEF SetTable, mainLoopWii, first
  <2> QED
    BY <1>2, <2>3, <2>5, <2>6
<1>7. CASE UNCHANGED <<gDesignatedControllers, wiimoteOnline_prev>>
  BY <1>3, <1>7
<1>8. \/ PollEvent \/ \E c \in Configured : setMapping(c)
      \/ mainLoopWii \/ UNCHANGED <<gDesignatedControllers, wiimoteOnline_prev>>
  BY DEF Next, vars, table, wii, Attach, Detach, Scan, ShowPage, launch_emulator,
         EmulatorReturns
<1> QED
  BY <1>4, <1>5, <1>6, <1>7, <1>8

\* A Wiimote that is lost between the two reads of a tick, or whose slot a reset or a
\* removal has emptied, never leaves a slot to a Wiimote that is offline, nor has one
\* two slots (wii.cpp:31-60).
THEOREM WiimotesCorrect == Spec => []WiimoteSlotsAreOnline
<1>1. Init => WiimoteSlotsAreOnline
  BY DEF Init, WiimoteSlotsAreOnline, Wii, EmptyTable, NoController, WIIMOTE
<1> QED
  BY <1>1, TypeCorrect, OnlinePreserved, PTL DEF Spec

-----------------------------------------------------------------------------
(* One device at a time.  An ADDED event is live while it still means the  *)
(* attached device: SDL keeps its index up to date, and it is not -1.      *)

IsAdded(e)  == e.type \in {"JOYADDED", "CONTROLLERADDED"}
Live(e)     == e.type \in KeptUpToDate /\ e.which # -1
AllAdded(q) == \A k \in DOMAIN q : IsAdded(q[k])
NoLive(q)   == \A k \in DOMAIN q : ~Live(q[k])
AtMost0(q)  == \A k \in DOMAIN q : IsAdded(q[k]) => q[k].which \in {-1, 0}

\* Nothing is removed behind a live event: the device would have taken it along.
InOrder(q) ==
  \A k, j \in DOMAIN q : Live(q[k]) /\ j > k => IsAdded(q[j])

LoneQueue(q, present) ==
  /\ AtMost0(q) /\ InOrder(q)
  /\ present = <<>> => NoLive(q)

LEMMA OnlyIndex ==
  ASSUME NEW n \in Nat, n <= 1, NEW i \in 0 .. n - 1
  PROVE  n = 1 /\ i = 0
  OBVIOUS

\* An event of a concatenation comes from one of the two sequences.
LEMMA EventOfConcat ==
  ASSUME NEW q \in Seq(Events), NEW r \in Seq(Events), NEW k \in DOMAIN (q \o r)
  PROVE  \/ k \in DOMAIN q /\ (q \o r)[k] = q[k] /\ k <= Len(q)
         \/ /\ k - Len(q) \in DOMAIN r /\ (q \o r)[k] = r[k - Len(q)]
            /\ k > Len(q)
<1>1. /\ DOMAIN q = 1 .. Len(q) /\ Len(q) \in Nat
      /\ DOMAIN r = 1 .. Len(r) /\ Len(r) \in Nat
      /\ DOMAIN (q \o r) = 1 .. Len(q) + Len(r)
  BY LenProperties, ConcatProperties
<1> QED
  BY <1>1, ConcatProperties

LEMMA AddedBehind ==
  ASSUME NEW q \in Seq(Events), NEW r \in Seq(Events), AllAdded(r),
         \A k \in DOMAIN r : r[k].which = 0
  PROVE  /\ AtMost0(q) => AtMost0(q \o r)
         /\ InOrder(q) => InOrder(q \o r)
         /\ AllAdded(q) => AllAdded(q \o r)
<1> DEFINE both == q \o r
<1>1. \A k \in DOMAIN both : \/ k \in DOMAIN q /\ both[k] = q[k]
                             \/ IsAdded(both[k]) /\ both[k].which = 0
  BY EventOfConcat DEF AllAdded
<1>2. ASSUME NEW k \in DOMAIN both, NEW j \in DOMAIN both, j > k
      PROVE  \/ IsAdded(both[j])
             \/ k \in DOMAIN q /\ j \in DOMAIN q /\ both[k] = q[k] /\ both[j] = q[j]
  <2>1. k \in Nat /\ j \in Nat /\ Len(q) \in Nat
    BY LenProperties, ConcatProperties
  <2> QED
    BY <1>2, <2>1, EventOfConcat DEF AllAdded
<1> HIDE DEF both
<1>3. AtMost0(q) => AtMost0(both)
  BY <1>1 DEF AtMost0
<1>4. InOrder(q) => InOrder(both)
  BY <1>2 DEF InOrder
<1>5. AllAdded(q) => AllAdded(both)
  BY <1>1 DEF AllAdded
<1> QED
  BY <1>3, <1>4, <1>5 DEF both

LEMMA RemovedBehind ==
  ASSUME NEW q \in Seq(Events), NEW r \in Seq(Events),
         \A k \in DOMAIN r : r[k].type \in {"JOYREMOVED", "CONTROLLERREMOVED"}
  PROVE  /\ AtMost0(q) => AtMost0(q \o r)
         /\ NoLive(q) => NoLive(q \o r)
<1> DEFINE both == q \o r
<1>1. \A k \in DOMAIN both : \/ k \in DOMAIN q /\ both[k] = q[k]
                             \/ ~IsAdded(both[k]) /\ ~Live(both[k])
  <2>1. \A e : e.type \in {"JOYREMOVED", "CONTROLLERREMOVED"} => ~IsAdded(e) /\ ~Live(e)
    BY SetsAssumption DEF IsAdded, Live
  <2>2. \A k \in DOMAIN r : ~IsAdded(r[k]) /\ ~Live(r[k])
    BY <2>1
  <2> QED
    BY <2>2, EventOfConcat
<1> HIDE DEF both
<1> QED
  BY <1>1 DEF AtMost0, NoLive, both

LEMMA OrderInTail ==
  ASSUME NEW q \in Seq(Events), q # <<>>
  PROVE  /\ AtMost0(q) => AtMost0(Tail(q))
         /\ InOrder(q) => InOrder(Tail(q))
         /\ NoLive(q) => NoLive(Tail(q))
         /\ AllAdded(q) => AllAdded(Tail(q))
         /\ InOrder(q) /\ Live(Head(q)) => AllAdded(Tail(q))
<1>1. /\ Tail(q) \in Seq(Events) /\ Len(Tail(q)) = Len(q) - 1 /\ Len(q) \in Nat
      /\ DOMAIN q = 1 .. Len(q) /\ DOMAIN Tail(q) = 1 .. Len(Tail(q))
      /\ Head(q) = q[1] /\ Len(q) # 0
  BY HeadTailProperties, LenProperties, EmptySeq
<1>2. ASSUME NEW k \in DOMAIN Tail(q)
      PROVE  k + 1 \in DOMAIN q /\ Tail(q)[k] = q[k + 1] /\ k \in Nat /\ k + 1 > 1
  BY <1>1, HeadTailProperties
<1>3. 1 \in DOMAIN q
  BY <1>1
<1>4. AtMost0(q) => AtMost0(Tail(q))
  BY <1>2 DEF AtMost0
<1>5. InOrder(q) => InOrder(Tail(q))
  <2> SUFFICES ASSUME InOrder(q), NEW k \in DOMAIN Tail(q), NEW j \in DOMAIN Tail(q),
                      Live(Tail(q)[k]), j > k
               PROVE  IsAdded(Tail(q)[j])
    BY DEF InOrder
  <2>1. j + 1 > k + 1
    BY <1>2
  <2> QED
    BY <1>2, <2>1 DEF InOrder
<1>6. NoLive(q) => NoLive(Tail(q))
  BY <1>2 DEF NoLive
<1>7. AllAdded(q) => AllAdded(Tail(q))
  BY <1>2 DEF AllAdded
<1>8. InOrder(q) /\ Live(Head(q)) => AllAdded(Tail(q))
  <2> SUFFICES ASSUME InOrder(q), Live(q[1]), NEW k \in DOMAIN Tail(q)
               PROVE  IsAdded(Tail(q)[k])
    BY <1>1 DEF AllAdded
  <2> QED
    BY <1>2, <1>3 DEF InOrder
<1> QED
  BY <1>4, <1>5, <1>6, <1>7, <1>8

\* What a reset posts, when there is at most one device to post it for.
LEMMA PostedAtMost0 ==
  ASSUME attached \in Seq(Devices), Len(attached) <= 1, NEW db, NEW posted \in Reposts(db)
  PROVE  /\ AllAdded(posted)
         /\ \A k \in DOMAIN posted : posted[k].which = 0
         /\ attached = <<>> => posted = <<>>
<1> DEFINE mapped == {i \in Indices : HasMapping(DeviceAt(i).guid, db)}
<1>1. Len(attached) \in Nat
  BY LenProperties
<1>2. mapped \subseteq {0}
  BY <1>1 DEF Indices
<1>3. attached = <<>> => mapped = {}
  BY DEF Indices
<1> HIDE DEF mapped
<1>4. PICK f \in [1 .. Cardinality(mapped) -> mapped] :
        posted = [k \in DOMAIN f |-> Added("CONTROLLERADDED", f[k])]
  BY DEF Reposts, mapped
<1>5. \A k \in DOMAIN posted : posted[k].which = 0 /\ posted[k].type = "CONTROLLERADDED"
  BY <1>2, <1>4 DEF Added
<1>6. ASSUME attached = <<>>
      PROVE  posted = <<>>
  <2>1. Cardinality(mapped) = 0
    BY <1>3, <1>6, FS_EmptySet
  <2>2. DOMAIN f = {}
    BY <1>4, <2>1
  <2>3. posted = [k \in {} |-> Added("CONTROLLERADDED", f[k])]
    BY <1>4, <2>2
  <2> QED
    BY <2>3
<1> QED
  BY <1>5, <1>6 DEF AllAdded, IsAdded

\* The slots remember the one device there has been, by the only index there is.
LoneSlots ==
  \A s \in Slots : Std(s) => /\ gDesignatedControllers[s].index = 0
                             /\ InstanceOf(s) < nextInstance

Lone ==
  /\ Len(attached) <= 1
  /\ \A n \in AttachedInst : n < nextInstance
  /\ LoneSlots
  /\ LoneQueue(queue, attached)

LEMMA AttachLone ==
  ASSUME MaxAttached <= 1, TypeOK, Lone, NEW g \in Guids, Attach(g)
  PROVE  Lone' /\ (\A n \in AttachedInst' : n = nextInstance)
<1> DEFINE e == Added("JOYADDED", Len(attached))
           f == Added("CONTROLLERADDED", Len(attached))
           b == HasMapping(g, internalDB)
           more == IF b THEN <<f>> ELSE <<>>
           new == [instance |-> nextInstance, guid |-> g]
<1>1. attached = <<>> /\ Len(attached) = 0
  <2>1. Len(attached) \in Nat /\ Len(attached) < MaxAttached
    BY LenProperties DEF Attach, TypeOK
  <2>2. Len(attached) = 0
    BY <2>1, NumbersAssumption
  <2> QED
    BY <2>2, EmptySeq DEF TypeOK
<1>2. attached' = <<new>>
  BY <1>1 DEF Attach
<1>3. AttachedInst' = {nextInstance} /\ Len(attached') = 1 /\ attached' # <<>>
  BY <1>2 DEF AttachedInst
<1>4. nextInstance' = nextInstance + 1 /\ nextInstance \in Int
  BY NumbersAssumption DEF Attach, TypeOK
<1>5. UNCHANGED gDesignatedControllers
  BY DEF Attach, table
<1>6. LoneSlots'
  <2>1. ASSUME NEW s \in Slots, Std(s)'
        PROVE  gDesignatedControllers'[s].index = 0 /\ InstanceOf(s)' < nextInstance'
    <3>1. Std(s) /\ InstanceOf(s)' = InstanceOf(s) /\ InstanceOf(s) \in Int
      BY <1>5, <2>1, SlotHasPlayer, NumbersAssumption
         DEF Std, InstanceOf, TypeOK, SlotArrays, SlotValues, Instances
    <3> QED
      BY <1>4, <1>5, <3>1 DEF Lone, LoneSlots
  <2> QED
    BY <2>1 DEF LoneSlots
<1>7. LoneQueue(queue', attached')
  <2>1. e \in Events /\ f \in Events /\ e.which = 0 /\ f.which = 0
    BY <1>1 DEF Added, Events
  <2>2. queue \in Seq(Events) /\ <<e>> \in Seq(Events) /\ more \in Seq(Events)
    BY <2>1 DEF TypeOK
  <2>3. AllAdded(<<e>>) /\ \A k \in DOMAIN <<e>> : <<e>>[k].which = 0
    BY <2>1 DEF AllAdded, IsAdded, Added
  <2>4. AllAdded(more) /\ \A k \in DOMAIN more : more[k].which = 0
    BY <2>1 DEF AllAdded, IsAdded, Added
  <2>5. queue' = (queue \o <<e>>) \o more
    BY DEF Attach
  <2> HIDE DEF e, f, b, more
  <2>6. AtMost0(queue) /\ InOrder(queue)
    BY DEF Lone, LoneQueue
  <2>7. queue \o <<e>> \in Seq(Events)
    BY <2>2, ConcatProperties
  <2>8. AtMost0(queue \o <<e>>) /\ InOrder(queue \o <<e>>)
    BY <2>2, <2>3, <2>6, AddedBehind
  <2> QED
    BY <1>3, <2>2, <2>4, <2>5, <2>7, <2>8, AddedBehind DEF LoneQueue
<1> HIDE DEF new
<1> QED
  BY <1>3, <1>4, <1>6, <1>7 DEF Lone

LEMMA DetachLone ==
  ASSUME TypeOK, Lone, NEW i, Detach(i)
  PROVE  Lone' /\ attached' = <<>> /\ AttachedInst' = {}
<1> DEFINE q == [k \in DOMAIN queue |-> Renumbered(queue[k], i)]
           e == Added("JOYREMOVED", DeviceAt(i).instance)
           f == Added("CONTROLLERREMOVED", DeviceAt(i).instance)
           b == HasMapping(DeviceAt(i).guid, internalDB)
           more == IF b THEN <<f>> ELSE <<>>
<1>1. Len(attached) = 1 /\ i = 0
  <2>1. Len(attached) \in Nat
    BY LenProperties DEF TypeOK
  <2>2. Len(attached) <= 1 /\ i \in 0 .. Len(attached) - 1
    BY DEF Lone, Detach, Indices
  <2> QED
    BY <2>1, <2>2, OnlyIndex
<1>2. attached' = <<>> /\ AttachedInst' = {}
  <2>1. attached' = [k \in 1 .. 0 |-> IF k <= i THEN attached[k] ELSE attached[k + 1]]
    BY <1>1 DEF Detach
  <2> QED
    BY <2>1 DEF AttachedInst
<1>3. UNCHANGED <<gDesignatedControllers, nextInstance>>
  BY DEF Detach, table
<1>4. LoneQueue(queue', attached')
  <2>1. e \in Events /\ f \in Events
    <3>1. DeviceAt(i).instance \in Int
      BY <1>1, GamepadType, NumbersAssumption DEF Indices, Devices, Instances
    <3> QED
      BY <3>1 DEF Added, Events
  <2>2. Len(queue) \in Nat /\ DOMAIN queue = 1 .. Len(queue) /\ queue \in Seq(Events)
    BY LenProperties DEF TypeOK
  <2>3. q \in Seq(Events)
    <3>1. \A k \in 1 .. Len(queue) : Renumbered(queue[k], i) \in Events
      BY <1>1, <2>2, RenumberedType, ElementOfSeq
    <3> QED
      BY <2>2, <3>1
  <2>4. <<e>> \in Seq(Events) /\ more \in Seq(Events)
    BY <2>1
  <2>5. queue' = (q \o <<e>>) \o more
    BY DEF Detach
  <2>6. ASSUME NEW k \in DOMAIN queue
        PROVE  /\ ~Live(Renumbered(queue[k], 0))
               /\ IsAdded(Renumbered(queue[k], 0)) => Renumbered(queue[k], 0).which \in {-1, 0}
    <3>1. queue[k] \in Events
      BY <2>2, ElementOfSeq
    <3>2. IsAdded(queue[k]) => queue[k].which \in {-1, 0}
      BY DEF Lone, LoneQueue, AtMost0
    <3>3. CASE queue[k].type \in KeptUpToDate /\ queue[k].which = 0
      BY <3>1, <3>3 DEF Renumbered, Live, IsAdded, Events
    <3>4. CASE queue[k].type \in KeptUpToDate /\ queue[k].which = -1
      BY <3>1, <3>4 DEF Renumbered, Live, IsAdded, Events
    <3>5. CASE queue[k].type \notin KeptUpToDate
      BY <3>2, <3>5 DEF Renumbered, Live
    <3>6. queue[k].type \in KeptUpToDate => queue[k].which \in {-1, 0}
      BY <3>2, SetsAssumption DEF IsAdded
    <3> QED
      BY <3>3, <3>4, <3>5, <3>6
  <2>7. AtMost0(q) /\ NoLive(q)
    BY <1>1, <2>6 DEF AtMost0, NoLive
  <2>8. \A k \in DOMAIN <<e>> : <<e>>[k].type \in {"JOYREMOVED", "CONTROLLERREMOVED"}
    BY DEF Added
  <2>9. \A k \in DOMAIN more : more[k].type \in {"JOYREMOVED", "CONTROLLERREMOVED"}
    BY DEF Added
  <2> HIDE DEF q, e, f, b, more
  <2>10. q \o <<e>> \in Seq(Events) /\ AtMost0(q \o <<e>>) /\ NoLive(q \o <<e>>)
    BY <2>3, <2>4, <2>7, <2>8, RemovedBehind, ConcatProperties
  <2>11. AtMost0(queue') /\ NoLive(queue')
    BY <2>4, <2>5, <2>9, <2>10, RemovedBehind
  <2> QED
    BY <2>11 DEF LoneQueue, InOrder, NoLive
<1>5. LoneSlots'
  BY <1>3 DEF Lone, LoneSlots, Std, InstanceOf
<1> QED
  BY <1>2, <1>4, <1>5 DEF Lone

\* A reset posts events behind rest; none when no device is there.
LEMMA ResetLone ==
  ASSUME TypeOK, Len(attached) <= 1, NEW t, NEW db, NEW rest \in Seq(Events),
         LoneQueue(rest, attached), ResetSDL(t, db, rest), UNCHANGED attached
  PROVE  LoneQueue(queue', attached') /\ (AllAdded(rest) => AllAdded(queue'))
<1>1. PICK posted \in Reposts(db) : queue' = rest \o posted
  BY DEF ResetSDL
<1>2. posted \in Seq(Events)
  BY RepostsType DEF TypeOK
<1>3. /\ AllAdded(posted) /\ \A k \in DOMAIN posted : posted[k].which = 0
      /\ attached = <<>> => posted = <<>>
  BY PostedAtMost0 DEF TypeOK
<1>4. rest \o <<>> = rest
  BY ConcatEmptySeq
<1> QED
  BY <1>1, <1>2, <1>3, <1>4, AddedBehind DEF LoneQueue

\* What openJoy fills the first free slot with.
Filled(new) ==
  /\ attached # <<>> /\ ~Ignored(0)
  /\ gDesignatedControllers' =
       [gDesignatedControllers EXCEPT ![FirstFree(gDesignatedControllers)] = new]
  /\ new.controllerType = STD /\ new.index = 0 /\ new.instance = attached[1].instance

\* openJoy leaves the slots alone, fills the first free one, or empties all.
LEMMA openJoyFills ==
  ASSUME TypeOK, Len(attached) <= 1, NEW i, NEW rest, openJoy(i, rest)
  PROVE  \/ UNCHANGED gDesignatedControllers /\ queue' = rest
         \/ i = 0 /\ queue' = rest /\ \E new : Filled(new)
         \/ /\ \A s \in Slots : ~Std(s)' /\ ~Wii(s)'
            /\ \E t, db : ResetSDL(t, db, rest)
<1> DEFINE s == FirstFree(gDesignatedControllers)
<1>1. CASE UNCHANGED gDesignatedControllers /\ queue' = rest
  BY <1>1
<1>2. CASE i \in Indices /\ ~Ignored(i) /\ Designate(i, rest)
  <2>1. i = 0 /\ Len(attached) = 1
    <3>1. Len(attached) \in Nat
      BY LenProperties DEF TypeOK
    <3>2. i \in 0 .. Len(attached) - 1
      BY <1>2 DEF Indices
    <3> QED
      BY <3>1, <3>2, OnlyIndex
  <2>2. ASSUME NEW ok, SetTable(Designated(Table, s, i, ok))
        PROVE  \E new : Filled(new)
    <3> DEFINE new == [numberOfDevices |-> 1, instance |-> DeviceAt(i).instance,
                       index |-> i, controllerType |-> STD,
                       joy |-> DeviceAt(i).guid, mappingOK |-> ok]
    <3>1. gDesignatedControllers' = [gDesignatedControllers EXCEPT ![s] = new]
      BY <2>2 DEF SetTable, Designated, Table
    <3>2. new.controllerType = STD /\ new.index = 0 /\ new.instance = attached[1].instance
      BY <2>1 DEF DeviceAt
    <3>3. attached # <<>>
      BY <2>1
    <3> HIDE DEF new
    <3>4. Filled(new)
      BY <1>2, <2>1, <3>1, <3>2, <3>3 DEF Filled
    <3> QED
      BY <3>4
  <2>3. ASSUME SetTable(DesignatedAfterReset(s))
        PROVE  \A r \in Slots : ~Std(r)' /\ ~Wii(r)'
    BY <2>3 DEF SetTable, DesignatedAfterReset, EmptyTable, NoController, Std, Wii, STD,
         WIIMOTE
  <2>4. \/ queue' = rest /\ \E ok : SetTable(Designated(Table, s, i, ok))
        \/ /\ SetTable(DesignatedAfterReset(s))
           /\ \E t, db : ResetSDL(t, db, rest)
    BY <1>2 DEF Designate
  <2> QED
    BY <2>1, <2>2, <2>3, <2>4
<1> QED
  BY <1>1, <1>2 DEF openJoy, table

\* What a slot that designates an SDL controller holds.
LEMMA StdSlotType ==
  ASSUME TypeOK, NEW s \in Slots, Std(s)
  PROVE  /\ gDesignatedControllers[s] \in StdSlots
         /\ InstanceOf(s) \in Instances /\ InstanceOf(s) # -1 /\ InstanceOf(s) \in Int
<1>1. gDesignatedControllers[s] \in FreeSlots \cup StdSlots \cup WiiSlots
  BY DEF TypeOK
<1>2. gDesignatedControllers[s] \in StdSlots
  <2>1. \A v \in FreeSlots : v.controllerType # STD
    BY DEF FreeSlots, NoController, STD
  <2>2. \A v \in WiiSlots : v.controllerType # STD
    BY DEF WiiSlots, STD, WIIMOTE
  <2> QED
    BY <1>1, <2>1, <2>2 DEF Std
<1> QED
  BY <1>2, NumbersAssumption DEF StdSlots, InstanceOf, Instances

\* The queue and the slots after an event is polled.
LEMMA PollEventLone ==
  ASSUME TypeOK, Lone, PollEvent
  PROVE  /\ Lone'
         /\ \/ UNCHANGED gDesignatedControllers /\ queue' = Tail(queue)
            \/ /\ IsAdded(Head(queue)) /\ Head(queue).which = 0
               /\ queue' = Tail(queue) /\ \E new : Filled(new)
            \/ /\ ~IsAdded(Head(queue)) /\ queue' = Tail(queue)
               /\ \A s \in Slots :
                    gDesignatedControllers'[s] # gDesignatedControllers[s]
                      => ~Std(s)' /\ ~Wii(s)'
            \/ \A s \in Slots : ~Std(s)' /\ ~Wii(s)'
<1>1. queue # <<>> /\ UNCHANGED <<attached, nextInstance>> /\ AttachedInst' = AttachedInst
  BY DEF PollEvent, sdl, AttachedInst
<1>2. LoneQueue(Tail(queue), attached) /\ Tail(queue) \in Seq(Events)
  BY <1>1, OrderInTail, HeadTailProperties DEF TypeOK, Lone, LoneQueue
<1>3. LoneQueue(queue', attached')
  BY <1>1, <1>2, ResetLone DEF PollEvent, openJoy, Designate, closeJoy, Lone
<1>4. ASSUME IsAdded(Head(queue)), openJoy(Head(queue).which, Tail(queue))
      PROVE  \/ UNCHANGED gDesignatedControllers /\ queue' = Tail(queue)
             \/ Head(queue).which = 0 /\ queue' = Tail(queue) /\ \E new : Filled(new)
             \/ \A s \in Slots : ~Std(s)' /\ ~Wii(s)'
  BY <1>4, openJoyFills DEF Lone
<1>5. ASSUME closeJoy(Head(queue).which, Tail(queue))
      PROVE  /\ queue' = Tail(queue)
             /\ \A s \in Slots : gDesignatedControllers'[s] # gDesignatedControllers[s]
                                   => ~Std(s)' /\ ~Wii(s)'
  BY <1>5 DEF closeJoy, SetTable, ClosedJoys, Table, NoController, Std, Wii, STD, WIIMOTE
<1>6. \/ UNCHANGED gDesignatedControllers /\ queue' = Tail(queue)
      \/ /\ IsAdded(Head(queue)) /\ Head(queue).which = 0
         /\ queue' = Tail(queue) /\ \E new : Filled(new)
      \/ /\ ~IsAdded(Head(queue)) /\ queue' = Tail(queue)
         /\ \A s \in Slots :
              gDesignatedControllers'[s] # gDesignatedControllers[s]
                => ~Std(s)' /\ ~Wii(s)'
      \/ \A s \in Slots : ~Std(s)' /\ ~Wii(s)'
  <2>1. CASE IsAdded(Head(queue)) /\ openJoy(Head(queue).which, Tail(queue))
    BY <1>4, <2>1
  <2>2. CASE ~IsAdded(Head(queue)) /\ closeJoy(Head(queue).which, Tail(queue))
    BY <1>5, <2>2
  <2>3. CASE UNCHANGED gDesignatedControllers /\ queue' = Tail(queue)
    BY <2>3
  <2> QED
    BY <2>1, <2>2, <2>3 DEF PollEvent, IsAdded, table
<1>7. LoneSlots'
  <2>1. ASSUME NEW s \in Slots, Std(s)',
               gDesignatedControllers'[s] = gDesignatedControllers[s]
        PROVE  gDesignatedControllers'[s].index = 0 /\ InstanceOf(s)' < nextInstance'
    BY <1>1, <2>1 DEF Std, InstanceOf, Lone, LoneSlots
  <2>2. ASSUME NEW new, Filled(new), NEW s \in Slots,
               gDesignatedControllers'[s] # gDesignatedControllers[s]
        PROVE  gDesignatedControllers'[s].index = 0 /\ InstanceOf(s)' < nextInstance'
    <3>1. gDesignatedControllers'[s] = new
      BY <2>2 DEF Filled, TypeOK
    <3>2. 1 \in DOMAIN attached
      BY <2>2, EmptySeq, LenProperties DEF Filled, TypeOK
    <3>3. attached[1].instance < nextInstance
      BY <3>2 DEF Lone, AttachedInst
    <3> QED
      BY <1>1, <2>2, <3>1, <3>3 DEF Filled, InstanceOf
  <2> QED
    BY <1>6, <2>1, <2>2 DEF LoneSlots
<1>8. Lone'
  BY <1>1, <1>3, <1>7 DEF Lone
<1> QED
  BY <1>6, <1>8

LEMMA mainLoopWiiKeepsStd ==
  ASSUME TypeOK, mainLoopWii, NEW s \in Slots, Std(s)'
  PROVE  gDesignatedControllers'[s] = gDesignatedControllers[s]
<1>1. PICK lost :
        SetTable(WiimoteTick(WiimoteTick(Table, 0, g_wiimotes[0], 0 \notin lost),
                             1, g_wiimotes[1], 1 \notin lost))
  BY DEF mainLoopWii
<1> DEFINE first == WiimoteTick(Table, 0, g_wiimotes[0], 0 \notin lost)
           both  == WiimoteTick(first, 1, g_wiimotes[1], 1 \notin lost)
<1>2. gDesignatedControllers' = both.slots /\ both.slots[s].controllerType = STD
  BY <1>1 DEF SetTable, Std
<1>3. first \in Tables
  BY TableType, WiimoteTickType
<1> HIDE DEF first
<1>4. both.slots[s] = first.slots[s]
  BY <1>2, <1>3, WiimotesBringNoStd
<1> USE DEF first
<1>5. first.slots[s] = Table.slots[s]
  BY <1>2, <1>4, TableType, WiimotesBringNoStd
<1> QED
  BY <1>2, <1>4, <1>5 DEF Table

LEMMA setMappingLone ==
  ASSUME TypeOK, Lone, NEW c \in Configured, setMapping(c)
  PROVE  Lone' /\ \A s \in Slots : ~Std(s)' /\ ~Wii(s)'
<1>1. UNCHANGED <<attached, nextInstance>> /\ AttachedInst' = AttachedInst
  BY DEF setMapping, sdl, AttachedInst
<1>2. \A s \in Slots : ~Std(s)' /\ ~Wii(s)'
  BY DEF setMapping, SetTable, EmptyTable, NoController, Std, Wii, STD, WIIMOTE
<1>3. \E t, db : ResetSDL(t, db, queue)
  BY DEF setMapping
<1>4. LoneQueue(queue', attached')
  BY <1>1, <1>3, ResetLone DEF Lone, TypeOK
<1> QED
  BY <1>1, <1>2, <1>4 DEF Lone, LoneSlots

LEMMA LonePreserved ==
  ASSUME MaxAttached <= 1, TypeOK, Lone, [Next]_vars
  PROVE  Lone'
<1>1. ASSUME NEW g \in Guids, Attach(g) PROVE Lone'
  BY <1>1, AttachLone
<1>2. ASSUME NEW i, Detach(i) PROVE Lone'
  BY <1>2, DetachLone
<1>3. CASE PollEvent
  BY <1>3, PollEventLone
<1>4. ASSUME NEW c \in Configured, setMapping(c) PROVE Lone'
  BY <1>4, setMappingLone
<1>5. CASE mainLoopWii
  <2>1. UNCHANGED <<attached, nextInstance, queue>> /\ AttachedInst' = AttachedInst
    BY <1>5 DEF mainLoopWii, sdl, AttachedInst
  <2>2. ASSUME NEW s \in Slots, Std(s)'
        PROVE  gDesignatedControllers'[s].index = 0 /\ InstanceOf(s)' < nextInstance'
    <3>1. gDesignatedControllers'[s] = gDesignatedControllers[s]
      BY <1>5, <2>2, mainLoopWiiKeepsStd
    <3> QED
      BY <2>1, <2>2, <3>1 DEF Std, InstanceOf, Lone, LoneSlots
  <2>3. LoneSlots'
    BY <2>2 DEF LoneSlots
  <2> QED
    BY <2>1, <2>3 DEF Lone
<1>6. CASE UNCHANGED <<sdl, queue, table>>
  BY <1>6 DEF Lone, LoneSlots, LoneQueue, AttachedInst, Std, InstanceOf, sdl, table
<1> QED
  BY <1>1, <1>2, <1>3, <1>4, <1>5, <1>6, NextCases

LEMMA InitLone == Init => Lone
<1> SUFFICES ASSUME Init PROVE Lone
  OBVIOUS
<1>1. attached = <<>> /\ queue = <<>> /\ AttachedInst = {} /\ Len(attached) = 0
  BY DEF Init, AttachedInst
<1>2. LoneSlots
  BY DEF Init, LoneSlots, Std, EmptyTable, NoController, STD
<1> QED
  BY <1>1, <1>2 DEF Lone, LoneQueue, AtMost0, InOrder, NoLive

-----------------------------------------------------------------------------
(* No Wiimotes: the lone device is always on slot 0.                       *)

NoWiimotes ==
  /\ g_wiimotes = [w \in {0, 1} |-> FALSE]
  /\ wiimoteOnline_prev = [w \in {0, 1} |-> FALSE]
  /\ \A s \in Slots : ~Wii(s)

OnlyOnSlot0 == \A s \in Slots : Std(s) => s = 0

FirstSlotInv == TypeOK /\ Lone /\ NoWiimotes /\ OnlyOnSlot0

\* The slot that is filled is slot 0, unless that has a Wiimote.
LEMMA FilledIsFirst ==
  ASSUME TypeOK, LoneSlots, NEW new, Filled(new)
  PROVE  /\ FirstFree(gDesignatedControllers) \in Slots /\ ~Std(0)
         /\ ~Wii(0) => FirstFree(gDesignatedControllers) = 0
<1>1. 0 \in Slots /\ Slots \subseteq Nat
  BY NumbersAssumption DEF Slots
<1>2. FirstFree(gDesignatedControllers) \in Free(gDesignatedControllers)
  BY FirstFreeIsFree DEF Filled, Ignored
<1>3. ~Std(0)
  BY <1>1 DEF LoneSlots, Filled, Ignored
<1>4. ASSUME ~Wii(0)
      PROVE  FirstFree(gDesignatedControllers) = 0
  <2>1. gDesignatedControllers[0] \in FreeSlots
    <3>1. gDesignatedControllers[0] \in FreeSlots \cup StdSlots \cup WiiSlots
      BY <1>1 DEF TypeOK
    <3>2. \A v \in StdSlots : v.controllerType = STD
      BY DEF StdSlots
    <3>3. \A v \in WiiSlots : v.controllerType = WIIMOTE
      BY DEF WiiSlots
    <3> QED
      BY <1>3, <1>4, <3>1, <3>2, <3>3 DEF Std, Wii
  <2>2. 0 \in Free(gDesignatedControllers)
    BY <1>1, <2>1 DEF Free, FreeSlots, NoController
  <2>3. FirstFree(gDesignatedControllers) <= 0
    BY <2>2, FirstFreeIsFirst
  <2>4. FirstFree(gDesignatedControllers) \in Nat
    BY <1>1, <1>2 DEF Free
  <2> QED
    BY <2>3, <2>4
<1> QED
  BY <1>2, <1>3, <1>4 DEF Free

LEMMA FirstSlotPreserved ==
  ASSUME MaxAttached <= 1, Wiimotes = {}, FirstSlotInv, [Next]_vars
  PROVE  FirstSlotInv'
<1> USE DEF FirstSlotInv
<1> SUFFICES NoWiimotes' /\ OnlyOnSlot0'
  BY NextType, LonePreserved
<1>2. ASSUME UNCHANGED <<gDesignatedControllers, g_wiimotes, wiimoteOnline_prev>>
      PROVE  NoWiimotes' /\ OnlyOnSlot0'
  BY <1>2 DEF NoWiimotes, OnlyOnSlot0, Wii, Std
<1>3. CASE mainLoopWii
  <2>1. PICK lost \in SUBSET {w \in Wiimotes : g_wiimotes[w]} :
          /\ SetTable(WiimoteTick(WiimoteTick(Table, 0, g_wiimotes[0], 0 \notin lost),
                                  1, g_wiimotes[1], 1 \notin lost))
          /\ g_wiimotes' = [w \in {0, 1} |-> g_wiimotes[w] /\ w \notin lost]
    BY <1>3 DEF mainLoopWii
  <2>2. \A t, still : /\ WiimoteTick(t, 0, g_wiimotes[0], still) = t
                      /\ WiimoteTick(t, 1, g_wiimotes[1], still) = t
    BY DEF WiimoteTick, NoWiimotes
  <2>3. SetTable(Table)
    BY <2>1, <2>2
  <2>4. UNCHANGED gDesignatedControllers
    BY <2>3 DEF SetTable, Table
  <2>5. UNCHANGED <<g_wiimotes, wiimoteOnline_prev>>
    BY <1>3, <2>1 DEF NoWiimotes, mainLoopWii
  <2> QED
    BY <1>2, <2>4, <2>5
<1>4. CASE PollEvent
  <2>1. UNCHANGED <<g_wiimotes, wiimoteOnline_prev>>
    BY <1>4 DEF PollEvent, wii
  <2>2. ASSUME NEW s \in Slots, ~Std(s)' /\ ~Wii(s)'
        PROVE  ~Wii(s)' /\ (Std(s)' => s = 0)
    BY <2>2
  <2>3. ASSUME NEW s \in Slots, gDesignatedControllers'[s] = gDesignatedControllers[s]
        PROVE  ~Wii(s)' /\ (Std(s)' => s = 0)
    BY <2>3 DEF NoWiimotes, OnlyOnSlot0, Wii, Std
  <2>4. ASSUME NEW new, Filled(new), NEW s \in Slots
        PROVE  ~Wii(s)' /\ (Std(s)' => s = 0)
    <3>1. FirstFree(gDesignatedControllers) = 0
      <4>1. ~Wii(0)
        BY NumbersAssumption DEF NoWiimotes, Slots
      <4> QED
        BY <2>4, <4>1, FilledIsFirst DEF Lone
    <3>2. CASE s = 0
      <4>1. gDesignatedControllers'[s] = new
        BY <2>4, <3>1, <3>2 DEF Filled, TypeOK
      <4> QED
        BY <2>4, <3>2, <4>1 DEF Filled, Wii, STD, WIIMOTE
    <3>3. CASE s # 0
      <4>1. gDesignatedControllers'[s] = gDesignatedControllers[s]
        BY <2>4, <3>1, <3>3 DEF Filled, TypeOK
      <4> QED
        BY <2>3, <4>1
    <3> QED
      BY <3>2, <3>3
  <2>5. \A s \in Slots : ~Wii(s)' /\ (Std(s)' => s = 0)
    BY <1>4, <2>2, <2>3, <2>4, PollEventLone
  <2> QED
    BY <2>1, <2>5 DEF NoWiimotes, OnlyOnSlot0
<1>5. ASSUME NEW c \in Configured, setMapping(c)
      PROVE  NoWiimotes' /\ OnlyOnSlot0'
  <2>1. UNCHANGED <<g_wiimotes, wiimoteOnline_prev>>
    BY <1>5 DEF setMapping, wii
  <2> QED
    BY <1>5, <2>1, setMappingLone DEF NoWiimotes, OnlyOnSlot0
<1>6. \/ PollEvent \/ mainLoopWii \/ \E c \in Configured : setMapping(c)
      \/ UNCHANGED <<gDesignatedControllers, g_wiimotes, wiimoteOnline_prev>>
  BY DEF Next, vars, table, wii, Attach, Detach, Scan, ShowPage, launch_emulator,
         EmulatorReturns
<1> QED
  BY <1>2, <1>3, <1>4, <1>5, <1>6

\* Where nobody uses a Wiimote and there is one gamepad at a time, it is on slot 0, and
\* so on one slot, however often openJoy runs for it: for its two events, for those SDL
\* posts after a reset, for stale ones (controller.cpp:236 compares its index).
THEOREM LoneControllerOnce ==
  ASSUME MaxAttached <= 1, Wiimotes = {}
  PROVE  Spec => []NoControllerTwice
<1>1. Init => FirstSlotInv
  <2> SUFFICES ASSUME Init PROVE FirstSlotInv
    OBVIOUS
  <2>1. NoWiimotes /\ OnlyOnSlot0
    BY DEF Init, NoWiimotes, OnlyOnSlot0, Wii, Std, EmptyTable, NoController, STD, WIIMOTE
  <2> QED
    BY <2>1, InitType, InitLone DEF FirstSlotInv
<1>2. FirstSlotInv /\ [Next]_vars => FirstSlotInv'
  BY FirstSlotPreserved
<1>3. FirstSlotInv => NoControllerTwice
  BY DEF FirstSlotInv, OnlyOnSlot0, NoControllerTwice
<1> QED
  BY <1>1, <1>2, <1>3, PTL DEF Spec

-----------------------------------------------------------------------------
(* With Wiimotes the lone device may get slot 1, and its other ADDED event *)
(* may still come.                                                         *)

NoneFor0(q) == \A k \in DOMAIN q : q[k].which # 0

\* Where a slot belongs to the attached device, no removal is queued; and slot 0 was a
\* Wiimote's when the device got another slot, and still is as long as an event waits
\* that could give the device slot 0 too.
Settled ==
  \A s \in Slots : Std(s) /\ InstanceOf(s) \in AttachedInst =>
    /\ AllAdded(queue)
    /\ s # 0 /\ ~Wii(0) => NoneFor0(queue)

TwiceInv == TypeOK /\ Lone /\ Settled /\ NoControllerTwice

LEMMA PollEventTwice ==
  ASSUME MaxGamepads = 2, {"JOYADDED", "CONTROLLERADDED"} \subseteq KeptUpToDate,
         TwiceInv, PollEvent
  PROVE  Settled' /\ NoControllerTwice'
<1> USE DEF TwiceInv
<1>1. Slots = {0, 1} /\ AttachedInst' = AttachedInst /\ queue # <<>>
      /\ queue \in Seq(Events)
  BY DEF Slots, AttachedInst, PollEvent, sdl, TypeOK
<1>2. /\ AllAdded(queue) => AllAdded(Tail(queue))
      /\ NoneFor0(queue) => NoneFor0(Tail(queue)) /\ Head(queue).which # 0
  <2>1. /\ Len(queue) # 0 /\ Len(queue) \in Nat /\ DOMAIN queue = 1 .. Len(queue)
        /\ Len(Tail(queue)) = Len(queue) - 1 /\ Tail(queue) \in Seq(Events)
        /\ DOMAIN Tail(queue) = 1 .. Len(Tail(queue)) /\ Head(queue) = queue[1]
    BY <1>1, EmptySeq, HeadTailProperties, LenProperties
  <2>2. 1 \in DOMAIN queue
    BY <2>1
  <2>3. \A k \in DOMAIN Tail(queue) : k + 1 \in DOMAIN queue
                                      /\ Tail(queue)[k] = queue[k + 1]
    BY <1>1, <2>1, HeadTailProperties
  <2> QED
    BY <1>1, <2>1, <2>2, <2>3, OrderInTail DEF NoneFor0
<1>3. CASE UNCHANGED gDesignatedControllers /\ queue' = Tail(queue)
  BY <1>1, <1>2, <1>3 DEF Settled, NoControllerTwice, Std, Wii, InstanceOf
<1>4. CASE \A s \in Slots : ~Std(s)' /\ ~Wii(s)'
  BY <1>4 DEF Settled, NoControllerTwice
<1>5. CASE /\ ~IsAdded(Head(queue)) /\ queue' = Tail(queue)
           /\ \A s \in Slots :
                gDesignatedControllers'[s] # gDesignatedControllers[s]
                  => ~Std(s)' /\ ~Wii(s)'
  <2>1. ~AllAdded(queue)
    <3>1. 1 \in DOMAIN queue /\ Head(queue) = queue[1]
      BY <1>1, EmptySeq, HeadTailProperties, LenProperties
    <3> QED
      BY <1>5, <3>1 DEF AllAdded
  <2>2. ASSUME NEW s \in Slots, Std(s)'
        PROVE  Std(s) /\ InstanceOf(s)' = InstanceOf(s)
    BY <1>5, <2>2 DEF Std, InstanceOf
  <2>3. ASSUME NEW s \in Slots, Std(s)'
        PROVE  InstanceOf(s)' \notin AttachedInst'
    BY <1>1, <2>1, <2>2, <2>3 DEF Settled
  <2> QED
    BY <2>2, <2>3 DEF Settled, NoControllerTwice
<1>6. ASSUME IsAdded(Head(queue)), Head(queue).which = 0, queue' = Tail(queue),
             NEW new, Filled(new)
      PROVE  Settled' /\ NoControllerTwice'
  <2> DEFINE f == FirstFree(gDesignatedControllers)
  <2>1. f \in Slots /\ ~Std(0) /\ (~Wii(0) => f = 0)
    BY <1>6, FilledIsFirst DEF Lone
  <2>2. gDesignatedControllers' = [gDesignatedControllers EXCEPT ![f] = new]
    BY <1>6 DEF Filled
  <2>3. Live(Head(queue))
    BY <1>6 DEF Live, IsAdded
  <2>4. AllAdded(Tail(queue))
    BY <1>1, <2>3, OrderInTail DEF Lone, LoneQueue
  <2>5. new.instance \in AttachedInst
    <3>1. 1 \in DOMAIN attached
      BY <1>6, EmptySeq, LenProperties DEF Filled, TypeOK
    <3> QED
      BY <1>6, <3>1 DEF Filled, AttachedInst
  <2> HIDE DEF f
  <2>6. /\ gDesignatedControllers'[f] = new
        /\ \A s \in Slots : s # f => gDesignatedControllers'[s] = gDesignatedControllers[s]
    BY <2>1, <2>2 DEF TypeOK
  <2>7. CASE f = 0
    <3>1. ASSUME Std(1), InstanceOf(1) \in AttachedInst
          PROVE  FALSE
      <4>1. ~Wii(0)
        <5>1. 0 \in Free(gDesignatedControllers)
          BY <1>6, <2>7, FirstFreeIsFree DEF Filled, Ignored, f
        <5> QED
          BY <5>1, HoldersAreOccupied, <1>1 DEF Wii, WIIMOTE, OccupiedIn, TypeOK, SlotArrays,
             SlotValues
      <4> QED
        BY <1>1, <1>2, <1>6, <3>1, <4>1 DEF Settled
    <3>2. Std(1)' => Std(1) /\ InstanceOf(1)' = InstanceOf(1)
      BY <1>1, <2>6, <2>7 DEF Std, InstanceOf
    <3>3. InstanceOf(0)' = new.instance
      BY <2>6, <2>7 DEF InstanceOf
    <3>4. NoControllerTwice'
      BY <1>1, <2>5, <3>1, <3>2, <3>3 DEF NoControllerTwice
    <3>5. Settled'
      BY <1>1, <1>6, <2>4, <3>1, <3>2 DEF Settled
    <3> QED
      BY <3>4, <3>5
  <2>8. CASE f = 1
    <3>1. Wii(0)' /\ ~Std(0)'
      BY <1>1, <2>1, <2>6, <2>8 DEF Wii, Std
    <3>2. NoControllerTwice'
      BY <1>1, <3>1 DEF NoControllerTwice
    <3>3. Settled'
      BY <1>1, <1>6, <2>4, <3>1 DEF Settled
    <3> QED
      BY <3>2, <3>3
  <2> QED
    BY <1>1, <2>1, <2>7, <2>8
<1> QED
  BY <1>3, <1>4, <1>5, <1>6, PollEventLone

LEMMA TwicePreserved ==
  ASSUME MaxAttached <= 1, MaxGamepads = 2,
         {"JOYADDED", "CONTROLLERADDED"} \subseteq KeptUpToDate, TwiceInv, [Next]_vars
  PROVE  TwiceInv'
<1> USE DEF TwiceInv
<1> SUFFICES Settled' /\ NoControllerTwice'
  BY NextType, LonePreserved
<1>2. ASSUME NEW g \in Guids, Attach(g)
      PROVE  Settled' /\ NoControllerTwice'
  <2>1. \A n \in AttachedInst' : n = nextInstance
    BY <1>2, AttachLone
  <2>2. UNCHANGED gDesignatedControllers
    BY <1>2 DEF Attach, table
  <2>3. ASSUME NEW s \in Slots, Std(s)'
        PROVE  InstanceOf(s)' \notin AttachedInst'
    <3>1. Std(s) /\ InstanceOf(s)' = InstanceOf(s)
      BY <2>2, <2>3 DEF Std, InstanceOf
    <3>2. InstanceOf(s) < nextInstance /\ InstanceOf(s) \in Int
      BY <3>1, StdSlotType DEF Lone, LoneSlots
    <3> QED
      BY <2>1, <3>1, <3>2
  <2>4. NoControllerTwice'
    BY <2>2 DEF NoControllerTwice, Std, InstanceOf
  <2> QED
    BY <2>3, <2>4 DEF Settled
<1>3. ASSUME NEW i, Detach(i)
      PROVE  Settled' /\ NoControllerTwice'
  <2>1. AttachedInst' = {} /\ UNCHANGED gDesignatedControllers
    BY <1>3, DetachLone DEF Detach, table
  <2> QED
    BY <2>1 DEF Settled, NoControllerTwice, Std, InstanceOf
<1>4. CASE PollEvent
  BY <1>4, PollEventTwice
<1>5. ASSUME NEW c \in Configured, setMapping(c)
      PROVE  Settled' /\ NoControllerTwice'
  BY <1>5, setMappingLone DEF Settled, NoControllerTwice
<1>6. CASE mainLoopWii
  <2>1. queue' = <<>>
    BY <1>6 DEF mainLoopWii
  <2>2. \A s \in Slots : Std(s)' => Std(s) /\ InstanceOf(s)' = InstanceOf(s)
    BY <1>6, mainLoopWiiKeepsStd DEF Std, InstanceOf
  <2> QED
    BY <2>1, <2>2 DEF Settled, AllAdded, NoneFor0, NoControllerTwice
<1>7. CASE UNCHANGED <<sdl, queue, table>>
  BY <1>7 DEF Settled, NoControllerTwice, Std, Wii, InstanceOf, AttachedInst, sdl, table
<1> QED
  BY <1>2, <1>3, <1>4, <1>5, <1>6, <1>7, NextCases

\* Wiimotes come and go beside the gamepad: with Marley's two slots it still has one,
\* as long as SDL keeps the index of both kinds of ADDED events up to date.
THEOREM LoneControllerBesideWiimotes ==
  ASSUME MaxAttached <= 1, MaxGamepads = 2,
         {"JOYADDED", "CONTROLLERADDED"} \subseteq KeptUpToDate
  PROVE  Spec => []NoControllerTwice
<1>1. Init => TwiceInv
  <2> SUFFICES ASSUME Init PROVE TwiceInv
    OBVIOUS
  <2>1. Settled /\ NoControllerTwice
    BY DEF Init, Settled, NoControllerTwice, Std, EmptyTable, NoController, STD
  <2> QED
    BY <2>1, InitType, InitLone DEF TwiceInv
<1>2. TwiceInv /\ [Next]_vars => TwiceInv'
  BY TwicePreserved
<1>3. TwiceInv => NoControllerTwice
  BY DEF TwiceInv
<1> QED
  BY <1>1, <1>2, <1>3, PTL DEF Spec

-----------------------------------------------------------------------------
(* A device the launcher hears of gets a slot.                             *)

\* Only the poll loop takes an event off the queue.
LEMMA OnlyPollTakes ==
  ASSUME TypeOK, [Next]_vars, queue # <<>>, queue' = Tail(queue)
  PROVE  PollEvent
<1>1. queue \in Seq(Events) /\ Len(queue) \in Nat
  BY LenProperties DEF TypeOK
<1>2. Len(queue') = Len(queue) - 1
  BY <1>1, HeadTailProperties
<1>3. ASSUME NEW e, NEW f, NEW b, NEW q \in Seq(Events), Len(q) = Len(queue),
             e \in Events, f \in Events,
             queue' = (q \o <<e>>) \o IF b THEN <<f>> ELSE <<>>
      PROVE  FALSE
  <2>1. <<e>> \in Seq(Events) /\ Len(<<e>>) = 1
    BY <1>3
  <2>2. q \o <<e>> \in Seq(Events) /\ Len(q \o <<e>>) = Len(queue) + 1
    BY <1>3, <2>1, ConcatProperties
  <2> DEFINE more == IF b THEN <<f>> ELSE <<>>
  <2>3. more \in Seq(Events) /\ Len(more) \in Nat
    BY <1>3
  <2>4. queue' = (q \o <<e>>) \o more
    BY <1>3
  <2> HIDE DEF more
  <2>5. Len(queue') = Len(q \o <<e>>) + Len(more)
    BY <2>2, <2>3, <2>4, ConcatProperties
  <2> QED
    BY <1>1, <1>2, <2>2, <2>3, <2>5
<1>4. ASSUME NEW g \in Guids, Attach(g)
      PROVE  FALSE
  <2>1. Len(attached) \in Nat
    BY LenProperties DEF TypeOK
  <2>2. Added("JOYADDED", Len(attached)) \in Events
        /\ Added("CONTROLLERADDED", Len(attached)) \in Events
    BY <2>1 DEF Added, Events
  <2> QED
    BY <1>1, <1>3, <1>4, <2>2 DEF Attach
<1>5. ASSUME NEW i \in 0 .. MaxAttached - 1, Detach(i)
      PROVE  FALSE
  <2> DEFINE q == [k \in DOMAIN queue |-> Renumbered(queue[k], i)]
  <2>1. DOMAIN queue = 1 .. Len(queue)
    BY LenProperties DEF TypeOK
  <2>2. q \in Seq(Events) /\ Len(q) = Len(queue)
    <3>1. \A k \in 1 .. Len(queue) : Renumbered(queue[k], i) \in Events
      BY <1>1, <2>1, RenumberedType, ElementOfSeq
    <3> QED
      BY <1>1, <2>1, <3>1
  <2>3. DeviceAt(i).instance \in Int
    <3>1. i \in Indices
      BY <1>5 DEF Detach
    <3> QED
      BY <3>1, GamepadType, NumbersAssumption DEF Devices, Instances
  <2>4. Added("JOYREMOVED", DeviceAt(i).instance) \in Events
        /\ Added("CONTROLLERREMOVED", DeviceAt(i).instance) \in Events
    BY <2>3 DEF Added, Events
  <2> HIDE DEF q
  <2>5. queue' = (q \o <<Added("JOYREMOVED", DeviceAt(i).instance)>>)
                  \o IF HasMapping(DeviceAt(i).guid, internalDB)
                     THEN <<Added("CONTROLLERREMOVED", DeviceAt(i).instance)>>
                     ELSE <<>>
    BY <1>5 DEF Detach, q
  <2> QED
    BY <1>3, <2>2, <2>4, <2>5
<1>6. ASSUME NEW c \in Configured, setMapping(c)
      PROVE  FALSE
  <2>1. PICK db : \E posted \in Reposts(db) : queue' = queue \o posted
    BY <1>6 DEF setMapping, ResetSDL
  <2>2. PICK posted \in Reposts(db) : queue' = queue \o posted
    BY <2>1
  <2>3. posted \in Seq(Events)
    BY RepostsType DEF TypeOK
  <2>4. Len(queue') = Len(queue) + Len(posted) /\ Len(posted) \in Nat
    BY <1>1, <2>2, <2>3, ConcatProperties, LenProperties
  <2> QED
    BY <1>1, <1>2, <2>4
<1>7. ASSUME queue' = queue
      PROVE  FALSE
  <2>1. Len(queue') = Len(queue)
    BY <1>7
  <2> QED
    BY <1>1, <1>2, <2>1
<1>8. ~mainLoopWii /\ ~UNCHANGED <<sdl, queue, table>>
  BY <1>7 DEF mainLoopWii
<1> QED
  BY <1>4, <1>5, <1>6, <1>8, NextCases

\* While every instance has an entry in gGamepad[], all that are gone are on their way out.
GoneAreRemoved ==
  \A s \in Slots : Std(s) => InstanceOf(s) \in AttachedInst \/ Removed(InstanceOf(s))

LEMMA AllGoneAreRemoved ==
  ASSUME MaxInstances <= MaxPlugged, "deaf" \notin Emulators
  PROVE  Spec => []GoneAreRemoved
<1>1. TypeOK /\ GoneControllersAreOnTheirWayOut => GoneAreRemoved
  <2> SUFFICES ASSUME TypeOK, GoneControllersAreOnTheirWayOut, NEW s \in Slots, Std(s)
               PROVE  InstanceOf(s) \in AttachedInst \/ Removed(InstanceOf(s))
    BY DEF GoneAreRemoved
  <2>1. gDesignatedControllers[s] \in FreeSlots \cup StdSlots \cup WiiSlots
    BY DEF TypeOK
  <2>2. \A v \in FreeSlots \cup WiiSlots : v.controllerType # STD
    <3>1. \A v \in FreeSlots : v.controllerType # STD
      BY DEF FreeSlots, NoController, STD
    <3>2. \A v \in WiiSlots : v.controllerType # STD
      BY DEF WiiSlots, STD, WIIMOTE
    <3> QED
      BY <3>1, <3>2
  <2>3. \A v \in StdSlots : v.instance \in Instances
    BY DEF StdSlots
  <2>4. InstanceOf(s) \in Instances
    BY <2>1, <2>2, <2>3 DEF Std, InstanceOf
  <2>5. ~(InstanceOf(s) >= MaxPlugged)
    BY <2>4, NumbersAssumption DEF Instances
  <2> QED
    BY <2>5 DEF GoneControllersAreOnTheirWayOut
<1> QED
  BY <1>1, TypeCorrect, GoneCorrect, PTL

HeardInv == TypeOK /\ Lone /\ GoneAreRemoved

LEMMA HeardGetsSlot ==
  ASSUME "JOYADDED" \in KeptUpToDate, HeardInv, [Next]_vars,
         NEW n \in Instances, HearsOf(n), queue' = Tail(queue)
  PROVE  \E s \in Slots : Std(s)' /\ InstanceOf(s)' = n
<1> USE DEF HeardInv
<1> DEFINE e == Head(queue)
<1>1. /\ PollEvent /\ queue # <<>> /\ mode = "launcher" /\ e.type = "JOYADDED"
      /\ queue \in Seq(Events)
  BY OnlyPollTakes DEF HearsOf, TypeOK
<1>2. e.which = 0 /\ Len(attached) = 1 /\ 0 \in Indices
  <2>1. Len(attached) \in Nat /\ Len(attached) <= 1
    BY LenProperties DEF Lone, TypeOK
  <2>2. e.which \in 0 .. Len(attached) - 1 /\ e.which \in Indices
    BY DEF HearsOf, Indices
  <2> QED
    BY <2>1, <2>2, OnlyIndex
<1>3. /\ DeviceAt(0).instance = n /\ DeviceAt(0).guid \notin Unsupported
      /\ Free(gDesignatedControllers) # {}
  BY <1>2 DEF HearsOf
<1>4. openJoy(0, Tail(queue))
  BY <1>1, <1>2 DEF PollEvent, Handled
<1>5. AttachedInst = {n}
  <2>1. DOMAIN attached = {1}
    BY <1>2, LenProperties DEF TypeOK
  <2> QED
    BY <1>3, <2>1 DEF AttachedInst, DeviceAt
<1>6. \A m : ~RemovedIn(queue, m)
  <2>1. Live(e)
    BY <1>1, <1>2 DEF Live
  <2>2. AllAdded(Tail(queue))
    BY <1>1, <2>1, OrderInTail DEF Lone, LoneQueue
  <2> SUFFICES ASSUME NEW m, RemovedIn(queue, m) PROVE FALSE
    OBVIOUS
  <2>3. Head(queue) # Added("JOYREMOVED", m)
    BY <1>1 DEF Added
  <2>4. RemovedIn(Tail(queue), m)
    BY <1>1, <2>3, RemovedInTail
  <2> QED
    BY <2>2, <2>4 DEF RemovedIn, AllAdded, IsAdded, Added
<1>7. CASE Ignored(0) /\ UNCHANGED gDesignatedControllers
  <2>1. 0 \in Slots /\ gDesignatedControllers[0].index = 0
    BY <1>3, <1>7, NumbersAssumption DEF Ignored, Slots
  <2>2. Std(0)
    <3>1. gDesignatedControllers[0] \in FreeSlots \cup StdSlots \cup WiiSlots
      BY <2>1 DEF TypeOK
    <3>2. \A v \in FreeSlots : v.index = -1
      BY DEF FreeSlots, NoController
    <3>3. \A v \in WiiSlots : v.index = -1
      BY DEF WiiSlots
    <3>4. \A v \in StdSlots : v.controllerType = STD
      BY DEF StdSlots
    <3> QED
      BY <2>1, <3>1, <3>2, <3>3, <3>4 DEF Std
  <2>3. InstanceOf(0) \in AttachedInst
    BY <1>6, <2>1, <2>2 DEF GoneAreRemoved, Removed, RemovedIn
  <2> QED
    BY <1>5, <1>7, <2>1, <2>2, <2>3 DEF Std, InstanceOf
<1>8. CASE ~Ignored(0) /\ Designate(0, Tail(queue))
  <2>1. PICK f \in Slots : f = FirstFree(gDesignatedControllers)
    BY <1>3, FirstFreeIsFree DEF Free
  <2>2. ASSUME NEW ok, SetTable(Designated(Table, f, 0, ok))
        PROVE  Std(f)' /\ InstanceOf(f)' = n
    <3> DEFINE new == [numberOfDevices |-> 1, instance |-> DeviceAt(0).instance,
                       index |-> 0, controllerType |-> STD,
                       joy |-> DeviceAt(0).guid, mappingOK |-> ok]
    <3>1. gDesignatedControllers' = [gDesignatedControllers EXCEPT ![f] = new]
      BY <2>2 DEF SetTable, Designated, Table
    <3>2. new.controllerType = STD /\ new.instance = n
      BY <1>3
    <3> HIDE DEF new
    <3>3. gDesignatedControllers'[f] = new
      BY <3>1 DEF TypeOK
    <3> QED
      BY <3>2, <3>3 DEF Std, InstanceOf
  <2>3. ASSUME NEW t, NEW db, DeviceAt(0).guid \in db, ResetSDL(t, db, Tail(queue))
        PROVE  FALSE
    <3> DEFINE mapped == {i \in Indices : HasMapping(DeviceAt(i).guid, db)}
    <3>1. PICK posted \in Reposts(db) : queue' = Tail(queue) \o posted
      BY <2>3 DEF ResetSDL
    <3>2. mapped = {0}
      BY <1>2, <2>3 DEF Indices, HasMapping
    <3>3. Cardinality(mapped) = 1
      BY <3>2, FS_Singleton
    <3> HIDE DEF mapped
    <3>4. PICK g \in [1 .. Cardinality(mapped) -> mapped] :
            posted = [k \in DOMAIN g |-> Added("CONTROLLERADDED", g[k])]
      BY DEF Reposts, mapped
    <3>5. DOMAIN posted = 1 .. 1
      BY <3>3, <3>4
    <3>6. posted \in Seq(Events) /\ Tail(queue) \in Seq(Events)
      BY <1>1, RepostsType, HeadTailProperties DEF TypeOK
    <3>7. Len(posted) = 1
      BY <3>5, <3>6, LenProperties
    <3>8. Len(Tail(queue) \o posted) = Len(Tail(queue)) + Len(posted)
      BY <3>6, ConcatProperties
    <3>9. Len(queue') = Len(Tail(queue)) + 1
      BY <3>1, <3>7, <3>8
    <3>10. Len(Tail(queue)) \in Nat /\ Len(queue') = Len(Tail(queue))
      BY <3>6, LenProperties
    <3> QED
      BY <3>9, <3>10
  <2>4. \/ \E ok : SetTable(Designated(Table, f, 0, ok))
        \/ \E t, db : DeviceAt(0).guid \in db /\ ResetSDL(t, db, Tail(queue))
    <3>1. DeviceAt(0).guid \in internalDB \cup {DeviceAt(0).guid}
      OBVIOUS
    <3> QED
      BY <1>8, <2>1, <3>1 DEF Designate
  <2> QED
    BY <2>2, <2>3, <2>4
<1>9. 0 < MaxPlugged
  BY NumbersAssumption
<1> QED
  BY <1>2, <1>4, <1>7, <1>8, <1>9, NumbersAssumption DEF openJoy

\* One gamepad at a time, removals that reach the launcher, and a JOYADDED event whose
\* index SDL keeps up to date: plugging it in gives it a slot ("automatically detected",
\* README.md:28), whatever happens between the two events and to stale ones.
THEOREM HotplugDetected ==
  ASSUME MaxAttached <= 1, MaxInstances <= MaxPlugged, "deaf" \notin Emulators,
         "JOYADDED" \in KeptUpToDate
  PROVE  Spec => HotplugIsDetected
<1>1. TypeOK /\ Lone /\ [Next]_vars => Lone'
  BY LonePreserved
<1>2. TypeOK /\ Lone /\ GoneAreRemoved /\ [Next]_vars
        => [\A n \in Instances :
              HearsOf(n) /\ queue' = Tail(queue)
                => \E s \in Slots : Std(s)' /\ InstanceOf(s)' = n]_vars
  BY HeardGetsSlot DEF HeardInv
<1>3. Spec => []GoneAreRemoved
  BY AllGoneAreRemoved
<1> QED
  BY <1>1, <1>2, <1>3, InitLone, TypeCorrect, PTL DEF Spec, HotplugIsDetected

-----------------------------------------------------------------------------
(* What the slots show when no event waits.                                *)

\* An event waits that gives device 0 a slot, and no removal waits behind it.
Pending(q) ==
  \E k \in DOMAIN q : /\ IsAdded(q[k]) /\ q[k].which = 0
                      /\ \A j \in DOMAIN q : j > k => IsAdded(q[j])

\* The removals that wait are not those of an attached device, nor of one to come.
OldRemovals(q, present, next) ==
  \A k \in DOMAIN q : ~IsAdded(q[k]) => q[k].which < next /\ q[k].which \notin present

LEMMA PendingBehind ==
  ASSUME NEW q \in Seq(Events), NEW r \in Seq(Events), AllAdded(r),
         \A k \in DOMAIN r : r[k].which = 0
  PROVE  /\ Pending(q) => Pending(q \o r)
         /\ r # <<>> => Pending(q \o r)
         /\ \A present, next : OldRemovals(q, present, next)
                                 => OldRemovals(q \o r, present, next)
<1> DEFINE both == q \o r
<1>0. /\ DOMAIN q = 1 .. Len(q) /\ Len(q) \in Nat
      /\ DOMAIN r = 1 .. Len(r) /\ Len(r) \in Nat
      /\ DOMAIN both = 1 .. Len(q) + Len(r)
  BY LenProperties, ConcatProperties
<1>1. \A k \in DOMAIN q : k \in DOMAIN both /\ both[k] = q[k]
  BY <1>0, ConcatProperties
<1>2. \A k \in DOMAIN both :
        \/ k \in DOMAIN q /\ both[k] = q[k]
        \/ k \notin DOMAIN q /\ IsAdded(both[k]) /\ both[k].which = 0
  <2> SUFFICES ASSUME NEW k \in DOMAIN both
               PROVE  \/ k \in DOMAIN q /\ both[k] = q[k]
                      \/ k \notin DOMAIN q /\ IsAdded(both[k]) /\ both[k].which = 0
    OBVIOUS
  <2>1. CASE k <= Len(q)
    BY <1>0, <1>1, <2>1
  <2>2. CASE k > Len(q)
    BY <1>0, <2>2, EventOfConcat DEF AllAdded
  <2> QED
    BY <1>0, <2>1, <2>2
<1>3. ASSUME r # <<>>
      PROVE  Pending(both)
  <2>1. Len(r) # 0
    BY <1>3, EmptySeq
  <2>2. Len(q) + Len(r) \in DOMAIN both /\ Len(q) + Len(r) \notin DOMAIN q
    BY <1>0, <2>1
  <2>3. \A j \in DOMAIN both : ~(j > Len(q) + Len(r))
    BY <1>0
  <2> HIDE DEF both
  <2> QED
    BY <1>2, <2>2, <2>3 DEF Pending
<1> HIDE DEF both
<1>4. Pending(q) => Pending(both)
  BY <1>1, <1>2 DEF Pending
<1>5. \A present, next : OldRemovals(q, present, next) => OldRemovals(both, present, next)
  BY <1>2 DEF OldRemovals
<1> QED
  BY <1>3, <1>4, <1>5 DEF both

LEMMA PendingInTail ==
  ASSUME NEW q \in Seq(Events), q # <<>>
  PROVE  /\ Pending(q) => \/ Pending(Tail(q))
                          \/ IsAdded(Head(q)) /\ Head(q).which = 0 /\ AllAdded(Tail(q))
         /\ \A present, next : OldRemovals(q, present, next)
              => /\ OldRemovals(Tail(q), present, next)
                 /\ ~IsAdded(Head(q)) => Head(q).which \notin present
<1>1. /\ Tail(q) \in Seq(Events) /\ Len(Tail(q)) = Len(q) - 1 /\ Len(q) \in Nat
      /\ DOMAIN q = 1 .. Len(q) /\ DOMAIN Tail(q) = 1 .. Len(Tail(q))
      /\ Head(q) = q[1] /\ Len(q) # 0
  BY HeadTailProperties, LenProperties, EmptySeq
<1>2. \A k \in DOMAIN Tail(q) : k + 1 \in DOMAIN q /\ Tail(q)[k] = q[k + 1] /\ k >= 1
  BY <1>1, HeadTailProperties
<1>3. ASSUME Pending(q), ~Pending(Tail(q))
      PROVE  IsAdded(Head(q)) /\ Head(q).which = 0 /\ AllAdded(Tail(q))
  <2>1. PICK k \in DOMAIN q : /\ IsAdded(q[k]) /\ q[k].which = 0
                              /\ \A j \in DOMAIN q : j > k => IsAdded(q[j])
    BY <1>3 DEF Pending
  <2>2. CASE k = 1
    <3>1. \A j \in DOMAIN Tail(q) : j + 1 > 1
      BY <1>1
    <3> QED
      BY <1>1, <1>2, <2>1, <2>2, <3>1 DEF AllAdded
  <2>3. CASE k # 1
    <3>1. k - 1 \in DOMAIN Tail(q) /\ (k - 1) + 1 = k
      BY <1>1, <2>3
    <3>2. Tail(q)[k - 1] = q[k]
      BY <1>2, <3>1
    <3>3. \A j \in DOMAIN Tail(q) : j > k - 1 => j + 1 > k
      BY <1>1
    <3>4. \A j \in DOMAIN Tail(q) : j > k - 1 => IsAdded(Tail(q)[j])
      BY <1>2, <2>1, <3>3
    <3> QED
      BY <1>3, <2>1, <3>1, <3>2, <3>4 DEF Pending
  <2> QED
    BY <2>2, <2>3
<1>4. 1 \in DOMAIN q
  BY <1>1
<1> QED
  BY <1>1, <1>2, <1>3, <1>4 DEF OldRemovals

\* A reset posts an event for the device when SDL can use it.
LEMMA ResetPosts ==
  ASSUME TypeOK, Len(attached) = 1, NEW t, NEW db, NEW rest \in Seq(Events),
         HasMapping(DeviceAt(0).guid, db), ResetSDL(t, db, rest)
  PROVE  Pending(queue')
<1> DEFINE mapped == {i \in Indices : HasMapping(DeviceAt(i).guid, db)}
<1>1. PICK posted \in Reposts(db) : queue' = rest \o posted
  BY DEF ResetSDL
<1>2. mapped = {0}
  BY DEF Indices
<1>3. Cardinality(mapped) = 1
  BY <1>2, FS_Singleton
<1> HIDE DEF mapped
<1>4. PICK f \in [1 .. Cardinality(mapped) -> mapped] :
        posted = [k \in DOMAIN f |-> Added("CONTROLLERADDED", f[k])]
  BY DEF Reposts, mapped
<1>5. posted \in Seq(Events)
  BY RepostsType DEF TypeOK
<1>6. posted # <<>>
  <2>1. DOMAIN posted = 1 .. 1
    BY <1>3, <1>4
  <2>2. Len(posted) = 1
    BY <1>5, <2>1, LenProperties
  <2> QED
    BY <2>2
<1>7. AllAdded(posted) /\ \A k \in DOMAIN posted : posted[k].which = 0
  BY PostedAtMost0 DEF TypeOK
<1> QED
  BY <1>1, <1>5, <1>6, <1>7, PendingBehind

InLauncher == mode = "launcher"

OwnWiimotes ==
  \A w \in {0, 1} : g_wiimotes[w] \/ wiimoteOnline_prev[w] => w \in Wiimotes

Supported == DeviceAt(0).guid \notin Unsupported

Shown == \E s \in Slots : Std(s) /\ InstanceOf(s) = DeviceAt(0).instance

ShownOrPending == attached # <<>> /\ Supported => Shown \/ Pending(queue)

OneIsComing ==
  /\ Lone /\ InLauncher /\ OwnWiimotes
  /\ OldRemovals(queue, AttachedInst, nextInstance)
  /\ ShownOrPending

\* Where no removal waits, there is a slot for a device that has none.
LEMMA RoomForOne ==
  ASSUME TypeOK, GoneAreRemoved, WiimoteSlotsAreOnline, OwnWiimotes,
         0 \notin Wiimotes \/ 1 \notin Wiimotes,
         Len(attached) = 1, Supported, ~Shown, \A n : ~Removed(n)
  PROVE  ~Ignored(0)
<1>1. AttachedInst = {DeviceAt(0).instance}
  <2>1. DOMAIN attached = {1}
    BY LenProperties DEF TypeOK
  <2> QED
    BY <2>1 DEF AttachedInst, DeviceAt
<1>2. \A s \in Slots : ~Std(s)
  BY <1>1 DEF GoneAreRemoved, Shown
<1>3. ASSUME NEW s \in Slots
      PROVE  \/ gDesignatedControllers[s] \in FreeSlots
             \/ Wii(s) /\ InstanceOf(s) \in Wiimotes /\ gDesignatedControllers[s].index = -1
  <2>1. gDesignatedControllers[s] \in FreeSlots \cup StdSlots \cup WiiSlots
    BY DEF TypeOK
  <2>2. \A v \in StdSlots : v.controllerType = STD
    BY DEF StdSlots
  <2>3. \A v \in WiiSlots : v.controllerType = WIIMOTE /\ v.instance \in {0, 1} /\ v.index = -1
    BY DEF WiiSlots
  <2>4. CASE gDesignatedControllers[s] \in WiiSlots
    <3>1. Wii(s) /\ InstanceOf(s) \in {0, 1} /\ gDesignatedControllers[s].index = -1
      BY <2>3, <2>4 DEF Wii, InstanceOf
    <3>2. wiimoteOnline_prev[InstanceOf(s)]
      BY <3>1, Zenon DEF WiimoteSlotsAreOnline
    <3>3. InstanceOf(s) \in Wiimotes
      BY <3>1, <3>2, Zenon DEF OwnWiimotes
    <3> QED
      BY <3>1, <3>3
  <2> QED
    BY <1>2, <2>1, <2>2, <2>4 DEF Std
<1>4. \A v \in FreeSlots : v.numberOfDevices = 0 /\ v.index = -1
  BY DEF FreeSlots, NoController
<1>5. 0 \in Slots /\ 1 \in Slots
  BY NumbersAssumption DEF Slots
<1>6. gDesignatedControllers[0].index # 0
  BY <1>3, <1>4, <1>5
<1>7. Free(gDesignatedControllers) # {}
  <2>1. SUFFICES ASSUME Free(gDesignatedControllers) = {} PROVE FALSE
    OBVIOUS
  <2>2. \A s \in Slots : Wii(s) /\ InstanceOf(s) \in Wiimotes
    BY <1>3, <1>4, <2>1 DEF Free
  <2>3. \A v, w \in Wiimotes : v = w
    BY SetsAssumption
  <2>4. InstanceOf(0) = InstanceOf(1)
    BY <1>5, <2>2, <2>3, Zenon
  <2> QED
    BY <1>5, <2>2, <2>4 DEF WiimoteSlotsAreOnline
<1> QED
  BY <1>6, <1>7 DEF Ignored, Supported

\* What openJoy does for the slots, for the one device.
LEMMA openJoyShows ==
  ASSUME TypeOK, Len(attached) = 1, Supported, NEW i, NEW rest \in Seq(Events),
         openJoy(i, rest)
  PROVE  \/ Pending(queue')
         \/ queue' = rest /\ \E new : Filled(new)
         \/ /\ queue' = rest /\ UNCHANGED gDesignatedControllers
            /\ i = 0 => Ignored(0)
<1>1. 0 \in Indices /\ ~(0 >= MaxPlugged)
  BY NumbersAssumption DEF Indices
<1>2. CASE queue' = rest /\ UNCHANGED gDesignatedControllers /\ (i = 0 => Ignored(0))
  BY <1>2
<1>3. CASE i \in Indices /\ ~Ignored(i) /\ Designate(i, rest)
  <2> DEFINE s == FirstFree(gDesignatedControllers)
  <2>1. i = 0
    BY <1>3 DEF Indices
  <2>2. ASSUME NEW ok, SetTable(Designated(Table, s, i, ok))
        PROVE  \E new : Filled(new)
    <3> DEFINE new == [numberOfDevices |-> 1, instance |-> DeviceAt(i).instance,
                       index |-> i, controllerType |-> STD,
                       joy |-> DeviceAt(i).guid, mappingOK |-> ok]
    <3>1. gDesignatedControllers' = [gDesignatedControllers EXCEPT ![s] = new]
      BY <2>2 DEF SetTable, Designated, Table
    <3>2. new.controllerType = STD /\ new.index = 0 /\ new.instance = attached[1].instance
      BY <2>1 DEF DeviceAt
    <3>3. attached # <<>>
      OBVIOUS
    <3> HIDE DEF new
    <3>4. Filled(new)
      BY <1>3, <2>1, <3>1, <3>2, <3>3 DEF Filled
    <3> QED
      BY <3>4
  <2>3. ASSUME NEW t, NEW db, DeviceAt(0).guid \in db, ResetSDL(t, db, rest)
        PROVE  Pending(queue')
    <3>1. HasMapping(DeviceAt(0).guid, db)
      BY <2>3 DEF HasMapping
    <3> QED
      BY <2>3, <3>1, ResetPosts
  <2>4. \/ queue' = rest /\ \E ok : SetTable(Designated(Table, s, i, ok))
        \/ \E t, db : DeviceAt(0).guid \in db /\ ResetSDL(t, db, rest)
    <3>1. DeviceAt(0).guid \in internalDB \cup {DeviceAt(0).guid}
      OBVIOUS
    <3> QED
      BY <1>3, <2>1, <3>1 DEF Designate
  <2> QED
    BY <2>2, <2>3, <2>4
<1>4. \/ (i \notin Indices \/ i >= MaxPlugged) /\ queue' = rest /\ UNCHANGED table
      \/ Ignored(i) /\ queue' = rest /\ UNCHANGED gDesignatedControllers
      \/ i \in Indices /\ ~Ignored(i) /\ Designate(i, rest)
  BY DEF openJoy
<1>5. (i \notin Indices \/ i >= MaxPlugged) => i # 0
  BY <1>1
<1> QED
  BY <1>2, <1>3, <1>4, <1>5 DEF table

LEMMA AttachComing ==
  ASSUME MaxAttached <= 1, TypeOK, OneIsComing, NEW g \in Guids, Attach(g)
  PROVE  OldRemovals(queue', AttachedInst', nextInstance') /\ ShownOrPending'
<1> DEFINE e == Added("JOYADDED", Len(attached))
           f == Added("CONTROLLERADDED", Len(attached))
           b == HasMapping(g, internalDB)
           more == IF b THEN <<f>> ELSE <<>>
<1>1. Len(attached) = 0
  <2>1. Len(attached) \in Nat /\ Len(attached) < MaxAttached
    BY LenProperties DEF Attach, TypeOK
  <2> QED
    BY <2>1, NumbersAssumption
<1>2. e \in Events /\ f \in Events /\ e.which = 0 /\ f.which = 0
  BY <1>1 DEF Added, Events
<1>3. queue \in Seq(Events) /\ <<e>> \in Seq(Events) /\ more \in Seq(Events)
  BY <1>2 DEF TypeOK
<1>4. AllAdded(<<e>>) /\ (\A k \in DOMAIN <<e>> : <<e>>[k].which = 0) /\ <<e>> # <<>>
  BY <1>2 DEF AllAdded, IsAdded, Added
<1>5. AllAdded(more) /\ \A k \in DOMAIN more : more[k].which = 0
  BY <1>2 DEF AllAdded, IsAdded, Added
<1>6. queue' = (queue \o <<e>>) \o more /\ nextInstance' = nextInstance + 1
  BY DEF Attach
<1>7. \A n \in AttachedInst' : n = nextInstance
  BY AttachLone DEF OneIsComing
<1>8. OldRemovals(queue, AttachedInst', nextInstance')
  <2> SUFFICES ASSUME NEW k \in DOMAIN queue, ~IsAdded(queue[k])
               PROVE  queue[k].which < nextInstance' /\ queue[k].which \notin AttachedInst'
    BY DEF OldRemovals
  <2>1. queue[k] \in Events /\ nextInstance \in Int
    BY <1>3, ElementOfSeq, LenProperties, NumbersAssumption DEF TypeOK
  <2>2. queue[k].which \in Int /\ queue[k].which < nextInstance
    BY <2>1 DEF OneIsComing, OldRemovals, Events
  <2>3. queue[k].which # nextInstance /\ queue[k].which < nextInstance + 1
    BY <2>1, <2>2
  <2> QED
    BY <1>6, <1>7, <2>3
<1> HIDE DEF e, f, b, more
<1>9. /\ queue \o <<e>> \in Seq(Events) /\ Pending(queue \o <<e>>)
      /\ OldRemovals(queue \o <<e>>, AttachedInst', nextInstance')
  BY <1>3, <1>4, <1>8, PendingBehind, ConcatProperties
<1>10. Pending(queue') /\ OldRemovals(queue', AttachedInst', nextInstance')
  BY <1>3, <1>5, <1>6, <1>9, PendingBehind
<1> QED
  BY <1>10 DEF ShownOrPending

LEMMA DetachComing ==
  ASSUME TypeOK, OneIsComing, NEW i, Detach(i)
  PROVE  OldRemovals(queue', AttachedInst', nextInstance') /\ ShownOrPending'
<1> DEFINE q == [k \in DOMAIN queue |-> Renumbered(queue[k], i)]
           e == Added("JOYREMOVED", DeviceAt(i).instance)
           f == Added("CONTROLLERREMOVED", DeviceAt(i).instance)
           b == HasMapping(DeviceAt(i).guid, internalDB)
           more == IF b THEN <<f>> ELSE <<>>
<1>1. attached' = <<>> /\ AttachedInst' = {}
  BY DetachLone DEF OneIsComing
<1>2. i \in Indices /\ i \in Int
  BY LenProperties DEF Detach, Indices, TypeOK
<1>3. DeviceAt(i) \in Devices /\ DeviceAt(i).instance < nextInstance
  <2>1. Len(attached) \in Nat /\ DOMAIN attached = 1 .. Len(attached)
    BY LenProperties DEF TypeOK
  <2>2. i + 1 \in DOMAIN attached
    BY <1>2, <2>1 DEF Indices
  <2>3. DeviceAt(i).instance \in AttachedInst
    BY <2>2 DEF AttachedInst, DeviceAt
  <2> QED
    BY <1>2, <2>3, GamepadType DEF OneIsComing, Lone
<1>4. /\ e \in Events /\ f \in Events
      /\ e.which < nextInstance /\ f.which < nextInstance
  BY <1>3, NumbersAssumption DEF Added, Events, Devices, Instances
<1>5. Len(queue) \in Nat /\ DOMAIN queue = 1 .. Len(queue) /\ queue \in Seq(Events)
  BY LenProperties DEF TypeOK
<1>6. q \in Seq(Events)
  <2>1. \A k \in 1 .. Len(queue) : Renumbered(queue[k], i) \in Events
    BY <1>2, <1>5, RenumberedType, ElementOfSeq
  <2> QED
    BY <1>5, <2>1
<1>7. <<e>> \in Seq(Events) /\ more \in Seq(Events)
  BY <1>4
<1>8. \A k \in DOMAIN <<e>> : <<e>>[k].which < nextInstance
  BY <1>4
<1>9. \A k \in DOMAIN more : more[k].which < nextInstance
  BY <1>4
<1>10. \A k \in DOMAIN q : ~IsAdded(q[k]) => q[k].which < nextInstance
  <2> SUFFICES ASSUME NEW k \in DOMAIN queue, ~IsAdded(Renumbered(queue[k], i))
               PROVE  Renumbered(queue[k], i).which < nextInstance
    OBVIOUS
  <2>1. queue[k] \in Events
    BY <1>5, ElementOfSeq
  <2>2. Renumbered(queue[k], i).type = queue[k].type
    BY <2>1 DEF Renumbered, Events
  <2>3. ~IsAdded(queue[k])
    BY <2>2 DEF IsAdded
  <2>4. Renumbered(queue[k], i) = queue[k]
    BY <2>3, SetsAssumption DEF Renumbered, IsAdded
  <2> QED
    BY <2>3, <2>4 DEF OneIsComing, OldRemovals
<1>11. queue' = (q \o <<e>>) \o more /\ UNCHANGED nextInstance
  BY DEF Detach
<1> HIDE DEF q, e, f, b, more
<1>12. q \o <<e>> \in Seq(Events)
  BY <1>6, <1>7, ConcatProperties
<1>13. \A k \in DOMAIN (q \o <<e>>) :
         ~IsAdded((q \o <<e>>)[k]) => (q \o <<e>>)[k].which < nextInstance
  BY <1>6, <1>7, <1>8, <1>10, EventOfConcat
<1>14. \A k \in DOMAIN queue' : ~IsAdded(queue'[k]) => queue'[k].which < nextInstance
  BY <1>7, <1>9, <1>11, <1>12, <1>13, EventOfConcat
<1> QED
  BY <1>1, <1>11, <1>14 DEF OldRemovals, ShownOrPending

LEMMA OneAttached ==
  ASSUME TypeOK, Len(attached) <= 1, attached # <<>>
  PROVE  Len(attached) = 1
<1>1. Len(attached) \in Nat /\ Len(attached) # 0
  BY LenProperties, EmptySeq DEF TypeOK
<1>2. \A n \in Nat : n <= 1 /\ n # 0 => n = 1
  OBVIOUS
<1> QED
  BY <1>1, <1>2

\* A slot that shows the device still does.
LEMMA StillShown ==
  ASSUME UNCHANGED attached, NEW s \in Slots, Std(s), InstanceOf(s) = DeviceAt(0).instance,
         gDesignatedControllers'[s] = gDesignatedControllers[s]
  PROVE  Shown'
  BY DEF Shown, Std, InstanceOf, DeviceAt

LEMMA OldRemovalsNext ==
  ASSUME TypeOK, OneIsComing, UNCHANGED <<attached, nextInstance>>, NEW rest \in Seq(Events),
         OldRemovals(rest, AttachedInst, nextInstance),
         queue' = rest \/ \E t, db : ResetSDL(t, db, rest)
  PROVE  OldRemovals(queue', AttachedInst', nextInstance')
<1>1. AttachedInst' = AttachedInst
  BY DEF AttachedInst
<1>2. ASSUME NEW t, NEW db, ResetSDL(t, db, rest)
      PROVE  OldRemovals(queue', AttachedInst, nextInstance)
  <2>1. PICK posted \in Reposts(db) : queue' = rest \o posted
    BY <1>2 DEF ResetSDL
  <2>2. posted \in Seq(Events)
    BY RepostsType DEF TypeOK
  <2>3. AllAdded(posted) /\ \A k \in DOMAIN posted : posted[k].which = 0
    BY PostedAtMost0 DEF TypeOK, OneIsComing, Lone
  <2> QED
    BY <2>1, <2>2, <2>3, PendingBehind
<1> QED
  BY <1>1, <1>2

LEMMA PollEventComing ==
  ASSUME TypeOK, GoneAreRemoved, WiimoteSlotsAreOnline, OneIsComing,
         0 \notin Wiimotes \/ 1 \notin Wiimotes, PollEvent
  PROVE  OldRemovals(queue', AttachedInst', nextInstance') /\ ShownOrPending'
<1> DEFINE e == Head(queue)
           rest == Tail(queue)
<1>1. /\ queue # <<>> /\ queue \in Seq(Events) /\ rest \in Seq(Events)
      /\ UNCHANGED <<attached, nextInstance>>
  BY HeadTailProperties DEF PollEvent, TypeOK, sdl
<1>2. /\ OldRemovals(rest, AttachedInst, nextInstance)
      /\ ~IsAdded(e) => e.which \notin AttachedInst
      /\ Pending(queue) => \/ Pending(rest)
                           \/ IsAdded(e) /\ e.which = 0 /\ AllAdded(rest)
  BY <1>1, PendingInTail DEF OneIsComing
<1>3. \/ IsAdded(e) /\ openJoy(e.which, rest)
      \/ ~IsAdded(e) /\ closeJoy(e.which, rest)
  <2>1. e \in Events
    BY <1>1, HeadTailProperties
  <2>2. Handled(e)
    BY DEF Handled, OneIsComing, InLauncher
  <2> HIDE DEF e, rest
  <2> QED
    BY <2>1, <2>2 DEF PollEvent, IsAdded, Events, e, rest
<1>4. OldRemovals(queue', AttachedInst', nextInstance')
  <2>1. queue' = rest \/ \E t, db : ResetSDL(t, db, rest)
    BY <1>3 DEF openJoy, closeJoy, Designate
  <2> QED
    BY <1>1, <1>2, <2>1, OldRemovalsNext
<1>5. ASSUME attached # <<>>, Supported
      PROVE  Shown' \/ Pending(queue')
  <2>1. Len(attached) = 1
    BY <1>5, OneAttached DEF OneIsComing, Lone
  <2>2. AttachedInst = {DeviceAt(0).instance}
    <3>1. DOMAIN attached = {1}
      BY <2>1, LenProperties DEF TypeOK
    <3> QED
      BY <3>1 DEF AttachedInst, DeviceAt
  <2>3. Shown \/ Pending(queue)
    BY <1>5 DEF OneIsComing, ShownOrPending
  <2>4. CASE IsAdded(e) /\ openJoy(e.which, rest)
    <3>1. ASSUME NEW new, Filled(new)
          PROVE  Shown'
      <4>1. PICK f \in Slots : f = FirstFree(gDesignatedControllers)
        BY <3>1, FirstFreeIsFree DEF Filled, Ignored, Free
      <4>2. gDesignatedControllers'[f] = new
        BY <3>1, <4>1 DEF Filled, TypeOK
      <4> QED
        BY <1>1, <3>1, <4>2 DEF Filled, Shown, Std, InstanceOf, DeviceAt
    <3>2. CASE queue' = rest /\ UNCHANGED gDesignatedControllers /\ (e.which = 0 => Ignored(0))
      <4>1. CASE Shown
        BY <1>1, <3>2, <4>1, StillShown DEF Shown
      <4>2. CASE ~Shown /\ ~Pending(rest)
        <5>1. e.which = 0 /\ AllAdded(rest)
          BY <1>2, <2>3, <4>2
        <5>2. ASSUME NEW n, Removed(n)
              PROVE  FALSE
          <6>1. e # Added("JOYREMOVED", n)
            BY <2>4 DEF IsAdded, Added
          <6>2. RemovedIn(rest, n)
            BY <1>1, <5>2, <6>1, RemovedInTail DEF Removed, RemovedIn
          <6> QED
            BY <5>1, <6>2 DEF RemovedIn, AllAdded, IsAdded, Added
        <5> QED
          BY <1>5, <2>1, <3>2, <4>2, <5>1, <5>2, RoomForOne DEF OneIsComing
      <4> QED
        BY <3>2, <4>1, <4>2
    <3> QED
      BY <1>1, <1>5, <2>1, <2>4, <3>1, <3>2, openJoyShows
  <2>5. CASE ~IsAdded(e) /\ closeJoy(e.which, rest)
    <3>1. queue' = rest
      BY <2>5 DEF closeJoy
    <3>2. ASSUME NEW s \in Slots, Std(s), InstanceOf(s) = DeviceAt(0).instance
          PROVE  gDesignatedControllers'[s] = gDesignatedControllers[s]
      <4>1. InstanceOf(s) # e.which
        BY <1>2, <2>2, <2>5, <3>2
      <4> HIDE DEF e
      <4> QED
        BY <2>5, <4>1 DEF closeJoy, SetTable, ClosedJoys, Holding, Table, InstanceOf
    <3> QED
      BY <1>1, <1>2, <2>3, <2>5, <3>1, <3>2, StillShown DEF Shown
  <2> QED
    BY <1>3, <2>4, <2>5
<1> QED
  BY <1>1, <1>4, <1>5 DEF ShownOrPending, Supported, DeviceAt

LEMMA setMappingComing ==
  ASSUME TypeOK, OneIsComing, NEW c \in Configured, setMapping(c),
         Guids \ Unsupported \subseteq Known \cup Recognised
  PROVE  OldRemovals(queue', AttachedInst', nextInstance') /\ ShownOrPending'
<1>1. UNCHANGED <<attached, nextInstance>> /\ queue \in Seq(Events)
  BY DEF setMapping, sdl, TypeOK
<1>2. PICK t, db : ResetSDL(t, db, queue)
  BY DEF setMapping
<1>3. OldRemovals(queue', AttachedInst', nextInstance')
  BY <1>1, <1>2, OldRemovalsNext DEF OneIsComing
<1>4. ASSUME attached # <<>>, Supported
      PROVE  Pending(queue')
  <2>1. Len(attached) = 1
    BY <1>4, OneAttached DEF OneIsComing, Lone
  <2>2. 0 \in Indices
    BY <2>1 DEF Indices
  <2>3. DeviceAt(0).guid \in Guids \ Unsupported
    BY <1>4, <2>2, GamepadType DEF Devices, Supported
  <2> QED
    BY <1>1, <1>2, <2>1, <2>3, ResetPosts DEF HasMapping
<1> QED
  BY <1>1, <1>3, <1>4 DEF ShownOrPending, Supported, DeviceAt

LEMMA mainLoopWiiComing ==
  ASSUME TypeOK, OneIsComing, mainLoopWii
  PROVE  OldRemovals(queue', AttachedInst', nextInstance') /\ ShownOrPending'
<1>1. UNCHANGED <<attached, nextInstance, queue>> /\ AttachedInst' = AttachedInst
  BY DEF mainLoopWii, sdl, AttachedInst
<1>2. ASSUME NEW s \in Slots, Std(s)
      PROVE  gDesignatedControllers'[s] = gDesignatedControllers[s]
  <2>1. PICK lost :
          SetTable(WiimoteTick(WiimoteTick(Table, 0, g_wiimotes[0], 0 \notin lost),
                               1, g_wiimotes[1], 1 \notin lost))
    BY DEF mainLoopWii
  <2> DEFINE first == WiimoteTick(Table, 0, g_wiimotes[0], 0 \notin lost)
  <2>2. first \in Tables
    BY TableType, WiimoteTickType
  <2>3. first.slots[s] = gDesignatedControllers[s] /\ first.slots[s].controllerType = STD
    BY <1>2, TableType, WiimotesTakeNoStd DEF Table, Std
  <2> HIDE DEF first
  <2> QED
    BY <2>1, <2>2, <2>3, WiimotesTakeNoStd DEF SetTable, first
<1> QED
  BY <1>1, <1>2, StillShown DEF OneIsComing, ShownOrPending, Shown, Supported, DeviceAt

LEMMA ComingPreserved ==
  ASSUME MaxAttached <= 1, Emulators = {}, 0 \notin Wiimotes \/ 1 \notin Wiimotes,
         Configured = {} \/ Guids \ Unsupported \subseteq Known \cup Recognised,
         TypeOK, GoneAreRemoved, WiimoteSlotsAreOnline, OneIsComing,
         [Next]_vars
  PROVE  OneIsComing'
<1>1. Lone'
  BY LonePreserved DEF OneIsComing
<1>2. InLauncher'
  BY DEF OneIsComing, InLauncher, Next, vars, Attach, Detach, PollEvent, setMapping, Scan,
         mainLoopWii, ShowPage, launch_emulator, EmulatorReturns
<1>3. OwnWiimotes'
  <2>1. ASSUME NEW w \in Wiimotes, Scan(w)
        PROVE  OwnWiimotes'
    BY <2>1, SetsAssumption DEF Scan, OneIsComing, OwnWiimotes, TypeOK
  <2>2. CASE mainLoopWii
    <3>1. \A w \in {0, 1} : (g_wiimotes'[w] \/ wiimoteOnline_prev'[w]) => g_wiimotes[w]
      BY <2>2 DEF mainLoopWii
    <3> QED
      BY <3>1, Zenon DEF OneIsComing, OwnWiimotes
  <2>3. CASE UNCHANGED wii
    BY <2>3 DEF wii, OneIsComing, OwnWiimotes
  <2>4. \/ \E w \in Wiimotes : Scan(w)
        \/ mainLoopWii
        \/ UNCHANGED wii
    BY DEF Next, vars, Attach, Detach, PollEvent, setMapping, ShowPage, launch_emulator,
           EmulatorReturns
  <2> QED
    BY <2>1, <2>2, <2>3, <2>4
<1>4. OldRemovals(queue', AttachedInst', nextInstance') /\ ShownOrPending'
  <2>1. ASSUME NEW g \in Guids, Attach(g)
        PROVE  OldRemovals(queue', AttachedInst', nextInstance') /\ ShownOrPending'
    BY <2>1, AttachComing
  <2>2. ASSUME NEW i, Detach(i)
        PROVE  OldRemovals(queue', AttachedInst', nextInstance') /\ ShownOrPending'
    BY <2>2, DetachComing
  <2>3. CASE PollEvent
    BY <2>3, PollEventComing
  <2>4. ASSUME NEW c \in Configured, setMapping(c)
        PROVE  OldRemovals(queue', AttachedInst', nextInstance') /\ ShownOrPending'
    BY <2>4, setMappingComing
  <2>5. CASE mainLoopWii
    BY <2>5, mainLoopWiiComing
  <2>6. CASE UNCHANGED <<sdl, queue, table>>
    BY <2>6 DEF sdl, table, OneIsComing, OldRemovals, ShownOrPending, Shown, Supported,
         DeviceAt, Std, InstanceOf, AttachedInst
  <2> QED
    BY <2>1, <2>2, <2>3, <2>4, <2>5, <2>6, NextCases
<1> QED
  BY <1>1, <1>2, <1>3, <1>4 DEF OneIsComing

\* One gamepad at a time that SDL can use, no games, and a slot that the Wiimotes leave
\* free: when no event waits, the slots show what is plugged in, whatever openJoy and
\* setMapping have reset, whichever events have come late and for whatever index.
THEOREM SlotsRightWhenQuiet ==
  ASSUME MaxAttached <= 1, MaxInstances <= MaxPlugged, Emulators = {},
         0 \notin Wiimotes \/ 1 \notin Wiimotes,
         Configured = {} \/ Guids \ Unsupported \subseteq Known \cup Recognised
  PROVE  Spec => []SlotsShowWhatIsPluggedIn
<1>1. Init => OneIsComing
  <2> SUFFICES ASSUME Init PROVE OneIsComing
    OBVIOUS
  <2>1. InLauncher /\ OwnWiimotes /\ ShownOrPending
    BY DEF Init, InLauncher, OwnWiimotes, ShownOrPending
  <2>2. OldRemovals(queue, AttachedInst, nextInstance)
    BY DEF Init, OldRemovals
  <2> QED
    BY <2>1, <2>2, InitLone DEF OneIsComing
<1>2. /\ TypeOK /\ GoneAreRemoved /\ WiimoteSlotsAreOnline
      /\ OneIsComing /\ [Next]_vars
      => OneIsComing'
  BY ComingPreserved
<1>3. TypeOK /\ GoneAreRemoved /\ OneIsComing => SlotsShowWhatIsPluggedIn
  <2> SUFFICES ASSUME TypeOK, GoneAreRemoved, OneIsComing, queue = <<>>
               PROVE  /\ \A s \in Slots : Std(s) => InstanceOf(s) \in AttachedInst
                      /\ \A k \in DOMAIN attached :
                           attached[k].guid \notin Unsupported
                             => \E s \in Slots : Std(s) /\ InstanceOf(s) = attached[k].instance
    BY DEF SlotsShowWhatIsPluggedIn
  <2>1. \A s \in Slots : Std(s) => InstanceOf(s) \in AttachedInst
    BY DEF GoneAreRemoved, Removed
  <2>2. ASSUME NEW k \in DOMAIN attached, attached[k].guid \notin Unsupported
        PROVE  \E s \in Slots : Std(s) /\ InstanceOf(s) = attached[k].instance
    <3>1. Len(attached) \in Nat /\ Len(attached) <= 1 /\ DOMAIN attached = 1 .. Len(attached)
      BY LenProperties DEF TypeOK, OneIsComing, Lone
    <3>2. k = 1 /\ attached # <<>>
      BY <3>1, EmptySeq
    <3>3. Supported
      BY <2>2, <3>2 DEF Supported, DeviceAt
    <3>4. ~Pending(queue)
      BY DEF Pending
    <3> QED
      BY <3>2, <3>3, <3>4 DEF OneIsComing, ShownOrPending, Shown, DeviceAt
  <2> QED
    BY <2>1, <2>2
<1>4. Spec => []GoneAreRemoved
  BY AllGoneAreRemoved
<1> QED
  BY <1>1, <1>2, <1>3, <1>4, TypeCorrect, WiimotesCorrect, PTL DEF Spec
=============================================================================
