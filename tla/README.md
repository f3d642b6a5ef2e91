# Marley: models and proofs

Marley (src/) is a launcher that links several console emulators into one
program. Its own code is small: a table of controllers, a menu, the search for
games and firmware, a configuration file and the settings screens. This
directory holds TLA+ models of that code, the TLC runs that check them and
proofs about them. A path like `controller.cpp:294` is relative to `src/src/`,
one like `UI/MainScreen.cpp` or `Common/UI/Screen.cpp` to `src/screen_manager/`;
headers are in `src/include/`.

## 1. Inventory

| Part | State | Operations | Correct when | Module |
|---|---|---|---|---|
| Controller table (`controller.cpp`) | two slots `gDesignatedControllers[]`, `gNumDesignatedControllers`, `gGamepad[]` | `openJoy`, `closeJoy`, `checkMapping`, `closeAllJoy`, `initJoy`, `setMapping`, `openWiimote`, `closeWiimote` | a controller that is there has one slot, one that is gone has none, the number counts the slots, players keep their slots | `Controllers`, `SlotTable` |
| Hotplug events (`marley.cpp:374`, `SDL/SDLMain.cpp:532`, `ppsspp/SDL/SDLMain.cpp:776`) | SDL's event queue | the poll loops; ADDED events name a device *index*, REMOVED events an *instance id* | every event reaches the table once, in order | `Controllers` |
| Wiimotes (`wii.cpp`) | `g_wiimotes[]` (Dolphin's scanner thread), `wiimoteOnline_prev` | `mainLoopWii`, once a frame | slots follow the Wiimotes | `Controllers` |
| Configuration wizard (`statemachine.cpp:86-115`, `954-1314`) | `confState`, `gControllerButton[]`, `gHat[]`, `gAxis[]`, their iterators, samples of axes | `startControllerConf`, `statemachineConf`, `...Axis`, `...Hat`, `resetStatemachine`, `setMapping` | the mapping written is what the user gave, each item asked for once | `ConfWizard`, `Questionnaire` |
| Menu (`statemachine.cpp:573-951`, `marley.cpp`) | `gState`, `gSetupIsRunning`, `gCurrentGame`, the two text fields, the splash screen | `main`, `event_loop`, `statemachine` with keys and buttons | a page's subject exists, a game is chosen only from a list | `Launcher` |
| Launching (`statemachine.cpp:347-571`, `792-818`) | requests in global flags, the window | settings screens, emulators, PCSX2's second try | the game launched is one of the list | `Launcher` |
| Games (`emu.cpp:1029-1275`) | `gGame[]`, `tmpList`, `toBeRemoved`, `stopSearching` | recursive search, cue files, strip, finalize, cancel | the list is what the comment at `statemachine.cpp:122-132` says, a position in it keeps its game | `GameList`, `Catalog` |
| `marley.cfg` (`marley.cpp:777-1040`, `UI/MainScreen.cpp`, `UI/SettingsScreen.cpp`) | its lines, the copies in memory | template, load, add, delete, the destructors that write copies back | no setting is lost, none is there twice | `ConfigFile` |
| Screens (`Common/UI/Screen.cpp`, `UIScreen.cpp`, `Root.cpp`) | the stack, saved focuses, the dialog being finished, the queue of clicks | push, `finishDialog`, `processFinishDialog`, update, render, shutdown | every dialog that was left leaves, no pointer leads to a view of a higher screen | `ScreenStack` |
| Firmware (`emu.cpp:123-579`) | which BIOS files were found | search and copy | | only its calls, in `Launcher` |
| Internal database (`marley.cpp:1042-1145`, `controller.cpp:408-440`) | lines of `internaldb.txt` | add at the front, remove duplicates, find a GUID | one entry per GUID, the newest | only its set of GUIDs, in `Controllers` |
| Views, drawing (`View.cpp`, `ViewGroup.cpp`, `gui.cpp`) | geometry, textures | | | only life, focus and clicks of views, in `ScreenStack` |
| Path browser, disc images | | | | none, see section 7 |
| Dolphin, PCSX2, Mednafen, Mupen64Plus, PPSSPP | | | | only how they poll the event queue, in `Controllers` |

How they interact. Everything but three threads (Dolphin's scanner, the path
browser's, the emulators' own) runs in one thread and calls directly: an event
loop calls the table, the wizard or the menu. The parts share globals: the
menu reads the table, the table's `closeJoy` changes the menu's page, the
wizard's `setMapping` resets SDL and with it the table. Calls come back in the
middle of others: `checkMapping` runs `initJoy` while `openJoy` fills a slot,
`findAllFiles` runs the event loop while a menu entry is being handled, and a
dialog is pushed from the update of the screen below it. While a game runs, the
emulator polls the very queue the launcher's table depends on.

What is hard here: events that name devices by an index which has moved since;
two numberings (index and instance) used for one another; a reset in the middle
of an operation; another program part eating events; iterators that count
answers instead of directions; memory of a wizard that survives into its next
step; an event loop nested in what it called; a vector erased from while it is
walked; old copies of a file written back; pointers to views that are deleted
one frame later. `PROJECT.json` lists these hazards with their lines.

## 2. Modules

Each component has a module with its state, actions and properties, a module
`MC...` that names it for TLC (with the values too large for a `.cfg`), and one
or two modules of proofs. In each model an action is a whole handler, or one
iteration of a loop where other things can come between iterations. Definitions
keep the names of the functions they model; those that follow the word "Mutants"
in a comment are plausible mistakes in that code, used to test the properties.

| Module | Models | Proofs |
|---|---|---|
| `Controllers` | controller table, hotplug, Wiimotes, pages of controllers, games that poll the queue | `ControllersProofs`, `SlotTableProofs` |
| `SlotTable` | what the table promises: an abstract specification that `Controllers` implements | the refinement is in `SlotTableProofs` |
| `ConfWizard` | configuration wizard | `ConfWizardProofs`, `ConfWizardMappingProofs` |
| `Questionnaire` | what the wizard is to the user: an abstract specification that `ConfWizard` implements | the refinement is in `ConfWizardMappingProofs` |
| `Launcher` | `main`, the event loop and the menu, with all that nests in them | `LauncherProofs` |
| `GameList` | search for games | `GameListProofs` |
| `Catalog` | what the list of games promises those who keep a position in it: an abstract specification that `GameList` implements | the refinement is in `GameListProofs` |
| `ConfigFile` | `marley.cfg` and its copies | `ConfigFileProofs` |
| `ScreenStack` | one run of the settings screens, frame by frame, and the next | `ScreenStackProofs` |

The modules are joined by what they leave to each other: `Launcher` keeps which
slots have a device (`Controllers` says when that changes), and of the list of
games its length (`GameList` says what is in it); `ScreenStack` starts where
`Launcher` calls `"screens"`; `ConfigFile` has the constructors and destructors of
the screens that `ScreenStack` creates and deletes.

### Controllers and SlotTable

*State.* `attached`, `nextInstance` and `queue` are SDL's: the devices by index,
the instance ids, the events. `gDesignatedControllers`,
`gNumDesignatedControllers` and `gGamepad` are the globals of those names, with
`MAX_DEVICES_PER_CONTROLLER` = 1 (one device in a slot) and without names and
handles; a joystick is represented by its GUID in a slot and by its instance in
`gGamepad`. `internalDB` is the set of GUIDs in `internaldb.txt` (any, when the
program starts), `confPage` is
`gState` as far as it is `STATE_CONF0` or `STATE_CONF1`, `mode` says who polls
the queue.

*Actions.* `Attach` and `Detach` are the user, through SDL. `PollEvent` is one
turn of a poll loop: it takes an event off the queue and runs the whole handler,
`openJoy` or `closeJoy`. Inside `openJoy`, `Designate` includes `checkMapping`
with its three outcomes when a similar GUID is found: the entry is not written,
written but not loaded, or loaded, and then SDL is reset by `closeAllJoy` and
`initJoy` before `openJoy` goes on (`DesignatedAfterReset`). `setMapping` is the
end of the wizard. `Scan` is Dolphin's thread; `mainLoopWii` reads each Wiimote
and re-reads it, and the scanner may take it away in between. `ShowPage`,
`launch_emulator` and `EmulatorReturns` are the menu.

*SDL.* SDL is not in the repository. Assumed is: a device gets the next instance
id and the last index; it is announced as a joystick and, if SDL has a mapping
for it, as a controller; a removal names the instance; indices above a removed
device move down; SDL adjusts ADDED events in the queue whose index moved
(`KeptUpToDate`: older versions adjust only joystick events; the runs use both);
when the controller subsystem starts again it announces the attached devices it
has mappings for. The joystick subsystem is never really stopped by the
launcher's resets because `init` in `marley.cpp` holds a second reference.

*Undefined behaviour.* `devicesPerType[-1]` is read when a reset has cleared the
slot `openJoy` is filling (`controller.cpp:350`): `DevicesPerTypeBelow` is any
integer up to 1, and the properties say what depends on it. `closeJoy` reads the
same as the bound of its loop over `instance[]` (`controller.cpp:136`): up to 1
that does nothing, since a slot without a type has instance -1. A larger value
would take the loop over the other fields of the slot and then beyond it, since
`MAX_DEVICES_PER_CONTROLLER` is 1; `NumbersAssumption` excludes it and nothing is
said about it. `gGamepad[instance_id]` beyond the array (`controller.cpp:127`)
is modelled as a joystick to close and no more; what else the read may do is not
modelled.

*SlotTable* knows only the number of the player on each slot and how many there
are. A player takes the first free slot, leaves, or all leave at once; up to two
such changes are one step (a scan can take one Wiimote and bring another). The
mapping in `Controllers` (`Players`) reads the number of a player off the field
`instance`. `ImplementsSlotTable` therefore says that no event, reset, failing
file or Wiimote makes a controller jump from one slot to another, sit down behind
a free slot, or be counted wrongly.

### ConfWizard and Questionnaire

*State.* The globals of `statemachine.cpp:53-66`, and three history variables:
what was given for each direction of the dpad, the axes moved since the present
item was asked for, and what hats did to `gHat[]`.

*Actions.* `statemachineConf`, `statemachineConfAxis` and `statemachineConfHat`
are one event each, with every helper they call. Events of the other controller
are left out where the code ignores them at once; the hat of the other
controller is not, because it is stored first. Counts of axis events stop just
above the threshold (`Threshold`, 20 in the code): larger ones are alike.
`gControllerButton` is followed for `Tracked` items only.

*Undefined behaviour.* `gHat[4]` is what the build puts behind the array.
`StoredHat` follows the layouts of g++ without and with optimisation (`Build`):
at -O0 `gHat[4]` is `gHatValue[0]` and `gHatValue[4]` is `hatIterator`, with
optimisation `gHat[4]` is `yValue` and `gHatValue[4]` is `gHat[0]`.

*Questionnaire* has no presses, samples or hats: a form, the question that waits,
and an order. An answer goes on to the next question and may change only the
entries its question asks for; the form is blank at the start, and one that is
left stays as it is. The mapping is the identity on `gControllerConf`,
`confState` and `gControllerButton`; `Order` and `Fields` are the order of the
cases of `statemachineConf` and `statemachineConfAxis` and the entries each of
them writes (a stick two, a trigger its axis or its button). First presses and
samples are stutters. `ImplementsQuestionnaire` therefore says that none of the
ways to go on (a button, ENTER, a hat, an axis, samples that were left) skips an
item, asks for one again or writes the entry of another one.

### Launcher

*State.* `calls` is the stack of what has been called and not returned: the event
loop (`"events"`), a search for games (`"search"`) or firmware (`"checks"`,
`"firmware"`), the settings screens, their browser, the listing of a directory by
the main screen, an emulator. `phase` is how far `main` is. Of `gGame` the length
is kept, of the controllers the slots that have a device, of the text inputs
whether the keyboard is taken and for which fields. `outside` and `dropped` are
history.

*Actions.* `event_loop` is one event: a move in the menu (`Up`, `Down`), accept,
ESC, text, the close button, a controller that comes or goes, the end of the
configuration of one. `Poll` is the call of the event loop from inside a search.
`Found`, `Checked` and `FirmwareChecked` end the searches, with or without having
been stopped, and go on in what called them; for a line of the configuration file firmware comes
before games (`marley.cpp:811`), and games are searched even if that was stopped. The actions of the screens are the
ones that reach the launcher: a search directory added or deleted, a game
launched, configuration asked for. `main` is everything before and around the
loop, with the splash screen.

### GameList and Catalog

*State.* `disk` maps the files there are to the names a cue file holds. `open` is
the recursion of `findAllFiles`: the directories being read, each with what
`readdir` has not given yet. `tmpList`, `toBeRemoved`, `i`, `j` and the iterator
(`at`) are those of the loops. `searched` is history.

*Actions.* `OpenDirectory`, `ReadFile`, `CloseDirectory` are the iterations of
`findAllFiles`; `StripFile` and `StripNext` the inner and the outer loop of
`stripList`, with its bound read from the list while it shrinks; `FinalizeFile`
and `Finalized` those of `finalizeList`. A search may be stopped wherever the code
looks at `stopSearching`. Two callers are told apart by `recursive`: the main
screen lists one directory and keeps the list of a stopped search, the others
drop it. Excluded directories, names compared without their directory, and cue
files that are broken are as in the code.

*Catalog* is what the menu, its picture and the screens rely on when they keep a
position in `gGame` and not a name: the list grows at its end or is dropped as a
whole, has no game twice, and is offered (`gGamesFound`) only while it has a game.

### ConfigFile

*State.* `file` is `marley.cfg`: its header, its theme, its last directory, its
lines of search directories. `gSearchDirectoriesGames`, `gTheme` and
`lastGamePath` are the copies in memory, `settings` the copies each settings
screen took when it was constructed and writes back when it is destroyed.
`wanted` and `chosen` are what the user has done. `excuse` says of a directory the
user wants why it may be missing from the file: it was away when it was to be
searched, a start was stopped before its line was read, or its line was refused as
a duplicate.

*Actions.* Reading is a step per line with a directory, since a search follows
each; ESC in such a search stops the reading (`marley.cpp:789`). A directory is
added in two ways that differ in their order: in the settings
(`addSearchPathToConfigFile`) the file comes first and a duplicate ends it, in the
menu's field (`GamingFolder`, `statemachine.cpp:858`) memory comes first, whatever
the file then does. The destructors are separate steps in the order in which the
stack deletes its screens: the one on top when it is left, from the bottom when the
window is closed. `Mount` is a removable disk, `Crash` takes Marley down between two
operations, `CrashWriting` while the file is open for writing: it is then empty,
and the next start reads that; all is lost then, and the history begins anew. The
main screen may fall back to the home directory (`UI/MainScreen.cpp:100`) whenever
disks come and go. The uninitialised `duplicate`
(`marley.cpp:965`) is any Boolean when the file has no lines.

### ScreenStack

*State.* `stack` has for every screen its kind, whether its views are to be
recreated, whether it was told to finish, how far a popup has led out, and for a
list the owner of its callback. What the code keeps of a view is a pointer:
`Null`, the level of the screen that owns the view, or `Freed` once that screen
has deleted its views.

*Actions.* A frame is: inputs (`Click`, `Dpad`, `Escape`, `Hotplug`,
`CloseWindow`), `UpdateViews`, `MoveFocus`, `Dispatch` for each click in the
queue, `UpdateScreen` or `UpdatePopup`, `RenderBelow`, `RenderTop`,
`ProcessFinishDialog`; then the next frame or `Shutdown`. `Restart` is the next
run of the screens, with the statics as the last one left them.

## 3. Runs

TLC checks deadlock in every run but `Launcher_menu`, whose program ends. Where
nothing else is said two slots are used, as in the code.

| Run | Checks | Bounds and why they are enough |
|---|---|---|
| `Controllers_hotplug` | `TypeOK`, `CountMatchesSlots`, `GoneControllersAreOnTheirWayOut` | two devices at a time, four in a session, a known, a similar and an unknown kind: enough for an index to move, a reset with another player, a third device in an old index; the fourth is beyond a `gGamepad[]` of three entries (0.64 million states) |
| `Controllers_wiimotes` | `WiimoteSlotsAreOnline`, `PlayersKeepTheirSlots`, `ImplementsSlotTable` | two Wiimotes and two devices, instances 0 and 1: every collision of their numbers; games of both kinds; resets come from `setMapping` (those inside `openJoy` are in the other runs and, for the refinement, in the theorem) |
| `Controllers_lone` | `NoControllerTwice`, `SlotsShowWhatIsPluggedIn`, `HotplugIsDetected`, `GoneControllersLeave`, `ComingControllersArrive` | one device at a time, three in a session, a Wiimote, an SDL that adjusts both kinds of ADDED events; six events in the queue, all that two changes of the device and a reset leave in it |
| `Controllers_stale_index` | `HotplugIsDetected` is violated | two devices at a time |
| `ConfWizard_dpad` | `TypeOK`, `IteratorsFitTheDpad`, `UniformDpadAsGiven` | one button, one axis in both directions, one hat in two directions: enough for a wrong second press; four answers, then any number of further hats; repeated configurations (2.4 million states) |
| `ConfWizard_axes` | `CountsBelongToAnAxis`, `AxesAreDistinct`, `SticksFromTheirOwnTwirl`, `ImplementsQuestionnaire` | four axes for two sticks and two triggers, so that axes run out; threshold 1; no hats, which the theorems include |
| `Launcher_menu` | `TypeOK`, `NoGameOutsideTheList`, `MenuOffersWhatThereIs`, `SetupPagesAreOpen`, `TextInputHasAField` | a list of at most two games: one at which its first game is its last, and one along which the menu moves; it grows and empties; four nested calls: the event loop in a search in the screens in the event loop |
| `GameList_search` | `TypeOK`, `IteratorInList`, `NoGameTwice`, `SearchFindsTheGames`, `ImplementsCatalog`, `SearchEnds` | every set of at most three of eight files in three directories and one excluded, every content of the cue files, every order of reading: enough for two files of a cue file, two files of one name, an mdf file beside its bin file, a broken cue file (1.15 million states) |
| `GameList_cue` | `OnlyTheCueShows` is violated | the same disks |
| `ConfigFile_kept` | `TypeOK`, `NoDirectoryTwice`, `SearchedDirectoriesAreOnFile`, `DirectoriesAreKept`, `ChosenThemeIsKept`, `LastPathIsKept` | two directories, one on a disk that comes and goes; two settings screens (as many as two clicks in a frame open), so that an old copy is written after a newer one; all faults (1.7 million states) |
| `ConfigFile_added` | `AddedDirectoriesAreSearched` is violated | the same directories, one settings screen, no faults |
| `ScreenStack_dialogs` | `TypeOK`, `EveryScreenKeepsAFocus`, `PointersGoDown`, `EscapedDialogsLeave`, `QuitIsCarriedOut` | two inputs in every frame: two clicks on one button push two screens, a click and ESC race; as many frames as one likes, stacks as high as that allows |

`PROJECT.json` names for each property of a passing run a change of the code (an
operator beside the one it replaces) that TLC finds to violate it.

What some properties leave out, because the code does otherwise:

- The properties of `Controllers_lone` hold for one device at a time; with two, see
  section 4. `SlotsShowWhatIsPluggedIn` also needs a launcher without games: PPSSPP
  passes on only joystick events, and so not the one a reset has posted. With
  an SDL that adjusts only the joystick events in the queue, `NoControllerTwice`
  needs even one device to be alone, without Wiimotes (section 4, too).
- `GoneControllersAreOnTheirWayOut` needs removals not to be swallowed by a game: the
  run has only games that forward events, and the theorem assumes it. It excepts
  instances that `gGamepad[]` has no entry for (section 4).
- `UniformDpadAsGiven` is about a dpad that is all of buttons, all of hats or all
  of axes; `AxesAreDistinct` about configurations in which no hat was stored
  beyond `gHat[]`.
- `NoGameOutsideTheList` speaks of the time before a search has emptied the list.
- `SearchFindsTheGames` leaves out disks with two files of one name, a cue file
  broken after a good line, or one that names a file in the working directory.
- `DirectoriesAreKept` excepts three kinds of directories, all of which the code
  does lose though the user wants them: those that did not exist when they were to
  be searched and those on lines that a start stopped by ESC had not read, both lost
  when a settings screen is closed; and those whose line was refused as a duplicate,
  which are then not in memory, or, typed in the menu, in memory only. It speaks again of such a directory as soon as it
  is in memory and on file. After a crash that cuts the file
  (`UI/MainScreen.cpp:142`, `UI/SettingsScreen.cpp:694`) everything is lost; no
  property says it is not, and what the user wants is counted from there.
- `SearchedDirectoriesAreOnFile` excepts a directory typed in the menu whose line
  was refused, which happens when the file has no lines (`marley.cpp:965`); the next
  destructor of a settings screen writes it.
- `LastPathIsKept` leaves out runs in which the window was closed over the settings.
- No property says that the page of a controller has one (`controller.cpp:178`) or
  that `gCurrentGame` is inside a list that was emptied and filled again
  (`statemachine.cpp:871`): neither is so, and nothing promises it.

*Fairness.* `Controllers` has weak fairness of `PollEvent` alone: the launcher's
loops (`marley.cpp:382`, `SDL/SDLMain.cpp:532`) and those of the emulators poll until
the queue is empty, every frame, as long as the program runs. `ScreenStack` has
weak fairness of `LoopStep`: the loop of `SDL/SDLMain.cpp` goes through events,
update and render without waiting for anything but the next frame. `GameList` has
weak fairness of the iterations of its loops, which nothing blocks. In no model is
anything assumed of the user, of Wiimotes, of disks, or of a game ending.
`Launcher` states no liveness.

## 4. What differs from what is promised

The violation runs:

- *stale_index*: slot 0 remembers the index of its controller. After indices
  moved, a new controller with that index is ignored (`controller.cpp:294`), though
  README.md:28 has hotplugged gamepads detected. The same happens after a game in
  Mednafen, Dolphin or PCSX2, which take removals off the queue without closing
  anything.
- *added*: a directory that was deleted in the settings and is added again before
  they are closed still has its line in the file, which the deletion does not
  write. It is taken for a duplicate and not searched, though the settings say it
  was added (`UI/SettingsScreen.cpp:2184`); closing them takes the line away.
- *cue*: `stripList` reads its bound from the list it erases from
  (`emu.cpp:1052`), so the last files of the list may stay although a cue file
  stands for them.

Also met while modelling, without a run:

- Each reconnection of a controller gets a new instance id; `closeJoy` does nothing for
  one that is `MAX_GAMEPADS_PLUGGED` (128) or more (`controller.cpp:130`). The slot
  stays taken; if it is slot 0, it keeps index 0, and the next controller, even the
  only one there is, is ignored. `GoneControllersAreOnTheirWayOut` excepts just
  these; `Controllers_stale_index.cfg` with `MaxAttached = 1`, `MaxPlugged = 1` and
  `MaxInstances = 3` shows it.
- ENTER does not skip dpad up after a first press of a button for it
  (`statemachine.cpp:973`), though the prompt says "(or use ENTER to skip this
  button)" just then (`statemachine.cpp:970`).
- Configuring one of two controllers without a mapping drops the other one, which
  SDL does not announce again (`controller.cpp:759`). A controller whose index moved
  while its events were queued gets both slots (`controller.cpp:306`). A Wiimote's
  slot is cleared by the removal of an SDL controller with its number
  (`controller.cpp:142`).
- The last three together give a single device both slots beside a Wiimote, if SDL
  adjusts only the joystick events in its queue (`KeptUpToDate = {"JOYADDED"}`):
  Wiimote 0 is in slot 0, device 0 is replaced by device 1 before its events are
  read, its old CONTROLLERADDED event gives device 1 slot 1, the JOYREMOVED event of
  device 0 clears the Wiimote's slot, which has the same number, and the JOYADDED
  event of device 1 gives it slot 0 too. It takes five events in the queue.
  `openJoy` looks only at slot 0 for the index it is given (`controller.cpp:294`).
- `hatIterator` counts hats, not directions: a direction that was skipped gets the
  hat of a later one (`statemachine.cpp:1287`); a hat after the dpad is complete is
  written beyond `gHat[]` (`statemachine.cpp:1270`); samples of the left trigger's
  axis survive when it is given as a button (`statemachine.cpp:1055`).
- A search stopped after the list was emptied leaves `gCurrentGame` beyond `gGame`
  (`statemachine.cpp:871`). `updateSearchPath` returns `stopSearching` after it was
  cleared, and the search of the next directory starts (`marley.cpp:1009`). A window
  closed during the splash screen is forgotten (`marley.cpp:348`).
- A directory that is not mounted when the file is read loses its line when the
  settings are closed (`UI/SettingsScreen.cpp:757`), and so does one whose line was
  not read because ESC stopped the searches of the start (`marley.cpp:789`). Adding
  it again before that does not help: its line is there, and it is refused.
- With an empty file the uninitialised `duplicate` may keep a directory off the file,
  or, in the settings, out of the search (`marley.cpp:965`).
- `processFinishDialog` gives the focus to a view that may have been deleted
  (`Common/UI/Screen.cpp:300`).
- PPSSPP's loop forwards joystick events but not controller events
  (`ppsspp/SDL/SDLMain.cpp:1054`).

## 5. Proofs

Every theorem holds for all values of the constants that satisfy the named
ASSUMEs, which TLC evaluates in every run; further assumptions are in the theorem
and named here. In each module one lemma per operator and per action shows that
it keeps the invariant; a last lemma joins them for `[Next]_vars`.

*ControllersProofs* (any number of slots, devices, instances and events):

- `TypeCorrect`: `TypeOK` is inductive. It says more than a type: a slot is free,
  or has all the fields of an SDL controller, or all of a Wiimote.
- `CountCorrect`: `CountMatchesSlots`, with `TypeOK` beside it. The argument is
  about cardinalities: closing removes as many occupied slots as it subtracts,
  designating adds one to a free slot, a reset leaves none. The count is exact
  unless `devicesPerType[-1]` reads 0, and never too small.
- `GoneCorrect`: `GoneControllersAreOnTheirWayOut`, assuming
  `"deaf" \notin Emulators`. The invariant adds that `mode` is never `"deaf"`; the
  step that needs care is `PollEvent`, which takes the removal off the queue and must
  have cleared every slot with that instance, if `gGamepad[]` has an entry for it.

*SlotTableProofs*:

- `TableImplementsSlotTable`: `Spec => ImplementsSlotTable`, assuming
  `DevicesPerTypeBelow # 0`. Each operator on the table is shown to be a `Join`, a
  `Leave`, a restart or nothing; `TypeOK` and `CountMatchesSlots` give the number.
- `PlayersKeepTheirSlotsAlways` and `WiimotesCorrect`, from `TypeOK` and, for the
  second, itself: every Wiimote on a slot was seen online by the last tick, and is
  on one slot only, after each operator on the table.
- `LoneControllerOnce`: `NoControllerTwice`, assuming `MaxAttached <= 1` and
  `Wiimotes = {}`; `LoneControllerBesideWiimotes`: the same with Wiimotes, assuming
  `MaxAttached <= 1`, the two slots of the code and an SDL that adjusts both kinds
  of ADDED events. `NoControllerTwice` says nothing of the queue, which is where
  the second designation would come from. `Lone`, which both rest on, says what can
  be in it: an ADDED event names index 0 or nobody, no removal stands behind one that
  SDL has kept up to date, and slots remember index 0. Without Wiimotes the device can only be in slot 0, whose
  index `openJoy` compares (`OnlyOnSlot0`). With them it may be in slot 1;
  `Settled` adds that then no removal waits, and that slot 0 is a Wiimote's as long
  as an ADDED event of the device waits: nothing frees slot 0 before that event has
  found the table full. With an SDL that adjusts only joystick events this is not
  inductive, and the property false (section 4).
- `HotplugDetected`: `Spec => HotplugIsDetected`, assuming `MaxAttached <= 1`,
  `MaxInstances <= MaxPlugged`, `"deaf" \notin Emulators` and an SDL that adjusts
  joystick events: just what *stale_index* in section 4 needs to fail. The
  invariant is `Lone` with `GoneAreRemoved`
  (`GoneControllersAreOnTheirWayOut` when all instances fit `gGamepad[]`): a slot whose index
  would make `openJoy` ignore the device belongs to one that is gone, whose removal
  would stand before this event.
- `SlotsRightWhenQuiet`: `Spec => []SlotsShowWhatIsPluggedIn`, assuming
  `MaxAttached <= 1`, `MaxInstances <= MaxPlugged`, `Emulators = {}`, at most one of
  the two Wiimotes, and that SDL has a mapping for every supported controller if
  there is something to configure (otherwise the reset of `setMapping` announces
  nobody). Nothing is assumed of the indices in the queue. This is the safety half
  of `GoneControllersLeave` and `ComingControllersArrive`: together with a queue that
  empties it gives both. The invariant `OneIsComing` says that an attached device
  without a slot has an ADDED event for index 0 in the queue behind which no removal
  waits (`ShownOrPending`), and that the removals that wait are of earlier instances
  (`OldRemovals`). When `PollEvent` takes that event, no removal is left, so that by
  `GoneAreRemoved` no slot has an SDL controller: one is free
  (`WiimoteSlotsAreOnline` leaves the Wiimote only one), and slot 0 does not have
  index 0. `openJoy` then gives the device a slot, or resets SDL, which posts the
  event that takes the place of the one it took.

*ConfWizardProofs* (any buttons, axes, hats, threshold, both layouts):
`WizardTypeCorrect`, `IteratorsCorrect` and `CountsCorrect` from `WizardInv`.
`TypeOK` is not inductive alone: a write to `gAxis[axisIterator]` is in bounds
because the iterators together never exceed the directions asked for, and what
`checkAxis` records is the number of an axis because it was counted. The writes
beyond `gHat[]` keep the invariant in either layout: they store a hat or one of
its directions, and they happen only after the dpad is complete.

*ConfWizardMappingProofs*, beside `WizardInv`:

- `AxesDistinctAlways` and `SticksTwirled` from `SticksOK`: items still to be asked
  for have no entry (`Unset`), the samples belong to the present item and are not
  what the item before was given (`SamplesApart`), and entries differ (`Distinct`).
- `DpadAsGiven` from `DpadOK`, assuming `Dpad \subseteq Tracked`: as long as all
  answers are of one kind, that kind's iterator is the number of directions
  answered and its array holds the answers (`ButtonsGiven`, `HatsGiven`,
  `AxesGiven`). Mixed answers break this, and the code with it.
- `QuestionnaireImplemented`: `Spec => ImplementsQuestionnaire`, from `WizardInv`.
  Each way to go on is shown to be one `Turn` in `Order` that changes only entries
  in `Fields` of the item (`IsSkip`, `IsRecord`, `IsAnswer`), or to change nothing of
  the form; that the form keeps its type needs `CountsBelongToAnAxis`.

*LauncherProofs* (any depth of calls, any number of games):
`LauncherTypeCorrect`, `MenuCorrect`, `PagesCorrect`, `TextInputCorrect` and
`GamesInside` from `Inv == MenuInv /\ CallsOK`. Until the list is emptied,
`gCurrentGame` is 0 or inside it, `gState` is at a game only if there is one, and
so is the browser wherever it is in `calls`: what is below on the stack must
still be true when the calls above return.

*GameListProofs* (any disk, any order of readdir, any number of searches):
`GameListTypeCorrect`, `IteratorCorrect` and `GamesOnce` from `ListInv`, where the
iterator is never ahead of the counter; `SearchCorrect` from `BookInv`, which
follows the files through the loops: what has been read of open directories is in
`tmpList` and nothing that should be listed is lost (`FindOK`), each file that a
cue file stands for is still to be met by the iterator (`StripOK`), what was
finalized is in `gGame` (`FinalOK`, `GamesOK`, `IdleOK`). `Plain` excludes just the disks
on which the shrinking bound of `stripList` and the comparison of names without
directories matter: on others a name occurs at most once, so that the bound
shrinks by at most one, after the one file was found. `FilesAssumption` says that
files are not directories. `CatalogImplemented`: `Spec => ImplementsCatalog`, from
`ListInv`; `FinalizeFile` and `Finalized` are `Add` or `Drop`, all else a stutter.

*ConfigFileProofs* (any directories, places, number of settings screens and
faults): six theorems from `Inv == FileOK /\ DirsOK /\ ThemeOK /\ PathOK`. The
invariant says where what the user chose is while it is not on file: in memory,
from which every destructor still to come writes it. For directories (`DirsOK`),
one the user wants and that has no excuse is in memory while Marley runs or, while
the file is read, on a line still to be read; so that a destructor, which replaces
the lines by what is in memory, keeps it. `SearchedOnFile` and `DirectoriesKept` have
the exceptions of section 3.

*ScreenStackProofs* (any number of inputs in a frame, any height of the stack):
`StackTypeCorrect`, `FocusKept` and `PointersDescend` from `StackInv`. The parts
beside the properties say that the main screen is the lowest (`MainOK`), that the
finished dialog is on the stack (`FinishOK`), that a popup past its last frame is
the finished one (`LeadsOK`), and that all clicks waiting were given to the screen
that is updated next, and none outlives that update (`ClicksOK`).

Model-checked only: liveness (`GoneControllersLeave`, `ComingControllersArrive`,
`EscapedDialogsLeave`, `QuitIsCarriedOut`, `SearchEnds`), since fairness is beyond
the prover. Every other property of a passing run is a theorem.

## 6. What could come next

- The composition of `Controllers` and `ConfWizard`, for a controller that goes
  during its configuration. Their state spaces multiply; it needs a coarser wizard.
- `internaldb.txt` line by line, with a crash between its two rewritings,
  implementing the set `internalDB` of `Controllers`.
- PCSX2's second try, with the windows torn down and made again for it.
- Abstract specifications of `marley.cfg` (the user's choices survive) and of the
  stack of screens (dialogs come and go in any order), implemented by `ConfigFile`
  and `ScreenStack`.
- A measure that decreases with every step of a search, as a theorem: what
  `SearchEnds` rests on.

## 7. Not modelled

- *Path browser*: its thread and condition variable work only for http paths, which
  nothing in Marley passes; for a local path the listing is read at once.
- *Graphics*, geometry and layout of views, names, tooltips, textures, `checkType`:
  no state another part depends on. `mdf2iso.cpp` converts bytes.
- *Firmware*: which BIOS file has which name and checksum is a table.
- *Internal database*: its lines, see section 6.
- *Screens*: `switchScreen`, `pop` and `RecreateAllViews`, which nothing Marley shows
  calls; a second list opened from a list.
- *Configuration file*: `system_sounds` (read and written where the theme is) and the
  lines of firmware directories, which are only copied.
- *Controllers*: open handles of joysticks (each `openJoy` opens up to three and
  `closeJoy` closes one); the edges of a Wiimote's buttons and the ten frames of
  `delay_after_shutdown`.
- *Launching*: PCSX2's second try, and `create_cue_file`, which writes a cue file
  for a bin file.
- *The emulators*, apart from their polling of the event queue: they are programs of
  other projects. They are nearly all of the repository's lines.

`PROJECT.json` gives the status of every part.
