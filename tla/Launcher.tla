------------------------------ MODULE Launcher ------------------------------
(***************************************************************************)
(* The launcher around the screens: main (marley.cpp), its event loop, the *)
(* menu behind it (statemachine.cpp) and what they call.  The event loop   *)
(* also runs inside every search for games or firmware, so a key may start *)
(* another search, the screens or a game while one is running: calls is    *)
(* the stack of what has been called and not returned.                     *)
(*                                                                         *)
(* Of the list of games only its length is kept (see GameList), of the     *)
(* controllers which slots have a device (see Controllers).                *)
(***************************************************************************)
EXTENDS Integers, Sequences, SequencesExt

CONSTANTS
  Slots,          \* the slots (0 and 1) that may have a controller
  MaxArguments,   \* bound: games named on the command line
  MaxGames,       \* bound: the length of gGame
  MaxCalls        \* bound: the depth of calls

ASSUME SlotsAssumption == Slots \subseteq {0, 1}
ASSUME BoundsAssumption == MaxGames \in Nat /\ MaxArguments \in 0 .. MaxGames /\ MaxCalls \in Nat

VARIABLES
  phase,          \* how far main is: "config", "init", "splash", "start", "loop", "over"
  calls,
  gState, gSetupIsRunning, gControllerConf,
  field,          \* gTextInputForGamingFolder, gTextInputForFirmwareFolder
  gTextInput,
  present,        \* the slots with numberOfDevices # 0
  gGame,          \* the number of games
  gGamesFound, gCurrentGame,
  gQuit, stopSearching, stopSearchingDuringSplash, splashScreenRunning,
  dropped,        \* history: the list has been emptied
  outside         \* history: gGame was read outside its bounds before that

menu  == <<gState, gSetupIsRunning, gCurrentGame>>
text  == <<field, gTextInput>>
list  == <<gGame, gGamesFound>>
stop  == <<stopSearching, stopSearchingDuringSplash, splashScreenRunning>>
past  == <<outside, dropped>>
vars  == <<phase, calls, menu, gControllerConf, text, present, list, gQuit, stop, past>>

Called == Last(calls)
Running(what) == calls # <<>> /\ Called = what
Call(what) == Len(calls) < MaxCalls /\ calls' = Append(calls, what)
Return == calls' = Front(calls)
Become(what) == calls' = [calls EXCEPT ![Len(calls)] = what]

\* What called the one that runs: the menu also runs in main itself, when it starts.
Caller == IF Len(calls) > 1 THEN calls[Len(calls) - 1] ELSE "main"
CalledByMenu == Caller = "events" \/ (Caller = "main" /\ phase = "loop")
CalledByLoadConfig == Caller = "main" /\ phase = "config"

gNumDesignatedControllers == present # {}

-----------------------------------------------------------------------------
(* statemachine                                                            *)

\* DPAD_DOWN, DPAD_RIGHT and the arrow keys.
DownFrom(state) ==
  CASE state = "ZERO"   -> IF ~gNumDesignatedControllers THEN "OFF"
                           ELSE IF gGamesFound THEN "PLAY" ELSE "SETUP"
    [] state = "PLAY"   -> "SETUP"
    [] state = "SETUP"  -> "CONFIG"
    [] state = "CONFIG" -> "OFF"
    [] state \in {"SHUTDOWN", "OFF"} -> IF gGamesFound THEN "LAUNCH" ELSE "SETUP"
    [] state = "CONF0"  -> IF 1 \in present THEN "CONF1" ELSE "FLR_GAMES"
    [] state = "CONF1"  -> "FLR_GAMES"
    [] state \in {"FLR_GAMES", "FLR_FW"} -> "FLR_FW"
    [] state = "LAUNCH" -> IF gCurrentGame = gGame - 1 THEN "PLAY" ELSE "LAUNCH"

\* Mutant of Down: the end of the list is one further.
DownTooFar ==
  /\ gState' = DownFrom(gState)
  /\ gCurrentGame' = IF gState = "LAUNCH" /\ gCurrentGame < gGame
                     THEN gCurrentGame + 1 ELSE gCurrentGame
  /\ UNCHANGED gSetupIsRunning

Down ==
  /\ gState' = DownFrom(gState)
  /\ gCurrentGame' = IF gState = "LAUNCH" /\ gCurrentGame # gGame - 1
                     THEN gCurrentGame + 1 ELSE gCurrentGame
  /\ gCurrentGame' <= MaxGames
  /\ UNCHANGED gSetupIsRunning

\* The page of a controller or the main menu, from below.
PageAbove(slots) ==
  IF 1 \in slots THEN "CONF1" ELSE IF 0 \in slots THEN "CONF0" ELSE "SETUP"

\* DPAD_UP, DPAD_LEFT and the arrow keys.
UpFrom(state) ==
  CASE state = "ZERO"   -> IF gNumDesignatedControllers /\ gGamesFound THEN "LAUNCH" ELSE "OFF"
    [] state = "PLAY"   -> "LAUNCH"
    [] state = "SETUP"  -> IF gGamesFound THEN "PLAY" ELSE "OFF"
    [] state = "CONFIG" -> "SETUP"
    [] state = "OFF"    -> IF gNumDesignatedControllers THEN "CONFIG" ELSE "OFF"
    [] state = "SHUTDOWN" -> "OFF"
    [] state = "CONF0"  -> "SETUP"
    [] state = "CONF1"  -> PageAbove(present \ {1})
    [] state = "FLR_GAMES" -> PageAbove(present)
    [] state = "FLR_FW" -> "FLR_GAMES"
    [] state = "LAUNCH" -> IF gCurrentGame = 0 THEN "OFF" ELSE "LAUNCH"

SetupPages == {"CONF0", "CONF1", "FLR_GAMES", "FLR_FW"}

\* Mutants of Up: the list has no first game; the setup ends on the way from the second
\* controller's page to the first's.
UpTooFar ==
  /\ gState' = UpFrom(gState)
  /\ gCurrentGame' = IF gState = "LAUNCH" THEN gCurrentGame - 1 ELSE gCurrentGame
  /\ gSetupIsRunning' = (gSetupIsRunning /\ ~(gState \in SetupPages /\ gState' = "SETUP"))

UpClosing ==
  /\ gState' = UpFrom(gState)
  /\ gCurrentGame' = IF gState = "LAUNCH" /\ gCurrentGame > 0
                     THEN gCurrentGame - 1 ELSE gCurrentGame
  /\ gSetupIsRunning' = (gSetupIsRunning /\ gState \notin {"CONF0", "CONF1"})

Up ==
  /\ gState' = UpFrom(gState)
  /\ gCurrentGame' = IF gState = "LAUNCH" /\ gCurrentGame > 0
                     THEN gCurrentGame - 1 ELSE gCurrentGame
  /\ gSetupIsRunning' = (gSetupIsRunning /\ ~(gState \in SetupPages /\ gState' = "SETUP"))

\* gGame[gCurrentGame] is read; outside of the list that may be anything.
ReadGame == outside' = (outside \/ (~dropped /\ gCurrentGame >= gGame))

\* launch_emulator: it reads the game also when the screens ask for another one.  No
\* emulator may be found for the game.
launch_emulator(stack) ==
  /\ ReadGame
  /\ calls' \in {stack, Append(stack, "emulator")} /\ Len(calls') <= MaxCalls
  /\ UNCHANGED dropped

\* Mutant of EnterField: the text input does not end with its field.
EnterFieldOnly(own, input, stops) ==
  \/ own \notin field /\ field' = field \cup {own} /\ gTextInput' = TRUE
     /\ stopSearching' = stops /\ UNCHANGED calls
  \/ own \in field /\ field' = field \ {own} /\ gTextInput' = input
     /\ stopSearching' = stops /\ UNCHANGED calls
  \/ /\ own \in field /\ input
     /\ Call(IF own = "games" THEN "search" ELSE "firmware")
     /\ stopSearching' = (stopSearching /\ own = "firmware")
     /\ UNCHANGED text

\* BUTTON_A at a field: its input starts; or it ends, with ESC or with a directory there
\* is not; or that directory is searched.
EnterField(own, input, stops) ==
  \/ own \notin field /\ field' = field \cup {own} /\ gTextInput' = TRUE
     /\ stopSearching' = stops /\ UNCHANGED calls
  \/ own \in field /\ field' = field \ {own} /\ gTextInput' = FALSE
     /\ stopSearching' = stops /\ UNCHANGED calls
  \/ /\ own \in field /\ input
     /\ Call(IF own = "games" THEN "search" ELSE "firmware")
     /\ stopSearching' = (stopSearching /\ own = "firmware")
     /\ UNCHANGED text

\* BUTTON_A, with gTextInput and stopSearching as the key that stands for it leaves them.
Accept(input, stops) ==
  \/ /\ gState \in {"FLR_GAMES", "FLR_FW"}
     /\ EnterField(IF gState = "FLR_GAMES" THEN "games" ELSE "firmware", input, stops)
     /\ UNCHANGED <<menu, gQuit, past>>
  \/ /\ gState \notin {"FLR_GAMES", "FLR_FW"}
     /\ gTextInput' = input /\ stopSearching' = stops /\ UNCHANGED field
     /\ \/ /\ gState \in {"ZERO", "CONF0", "CONF1"}
           /\ UNCHANGED <<calls, menu, gQuit, past>>
        \/ /\ gState = "PLAY" /\ gState' = "LAUNCH"
           /\ UNCHANGED <<calls, gSetupIsRunning, gCurrentGame, gQuit, past>>
        \/ /\ gState = "SETUP"
           /\ gState' = IF 0 \in present THEN "CONF0"
                        ELSE IF 1 \in present THEN "CONF1" ELSE "SETUP"
           /\ gSetupIsRunning' = TRUE
           /\ UNCHANGED <<calls, gCurrentGame, gQuit, past>>
        \/ gState = "CONFIG" /\ Call("screens") /\ UNCHANGED <<menu, gQuit, past>>
        \/ gState \in {"OFF", "SHUTDOWN"} /\ gQuit' = TRUE /\ UNCHANGED <<calls, menu, past>>
        \/ gState = "LAUNCH" /\ launch_emulator(calls) /\ UNCHANGED <<menu, gQuit>>

-----------------------------------------------------------------------------
(* event_loop                                                              *)

Event == Running("events")

\* The keys and buttons that move the menu; the keys only without a text input.
MoveMenu ==
  /\ Event /\ ~gControllerConf
  /\ ~gTextInput \/ gNumDesignatedControllers
  /\ \/ Down \/ Up
     \/ /\ gState = "OFF" /\ gState' = "SHUTDOWN"          \* BUTTON_B
        /\ UNCHANGED <<gSetupIsRunning, gCurrentGame>>
  /\ UNCHANGED <<phase, calls, gControllerConf, text, present, list, gQuit, stop, past>>

splash == <<stopSearchingDuringSplash, splashScreenRunning>>

\* RETURN or BUTTON_A.
AcceptEvent ==
  /\ Event /\ ~gControllerConf
  /\ Accept(gTextInput, stopSearching)
  /\ UNCHANGED <<phase, gControllerConf, present, list, splash>>

\* ESC in a text input ends it, then acts as BUTTON_A.
EscapeText ==
  /\ Event /\ gTextInput
  /\ IF gControllerConf
     THEN gTextInput' = FALSE /\ stopSearching' = TRUE
          /\ UNCHANGED <<calls, menu, field, gQuit, past>>
     ELSE Accept(FALSE, TRUE)
  /\ UNCHANGED <<phase, gControllerConf, present, list, splash>>

\* resetStatemachine, or the end of Marley.
Leave ==
  /\ gQuit' = (gQuit \/ gState = "OFF")
  /\ gControllerConf' = (gControllerConf /\ gState = "OFF")
  /\ UNCHANGED splash

\* ESC or GUIDE: a search stops.  During the splash screen the second ESC ends it; GUIDE
\* does no more while a controller is being configured.
Escape ==
  /\ Event
  /\ stopSearching' = TRUE
  /\ \/ /\ ~gTextInput /\ splashScreenRunning
        /\ stopSearchingDuringSplash' = TRUE
        /\ splashScreenRunning' = ~stopSearchingDuringSplash
        /\ UNCHANGED <<gQuit, gControllerConf>>
     \/ ~gTextInput /\ ~splashScreenRunning /\ Leave
     \/ gNumDesignatedControllers /\ ~gControllerConf /\ Leave
     \/ gNumDesignatedControllers /\ gControllerConf
        /\ UNCHANGED <<gQuit, gControllerConf, splash>>
  /\ UNCHANGED <<phase, calls, menu, text, present, list, past>>

CloseWindow ==
  /\ Event /\ gQuit' = TRUE
  /\ UNCHANGED <<phase, calls, menu, gControllerConf, text, present, list, stop, past>>

Screens == calls # <<>> /\ Called \in {"screens", "browser"}

\* openJoy.  A mapping that is written for the controller empties all slots.  The screens
\* have an event loop of their own, which also calls openJoy and closeJoy.
ControllerComes ==
  /\ Event \/ Screens
  /\ \E slot \in Slots \ present : present' \in {present \cup {slot}, {}}
  /\ UNCHANGED <<phase, calls, menu, gControllerConf, text, list, gQuit, stop, past>>

LeavePage == gState' = "ZERO" /\ gSetupIsRunning' = FALSE

\* closeJoy: the page of a slot that is empty is left.
ControllerGoes ==
  /\ Event \/ Screens
  /\ \E slot \in present : present' = present \ {slot}
  /\ IF (gState = "CONF0" /\ 0 \notin present') \/ (gState = "CONF1" /\ 1 \notin present')
     THEN LeavePage ELSE UNCHANGED <<gState, gSetupIsRunning>>
  /\ UNCHANGED <<phase, calls, gCurrentGame, gControllerConf, text, list, gQuit, stop, past>>

\* setMapping, when the last item has been given or skipped: all slots are emptied, some
\* of them by closeJoy.
setMapping ==
  /\ Event \/ Screens
  /\ gControllerConf /\ gControllerConf' = FALSE
  /\ present' = {}
  /\ \/ gState \in {"CONF0", "CONF1"} /\ LeavePage
     \/ UNCHANGED <<gState, gSetupIsRunning>>
  /\ UNCHANGED <<phase, calls, gCurrentGame, text, list, gQuit, stop, past>>

\* The queue is empty.  The main loop then renders the menu with the game's name.
EventsEnd ==
  /\ Event /\ Return
  /\ IF phase = "loop" /\ Len(calls) = 1 /\ gNumDesignatedControllers
        /\ ~gSetupIsRunning /\ gGamesFound
     THEN ReadGame ELSE UNCHANGED outside
  /\ UNCHANGED <<phase, menu, gControllerConf, text, present, list, gQuit, stop, dropped>>

-----------------------------------------------------------------------------
(* Searches                                                                *)

Searching == calls # <<>> /\ Called \in {"search", "checks", "firmware", "listing"}

\* Every so many directories the event loop runs.
Poll ==
  /\ Searching /\ ~stopSearching
  /\ Call("events")
  /\ UNCHANGED <<phase, menu, gControllerConf, text, present, list, gQuit, stop, past>>

\* finalizeList: games are added.
finalizeList ==
  /\ gGame' \in gGame .. MaxGames
  /\ gGamesFound' = (gGame' # 0)

\* Mutant of Clear: gGamesFound is kept.
ClearGames == gGame' = 0 /\ UNCHANGED gGamesFound /\ dropped' = TRUE

\* gGame.clear() in the menu, in initEMU and in resetSearch.
Clear == gGame' = 0 /\ gGamesFound' = FALSE /\ dropped' = TRUE

resetSearch == Clear /\ gCurrentGame' = 0 /\ stopSearching' = FALSE

\* buildGameList ends, the check for firmware begins; in loadConfig it came before.
Found ==
  /\ Running("search")
  /\ IF CalledByLoadConfig THEN Return ELSE Become("checks")
  /\ finalizeList
  /\ UNCHANGED <<phase, menu, gControllerConf, text, present, gQuit, stop, past>>

\* It ends: updateSearchPath and the menu drop the list if they were stopped.
Checked ==
  /\ Running("checks") /\ Return
  /\ IF CalledByMenu THEN field' = field \ {"games"} /\ gTextInput' = FALSE
     ELSE UNCHANGED text
  /\ \/ stopSearching /\ Caller = "screens" /\ resetSearch
     \/ stopSearching /\ CalledByMenu /\ Clear /\ UNCHANGED <<gCurrentGame, stopSearching>>
     \/ /\ stopSearching => Caller # "screens" /\ ~CalledByMenu
        /\ UNCHANGED <<list, gCurrentGame, stopSearching, dropped>>
  /\ UNCHANGED <<phase, gState, gSetupIsRunning, gControllerConf, present, gQuit,
                 splash, outside>>

\* The check ends.  For a line with a directory of games loadConfig then builds the list,
\* also when the check was stopped.
FirmwareChecked ==
  /\ Running("firmware")
  /\ Return \/ (CalledByLoadConfig /\ Become("search"))
  /\ IF CalledByMenu THEN field' = field \ {"firmware"} /\ gTextInput' = FALSE
     ELSE UNCHANGED text
  /\ UNCHANGED <<phase, menu, gControllerConf, present, list, gQuit, stop, past>>

-----------------------------------------------------------------------------
(* The screens and the emulators                                           *)

\* The settings start the configuration of a controller, or end it.
Configure ==
  /\ Screens
  /\ gControllerConf' \in BOOLEAN
  /\ UNCHANGED <<phase, calls, menu, text, present, list, gQuit, stop, past>>

\* The main screen lists a directory: its games are added, and may be launched.
List ==
  /\ Screens /\ Len(calls) < MaxCalls
  /\ calls' = Append(Front(calls), "screens") \o <<"listing">>
  /\ stopSearching' = FALSE
  /\ UNCHANGED <<phase, menu, gControllerConf, text, present, list, gQuit, splash, past>>

Listed ==
  /\ Running("listing")
  /\ finalizeList
  /\ \/ Return
     \/ gGamesFound' /\ calls' = Append(Front(Front(calls)), "browser")
  /\ UNCHANGED <<phase, menu, gControllerConf, text, present, gQuit, stop, past>>

\* The settings screen adds a directory, or deletes one and searches those that are left.
SearchDirectory ==
  /\ Running("screens") /\ Call("search")
  /\ stopSearching' = FALSE
  /\ UNCHANGED <<phase, menu, gControllerConf, text, present, list, gQuit, splash, past>>

DeleteDirectory ==
  /\ Screens /\ Become("screens")
  /\ resetSearch
  /\ UNCHANGED <<phase, gState, gSetupIsRunning, gControllerConf, text, present, gQuit,
                 splash, outside>>

\* A game is chosen: the screens end, and start again after it.
LaunchFromBrowser ==
  /\ Running("browser")
  /\ launch_emulator(Append(Front(calls), "screens"))
  /\ UNCHANGED <<phase, menu, gControllerConf, text, present, list, gQuit, stop>>

LeaveScreens ==
  /\ Screens /\ Return
  /\ gQuit' = TRUE
  /\ UNCHANGED <<phase, menu, gControllerConf, text, present, list, stop, past>>

EmulatorEnds ==
  /\ Running("emulator") /\ Return
  /\ UNCHANGED <<phase, menu, gControllerConf, text, present, list, gQuit, stop, past>>

-----------------------------------------------------------------------------
(* main                                                                    *)

Init ==
  /\ phase = "config" /\ calls = <<>>
  /\ gState = "CONFIG" /\ gSetupIsRunning = FALSE /\ gCurrentGame = 0
  /\ gControllerConf = FALSE /\ field = {} /\ gTextInput = FALSE
  /\ present = {} /\ gGame \in 0 .. MaxArguments /\ gGamesFound = FALSE
  /\ gQuit = FALSE /\ stopSearching = FALSE /\ stopSearchingDuringSplash = FALSE
  /\ splashScreenRunning = TRUE /\ outside = FALSE /\ dropped = FALSE

Idle == calls = <<>>

\* A line with a directory, of firmware or games, which is searched for firmware first.
loadConfig ==
  /\ phase = "config" /\ Idle /\ ~stopSearching
  /\ Call("firmware")
  /\ UNCHANGED <<phase, menu, gControllerConf, text, present, list, gQuit, stop, past>>

initEMU ==
  /\ phase = "config" /\ Idle
  /\ IF stopSearching
     THEN Clear /\ phase' = "splash" /\ UNCHANGED calls
     ELSE Call("firmware") /\ phase' = "init" /\ UNCHANGED <<list, dropped>>
  /\ UNCHANGED <<menu, gControllerConf, text, present, gQuit, stop, outside>>

SplashTimer ==
  /\ splashScreenRunning /\ splashScreenRunning' = FALSE
  /\ UNCHANGED <<phase, calls, menu, gControllerConf, text, present, list, gQuit,
                 stopSearching, stopSearchingDuringSplash, past>>

Splash ==
  /\ phase \in {"init", "splash"} /\ Idle
  /\ \/ phase = "init" /\ phase' = "splash" /\ UNCHANGED <<calls, gQuit>>
     \/ phase = "splash" /\ splashScreenRunning /\ Call("events") /\ UNCHANGED <<phase, gQuit>>
     \/ phase = "splash" /\ ~splashScreenRunning /\ phase' = "start" /\ gQuit' = FALSE
        /\ UNCHANGED calls
  /\ UNCHANGED <<menu, gControllerConf, text, present, list, stop, past>>

\* "launch into new interface": BUTTON_A.
Start ==
  /\ phase = "start" /\ phase' = "loop"
  /\ IF gControllerConf THEN UNCHANGED <<calls, menu, text, gQuit, stopSearching, past>>
     ELSE Accept(gTextInput, stopSearching)
  /\ UNCHANGED <<gControllerConf, present, list, splash>>

\* The main loop and the one of the screens add and remove wiimotes.
mainLoopWii ==
  /\ (phase = "loop" /\ Idle /\ ~gQuit) \/ Screens
  /\ present' \in SUBSET Slots
  /\ UNCHANGED <<phase, calls, menu, gControllerConf, text, list, gQuit, stop, past>>

MainLoop ==
  /\ phase = "loop" /\ Idle
  /\ IF gQuit THEN phase' = "over" /\ UNCHANGED calls
     ELSE Call("events") /\ UNCHANGED phase
  /\ UNCHANGED <<menu, gControllerConf, text, present, list, gQuit, stop, past>>

event_loop ==
  \/ MoveMenu \/ AcceptEvent \/ EscapeText \/ Escape \/ CloseWindow
  \/ ControllerComes \/ ControllerGoes \/ setMapping \/ EventsEnd

search  == Poll \/ Found \/ Checked \/ FirmwareChecked \/ Listed
screens == Configure \/ List \/ SearchDirectory \/ DeleteDirectory \/ LaunchFromBrowser \/ LeaveScreens
main    == loadConfig \/ initEMU \/ SplashTimer \/ Splash \/ Start \/ MainLoop \/ mainLoopWii

Next == event_loop \/ search \/ screens \/ EmulatorEnds \/ main

Spec == Init /\ [][Next]_vars
-----------------------------------------------------------------------------
Frames == {"events", "search", "checks", "firmware", "listing", "screens", "browser",
           "emulator"}
States == {"ZERO", "PLAY", "SETUP", "CONFIG", "OFF", "SHUTDOWN", "LAUNCH"} \cup SetupPages

\* Every variable has a value of its type.
TypeOK ==
  /\ phase \in {"config", "init", "splash", "start", "loop", "over"}
  /\ calls \in Seq(Frames) /\ Len(calls) <= MaxCalls
  /\ gState \in States /\ gSetupIsRunning \in BOOLEAN /\ gCurrentGame \in 0 .. MaxGames
  /\ gControllerConf \in BOOLEAN
  /\ field \subseteq {"games", "firmware"} /\ gTextInput \in BOOLEAN
  /\ present \subseteq Slots
  /\ gGame \in 0 .. MaxGames /\ gGamesFound \in BOOLEAN
  /\ gQuit \in BOOLEAN /\ stopSearching \in BOOLEAN
  /\ stopSearchingDuringSplash \in BOOLEAN /\ splashScreenRunning \in BOOLEAN
  /\ outside \in BOOLEAN /\ dropped \in BOOLEAN

\* The menu, its picture and the screens read gGame[gCurrentGame] only inside the list,
\* as long as the list has never been emptied (statemachine.cpp:349, gui.cpp:773).
NoGameOutsideTheList == ~outside

\* The menu offers games, and lets them be launched, only when there are some.
MenuOffersWhatThereIs == gGamesFound => gGame # 0

\* The pages of the setup are on show only while the setup runs: the rest of the menu is
\* drawn when it does not (gui.cpp:760).
SetupPagesAreOpen == gState \in SetupPages => gSetupIsRunning

\* The keyboard is taken by a text input only while a field waits for it, whatever nested
\* searches, controllers and ESC have done to the two fields since.
TextInputHasAField == gTextInput => field # {}
=============================================================================
