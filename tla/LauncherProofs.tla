--------------------------- MODULE LauncherProofs ---------------------------
(***************************************************************************)
(* Theorems about Launcher for every value of its constants: any depth of  *)
(* calls and any number of games.                                          *)
(***************************************************************************)
EXTENDS Launcher, SequenceTheorems, TLAPS

(* The inductive invariant, in parts that few actions change together.     *)

FlagsOK ==
  /\ phase \in {"config", "init", "splash", "start", "loop", "over"}
  /\ gControllerConf \in BOOLEAN /\ present \subseteq Slots
  /\ gQuit \in BOOLEAN /\ stopSearching \in BOOLEAN
  /\ stopSearchingDuringSplash \in BOOLEAN /\ splashScreenRunning \in BOOLEAN

MenuOK ==
  /\ gState \in States /\ gSetupIsRunning \in BOOLEAN /\ gCurrentGame \in 0 .. MaxGames
  /\ SetupPagesAreOpen

TextOK ==
  /\ field \subseteq {"games", "firmware"} /\ gTextInput \in BOOLEAN
  /\ TextInputHasAField

GamesOK ==
  /\ gGame \in 0 .. MaxGames /\ gGamesFound \in BOOLEAN
  /\ MenuOffersWhatThereIs

\* Until the list is emptied, the menu is at a game only when there is one.
InsideOK ==
  /\ outside \in BOOLEAN /\ dropped \in BOOLEAN /\ NoGameOutsideTheList
  /\ ~dropped => /\ gCurrentGame = 0 \/ gCurrentGame < gGame
                 /\ gState \in {"PLAY", "LAUNCH"} => gGame # 0

\* The browser offers a game only when there is one.
CallsOK ==
  /\ calls \in Seq(Frames) /\ Len(calls) <= MaxCalls
  /\ ~dropped /\ gGame = 0 => \A k \in 1 .. Len(calls) : calls[k] # "browser"

MenuInv == FlagsOK /\ MenuOK /\ TextOK /\ GamesOK /\ InsideOK
Inv == MenuInv /\ CallsOK

-----------------------------------------------------------------------------
(* The stack of calls.                                                     *)

\* c is a stack of calls with no browser where calls has none.
NewCalls(c) ==
  /\ c \in Seq(Frames) /\ Len(c) <= MaxCalls
  /\ \A k \in 1 .. Len(c) : c[k] = "browser" => k \in 1 .. Len(calls) /\ calls[k] = "browser"

\* All but the last of a sequence.
LEMMA FrontIs ==
  ASSUME NEW S, NEW s \in Seq(S)
  PROVE  /\ Front(s) \in Seq(S)
         /\ Len(Front(s)) = IF s = <<>> THEN 0 ELSE Len(s) - 1
         /\ \A k \in 1 .. Len(Front(s)) : k \in 1 .. Len(s) /\ Front(s)[k] = s[k]
<1>1. Len(s) \in Nat /\ (s = <<>> <=> Len(s) = 0)
  BY LenProperties, EmptySeq
<1>2. \A k \in 1 .. Len(s) - 1 : s[k] \in S
  BY ElementOfSeq, <1>1
<1>3. /\ SubSeq(s, 1, Len(s) - 1) \in Seq(S)
      /\ Len(SubSeq(s, 1, Len(s) - 1)) = IF 1 <= Len(s) - 1 THEN Len(s) - 1 - 1 + 1 ELSE 0
      /\ \A k \in 1 .. Len(s) - 1 - 1 + 1 : SubSeq(s, 1, Len(s) - 1)[k] = s[1 + k - 1]
  BY <1>1, <1>2, SubSeqProperties
<1> QED
  BY <1>1, <1>3 DEF Front

\* A call of anything but the browser.
LEMMA CallKeeps ==
  ASSUME CallsOK, NEW what \in Frames \ {"browser"}, Call(what)
  PROVE  NewCalls(calls')
<1>1. Len(calls) \in Nat
  BY LenProperties DEF CallsOK
<1>2. /\ calls' \in Seq(Frames) /\ Len(calls') = Len(calls) + 1
      /\ \A k \in 1 .. Len(calls) : calls'[k] = calls[k]
      /\ calls'[Len(calls) + 1] = what
  BY AppendProperties DEF Call, CallsOK
<1> QED
  BY <1>1, <1>2, BoundsAssumption DEF NewCalls, Call

\* A return.
LEMMA ReturnKeeps ==
  ASSUME CallsOK
  PROVE  NewCalls(Front(calls))
<1>1. Len(calls) \in Nat /\ (calls = <<>> <=> Len(calls) = 0)
  BY LenProperties, EmptySeq DEF CallsOK
<1> QED
  BY <1>1, FrontIs, BoundsAssumption DEF CallsOK, NewCalls

\* What runs becomes something else.
LEMMA BecomeKeeps ==
  ASSUME CallsOK, calls # <<>>, NEW what \in Frames \ {"browser"}, Become(what)
  PROVE  NewCalls(calls')
<1>1. Len(calls) \in 1 .. Len(calls)
  BY LenProperties, EmptySeq DEF CallsOK
<1>2. /\ calls' \in Seq(Frames) /\ Len(calls') = Len(calls)
      /\ \A k \in 1 .. Len(calls) : calls'[k] = IF k = Len(calls) THEN what ELSE calls[k]
  BY <1>1, ExceptSeq DEF Become, CallsOK
<1> QED
  BY <1>1, <1>2 DEF NewCalls, CallsOK

\* A step of which no browser comes keeps the invariant of the calls.
LEMMA CallsStep ==
  ASSUME CallsOK, NewCalls(calls') \/ UNCHANGED calls,
         dropped \in BOOLEAN, dropped => dropped', gGame \in Nat, gGame' \in Nat,
         dropped' \/ gGame' >= gGame
  PROVE  CallsOK'
  BY DEF CallsOK, NewCalls

-----------------------------------------------------------------------------
(* The menu.                                                               *)

\* Down the menu.
LEMMA DownKeeps ==
  ASSUME MenuInv, Down, UNCHANGED <<gGame, gGamesFound, dropped, outside>>
  PROVE  MenuOK' /\ InsideOK'
<1>1. gState \in States /\ gCurrentGame \in 0 .. MaxGames /\ gGame \in 0 .. MaxGames
  BY DEF MenuInv, MenuOK, GamesOK
<1>2. /\ gState' \in States
      /\ gState' \in SetupPages => gState \in SetupPages
      /\ gState' \in {"PLAY", "LAUNCH"} => gState \in {"PLAY", "LAUNCH"} \/ gGamesFound
  BY <1>1 DEF Down, DownFrom, States, SetupPages
<1>3. /\ gCurrentGame' \in 0 .. MaxGames
      /\ gCurrentGame' # gCurrentGame => gState = "LAUNCH" /\ gCurrentGame # gGame - 1
                                         /\ gCurrentGame' = gCurrentGame + 1
  BY <1>1, BoundsAssumption DEF Down
<1>4. MenuOK'
  BY <1>2, <1>3 DEF MenuInv, MenuOK, Down, SetupPagesAreOpen
<1>5. ~dropped => /\ gCurrentGame' = 0 \/ gCurrentGame' < gGame
                  /\ gState' \in {"PLAY", "LAUNCH"} => gGame # 0
  BY <1>1, <1>2, <1>3 DEF MenuInv, InsideOK, GamesOK, MenuOffersWhatThereIs
<1> QED
  BY <1>4, <1>5 DEF MenuInv, InsideOK, NoGameOutsideTheList

\* Up the menu.
LEMMA UpKeeps ==
  ASSUME MenuInv, Up, UNCHANGED <<gGame, gGamesFound, dropped, outside>>
  PROVE  MenuOK' /\ InsideOK'
<1>1. gState \in States /\ gCurrentGame \in 0 .. MaxGames /\ gGame \in 0 .. MaxGames
  BY DEF MenuInv, MenuOK, GamesOK
<1>2. /\ gState' \in States
      /\ gState' \in SetupPages => gState \in SetupPages
      /\ gState' \in {"PLAY", "LAUNCH"} => gState \in {"PLAY", "LAUNCH"} \/ gGamesFound
  <2>1. \A slots : PageAbove(slots) \in {"CONF0", "CONF1", "SETUP"}
    BY DEF PageAbove
  <2> QED
    BY <1>1, <2>1 DEF Up, UpFrom, States, SetupPages
<1>3. /\ gState' = "LAUNCH" /\ gState = "PLAY" => gState \in {"PLAY", "LAUNCH"}
      /\ gCurrentGame' \in 0 .. MaxGames /\ gCurrentGame' <= gCurrentGame
  BY <1>1, BoundsAssumption DEF Up
<1>4. gSetupIsRunning' \in BOOLEAN /\ (gState' \in SetupPages => gSetupIsRunning')
  BY <1>2 DEF MenuInv, MenuOK, Up, SetupPagesAreOpen, SetupPages
<1>5. MenuOK'
  BY <1>2, <1>3, <1>4 DEF MenuOK, SetupPagesAreOpen
<1>6. ~dropped => /\ gCurrentGame' = 0 \/ gCurrentGame' < gGame
                  /\ gState' \in {"PLAY", "LAUNCH"} => gGame # 0
  BY <1>1, <1>2, <1>3 DEF MenuInv, InsideOK, GamesOK, MenuOffersWhatThereIs
<1> QED
  BY <1>5, <1>6 DEF MenuInv, InsideOK, NoGameOutsideTheList

\* A game is read only where there is one.
LEMMA ReadGameInside ==
  ASSUME MenuInv, ReadGame, UNCHANGED dropped,
         ~dropped => gGame # 0
  PROVE  outside' = FALSE
<1>1. gGame \in Nat /\ gCurrentGame \in Nat
  BY BoundsAssumption DEF MenuInv, MenuOK, GamesOK
<1>2. outside = FALSE
  BY DEF MenuInv, InsideOK, NoGameOutsideTheList
<1>3. dropped \/ ~(gCurrentGame >= gGame)
  BY <1>1 DEF MenuInv, InsideOK
<1> QED
  BY <1>2, <1>3 DEF ReadGame

\* BUTTON_A keeps a text input only in its field, and no page of the setup is opened
\* without the setup.
LEMMA AcceptKeeps ==
  ASSUME Inv, NEW input \in BOOLEAN, NEW stops \in BOOLEAN, input => gTextInput,
         Accept(input, stops), UNCHANGED <<gGame, gGamesFound>>
  PROVE  /\ MenuOK' /\ TextOK' /\ InsideOK' /\ UNCHANGED dropped
         /\ gQuit' \in BOOLEAN /\ stopSearching' \in BOOLEAN
         /\ NewCalls(calls') \/ UNCHANGED calls
<1> USE DEF Inv, MenuInv
<1>1. CASE gState \in {"FLR_GAMES", "FLR_FW"}
  <2> DEFINE own == IF gState = "FLR_GAMES" THEN "games" ELSE "firmware"
  <2>1. EnterField(own, input, stops) /\ UNCHANGED <<menu, gQuit, past>>
    BY <1>1 DEF Accept
  <2>2. own \in {"games", "firmware"}
    OBVIOUS
  <2> HIDE DEF own
  <2>3. stopSearching' \in BOOLEAN
    BY <2>1 DEF EnterField, FlagsOK
  <2>4. TextOK'
    BY <2>1, <2>2 DEF EnterField, TextOK, TextInputHasAField, text
  <2>5. NewCalls(calls') \/ UNCHANGED calls
    <3>1. "search" \in Frames \ {"browser"} /\ "firmware" \in Frames \ {"browser"}
      BY DEF Frames
    <3> QED
      BY <2>1, <3>1, CallKeeps DEF EnterField
  <2> QED
    BY <2>1, <2>3, <2>4, <2>5 DEF menu, past, MenuOK, SetupPagesAreOpen, InsideOK,
         NoGameOutsideTheList, FlagsOK
<1>2. CASE gState \notin {"FLR_GAMES", "FLR_FW"}
  <2>1. TextOK' /\ stopSearching' \in BOOLEAN
    <3>1. gTextInput' = input /\ stopSearching' = stops /\ UNCHANGED field
      BY <1>2 DEF Accept
    <3>2. field # {} \/ ~input
      BY DEF TextOK, TextInputHasAField
    <3>3. stopSearching' \in BOOLEAN /\ gTextInput' \in BOOLEAN
      BY <3>1, Zenon
    <3>4. TextInputHasAField'
      BY <3>1, <3>2, Zenon DEF TextInputHasAField
    <3> QED
      BY <3>1, <3>3, <3>4 DEF TextOK
  <2>2. CASE gState \in {"ZERO", "CONF0", "CONF1"} /\ UNCHANGED <<calls, menu, gQuit, past>>
    BY <2>1, <2>2 DEF menu, past, MenuOK, SetupPagesAreOpen, InsideOK, NoGameOutsideTheList, FlagsOK
  <2>3. CASE /\ gState = "PLAY" /\ gState' = "LAUNCH"
             /\ UNCHANGED <<calls, gSetupIsRunning, gCurrentGame, gQuit, past>>
    BY <2>1, <2>3 DEF past, MenuOK, SetupPagesAreOpen, SetupPages, States, InsideOK,
         NoGameOutsideTheList, FlagsOK
  <2>4. CASE /\ gState = "SETUP"
             /\ gState' = IF 0 \in present THEN "CONF0"
                          ELSE IF 1 \in present THEN "CONF1" ELSE "SETUP"
             /\ gSetupIsRunning' = TRUE
             /\ UNCHANGED <<calls, gCurrentGame, gQuit, past>>
    BY <2>1, <2>4 DEF past, MenuOK, SetupPagesAreOpen, SetupPages, States, InsideOK,
         NoGameOutsideTheList, FlagsOK
  <2>5. CASE gState = "CONFIG" /\ Call("screens") /\ UNCHANGED <<menu, gQuit, past>>
    <3>1. NewCalls(calls')
      BY <2>5, CallKeeps DEF Frames
    <3> QED
      BY <2>1, <2>5, <3>1 DEF menu, past, MenuOK, SetupPagesAreOpen, InsideOK,
           NoGameOutsideTheList, FlagsOK
  <2>6. CASE gState \in {"OFF", "SHUTDOWN"} /\ gQuit' = TRUE /\ UNCHANGED <<calls, menu, past>>
    BY <2>1, <2>6 DEF menu, past, MenuOK, SetupPagesAreOpen, InsideOK, NoGameOutsideTheList
  <2>7. CASE gState = "LAUNCH" /\ launch_emulator(calls) /\ UNCHANGED <<menu, gQuit>>
    <3>1. outside' = FALSE
      BY <2>7, ReadGameInside DEF launch_emulator, InsideOK
    <3>2. NewCalls(calls') \/ UNCHANGED calls
      <4>1. calls' = Append(calls, "emulator") => Call("emulator")
        <5>1. Len(calls) \in Nat
          BY LenProperties DEF CallsOK
        <5>2. Len(Append(calls, "emulator")) = Len(calls) + 1
          BY AppendProperties DEF CallsOK, Frames
        <5> QED
          BY <2>7, <5>1, <5>2, BoundsAssumption DEF launch_emulator, Call
      <4> QED
        BY <2>7, <4>1, CallKeeps DEF launch_emulator, Frames
    <3> QED
      BY <2>1, <2>7, <3>1, <3>2 DEF launch_emulator, menu, MenuOK, SetupPagesAreOpen, InsideOK,
           NoGameOutsideTheList, FlagsOK
  <2> QED
    BY <1>2, <2>2, <2>3, <2>4, <2>5, <2>6, <2>7 DEF Accept
<1> QED
  BY <1>1, <1>2

-----------------------------------------------------------------------------
(* One step per action: it keeps the menu, the text input, the list of     *)
(* games and the flags, and makes a stack of calls without a new browser.  *)

\* What an action does to a stack with at least one call.
LEMMA ReturnStep ==
  ASSUME CallsOK, Return
  PROVE  NewCalls(calls')
  BY ReturnKeeps DEF Return

\* The actions of the event loop.
LEMMA EventLoopKeeps ==
  ASSUME Inv, event_loop
  PROVE  /\ MenuInv' /\ (NewCalls(calls') \/ UNCHANGED calls)
         /\ UNCHANGED <<gGame, dropped>>
<1> USE DEF Inv
<1> DEFINE Done == /\ MenuInv' /\ (NewCalls(calls') \/ UNCHANGED calls)
                   /\ UNCHANGED <<gGame, dropped>>
<1>1. ASSUME MoveMenu PROVE Done
  <2>1. UNCHANGED <<phase, calls, gControllerConf, field, gTextInput, present, gGame, gGamesFound,
                    gQuit, stopSearching, stopSearchingDuringSplash, splashScreenRunning,
                    outside, dropped>>
    BY <1>1 DEF MoveMenu, text, list, stop, past
  <2>2. FlagsOK' /\ TextOK' /\ GamesOK'
    BY <2>1 DEF MenuInv, FlagsOK, TextOK, TextInputHasAField, GamesOK, MenuOffersWhatThereIs
  <2>3. MenuOK' /\ InsideOK'
    <3>1. CASE Down \/ Up
      BY <2>1, <3>1, DownKeeps, UpKeeps
    <3>2. CASE gState' = "SHUTDOWN" /\ UNCHANGED <<gSetupIsRunning, gCurrentGame>>
      BY <2>1, <3>2 DEF MenuInv, MenuOK, SetupPagesAreOpen, SetupPages, States, InsideOK,
           NoGameOutsideTheList
    <3> QED
      BY <1>1, <3>1, <3>2 DEF MoveMenu
  <2> QED
    BY <2>1, <2>2, <2>3 DEF MenuInv
<1>2. ASSUME NEW input \in BOOLEAN, NEW stops \in BOOLEAN, input => gTextInput,
             Accept(input, stops),
             UNCHANGED <<phase, gControllerConf, present, list, splash>>
      PROVE  Done
  <2>1. UNCHANGED <<gGame, gGamesFound>>
    BY <1>2 DEF list
  <2>2. /\ MenuOK' /\ TextOK' /\ InsideOK' /\ UNCHANGED dropped
        /\ gQuit' \in BOOLEAN /\ stopSearching' \in BOOLEAN
        /\ NewCalls(calls') \/ UNCHANGED calls
    BY <1>2, <2>1, AcceptKeeps
  <2>3. GamesOK'
    BY <2>1 DEF MenuInv, GamesOK, MenuOffersWhatThereIs
  <2>4. FlagsOK'
    BY <1>2, <2>2 DEF MenuInv, FlagsOK, splash
  <2> QED
    BY <2>1, <2>2, <2>3, <2>4 DEF MenuInv
<1>3. ASSUME AcceptEvent PROVE Done
  <2>1. gTextInput \in BOOLEAN /\ stopSearching \in BOOLEAN
    BY DEF MenuInv, TextOK, FlagsOK
  <2> QED
    BY <1>2, <1>3, <2>1, Zenon DEF AcceptEvent
<1>4. ASSUME EscapeText PROVE Done
  <2>1. CASE ~gControllerConf
    BY <1>2, <1>4, <2>1, Zenon DEF EscapeText
  <2>2. CASE gControllerConf
    <3>1. /\ UNCHANGED <<phase, calls, gState, gSetupIsRunning, gCurrentGame, field, gQuit,
                          gControllerConf, present, gGame, gGamesFound,
                          stopSearchingDuringSplash, splashScreenRunning, outside, dropped>>
          /\ gTextInput' = FALSE /\ stopSearching' = TRUE
      BY <1>4, <2>2 DEF EscapeText, menu, list, splash, past
    <3>2. MenuOK' /\ GamesOK'
      BY <3>1 DEF MenuInv, MenuOK, SetupPagesAreOpen, GamesOK, MenuOffersWhatThereIs
    <3>3. InsideOK'
      BY <3>1 DEF MenuInv, InsideOK, NoGameOutsideTheList
    <3>4. FlagsOK' /\ TextOK'
      BY <3>1 DEF MenuInv, FlagsOK, TextOK, TextInputHasAField
    <3> QED
      BY <3>1, <3>2, <3>3, <3>4 DEF MenuInv
  <2> QED
    BY <2>1, <2>2
<1>5. ASSUME Escape PROVE Done
  <2>1. UNCHANGED <<phase, calls, gState, gSetupIsRunning, gCurrentGame, field, gTextInput,
                    present, gGame, gGamesFound, outside, dropped>> /\ stopSearching' = TRUE
    BY <1>5 DEF Escape, menu, text, list, past
  <2>2. /\ gQuit' \in BOOLEAN /\ gControllerConf' \in BOOLEAN
        /\ stopSearchingDuringSplash' \in BOOLEAN /\ splashScreenRunning' \in BOOLEAN
    BY <1>5 DEF Escape, Leave, splash, MenuInv, FlagsOK
  <2> QED
    <3>1. FlagsOK'
      BY <2>1, <2>2 DEF MenuInv, FlagsOK
    <3>2. MenuOK' /\ TextOK' /\ GamesOK' /\ InsideOK'
      BY <2>1 DEF MenuInv, MenuOK, SetupPagesAreOpen, TextOK, TextInputHasAField,
           GamesOK, MenuOffersWhatThereIs, InsideOK, NoGameOutsideTheList
    <3> QED
      BY <2>1, <3>1, <3>2 DEF MenuInv
<1>6. ASSUME CloseWindow PROVE Done
  BY <1>6 DEF CloseWindow, MenuInv, FlagsOK, MenuOK, SetupPagesAreOpen, TextOK,
       TextInputHasAField, GamesOK, MenuOffersWhatThereIs, InsideOK, NoGameOutsideTheList,
       menu, text, list, stop, past
<1>7. ASSUME ControllerComes PROVE Done
  BY <1>7 DEF ControllerComes, MenuInv, FlagsOK, MenuOK, SetupPagesAreOpen, TextOK,
       TextInputHasAField, GamesOK, MenuOffersWhatThereIs, InsideOK, NoGameOutsideTheList,
       menu, text, list, stop, past
<1>8. ASSUME present' \subseteq Slots, gControllerConf' \in BOOLEAN,
             LeavePage \/ UNCHANGED <<gState, gSetupIsRunning>>,
             UNCHANGED <<phase, calls, gCurrentGame, text, list, gQuit, stop, past>>
      PROVE  Done
  <2>1. UNCHANGED <<phase, calls, gCurrentGame, field, gTextInput, gGame, gGamesFound, gQuit,
                    stopSearching, stopSearchingDuringSplash, splashScreenRunning, outside,
                    dropped>>
    BY <1>8 DEF text, list, stop, past
  <2>2. FlagsOK' /\ TextOK' /\ GamesOK'
    BY <1>8, <2>1 DEF MenuInv, FlagsOK, TextOK, TextInputHasAField, GamesOK,
         MenuOffersWhatThereIs
  <2>3. MenuOK'
    <3>1. CASE LeavePage
      BY <2>1, <3>1 DEF LeavePage, MenuInv, MenuOK, SetupPagesAreOpen, SetupPages, States
    <3>2. CASE UNCHANGED <<gState, gSetupIsRunning>>
      BY <2>1, <3>2 DEF MenuInv, MenuOK, SetupPagesAreOpen
    <3> QED
      BY <1>8, <3>1, <3>2
  <2>4. InsideOK'
    BY <1>8, <2>1 DEF LeavePage, MenuInv, InsideOK, NoGameOutsideTheList
  <2> QED
    BY <2>1, <2>2, <2>3, <2>4 DEF MenuInv
<1>9. ASSUME ControllerGoes PROVE Done
  <2>1. present' \subseteq Slots /\ gControllerConf' \in BOOLEAN
    BY <1>9 DEF ControllerGoes, MenuInv, FlagsOK
  <2>2. /\ LeavePage \/ UNCHANGED <<gState, gSetupIsRunning>>
        /\ UNCHANGED <<phase, calls, gCurrentGame, text, list, gQuit, stop, past>>
    BY <1>9 DEF ControllerGoes
  <2> HIDE DEF Done
  <2> QED
    BY <1>8, <2>1, <2>2
<1>10. ASSUME setMapping PROVE Done
  <2> HIDE DEF Done
  <2> QED
    BY <1>8, <1>10 DEF setMapping
<1>11. ASSUME EventsEnd PROVE Done
  <2>1. UNCHANGED <<phase, gState, gSetupIsRunning, gCurrentGame, gControllerConf, field,
                    gTextInput, present, gGame, gGamesFound, gQuit, stopSearching,
                    stopSearchingDuringSplash, splashScreenRunning, dropped>>
    BY <1>11 DEF EventsEnd, menu, text, list, stop
  <2>2. NewCalls(calls')
    BY <1>11, ReturnStep DEF EventsEnd
  <2>3. outside' = FALSE
    <3>1. CASE ReadGame /\ gGamesFound
      <4>1. gGame # 0
        BY <3>1 DEF MenuInv, GamesOK, MenuOffersWhatThereIs
      <4> QED
        BY <2>1, <3>1, <4>1, ReadGameInside
    <3>2. CASE UNCHANGED outside
      BY <3>2 DEF MenuInv, InsideOK, NoGameOutsideTheList
    <3> QED
      BY <1>11, <3>1, <3>2 DEF EventsEnd
  <2>4. FlagsOK' /\ MenuOK' /\ TextOK'
    BY <2>1 DEF MenuInv, FlagsOK, MenuOK, SetupPagesAreOpen, TextOK, TextInputHasAField
  <2>5. GamesOK' /\ InsideOK'
    BY <2>1, <2>3 DEF MenuInv, GamesOK, MenuOffersWhatThereIs, InsideOK, NoGameOutsideTheList
  <2> QED
    BY <2>1, <2>2, <2>4, <2>5 DEF MenuInv
<1> HIDE DEF Done
<1>12. Done
  BY <1>1, <1>3, <1>4, <1>5, <1>6, <1>7, <1>9, <1>10, <1>11 DEF event_loop
<1> QED
  BY <1>12 DEF Done

\* Parts of the invariant that an action leaves alone.
LEMMA Kept ==
  /\ MenuOK /\ UNCHANGED menu => MenuOK'
  /\ TextOK /\ UNCHANGED text => TextOK'
  /\ GamesOK /\ UNCHANGED list => GamesOK'
  /\ InsideOK /\ UNCHANGED <<menu, gGame, past>> => InsideOK'
<1>1. MenuOK /\ UNCHANGED menu => MenuOK'
  BY DEF MenuOK, SetupPagesAreOpen, menu
<1>2. TextOK /\ UNCHANGED text => TextOK'
  BY DEF TextOK, TextInputHasAField, text
<1>3. GamesOK /\ UNCHANGED list => GamesOK'
  BY DEF GamesOK, MenuOffersWhatThereIs, list
<1>4. InsideOK /\ UNCHANGED <<menu, gGame, past>> => InsideOK'
  BY DEF InsideOK, NoGameOutsideTheList, menu, past
<1> QED
  BY <1>1, <1>2, <1>3, <1>4

\* finalizeList adds games, or finds none.
LEMMA ListGrows ==
  ASSUME gGame \in 0 .. MaxGames, finalizeList
  PROVE  GamesOK' /\ gGame' >= gGame
<1>1. gGame' \in gGame .. MaxGames /\ gGamesFound' = (gGame' # 0)
  BY DEF finalizeList
<1>2. gGamesFound' \in BOOLEAN /\ MenuOffersWhatThereIs'
  BY <1>1, Zenon DEF MenuOffersWhatThereIs
<1> QED
  BY <1>1, <1>2, BoundsAssumption DEF GamesOK

\* An emptied list, and the menu at its first game.
LEMMA Cleared ==
  ASSUME Clear
  PROVE  /\ GamesOK' /\ gGame' = 0 /\ dropped' = TRUE
         /\ MenuOK /\ UNCHANGED <<gState, gSetupIsRunning>> /\ gCurrentGame' = 0 => MenuOK'
<1>1. gGame' = 0 /\ gGamesFound' = FALSE /\ dropped' = TRUE
  BY DEF Clear
<1>2. gGamesFound' \in BOOLEAN /\ MenuOffersWhatThereIs'
  BY <1>1, Zenon DEF MenuOffersWhatThereIs
<1>3. gGame' \in 0 .. MaxGames
  BY <1>1, BoundsAssumption
<1>4. ASSUME MenuOK, UNCHANGED <<gState, gSetupIsRunning>>, gCurrentGame' = 0
      PROVE  MenuOK'
  BY <1>4, BoundsAssumption DEF MenuOK, SetupPagesAreOpen
<1> QED
  BY <1>1, <1>2, <1>3, <1>4 DEF GamesOK

\* The searches, but for the one a listing of the main screen is.
LEMMA SearchKeeps ==
  ASSUME Inv, Poll \/ Found \/ Checked \/ FirmwareChecked
  PROVE  /\ MenuInv' /\ NewCalls(calls') /\ (dropped => dropped')
         /\ dropped' \/ gGame' >= gGame
<1> USE DEF Inv
<1> DEFINE Done == /\ MenuInv' /\ NewCalls(calls') /\ (dropped => dropped')
                   /\ dropped' \/ gGame' >= gGame
<1>0. gGame \in 0 .. MaxGames /\ gGame >= gGame
  BY BoundsAssumption DEF MenuInv, GamesOK
<1>1. ASSUME Poll PROVE Done
  <2>1. NewCalls(calls')
    BY <1>1, CallKeeps DEF Poll, Frames
  <2>2. FlagsOK'
    BY <1>1 DEF Poll, MenuInv, FlagsOK, stop
  <2> QED
    BY <1>0, <1>1, <2>1, <2>2, Kept DEF Poll, MenuInv, list, past
<1>2. ASSUME Found PROVE Done
  <2>1. NewCalls(calls')
    <3>1. CASE Return
      BY <3>1, ReturnStep
    <3>2. CASE Become("checks")
      BY <1>2, <3>2, BecomeKeeps DEF Found, Running, Frames
    <3> QED
      BY <1>2, <3>1, <3>2 DEF Found
  <2>2. FlagsOK'
    BY <1>2 DEF Found, MenuInv, FlagsOK, stop
  <2>3. GamesOK' /\ gGame' >= gGame
    BY <1>0, <1>2, ListGrows DEF Found
  <2>4. InsideOK'
    BY <1>0, <1>2, <2>3, BoundsAssumption DEF Found, MenuInv, MenuOK, GamesOK, InsideOK,
         NoGameOutsideTheList, menu, past
  <2> QED
    BY <1>2, <2>1, <2>2, <2>3, <2>4, Kept DEF Found, MenuInv, past
<1>3. ASSUME Checked PROVE Done
  <2>1. NewCalls(calls')
    BY <1>3, ReturnStep DEF Checked
  <2>2. /\ UNCHANGED <<phase, gState, gSetupIsRunning, gControllerConf, present, gQuit,
                       stopSearchingDuringSplash, splashScreenRunning, outside>>
        /\ \/ Clear /\ (gCurrentGame' = 0 \/ UNCHANGED gCurrentGame)
           \/ UNCHANGED <<list, gCurrentGame, dropped>>
        /\ stopSearching' = FALSE \/ UNCHANGED stopSearching
    BY <1>3 DEF Checked, splash, resetSearch
  <2>3. FlagsOK'
    BY <2>2 DEF MenuInv, FlagsOK
  <2>4. TextOK'
    BY <1>3 DEF Checked, MenuInv, TextOK, TextInputHasAField, text
  <2>5. GamesOK'
    BY <2>2, Cleared, Kept DEF MenuInv
  <2>6. MenuOK'
    BY <2>2, BoundsAssumption DEF MenuInv, MenuOK, SetupPagesAreOpen
  <2>7. InsideOK'
    <3>1. Clear => InsideOK'
      BY <2>2 DEF MenuInv, InsideOK, NoGameOutsideTheList, Clear
    <3>2. UNCHANGED <<list, gCurrentGame, dropped>> => InsideOK'
      BY <2>2 DEF MenuInv, InsideOK, NoGameOutsideTheList, list
    <3> QED
      BY <2>2, <3>1, <3>2
  <2> QED
    BY <1>0, <2>1, <2>2, <2>3, <2>4, <2>5, <2>6, <2>7 DEF MenuInv, Clear, list
<1>4. ASSUME FirmwareChecked PROVE Done
  <2>1. NewCalls(calls')
    <3>1. CASE Return
      BY <3>1, ReturnStep
    <3>2. CASE Become("search")
      BY <1>4, <3>2, BecomeKeeps DEF FirmwareChecked, Running, Frames
    <3> QED
      BY <1>4, <3>1, <3>2 DEF FirmwareChecked
  <2>2. FlagsOK'
    BY <1>4 DEF FirmwareChecked, MenuInv, FlagsOK, stop
  <2>3. TextOK'
    BY <1>4 DEF FirmwareChecked, MenuInv, TextOK, TextInputHasAField, text
  <2> QED
    BY <1>0, <1>4, <2>1, <2>2, <2>3, Kept DEF FirmwareChecked, MenuInv, list, past
<1> HIDE DEF Done
<1>5. Done
  BY <1>1, <1>2, <1>3, <1>4
<1> QED
  BY <1>5 DEF Done

\* The listing of the main screen: it may go on in the browser, which then has a game.
LEMMA ListedKeeps ==
  ASSUME Inv, Listed
  PROVE  Inv'
<1>0. gGame \in 0 .. MaxGames /\ gGame \in Nat
  BY BoundsAssumption DEF Inv, MenuInv, GamesOK
<1>1. GamesOK' /\ gGame' >= gGame /\ gGame' \in Nat
  BY <1>0, ListGrows, BoundsAssumption DEF Listed, GamesOK
<1>2. UNCHANGED <<menu, text, past>> /\ FlagsOK'
  BY DEF Listed, Inv, MenuInv, FlagsOK, stop
<1>3. InsideOK'
  BY <1>0, <1>1, <1>2, BoundsAssumption DEF Inv, MenuInv, MenuOK, InsideOK, NoGameOutsideTheList,
       menu, past
<1>4. MenuInv'
  BY <1>1, <1>2, <1>3, Kept DEF Inv, MenuInv
<1>5. CASE Return
  <2>1. NewCalls(calls')
    BY <1>5, ReturnStep DEF Inv
  <2> QED
    BY <1>0, <1>1, <1>2, <1>4, <2>1, CallsStep DEF Inv, MenuInv, InsideOK, past
<1>6. CASE gGamesFound' /\ calls' = Append(Front(Front(calls)), "browser")
  <2>1. gGame' # 0
    BY <1>1, <1>6 DEF GamesOK, MenuOffersWhatThereIs
  <2>2. calls \in Seq(Frames) /\ Len(calls) \in Nat /\ Len(calls) <= MaxCalls
        /\ Len(calls) >= 1
    BY LenProperties, EmptySeq DEF Inv, CallsOK, Listed, Running
  <2>3. Front(calls) \in Seq(Frames) /\ Len(Front(calls)) = Len(calls) - 1
        /\ (Front(calls) = <<>> => Len(Front(calls)) = 0)
    BY <2>2, FrontIs
  <2>4. /\ Front(Front(calls)) \in Seq(Frames)
        /\ Len(Front(Front(calls))) \in Nat /\ Len(Front(Front(calls))) <= Len(calls) - 1
    BY <2>2, <2>3, FrontIs, LenProperties
  <2>5. calls' \in Seq(Frames) /\ Len(calls') = Len(Front(Front(calls))) + 1
    BY <1>6, <2>4, AppendProperties DEF Frames
  <2>6. CallsOK'
    BY <2>1, <2>2, <2>4, <2>5, BoundsAssumption DEF CallsOK
  <2> QED
    BY <1>4, <2>6 DEF Inv
<1> QED
  BY <1>5, <1>6 DEF Listed

\* The screens and the emulators.
LEMMA ScreensKeep ==
  ASSUME Inv, screens \/ EmulatorEnds
  PROVE  /\ MenuInv' /\ (NewCalls(calls') \/ UNCHANGED calls) /\ (dropped => dropped')
         /\ dropped' \/ gGame' >= gGame
<1> USE DEF Inv
<1> DEFINE Done == /\ MenuInv' /\ (NewCalls(calls') \/ UNCHANGED calls) /\ (dropped => dropped')
                   /\ dropped' \/ gGame' >= gGame
<1>0. /\ gGame \in 0 .. MaxGames /\ gGame >= gGame
      /\ calls \in Seq(Frames) /\ Len(calls) \in Nat /\ Len(calls) <= MaxCalls
      /\ calls # <<>> => Len(Front(calls)) = Len(calls) - 1 /\ Front(calls) \in Seq(Frames)
      /\ calls # <<>> => \A k \in 1 .. Len(Front(calls)) :
                           k \in 1 .. Len(calls) /\ Front(calls)[k] = calls[k]
  BY BoundsAssumption, LenProperties, FrontIs DEF MenuInv, GamesOK, CallsOK
<1>1. ASSUME Configure PROVE Done
  <2>1. FlagsOK'
    BY <1>1 DEF Configure, MenuInv, FlagsOK, stop
  <2> QED
    BY <1>0, <1>1, <2>1, Kept DEF Configure, MenuInv, list, past
<1>2. ASSUME List PROVE Done
  <2> DEFINE screensOnTop == Append(Front(calls), "screens")
  <2>1. /\ screensOnTop \in Seq(Frames) /\ Len(screensOnTop) = Len(calls)
        /\ \A k \in 1 .. Len(calls) - 1 : screensOnTop[k] = calls[k]
        /\ screensOnTop[Len(calls)] = "screens"
    BY <1>0, <1>2, AppendProperties DEF List, Screens, Frames
  <2> HIDE DEF screensOnTop
  <2>2. <<"listing">> \in Seq(Frames) /\ Len(<<"listing">>) = 1 /\ <<"listing">>[1] = "listing"
    BY DEF Frames
  <2>3. /\ calls' \in Seq(Frames) /\ Len(calls') = Len(calls) + 1
        /\ \A k \in 1 .. Len(calls) + 1 :
             calls'[k] = IF k <= Len(calls) THEN screensOnTop[k] ELSE "listing"
    <3>1. calls' = screensOnTop \o <<"listing">>
      BY <1>2 DEF List, screensOnTop
    <3>2. /\ calls' \in Seq(Frames) /\ Len(calls') = Len(screensOnTop) + 1
          /\ \A k \in 1 .. Len(screensOnTop) + 1 :
               calls'[k] = IF k <= Len(screensOnTop) THEN screensOnTop[k]
                           ELSE <<"listing">>[k - Len(screensOnTop)]
      BY <2>1, <2>2, <3>1, ConcatProperties
    <3> QED
      BY <1>0, <2>1, <2>2, <3>2
  <2>4. NewCalls(calls')
    <3>1. \A k \in 1 .. Len(calls') : calls'[k] = "browser" => k \in 1 .. Len(calls) - 1
      BY <1>0, <2>1, <2>3
    <3> QED
      BY <1>0, <1>2, <2>1, <2>3, <3>1, BoundsAssumption DEF NewCalls, List
  <2>5. FlagsOK'
    BY <1>2 DEF List, MenuInv, FlagsOK, splash
  <2> QED
    BY <1>0, <1>2, <2>4, <2>5, Kept DEF List, MenuInv, list, past
<1>3. ASSUME SearchDirectory PROVE Done
  <2>1. NewCalls(calls')
    BY <1>3, CallKeeps DEF SearchDirectory, Frames
  <2>2. FlagsOK'
    BY <1>3 DEF SearchDirectory, MenuInv, FlagsOK, splash
  <2> QED
    BY <1>0, <1>3, <2>1, <2>2, Kept DEF SearchDirectory, MenuInv, list, past
<1>4. ASSUME DeleteDirectory PROVE Done
  <2>1. NewCalls(calls')
    BY <1>4, BecomeKeeps DEF DeleteDirectory, Screens, Frames
  <2>2. /\ UNCHANGED <<phase, gState, gSetupIsRunning, gControllerConf, present, gQuit,
                       stopSearchingDuringSplash, splashScreenRunning, outside, field, gTextInput>>
        /\ gGame' = 0 /\ gGamesFound' = FALSE /\ dropped' = TRUE /\ gCurrentGame' = 0
        /\ stopSearching' = FALSE
    BY <1>4 DEF DeleteDirectory, resetSearch, Clear, text, splash
  <2>3. FlagsOK' /\ TextOK'
    BY <2>2 DEF MenuInv, FlagsOK, TextOK, TextInputHasAField
  <2>4. GamesOK' /\ MenuOK'
    BY <1>4, <2>2, Cleared DEF DeleteDirectory, resetSearch, MenuInv
  <2>5. InsideOK'
    BY <2>2 DEF MenuInv, InsideOK, NoGameOutsideTheList
  <2> QED
    BY <2>1, <2>2, <2>3, <2>4, <2>5 DEF MenuInv
<1>5. ASSUME LaunchFromBrowser PROVE Done
  <2> DEFINE stack == Append(Front(calls), "screens")
  <2>1. /\ stack \in Seq(Frames) /\ Len(stack) = Len(calls) /\ Len(calls) >= 1
        /\ \A k \in 1 .. Len(calls) - 1 : stack[k] = calls[k]
        /\ stack[Len(calls)] = "screens"
    BY <1>0, <1>5, AppendProperties, EmptySeq DEF LaunchFromBrowser, Running, Frames
  <2>2. /\ calls' \in {stack, Append(stack, "emulator")} /\ Len(calls') <= MaxCalls
        /\ ReadGame /\ UNCHANGED dropped
    BY <1>5 DEF LaunchFromBrowser, launch_emulator
  <2> HIDE DEF stack
  <2>3. NewCalls(stack)
    BY <1>0, <2>1 DEF NewCalls
  <2>4. /\ Append(stack, "emulator") \in Seq(Frames)
        /\ Len(Append(stack, "emulator")) = Len(stack) + 1
        /\ \A k \in 1 .. Len(stack) : Append(stack, "emulator")[k] = stack[k]
        /\ Append(stack, "emulator")[Len(stack) + 1] = "emulator"
    BY <2>1, AppendProperties DEF Frames
  <2>5. NewCalls(calls')
    <3>1. CASE calls' = Append(stack, "emulator")
      <4>1. \A k \in 1 .. Len(calls') :
              calls'[k] = "browser" => k \in 1 .. Len(stack) /\ stack[k] = "browser"
        BY <1>0, <2>1, <2>4, <3>1
      <4> QED
        BY <2>2, <2>3, <2>4, <3>1, <4>1 DEF NewCalls
    <3> QED
      BY <2>2, <2>3, <3>1
  <2>6. outside' = FALSE
    <3>1. calls[Len(calls)] = "browser" /\ Len(calls) \in 1 .. Len(calls)
      BY <1>0, <1>5, <2>1 DEF LaunchFromBrowser, Running, Called, Last
    <3>2. ~dropped => gGame # 0
      BY <3>1 DEF CallsOK
    <3> QED
      BY <2>2, <3>2, ReadGameInside
  <2>7. FlagsOK' /\ GamesOK' /\ MenuOK' /\ TextOK'
    BY <1>5, Kept DEF LaunchFromBrowser, MenuInv, FlagsOK, stop
  <2>8. InsideOK'
    BY <1>5, <2>2, <2>6 DEF LaunchFromBrowser, MenuInv, InsideOK, NoGameOutsideTheList, menu, list
  <2> QED
    BY <1>0, <1>5, <2>2, <2>5, <2>7, <2>8 DEF LaunchFromBrowser, MenuInv, list
<1>6. ASSUME LeaveScreens \/ EmulatorEnds PROVE Done
  <2>1. NewCalls(calls')
    BY <1>6, ReturnStep DEF LeaveScreens, EmulatorEnds
  <2>2. FlagsOK'
    BY <1>6 DEF LeaveScreens, EmulatorEnds, MenuInv, FlagsOK, stop
  <2>3. UNCHANGED <<menu, text, list, past>>
    BY <1>6 DEF LeaveScreens, EmulatorEnds
  <2> QED
    BY <1>0, <2>1, <2>2, <2>3, Kept DEF MenuInv, list, past
<1> HIDE DEF Done
<1>7. Done
  BY <1>1, <1>2, <1>3, <1>4, <1>5, <1>6 DEF screens
<1> QED
  BY <1>7 DEF Done
\* main, and the wiimotes in its loop.
LEMMA MainKeeps ==
  ASSUME Inv, main
  PROVE  /\ MenuInv' /\ (NewCalls(calls') \/ UNCHANGED calls) /\ (dropped => dropped')
         /\ dropped' \/ gGame' >= gGame
<1> USE DEF Inv
<1> DEFINE Done == /\ MenuInv' /\ (NewCalls(calls') \/ UNCHANGED calls) /\ (dropped => dropped')
                   /\ dropped' \/ gGame' >= gGame
<1>0. gGame >= gGame /\ {"firmware", "events"} \subseteq Frames \ {"browser"}
  BY BoundsAssumption DEF MenuInv, GamesOK, Frames
<1>1. ASSUME UNCHANGED <<menu, text, list, past>>, FlagsOK',
             Call("firmware") \/ Call("events") \/ UNCHANGED calls
      PROVE  Done
  <2>1. NewCalls(calls') \/ UNCHANGED calls
    BY <1>0, <1>1, CallKeeps
  <2> QED
    BY <1>0, <1>1, <2>1, Kept DEF MenuInv, list, past
<1>2. ASSUME loadConfig PROVE Done
  <2>1. FlagsOK'
    BY <1>2 DEF loadConfig, MenuInv, FlagsOK, stop
  <2> HIDE DEF Done
  <2> QED
    BY <1>1, <1>2, <2>1 DEF loadConfig
<1>3. ASSUME initEMU PROVE Done
  <2>1. UNCHANGED <<menu, text, outside>> /\ FlagsOK'
    BY <1>3 DEF initEMU, MenuInv, FlagsOK, stop
  <2>2. CASE Clear /\ UNCHANGED calls
    <3>1. GamesOK' /\ dropped' = TRUE
      BY <2>2, Cleared
    <3>2. InsideOK'
      BY <2>1, <3>1 DEF MenuInv, InsideOK, NoGameOutsideTheList
    <3> QED
      BY <2>1, <2>2, <3>1, <3>2, Kept DEF MenuInv
  <2>3. CASE Call("firmware") /\ UNCHANGED <<list, dropped>>
    <3> HIDE DEF Done
    <3> QED
      BY <1>1, <2>1, <2>3 DEF past
  <2> QED
    BY <1>3, <2>2, <2>3 DEF initEMU
<1>4. ASSUME SplashTimer PROVE Done
  <2>1. UNCHANGED <<menu, text, list, past, calls>> /\ FlagsOK'
    BY <1>4 DEF SplashTimer, MenuInv, FlagsOK
  <2> HIDE DEF Done
  <2> QED
    BY <1>1, <2>1
<1>5. ASSUME Splash PROVE Done
  <2>1. UNCHANGED <<menu, text, list, past>> /\ FlagsOK'
    BY <1>5 DEF Splash, MenuInv, FlagsOK, stop
  <2>2. Call("events") \/ UNCHANGED calls
    BY <1>5 DEF Splash
  <2> HIDE DEF Done
  <2> QED
    BY <1>1, <2>1, <2>2
<1>6. ASSUME Start PROVE Done
  <2>1. CASE gControllerConf
    <3>1. UNCHANGED <<menu, text, list, past, calls>> /\ FlagsOK'
      BY <1>6, <2>1 DEF Start, MenuInv, FlagsOK, splash
    <3> HIDE DEF Done
    <3> QED
      BY <1>1, <3>1
  <2>2. CASE ~gControllerConf
    <3>1. gTextInput \in BOOLEAN /\ stopSearching \in BOOLEAN
      BY DEF MenuInv, TextOK, FlagsOK
    <3>2. Accept(gTextInput, stopSearching) /\ UNCHANGED <<gGame, gGamesFound>>
      BY <1>6, <2>2 DEF Start, list
    <3>3. /\ MenuOK' /\ TextOK' /\ InsideOK' /\ UNCHANGED dropped
          /\ gQuit' \in BOOLEAN /\ stopSearching' \in BOOLEAN
          /\ NewCalls(calls') \/ UNCHANGED calls
      BY <3>1, <3>2, AcceptKeeps
    <3>4. FlagsOK'
      BY <1>6, <3>3 DEF Start, MenuInv, FlagsOK, splash
    <3>5. GamesOK'
      BY <3>2, Kept DEF MenuInv, list
    <3> QED
      BY <1>0, <3>2, <3>3, <3>4, <3>5 DEF MenuInv
  <2> QED
    BY <2>1, <2>2
<1>7. ASSUME MainLoop \/ mainLoopWii PROVE Done
  <2>1. UNCHANGED <<menu, text, list, past>> /\ FlagsOK'
    BY <1>7 DEF MainLoop, mainLoopWii, MenuInv, FlagsOK, stop
  <2>2. Call("events") \/ UNCHANGED calls
    BY <1>7 DEF MainLoop, mainLoopWii
  <2> HIDE DEF Done
  <2> QED
    BY <1>1, <2>1, <2>2
<1> HIDE DEF Done
<1>8. Done
  BY <1>2, <1>3, <1>4, <1>5, <1>6, <1>7 DEF main
<1> QED
  BY <1>8 DEF Done

-----------------------------------------------------------------------------
(* The theorems.                                                           *)

LEMMA InitInv == Init => Inv
<1> SUFFICES ASSUME Init PROVE Inv
  OBVIOUS
<1>0. 0 \in 0 .. MaxGames /\ gGame \in 0 .. MaxGames
  BY BoundsAssumption DEF Init
<1>1. FlagsOK /\ MenuOK
  BY <1>0, Zenon DEF Init, FlagsOK, MenuOK, States, SetupPages, SetupPagesAreOpen
<1>2. TextOK /\ GamesOK /\ InsideOK
  <2>1. gState \notin {"PLAY", "LAUNCH"}
    BY DEF Init
  <2> QED
    BY <1>0, <2>1, Zenon DEF Init, TextOK, TextInputHasAField, GamesOK, MenuOffersWhatThereIs,
         InsideOK, NoGameOutsideTheList
<1>3. CallsOK
  <2>1. <<>> \in Seq(Frames) /\ Len(<<>>) = 0
    OBVIOUS
  <2> QED
    BY <2>1, BoundsAssumption DEF Init, CallsOK
<1> QED
  BY <1>1, <1>2, <1>3 DEF Inv, MenuInv

LEMMA StepInv == Inv /\ [Next]_vars => Inv'
<1> SUFFICES ASSUME Inv, [Next]_vars PROVE Inv'
  OBVIOUS
<1>0. dropped \in BOOLEAN /\ gGame \in Nat /\ gGame >= gGame
  BY BoundsAssumption DEF Inv, MenuInv, InsideOK, GamesOK
<1>1. ASSUME MenuInv', NewCalls(calls') \/ UNCHANGED calls, dropped => dropped',
             dropped' \/ gGame' >= gGame
      PROVE  Inv'
  <2>1. gGame' \in Nat
    BY <1>1, BoundsAssumption DEF MenuInv, GamesOK
  <2>2. CallsOK'
    BY <1>0, <1>1, <2>1, CallsStep DEF Inv
  <2> QED
    BY <1>1, <2>2 DEF Inv
<1>2. CASE event_loop
  BY <1>0, <1>1, <1>2, EventLoopKeeps
<1>3. CASE search
  BY <1>1, <1>3, SearchKeeps, ListedKeeps DEF search
<1>4. CASE screens \/ EmulatorEnds
  BY <1>1, <1>4, ScreensKeep
<1>5. CASE main
  BY <1>1, <1>5, MainKeeps
<1>6. CASE UNCHANGED vars
  <2>1. UNCHANGED <<menu, text, list, past, gGame, calls, dropped>>
    BY <1>6 DEF vars, list, past
  <2>2. FlagsOK'
    BY <1>6 DEF vars, stop, Inv, MenuInv, FlagsOK
  <2> QED
    BY <1>0, <1>1, <2>1, <2>2, Kept DEF Inv, MenuInv
<1> QED
  BY <1>2, <1>3, <1>4, <1>5, <1>6 DEF Next

LEMMA AlwaysInv == Spec => []Inv
BY InitInv, StepInv, PTL DEF Spec

\* Every variable of the launcher keeps a value of its type: the menu's place in the list
\* is never below 0 nor beyond the bound (statemachine.cpp:300-420).
THEOREM LauncherTypeCorrect == Spec => []TypeOK
<1>1. Inv => TypeOK
  BY DEF Inv, MenuInv, FlagsOK, MenuOK, TextOK, GamesOK, InsideOK, CallsOK, TypeOK
<1> QED
  BY <1>1, AlwaysInv, PTL

\* However searches are nested and stopped, the menu offers games only when there are
\* some (marley.cpp:1009, statemachine.cpp:871, emu.cpp:1128).
THEOREM MenuCorrect == Spec => []MenuOffersWhatThereIs
<1>1. Inv => MenuOffersWhatThereIs
  BY DEF Inv, MenuInv, GamesOK
<1> QED
  BY <1>1, AlwaysInv, PTL

\* No key, and no controller that comes or goes, shows a page of the setup while the setup
\* does not run (gui.cpp:760).
THEOREM PagesCorrect == Spec => []SetupPagesAreOpen
<1>1. Inv => SetupPagesAreOpen
  BY DEF Inv, MenuInv, MenuOK
<1> QED
  BY <1>1, AlwaysInv, PTL

\* The keyboard is never left to a text input that no field has asked for, also when a
\* search that one field started is interrupted by the other (statemachine.cpp:880-940).
THEOREM TextInputCorrect == Spec => []TextInputHasAField
<1>1. Inv => TextInputHasAField
  BY DEF Inv, MenuInv, TextOK
<1> QED
  BY <1>1, AlwaysInv, PTL

\* Until a list of games is emptied, no picture, key or browser reads a game outside of it.
THEOREM GamesInside == Spec => []NoGameOutsideTheList
<1>1. Inv => NoGameOutsideTheList
  BY DEF Inv, MenuInv, InsideOK
<1> QED
  BY <1>1, AlwaysInv, PTL
=============================================================================
