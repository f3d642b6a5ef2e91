----------------------------- MODULE ScreenStack -----------------------------
(***************************************************************************)
(* The settings screens of Marley: one run of screen_manager_main, its     *)
(* loop of events, update and render, the stack of screens of the          *)
(* ScreenManager, the views each screen owns and the pointers that refer   *)
(* to them.                                                                *)
(*                                                                         *)
(* A view is known by the level of the screen that owns it; what the code  *)
(* keeps of a view is a pointer: Null, the level of the owner, or Freed    *)
(* once the owner has deleted its views.  Deleting views is the only thing *)
(* that makes a pointer Freed, and nothing tells the holder of the pointer.*)
(***************************************************************************)
EXTENDS Integers, FiniteSets, Sequences

CONSTANT MaxInputs         \* bound: inputs of one frame

ASSUME BoundAssumption == MaxInputs \in Nat

Null == 0
Freed == -1
LeadOut == 4                                          \* FRAMES_LEAD_OUT
NotFinishing == -1                                    \* finishFrame_ < 0

VARIABLES
  stack,            \* stack_: sequence of screens, the top one last
  focus,            \* focusedView
  movement,         \* focusMovementEnabled
  moves,            \* focusMoves is not empty: a dpad key was pressed
  lastFocusView,    \* pointers saved by push, the top of the std::stack last
  dialogFinished,   \* dialogFinished_: level of the dialog being finished, 0 for none
  queue,            \* g_dispatchQueue: clicks, each with the level of the view clicked
  current,          \* level of the screen whose update() is running
  gUpdateCurrentScreen, gUpdateMainScreen,
  quit,             \* SCREEN_g_QuitRequested
  phase,            \* what the loop does next
  inputs            \* inputs of this frame so far

shown  == <<stack, lastFocusView, dialogFinished>>
input  == <<movement, moves, queue>>
update == <<gUpdateCurrentScreen, gUpdateMainScreen>>
vars   == <<stack, focus, movement, moves, lastFocusView, dialogFinished, queue, current,
            gUpdateCurrentScreen, gUpdateMainScreen, quit, phase, inputs>>

Top == Len(stack)
Levels == 1 .. Top

\* owner: the view whose callback a popup calls; lead: frames since TriggerFinish.
Screen(kind, owner) ==
  [kind |-> kind, recreate |-> TRUE, finished |-> FALSE, lead |-> NotFinishing, owner |-> owner]

IsPopup(k) == stack[k].kind \in {"list", "off"}

-----------------------------------------------------------------------------
(* Views.                                                                  *)

\* A pointer after the views of level k were deleted.
Loses(pointer, k) == IF pointer = k THEN Freed ELSE pointer

\* A pointer after screen k was deleted and those above it moved down.
Drops(pointer, k) ==
  IF pointer = k THEN Freed ELSE IF pointer > k THEN pointer - 1 ELSE pointer

\* The clicks left, in their order, once those on the views of level k are erased.
NotFrom(clicks, k) ==
  LET kept == {i \in DOMAIN clicks : clicks[i].from # k}
      nth(n) == CHOOSE i \in kept : Cardinality({j \in kept : j <= i}) = n
  IN [n \in 1 .. Cardinality(kept) |-> clicks[nth(n)]]

\* DoRecreateViews of level k: the destructor of a focused view clears the focus, the
\* default view takes it, but the main screen without a controller has none.
DoRecreateViews(k) ==
  IF stack[k].recreate
  THEN /\ stack' = [i \in Levels |-> [stack[i] EXCEPT
                      !.recreate = IF i = k THEN FALSE ELSE @,
                      !.owner = Loses(@, k)]]
       /\ lastFocusView' = [i \in 1 .. Len(lastFocusView) |-> Loses(lastFocusView[i], k)]
       /\ queue' = NotFrom(queue, k)
       /\ \/ movement /\ focus' = k
          \/ /\ movement => stack[k].kind = "main"
             /\ focus' = IF focus = k THEN Null ELSE focus
  ELSE UNCHANGED <<stack, lastFocusView, queue, focus>>

RecreateViews(k) == [stack EXCEPT ![k].recreate = TRUE]

-----------------------------------------------------------------------------
(* The stack.                                                              *)

\* Mutants of Push: an empty focus is not saved; the new screen takes the focus first.
PushSavingItems(screen) ==
  /\ stack' = Append(stack, screen)
  /\ lastFocusView' = IF focus = Null THEN lastFocusView ELSE Append(lastFocusView, focus)
  /\ focus' = Null

PushSavingTooLate(screen) ==
  /\ stack' = Append(stack, screen)
  /\ lastFocusView' = Append(lastFocusView, Top + 1)
  /\ focus' = Null

\* push: the focus is saved and taken away.
Push(screen) ==
  /\ stack' = Append(stack, screen)
  /\ lastFocusView' = Append(lastFocusView, focus)
  /\ focus' = Null

\* finishDialog, for a dialog on top; onFinish of the screen runs first.
FinishDialog(k) ==
  /\ dialogFinished' = k
  /\ gUpdateMainScreen' = (stack[k].kind = "settings" \/ gUpdateMainScreen)
  /\ quit' = (stack[k].kind = "main" \/ quit)

NothingFinished == UNCHANGED <<dialogFinished, gUpdateMainScreen, quit>>

\* TriggerFinish: a popup leads out first, another dialog finishes now.
TriggerFinish(k, finished) ==
  IF IsPopup(k)
  THEN /\ stack' = [stack EXCEPT ![k].lead = 0, ![k].finished = finished]
       /\ NothingFinished
  ELSE /\ stack' = [stack EXCEPT ![k].finished = finished]
       /\ IF k = Top THEN FinishDialog(k) ELSE NothingFinished

-----------------------------------------------------------------------------
(* Events.                                                                 *)

\* screen_manager_main: a fresh manager with the main screen; the statics survive.
Init ==
  /\ stack = <<Screen("main", Null)>> /\ lastFocusView = <<Null>>
  /\ focus = Null /\ movement = FALSE /\ moves = FALSE
  /\ dialogFinished = 0 /\ queue = <<>> /\ current = 1
  /\ gUpdateCurrentScreen = FALSE /\ gUpdateMainScreen = FALSE
  /\ quit = FALSE /\ phase = "events" /\ inputs = 0

Kinds == {"main", "settings", "list", "off"}

\* The clicks a screen can be given.
Clicks(kind) ==
  CASE kind = "main"     -> {"settings", "off", "launch"}
    [] kind = "settings" -> {"choice", "toggle", "back"}
    [] kind = "list"     -> {"choose"}
    [] kind = "off"      -> {"yes", "back"}

AllClicks == UNION {Clicks(kind) : kind \in Kinds}

Input == phase = "events" /\ inputs < MaxInputs /\ inputs' = inputs + 1

\* The accept key comes up over the focused view of the top screen.
Click(what) ==
  /\ Input
  /\ focus = Top
  /\ what \in Clicks(stack[Top].kind)
  /\ queue' = Append(queue, [what |-> what, from |-> Top])
  /\ UNCHANGED <<shown, focus, movement, moves, current, update, quit, phase>>

\* A dpad key goes down.
Dpad ==
  /\ Input
  /\ moves' = TRUE
  /\ UNCHANGED <<shown, focus, movement, queue, current, update, quit, phase>>

\* Mutant of Escape: finished_ is not looked at.
EscapeAgain ==
  /\ Input /\ stack[Top].kind # "main"
  /\ TriggerFinish(Top, TRUE)
  /\ UNCHANGED <<focus, lastFocusView, input, current, gUpdateCurrentScreen, phase>>

\* ESC goes down: the main screen focuses its off button first (a pointer that is not
\* initialised before its first views), a dialog finishes unless ESC has finished it.
Escape ==
  /\ Input
  /\ \/ /\ stack[Top].kind = "main" /\ ~stack[Top].recreate
        /\ focus' = Top
        /\ UNCHANGED <<stack, dialogFinished, gUpdateMainScreen, quit>>
     \/ /\ stack[Top].kind = "main" /\ focus = Top
        /\ TriggerFinish(Top, stack[Top].finished)
        /\ UNCHANGED focus
     \/ /\ stack[Top].kind # "main" /\ ~stack[Top].finished
        /\ TriggerFinish(Top, TRUE)
        /\ UNCHANGED focus
  /\ UNCHANGED <<lastFocusView, input, current, gUpdateCurrentScreen, phase>>

\* A controller is added or removed.
Hotplug ==
  /\ Input
  /\ gUpdateCurrentScreen' = TRUE
  /\ UNCHANGED <<shown, focus, input, current, gUpdateMainScreen, quit, phase>>

\* SDL_QUIT.
CloseWindow ==
  /\ Input
  /\ quit' = TRUE
  /\ UNCHANGED <<shown, focus, input, current, update, phase>>

\* The queue of SDL is empty.
EventsDone ==
  /\ phase = "events"
  /\ phase' = "views"
  /\ current' = Top /\ inputs' = 0
  /\ UNCHANGED <<shown, focus, input, update, quit>>

-----------------------------------------------------------------------------
(* ScreenManager::update.                                                  *)

UpdateViews ==
  /\ phase = "views"
  /\ DoRecreateViews(current)
  /\ phase' = "move"
  /\ UNCHANGED <<movement, moves, dialogFinished, current, update, quit, inputs>>

\* UpdateViewHierarchy: the moves of the focus, before the clicks.
MoveFocus ==
  /\ phase = "move"
  /\ phase' = "dispatch"
  /\ moves' = FALSE /\ movement' = (moves \/ movement)
  /\ \/ moves /\ focus' = current
     \/ UNCHANGED focus /\ (moves => focus # Null)
  /\ UNCHANGED <<shown, queue, current, update, quit, inputs>>

\* settingsClick, offClick, offHold, HandleClick of a choice with a popup.
Open(click) ==
  /\ \/ click.what = "settings" /\ Push(Screen("settings", Null))
     \/ click.what = "off" /\ Push(Screen("off", Null))
     \/ click.what = "choice" /\ Push(Screen("list", click.from))
  /\ UNCHANGED <<dialogFinished, gUpdateMainScreen, quit>>

\* OnListChoice: the callback of the owner, whose handler may ask for new views,
\* gets the focus for it and the popup leads out.
Choose(click) ==
  /\ click.what = "choose"
  /\ LET owner == stack[click.from].owner
         leading == [stack EXCEPT ![click.from].lead = 0]
     IN /\ focus' \in {focus, owner}
        /\ stack' \in {leading} \cup
             (IF owner \in Levels THEN {[leading EXCEPT ![owner].recreate = TRUE]} ELSE {})
  /\ UNCHANGED lastFocusView /\ NothingFinished

\* The other clicks stay with the screen, or end the run.
Answer(click) ==
  /\ \/ /\ click.what = "toggle"
        /\ stack' = RecreateViews(click.from)
        /\ NothingFinished
     \/ /\ click.what = "back"
        /\ TriggerFinish(click.from, stack[click.from].finished)
     \/ /\ click.what \in {"launch", "yes"}
        /\ quit' = TRUE
        /\ UNCHANGED <<stack, dialogFinished, gUpdateMainScreen>>
  /\ UNCHANGED <<lastFocusView, focus>>

\* DispatchEvents, one click at a time, first in first out.
Dispatch ==
  /\ phase = "dispatch" /\ queue # <<>>
  /\ queue' = Tail(queue)
  /\ Open(Head(queue)) \/ Choose(Head(queue)) \/ Answer(Head(queue))
  /\ UNCHANGED <<movement, moves, current, gUpdateCurrentScreen, phase, inputs>>

\* The end of update() of the main screen and of the settings: they look at the flags.
UpdateScreen ==
  /\ phase = "dispatch" /\ queue = <<>> /\ ~IsPopup(current)
  /\ phase' = "below"
  /\ LET main == stack[current].kind = "main"
     IN /\ stack' = IF gUpdateCurrentScreen \/ (main /\ gUpdateMainScreen)
                    THEN RecreateViews(current) ELSE stack
        /\ gUpdateMainScreen' = (gUpdateMainScreen /\ ~main)
  /\ gUpdateCurrentScreen' = FALSE
  /\ UNCHANGED <<lastFocusView, focus, input, dialogFinished, current, quit, inputs>>

\* Mutant of UpdatePopup: one frame too many.
UpdatePopupLate ==
  /\ phase = "dispatch" /\ queue = <<>> /\ IsPopup(current)
  /\ phase' = "below"
  /\ IF stack[current].lead = NotFinishing THEN UNCHANGED stack /\ NothingFinished
     ELSE /\ stack' = [stack EXCEPT ![current].lead = @ + 1]
          /\ IF stack'[current].lead > LeadOut /\ current = Top
             THEN FinishDialog(current) ELSE NothingFinished
  /\ UNCHANGED <<lastFocusView, focus, input, current, gUpdateCurrentScreen, inputs>>

\* The end of update() of a popup: it counts the frames since it was told to finish.
UpdatePopup ==
  /\ phase = "dispatch" /\ queue = <<>> /\ IsPopup(current)
  /\ phase' = "below"
  /\ IF stack[current].lead = NotFinishing THEN UNCHANGED stack /\ NothingFinished
     ELSE /\ stack' = [stack EXCEPT ![current].lead = @ + 1]
          /\ IF stack'[current].lead >= LeadOut /\ current = Top
             THEN FinishDialog(current) ELSE NothingFinished
  /\ UNCHANGED <<lastFocusView, focus, input, current, gUpdateCurrentScreen, inputs>>

-----------------------------------------------------------------------------
(* ScreenManager::render.                                                  *)

\* The screen below a transparent one is rendered too.
RenderBelow ==
  /\ phase = "below"
  /\ phase' = "top"
  /\ IF Top > 1 /\ IsPopup(Top) THEN DoRecreateViews(Top - 1)
     ELSE UNCHANGED <<stack, lastFocusView, queue, focus>>
  /\ UNCHANGED <<movement, moves, dialogFinished, current, update, quit, inputs>>

RenderTop ==
  /\ phase = "top"
  /\ phase' = "finish"
  /\ DoRecreateViews(Top)
  /\ UNCHANGED <<movement, moves, dialogFinished, current, update, quit, inputs>>

\* The deletion of the finished dialog.
DeleteFinished ==
  IF dialogFinished = 0 THEN UNCHANGED <<shown, focus>>
  ELSE LET k == dialogFinished
           saved == [i \in 1 .. Len(lastFocusView) |-> Drops(lastFocusView[i], k)]
       IN /\ stack' = [i \in 1 .. Top - 1 |->
                         LET screen == stack[IF i < k THEN i ELSE i + 1]
                         IN [screen EXCEPT !.owner = Drops(@, k)]]
          /\ focus' = saved[Len(saved)]
          /\ lastFocusView' = SubSeq(saved, 1, Len(saved) - 1)
          /\ dialogFinished' = 0

\* Mutant of ProcessFinishDialog: the loop does not end while a dialog is open.
ProcessFinishDialogFirst ==
  /\ phase = "finish" /\ DeleteFinished
  /\ phase' = IF quit /\ Top <= 1 THEN "shutdown" ELSE "events"
  /\ UNCHANGED <<queue, movement, moves, current, update, quit, inputs>>

\* processFinishDialog: the dialog is deleted wherever it is on the stack, and the
\* pointer saved last gets the focus.  No click is waiting here.  Then the loop ends.
ProcessFinishDialog ==
  /\ phase = "finish" /\ DeleteFinished
  /\ phase' = IF quit THEN "shutdown" ELSE "events"
  /\ UNCHANGED <<queue, movement, moves, current, update, quit, inputs>>

\* shutdown deletes the screens; their views clear the focus they have.
Shutdown ==
  /\ phase = "shutdown"
  /\ phase' = "over"
  /\ stack' = <<>> /\ lastFocusView' = <<>> /\ queue' = <<>> /\ current' = 0
  /\ focus' = IF focus = Freed THEN Freed ELSE Null
  /\ UNCHANGED <<movement, moves, dialogFinished, update, quit, inputs>>

\* statemachine() starts the screens again after a game.
Restart ==
  /\ phase = "over"
  /\ phase' = "events"
  /\ stack' = <<Screen("main", Null)>> /\ lastFocusView' = <<focus>> /\ focus' = Null
  /\ current' = 1 /\ quit' = FALSE /\ dialogFinished' = 0
  /\ UNCHANGED <<input, update, inputs>>

-----------------------------------------------------------------------------

UserActs ==
  \/ \E what \in AllClicks : Click(what)
  \/ Dpad \/ Escape \/ Hotplug \/ CloseWindow

LoopStep ==
  \/ EventsDone \/ UpdateViews \/ MoveFocus \/ Dispatch \/ UpdateScreen
  \/ UpdatePopup \/ RenderBelow \/ RenderTop \/ ProcessFinishDialog \/ Shutdown

Next == UserActs \/ LoopStep \/ Restart

Spec == Init /\ [][Next]_vars
FairSpec == Spec /\ WF_vars(LoopStep)

-----------------------------------------------------------------------------
(* Properties.                                                             *)

Pointers == {Freed} \cup Nat

ScreenType == [kind : Kinds, recreate : BOOLEAN, finished : BOOLEAN,
               lead : NotFinishing .. LeadOut, owner : Pointers]

ClickType == [what : AllClicks, from : Nat \ {0}]

\* Every variable has a value of its type.
TypeOK ==
  /\ stack \in Seq(ScreenType) /\ lastFocusView \in Seq(Pointers) /\ focus \in Pointers
  /\ queue \in Seq(ClickType) /\ current \in Nat /\ dialogFinished \in Nat
  /\ {movement, moves, gUpdateCurrentScreen, gUpdateMainScreen, quit} \subseteq BOOLEAN
  /\ phase \in {"events", "views", "move", "dispatch", "below", "top", "finish",
                "shutdown", "over"}

\* push and processFinishDialog keep stack_ and lastFocusView in step: each screen has
\* the focus that was taken away for it, so top() and pop() never meet an empty stack,
\* whichever dialog is deleted and whatever was pushed meanwhile.
EveryScreenKeepsAFocus == Len(lastFocusView) = Len(stack)

\* The pointers only go down the stack: a dialog gives the focus back to a screen under
\* it, a popup calls back settings under it, and no click belongs to a screen that was
\* deleted, even when processFinishDialog takes a screen out from under others.
PointersGoDown ==
  /\ focus <= Top /\ dialogFinished <= Top
  /\ \A i \in DOMAIN lastFocusView : lastFocusView[i] < i
  /\ \A i \in DOMAIN queue : queue[i].from <= Top
  /\ \A k \in Levels : stack[k].kind = "list" =>
       \/ stack[k].owner = Freed
       \/ stack[k].owner \in 1 .. k - 1 /\ stack[stack[k].owner].kind = "settings"

\* A dialog the user left with ESC does not stay on top for ever, unless it is clicked
\* again and again: each click of a popup starts its frames of leading out anew.
EscapedDialogsLeave ==
  \/ []<>(queue # <<>>)
  \/ (stack # <<>> /\ stack[Top].finished) ~> ~(stack # <<>> /\ stack[Top].finished)

\* A loop that is to end ends: Marley leaves the screens for the game the user chose.
QuitIsCarriedOut == quit ~> phase = "over"

=============================================================================
