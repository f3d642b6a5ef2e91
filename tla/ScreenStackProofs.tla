-------------------------- MODULE ScreenStackProofs --------------------------
(***************************************************************************)
(* Theorems about ScreenStack, for any number of inputs in a frame and any *)
(* number of runs of the screens: the types, that push and                 *)
(* processFinishDialog keep the two stacks in step, and that the pointers  *)
(* only go down.                                                           *)
(***************************************************************************)
EXTENDS ScreenStack, FiniteSetTheorems, SequenceTheorems, TLAPS

-----------------------------------------------------------------------------
(* The inductive invariant.                                                *)

\* The screens have their types, and a popup calls back settings below it.
ScreensOK ==
  /\ stack \in Seq(ScreenType)
  /\ \A k \in 1 .. Len(stack) : stack[k].kind = "list" =>
       \/ stack[k].owner = Freed
       \/ stack[k].owner \in 1 .. k - 1 /\ stack[stack[k].owner].kind = "settings"

\* The pointers to focused views.
PointersOK ==
  /\ lastFocusView \in Seq(Pointers) /\ focus \in Pointers
  /\ Len(lastFocusView) = Len(stack) /\ focus <= Len(stack)
  /\ \A i \in 1 .. Len(lastFocusView) : lastFocusView[i] < i

\* While the loop runs, the main screen is the lowest one and there only.
MainOK ==
  phase \notin {"shutdown", "over"} =>
    Len(stack) >= 1 /\ \A k \in 1 .. Len(stack) : stack[k].kind = "main" <=> k = 1

\* The finished dialog is on the stack; if it is the main screen the loop ends.
FinishOK ==
  /\ dialogFinished \in 0 .. Len(stack)
  /\ dialogFinished = 1 => quit
  /\ phase \in {"shutdown", "over"} => dialogFinished = 0

\* A popup that has led out is finished in that frame.
LeadsOK ==
  \A k \in 1 .. Len(stack) : stack[k].lead = LeadOut =>
    phase \in {"below", "top", "finish"} /\ dialogFinished = k

\* The screen that is updated is on the stack; a popup stays on top meanwhile.
CurrentOK ==
  /\ current \in Nat
  /\ phase \in {"views", "move", "dispatch"} =>
       current \in 1 .. Len(stack) /\ (IsPopup(current) => current = Len(stack))

\* The clicks that wait were all given to the screen that is updated next.
ClicksOK ==
  /\ queue \in Seq(ClickType)
  /\ phase \in {"below", "top", "finish", "shutdown", "over"} => queue = <<>>
  /\ \A i \in 1 .. Len(queue) :
       /\ queue[i].from = IF phase = "events" THEN Len(stack) ELSE current
       /\ queue[i].what \in Clicks(stack[queue[i].from].kind)

LoopOK ==
  /\ movement \in BOOLEAN /\ moves \in BOOLEAN /\ quit \in BOOLEAN
  /\ gUpdateCurrentScreen \in BOOLEAN /\ gUpdateMainScreen \in BOOLEAN
  /\ phase \in {"events", "views", "move", "dispatch", "below", "top", "finish",
                "shutdown", "over"}
  /\ phase = "over" => stack = <<>>

StackInv ==
  ScreensOK /\ PointersOK /\ MainOK /\ FinishOK /\ LeadsOK /\ CurrentOK /\ ClicksOK /\ LoopOK

-----------------------------------------------------------------------------
(* Sequences.                                                              *)

LEMMA Rewritten ==
  ASSUME NEW S, NEW n \in Nat, NEW s \in [1 .. n -> S]
  PROVE  s \in Seq(S) /\ Len(s) = n /\ DOMAIN s = 1 .. n
OBVIOUS

LEMMA ScreenFacts ==
  ASSUME NEW s \in Seq(ScreenType)
  PROVE  /\ Len(s) \in Nat /\ DOMAIN s = 1 .. Len(s)
         /\ \A k \in 1 .. Len(s) :
              /\ s[k] \in ScreenType
              /\ s[k].kind \in Kinds /\ s[k].recreate \in BOOLEAN /\ s[k].finished \in BOOLEAN
              /\ s[k].lead \in -1 .. 4 /\ s[k].owner \in {-1} \cup Nat
<1>1. Len(s) \in Nat /\ DOMAIN s = 1 .. Len(s) /\ \A k \in 1 .. Len(s) : s[k] \in ScreenType
  BY LenProperties, ElementOfSeq
<1> QED
  BY <1>1 DEF ScreenType, NotFinishing, LeadOut, Pointers, Freed

LEMMA NoClickStays ==
  ASSUME NEW clicks \in Seq(ClickType), NEW k, \A i \in 1 .. Len(clicks) : clicks[i].from = k
  PROVE  NotFrom(clicks, k) = <<>>
<1> DEFINE kept == {i \in DOMAIN clicks : clicks[i].from # k}
<1> DEFINE nth(n) == CHOOSE i \in kept : Cardinality({j \in kept : j <= i}) = n
<1>1. NotFrom(clicks, k) = [n \in 1 .. Cardinality(kept) |-> clicks[nth(n)]]
  BY Zenon DEF NotFrom
<1>2. kept = {}
  BY LenProperties
<1> HIDE DEF nth, kept
<1>3. 1 .. Cardinality(kept) = {}
  BY <1>2, FS_EmptySet
<1> QED
  BY <1>1, <1>3

-----------------------------------------------------------------------------
(* What a step leaves of the invariant when it keeps the screens.          *)

\* Screens keep their kinds, and an owner may only be lost.
KeepsScreens ==
  /\ stack' \in Seq(ScreenType) /\ Len(stack') = Len(stack)
  /\ \A k \in 1 .. Len(stack) :
       stack'[k].kind = stack[k].kind /\ stack'[k].owner \in {stack[k].owner, Freed}

LEMMA ScreensStay ==
  ASSUME ScreensOK, KeepsScreens
  PROVE  ScreensOK'
<1> SUFFICES ASSUME NEW k \in 1 .. Len(stack), stack'[k].kind = "list"
             PROVE  \/ stack'[k].owner = Freed
                    \/ /\ stack'[k].owner \in 1 .. k - 1
                       /\ stack'[stack'[k].owner].kind = "settings"
  BY DEF ScreensOK, KeepsScreens
<1>1. stack[k].kind = "list" /\ stack'[k].owner \in {stack[k].owner, Freed}
  BY DEF KeepsScreens
<1>2. CASE stack'[k].owner = Freed
  BY <1>2
<1>3. CASE stack'[k].owner # Freed
  <2>1. /\ stack'[k].owner = stack[k].owner
        /\ stack[k].owner \in 1 .. k - 1 /\ stack[stack[k].owner].kind = "settings"
    BY <1>1, <1>3 DEF ScreensOK
  <2>2. stack[k].owner \in 1 .. Len(stack)
    BY <2>1, ScreenFacts DEF ScreensOK
  <2> QED
    BY <2>1, <2>2 DEF KeepsScreens
<1> QED
  BY <1>2, <1>3

LEMMA MainStays ==
  ASSUME ScreensOK, MainOK, KeepsScreens, phase \notin {"shutdown", "over"}
  PROVE  MainOK'
BY DEF MainOK, KeepsScreens, ScreensOK

LEMMA SameScreens ==
  ASSUME ScreensOK, stack' = stack
  PROVE  KeepsScreens
BY DEF ScreensOK, KeepsScreens

LEMMA PointersStay ==
  ASSUME PointersOK, Len(stack') = Len(stack), lastFocusView' = lastFocusView,
         focus' \in Pointers, focus' <= Len(stack)
  PROVE  PointersOK'
BY DEF PointersOK

LEMMA ClicksStay ==
  ASSUME ScreensOK, ClicksOK, KeepsScreens, queue' = queue, phase' = phase, current' = current,
         CurrentOK, MainOK, LoopOK
  PROVE  ClicksOK'
<1>1. ASSUME NEW i \in 1 .. Len(queue)
      PROVE  stack'[queue[i].from].kind = stack[queue[i].from].kind
  <2>1. phase \in {"events", "views", "move", "dispatch"}
    BY <1>1 DEF ClicksOK, LoopOK
  <2> QED
    BY <1>1, <2>1, ScreenFacts DEF ClicksOK, KeepsScreens, CurrentOK, MainOK, ScreensOK
<1> QED
  BY <1>1 DEF ClicksOK, KeepsScreens

LEMMA CurrentStays ==
  ASSUME CurrentOK, KeepsScreens, current' = current, phase' = phase
  PROVE  CurrentOK'
BY DEF CurrentOK, KeepsScreens, IsPopup

\* One screen is given other flags.
LEMMA Flagged ==
  ASSUME ScreensOK, NEW k \in 1 .. Len(stack), NEW screen \in ScreenType,
         screen.kind = stack[k].kind, screen.owner \in {stack[k].owner, Freed},
         stack' = [stack EXCEPT ![k] = screen]
  PROVE  /\ KeepsScreens
         /\ stack'[k] = screen /\ \A i \in 1 .. Len(stack) : i # k => stack'[i] = stack[i]
BY ScreenFacts, ExceptSeq DEF ScreensOK, KeepsScreens

\* DoRecreateViews
LEMMA Recreated ==
  ASSUME ScreensOK, PointersOK, MainOK, NEW k \in 1 .. Len(stack), DoRecreateViews(k),
         queue \in Seq(ClickType), \A i \in 1 .. Len(queue) : queue[i].from = k
  PROVE  /\ KeepsScreens /\ PointersOK' /\ queue' \in {queue, <<>>}
         /\ \A i \in 1 .. Len(stack) : stack'[i].lead = stack[i].lead
<1>0. /\ stack \in Seq(ScreenType) /\ Len(stack) \in Nat
      /\ \A i \in 1 .. Len(stack) : stack[i] \in ScreenType
  BY ScreenFacts DEF ScreensOK
<1>1. CASE stack[k].recreate
  <2> DEFINE Fresh(i) == [stack[i] EXCEPT !.recreate = IF i = k THEN FALSE ELSE @,
                                          !.owner = Loses(@, k)]
  <2>1. stack' = [i \in 1 .. Len(stack) |-> Fresh(i)]
    BY <1>1 DEF DoRecreateViews, Levels, Top
  <2>2. \A i \in 1 .. Len(stack) :
          /\ Fresh(i) \in ScreenType /\ Fresh(i).kind = stack[i].kind
          /\ Fresh(i).lead = stack[i].lead /\ Fresh(i).owner \in {stack[i].owner, Freed}
    BY <1>0 DEF ScreenType, Loses, Pointers
  <2> HIDE DEF Fresh
  <2>3. stack' \in [1 .. Len(stack) -> ScreenType]
    BY <2>1, <2>2
  <2>4. stack' \in Seq(ScreenType) /\ Len(stack') = Len(stack)
    BY <1>0, <2>3, Rewritten
  <2>5. KeepsScreens /\ \A i \in 1 .. Len(stack) : stack'[i].lead = stack[i].lead
    BY <2>1, <2>2, <2>4 DEF KeepsScreens
  <2>6. queue' = <<>>
    BY <1>1, NoClickStays DEF DoRecreateViews
  <2>7. focus' \in {k, 0, focus}
    BY <1>1 DEF DoRecreateViews, Null
  <2>8. lastFocusView' = [i \in 1 .. Len(lastFocusView) |-> Loses(lastFocusView[i], k)]
    BY <1>1 DEF DoRecreateViews
  <2>9. /\ Len(lastFocusView) = Len(stack)
        /\ \A i \in 1 .. Len(lastFocusView) :
             lastFocusView[i] \in Pointers /\ lastFocusView[i] < i
    BY ElementOfSeq DEF PointersOK
  <2>10. \A i \in 1 .. Len(lastFocusView) :
           Loses(lastFocusView[i], k) \in Pointers /\ Loses(lastFocusView[i], k) < i
    BY <1>0, <2>9 DEF Loses, Pointers, Freed
  <2>11. lastFocusView' \in [1 .. Len(stack) -> Pointers]
    BY <2>8, <2>9, <2>10
  <2>12. lastFocusView' \in Seq(Pointers) /\ Len(lastFocusView') = Len(stack)
    BY <1>0, <2>11, Rewritten
  <2>13. focus' \in Pointers /\ focus' <= Len(stack)
    BY <1>0, <2>7 DEF PointersOK, Pointers
  <2>14. PointersOK'
    BY <2>4, <2>13, <2>8, <2>9, <2>10, <2>12 DEF PointersOK
  <2> QED
    BY <2>5, <2>6, <2>14
<1>2. CASE ~stack[k].recreate
  <2>1. UNCHANGED <<stack, lastFocusView, queue, focus>>
    BY <1>2 DEF DoRecreateViews
  <2> QED
    BY <2>1, SameScreens DEF PointersOK
<1> QED
  BY <1>1, <1>2

\* No popup has led out before the end of update().
LEMMA LeadsStay ==
  ASSUME LeadsOK, phase \in {"events", "views", "move", "dispatch"},
         Len(stack') = Len(stack),
         \A i \in 1 .. Len(stack) : stack'[i].lead \in {stack[i].lead, 0, -1}
  PROVE  LeadsOK'
BY DEF LeadsOK, LeadOut

\* TriggerFinish
LEMMA Triggered ==
  ASSUME StackInv, phase \in {"events", "dispatch"}, NEW k \in 1 .. Len(stack),
         NEW finished \in BOOLEAN, TriggerFinish(k, finished)
  PROVE  /\ KeepsScreens
         /\ \A i \in 1 .. Len(stack) : stack'[i].lead \in {stack[i].lead, 0}
         /\ dialogFinished' \in 0 .. Len(stack) /\ (dialogFinished' = 1 => quit')
         /\ gUpdateMainScreen' \in BOOLEAN /\ quit' \in BOOLEAN
<1>0. /\ stack \in Seq(ScreenType) /\ Len(stack) \in Nat
      /\ \A i \in 1 .. Len(stack) : stack[i] \in ScreenType
      /\ ScreensOK
  BY ScreenFacts DEF StackInv, ScreensOK
<1>1. ASSUME NothingFinished
      PROVE  /\ dialogFinished' \in 0 .. Len(stack) /\ (dialogFinished' = 1 => quit')
             /\ gUpdateMainScreen' \in BOOLEAN /\ quit' \in BOOLEAN
  BY <1>1 DEF NothingFinished, StackInv, FinishOK, LoopOK
<1>2. ASSUME FinishDialog(k)
      PROVE  /\ dialogFinished' \in 0 .. Len(stack) /\ (dialogFinished' = 1 => quit')
             /\ gUpdateMainScreen' \in BOOLEAN /\ quit' \in BOOLEAN
  <2>1. dialogFinished' = k
    BY <1>2 DEF FinishDialog
  <2>2. gUpdateMainScreen' \in BOOLEAN /\ quit' \in BOOLEAN
    BY <1>2, Zenon DEF FinishDialog
  <2>3. stack[1].kind = "main"
    BY DEF StackInv, MainOK
  <2>4. k = 1 => quit'
    BY <1>2, <2>3 DEF FinishDialog
  <2> QED
    BY <1>0, <2>1, <2>2, <2>4
<1>3. CASE IsPopup(k)
  <2> DEFINE leading == [stack[k] EXCEPT !.lead = 0, !.finished = finished]
  <2>1. /\ leading \in ScreenType /\ leading.kind = stack[k].kind
        /\ leading.owner = stack[k].owner /\ leading.lead = 0
    <3>1. 0 \in NotFinishing .. LeadOut
      BY DEF NotFinishing, LeadOut
    <3> QED
      BY <1>0, <3>1 DEF ScreenType
  <2>2. stack' = [stack EXCEPT ![k] = leading] /\ NothingFinished
    BY <1>3 DEF TriggerFinish
  <2> HIDE DEF leading
  <2>3. /\ KeepsScreens
        /\ stack'[k] = leading /\ \A i \in 1 .. Len(stack) : i # k => stack'[i] = stack[i]
    BY <1>0, <2>1, <2>2, Flagged
  <2> QED
    BY <1>1, <2>1, <2>2, <2>3
<1>4. CASE ~IsPopup(k)
  <2> DEFINE told == [stack[k] EXCEPT !.finished = finished]
  <2>1. /\ told \in ScreenType /\ told.kind = stack[k].kind
        /\ told.owner = stack[k].owner /\ told.lead = stack[k].lead
    BY <1>0 DEF ScreenType
  <2>2. stack' = [stack EXCEPT ![k] = told] /\ (NothingFinished \/ FinishDialog(k))
    BY <1>4 DEF TriggerFinish
  <2> HIDE DEF told
  <2>3. /\ KeepsScreens
        /\ stack'[k] = told /\ \A i \in 1 .. Len(stack) : i # k => stack'[i] = stack[i]
    BY <1>0, <2>1, <2>2, Flagged
  <2> QED
    BY <1>1, <1>2, <2>1, <2>2, <2>3
<1> QED
  BY <1>3, <1>4

-----------------------------------------------------------------------------
(* One lemma per action.                                                   *)

LEMMA InitInv == Init => StackInv
<1> SUFFICES ASSUME Init
             PROVE  StackInv
  OBVIOUS
<1> DEFINE main == Screen("main", Null)
<1>1. /\ main \in ScreenType /\ main.kind = "main" /\ main.lead = -1
  BY DEF Screen, ScreenType, Kinds, NotFinishing, LeadOut, Null, Pointers
<1> HIDE DEF main
<1>2. stack = <<main>> /\ lastFocusView = <<0>> /\ focus = 0
  BY DEF Init, main, Null
<1>3. /\ stack \in Seq(ScreenType) /\ Len(stack) = 1 /\ stack[1] = main
  BY <1>1, <1>2
<1>4. ScreensOK /\ LeadsOK
  BY <1>1, <1>3 DEF ScreensOK, LeadsOK, LeadOut
<1>5. lastFocusView \in Seq(Pointers) /\ Len(lastFocusView) = 1 /\ lastFocusView[1] = 0
  BY <1>2 DEF Pointers
<1>6. PointersOK
  BY <1>2, <1>3, <1>5 DEF PointersOK, Pointers
<1>7. MainOK /\ FinishOK
  BY <1>1, <1>3 DEF Init, MainOK, FinishOK
<1>8. CurrentOK /\ LoopOK
  BY DEF Init, CurrentOK, LoopOK
<1>9. queue = <<>> /\ Len(queue) = 0 /\ queue \in Seq(ClickType)
  BY DEF Init
<1>10. ClicksOK
  BY <1>9 DEF ClicksOK
<1> QED
  BY <1>4, <1>6, <1>7, <1>8, <1>10 DEF StackInv

\* Steps that leave the screens, the pointers, the clicks and the phase alone.
LEMMA Untouched ==
  ASSUME StackInv, UNCHANGED <<stack, lastFocusView, dialogFinished, focus, queue, current, phase>>,
         quit => quit', LoopOK'
  PROVE  StackInv'
<1>1. ScreensOK' /\ PointersOK' /\ MainOK' /\ LeadsOK'
  BY DEF StackInv, ScreensOK, PointersOK, MainOK, LeadsOK
<1>2. FinishOK'
  BY DEF StackInv, FinishOK
<1>3. CurrentOK' /\ ClicksOK'
  BY DEF StackInv, CurrentOK, ClicksOK, IsPopup
<1> QED
  BY <1>1, <1>2, <1>3 DEF StackInv

LEMMA ClickKeeps ==
  ASSUME StackInv, NEW what, Click(what)
  PROVE  StackInv'
<1> DEFINE click == [what |-> what, from |-> Len(stack)]
<1>1. /\ phase = "events" /\ what \in Clicks(stack[Len(stack)].kind)
      /\ queue' = Append(queue, click)
      /\ UNCHANGED <<stack, lastFocusView, dialogFinished, focus, movement, moves, current,
                     gUpdateCurrentScreen, gUpdateMainScreen, quit, phase>>
  BY DEF Click, Input, Top, shown, update
<1>2. Len(stack) \in Nat /\ Len(stack) >= 1 /\ stack[Len(stack)].kind \in Kinds
  BY <1>1, ScreenFacts DEF StackInv, ScreensOK, MainOK
<1>3. click \in ClickType
  BY <1>1, <1>2 DEF ClickType, AllClicks
<1>4. click.from = Len(stack) /\ click.what = what
  OBVIOUS
<1> HIDE DEF click
<1>5. ClicksOK'
  <2>1. /\ queue' \in Seq(ClickType) /\ Len(queue') = Len(queue) + 1 /\ Len(queue) \in Nat
        /\ queue'[Len(queue) + 1] = click
        /\ \A i \in 1 .. Len(queue) : queue'[i] = queue[i]
    BY <1>1, <1>3, AppendProperties, LenProperties DEF StackInv, ClicksOK
  <2> QED
    BY <1>1, <1>4, <2>1 DEF StackInv, ClicksOK
<1>6. ScreensOK' /\ PointersOK' /\ MainOK' /\ FinishOK' /\ LeadsOK' /\ CurrentOK' /\ LoopOK'
  BY <1>1 DEF StackInv, ScreensOK, PointersOK, MainOK, FinishOK, LeadsOK, CurrentOK, LoopOK,
              IsPopup
<1> QED
  BY <1>5, <1>6 DEF StackInv

LEMMA DpadKeeps ==
  ASSUME StackInv, Dpad
  PROVE  StackInv'
<1>1. LoopOK'
  BY DEF StackInv, LoopOK, Dpad, shown, update
<1> QED
  BY <1>1, Untouched DEF Dpad, shown, update

LEMMA HotplugKeeps ==
  ASSUME StackInv, Hotplug
  PROVE  StackInv'
<1>1. LoopOK'
  BY DEF StackInv, LoopOK, Hotplug, shown, input
<1> QED
  BY <1>1, Untouched DEF Hotplug, shown, input

LEMMA CloseWindowKeeps ==
  ASSUME StackInv, CloseWindow
  PROVE  StackInv'
<1>1. LoopOK'
  BY DEF StackInv, LoopOK, CloseWindow, shown, input, update
<1> QED
  BY <1>1, Untouched DEF CloseWindow, shown, input

\* Steps of the loop that change flags of the screens, not the clicks or the pointers.
LEMMA OnlyFlags ==
  ASSUME StackInv, phase \in {"events", "dispatch"}, KeepsScreens,
         \A i \in 1 .. Len(stack) : stack'[i].lead \in {stack[i].lead, 0},
         dialogFinished' \in 0 .. Len(stack), dialogFinished' = 1 => quit',
         UNCHANGED <<lastFocusView, phase, current>>,
         focus' \in Pointers, focus' <= Len(stack), LoopOK'
  PROVE  /\ ScreensOK' /\ PointersOK' /\ MainOK' /\ FinishOK' /\ LeadsOK' /\ CurrentOK'
         /\ queue' = queue => StackInv'
<1>1. Len(stack') = Len(stack)
  BY DEF KeepsScreens
<1>2. ScreensOK' /\ MainOK' /\ CurrentOK'
  BY ScreensStay, MainStays, CurrentStays DEF StackInv
<1>3. PointersOK' /\ LeadsOK'
  BY <1>1, PointersStay, LeadsStay DEF StackInv
<1>4. FinishOK'
  BY <1>1 DEF FinishOK
<1>5. queue' = queue => ClicksOK'
  BY ClicksStay DEF StackInv
<1> QED
  BY <1>2, <1>3, <1>4, <1>5 DEF StackInv

LEMMA EscapeKeeps ==
  ASSUME StackInv, Escape
  PROVE  StackInv'
<1>0. /\ phase = "events" /\ UNCHANGED <<lastFocusView, movement, moves, queue, current,
                                         gUpdateCurrentScreen, phase>>
  BY DEF Escape, Input, input
<1>1. ScreensOK /\ Len(stack) \in Nat /\ Len(stack) \in 1 .. Len(stack)
      /\ stack[Len(stack)].finished \in BOOLEAN
      /\ focus \in Pointers /\ focus <= Len(stack) /\ Len(stack) \in Pointers
  BY <1>0, ScreenFacts DEF StackInv, ScreensOK, MainOK, PointersOK, Pointers
<1>2. CASE UNCHANGED <<stack, dialogFinished, gUpdateMainScreen, quit>> /\ focus' = Top
  <2>1. LoopOK'
    BY <1>0, <1>2 DEF StackInv, LoopOK
  <2>2. KeepsScreens
    BY <1>1, <1>2, SameScreens
  <2>3. dialogFinished' \in 0 .. Len(stack) /\ (dialogFinished' = 1 => quit')
    BY <1>2 DEF StackInv, FinishOK
  <2> QED
    BY <1>0, <1>1, <1>2, <2>1, <2>2, <2>3, OnlyFlags DEF Top
<1>3. ASSUME NEW finished \in BOOLEAN, TriggerFinish(Len(stack), finished), UNCHANGED focus
      PROVE  StackInv'
  <2>1. /\ KeepsScreens
        /\ \A i \in 1 .. Len(stack) : stack'[i].lead \in {stack[i].lead, 0}
        /\ dialogFinished' \in 0 .. Len(stack) /\ (dialogFinished' = 1 => quit')
        /\ gUpdateMainScreen' \in BOOLEAN /\ quit' \in BOOLEAN
    BY <1>0, <1>1, <1>3, Triggered
  <2>2. LoopOK'
    BY <1>0, <2>1 DEF StackInv, LoopOK
  <2> QED
    BY <1>0, <1>1, <1>3, <2>1, <2>2, OnlyFlags
<1>4. \/ UNCHANGED <<stack, dialogFinished, gUpdateMainScreen, quit>> /\ focus' = Top
      \/ TriggerFinish(Top, stack[Top].finished) /\ UNCHANGED focus
      \/ TriggerFinish(Top, TRUE) /\ UNCHANGED focus
  BY DEF Escape
<1>5. TriggerFinish(Top, stack[Top].finished) /\ UNCHANGED focus => StackInv'
  BY <1>1, <1>3 DEF Top
<1>6. TriggerFinish(Top, TRUE) /\ UNCHANGED focus => StackInv'
  BY <1>3 DEF Top
<1> QED
  BY <1>2, <1>4, <1>5, <1>6

LEMMA EventsDoneKeeps ==
  ASSUME StackInv, EventsDone
  PROVE  StackInv'
<1>0. /\ phase = "events" /\ phase' = "views" /\ current' = Len(stack)
      /\ UNCHANGED <<stack, lastFocusView, dialogFinished, focus, movement, moves, queue,
                     gUpdateCurrentScreen, gUpdateMainScreen, quit>>
  BY DEF EventsDone, shown, input, update, Top
<1>1. ScreensOK' /\ PointersOK' /\ MainOK' /\ LoopOK'
  BY <1>0 DEF StackInv, ScreensOK, PointersOK, MainOK, LoopOK
<1>2. FinishOK' /\ LeadsOK'
  BY <1>0 DEF StackInv, FinishOK, LeadsOK
<1>3. CurrentOK'
  <2>1. Len(stack) \in Nat /\ Len(stack) \in 1 .. Len(stack)
    BY <1>0, ScreenFacts DEF StackInv, ScreensOK, MainOK
  <2> QED
    BY <1>0, <2>1 DEF CurrentOK
<1>4. ClicksOK'
  BY <1>0 DEF StackInv, ClicksOK
<1> QED
  BY <1>1, <1>2, <1>3, <1>4 DEF StackInv

LEMMA UpdateViewsKeeps ==
  ASSUME StackInv, UpdateViews
  PROVE  StackInv'
<1>0. /\ phase = "views" /\ phase' = "move" /\ DoRecreateViews(current)
      /\ UNCHANGED <<movement, moves, dialogFinished, current, gUpdateCurrentScreen,
                     gUpdateMainScreen, quit>>
  BY DEF UpdateViews, update
<1>1. /\ current \in 1 .. Len(stack) /\ queue \in Seq(ClickType)
      /\ \A i \in 1 .. Len(queue) : queue[i].from = current
  BY <1>0 DEF StackInv, CurrentOK, ClicksOK
<1>2. /\ KeepsScreens /\ PointersOK' /\ queue' \in {queue, <<>>}
      /\ \A i \in 1 .. Len(stack) : stack'[i].lead = stack[i].lead
  BY <1>0, <1>1, Recreated DEF StackInv
<1>3. ScreensOK' /\ MainOK'
  BY <1>0, <1>2, ScreensStay, MainStays DEF StackInv
<1>4. FinishOK' /\ LeadsOK' /\ CurrentOK'
  BY <1>0, <1>2 DEF StackInv, FinishOK, LeadsOK, CurrentOK, KeepsScreens, IsPopup
<1>5. LoopOK'
  BY <1>0 DEF StackInv, LoopOK
<1>6. ClicksOK'
  <2>1. CASE queue' = queue
    BY <1>0, <1>1, <1>2, <2>1 DEF StackInv, ClicksOK, KeepsScreens
  <2>2. CASE queue' = <<>>
    BY <2>2 DEF ClicksOK
  <2> QED
    BY <1>2, <2>1, <2>2
<1> QED
  BY <1>2, <1>3, <1>4, <1>5, <1>6 DEF StackInv

LEMMA MoveFocusKeeps ==
  ASSUME StackInv, MoveFocus
  PROVE  StackInv'
<1>0. /\ phase = "move" /\ phase' = "dispatch" /\ moves' = FALSE
      /\ focus' \in {current, focus}
      /\ UNCHANGED <<stack, lastFocusView, dialogFinished, queue, current,
                     gUpdateCurrentScreen, gUpdateMainScreen, quit>>
  BY DEF MoveFocus, update, shown
<1>1. movement' \in BOOLEAN
  BY Zenon DEF MoveFocus
<1>2. ScreensOK' /\ MainOK' /\ LoopOK'
  BY <1>0, <1>1 DEF StackInv, ScreensOK, MainOK, LoopOK
<1>3. PointersOK'
  <2>1. focus' \in Pointers /\ focus' <= Len(stack)
    BY <1>0, ScreenFacts DEF StackInv, PointersOK, CurrentOK, Pointers, ScreensOK
  <2> QED
    BY <1>0, <2>1 DEF StackInv, PointersOK
<1>4. FinishOK' /\ LeadsOK' /\ CurrentOK' /\ ClicksOK'
  BY <1>0 DEF StackInv, FinishOK, LeadsOK, CurrentOK, ClicksOK, IsPopup
<1> QED
  BY <1>2, <1>3, <1>4 DEF StackInv

\* push, of a screen that is not a main screen, from the screen that is updated.
LEMMA Pushed ==
  ASSUME StackInv, phase = "dispatch", current \in 1 .. Len(stack), ~IsPopup(current),
         NEW kind \in {"settings", "list", "off"}, NEW owner \in Pointers,
         kind = "list" =>
           owner \in 1 .. Len(stack) /\ stack[owner].kind = "settings",
         Push(Screen(kind, owner)),
         UNCHANGED <<dialogFinished, quit, current, phase>>
  PROVE  /\ ScreensOK' /\ PointersOK' /\ MainOK' /\ FinishOK' /\ LeadsOK' /\ CurrentOK'
         /\ \A k \in 1 .. Len(stack) : stack'[k] = stack[k]
<1> DEFINE screen == Screen(kind, owner)
<1>1. /\ screen \in ScreenType /\ screen.kind = kind /\ screen.owner = owner /\ screen.lead = -1
  <2>1. -1 \in NotFinishing .. LeadOut
    BY DEF NotFinishing, LeadOut
  <2> QED
    BY <2>1 DEF Screen, ScreenType, Kinds, NotFinishing
<1>2. /\ stack' = Append(stack, screen) /\ lastFocusView' = Append(lastFocusView, focus)
      /\ focus' = 0
  BY DEF Push, Null
<1> HIDE DEF screen
<1>3. /\ stack \in Seq(ScreenType) /\ Len(stack) \in Nat
      /\ lastFocusView \in Seq(Pointers) /\ Len(lastFocusView) = Len(stack)
      /\ focus \in Pointers /\ focus <= Len(stack)
  BY LenProperties DEF StackInv, ScreensOK, PointersOK
<1>4. /\ stack' \in Seq(ScreenType) /\ Len(stack') = Len(stack) + 1
      /\ stack'[Len(stack) + 1] = screen
      /\ \A k \in 1 .. Len(stack) : stack'[k] = stack[k]
  BY <1>1, <1>2, <1>3, AppendProperties
<1>5. /\ lastFocusView' \in Seq(Pointers) /\ Len(lastFocusView') = Len(stack) + 1
      /\ lastFocusView'[Len(stack) + 1] = focus
      /\ \A k \in 1 .. Len(stack) : lastFocusView'[k] = lastFocusView[k]
  BY <1>2, <1>3, AppendProperties
<1>6. ScreensOK'
  <2> SUFFICES ASSUME NEW k \in 1 .. Len(stack) + 1, stack'[k].kind = "list"
               PROVE  \/ stack'[k].owner = Freed
                      \/ /\ stack'[k].owner \in 1 .. k - 1
                         /\ stack'[stack'[k].owner].kind = "settings"
    BY <1>4 DEF ScreensOK
  <2>1. CASE k \in 1 .. Len(stack)
    BY <1>3, <1>4, <2>1 DEF StackInv, ScreensOK
  <2>2. CASE k = Len(stack) + 1
    BY <1>1, <1>3, <1>4, <2>2
  <2> QED
    BY <1>3, <2>1, <2>2
<1>7. PointersOK'
  <2>1. \A i \in 1 .. Len(stack) : lastFocusView[i] < i
    BY <1>3 DEF StackInv, PointersOK
  <2>2. focus' \in Pointers /\ focus' <= Len(stack) + 1
    BY <1>2, <1>3 DEF Pointers
  <2>3. \A i \in 1 .. Len(stack) + 1 : lastFocusView'[i] < i
    BY <1>3, <1>5, <2>1 DEF Pointers, Freed
  <2> QED
    BY <1>4, <1>5, <2>2, <2>3 DEF PointersOK
<1>8. MainOK'
  BY <1>1, <1>3, <1>4 DEF StackInv, MainOK
<1>9. FinishOK' /\ LeadsOK'
  BY <1>1, <1>3, <1>4 DEF StackInv, FinishOK, LeadsOK, LeadOut
<1>10. CurrentOK'
  BY <1>3, <1>4 DEF StackInv, CurrentOK, IsPopup
<1> QED
  BY <1>4, <1>6, <1>7, <1>8, <1>9, <1>10

\* settingsClick, offClick, offHold, a choice with a popup
LEMMA OpenKeeps ==
  ASSUME StackInv, phase = "dispatch", queue # <<>>, Open(Head(queue)),
         UNCHANGED <<current, phase>>
  PROVE  /\ ScreensOK' /\ PointersOK' /\ MainOK' /\ FinishOK' /\ LeadsOK' /\ CurrentOK'
         /\ \A k \in 1 .. Len(stack) : stack'[k].kind = stack[k].kind
         /\ UNCHANGED <<gUpdateMainScreen, quit>>
<1> DEFINE click == Head(queue)
<1>1. /\ click = queue[1] /\ 1 \in 1 .. Len(queue)
  BY HeadTailProperties, LenProperties, EmptySeq DEF StackInv, ClicksOK
<1>2. /\ current \in 1 .. Len(stack) /\ click.from = current
      /\ click.what \in Clicks(stack[current].kind)
  BY <1>1 DEF StackInv, ClicksOK, CurrentOK
<1>3. /\ UNCHANGED <<dialogFinished, gUpdateMainScreen, quit>>
      /\ \/ click.what = "settings" /\ Push(Screen("settings", Null))
         \/ click.what = "off" /\ Push(Screen("off", Null))
         \/ click.what = "choice" /\ Push(Screen("list", click.from))
  BY DEF Open
<1> HIDE DEF click
<1>4. /\ click.what \in {"settings", "off", "choice"} => ~IsPopup(current)
      /\ click.what = "choice" => stack[current].kind = "settings"
  BY <1>2, ScreenFacts DEF Clicks, IsPopup, StackInv, ScreensOK, Kinds
<1>5. current \in Pointers /\ Null \in Pointers
  BY <1>2 DEF Pointers, Null
<1>6. CASE click.what = "settings" /\ Push(Screen("settings", Null))
  BY <1>2, <1>3, <1>4, <1>5, <1>6, Pushed
<1>7. CASE click.what = "off" /\ Push(Screen("off", Null))
  BY <1>2, <1>3, <1>4, <1>5, <1>7, Pushed
<1>8. CASE click.what = "choice" /\ Push(Screen("list", click.from))
  BY <1>2, <1>3, <1>4, <1>5, <1>8, Pushed
<1> QED
  BY <1>3, <1>6, <1>7, <1>8

\* Screens k and o are given other flags.
LEMMA Answered ==
  ASSUME StackInv, phase = "dispatch", KeepsScreens,
         \A i \in 1 .. Len(stack) : stack'[i].lead \in {stack[i].lead, 0},
         dialogFinished' \in 0 .. Len(stack), dialogFinished' = 1 => quit',
         UNCHANGED <<lastFocusView, phase, current, movement, moves, gUpdateCurrentScreen>>,
         focus' \in Pointers, focus' <= Len(stack),
         gUpdateMainScreen' \in BOOLEAN, quit' \in BOOLEAN
  PROVE  /\ ScreensOK' /\ PointersOK' /\ MainOK' /\ FinishOK' /\ LeadsOK' /\ CurrentOK'
         /\ \A k \in 1 .. Len(stack) : stack'[k].kind = stack[k].kind
<1>1. LoopOK'
  BY DEF StackInv, LoopOK
<1>2. ScreensOK' /\ PointersOK' /\ MainOK' /\ FinishOK' /\ LeadsOK' /\ CurrentOK'
  BY <1>1, OnlyFlags
<1> QED
  BY <1>2 DEF KeepsScreens

\* A screen whose views are to be made anew.
LEMMA Renewed ==
  ASSUME ScreensOK, NEW k \in 1 .. Len(stack),
         stack' = [stack EXCEPT ![k].recreate = TRUE]
  PROVE  /\ KeepsScreens
         /\ \A i \in 1 .. Len(stack) : stack'[i].lead = stack[i].lead
<1>1. stack \in Seq(ScreenType) /\ stack[k] \in ScreenType
  BY ScreenFacts DEF ScreensOK
<1> DEFINE renewed == [stack[k] EXCEPT !.recreate = TRUE]
<1>2. /\ renewed \in ScreenType /\ renewed.kind = stack[k].kind
      /\ renewed.owner = stack[k].owner /\ renewed.lead = stack[k].lead
  BY <1>1 DEF ScreenType
<1>3. stack' = [stack EXCEPT ![k] = renewed]
  OBVIOUS
<1> HIDE DEF renewed
<1>4. /\ KeepsScreens /\ stack'[k] = renewed
      /\ \A i \in 1 .. Len(stack) : i # k => stack'[i] = stack[i]
  BY <1>2, <1>3, Flagged
<1> QED
  BY <1>2, <1>4

\* OnListChoice
LEMMA ChooseKeeps ==
  ASSUME StackInv, phase = "dispatch", queue # <<>>, Choose(Head(queue)),
         UNCHANGED <<current, phase, movement, moves, gUpdateCurrentScreen>>
  PROVE  /\ ScreensOK' /\ PointersOK' /\ MainOK' /\ FinishOK' /\ LeadsOK' /\ CurrentOK'
         /\ \A k \in 1 .. Len(stack) : stack'[k].kind = stack[k].kind
         /\ gUpdateMainScreen' \in BOOLEAN /\ quit' \in BOOLEAN
<1> DEFINE click == Head(queue)
<1>1. /\ click = queue[1] /\ 1 \in 1 .. Len(queue)
  BY HeadTailProperties, LenProperties, EmptySeq DEF StackInv, ClicksOK
<1>2. /\ current \in 1 .. Len(stack) /\ click.from = current
      /\ click.what \in Clicks(stack[current].kind)
  BY <1>1 DEF StackInv, ClicksOK, CurrentOK
<1> DEFINE owner == stack[current].owner
<1> DEFINE led == [stack[current] EXCEPT !.lead = 0]
<1> DEFINE leading == [stack EXCEPT ![current] = led]
<1>3. /\ click.what = "choose" /\ focus' \in {focus, owner}
      /\ stack' \in {leading} \cup
           (IF owner \in Levels THEN {[leading EXCEPT ![owner].recreate = TRUE]} ELSE {})
      /\ UNCHANGED <<lastFocusView, dialogFinished, gUpdateMainScreen, quit>>
  BY <1>2 DEF Choose, NothingFinished
<1>4. /\ stack \in Seq(ScreenType) /\ Len(stack) \in Nat
      /\ \A i \in 1 .. Len(stack) : stack[i] \in ScreenType
      /\ ScreensOK
  BY ScreenFacts DEF StackInv, ScreensOK
<1> HIDE DEF click
<1>5. stack[current].kind = "list"
  BY <1>2, <1>3, <1>4, ScreenFacts DEF Clicks, Kinds
<1>6. owner \in Pointers /\ owner <= Len(stack) /\ owner # current
  BY <1>2, <1>4, <1>5 DEF ScreensOK, Pointers, Freed
<1>7. /\ led \in ScreenType /\ led.kind = stack[current].kind
      /\ led.owner = stack[current].owner /\ led.lead = 0
  <2>1. 0 \in NotFinishing .. LeadOut
    BY DEF NotFinishing, LeadOut
  <2> QED
    BY <1>2, <1>4, <2>1 DEF ScreenType
<1> HIDE DEF led
<1>8. /\ leading \in Seq(ScreenType) /\ Len(leading) = Len(stack) /\ leading[current] = led
      /\ \A i \in 1 .. Len(stack) : i # current => leading[i] = stack[i]
  BY <1>2, <1>4, <1>7, ExceptSeq
<1> HIDE DEF leading, owner
<1>9. /\ KeepsScreens
      /\ \A i \in 1 .. Len(stack) : stack'[i].lead \in {stack[i].lead, 0}
  <2>1. CASE stack' = leading
    BY <1>7, <1>8, <2>1 DEF KeepsScreens
  <2>2. CASE owner \in 1 .. Len(stack) /\ stack' = [leading EXCEPT ![owner].recreate = TRUE]
    <3> DEFINE renewed == [leading[owner] EXCEPT !.recreate = TRUE]
    <3>1. leading[owner] = stack[owner] /\ leading[owner] \in ScreenType
      BY <1>4, <1>6, <1>8, <2>2
    <3>2. /\ renewed \in ScreenType /\ renewed.kind = stack[owner].kind
          /\ renewed.owner = stack[owner].owner /\ renewed.lead = stack[owner].lead
      BY <3>1 DEF ScreenType
    <3>3. stack' = [leading EXCEPT ![owner] = renewed]
      BY <2>2
    <3> HIDE DEF renewed
    <3>4. /\ stack' \in Seq(ScreenType) /\ Len(stack') = Len(stack) /\ stack'[owner] = renewed
          /\ \A i \in 1 .. Len(stack) : i # owner => stack'[i] = leading[i]
      <4>1. DOMAIN leading = 1 .. Len(stack)
        BY <1>8, LenProperties
      <4>2. owner \in 1 .. Len(leading)
        BY <1>8, <2>2
      <4>3. /\ [leading EXCEPT ![owner] = renewed] \in Seq(ScreenType)
            /\ Len([leading EXCEPT ![owner] = renewed]) = Len(leading)
        BY <1>8, <3>2, <4>2, ExceptSeq
      <4> QED
        BY <1>8, <2>2, <3>3, <4>1, <4>3
    <3> QED
      BY <1>7, <1>8, <3>2, <3>4 DEF KeepsScreens
  <2> QED
    BY <1>3, <2>1, <2>2 DEF Levels, Top
<1>10. focus' \in Pointers /\ focus' <= Len(stack)
  BY <1>3, <1>6 DEF StackInv, PointersOK
<1>11. /\ dialogFinished' \in 0 .. Len(stack) /\ (dialogFinished' = 1 => quit')
       /\ gUpdateMainScreen' \in BOOLEAN /\ quit' \in BOOLEAN
  BY <1>3 DEF StackInv, FinishOK, LoopOK
<1> QED
  BY <1>3, <1>9, <1>10, <1>11, Answered

LEMMA AnswerKeeps ==
  ASSUME StackInv, phase = "dispatch", queue # <<>>, Answer(Head(queue)),
         UNCHANGED <<current, phase, movement, moves, gUpdateCurrentScreen>>
  PROVE  /\ ScreensOK' /\ PointersOK' /\ MainOK' /\ FinishOK' /\ LeadsOK' /\ CurrentOK'
         /\ \A k \in 1 .. Len(stack) : stack'[k].kind = stack[k].kind
         /\ gUpdateMainScreen' \in BOOLEAN /\ quit' \in BOOLEAN
<1> DEFINE click == Head(queue)
<1>1. /\ click = queue[1] /\ 1 \in 1 .. Len(queue)
  BY HeadTailProperties, LenProperties, EmptySeq DEF StackInv, ClicksOK
<1>2. /\ current \in 1 .. Len(stack) /\ click.from = current
  BY <1>1 DEF StackInv, ClicksOK, CurrentOK
<1>3. /\ UNCHANGED <<lastFocusView, focus>>
      /\ \/ stack' = RecreateViews(current) /\ NothingFinished
         \/ TriggerFinish(current, stack[current].finished)
         \/ quit' = TRUE /\ UNCHANGED <<stack, dialogFinished, gUpdateMainScreen>>
  BY <1>2 DEF Answer
<1> HIDE DEF click
<1>4. ScreensOK /\ stack[current].finished \in BOOLEAN
      /\ focus \in Pointers /\ focus <= Len(stack)
  BY <1>2, ScreenFacts DEF StackInv, ScreensOK, PointersOK
<1>5. /\ dialogFinished \in 0 .. Len(stack) /\ (dialogFinished = 1 => quit)
      /\ gUpdateMainScreen \in BOOLEAN /\ quit \in BOOLEAN
  BY DEF StackInv, FinishOK, LoopOK
<1>6. /\ KeepsScreens
      /\ \A i \in 1 .. Len(stack) : stack'[i].lead \in {stack[i].lead, 0}
      /\ dialogFinished' \in 0 .. Len(stack) /\ (dialogFinished' = 1 => quit')
      /\ gUpdateMainScreen' \in BOOLEAN /\ quit' \in BOOLEAN
  <2>1. CASE stack' = RecreateViews(current) /\ NothingFinished
    <3>1. /\ KeepsScreens
          /\ \A i \in 1 .. Len(stack) : stack'[i].lead = stack[i].lead
      BY <1>2, <1>4, <2>1, Renewed DEF RecreateViews
    <3> QED
      BY <1>5, <2>1, <3>1 DEF NothingFinished
  <2>2. CASE TriggerFinish(current, stack[current].finished)
    BY <1>2, <1>4, <2>2, Triggered
  <2>3. CASE quit' = TRUE /\ UNCHANGED <<stack, dialogFinished, gUpdateMainScreen>>
    BY <1>4, <1>5, <2>3, SameScreens
  <2> QED
    BY <1>3, <2>1, <2>2, <2>3
<1> QED
  BY <1>3, <1>4, <1>6, Answered

LEMMA DispatchKeeps ==
  ASSUME StackInv, Dispatch
  PROVE  StackInv'
<1>1. /\ phase = "dispatch" /\ queue # <<>> /\ queue' = Tail(queue)
      /\ Open(Head(queue)) \/ Choose(Head(queue)) \/ Answer(Head(queue))
      /\ UNCHANGED <<movement, moves, current, gUpdateCurrentScreen, phase>>
  BY DEF Dispatch
<1>2. /\ ScreensOK' /\ PointersOK' /\ MainOK' /\ FinishOK' /\ LeadsOK' /\ CurrentOK'
      /\ \A k \in 1 .. Len(stack) : stack'[k].kind = stack[k].kind
      /\ gUpdateMainScreen' \in BOOLEAN /\ quit' \in BOOLEAN
  <2>1. CASE Open(Head(queue))
    <3>1. gUpdateMainScreen \in BOOLEAN /\ quit \in BOOLEAN
      BY DEF StackInv, LoopOK
    <3> QED
      BY <1>1, <2>1, <3>1, OpenKeeps
  <2>2. CASE Choose(Head(queue))
    BY <1>1, <2>2, ChooseKeeps
  <2>3. CASE Answer(Head(queue))
    BY <1>1, <2>3, AnswerKeeps
  <2> QED
    BY <1>1, <2>1, <2>2, <2>3
<1>3. LoopOK'
  BY <1>1, <1>2 DEF StackInv, LoopOK
<1>4. ClicksOK'
  <2>1. /\ queue' \in Seq(ClickType) /\ Len(queue') = Len(queue) - 1 /\ Len(queue) \in Nat
        /\ \A i \in 1 .. Len(queue') : queue'[i] = queue[i + 1]
    BY <1>1, HeadTailProperties, LenProperties, EmptySeq DEF StackInv, ClicksOK
  <2>2. ASSUME NEW i \in 1 .. Len(queue')
        PROVE  queue'[i].from = current /\ queue'[i].what \in Clicks(stack'[current].kind)
    <3>1. i + 1 \in 1 .. Len(queue) /\ current \in 1 .. Len(stack)
      BY <1>1, <2>1, <2>2 DEF StackInv, CurrentOK
    <3> QED
      BY <1>1, <1>2, <2>1, <2>2, <3>1 DEF StackInv, ClicksOK
  <2> QED
    BY <1>1, <2>1, <2>2 DEF ClicksOK
<1> QED
  BY <1>2, <1>3, <1>4 DEF StackInv

LEMMA UpdateScreenKeeps ==
  ASSUME StackInv, UpdateScreen
  PROVE  StackInv'
<1>1. /\ phase = "dispatch" /\ phase' = "below" /\ queue = <<>>
      /\ stack' \in {RecreateViews(current), stack}
      /\ gUpdateCurrentScreen' = FALSE
      /\ UNCHANGED <<lastFocusView, focus, movement, moves, queue, dialogFinished, current, quit>>
  BY DEF UpdateScreen, input
<1>2. gUpdateMainScreen' \in BOOLEAN
  BY Zenon DEF UpdateScreen
<1>3. ScreensOK /\ current \in 1 .. Len(stack)
  BY <1>1 DEF StackInv, CurrentOK
<1>4. KeepsScreens /\ \A i \in 1 .. Len(stack) : stack'[i].lead = stack[i].lead
  BY <1>1, <1>3, Renewed, SameScreens DEF RecreateViews
<1>5. ScreensOK' /\ MainOK'
  BY <1>1, <1>4, ScreensStay, MainStays DEF StackInv
<1>6. PointersOK'
  BY <1>1, <1>4 DEF StackInv, PointersOK, KeepsScreens
<1>7. FinishOK' /\ LeadsOK' /\ CurrentOK' /\ ClicksOK'
  BY <1>1, <1>4 DEF StackInv, FinishOK, LeadsOK, CurrentOK, ClicksOK, KeepsScreens
<1>8. LoopOK'
  BY <1>1, <1>2 DEF StackInv, LoopOK
<1> QED
  BY <1>5, <1>6, <1>7, <1>8 DEF StackInv

LEMMA UpdatePopupKeeps ==
  ASSUME StackInv, UpdatePopup
  PROVE  StackInv'
<1>1. /\ phase = "dispatch" /\ phase' = "below" /\ queue = <<>> /\ IsPopup(current)
      /\ UNCHANGED <<lastFocusView, focus, movement, moves, queue, current, gUpdateCurrentScreen>>
  BY DEF UpdatePopup, input
<1>2. /\ current \in 1 .. Len(stack) /\ current = Len(stack) /\ Len(stack) \in Nat
      /\ ScreensOK /\ stack[current] \in ScreenType /\ stack[current].lead \in -1 .. 3
      /\ \A i \in 1 .. Len(stack) : stack[i].lead # 4
      /\ stack[current].kind \in {"list", "off"} /\ current # 1
  <2>1. current \in 1 .. Len(stack) /\ current = Len(stack) /\ Len(stack) \in Nat /\ ScreensOK
    BY <1>1, ScreenFacts DEF StackInv, CurrentOK, ScreensOK
  <2>2. \A i \in 1 .. Len(stack) : stack[i].lead # 4
    BY <1>1 DEF StackInv, LeadsOK, LeadOut
  <2>3. stack[current] \in ScreenType /\ stack[current].lead \in -1 .. 4
    BY <2>1, ScreenFacts DEF ScreensOK
  <2>4. stack[current].kind \in {"list", "off"} /\ current # 1
    BY <1>1, <2>1 DEF IsPopup, StackInv, MainOK
  <2> QED
    BY <2>1, <2>2, <2>3, <2>4
<1>3. CASE stack[current].lead = NotFinishing
  <2>1. UNCHANGED <<stack, dialogFinished, gUpdateMainScreen, quit>>
    BY <1>3 DEF UpdatePopup, NothingFinished
  <2>2. ScreensOK' /\ PointersOK' /\ FinishOK' /\ CurrentOK' /\ ClicksOK'
    BY <1>1, <2>1 DEF StackInv, ScreensOK, PointersOK, FinishOK, CurrentOK, ClicksOK
  <2>3. MainOK' /\ LeadsOK' /\ LoopOK'
    BY <1>1, <1>2, <2>1 DEF StackInv, MainOK, LeadsOK, LoopOK, LeadOut
  <2> QED
    BY <2>2, <2>3 DEF StackInv
<1>4. CASE stack[current].lead # NotFinishing
  <2> DEFINE later == [stack[current] EXCEPT !.lead = stack[current].lead + 1]
  <2>1. /\ later \in ScreenType /\ later.kind = stack[current].kind
        /\ later.owner = stack[current].owner /\ later.lead = stack[current].lead + 1
    <3>1. stack[current].lead + 1 \in NotFinishing .. LeadOut
      BY <1>2 DEF NotFinishing, LeadOut
    <3> QED
      BY <1>2, <3>1 DEF ScreenType
  <2>2. stack' = [stack EXCEPT ![current] = later]
    BY <1>4 DEF UpdatePopup
  <2>3. IF stack'[current].lead >= LeadOut /\ current = Top
        THEN FinishDialog(current) ELSE NothingFinished
    BY <1>4 DEF UpdatePopup
  <2> HIDE DEF later
  <2>4. /\ KeepsScreens /\ stack'[current] = later
        /\ \A i \in 1 .. Len(stack) : i # current => stack'[i] = stack[i]
    BY <1>2, <2>1, <2>2, Flagged
  <2>5. Len(stack') = Len(stack)
    BY <2>4 DEF KeepsScreens
  <2>6. ScreensOK' /\ MainOK'
    BY <1>1, <2>4, ScreensStay, MainStays DEF StackInv
  <2>7. PointersOK' /\ CurrentOK' /\ ClicksOK'
    BY <1>1, <2>5 DEF StackInv, PointersOK, CurrentOK, ClicksOK
  <2>8. /\ stack'[current].lead = 4 => dialogFinished' = current
        /\ dialogFinished' \in {current, dialogFinished}
        /\ dialogFinished' = dialogFinished => quit' = quit \/ dialogFinished = current
        /\ gUpdateMainScreen' \in BOOLEAN /\ quit' \in BOOLEAN
    <3>1. CASE stack'[current].lead >= LeadOut
      <4>1. FinishDialog(current)
        BY <1>2, <2>3, <3>1 DEF Top
      <4>2. gUpdateMainScreen' \in BOOLEAN /\ quit' \in BOOLEAN
        BY <4>1, Zenon DEF FinishDialog
      <4>3. dialogFinished' = current
        BY <4>1 DEF FinishDialog
      <4> QED
        BY <4>2, <4>3
    <3>2. CASE ~(stack'[current].lead >= LeadOut)
      <4>1. NothingFinished
        BY <2>3, <3>2
      <4> QED
        BY <1>2, <2>1, <2>4, <3>2, <4>1 DEF NothingFinished, StackInv, LoopOK, LeadOut
    <3> QED
      BY <3>1, <3>2
  <2>9. FinishOK'
    BY <1>1, <1>2, <2>5, <2>8 DEF StackInv, FinishOK
  <2>10. LeadsOK'
    BY <1>1, <1>2, <2>4, <2>5, <2>8 DEF LeadsOK, LeadOut
  <2>11. LoopOK'
    BY <1>1, <2>8 DEF StackInv, LoopOK
  <2> QED
    BY <2>6, <2>7, <2>9, <2>10, <2>11 DEF StackInv
<1> QED
  BY <1>3, <1>4

\* DoRecreateViews in render: no click waits.
LEMMA RenderKeeps ==
  ASSUME StackInv, phase \in {"below", "top"}, phase' \in {"top", "finish"},
         NEW k \in 1 .. Len(stack), DoRecreateViews(k),
         UNCHANGED <<movement, moves, dialogFinished, current, gUpdateCurrentScreen,
                     gUpdateMainScreen, quit>>
  PROVE  StackInv'
<1>1. queue = <<>> /\ queue \in Seq(ClickType) /\ \A i \in 1 .. Len(queue) : queue[i].from = k
  BY DEF StackInv, ClicksOK
<1>2. /\ KeepsScreens /\ PointersOK' /\ queue' \in {queue, <<>>}
      /\ \A i \in 1 .. Len(stack) : stack'[i].lead = stack[i].lead
  BY <1>1, Recreated DEF StackInv
<1>3. ScreensOK' /\ MainOK'
  BY <1>2, ScreensStay, MainStays DEF StackInv
<1>4. queue' = <<>>
  BY <1>1, <1>2
<1>5. FinishOK' /\ LeadsOK' /\ CurrentOK' /\ ClicksOK'
  BY <1>2, <1>4 DEF StackInv, FinishOK, LeadsOK, CurrentOK, ClicksOK, KeepsScreens
<1>6. LoopOK'
  BY DEF StackInv, LoopOK
<1> QED
  BY <1>2, <1>3, <1>5, <1>6 DEF StackInv

LEMMA RenderBelowKeeps ==
  ASSUME StackInv, RenderBelow
  PROVE  StackInv'
<1>1. /\ phase = "below" /\ phase' = "top"
      /\ UNCHANGED <<movement, moves, dialogFinished, current, gUpdateCurrentScreen,
                     gUpdateMainScreen, quit>>
  BY DEF RenderBelow, update
<1>2. Len(stack) \in Nat
  BY LenProperties DEF StackInv, ScreensOK
<1>3. CASE Len(stack) > 1 /\ DoRecreateViews(Len(stack) - 1)
  <2>1. Len(stack) - 1 \in 1 .. Len(stack)
    BY <1>2, <1>3
  <2> QED
    BY <1>1, <1>3, <2>1, RenderKeeps
<1>4. CASE UNCHANGED <<stack, lastFocusView, queue, focus>>
  <2>1. ScreensOK' /\ PointersOK' /\ MainOK' /\ FinishOK' /\ LeadsOK'
    BY <1>1, <1>4 DEF StackInv, ScreensOK, PointersOK, MainOK, FinishOK, LeadsOK
  <2>2. CurrentOK' /\ ClicksOK' /\ LoopOK'
    BY <1>1, <1>4 DEF StackInv, CurrentOK, ClicksOK, LoopOK
  <2> QED
    BY <2>1, <2>2 DEF StackInv
<1> QED
  BY <1>3, <1>4 DEF RenderBelow, Top

LEMMA RenderTopKeeps ==
  ASSUME StackInv, RenderTop
  PROVE  StackInv'
<1>1. /\ phase = "top" /\ phase' = "finish" /\ DoRecreateViews(Len(stack))
      /\ UNCHANGED <<movement, moves, dialogFinished, current, gUpdateCurrentScreen,
                     gUpdateMainScreen, quit>>
  BY DEF RenderTop, update, Top
<1>2. Len(stack) \in Nat /\ Len(stack) \in 1 .. Len(stack)
  BY <1>1, LenProperties DEF StackInv, ScreensOK, MainOK
<1> QED
  BY <1>1, <1>2, RenderKeeps

\* Where the screens, and the pointers to them, go when screen k is deleted.
LEMMA Dropped ==
  ASSUME NEW k \in Nat \ {0}, NEW pointer \in Pointers
  PROVE  /\ Drops(pointer, k) \in Pointers /\ Drops(pointer, k) <= pointer
         /\ pointer < k => Drops(pointer, k) = pointer
         /\ pointer > k => Drops(pointer, k) = pointer - 1
         /\ pointer = k => Drops(pointer, k) = -1
BY DEF Drops, Pointers, Freed

\* processFinishDialog
LEMMA DialogDeleted ==
  ASSUME StackInv, phase = "finish", DeleteFinished, dialogFinished # 0
  PROVE  /\ ScreensOK' /\ PointersOK' /\ dialogFinished' = 0 /\ Len(stack') = Len(stack) - 1
         /\ \A i \in 1 .. Len(stack') :
              /\ stack'[i].kind = stack[IF i < dialogFinished THEN i ELSE i + 1].kind
              /\ stack'[i].lead = stack[IF i < dialogFinished THEN i ELSE i + 1].lead
<1> DEFINE k == dialogFinished
<1> DEFINE n == Len(stack)
<1> DEFINE old(i) == IF i < k THEN i ELSE i + 1
<1> DEFINE kept(i) == [stack[old(i)] EXCEPT !.owner = Drops(stack[old(i)].owner, k)]
<1> DEFINE saved == [i \in 1 .. Len(lastFocusView) |-> Drops(lastFocusView[i], k)]
<1>1. /\ stack' = [i \in 1 .. n - 1 |-> kept(i)]
      /\ focus' = saved[Len(saved)]
      /\ lastFocusView' = SubSeq(saved, 1, Len(saved) - 1)
      /\ dialogFinished' = 0
  BY DEF DeleteFinished, Top
<1>2. k \in 1 .. n /\ n \in Nat /\ k \in Nat \ {0}
  BY LenProperties DEF StackInv, FinishOK, ScreensOK
<1>3. /\ \A i \in 1 .. n : stack[i] \in ScreenType /\ stack[i].owner \in Pointers
      /\ \A i \in 1 .. n : stack[i].kind = "list" =>
           \/ stack[i].owner = -1
           \/ stack[i].owner \in 1 .. i - 1 /\ stack[stack[i].owner].kind = "settings"
  BY ScreenFacts DEF StackInv, ScreensOK, Freed, Pointers
<1>4. /\ Len(lastFocusView) = n
      /\ \A i \in 1 .. n : lastFocusView[i] \in Pointers /\ lastFocusView[i] < i
  BY ElementOfSeq DEF StackInv, PointersOK
<1>5. \A i \in 1 .. n - 1 : old(i) \in 1 .. n
  BY <1>2
<1> HIDE DEF k, n
<1>6. \A i \in 1 .. n - 1 :
        /\ kept(i) \in ScreenType /\ kept(i).kind = stack[old(i)].kind
        /\ kept(i).lead = stack[old(i)].lead
        /\ kept(i).owner = Drops(stack[old(i)].owner, k)
  <2> SUFFICES ASSUME NEW i \in 1 .. n - 1
               PROVE  /\ kept(i) \in ScreenType /\ kept(i).kind = stack[old(i)].kind
                      /\ kept(i).lead = stack[old(i)].lead
                      /\ kept(i).owner = Drops(stack[old(i)].owner, k)
    OBVIOUS
  <2>1. stack[old(i)] \in ScreenType /\ stack[old(i)].owner \in Pointers
    BY <1>3, <1>5
  <2>2. Drops(stack[old(i)].owner, k) \in Pointers
    BY <1>2, <2>1, Dropped
  <2> HIDE DEF old
  <2> QED
    BY <2>1, <2>2 DEF ScreenType
<1> HIDE DEF kept
<1>7. n - 1 \in Nat /\ stack' \in [1 .. n - 1 -> ScreenType]
  BY <1>1, <1>2, <1>6
<1>8. stack' \in Seq(ScreenType) /\ Len(stack') = n - 1
  BY <1>7, Rewritten
<1>9. ASSUME NEW i \in 1 .. n - 1, stack'[i].kind = "list"
      PROVE  \/ stack'[i].owner = Freed
             \/ /\ stack'[i].owner \in 1 .. i - 1
                /\ stack'[stack'[i].owner].kind = "settings"
  <2> DEFINE owner == stack[old(i)].owner
  <2>1. /\ stack'[i].owner = Drops(owner, k) /\ stack[old(i)].kind = "list"
        /\ owner \in Pointers /\ old(i) \in 1 .. n
    BY <1>1, <1>3, <1>5, <1>6, <1>9
  <2>2. owner = -1 \/ (owner \in 1 .. old(i) - 1 /\ stack[owner].kind = "settings")
    BY <1>3, <2>1
  <2> HIDE DEF owner
  <2>3. CASE owner = -1 \/ owner = k
    <3>1. -1 < k
      BY <1>2
    <3>2. Drops(owner, k) = -1
      BY <1>2, <2>1, <2>3, <3>1, Dropped
    <3> QED
      BY <2>1, <3>2 DEF Freed
  <2>4. CASE owner \in 1 .. old(i) - 1 /\ stack[owner].kind = "settings" /\ owner < k
    <3>1. stack'[i].owner = owner
      BY <1>2, <2>1, <2>4, Dropped
    <3>2. old(owner) = owner
      BY <2>4
    <3>3. owner \in 1 .. i - 1
      BY <1>2, <2>4
    <3>4. owner \in 1 .. n - 1
      BY <1>2, <3>3
    <3> HIDE DEF old
    <3>5. stack'[owner].kind = stack[owner].kind
      BY <1>1, <1>6, <3>2, <3>4
    <3> QED
      BY <2>4, <3>1, <3>3, <3>5
  <2>5. CASE owner \in 1 .. old(i) - 1 /\ stack[owner].kind = "settings" /\ owner > k
    <3>1. stack'[i].owner = owner - 1
      BY <1>2, <2>1, <2>5, Dropped
    <3>2. old(owner - 1) = owner
      BY <1>2, <2>5
    <3>3. owner - 1 \in 1 .. i - 1
      BY <1>2, <2>5
    <3>4. owner - 1 \in 1 .. n - 1
      BY <1>2, <3>3
    <3> HIDE DEF old
    <3>5. stack'[owner - 1].kind = stack[owner].kind
      BY <1>1, <1>6, <3>2, <3>4
    <3> QED
      BY <2>5, <3>1, <3>3, <3>5
  <2>6. owner \in Nat => owner < k \/ owner = k \/ owner > k
    BY <1>2
  <2>7. old(i) \in Nat
    BY <1>2
  <2> HIDE DEF old
  <2>8. owner \in 1 .. old(i) - 1 => owner \in Nat
    BY <2>7
  <2> QED
    BY <2>2, <2>3, <2>4, <2>5, <2>6, <2>8
<1>10. ScreensOK'
  BY <1>8, <1>9 DEF ScreensOK
<1>11. \A i \in 1 .. n : saved[i] \in Pointers /\ saved[i] < i
  BY <1>2, <1>4, Dropped DEF Pointers, Freed
<1>12. saved \in Seq(Pointers) /\ Len(saved) = n
  <2>1. saved \in [1 .. n -> Pointers]
    BY <1>4, <1>11
  <2> QED
    BY <1>2, <2>1, Rewritten
<1> HIDE DEF saved
<1>13. focus' \in Pointers /\ focus' <= n - 1
  BY <1>1, <1>2, <1>11, <1>12 DEF Pointers, Freed
<1>14. /\ lastFocusView' \in Seq(Pointers) /\ Len(lastFocusView') = n - 1
       /\ \A i \in 1 .. n - 1 : lastFocusView'[i] = saved[i]
  BY <1>1, <1>2, <1>12, SubSeqProperties
<1>15. PointersOK'
  BY <1>2, <1>8, <1>11, <1>13, <1>14 DEF PointersOK
<1>16. \A i \in 1 .. n - 1 :
         stack'[i].kind = stack[old(i)].kind /\ stack'[i].lead = stack[old(i)].lead
  BY <1>1, <1>6
<1> QED
  BY <1>1, <1>8, <1>10, <1>15, <1>16 DEF k, n

LEMMA ProcessFinishDialogKeeps ==
  ASSUME StackInv, ProcessFinishDialog
  PROVE  StackInv'
<1>1. /\ phase = "finish" /\ DeleteFinished
      /\ phase' = (IF quit THEN "shutdown" ELSE "events")
      /\ UNCHANGED <<queue, movement, moves, current, gUpdateCurrentScreen,
                     gUpdateMainScreen, quit>>
  BY DEF ProcessFinishDialog, update
<1>2. queue = <<>> /\ Len(stack) \in Nat
  BY <1>1, LenProperties DEF StackInv, ClicksOK, ScreensOK
<1>3. CurrentOK' /\ ClicksOK' /\ LoopOK'
  BY <1>1, <1>2 DEF StackInv, CurrentOK, ClicksOK, LoopOK
<1>4. CASE dialogFinished = 0
  <2>1. UNCHANGED <<stack, lastFocusView, dialogFinished, focus>>
    BY <1>1, <1>4 DEF DeleteFinished, shown
  <2>2. ScreensOK' /\ PointersOK' /\ MainOK'
    BY <1>1, <2>1 DEF StackInv, ScreensOK, PointersOK, MainOK
  <2>3. FinishOK' /\ LeadsOK'
    BY <1>1, <1>2, <1>4, <2>1 DEF StackInv, FinishOK, LeadsOK
  <2> QED
    BY <1>3, <2>2, <2>3 DEF StackInv
<1>5. CASE dialogFinished # 0
  <2>1. /\ ScreensOK' /\ PointersOK' /\ dialogFinished' = 0 /\ Len(stack') = Len(stack) - 1
        /\ \A i \in 1 .. Len(stack') :
             /\ stack'[i].kind = stack[IF i < dialogFinished THEN i ELSE i + 1].kind
             /\ stack'[i].lead = stack[IF i < dialogFinished THEN i ELSE i + 1].lead
    BY <1>1, <1>5, DialogDeleted
  <2>2. dialogFinished \in 1 .. Len(stack)
    BY <1>5, <1>2 DEF StackInv, FinishOK
  <2>3. FinishOK'
    BY <1>2, <2>1, <2>2 DEF FinishOK
  <2>4. LeadsOK'
    <3> SUFFICES ASSUME NEW i \in 1 .. Len(stack')
                 PROVE  stack'[i].lead # LeadOut
      BY DEF LeadsOK
    <3> DEFINE o == IF i < dialogFinished THEN i ELSE i + 1
    <3>1. o \in 1 .. Len(stack) /\ o # dialogFinished
      BY <1>2, <2>1, <2>2
    <3> QED
      BY <2>1, <3>1 DEF StackInv, LeadsOK
  <2>5. MainOK'
    <3> SUFFICES ASSUME phase' \notin {"shutdown", "over"}
                 PROVE  /\ Len(stack') >= 1
                        /\ \A i \in 1 .. Len(stack') : stack'[i].kind = "main" <=> i = 1
      BY DEF MainOK
    <3>1. dialogFinished # 1
      BY <1>1 DEF StackInv, FinishOK
    <3>2. \A i \in 1 .. Len(stack) : stack[i].kind = "main" <=> i = 1
      BY <1>1 DEF StackInv, MainOK
    <3> QED
      BY <1>2, <2>1, <2>2, <3>1, <3>2
  <2> QED
    BY <1>3, <2>1, <2>3, <2>4, <2>5 DEF StackInv
<1> QED
  BY <1>4, <1>5

LEMMA ShutdownKeeps ==
  ASSUME StackInv, Shutdown
  PROVE  StackInv'
<1>1. /\ phase = "shutdown" /\ phase' = "over"
      /\ stack' = <<>> /\ lastFocusView' = <<>> /\ queue' = <<>> /\ current' = 0
      /\ focus' \in {-1, 0}
      /\ UNCHANGED <<movement, moves, dialogFinished, gUpdateCurrentScreen, gUpdateMainScreen, quit>>
  BY DEF Shutdown, update, Freed, Null
<1>2. ScreensOK' /\ MainOK' /\ LeadsOK' /\ CurrentOK'
  BY <1>1 DEF ScreensOK, MainOK, LeadsOK, CurrentOK
<1>3. PointersOK' /\ ClicksOK'
  BY <1>1 DEF PointersOK, ClicksOK, Pointers, Freed
<1>4. FinishOK' /\ LoopOK'
  BY <1>1 DEF StackInv, FinishOK, LoopOK
<1> QED
  BY <1>2, <1>3, <1>4 DEF StackInv

LEMMA RestartKeeps ==
  ASSUME StackInv, Restart
  PROVE  StackInv'
<1> DEFINE main == Screen("main", Null)
<1>1. main \in ScreenType /\ main.kind = "main" /\ main.lead = -1
  BY DEF Screen, ScreenType, Kinds, NotFinishing, LeadOut, Null, Pointers
<1> HIDE DEF main
<1>2. /\ phase = "over" /\ phase' = "events" /\ stack' = <<main>> /\ lastFocusView' = <<focus>>
      /\ focus' = 0 /\ current' = 1 /\ quit' = FALSE /\ dialogFinished' = 0
      /\ UNCHANGED <<movement, moves, queue, gUpdateCurrentScreen, gUpdateMainScreen>>
  BY DEF Restart, input, update, main, Null
<1>3. stack = <<>> /\ queue = <<>> /\ focus \in Pointers /\ focus <= 0
  BY <1>2 DEF StackInv, LoopOK, ClicksOK, PointersOK
<1>4. stack' \in Seq(ScreenType) /\ Len(stack') = 1 /\ stack'[1] = main
  BY <1>1, <1>2
<1>5. ScreensOK' /\ MainOK' /\ LeadsOK'
  BY <1>1, <1>4 DEF ScreensOK, MainOK, LeadsOK, LeadOut
<1>6. PointersOK'
  <2>1. /\ lastFocusView' \in Seq(Pointers) /\ Len(lastFocusView') = 1
        /\ lastFocusView'[1] = focus
    BY <1>2, <1>3
  <2> QED
    BY <1>2, <1>3, <1>4, <2>1 DEF PointersOK, Pointers, Freed
<1>7. FinishOK' /\ CurrentOK'
  BY <1>2, <1>4 DEF FinishOK, CurrentOK
<1>8. queue' = <<>> /\ queue' \in Seq(ClickType) /\ Len(queue') = 0
  BY <1>2, <1>3
<1>9. ClicksOK'
  BY <1>8 DEF ClicksOK
<1>10. LoopOK'
  BY <1>2 DEF StackInv, LoopOK
<1> QED
  BY <1>5, <1>6, <1>7, <1>9, <1>10 DEF StackInv

LEMMA StutterKeeps ==
  ASSUME StackInv, UNCHANGED vars
  PROVE  StackInv'
<1>1. UNCHANGED <<stack, focus, movement, moves, lastFocusView, dialogFinished, queue, current,
                  gUpdateCurrentScreen, gUpdateMainScreen, quit, phase>>
  BY DEF vars
<1>2. LoopOK'
  BY <1>1 DEF StackInv, LoopOK
<1> QED
  BY <1>1, <1>2, Untouched

LEMMA StepInv == StackInv /\ [Next]_vars => StackInv'
<1> SUFFICES ASSUME StackInv, [Next]_vars
             PROVE  StackInv'
  OBVIOUS
<1>1. ASSUME NEW what \in AllClicks, Click(what)
      PROVE  StackInv'
  BY <1>1, ClickKeeps
<1>2. Dpad \/ Escape \/ Hotplug \/ CloseWindow => StackInv'
  BY DpadKeeps, EscapeKeeps, HotplugKeeps, CloseWindowKeeps
<1>3. EventsDone \/ UpdateViews \/ MoveFocus \/ Dispatch \/ UpdateScreen => StackInv'
  BY EventsDoneKeeps, UpdateViewsKeeps, MoveFocusKeeps, DispatchKeeps, UpdateScreenKeeps
<1>4. UpdatePopup \/ RenderBelow \/ RenderTop \/ ProcessFinishDialog => StackInv'
  BY UpdatePopupKeeps, RenderBelowKeeps, RenderTopKeeps, ProcessFinishDialogKeeps
<1>5. Shutdown \/ Restart \/ UNCHANGED vars => StackInv'
  BY ShutdownKeeps, RestartKeeps, StutterKeeps
<1> QED
  BY <1>1, <1>2, <1>3, <1>4, <1>5 DEF Next, UserActs, LoopStep

LEMMA AlwaysInv == Spec => []StackInv
<1> QED
  BY InitInv, StepInv, PTL DEF Spec

-----------------------------------------------------------------------------
(* Theorems.                                                               *)

\* However many inputs a frame has and however high the stack grows, every variable has
\* its type: update() never runs for a screen that is not on the stack, and no popup
\* counts its frames past FRAMES_LEAD_OUT.
THEOREM StackTypeCorrect == Spec => []TypeOK
<1>1. StackInv => TypeOK
  <2> SUFFICES ASSUME StackInv
               PROVE  TypeOK
    OBVIOUS
  <2>1. stack \in Seq(ScreenType) /\ lastFocusView \in Seq(Pointers) /\ focus \in Pointers
    BY DEF StackInv, ScreensOK, PointersOK
  <2>2. queue \in Seq(ClickType) /\ current \in Nat /\ dialogFinished \in Nat
    BY LenProperties DEF StackInv, ClicksOK, CurrentOK, FinishOK, ScreensOK
  <2>3. {movement, moves, gUpdateCurrentScreen, gUpdateMainScreen, quit} \subseteq BOOLEAN
    BY DEF StackInv, LoopOK
  <2>4. phase \in {"events", "views", "move", "dispatch", "below", "top", "finish",
                   "shutdown", "over"}
    BY DEF StackInv, LoopOK
  <2> QED
    BY <2>1, <2>2, <2>3, <2>4 DEF TypeOK
<1> QED
  BY <1>1, AlwaysInv, PTL

\* push and processFinishDialog keep stack_ and the saved focus pointers in step, for any
\* order of pushes and deletions: lastFocusView is never popped empty.
THEOREM FocusKept == Spec => []EveryScreenKeepsAFocus
<1>1. StackInv => EveryScreenKeepsAFocus
  BY DEF StackInv, PointersOK, EveryScreenKeepsAFocus
<1> QED
  BY <1>1, AlwaysInv, PTL

\* No pointer to a view leads up the stack or to a screen that is not there, for stacks
\* of any height, wherever processFinishDialog takes a screen out.
THEOREM PointersDescend == Spec => []PointersGoDown
<1>1. StackInv => PointersGoDown
  <2> SUFFICES ASSUME StackInv
               PROVE  PointersGoDown
    OBVIOUS
  <2>1. focus <= Top /\ dialogFinished <= Top
    BY LenProperties DEF StackInv, PointersOK, FinishOK, ScreensOK, Top
  <2>2. \A i \in DOMAIN lastFocusView : lastFocusView[i] < i
    BY LenProperties DEF StackInv, PointersOK
  <2>3. \A i \in DOMAIN queue : queue[i].from <= Top
    <3> SUFFICES ASSUME NEW i \in 1 .. Len(queue)
                 PROVE  queue[i].from <= Len(stack)
      BY LenProperties DEF StackInv, ClicksOK, Top
    <3>1. phase \in {"events", "views", "move", "dispatch"} /\ Len(stack) \in Nat
      BY LenProperties DEF StackInv, ClicksOK, LoopOK, ScreensOK
    <3> QED
      BY <3>1 DEF StackInv, ClicksOK, CurrentOK
  <2>4. \A k \in Levels : stack[k].kind = "list" =>
          \/ stack[k].owner = Freed
          \/ stack[k].owner \in 1 .. k - 1 /\ stack[stack[k].owner].kind = "settings"
    BY DEF StackInv, ScreensOK, Levels, Top
  <2> QED
    BY <2>1, <2>2, <2>3, <2>4 DEF PointersGoDown
<1> QED
  BY <1>1, AlwaysInv, PTL
=============================================================================
