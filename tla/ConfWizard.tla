----------------------------- MODULE ConfWizard -----------------------------
(***************************************************************************)
(* The manual configuration of a controller: the wizard of                 *)
(* src/statemachine.cpp asks for one item after the other and writes an SDL *)
(* mapping at the end (setMapping, src/controller.cpp).                     *)
(***************************************************************************)
EXTENDS Integers

CONSTANTS
  Buttons,   \* the numbers of the buttons that may be pressed
  Axes,      \* the numbers of the axes that may be moved
  DpadAxes,  \* bound: those that may be moved while the dpad is asked for
  Hats,      \* the numbers of the hats that may be moved
  HatValues, \* the directions they may be moved to
  Tracked,   \* the items whose entry of gControllerButton[] is followed
  Threshold, \* how often an axis is heard before it is taken: 20
  Build      \* "O0" or "O2": the memory layout decides what gHat[4] is

DPAD_UP    == 0
DPAD_RIGHT == 3
Y          == 7
BACK       == 8
GUIDE      == 9
START      == 10
LEFTSTICK  == 11
RIGHTSHOULDER == 14
LEFTSTICK_X   == 15
RIGHTSTICK_X  == 17
AXIS_LEFTTRIGGER    == 19
AXIS_RIGHTTRIGGER   == 20
BUTTON_LEFTTRIGGER  == 21
BUTTON_RIGHTTRIGGER == 22
SKIP_ITEM           == 23

Items == 0 .. SKIP_ITEM - 1
Dpad  == DPAD_UP .. DPAD_RIGHT

ASSUME InputsAssumption ==
  /\ Buttons \subseteq 0 .. SKIP_ITEM - 1
  /\ Axes \subseteq 0 .. SKIP_ITEM - 1 /\ DpadAxes \subseteq Axes
  /\ Hats \subseteq 0 .. 3
  /\ HatValues \subseteq {1, 2, 4, 8}
  /\ LEFTSTICK_X .. BUTTON_RIGHTTRIGGER \subseteq Tracked /\ Tracked \subseteq Items
  /\ Threshold \in Nat
  /\ Build \in {"O0", "O2"}

VARIABLES
  gControllerConf, confState, gControllerButton,
  gHat, gHatValue, hatIterator,
  gAxis, gAxisValue, axisIterator,
  secondRun, secondRunHat, secondRunValue,
  xCount, yCount, xValue, yValue,
  given,   \* history: what the user gave for each direction of the dpad
  moved,   \* history: the axes moved since the present item was asked for
  heard    \* history: what the hats did to gHat[]: "nothing", "hat" or "overrun"

hats    == <<gHat, gHatValue, hatIterator>>
axes    == <<gAxis, gAxisValue, axisIterator>>
second  == <<secondRun, secondRunHat, secondRunValue>>
samples == <<xCount, yCount, xValue, yValue>>
history == <<given, moved, heard>>
vars    == <<gControllerConf, confState, gControllerButton, hats, axes, second,
             samples, history>>

\* The order in which the items are asked for, up to the first stick.
NextItem(item) ==
  CASE item = Y             -> LEFTSTICK
    [] item = RIGHTSHOULDER -> BACK
    [] item = BACK          -> START
    [] item = START         -> GUIDE
    [] item = GUIDE         -> LEFTSTICK_X
    [] OTHER                -> item + 1

Recorded(item, value) ==
  IF item \in Tracked THEN [gControllerButton EXCEPT ![item] = value]
  ELSE gControllerButton

NoSamples == xCount' = 0 /\ yCount' = 0 /\ xValue' = -1 /\ yValue' = -1

\* Mutant of NoTriggerSamples: the count is not reset.
NoTriggerSamplesButCount == xValue' = -1 /\ UNCHANGED <<xCount, yCount, yValue>>

\* The trigger's samples are reset; those of the sticks' second axis are not used.
NoTriggerSamples == xCount' = 0 /\ xValue' = -1 /\ UNCHANGED <<yCount, yValue>>

Ask(item) ==
  /\ confState' = item /\ moved' = {}
  /\ UNCHANGED gControllerConf

\* The wizard's part of setMapping: the entry is written and the wizard ends.
setMapping ==
  /\ gControllerConf' = FALSE /\ moved' = {}
  /\ UNCHANGED confState

-----------------------------------------------------------------------------
\* Mutants of startControllerConf: axisIterator, or gHat[], is not reset.
StartWithoutAxisIterator ==
  /\ ~gControllerConf
  /\ gControllerConf' = TRUE /\ confState' = DPAD_UP
  /\ gControllerButton' = [i \in Items |-> SKIP_ITEM]
  /\ gHat' = [i \in 0 .. 3 |-> -1] /\ gHatValue' = [i \in 0 .. 3 |-> -1]
  /\ gAxis' = [i \in 0 .. 3 |-> -1] /\ gAxisValue' = [i \in 0 .. 3 |-> FALSE]
  /\ hatIterator' = 0
  /\ secondRun' = -1 /\ secondRunHat' = -1 /\ secondRunValue' = -1
  /\ given' = [i \in Dpad |-> <<>>] /\ moved' = {} /\ heard' = "nothing"
  /\ UNCHANGED <<axisIterator, samples>>
StartWithoutHats ==
  /\ ~gControllerConf
  /\ gControllerConf' = TRUE /\ confState' = DPAD_UP
  /\ gControllerButton' = [i \in Items |-> SKIP_ITEM]
  /\ gAxis' = [i \in 0 .. 3 |-> -1] /\ gAxisValue' = [i \in 0 .. 3 |-> FALSE]
  /\ hatIterator' = 0 /\ axisIterator' = 0
  /\ secondRun' = -1 /\ secondRunHat' = -1 /\ secondRunValue' = -1
  /\ given' = [i \in Dpad |-> <<>>] /\ moved' = {} /\ heard' = "nothing"
  /\ UNCHANGED <<gHat, gHatValue, samples>>

startControllerConf ==
  /\ ~gControllerConf
  /\ gControllerConf' = TRUE /\ confState' = DPAD_UP
  /\ gControllerButton' = [i \in Items |-> SKIP_ITEM]
  /\ gHat' = [i \in 0 .. 3 |-> -1] /\ gHatValue' = [i \in 0 .. 3 |-> -1]
  /\ gAxis' = [i \in 0 .. 3 |-> -1] /\ gAxisValue' = [i \in 0 .. 3 |-> FALSE]
  /\ hatIterator' = 0 /\ axisIterator' = 0
  /\ secondRun' = -1 /\ secondRunHat' = -1 /\ secondRunValue' = -1
  /\ given' = [i \in Dpad |-> <<>>] /\ moved' = {} /\ heard' = "nothing"
  /\ UNCHANGED samples

resetStatemachine ==
  /\ gControllerConf
  /\ gControllerConf' = FALSE
  /\ UNCHANGED <<confState, gControllerButton, hats, axes, second, samples, history>>

\* The item is answered with button cmd, or skipped; dpad up is asked for twice.
AnswerItem(cmd) ==
  /\ confState < LEFTSTICK_X
  /\ \/ /\ confState = DPAD_UP /\ secondRun # cmd
        /\ secondRun' = IF secondRun = -1 THEN cmd ELSE secondRun
        /\ UNCHANGED <<gControllerConf, confState, gControllerButton, samples,
                       given, moved, heard>>
     \/ /\ confState # DPAD_UP \/ secondRun = cmd
        /\ gControllerButton' = Recorded(confState, cmd)
        /\ Ask(NextItem(confState))
        /\ secondRun' = IF confState = DPAD_UP THEN -1 ELSE secondRun
        /\ IF confState = GUIDE THEN NoSamples ELSE UNCHANGED samples
        /\ given' = IF confState \notin Dpad THEN given
                    ELSE [given EXCEPT ![confState] =
                            IF cmd = SKIP_ITEM THEN <<"skip">> ELSE <<"b", cmd>>]
        /\ UNCHANGED heard

\* Mutant of AnswerTrigger: the right trigger's button goes to the left trigger.
AnswerTriggerAsLeft(cmd) ==
  /\ gControllerButton' = Recorded(BUTTON_LEFTTRIGGER, cmd)
  /\ \/ confState = AXIS_LEFTTRIGGER /\ Ask(AXIS_RIGHTTRIGGER)
     \/ confState = AXIS_RIGHTTRIGGER /\ setMapping
  /\ UNCHANGED <<secondRun, samples, given, heard>>

\* A trigger may be a button: the samples its axis has left are not reset.
AnswerTrigger(cmd) ==
  /\ \/ /\ confState = AXIS_LEFTTRIGGER
        /\ gControllerButton' = Recorded(BUTTON_LEFTTRIGGER, cmd)
        /\ Ask(AXIS_RIGHTTRIGGER)
     \/ /\ confState = AXIS_RIGHTTRIGGER
        /\ gControllerButton' = Recorded(BUTTON_RIGHTTRIGGER, cmd)
        /\ setMapping
  /\ UNCHANGED <<secondRun, samples, given, heard>>

\* Mutant of SkipAxis: the samples of a skipped stick are kept.
SkipAxisKeepingSamples ==
  /\ \/ confState = LEFTSTICK_X /\ Ask(RIGHTSTICK_X)
     \/ confState = RIGHTSTICK_X /\ Ask(AXIS_LEFTTRIGGER)
     \/ confState = AXIS_LEFTTRIGGER /\ Ask(AXIS_RIGHTTRIGGER)
     \/ confState = AXIS_RIGHTTRIGGER /\ setMapping
  /\ UNCHANGED <<gControllerButton, secondRun, given, heard, samples>>

SkipAxis ==
  /\ \/ confState = LEFTSTICK_X /\ Ask(RIGHTSTICK_X) /\ NoSamples
     \/ confState = RIGHTSTICK_X /\ Ask(AXIS_LEFTTRIGGER) /\ NoSamples
     \/ confState = AXIS_LEFTTRIGGER /\ Ask(AXIS_RIGHTTRIGGER) /\ NoTriggerSamples
     \/ confState = AXIS_RIGHTTRIGGER /\ setMapping /\ NoTriggerSamples
  /\ UNCHANGED <<gControllerButton, secondRun, given, heard>>

\* A button of the controller, or ENTER (SKIP_ITEM). Buttons of the other
\* controller change nothing.
statemachineConf(cmd) ==
  /\ gControllerConf
  /\ \/ AnswerItem(cmd)
     \/ cmd # SKIP_ITEM /\ AnswerTrigger(cmd)
     \/ cmd = SKIP_ITEM /\ SkipAxis
  /\ UNCHANGED <<hats, axes, secondRunHat, secondRunValue>>

-----------------------------------------------------------------------------
\* Counts beyond Threshold are all alike.
CountUp(count) == IF count > Threshold THEN count ELSE count + 1

\* The two axes heard first, the smaller one as x, are counted until both were
\* heard often enough.
Sample(cmd) ==
  /\ xCount' = IF yValue # -1 /\ xValue = cmd THEN CountUp(xCount) ELSE xCount
  /\ yCount' = IF xValue # -1 /\ yValue = cmd THEN CountUp(yCount) ELSE yCount
  /\ xValue' = IF yValue = -1 /\ (xValue = -1 \/ xValue > cmd) THEN cmd ELSE xValue
  /\ yValue' = IF yValue = -1 /\ xValue # -1 /\ xValue # cmd
               THEN IF xValue > cmd THEN xValue ELSE cmd
               ELSE yValue
  /\ moved' = moved \cup {cmd}
  /\ UNCHANGED <<gControllerConf, confState, gControllerButton>>

checkAxis(cmd, next) ==
  IF xCount > Threshold /\ yCount > Threshold
  THEN /\ gControllerButton' = [gControllerButton EXCEPT ![confState] = xValue,
                                                         ![confState + 1] = yValue]
       /\ Ask(next) /\ NoSamples
  ELSE Sample(cmd)

checkTrigger(cmd, Proceed) ==
  IF xCount > Threshold
  THEN /\ gControllerButton' = [gControllerButton EXCEPT ![confState] = xValue]
       /\ Proceed /\ NoTriggerSamples
  ELSE /\ xCount' = IF xValue = cmd THEN CountUp(xCount) ELSE xCount
       /\ xValue' = IF xValue = -1 THEN cmd ELSE xValue
       /\ moved' = moved \cup {cmd}
       /\ UNCHANGED <<gControllerConf, confState, gControllerButton, yCount, yValue>>

\* Mutant of Taken: || where the source has &&.
TakenByAll(cmd, items) == \A i \in items : gControllerButton[i] = cmd

Taken(cmd, items) == \E i \in items : gControllerButton[i] = cmd

\* A stick's or a trigger's axis is sampled unless the item before has it.
HearAxis(cmd) ==
  \/ confState = LEFTSTICK_X /\ checkAxis(cmd, RIGHTSTICK_X)
  \/ /\ confState = RIGHTSTICK_X /\ ~Taken(cmd, {LEFTSTICK_X, LEFTSTICK_X + 1})
     /\ checkAxis(cmd, AXIS_LEFTTRIGGER)
  \/ /\ confState = AXIS_LEFTTRIGGER /\ ~Taken(cmd, {RIGHTSTICK_X, RIGHTSTICK_X + 1})
     /\ checkTrigger(cmd, Ask(AXIS_RIGHTTRIGGER))
  \/ /\ confState = AXIS_RIGHTTRIGGER /\ ~Taken(cmd, {AXIS_LEFTTRIGGER})
     /\ checkTrigger(cmd, setMapping)

\* The dpad may be two axes.
AnswerDpad(cmd, negative) ==
  /\ confState <= DPAD_RIGHT /\ cmd \in DpadAxes
  /\ gAxis' = [gAxis EXCEPT ![axisIterator] = cmd]
  /\ gAxisValue' = [gAxisValue EXCEPT ![axisIterator] = negative]
  /\ axisIterator' = axisIterator + 1
  /\ Ask(confState + 1)
  /\ given' = [given EXCEPT ![confState] = <<"a", cmd, negative>>]

\* An axis of the controller is far from its rest position.
statemachineConfAxis(cmd, negative) ==
  /\ gControllerConf
  /\ \/ HearAxis(cmd) /\ UNCHANGED <<axes, given>>
     \/ AnswerDpad(cmd, negative) /\ UNCHANGED <<gControllerButton, samples>>
  /\ UNCHANGED <<hats, second, heard>>

-----------------------------------------------------------------------------
\* Mutant of StoredHat: hatIterator advances with every press.
StoredHatAdvancing(hat, value) ==
  [gHat |-> [gHat EXCEPT ![hatIterator] = hat],
   gHatValue |-> [gHatValue EXCEPT ![hatIterator] = value],
   hatIterator |-> IF hatIterator < 4 THEN hatIterator + 1 ELSE 4, yValue |-> yValue]

\* gHat[hatIterator] = hat, gHatValue[hatIterator] = value, with what the four
\* declarations before and after these arrays have in their place when
\* hatIterator is out of bounds: [gHat, gHatValue, hatIterator, yValue].
StoredHat(hat, value) ==
  LET m == [gHat |-> gHat, gHatValue |-> gHatValue,
            hatIterator |-> hatIterator, yValue |-> yValue]
  IN  IF hatIterator \in 0 .. 3
      THEN [m EXCEPT !.gHat[hatIterator] = hat, !.gHatValue[hatIterator] = value]
      ELSE IF Build = "O2"       \* gHat[4] is yValue, gHatValue[4] is gHat[0]
      THEN [m EXCEPT !.yValue = hat, !.gHat[0] = value]
      ELSE IF hatIterator = 4    \* gHat[4] is gHatValue[0], gHatValue[4] hatIterator
      THEN [m EXCEPT !.gHatValue[0] = hat, !.hatIterator = value]
      ELSE [m EXCEPT !.hatIterator = hat, !.gHatValue[hat] = value] \* gHat[8]

\* The hat of this controller (own) or of the other one moves: it is stored
\* before anything is looked at.
statemachineConfHat(hat, value, own) ==
  LET m == StoredHat(hat, value)
      Accept == \/ confState \in Dpad \ {DPAD_UP}
                \/ /\ confState = DPAD_UP
                   /\ secondRunHat = hat /\ secondRunValue = value
      First  == confState = DPAD_UP /\ secondRunHat = -1 /\ secondRunValue = -1
  IN  /\ gControllerConf
      /\ gHat' = m.gHat /\ gHatValue' = m.gHatValue /\ yValue' = m.yValue
      /\ heard' = IF hatIterator \in 0 .. 3 /\ heard # "overrun" THEN "hat" ELSE "overrun"
      /\ \/ /\ own /\ Accept
            /\ hatIterator' = m.hatIterator + 1
            /\ Ask(confState + 1)
            /\ given' = [given EXCEPT ![confState] = <<"h", hat, value>>]
            /\ IF confState = DPAD_UP
               THEN secondRunHat' = -1 /\ secondRunValue' = -1
               ELSE UNCHANGED <<secondRunHat, secondRunValue>>
         \/ /\ ~(own /\ Accept)
            /\ hatIterator' = m.hatIterator
            /\ IF own /\ First
               THEN secondRunHat' = hat /\ secondRunValue' = value
               ELSE UNCHANGED <<secondRunHat, secondRunValue>>
            /\ UNCHANGED <<gControllerConf, confState, given, moved>>
      /\ UNCHANGED <<gControllerButton, axes, secondRun, xCount, yCount, xValue>>

-----------------------------------------------------------------------------
\* Before the first configuration the globals are zero.
Init ==
  /\ gControllerConf = FALSE /\ confState = 0
  /\ gControllerButton = [i \in Items |-> 0]
  /\ gHat = [i \in 0 .. 3 |-> 0] /\ gHatValue = [i \in 0 .. 3 |-> 0]
  /\ gAxis = [i \in 0 .. 3 |-> 0] /\ gAxisValue = [i \in 0 .. 3 |-> FALSE]
  /\ hatIterator = 0 /\ axisIterator = 0
  /\ secondRun = 0 /\ secondRunHat = 0 /\ secondRunValue = 0
  /\ xCount = 0 /\ yCount = 0 /\ xValue = 0 /\ yValue = 0
  /\ given = [i \in Dpad |-> <<>>] /\ moved = {} /\ heard = "nothing"

Next ==
  \/ startControllerConf
  \/ resetStatemachine
  \/ \E cmd \in Buttons \cup {SKIP_ITEM} : statemachineConf(cmd)
  \/ \E cmd \in Axes, negative \in BOOLEAN : statemachineConfAxis(cmd, negative)
  \/ \E hat \in Hats, value \in HatValues, own \in BOOLEAN :
       statemachineConfHat(hat, value, own)

Spec == Init /\ [][Next]_vars
-----------------------------------------------------------------------------
\* What setMapping writes for direction i of the dpad: a button, else a hat, else
\* an axis, else nothing.
DpadMapping(i) ==
  IF gControllerButton[i] # SKIP_ITEM THEN <<"b", gControllerButton[i]>>
  ELSE IF gHat[i] # -1 /\ gHatValue[i] # -1 THEN <<"h", gHat[i], gHatValue[i]>>
  ELSE IF gAxis[i] # -1 THEN <<"a", gAxis[i], gAxisValue[i]>>
  ELSE <<"skip">>

DpadDone       == confState > DPAD_RIGHT
AllGiven(kind) == \A i \in Dpad : given[i] # <<>> /\ given[i][1] = kind
Axis(item)     == gControllerButton[item]

TypeOK ==
  /\ gControllerConf \in BOOLEAN
  /\ confState \in 0 .. AXIS_RIGHTTRIGGER
  /\ gControllerButton \in [Items -> 0 .. SKIP_ITEM]
  /\ gHat \in [0 .. 3 -> Int] /\ gHatValue \in [0 .. 3 -> Int]
  /\ hatIterator \in Nat
  /\ gAxis \in [0 .. 3 -> Int] /\ gAxisValue \in [0 .. 3 -> BOOLEAN]
  /\ axisIterator \in 0 .. 4
  /\ {secondRun, secondRunHat, secondRunValue} \subseteq Int
  /\ xCount \in Nat /\ yCount \in Nat
  /\ xValue \in -1 .. SKIP_ITEM - 1 /\ yValue \in -1 .. SKIP_ITEM - 1
  /\ given \in [Dpad -> {<<>>, <<"skip">>} \cup ({"b"} \X Buttons)
                        \cup ({"h"} \X Hats \X HatValues)
                        \cup ({"a"} \X Axes \X BOOLEAN)]
  /\ moved \subseteq Axes
  /\ heard \in {"nothing", "hat", "overrun"}

\* gHat[] and gAxis[] share the four directions of the dpad, each with its own
\* iterator: however hats, axes, buttons and ENTER are mixed, neither has more
\* entries than directions were asked for, so gAxis[axisIterator] is in bounds
\* (statemachine.cpp:1166) and gHat[hatIterator] as long as the dpad is asked for.
IteratorsFitTheDpad ==
  /\ gControllerConf /\ confState \in Dpad
       => hatIterator \in Nat /\ hatIterator + axisIterator <= confState
  /\ heard # "overrun" => hatIterator <= 4

\* Whichever way leads to the next item, a count never outlives the axis it counts:
\* what checkAxis and checkTrigger record is an axis that was heard, never -1
\* (statemachine.cpp:1207, 1247).
CountsBelongToAnAxis ==
  /\ xCount > 0 => xValue # -1
  /\ yCount > 0 => yValue # -1

\* A stick's two axes differ, the second stick has none of the first, the left
\* trigger none of the right stick, the right trigger not the left one's: from
\* samples taken in any order, items skipped, triggers given as buttons. (Unless
\* a hat wrote over yValue.)
AxesAreDistinct ==
  confState >= LEFTSTICK_X /\ heard # "overrun" =>
    /\ Axis(15) # SKIP_ITEM => Axis(15) # Axis(16)
    /\ Axis(17) # SKIP_ITEM =>
         /\ Axis(17) # Axis(18)
         /\ {Axis(17), Axis(18)} \cap {Axis(15), Axis(16)} = {}
    /\ Axis(19) # SKIP_ITEM => Axis(19) \notin {Axis(17), Axis(18)}
    /\ Axis(20) # SKIP_ITEM => Axis(20) # Axis(19)

\* "twirl left stick", "twirl right stick" (statemachine.cpp:1049, 1090): the axes
\* recorded for a stick were moved while it was asked for.
SticksFromTheirOwnTwirl ==
  [][\A k \in LEFTSTICK_X .. RIGHTSTICK_X + 1 :
       Axis(k)' # Axis(k) /\ Axis(k)' # SKIP_ITEM /\ heard # "overrun"
         => Axis(k)' \in moved]_vars

\* The items in the order of the prompts (statemachine.cpp:963-1168), and the entries of
\* gControllerButton[] an item is recorded at: a stick has two axes, a trigger is an axis
\* or a button.
Order == <<0, 1, 2, 3, 4, 5, 6, 7, 11, 12, 13, 14, 8, 10, 9, 15, 17, 19, 20>>
Fields ==
  [item \in Items |->
     CASE item \in {LEFTSTICK_X, RIGHTSTICK_X} -> {item, item + 1}
       [] item = AXIS_LEFTTRIGGER  -> {item, BUTTON_LEFTTRIGGER}
       [] item = AXIS_RIGHTTRIGGER -> {item, BUTTON_RIGHTTRIGGER}
       [] OTHER -> {item}]

\* Buttons, ENTER, hats and axes, of this controller or the other one, samples that are
\* left and hats beyond gHat[]: whichever of them leads on, every item is asked for once
\* and in its turn, and no answer changes the entry of another item.
Form == INSTANCE Questionnaire WITH Entries <- Items,
                                    Values  <- 0 .. SKIP_ITEM,
                                    Blank   <- SKIP_ITEM,
                                    running <- gControllerConf,
                                    asked   <- confState,
                                    form    <- gControllerButton
ImplementsQuestionnaire == Form!Spec

\* A dpad that is all buttons, all hats or all axes is mapped the way it was
\* pressed: no entry of an earlier configuration, of a first press that was not
\* confirmed or of the other controller's hat is left in it.
UniformDpadAsGiven ==
  DpadDone /\ \/ AllGiven("b")
              \/ AllGiven("h") /\ heard # "overrun"
              \/ AllGiven("a") /\ heard = "nothing"
    => \A i \in Dpad : DpadMapping(i) = given[i]

=============================================================================
