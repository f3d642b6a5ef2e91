-------------------------- MODULE ConfWizardProofs --------------------------
(***************************************************************************)
(* Theorems about ConfWizard for every value of its constants.             *)
(***************************************************************************)
EXTENDS ConfWizard, TLAPS

\* None of the three is inductive alone: gAxis[axisIterator] is in bounds because
\* the iterators fit the dpad, and what is recorded is the number of an axis
\* because it was counted.
WizardInv == TypeOK /\ IteratorsFitTheDpad /\ CountsBelongToAnAxis

Numbers ==
  /\ DPAD_UP = 0 /\ DPAD_RIGHT = 3 /\ Y = 7 /\ BACK = 8 /\ GUIDE = 9 /\ START = 10
  /\ LEFTSTICK = 11 /\ RIGHTSHOULDER = 14 /\ LEFTSTICK_X = 15 /\ RIGHTSTICK_X = 17
  /\ AXIS_LEFTTRIGGER = 19 /\ AXIS_RIGHTTRIGGER = 20
  /\ BUTTON_LEFTTRIGGER = 21 /\ BUTTON_RIGHTTRIGGER = 22 /\ SKIP_ITEM = 23
  /\ Items = 0 .. 22 /\ Dpad = 0 .. 3

LEMMA NumbersHold == Numbers
  BY DEF Numbers, DPAD_UP, DPAD_RIGHT, Y, BACK, GUIDE, START, LEFTSTICK, RIGHTSHOULDER,
         LEFTSTICK_X, RIGHTSTICK_X, AXIS_LEFTTRIGGER, AXIS_RIGHTTRIGGER,
         BUTTON_LEFTTRIGGER, BUTTON_RIGHTTRIGGER, SKIP_ITEM, Items, Dpad

-----------------------------------------------------------------------------
(* The parts of the state.                                                 *)

\* The samples of axes: counts, and axes or -1.
SamplesOK ==
  /\ xCount \in Nat /\ yCount \in Nat
  /\ xValue \in -1 .. 22 /\ yValue \in -1 .. 22
  /\ CountsBelongToAnAxis

Given == {<<>>, <<"skip">>} \cup ({"b"} \X Buttons) \cup ({"h"} \X Hats \X HatValues)
                            \cup ({"a"} \X Axes \X BOOLEAN)

\* The item asked for and what is remembered of it.
ItemOK ==
  /\ gControllerConf \in BOOLEAN
  /\ confState \in 0 .. 20
  /\ gControllerButton \in [0 .. 22 -> 0 .. 23]
  /\ moved \subseteq Axes

\* What hats and axes have given for the dpad.
HatsOK ==
  /\ gHat \in [0 .. 3 -> Int] /\ gHatValue \in [0 .. 3 -> Int]
  /\ hatIterator \in Nat
  /\ heard \in {"nothing", "hat", "overrun"}
  /\ secondRunHat \in Int /\ secondRunValue \in Int
AxesOK ==
  /\ gAxis \in [0 .. 3 -> Int] /\ gAxisValue \in [0 .. 3 -> BOOLEAN]
  /\ axisIterator \in 0 .. 4

LEMMA RangesHold ==
  /\ Items = 0 .. 22 /\ Dpad = 0 .. 3
  /\ AXIS_RIGHTTRIGGER = 20 /\ SKIP_ITEM = 23 /\ SKIP_ITEM - 1 = 22
  BY NumbersHold DEF Numbers

LEMMA Parts ==
  WizardInv <=> /\ SamplesOK /\ ItemOK /\ HatsOK /\ AxesOK
                /\ secondRun \in Int /\ given \in [0 .. 3 -> Given]
                /\ IteratorsFitTheDpad
<1>1. (gControllerButton \in [Items -> 0 .. SKIP_ITEM])
        <=> (gControllerButton \in [0 .. 22 -> 0 .. 23])
  BY RangesHold, Zenon
<1>2. (confState \in 0 .. AXIS_RIGHTTRIGGER) <=> (confState \in 0 .. 20)
  BY RangesHold, Zenon
<1>3. (given \in [Dpad -> {<<>>, <<"skip">>} \cup ({"b"} \X Buttons)
                          \cup ({"h"} \X Hats \X HatValues)
                          \cup ({"a"} \X Axes \X BOOLEAN)])
        <=> (given \in [0 .. 3 -> Given])
  BY RangesHold, Zenon DEF Given
<1>4. ({secondRun, secondRunHat, secondRunValue} \subseteq Int)
        <=> (/\ secondRun \in Int /\ secondRunHat \in Int /\ secondRunValue \in Int)
  BY Zenon
<1>5. /\ (xValue \in -1 .. SKIP_ITEM - 1) <=> (xValue \in -1 .. 22)
      /\ (yValue \in -1 .. SKIP_ITEM - 1) <=> (yValue \in -1 .. 22)
  BY RangesHold, Zenon
<1>6. ASSUME WizardInv
      PROVE  /\ SamplesOK /\ ItemOK /\ HatsOK /\ AxesOK
             /\ secondRun \in Int /\ given \in [0 .. 3 -> Given]
             /\ IteratorsFitTheDpad
  <2>1. TypeOK /\ IteratorsFitTheDpad /\ CountsBelongToAnAxis
    BY <1>6, Zenon DEF WizardInv
  <2>2. SamplesOK
    BY <2>1, <1>5, Zenon DEF TypeOK, SamplesOK
  <2>3. ItemOK
    BY <2>1, <1>1, <1>2, Zenon DEF TypeOK, ItemOK
  <2>4. HatsOK /\ secondRun \in Int
    BY <2>1, <1>4, Zenon DEF TypeOK, HatsOK
  <2>5. AxesOK
    BY <2>1, Zenon DEF TypeOK, AxesOK
  <2>6. given \in [0 .. 3 -> Given]
    BY <2>1, <1>3, Zenon DEF TypeOK
  <2> QED
    BY <2>1, <2>2, <2>3, <2>4, <2>5, <2>6, Zenon
<1>7. ASSUME SamplesOK, ItemOK, HatsOK, AxesOK, secondRun \in Int,
             given \in [0 .. 3 -> Given], IteratorsFitTheDpad
      PROVE  WizardInv
  <2>1. TypeOK
    BY <1>1, <1>2, <1>3, <1>4, <1>5, <1>7, Zenon DEF TypeOK, SamplesOK, ItemOK, HatsOK, AxesOK
  <2> QED
    BY <1>7, <2>1, Zenon DEF WizardInv, SamplesOK
<1> QED
  BY <1>6, <1>7, Zenon

LEMMA PartsNext ==
  WizardInv' <=> /\ SamplesOK' /\ ItemOK' /\ HatsOK' /\ AxesOK'
                 /\ secondRun' \in Int /\ given' \in [0 .. 3 -> Given]
                 /\ IteratorsFitTheDpad'
<1>1. (gControllerButton' \in [Items -> 0 .. SKIP_ITEM])
        <=> (gControllerButton' \in [0 .. 22 -> 0 .. 23])
  BY RangesHold, Zenon
<1>2. (confState' \in 0 .. AXIS_RIGHTTRIGGER) <=> (confState' \in 0 .. 20)
  BY RangesHold, Zenon
<1>3. (given' \in [Dpad -> {<<>>, <<"skip">>} \cup ({"b"} \X Buttons)
                          \cup ({"h"} \X Hats \X HatValues)
                          \cup ({"a"} \X Axes \X BOOLEAN)])
        <=> (given' \in [0 .. 3 -> Given])
  BY RangesHold, Zenon DEF Given
<1>4. ({secondRun', secondRunHat', secondRunValue'} \subseteq Int)
        <=> (/\ secondRun' \in Int /\ secondRunHat' \in Int /\ secondRunValue' \in Int)
  BY Zenon
<1>5. /\ (xValue' \in -1 .. SKIP_ITEM - 1) <=> (xValue' \in -1 .. 22)
      /\ (yValue' \in -1 .. SKIP_ITEM - 1) <=> (yValue' \in -1 .. 22)
  BY RangesHold, Zenon
<1>6. ASSUME WizardInv'
      PROVE  /\ SamplesOK' /\ ItemOK' /\ HatsOK' /\ AxesOK'
             /\ secondRun' \in Int /\ given' \in [0 .. 3 -> Given]
             /\ IteratorsFitTheDpad'
  <2>1. TypeOK' /\ IteratorsFitTheDpad' /\ CountsBelongToAnAxis'
    BY <1>6, Zenon DEF WizardInv
  <2>2. SamplesOK'
    BY <2>1, <1>5, Zenon DEF TypeOK, SamplesOK
  <2>3. ItemOK'
    BY <2>1, <1>1, <1>2, Zenon DEF TypeOK, ItemOK
  <2>4. HatsOK' /\ secondRun' \in Int
    BY <2>1, <1>4, Zenon DEF TypeOK, HatsOK
  <2>5. AxesOK'
    BY <2>1, Zenon DEF TypeOK, AxesOK
  <2>6. given' \in [0 .. 3 -> Given]
    BY <2>1, <1>3, Zenon DEF TypeOK
  <2> QED
    BY <2>1, <2>2, <2>3, <2>4, <2>5, <2>6, Zenon
<1>7. ASSUME SamplesOK', ItemOK', HatsOK', AxesOK', secondRun' \in Int,
             given' \in [0 .. 3 -> Given], IteratorsFitTheDpad'
      PROVE  WizardInv'
  <2>1. TypeOK'
    BY <1>1, <1>2, <1>3, <1>4, <1>5, <1>7, Zenon DEF TypeOK, SamplesOK, ItemOK, HatsOK, AxesOK
  <2> QED
    BY <1>7, <2>1, Zenon DEF WizardInv, SamplesOK
<1> QED
  BY <1>6, <1>7, Zenon

\* The iterators do not move and the dpad's items come one after the other: the
\* iterators still fit the dpad.
LEMMA StillFits ==
  ASSUME IteratorsFitTheDpad, ItemOK, ItemOK', UNCHANGED <<hatIterator, axisIterator, heard>>,
         axisIterator \in 0 .. 4, hatIterator \in Nat,
         gControllerConf' /\ confState' \in 0 .. 3
           => gControllerConf /\ (confState' = confState \/ confState' = confState + 1)
  PROVE  IteratorsFitTheDpad'
  BY NumbersHold DEF Numbers, IteratorsFitTheDpad, ItemOK

LEMMA NextItemRange ==
  ASSUME NEW item \in 0 .. 14
  PROVE  NextItem(item) \in 1 .. 15 /\ (NextItem(item) \in 0 .. 3 => NextItem(item) = item + 1)
  BY NumbersHold DEF Numbers, NextItem

LEMMA RecordedType ==
  ASSUME ItemOK, NEW item \in 0 .. 22, NEW value \in 0 .. 23
  PROVE  Recorded(item, value) \in [0 .. 22 -> 0 .. 23]
  BY DEF ItemOK, Recorded

\* The next item is asked for, or the wizard ends.
LEMMA AskType ==
  ASSUME ItemOK, NEW item \in 0 .. 20, Ask(item), gControllerButton' \in [0 .. 22 -> 0 .. 23]
  PROVE  ItemOK' /\ confState' = item
<1>1. confState' = item /\ moved' \subseteq Axes
  BY DEF Ask
<1>2. gControllerConf' \in BOOLEAN
  BY Zenon DEF Ask, ItemOK
<1> QED
  BY <1>1, <1>2, Zenon DEF ItemOK

LEMMA setMappingType ==
  ASSUME ItemOK, setMapping, gControllerButton' \in [0 .. 22 -> 0 .. 23]
  PROVE  ItemOK' /\ confState' = confState
<1>1. confState' = confState /\ moved' \subseteq Axes
  BY DEF setMapping
<1>2. gControllerConf' \in BOOLEAN
  BY Zenon DEF setMapping
<1> QED
  BY <1>1, <1>2, Zenon DEF ItemOK

-----------------------------------------------------------------------------
(* The actions.                                                            *)

LEMMA InitInv == Init => WizardInv
<1> SUFFICES ASSUME Init PROVE WizardInv
  OBVIOUS
<1>1. given \in [0 .. 3 -> Given]
  BY NumbersHold DEF Numbers, Init, Given
<1>2. SamplesOK /\ ItemOK /\ HatsOK /\ AxesOK /\ secondRun \in Int
  <2>1. SamplesOK
    BY DEF Init, SamplesOK, CountsBelongToAnAxis
  <2>2. gControllerButton \in [0 .. 22 -> 0 .. 23]
    BY NumbersHold DEF Numbers, Init
  <2>3. ItemOK
    <3>1. gControllerConf \in BOOLEAN /\ moved \subseteq Axes
      BY Zenon DEF Init
    <3>2. confState \in 0 .. 20
      BY DEF Init
    <3> QED
      BY <2>2, <3>1, <3>2, Zenon DEF ItemOK
  <2>4. HatsOK /\ AxesOK /\ secondRun \in Int
    BY DEF Init, HatsOK, AxesOK
  <2> QED
    BY <2>1, <2>3, <2>4
<1>3. IteratorsFitTheDpad
  BY NumbersHold DEF Numbers, Init, IteratorsFitTheDpad
<1> QED
  BY <1>1, <1>2, <1>3, Parts

LEMMA StartInv ==
  ASSUME WizardInv, startControllerConf
  PROVE  WizardInv'
<1>1. given' \in [0 .. 3 -> Given]
  BY NumbersHold DEF Numbers, startControllerConf, Given
<1>2. SamplesOK'
  BY Parts DEF startControllerConf, SamplesOK, CountsBelongToAnAxis, samples
<1>3. ItemOK' /\ HatsOK' /\ AxesOK' /\ secondRun' \in Int
  BY NumbersHold DEF Numbers, startControllerConf, ItemOK, HatsOK, AxesOK
<1>4. IteratorsFitTheDpad'
  BY NumbersHold DEF Numbers, startControllerConf, IteratorsFitTheDpad
<1> QED
  BY <1>1, <1>2, <1>3, <1>4, PartsNext

LEMMA ResetInv ==
  ASSUME WizardInv, resetStatemachine
  PROVE  WizardInv'
<1>1. /\ SamplesOK' /\ ItemOK' /\ HatsOK' /\ AxesOK' /\ secondRun' \in Int
      /\ given' \in [0 .. 3 -> Given]
  BY Parts DEF resetStatemachine, SamplesOK, ItemOK, HatsOK, AxesOK, CountsBelongToAnAxis,
               hats, axes, second, samples, history
<1>2. IteratorsFitTheDpad'
  BY Parts DEF resetStatemachine, IteratorsFitTheDpad, hats, axes, history
<1> QED
  BY <1>1, <1>2, PartsNext

LEMMA NoSamplesType == NoSamples => SamplesOK'
  BY DEF NoSamples, SamplesOK, CountsBelongToAnAxis

LEMMA NoTriggerSamplesType == SamplesOK /\ NoTriggerSamples => SamplesOK'
  BY DEF NoTriggerSamples, SamplesOK, CountsBelongToAnAxis

LEMMA SamplesKept == SamplesOK /\ UNCHANGED samples => SamplesOK'
  BY DEF samples, SamplesOK, CountsBelongToAnAxis

\* An answer, a skip or an ENTER: what of the state it may change.
LEMMA AnswerItemInv ==
  ASSUME WizardInv, NEW cmd \in Buttons \cup {SKIP_ITEM}, gControllerConf, AnswerItem(cmd)
  PROVE  /\ SamplesOK' /\ ItemOK' /\ secondRun' \in Int /\ given' \in [0 .. 3 -> Given]
         /\ heard' = heard
         /\ confState' \in 0 .. 3 => confState' = confState \/ confState' = confState + 1
<1>1. cmd \in 0 .. 23 /\ confState \in 0 .. 14
  BY NumbersHold, InputsAssumption, Parts DEF Numbers, AnswerItem, ItemOK
<1>2. CASE /\ confState = DPAD_UP /\ secondRun # cmd
           /\ secondRun' = IF secondRun = -1 THEN cmd ELSE secondRun
           /\ UNCHANGED <<gControllerConf, confState, gControllerButton, samples,
                          given, moved, heard>>
  <2>1. SamplesOK'
    BY <1>2, Parts, SamplesKept
  <2> QED
    BY <1>1, <1>2, <2>1, Parts DEF ItemOK
<1>3. CASE /\ confState # DPAD_UP \/ secondRun = cmd
           /\ gControllerButton' = Recorded(confState, cmd)
           /\ Ask(NextItem(confState))
           /\ secondRun' = IF confState = DPAD_UP THEN -1 ELSE secondRun
           /\ IF confState = GUIDE THEN NoSamples ELSE UNCHANGED samples
           /\ given' = IF confState \notin Dpad THEN given
                       ELSE [given EXCEPT ![confState] =
                               IF cmd = SKIP_ITEM THEN <<"skip">> ELSE <<"b", cmd>>]
           /\ UNCHANGED heard
  <2>1. SamplesOK'
    BY <1>3, Parts, SamplesKept, NoSamplesType
  <2>2. ItemOK' /\ secondRun' \in Int
    <3>1. confState' \in 0 .. 20
      BY <1>1, <1>3, NextItemRange DEF Ask
    <3>2. gControllerButton' \in [0 .. 22 -> 0 .. 23]
      <4>1. ItemOK /\ confState \in 0 .. 22
        BY <1>1, Parts
      <4>2. Recorded(confState, cmd) \in [0 .. 22 -> 0 .. 23]
        BY <1>1, <4>1, RecordedType
      <4> QED
        BY <1>3, <4>2
    <3>3. moved' \subseteq Axes /\ gControllerConf' \in BOOLEAN
      BY <1>3, Parts DEF Ask, ItemOK
    <3>4. secondRun' \in Int
      BY <1>3, Parts
    <3> QED
      BY <3>1, <3>2, <3>3, <3>4 DEF ItemOK
  <2>3. (IF cmd = SKIP_ITEM THEN <<"skip">> ELSE <<"b", cmd>>) \in Given
    <3>1. CASE cmd = SKIP_ITEM
      BY <3>1 DEF Given
    <3>2. CASE cmd # SKIP_ITEM
      <4>1. <<"b", cmd>> \in {"b"} \X Buttons
        BY <3>2
      <4> QED
        BY <3>2, <4>1 DEF Given
    <3> QED
      BY <3>1, <3>2
  <2>4. given' \in [0 .. 3 -> Given]
    BY <1>3, <2>3, Parts
  <2>5. confState' \in 0 .. 3 => confState' = confState + 1
    BY <1>1, <1>3, NextItemRange DEF Ask
  <2> QED
    BY <1>3, <2>1, <2>2, <2>4, <2>5
<1> QED
  BY <1>2, <1>3 DEF AnswerItem

\* A button for a trigger; an axis skipped. Neither belongs to the dpad.
LEMMA AnswerTriggerInv ==
  ASSUME WizardInv, NEW cmd \in Buttons, AnswerTrigger(cmd)
  PROVE  /\ SamplesOK' /\ ItemOK' /\ secondRun' \in Int /\ given' \in [0 .. 3 -> Given]
         /\ heard' = heard /\ confState' \notin 0 .. 3
<1>1. cmd \in 0 .. 23 /\ ItemOK
  BY NumbersHold, InputsAssumption, Parts DEF Numbers
<1>2. SamplesOK' /\ secondRun' \in Int /\ given' \in [0 .. 3 -> Given] /\ heard' = heard
  BY Parts, SamplesKept DEF AnswerTrigger
<1>3. CASE /\ confState = AXIS_LEFTTRIGGER
           /\ gControllerButton' = Recorded(BUTTON_LEFTTRIGGER, cmd)
           /\ Ask(AXIS_RIGHTTRIGGER)
  <2>1. 21 \in 0 .. 22
    OBVIOUS
  <2>2. Recorded(21, cmd) \in [0 .. 22 -> 0 .. 23]
    BY <1>1, <2>1, RecordedType, Zenon
  <2>3. gControllerButton' \in [0 .. 22 -> 0 .. 23]
    BY <1>3, <2>2, NumbersHold DEF Numbers
  <2>4. AXIS_RIGHTTRIGGER \in 0 .. 20 /\ AXIS_RIGHTTRIGGER \notin 0 .. 3
    BY NumbersHold DEF Numbers
  <2> QED
    BY <1>1, <1>2, <1>3, <2>3, <2>4, AskType, Zenon
<1>4. CASE /\ confState = AXIS_RIGHTTRIGGER
           /\ gControllerButton' = Recorded(BUTTON_RIGHTTRIGGER, cmd)
           /\ setMapping
  <2>1. 22 \in 0 .. 22
    OBVIOUS
  <2>2. Recorded(22, cmd) \in [0 .. 22 -> 0 .. 23]
    BY <1>1, <2>1, RecordedType, Zenon
  <2>3. gControllerButton' \in [0 .. 22 -> 0 .. 23]
    BY <1>4, <2>2, NumbersHold DEF Numbers
  <2>4. confState \notin 0 .. 3
    BY <1>4, NumbersHold DEF Numbers
  <2> QED
    BY <1>1, <1>2, <1>4, <2>3, <2>4, setMappingType, Zenon
<1> QED
  BY <1>3, <1>4 DEF AnswerTrigger

LEMMA SkipAxisInv ==
  ASSUME WizardInv, SkipAxis
  PROVE  /\ SamplesOK' /\ ItemOK' /\ secondRun' \in Int /\ given' \in [0 .. 3 -> Given]
         /\ heard' = heard /\ confState' \notin 0 .. 3
<1>1. SamplesOK'
  BY Parts, NoSamplesType, NoTriggerSamplesType DEF SkipAxis
<1>2. ItemOK' /\ confState' \notin 0 .. 3
  <2>1. ItemOK /\ gControllerButton' \in [0 .. 22 -> 0 .. 23]
    BY Parts DEF SkipAxis, ItemOK
  <2>2. \/ \E item \in 4 .. 20 : Ask(item)
        \/ setMapping /\ confState = 20
    BY NumbersHold DEF Numbers, SkipAxis
  <2>3. ASSUME NEW item \in 4 .. 20, Ask(item)
        PROVE  ItemOK' /\ confState' \notin 0 .. 3
    <3>1. item \in 0 .. 20 /\ item \notin 0 .. 3
      OBVIOUS
    <3> QED
      BY <2>1, <2>3, <3>1, AskType, Zenon
  <2>4. CASE setMapping /\ confState = 20
    <3>1. 20 \notin 0 .. 3
      OBVIOUS
    <3> QED
      BY <2>1, <2>4, <3>1, setMappingType, Zenon
  <2> QED
    BY <2>2, <2>3, <2>4, Zenon
<1>3. secondRun' \in Int /\ given' \in [0 .. 3 -> Given] /\ heard' = heard
  BY Parts DEF SkipAxis
<1> QED
  BY <1>1, <1>2, <1>3

LEMMA ButtonInv ==
  ASSUME WizardInv, NEW cmd \in Buttons \cup {SKIP_ITEM}, statemachineConf(cmd)
  PROVE  WizardInv'
<1>1. /\ gControllerConf
      /\ UNCHANGED <<hats, axes, secondRunHat, secondRunValue>>
      /\ AnswerItem(cmd) \/ (cmd # SKIP_ITEM /\ AnswerTrigger(cmd)) \/ SkipAxis
  BY DEF statemachineConf
<1>2. /\ SamplesOK' /\ ItemOK' /\ secondRun' \in Int /\ given' \in [0 .. 3 -> Given]
      /\ heard' = heard
      /\ confState' \in 0 .. 3 => confState' = confState \/ confState' = confState + 1
  BY <1>1, AnswerItemInv, AnswerTriggerInv, SkipAxisInv
<1>3. HatsOK' /\ AxesOK'
  BY <1>1, <1>2, Parts DEF hats, axes, HatsOK, AxesOK
<1>4. IteratorsFitTheDpad'
  <2>1. ItemOK /\ IteratorsFitTheDpad /\ axisIterator \in 0 .. 4 /\ hatIterator \in Nat
    BY Parts DEF HatsOK, AxesOK
  <2>2. UNCHANGED <<hatIterator, axisIterator, heard>>
    BY <1>1, <1>2 DEF hats, axes
  <2> QED
    BY <1>1, <1>2, <2>1, <2>2, StillFits
<1> QED
  BY <1>2, <1>3, <1>4, PartsNext

-----------------------------------------------------------------------------
(* Axes.                                                                   *)

LEMMA CountUpType == ASSUME NEW count \in Nat PROVE CountUp(count) \in Nat
  BY InputsAssumption DEF CountUp

\* An axis is counted only as one of the two heard first.
LEMMA SampleInv ==
  ASSUME SamplesOK, ItemOK, NEW cmd \in Axes, Sample(cmd)
  PROVE  SamplesOK' /\ ItemOK' /\ confState' = confState
<1>1. cmd \in 0 .. 22
  BY NumbersHold, InputsAssumption DEF Numbers
<1>2. CountUp(xCount) \in Nat /\ CountUp(yCount) \in Nat
  BY CountUpType DEF SamplesOK
<1>3. xCount' \in Nat /\ yCount' \in Nat
  BY <1>2 DEF Sample, SamplesOK
<1>4. xValue' \in -1 .. 22 /\ yValue' \in -1 .. 22
  BY <1>1 DEF Sample, SamplesOK
<1>5. (xCount' > 0 => xValue' # -1) /\ (yCount' > 0 => yValue' # -1)
  BY <1>1 DEF Sample, SamplesOK, CountsBelongToAnAxis
<1>6. ItemOK' /\ confState' = confState
  BY DEF Sample, ItemOK
<1> QED
  BY <1>3, <1>4, <1>5, <1>6 DEF SamplesOK, CountsBelongToAnAxis

\* What is recorded was counted, and so it is an axis.
LEMMA checkAxisInv ==
  ASSUME SamplesOK, ItemOK, confState \in 15 .. 18, NEW cmd \in Axes,
         NEW next \in 15 .. 20, checkAxis(cmd, next)
  PROVE  SamplesOK' /\ ItemOK' /\ confState' \notin 0 .. 3
<1>1. CASE xCount > Threshold /\ yCount > Threshold
  <2>1. xValue \in 0 .. 22 /\ yValue \in 0 .. 22
    BY <1>1, InputsAssumption DEF SamplesOK, CountsBelongToAnAxis
  <2>2. gControllerButton' \in [0 .. 22 -> 0 .. 23]
    BY <1>1, <2>1 DEF checkAxis, ItemOK
  <2>3. ItemOK' /\ confState' \notin 0 .. 3
    BY <1>1, <2>2 DEF checkAxis, Ask, ItemOK
  <2> QED
    BY <1>1, <2>3, NoSamplesType DEF checkAxis
<1>2. CASE ~(xCount > Threshold /\ yCount > Threshold)
  BY <1>2, SampleInv DEF checkAxis
<1> QED
  BY <1>1, <1>2

\* Of the trigger's two ways on, each keeps the item well-formed.
LEMMA checkTriggerInv ==
  ASSUME SamplesOK, ItemOK, confState \in 19 .. 20, NEW cmd \in Axes,
         \/ checkTrigger(cmd, Ask(AXIS_RIGHTTRIGGER))
         \/ checkTrigger(cmd, setMapping)
  PROVE  SamplesOK' /\ ItemOK' /\ confState' \notin 0 .. 3
<1>1. cmd \in 0 .. 22
  BY NumbersHold, InputsAssumption DEF Numbers
<1>2. CASE xCount > Threshold
  <2>1. xValue \in 0 .. 22
    BY <1>2, InputsAssumption DEF SamplesOK, CountsBelongToAnAxis
  <2>2. /\ gControllerButton' = [gControllerButton EXCEPT ![confState] = xValue]
        /\ Ask(AXIS_RIGHTTRIGGER) \/ setMapping
        /\ NoTriggerSamples
    BY <1>2 DEF checkTrigger
  <2>3. gControllerButton' \in [0 .. 22 -> 0 .. 23]
    BY <2>1, <2>2 DEF ItemOK
  <2>4. ItemOK' /\ confState' \notin 0 .. 3
    BY <2>2, <2>3, NumbersHold, AskType, setMappingType DEF Numbers
  <2> QED
    BY <2>2, <2>4, NoTriggerSamplesType
<1>3. CASE ~(xCount > Threshold)
  <2>1. /\ xCount' = IF xValue = cmd THEN CountUp(xCount) ELSE xCount
        /\ xValue' = IF xValue = -1 THEN cmd ELSE xValue
        /\ moved' = moved \cup {cmd}
        /\ UNCHANGED <<gControllerConf, confState, gControllerButton, yCount, yValue>>
    BY <1>3 DEF checkTrigger
  <2>2. CountUp(xCount) \in Nat
    BY CountUpType DEF SamplesOK
  <2>3. SamplesOK'
    BY <1>1, <2>1, <2>2 DEF SamplesOK, CountsBelongToAnAxis
  <2> QED
    BY <2>1, <2>3 DEF ItemOK
<1> QED
  BY <1>2, <1>3

LEMMA HearAxisInv ==
  ASSUME SamplesOK, ItemOK, NEW cmd \in Axes, HearAxis(cmd)
  PROVE  SamplesOK' /\ ItemOK' /\ confState' \notin 0 .. 3
<1>1. CASE confState = LEFTSTICK_X /\ checkAxis(cmd, RIGHTSTICK_X)
  BY <1>1, checkAxisInv, NumbersHold DEF Numbers
<1>2. CASE confState = RIGHTSTICK_X /\ checkAxis(cmd, AXIS_LEFTTRIGGER)
  BY <1>2, checkAxisInv, NumbersHold DEF Numbers
<1>3. CASE /\ confState = AXIS_LEFTTRIGGER
           /\ checkTrigger(cmd, Ask(AXIS_RIGHTTRIGGER))
  BY <1>3, checkTriggerInv, NumbersHold DEF Numbers
<1>4. CASE confState = AXIS_RIGHTTRIGGER /\ checkTrigger(cmd, setMapping)
  BY <1>4, checkTriggerInv, NumbersHold DEF Numbers
<1> QED
  BY <1>1, <1>2, <1>3, <1>4 DEF HearAxis

\* axisIterator is at most 3 when gAxis[] is written: the iterators fit the dpad.
LEMMA AnswerDpadInv ==
  ASSUME WizardInv, gControllerConf, NEW cmd \in Axes, NEW negative \in BOOLEAN,
         AnswerDpad(cmd, negative),
         UNCHANGED <<hats, heard, gControllerButton>>
  PROVE  /\ ItemOK' /\ AxesOK' /\ given' \in [0 .. 3 -> Given] /\ IteratorsFitTheDpad'
<1>1. confState \in 0 .. 3 /\ cmd \in Int /\ cmd \in Axes
  BY Parts, NumbersHold, InputsAssumption DEF Numbers, ItemOK, AnswerDpad
<1>2. hatIterator \in Nat /\ axisIterator \in 0 .. 4 /\ hatIterator + axisIterator <= confState
  BY <1>1, Parts, NumbersHold DEF Numbers, AxesOK, IteratorsFitTheDpad
<1>3. AxesOK'
  BY <1>1, <1>2, Parts DEF AnswerDpad, AxesOK
<1>4. ItemOK'
  BY <1>1, Parts DEF AnswerDpad, Ask, ItemOK
<1>5. given' \in [0 .. 3 -> Given]
  <2>1. <<"a", cmd, negative>> \in {"a"} \X Axes \X BOOLEAN
    OBVIOUS
  <2>2. <<"a", cmd, negative>> \in Given
    BY <2>1 DEF Given
  <2> QED
    BY <2>2, Parts DEF AnswerDpad
<1>6. IteratorsFitTheDpad'
  <2>1. /\ hatIterator' = hatIterator /\ heard' = heard
        /\ confState' = confState + 1 /\ axisIterator' = axisIterator + 1
    BY DEF AnswerDpad, Ask, hats
  <2> QED
    BY <1>1, <1>2, <2>1, Parts, NumbersHold DEF Numbers, IteratorsFitTheDpad
<1> QED
  BY <1>3, <1>4, <1>5, <1>6

LEMMA AxisInv ==
  ASSUME WizardInv, NEW cmd \in Axes, NEW negative \in BOOLEAN,
         statemachineConfAxis(cmd, negative)
  PROVE  WizardInv'
<1>1. gControllerConf /\ UNCHANGED <<hats, second, heard>>
  BY DEF statemachineConfAxis
<1>2. HatsOK' /\ secondRun' \in Int
  BY <1>1, Parts DEF hats, second, HatsOK
<1>3. CASE HearAxis(cmd) /\ UNCHANGED <<axes, given>>
  <2>1. SamplesOK' /\ ItemOK' /\ confState' \notin 0 .. 3
    BY <1>3, Parts, HearAxisInv
  <2>2. AxesOK' /\ given' \in [0 .. 3 -> Given]
    BY <1>3, Parts DEF axes, AxesOK
  <2>3. IteratorsFitTheDpad'
    BY <1>1, <2>1, Parts, NumbersHold DEF Numbers, IteratorsFitTheDpad, hats
  <2> QED
    BY <1>2, <2>1, <2>2, <2>3, PartsNext
<1>4. CASE AnswerDpad(cmd, negative) /\ UNCHANGED <<gControllerButton, samples>>
  BY <1>1, <1>2, <1>4, AnswerDpadInv, Parts, SamplesKept, PartsNext
<1> QED
  BY <1>3, <1>4 DEF statemachineConfAxis

-----------------------------------------------------------------------------
(* Hats.                                                                   *)

\* What StoredHat writes, in bounds and, in either layout, beyond.
LEMMA StoredHatType ==
  ASSUME HatsOK, SamplesOK, NEW hat \in Hats, NEW value \in HatValues
  PROVE  LET m == StoredHat(hat, value)
         IN  /\ m.gHat \in [0 .. 3 -> Int] /\ m.gHatValue \in [0 .. 3 -> Int]
             /\ m.hatIterator \in Nat
             /\ m.yValue = yValue \/ m.yValue \in 0 .. 3
             /\ hatIterator \in 0 .. 3 => m.hatIterator = hatIterator
<1>1. hat \in 0 .. 3 /\ value \in {1, 2, 4, 8}
  BY InputsAssumption
<1>2. CASE hatIterator \in 0 .. 3
  BY <1>1, <1>2 DEF StoredHat, HatsOK
<1>3. CASE hatIterator \notin 0 .. 3 /\ Build = "O2"
  BY <1>1, <1>3 DEF StoredHat, HatsOK
<1>4. CASE hatIterator \notin 0 .. 3 /\ Build # "O2" /\ hatIterator = 4
  BY <1>1, <1>4 DEF StoredHat, HatsOK
<1>5. CASE hatIterator \notin 0 .. 3 /\ Build # "O2" /\ hatIterator # 4
  BY <1>1, <1>5 DEF StoredHat, HatsOK
<1> QED
  BY <1>2, <1>3, <1>4, <1>5

LEMMA HatInv ==
  ASSUME WizardInv, NEW hat \in Hats, NEW value \in HatValues, NEW own \in BOOLEAN,
         statemachineConfHat(hat, value, own)
  PROVE  WizardInv'
<1> DEFINE m == StoredHat(hat, value)
<1>1. /\ m.gHat \in [0 .. 3 -> Int] /\ m.gHatValue \in [0 .. 3 -> Int]
      /\ m.hatIterator \in Nat
      /\ m.yValue = yValue \/ m.yValue \in 0 .. 3
      /\ hatIterator \in 0 .. 3 => m.hatIterator = hatIterator
  BY Parts, StoredHatType
<1>2. /\ gHat' = m.gHat /\ gHatValue' = m.gHatValue /\ yValue' = m.yValue
      /\ heard' = IF hatIterator \in 0 .. 3 /\ heard # "overrun" THEN "hat" ELSE "overrun"
      /\ UNCHANGED <<gControllerButton, axes, secondRun, xCount, yCount, xValue>>
      /\ \/ /\ hatIterator' = m.hatIterator + 1 /\ confState \in 0 .. 3
            /\ Ask(confState + 1)
            /\ given' = [given EXCEPT ![confState] = <<"h", hat, value>>]
         \/ /\ hatIterator' = m.hatIterator
            /\ UNCHANGED <<gControllerConf, confState, given, moved>>
  <2>1. DPAD_UP \in 0 .. 3 /\ Dpad = 0 .. 3
    BY NumbersHold DEF Numbers
  <2> QED
    BY <2>1, ZenonT(60) DEF statemachineConfHat
<1>3. secondRunHat' \in Int /\ secondRunValue' \in Int
  <2>1. /\ secondRunHat' \in {secondRunHat, hat, -1}
        /\ secondRunValue' \in {secondRunValue, value, -1}
    BY Zenon DEF statemachineConfHat
  <2> QED
    BY <2>1, Parts, InputsAssumption DEF HatsOK
<1>0. gControllerConf
  BY DEF statemachineConfHat
<1> HIDE DEF m
<1>4. SamplesOK'
  BY <1>1, <1>2, Parts DEF SamplesOK, CountsBelongToAnAxis
<1>5. AxesOK' /\ secondRun' \in Int
  BY <1>2, Parts DEF axes, AxesOK
<1>6. HatsOK'
  <2>1. heard' \in {"nothing", "hat", "overrun"}
    BY <1>2
  <2>2. hatIterator' \in Nat
    BY <1>1, <1>2
  <2>3. gHat' \in [0 .. 3 -> Int] /\ gHatValue' \in [0 .. 3 -> Int]
    BY <1>1, <1>2
  <2> QED
    BY <1>3, <2>1, <2>2, <2>3 DEF HatsOK
<1>7. hatIterator \in Nat /\ axisIterator \in 0 .. 4 /\ confState \in 0 .. 20
  BY Parts DEF HatsOK, AxesOK, ItemOK
<1>8. axisIterator' = axisIterator
  BY <1>2 DEF axes
<1>9. confState \in 0 .. 3 => hatIterator + axisIterator <= confState
  BY <1>0, Parts, NumbersHold DEF Numbers, IteratorsFitTheDpad
<1>10. CASE /\ hatIterator' = m.hatIterator + 1 /\ confState \in 0 .. 3
            /\ Ask(confState + 1)
            /\ given' = [given EXCEPT ![confState] = <<"h", hat, value>>]
  <2>1. ItemOK'
    BY <1>2, <1>10, Parts DEF Ask, ItemOK
  <2>2. given' \in [0 .. 3 -> Given]
    <3>1. <<"h", hat, value>> \in {"h"} \X Hats \X HatValues
      OBVIOUS
    <3>2. <<"h", hat, value>> \in Given
      BY <3>1 DEF Given
    <3> QED
      BY <1>10, <3>2, Parts
  <2>3. /\ hatIterator \in 0 .. 3 /\ hatIterator' = hatIterator + 1
        /\ confState' = confState + 1
    BY <1>1, <1>7, <1>9, <1>10 DEF Ask
  <2>4. IteratorsFitTheDpad'
    BY <1>7, <1>8, <1>9, <1>10, <2>3, NumbersHold DEF Numbers, IteratorsFitTheDpad
  <2> QED
    BY <1>4, <1>5, <1>6, <2>1, <2>2, <2>4, PartsNext
<1>11. CASE /\ hatIterator' = m.hatIterator
            /\ UNCHANGED <<gControllerConf, confState, given, moved>>
  <2>1. ItemOK' /\ given' \in [0 .. 3 -> Given]
    BY <1>2, <1>11, Parts DEF ItemOK
  <2>2. CASE hatIterator \in 0 .. 3
    <3>1. hatIterator' = hatIterator
      BY <1>1, <1>11, <2>2
    <3> QED
      BY <1>4, <1>5, <1>6, <1>7, <1>8, <1>9, <1>11, <2>1, <2>2, <3>1, PartsNext, NumbersHold
         DEF Numbers, IteratorsFitTheDpad
  <2>3. CASE hatIterator \notin 0 .. 3
    <3>1. confState' \notin 0 .. 3 /\ heard' = "overrun"
      BY <1>2, <1>7, <1>9, <1>11, <2>3
    <3>2. IteratorsFitTheDpad'
      BY <3>1, NumbersHold DEF Numbers, IteratorsFitTheDpad
    <3> QED
      BY <1>4, <1>5, <1>6, <2>1, <3>2, PartsNext
  <2> QED
    BY <2>2, <2>3
<1> QED
  BY <1>2, <1>10, <1>11

-----------------------------------------------------------------------------
LEMMA WizardNext == WizardInv /\ [Next]_vars => WizardInv'
<1> SUFFICES ASSUME WizardInv, [Next]_vars PROVE WizardInv'
  OBVIOUS
<1>1. CASE startControllerConf
  BY <1>1, StartInv
<1>2. CASE resetStatemachine
  BY <1>2, ResetInv
<1>3. CASE \E cmd \in Buttons \cup {SKIP_ITEM} : statemachineConf(cmd)
  BY <1>3, ButtonInv
<1>4. CASE \E cmd \in Axes, negative \in BOOLEAN : statemachineConfAxis(cmd, negative)
  BY <1>4, AxisInv
<1>5. CASE \E hat \in Hats, value \in HatValues, own \in BOOLEAN :
             statemachineConfHat(hat, value, own)
  BY <1>5, HatInv
<1>6. CASE UNCHANGED vars
  <2>1. SamplesOK' /\ ItemOK' /\ HatsOK' /\ AxesOK'
    BY <1>6, Parts DEF vars, samples, hats, axes, second, history, SamplesOK, ItemOK,
                       HatsOK, AxesOK, CountsBelongToAnAxis
  <2>2. secondRun' \in Int /\ given' \in [0 .. 3 -> Given] /\ IteratorsFitTheDpad'
    BY <1>6, Parts DEF vars, second, hats, axes, history, IteratorsFitTheDpad
  <2> QED
    BY <2>1, <2>2, PartsNext
<1> QED
  BY <1>1, <1>2, <1>3, <1>4, <1>5, <1>6 DEF Next

LEMMA WizardInvHolds == Spec => []WizardInv
  BY InitInv, WizardNext, PTL DEF Spec

\* Every variable of the wizard keeps its type; a write to gAxis[] or a read of
\* gControllerButton[] at an index that does not exist would break it.
THEOREM WizardTypeCorrect == Spec => []TypeOK
<1>1. WizardInv => TypeOK
  BY DEF WizardInv
<1> QED
  BY <1>1, WizardInvHolds, PTL

\* However buttons, hats, axes and ENTER are mixed, hatIterator and axisIterator
\* never run ahead of the directions the wizard has asked for.
THEOREM IteratorsCorrect == Spec => []IteratorsFitTheDpad
<1>1. WizardInv => IteratorsFitTheDpad
  BY DEF WizardInv
<1> QED
  BY <1>1, WizardInvHolds, PTL

\* A count never outlives the axis it counts, for any threshold: what checkAxis and
\* checkTrigger record is never -1.
THEOREM CountsCorrect == Spec => []CountsBelongToAnAxis
<1>1. WizardInv => CountsBelongToAnAxis
  BY DEF WizardInv
<1> QED
  BY <1>1, WizardInvHolds, PTL
=============================================================================
