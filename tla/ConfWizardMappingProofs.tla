----------------------- MODULE ConfWizardMappingProofs -----------------------
(***************************************************************************)
(* Theorems about what ConfWizard records, for every value of its          *)
(* constants: the axes of sticks and triggers, a dpad of one kind, and one *)
(* answer for each question.                                               *)
(***************************************************************************)
EXTENDS ConfWizardProofs, Sequences

-----------------------------------------------------------------------------
(* Sticks and triggers: the inductive invariant.                           *)

\* What is still to be asked for has no entry.
Unset ==
  gControllerConf =>
    /\ confState <= 15 => gControllerButton[15] = 23 /\ gControllerButton[16] = 23
    /\ confState <= 17 => gControllerButton[17] = 23 /\ gControllerButton[18] = 23
    /\ confState <= 19 => gControllerButton[19] = 23
    /\ gControllerButton[20] = 23

\* The samples belong to the present item, differ, and are none of the item before.
SamplesApart ==
  gControllerConf /\ heard # "overrun" =>
    /\ confState \in {15, 17} =>
         /\ yValue # -1 => xValue # -1 /\ xValue # yValue
         /\ xValue \in moved \cup {-1} /\ yValue \in moved \cup {-1}
    /\ confState = 17 =>
         /\ xValue # gControllerButton[15] /\ xValue # gControllerButton[16]
         /\ yValue # gControllerButton[15] /\ yValue # gControllerButton[16]
    /\ confState = 19 => xValue # gControllerButton[17] /\ xValue # gControllerButton[18]
    /\ confState = 20 => xValue # gControllerButton[19]

\* AxesAreDistinct, with the numbers of the items.
Distinct ==
  confState >= 15 /\ heard # "overrun" =>
    /\ gControllerButton[15] # 23 => gControllerButton[15] # gControllerButton[16]
    /\ gControllerButton[17] # 23 =>
         /\ gControllerButton[17] # gControllerButton[18]
         /\ gControllerButton[17] # gControllerButton[15]
         /\ gControllerButton[17] # gControllerButton[16]
         /\ gControllerButton[18] # gControllerButton[15]
         /\ gControllerButton[18] # gControllerButton[16]
    /\ gControllerButton[19] # 23 =>
         gControllerButton[19] # gControllerButton[17] /\ gControllerButton[19] # gControllerButton[18]
    /\ gControllerButton[20] # 23 => gControllerButton[20] # gControllerButton[19]

SticksOK == Unset /\ SamplesApart /\ Distinct

\* "twirl left stick": a new entry of a stick is an axis moved meanwhile.
Twirled ==
  \A k \in 15 .. 18 :
    gControllerButton'[k] # gControllerButton[k] /\ gControllerButton'[k] # 23
      /\ heard # "overrun" => gControllerButton'[k] \in moved

LEMMA Ranges ==
  ASSUME WizardInv
  PROVE  /\ confState \in 0 .. 20 /\ gControllerConf \in BOOLEAN
         /\ gControllerButton \in [0 .. 22 -> 0 .. 23]
         /\ xCount \in Nat /\ yCount \in Nat /\ xValue \in -1 .. 22 /\ yValue \in -1 .. 22
         /\ (xCount > 0 => xValue # -1) /\ (yCount > 0 => yValue # -1)
  BY Parts DEF SamplesOK, ItemOK, CountsBelongToAnAxis

-----------------------------------------------------------------------------
(* What the steps do to sticks and triggers.                               *)

\* Steps that record nothing for a stick or a trigger and forget the samples, or stay
\* with the item and keep them.
LEMMA SticksKept ==
  ASSUME WizardInv, WizardInv', SticksOK,
         \A k \in 15 .. 20 : gControllerButton'[k] = gControllerButton[k],
         gControllerConf' => gControllerConf, heard' \in {heard, "overrun"},
         \/ confState' = confState /\ moved' = moved /\ xValue' = xValue
            /\ (yValue' = yValue \/ heard' = "overrun")
         \/ gControllerConf /\ confState' >= confState /\ xValue' = -1
            /\ (yValue' = -1 \/ confState' \in {19, 20})
         \/ confState <= 15 /\ confState' < 15
         \/ gControllerConf /\ confState = 19 /\ confState' = 20 /\ xValue' = xValue
         \/ ~gControllerConf' /\ confState' = confState
  PROVE  SticksOK' /\ Twirled
<1>1. Unset'
  <2> SUFFICES ASSUME gControllerConf'
               PROVE  Unset'
    BY DEF Unset
  <2>1. /\ confState \in 0 .. 20 /\ confState' \in 0 .. 20
        /\ confState' >= confState \/ (confState <= 15 /\ confState' < 15)
    BY Ranges, PartsNext DEF ItemOK
  <2>2. CASE confState' >= confState
    BY <2>1, <2>2 DEF SticksOK, Unset
  <2>3. CASE confState <= 15 /\ confState' < 15
    BY <2>1, <2>3 DEF SticksOK, Unset
  <2> QED
    BY <2>1, <2>2, <2>3
<1>2. /\ \A k \in 15 .. 20 : gControllerButton[k] # -1
      /\ confState \in 0 .. 20 /\ confState' \in 0 .. 20
  BY Ranges, PartsNext DEF ItemOK
<1>3. SamplesApart'
  <2>1. gControllerConf /\ confState = 19 => xValue # gControllerButton[19]
    BY Ranges DEF SticksOK, Unset
  <2> QED
    BY <1>2, <2>1 DEF SticksOK, SamplesApart
<1>4. Twirled
  BY DEF Twirled
<1>5. CASE confState >= 15 \/ confState' < 15
  <2>1. Distinct'
    BY <1>2, <1>5 DEF SticksOK, Distinct
  <2> QED
    BY <1>1, <1>3, <1>4, <2>1 DEF SticksOK
<1>6. CASE confState < 15 /\ confState' >= 15 /\ gControllerConf
  <2>1. \A k \in 15 .. 20 : gControllerButton'[k] = 23
    BY <1>2, <1>6 DEF SticksOK, Unset
  <2>2. Distinct'
    BY <2>1 DEF Distinct
  <2> QED
    BY <1>1, <1>3, <1>4, <2>2 DEF SticksOK
<1>7. CASE confState < 15 /\ confState' >= 15 /\ ~gControllerConf
  BY <1>2, <1>7
<1> QED
  BY <1>2, <1>5, <1>6, <1>7

LEMMA StartSticks ==
  ASSUME startControllerConf
  PROVE  SticksOK' /\ Twirled
<1>1. confState' = 0 /\ gControllerButton' = [i \in 0 .. 22 |-> 23]
  BY NumbersHold DEF Numbers, startControllerConf
<1>2. \A k \in 15 .. 20 : gControllerButton'[k] = 23
  BY <1>1
<1> QED
  BY <1>1, <1>2 DEF SticksOK, Unset, SamplesApart, Distinct, Twirled

LEMMA ResetSticks ==
  ASSUME WizardInv, WizardInv', SticksOK, resetStatemachine
  PROVE  SticksOK' /\ Twirled
<1>1. ~gControllerConf' /\ confState' = confState /\ UNCHANGED <<gControllerButton, heard>>
  BY DEF resetStatemachine, history
<1> QED
  BY <1>1, SticksKept

LEMMA ButtonSticks ==
  ASSUME WizardInv, WizardInv', SticksOK, NEW cmd \in Buttons \cup {SKIP_ITEM},
         statemachineConf(cmd)
  PROVE  SticksOK' /\ Twirled
<1>0. gControllerConf
  BY DEF statemachineConf
<1>r. confState \in 0 .. 20 /\ gControllerButton \in [0 .. 22 -> 0 .. 23]
  BY Ranges
<1>1. CASE AnswerItem(cmd)
  <2>1. CASE /\ UNCHANGED <<gControllerConf, confState, gControllerButton, samples,
                            given, moved, heard>>
    BY <2>1, SticksKept DEF samples
  <2>2. CASE /\ confState < 15 /\ gControllerButton' = Recorded(confState, cmd)
             /\ Ask(NextItem(confState))
             /\ IF confState = GUIDE THEN NoSamples ELSE UNCHANGED samples
             /\ UNCHANGED heard
    <3>1. \A k \in 15 .. 20 : gControllerButton'[k] = gControllerButton[k]
      BY <1>r, <2>2 DEF Recorded
    <3>2. /\ gControllerConf' = gControllerConf
          /\ confState = 9 => confState' = 15 /\ xValue' = -1 /\ yValue' = -1
          /\ confState # 9 => confState' < 15
      BY <1>r, <2>2, NumbersHold DEF Numbers, Ask, NextItem, NoSamples
    <3> QED
      BY <1>0, <1>r, <2>2, <3>1, <3>2, SticksKept
  <2> QED
    BY <1>1, <2>1, <2>2, NumbersHold DEF AnswerItem, Numbers
<1>2. CASE AnswerTrigger(cmd)
  <2>1. CASE /\ confState = 19 /\ gControllerButton' = Recorded(21, cmd)
             /\ confState' = 20 /\ UNCHANGED <<gControllerConf, samples, heard>>
    <3>1. \A k \in 15 .. 20 : gControllerButton'[k] = gControllerButton[k]
      BY <1>r, <2>1 DEF Recorded
    <3> QED
      BY <1>0, <2>1, <3>1, SticksKept DEF samples
  <2>2. CASE /\ confState = 20 /\ gControllerButton' = Recorded(22, cmd)
             /\ gControllerConf' = FALSE /\ UNCHANGED <<confState, heard>>
    <3>1. \A k \in 15 .. 20 : gControllerButton'[k] = gControllerButton[k]
      BY <1>r, <2>2 DEF Recorded
    <3> QED
      BY <2>2, <3>1, SticksKept
  <2> QED
    BY <1>2, <2>1, <2>2, NumbersHold DEF AnswerTrigger, Numbers, Ask, setMapping
<1>3. CASE SkipAxis
  <2>1. UNCHANGED <<gControllerButton, heard>>
    BY <1>3 DEF SkipAxis
  <2>2. \/ /\ gControllerConf' = gControllerConf /\ confState' >= confState /\ xValue' = -1
           /\ yValue' = -1 \/ confState' \in {19, 20}
        \/ ~gControllerConf' /\ confState' = confState
    BY <1>3, NumbersHold DEF Numbers, SkipAxis, Ask, setMapping, NoSamples, NoTriggerSamples
  <2> QED
    BY <1>0, <2>1, <2>2, SticksKept
<1> QED
  BY <1>1, <1>2, <1>3 DEF statemachineConf

\* Sample takes up only the axis that was moved, and keeps the two apart.
LEMMA SampleSticks ==
  ASSUME WizardInv, WizardInv', SticksOK, gControllerConf, NEW cmd \in Axes,
         \/ confState = 15
         \/ confState = 17 /\ gControllerButton[15] # cmd /\ gControllerButton[16] # cmd,
         Sample(cmd), UNCHANGED heard
  PROVE  SticksOK' /\ Twirled
<1>1. /\ xValue' \in {xValue, cmd} /\ yValue' \in {xValue, yValue, cmd}
      /\ moved' = moved \cup {cmd}
      /\ UNCHANGED <<gControllerConf, confState, gControllerButton>>
  BY DEF Sample
<1>2. Unset' /\ Distinct' /\ Twirled
  BY <1>1 DEF SticksOK, Unset, Distinct, Twirled
<1>3. cmd \in 0 .. 22 /\ xValue \in -1 .. 22 /\ yValue \in -1 .. 22
  BY Ranges, InputsAssumption, NumbersHold DEF Numbers
<1>4. CASE heard = "overrun"
  BY <1>2, <1>4 DEF SticksOK, SamplesApart
<1>5. CASE heard # "overrun"
  <2>1. /\ yValue # -1 => xValue # -1 /\ xValue # yValue
        /\ xValue \in moved \cup {-1} /\ yValue \in moved \cup {-1}
    BY <1>5 DEF SticksOK, SamplesApart
  <2>2. yValue' # -1 => xValue' # -1 /\ xValue' # yValue'
    BY <1>3, <2>1 DEF Sample
  <2>3. xValue' \in moved' \cup {-1} /\ yValue' \in moved' \cup {-1}
    BY <1>1, <2>1
  <2>4. confState = 17 =>
          /\ xValue' # gControllerButton'[15] /\ xValue' # gControllerButton'[16]
          /\ yValue' # gControllerButton'[15] /\ yValue' # gControllerButton'[16]
    BY <1>1, <1>5 DEF SticksOK, SamplesApart
  <2>5. SamplesApart'
    BY <1>1, <2>2, <2>3, <2>4 DEF SamplesApart
  <2> QED
    BY <1>2, <2>5 DEF SticksOK
<1> QED
  BY <1>4, <1>5

\* checkAxis
LEMMA checkAxisSticks ==
  ASSUME WizardInv, WizardInv', SticksOK, gControllerConf, NEW cmd \in Axes,
         NEW next \in {17, 19},
         \/ confState = 15 /\ next = 17
         \/ /\ confState = 17 /\ next = 19
            /\ gControllerButton[15] # cmd /\ gControllerButton[16] # cmd,
         checkAxis(cmd, next), UNCHANGED heard
  PROVE  SticksOK' /\ Twirled
<1>1. CASE xCount > Threshold /\ yCount > Threshold
  <2>1. /\ gControllerButton' = [gControllerButton EXCEPT ![confState] = xValue,
                                                          ![confState + 1] = yValue]
        /\ confState' = next /\ gControllerConf' = gControllerConf
        /\ xValue' = -1 /\ yValue' = -1
    BY <1>1 DEF checkAxis, Ask, NoSamples
  <2>2. /\ gControllerButton \in [0 .. 22 -> 0 .. 23] /\ gControllerButton' \in [0 .. 22 -> 0 .. 23]
        /\ xValue \in 0 .. 22 /\ yValue \in 0 .. 22
    BY <1>1, Ranges, PartsNext, InputsAssumption DEF ItemOK
  <2>3. /\ gControllerButton'[confState] = xValue /\ gControllerButton'[confState + 1] = yValue
        /\ \A k \in 15 .. 20 : k \notin {confState, confState + 1} =>
             gControllerButton'[k] = gControllerButton[k]
    BY <2>1, <2>2
  <2>4. SamplesApart'
    BY <2>1, <2>2 DEF SamplesApart
  <2>5. Unset'
    BY <2>1, <2>3 DEF SticksOK, Unset
  <2>6. heard # "overrun" =>
          xValue # yValue /\ xValue \in moved /\ yValue \in moved
    BY <2>2 DEF SticksOK, SamplesApart
  <2>7. Twirled
    <3> SUFFICES ASSUME NEW k \in 15 .. 18, gControllerButton'[k] # gControllerButton[k],
                        heard # "overrun"
                 PROVE  gControllerButton'[k] \in moved
      BY DEF Twirled
    <3>1. k \in {confState, confState + 1}
      BY <2>3
    <3> QED
      BY <2>3, <2>6, <3>1
  <2>8. confState = 15 => Distinct'
    BY <2>1, <2>3, <2>6 DEF SticksOK, Unset, Distinct
  <2>9. confState = 17 => Distinct'
    BY <2>1, <2>3, <2>6 DEF SticksOK, Unset, Distinct, SamplesApart
  <2> QED
    BY <2>4, <2>5, <2>7, <2>8, <2>9 DEF SticksOK
<1>2. CASE ~(xCount > Threshold /\ yCount > Threshold)
  BY <1>2, SampleSticks DEF checkAxis
<1> QED
  BY <1>1, <1>2

\* checkTrigger
LEMMA checkTriggerSticks ==
  ASSUME WizardInv, WizardInv', SticksOK, gControllerConf, NEW cmd \in Axes,
         \/ /\ confState = 19 /\ checkTrigger(cmd, Ask(AXIS_RIGHTTRIGGER))
            /\ gControllerButton[17] # cmd /\ gControllerButton[18] # cmd
         \/ /\ confState = 20 /\ checkTrigger(cmd, setMapping)
            /\ gControllerButton[19] # cmd,
         UNCHANGED heard
  PROVE  SticksOK' /\ Twirled
<1>1. CASE xCount > Threshold
  <2>1. /\ gControllerButton' = [gControllerButton EXCEPT ![confState] = xValue]
        /\ xValue' = -1 /\ confState' = 20
        /\ confState = 19 => gControllerConf' = gControllerConf
        /\ confState = 20 => ~gControllerConf'
    <3>1. /\ gControllerButton' = [gControllerButton EXCEPT ![confState] = xValue]
          /\ NoTriggerSamples
          /\ \/ confState = 19 /\ Ask(AXIS_RIGHTTRIGGER)
             \/ confState = 20 /\ setMapping
      BY <1>1 DEF checkTrigger
    <3>2. setMapping => ~gControllerConf' /\ confState' = confState
      BY Zenon DEF setMapping
    <3>3. Ask(AXIS_RIGHTTRIGGER) => gControllerConf' = gControllerConf /\ confState' = 20
      BY NumbersHold DEF Numbers, Ask
    <3>4. xValue' = -1
      BY <3>1 DEF NoTriggerSamples
    <3>5. confState' = 20
      BY <3>1, <3>2, <3>3
    <3>6. /\ confState = 19 => gControllerConf' = gControllerConf
          /\ confState = 20 => ~gControllerConf'
      <4>1. 19 # 20
        OBVIOUS
      <4> QED
        BY <3>1, <3>2, <3>3, <4>1, Zenon
    <3> QED
      BY <3>1, <3>4, <3>5, <3>6
  <2>2. /\ gControllerButton \in [0 .. 22 -> 0 .. 23] /\ gControllerButton' \in [0 .. 22 -> 0 .. 23]
        /\ xValue \in 0 .. 22
    BY <1>1, Ranges, PartsNext, InputsAssumption DEF ItemOK
  <2>3. /\ gControllerButton'[confState] = xValue
        /\ \A k \in 15 .. 20 : k # confState => gControllerButton'[k] = gControllerButton[k]
    <3>1. confState \in 0 .. 22 /\ \A k \in 15 .. 20 : k \in 0 .. 22
      OBVIOUS
    <3> QED
      BY <2>1, <2>2, <3>1, Zenon
  <2>4. SamplesApart'
    BY <2>1, <2>2 DEF SamplesApart
  <2>5. Unset' /\ Twirled
    BY <2>1, <2>3 DEF SticksOK, Unset, Twirled
  <2>6. Distinct'
    BY <2>1, <2>3 DEF SticksOK, Unset, Distinct, SamplesApart
  <2> QED
    BY <2>4, <2>5, <2>6 DEF SticksOK
<1>2. CASE ~(xCount > Threshold)
  <2>1. /\ xValue' \in {xValue, cmd}
        /\ UNCHANGED <<gControllerConf, confState, gControllerButton, yValue>>
    BY <1>2 DEF checkTrigger
  <2>2. Unset' /\ Distinct' /\ Twirled
    BY <2>1 DEF SticksOK, Unset, Distinct, Twirled
  <2>3. SamplesApart'
    BY <2>1 DEF SticksOK, SamplesApart
  <2> QED
    BY <2>2, <2>3 DEF SticksOK
<1> QED
  BY <1>1, <1>2

LEMMA AxisSticks ==
  ASSUME WizardInv, WizardInv', SticksOK, NEW cmd \in Axes, NEW negative \in BOOLEAN,
         statemachineConfAxis(cmd, negative)
  PROVE  SticksOK' /\ Twirled
<1>1. gControllerConf /\ UNCHANGED heard
  BY DEF statemachineConfAxis
<1>2. CASE confState = LEFTSTICK_X /\ checkAxis(cmd, RIGHTSTICK_X)
  BY <1>1, <1>2, checkAxisSticks, NumbersHold DEF Numbers
<1>3. CASE /\ confState = RIGHTSTICK_X /\ ~Taken(cmd, {LEFTSTICK_X, LEFTSTICK_X + 1})
           /\ checkAxis(cmd, AXIS_LEFTTRIGGER)
  <2>1. gControllerButton[15] # cmd /\ gControllerButton[16] # cmd
    BY <1>3, NumbersHold DEF Numbers, Taken
  <2> QED
    BY <1>1, <1>3, <2>1, checkAxisSticks, NumbersHold DEF Numbers
<1>4. CASE /\ confState = AXIS_LEFTTRIGGER /\ ~Taken(cmd, {RIGHTSTICK_X, RIGHTSTICK_X + 1})
           /\ checkTrigger(cmd, Ask(AXIS_RIGHTTRIGGER))
  <2>1. gControllerButton[17] # cmd /\ gControllerButton[18] # cmd
    BY <1>4, NumbersHold DEF Numbers, Taken
  <2> QED
    BY <1>1, <1>4, <2>1, checkTriggerSticks, NumbersHold DEF Numbers
<1>5. CASE /\ confState = AXIS_RIGHTTRIGGER /\ ~Taken(cmd, {AXIS_LEFTTRIGGER})
           /\ checkTrigger(cmd, setMapping)
  <2>1. gControllerButton[19] # cmd
    BY <1>5, NumbersHold DEF Numbers, Taken
  <2> QED
    BY <1>1, <1>5, <2>1, checkTriggerSticks, NumbersHold DEF Numbers
<1>6. CASE AnswerDpad(cmd, negative) /\ UNCHANGED gControllerButton
  <2>1. confState <= 3 /\ confState' = confState + 1 /\ gControllerConf' = gControllerConf
    BY <1>6, NumbersHold DEF Numbers, AnswerDpad, Ask
  <2>2. confState <= 15 /\ confState' < 15
    BY <2>1, Ranges
  <2> QED
    BY <1>1, <1>6, <2>1, <2>2, SticksKept
<1> QED
  BY <1>2, <1>3, <1>4, <1>5, <1>6 DEF statemachineConfAxis, HearAxis

\* A hat is taken for the direction that is asked for, or for nothing.
LEMMA HatStep ==
  ASSUME NEW hat \in Hats, NEW value \in HatValues, NEW own \in BOOLEAN,
         statemachineConfHat(hat, value, own)
  PROVE  /\ gControllerConf /\ UNCHANGED <<gControllerButton, axes, xValue>>
         /\ gHat' = StoredHat(hat, value).gHat /\ gHatValue' = StoredHat(hat, value).gHatValue
         /\ yValue' = StoredHat(hat, value).yValue
         /\ heard' = IF hatIterator \in 0 .. 3 /\ heard # "overrun" THEN "hat" ELSE "overrun"
         /\ \/ /\ hatIterator' = StoredHat(hat, value).hatIterator + 1 /\ confState \in 0 .. 3
               /\ Ask(confState + 1)
               /\ given' = [given EXCEPT ![confState] = <<"h", hat, value>>]
            \/ /\ hatIterator' = StoredHat(hat, value).hatIterator
               /\ UNCHANGED <<gControllerConf, confState, given, moved>>
<1> DEFINE m == StoredHat(hat, value)
<1>1. /\ gControllerConf /\ UNCHANGED <<gControllerButton, axes, xValue>>
      /\ gHat' = m.gHat /\ gHatValue' = m.gHatValue /\ yValue' = m.yValue
      /\ heard' = IF hatIterator \in 0 .. 3 /\ heard # "overrun" THEN "hat" ELSE "overrun"
  BY Zenon DEF statemachineConfHat
<1>2. DPAD_UP \in 0 .. 3 /\ Dpad = 0 .. 3
  BY NumbersHold DEF Numbers
<1>3. \/ /\ hatIterator' = m.hatIterator + 1 /\ confState \in 0 .. 3
         /\ Ask(confState + 1)
         /\ given' = [given EXCEPT ![confState] = <<"h", hat, value>>]
      \/ /\ hatIterator' = m.hatIterator
         /\ UNCHANGED <<gControllerConf, confState, given, moved>>
  BY <1>2, ZenonT(60) DEF statemachineConfHat
<1> QED
  BY <1>1, <1>3, Zenon

\* A hat inside the arrays is stored at hatIterator.
LEMMA HatInside ==
  ASSUME hatIterator \in 0 .. 3, NEW hat, NEW value
  PROVE  /\ StoredHat(hat, value).gHat = [gHat EXCEPT ![hatIterator] = hat]
         /\ StoredHat(hat, value).gHatValue = [gHatValue EXCEPT ![hatIterator] = value]
         /\ StoredHat(hat, value).hatIterator = hatIterator
         /\ StoredHat(hat, value).yValue = yValue
BY DEF StoredHat

LEMMA HatSticks ==
  ASSUME WizardInv, WizardInv', SticksOK, NEW hat \in Hats, NEW value \in HatValues,
         NEW own \in BOOLEAN, statemachineConfHat(hat, value, own)
  PROVE  SticksOK' /\ Twirled
<1> DEFINE m == StoredHat(hat, value)
<1>1. /\ gControllerConf /\ yValue' = m.yValue /\ UNCHANGED <<gControllerButton, xValue>>
      /\ heard' = IF hatIterator \in 0 .. 3 /\ heard # "overrun" THEN "hat" ELSE "overrun"
      /\ \/ confState \in Dpad /\ Ask(confState + 1)
         \/ UNCHANGED <<gControllerConf, confState, moved>>
  BY HatStep, NumbersHold DEF Numbers
<1>2. hatIterator \in 0 .. 3 => m.yValue = yValue
  BY HatInside
<1> HIDE DEF m
<1>3. yValue' = yValue \/ heard' = "overrun"
  BY <1>1, <1>2
<1>4. /\ heard' = "overrun" => SamplesApart' /\ Distinct'
      /\ heard' # "overrun" => heard # "overrun" /\ yValue' = yValue
  BY <1>1, <1>2 DEF SamplesApart, Distinct
<1>5. CASE confState \in Dpad /\ Ask(confState + 1)
  <2>1. confState < 4 /\ confState' = confState + 1 /\ confState \in Nat
    BY <1>5, NumbersHold DEF Numbers, Ask
  <2>2. Unset' /\ SamplesApart' /\ Distinct' /\ Twirled
    BY <1>1, <1>5, <2>1 DEF Ask, SticksOK, Unset, SamplesApart, Distinct, Twirled
  <2> QED
    BY <2>2 DEF SticksOK
<1>6. CASE UNCHANGED <<gControllerConf, confState, moved>>
  <2>1. Unset' /\ Twirled
    BY <1>1, <1>6 DEF SticksOK, Unset, Twirled
  <2>2. heard' # "overrun" => SamplesApart' /\ Distinct'
    BY <1>1, <1>4, <1>6 DEF SticksOK, SamplesApart, Distinct
  <2> QED
    BY <1>4, <2>1, <2>2 DEF SticksOK
<1> QED
  BY <1>1, <1>5, <1>6

LEMMA SticksNext ==
  ASSUME WizardInv, SticksOK, [Next]_vars
  PROVE  SticksOK' /\ Twirled
<1>0. WizardInv'
  BY WizardNext
<1>1. CASE startControllerConf
  BY <1>1, StartSticks
<1>2. CASE resetStatemachine
  BY <1>0, <1>2, ResetSticks
<1>3. CASE \E cmd \in Buttons \cup {SKIP_ITEM} : statemachineConf(cmd)
  BY <1>0, <1>3, ButtonSticks
<1>4. CASE \E cmd \in Axes, negative \in BOOLEAN : statemachineConfAxis(cmd, negative)
  BY <1>0, <1>4, AxisSticks
<1>5. CASE \E hat \in Hats, value \in HatValues, own \in BOOLEAN :
             statemachineConfHat(hat, value, own)
  BY <1>0, <1>5, HatSticks
<1>6. CASE UNCHANGED vars
  <2>1. UNCHANGED <<gControllerConf, confState, gControllerButton, xValue, yValue, moved, heard>>
    BY <1>6 DEF vars, samples, history
  <2> QED
    BY <1>0, <2>1, SticksKept
<1> QED
  BY <1>1, <1>2, <1>3, <1>4, <1>5, <1>6 DEF Next

LEMMA InitSticks == Init => SticksOK
  BY DEF Init, SticksOK, Unset, SamplesApart, Distinct

LEMMA DistinctIs == Distinct => AxesAreDistinct
  BY NumbersHold DEF Numbers, Distinct, AxesAreDistinct, Axis

LEMMA TwirledIs ==
  ASSUME Twirled
  PROVE  \A k \in LEFTSTICK_X .. RIGHTSTICK_X + 1 :
           Axis(k)' # Axis(k) /\ Axis(k)' # SKIP_ITEM /\ heard # "overrun"
             => Axis(k)' \in moved
  BY NumbersHold DEF Numbers, Twirled, Axis

-----------------------------------------------------------------------------
(* Theorems on sticks and triggers.                                        *)

\* Whatever is moved, skipped or given as a button, and however often the configuration
\* is begun anew, no axis is recorded for both directions of a stick, for both sticks,
\* for the right stick and the left trigger, or for both triggers.
THEOREM AxesDistinctAlways == Spec => []AxesAreDistinct
<1>1. Init => WizardInv /\ SticksOK
  BY InitInv, InitSticks
<1>2. WizardInv /\ SticksOK /\ [Next]_vars => WizardInv' /\ SticksOK'
  BY WizardNext, SticksNext
<1>3. SticksOK => AxesAreDistinct
  BY DistinctIs DEF SticksOK
<1> QED
  BY <1>1, <1>2, <1>3, PTL DEF Spec

\* The axes recorded for a stick were moved while that stick was asked for, for any
\* threshold: no sample of an earlier item, or of a configuration that was left, counts.
THEOREM SticksTwirled == Spec => SticksFromTheirOwnTwirl
<1>1. Init => WizardInv /\ SticksOK
  BY InitInv, InitSticks
<1>2. WizardInv /\ SticksOK /\ [Next]_vars => WizardInv' /\ SticksOK'
  BY WizardNext, SticksNext
<1>3. ASSUME WizardInv, SticksOK, [Next]_vars
      PROVE  [\A k \in LEFTSTICK_X .. RIGHTSTICK_X + 1 :
                Axis(k)' # Axis(k) /\ Axis(k)' # SKIP_ITEM /\ heard # "overrun"
                  => Axis(k)' \in moved]_vars
  BY <1>3, SticksNext, TwirledIs
<1> QED
  BY <1>1, <1>2, <1>3, PTL DEF Spec, SticksFromTheirOwnTwirl

-----------------------------------------------------------------------------
(* The dpad: the inductive invariant.                                      *)

Begun == gControllerConf \/ confState > 0

\* Which directions have been given, and which of them as buttons.
ButtonsGiven ==
  Begun => \A i \in 0 .. 3 :
    /\ i < confState <=> given[i] # <<>>
    /\ i < confState /\ given[i][1] = "b" =>
         given[i] = <<"b", gControllerButton[i]>> /\ gControllerButton[i] # 23
    /\ i >= confState \/ given[i][1] # "b" => gControllerButton[i] = 23

\* While all directions given are hats, gHat[] is filled from its beginning.
HatsGiven ==
  Begun =>
    /\ heard = "nothing" => \A i \in 0 .. 3 : gHat[i] = -1
    /\ heard # "overrun" /\ (\A i \in 0 .. 3 : i < confState => given[i][1] = "h") =>
         /\ confState <= 4 => hatIterator = confState
         /\ confState >= 4 => hatIterator = 4
         /\ \A i \in 0 .. 3 : i < confState =>
              /\ given[i] = <<"h", gHat[i], gHatValue[i]>>
              /\ gHat[i] \in Hats /\ gHatValue[i] \in HatValues

\* While all directions given are axes, so is gAxis[].
AxesGiven ==
  Begun /\ (\A i \in 0 .. 3 : i < confState => given[i][1] = "a") =>
    /\ confState <= 4 => axisIterator = confState
    /\ confState >= 4 => axisIterator = 4
    /\ \A i \in 0 .. 3 : i < confState =>
         given[i] = <<"a", gAxis[i], gAxisValue[i]>> /\ gAxis[i] \in Axes

DpadOK == ButtonsGiven /\ HatsGiven /\ AxesGiven

-----------------------------------------------------------------------------
(* What a step may do to the dpad.                                         *)

\* The step is not about the dpad.
Elsewhere ==
  /\ confState' \in 0 .. 20
  /\ confState' = confState \/ (confState >= 4 /\ confState' >= 4)
  /\ gControllerConf' => gControllerConf
  /\ \A i \in 0 .. 3 : gControllerButton'[i] = gControllerButton[i]
  /\ UNCHANGED <<given, gHat, gHatValue, hatIterator, heard, gAxis, gAxisValue, axisIterator>>

\* The direction asked for is given as answer.
Gives(answer) ==
  /\ gControllerConf /\ confState \in 0 .. 3 /\ confState' = confState + 1
  /\ given' = [given EXCEPT ![confState] = answer]

GivesButton(cmd) ==
  /\ Gives(IF cmd = 23 THEN <<"skip">> ELSE <<"b", cmd>>)
  /\ gControllerButton' = [gControllerButton EXCEPT ![confState] = cmd]
  /\ UNCHANGED <<gHat, gHatValue, hatIterator, heard, gAxis, gAxisValue, axisIterator>>

GivesAxis(cmd, negative) ==
  /\ Gives(<<"a", cmd, negative>>)
  /\ gAxis' = [gAxis EXCEPT ![axisIterator] = cmd]
  /\ gAxisValue' = [gAxisValue EXCEPT ![axisIterator] = negative]
  /\ axisIterator' = axisIterator + 1
  /\ UNCHANGED <<gControllerButton, gHat, gHatValue, hatIterator, heard>>

\* A hat is stored; what it overwrites beyond the arrays is remembered in heard.
Stores(hat, value) ==
  /\ UNCHANGED <<gControllerButton, gAxis, gAxisValue, axisIterator>>
  /\ heard' # "nothing"
  /\ heard' # "overrun" => /\ heard # "overrun" /\ hatIterator \in 0 .. 3
                           /\ gHat' = [gHat EXCEPT ![hatIterator] = hat]
                           /\ gHatValue' = [gHatValue EXCEPT ![hatIterator] = value]

GivesHat(hat, value) ==
  /\ Gives(<<"h", hat, value>>) /\ Stores(hat, value)
  /\ heard' # "overrun" => hatIterator' = hatIterator + 1

StoresHat(hat, value) ==
  /\ gControllerConf /\ Stores(hat, value)
  /\ heard' # "overrun" => hatIterator' = hatIterator
  /\ UNCHANGED <<gControllerConf, confState, given>>

LEMMA Kinds ==
  \A x, y : /\ <<"b", x>>[1] = "b" /\ <<"b", x>> # <<>> /\ <<"b", x>>[2] = x
            /\ <<"skip">>[1] = "skip" /\ <<"skip">> # <<>>
            /\ <<"a", x, y>>[1] = "a" /\ <<"a", x, y>> # <<>>
            /\ <<"h", x, y>>[1] = "h" /\ <<"h", x, y>> # <<>>
OBVIOUS

LEMMA DpadRanges ==
  ASSUME WizardInv
  PROVE  /\ confState \in 0 .. 20 /\ gControllerConf \in BOOLEAN
         /\ gControllerButton \in [0 .. 22 -> 0 .. 23] /\ given \in [0 .. 3 -> Given]
         /\ gHat \in [0 .. 3 -> Int] /\ gHatValue \in [0 .. 3 -> Int] /\ hatIterator \in Nat
         /\ gAxis \in [0 .. 3 -> Int] /\ gAxisValue \in [0 .. 3 -> BOOLEAN]
         /\ axisIterator \in 0 .. 4
         /\ gControllerConf /\ confState \in 0 .. 3 => hatIterator + axisIterator <= confState
  BY Parts, NumbersHold DEF Numbers, ItemOK, HatsOK, AxesOK, IteratorsFitTheDpad

\* What is given for the present direction changes no other one.
LEMMA Answered ==
  ASSUME WizardInv, NEW answer, Gives(answer)
  PROVE  /\ confState \in 0 .. 3 /\ given'[confState] = answer
         /\ \A i \in 0 .. 3 : i # confState => given'[i] = given[i]
  BY DpadRanges DEF Gives

-----------------------------------------------------------------------------
LEMMA ElsewhereKeeps ==
  ASSUME WizardInv, DpadOK, Elsewhere
  PROVE  DpadOK'
<1>1. Begun' => Begun
  BY DpadRanges DEF Elsewhere, Begun
<1>2. /\ confState \in 0 .. 20 /\ confState' \in 0 .. 20
      /\ \A i \in 0 .. 3 : i < confState' <=> i < confState
  BY DpadRanges DEF Elsewhere
<1>3. confState' = confState \/ (confState >= 4 /\ confState' >= 4)
  BY DEF Elsewhere
<1>4. ButtonsGiven'
  <2>1. \A i \in 0 .. 3 : i >= confState' <=> i >= confState
    BY <1>2, <1>3
  <2> QED
    BY <1>1, <1>2, <2>1 DEF Elsewhere, DpadOK, ButtonsGiven
<1>5. HatsGiven'
  <2>1. CASE confState' = confState
    BY <1>1, <2>1 DEF Elsewhere, DpadOK, HatsGiven
  <2>2. CASE confState >= 4 /\ confState' >= 4
    <3>1. \A i \in 0 .. 3 : i < confState /\ i < confState'
      BY <1>2, <2>2
    <3>2. confState' <= 4 => confState' = 4
      BY <2>2 DEF Elsewhere
    <3> QED
      BY <1>1, <2>2, <3>1, <3>2 DEF Elsewhere, DpadOK, HatsGiven
  <2> QED
    BY <1>3, <2>1, <2>2
<1>6. AxesGiven'
  <2>1. CASE confState' = confState
    BY <1>1, <2>1 DEF Elsewhere, DpadOK, AxesGiven
  <2>2. CASE confState >= 4 /\ confState' >= 4
    <3>1. \A i \in 0 .. 3 : i < confState /\ i < confState'
      BY <1>2, <2>2
    <3>2. confState' <= 4 => confState' = 4
      BY <2>2 DEF Elsewhere
    <3> QED
      BY <1>1, <2>2, <3>1, <3>2 DEF Elsewhere, DpadOK, AxesGiven
  <2> QED
    BY <1>3, <2>1, <2>2
<1> QED
  BY <1>4, <1>5, <1>6 DEF DpadOK

LEMMA GivesButtonKeeps ==
  ASSUME WizardInv, DpadOK, NEW cmd \in 0 .. 23, GivesButton(cmd)
  PROVE  DpadOK'
<1> DEFINE answer == IF cmd = 23 THEN <<"skip">> ELSE <<"b", cmd>>
<1>1. /\ Gives(answer) /\ gControllerConf
      /\ confState \in 0 .. 3 /\ confState' = confState + 1
      /\ given'[confState] = answer
      /\ \A i \in 0 .. 3 : i # confState => given'[i] = given[i]
      /\ gControllerButton'[confState] = cmd
      /\ \A i \in 0 .. 3 : i # confState => gControllerButton'[i] = gControllerButton[i]
  <2>1. Gives(answer)
    BY DEF GivesButton
  <2>2. gControllerConf /\ confState' = confState + 1
    BY <2>1 DEF Gives
  <2>3. /\ confState \in 0 .. 3 /\ given'[confState] = answer
        /\ \A i \in 0 .. 3 : i # confState => given'[i] = given[i]
    BY <2>1, Answered
  <2>4. gControllerButton' = [gControllerButton EXCEPT ![confState] = cmd]
    BY DEF GivesButton
  <2>5. \A i \in 0 .. 3 : i \in 0 .. 22
    OBVIOUS
  <2>6. /\ gControllerButton'[confState] = cmd
        /\ \A i \in 0 .. 3 : i # confState => gControllerButton'[i] = gControllerButton[i]
    BY <2>3, <2>4, <2>5, DpadRanges
  <2> QED
    BY <2>1, <2>2, <2>3, <2>6
<1>2. /\ answer # <<>> /\ answer[1] \in {"skip", "b"}
      /\ cmd # 23 => answer = <<"b", cmd>> /\ answer[1] = "b"
      /\ cmd = 23 => answer[1] = "skip"
  BY Kinds
<1> HIDE DEF answer
<1>3. Begun
  BY <1>1 DEF Begun
<1>4. ButtonsGiven'
  <2> SUFFICES ASSUME NEW i \in 0 .. 3
               PROVE  /\ i < confState' <=> given'[i] # <<>>
                      /\ i < confState' /\ given'[i][1] = "b" =>
                           /\ given'[i] = <<"b", gControllerButton'[i]>>
                           /\ gControllerButton'[i] # 23
                      /\ i >= confState' \/ given'[i][1] # "b" => gControllerButton'[i] = 23
    BY DEF ButtonsGiven
  <2>1. CASE i = confState
    BY <1>1, <1>2, <2>1
  <2>2. CASE i # confState
    BY <1>1, <1>3, <2>2 DEF DpadOK, ButtonsGiven
  <2> QED
    BY <2>1, <2>2
<1>5. given'[confState][1] \notin {"h", "a"} /\ confState < confState'
  BY <1>1, <1>2
<1>6. HatsGiven'
  BY <1>1, <1>3, <1>5 DEF GivesButton, DpadOK, HatsGiven
<1>7. AxesGiven'
  BY <1>1, <1>5 DEF AxesGiven
<1> QED
  BY <1>4, <1>6, <1>7 DEF DpadOK

LEMMA GivesAxisKeeps ==
  ASSUME WizardInv, DpadOK, NEW cmd \in Axes, NEW negative \in BOOLEAN, GivesAxis(cmd, negative)
  PROVE  DpadOK'
<1> DEFINE answer == <<"a", cmd, negative>>
<1>1. /\ Gives(answer) /\ gControllerConf
      /\ confState \in 0 .. 3 /\ confState' = confState + 1
      /\ given'[confState] = answer
      /\ \A i \in 0 .. 3 : i # confState => given'[i] = given[i]
      /\ gControllerButton' = gControllerButton
  BY Answered DEF GivesAxis, Gives
<1>2. answer # <<>> /\ answer[1] = "a"
  BY Kinds
<1>0. Begun
  BY <1>1 DEF Begun
<1>3. ButtonsGiven'
  <2> HIDE DEF answer
  <2> QED
    BY <1>0, <1>1, <1>2 DEF DpadOK, ButtonsGiven
<1>4. HatsGiven'
  <2>1. given'[confState][1] # "h" /\ confState < confState'
    BY <1>1, <1>2
  <2> QED
    BY <1>0, <1>1, <2>1 DEF GivesAxis, DpadOK, HatsGiven
<1>5. AxesGiven'
  <2> SUFFICES ASSUME \A i \in 0 .. 3 : i < confState' => given'[i][1] = "a"
               PROVE  /\ confState' <= 4 => axisIterator' = confState'
                      /\ confState' >= 4 => axisIterator' = 4
                      /\ \A i \in 0 .. 3 : i < confState' =>
                           /\ given'[i] = <<"a", gAxis'[i], gAxisValue'[i]>>
                           /\ gAxis'[i] \in Axes
    BY DEF AxesGiven
  <2>1. \A i \in 0 .. 3 : i < confState => given[i][1] = "a"
    BY <1>1
  <2>2. /\ axisIterator = confState
        /\ \A i \in 0 .. 3 : i < confState =>
             given[i] = <<"a", gAxis[i], gAxisValue[i]>> /\ gAxis[i] \in Axes
    BY <1>0, <1>1, <2>1 DEF DpadOK, AxesGiven
  <2>3. /\ gAxis'[confState] = cmd /\ gAxisValue'[confState] = negative
        /\ \A i \in 0 .. 3 : i # confState => gAxis'[i] = gAxis[i] /\ gAxisValue'[i] = gAxisValue[i]
        /\ axisIterator' = confState + 1
    BY <1>1, <2>2, DpadRanges DEF GivesAxis
  <2>4. ASSUME NEW i \in 0 .. 3, i < confState'
        PROVE  /\ given'[i] = <<"a", gAxis'[i], gAxisValue'[i]>>
               /\ gAxis'[i] \in Axes
    <3>1. CASE i = confState
      BY <1>1, <2>3, <3>1
    <3>2. CASE i < confState
      BY <1>1, <2>2, <2>3, <3>2
    <3> QED
      BY <1>1, <2>4, <3>1, <3>2
  <2> QED
    BY <1>1, <2>3, <2>4
<1> QED
  BY <1>3, <1>4, <1>5 DEF DpadOK

LEMMA GivesHatKeeps ==
  ASSUME WizardInv, DpadOK, NEW hat \in Hats, NEW value \in HatValues, GivesHat(hat, value)
  PROVE  DpadOK'
<1> DEFINE answer == <<"h", hat, value>>
<1>1. /\ Gives(answer) /\ gControllerConf
      /\ confState \in 0 .. 3 /\ confState' = confState + 1
      /\ given'[confState] = answer
      /\ \A i \in 0 .. 3 : i # confState => given'[i] = given[i]
      /\ gControllerButton' = gControllerButton
  BY Answered DEF GivesHat, Gives, Stores
<1>2. answer # <<>> /\ answer[1] = "h"
  BY Kinds
<1>0. Begun
  BY <1>1 DEF Begun
<1>3. ButtonsGiven'
  <2> HIDE DEF answer
  <2> QED
    BY <1>0, <1>1, <1>2 DEF DpadOK, ButtonsGiven
<1>4. AxesGiven'
  <2>1. given'[confState][1] # "a" /\ confState < confState'
    BY <1>1, <1>2
  <2> QED
    BY <1>1, <2>1 DEF AxesGiven
<1>5. HatsGiven'
  <2>0. heard' # "nothing"
    BY DEF GivesHat, Stores
  <2> SUFFICES ASSUME heard' # "overrun", \A i \in 0 .. 3 : i < confState' => given'[i][1] = "h"
               PROVE  /\ confState' <= 4 => hatIterator' = confState'
                      /\ confState' >= 4 => hatIterator' = 4
                      /\ \A i \in 0 .. 3 : i < confState' =>
                           /\ given'[i] = <<"h", gHat'[i], gHatValue'[i]>>
                           /\ gHat'[i] \in Hats /\ gHatValue'[i] \in HatValues
    BY <2>0 DEF HatsGiven
  <2>1. heard # "overrun" /\ \A i \in 0 .. 3 : i < confState => given[i][1] = "h"
    BY <1>1 DEF GivesHat, Stores
  <2>2. /\ hatIterator = confState
        /\ \A i \in 0 .. 3 : i < confState =>
             /\ given[i] = <<"h", gHat[i], gHatValue[i]>>
             /\ gHat[i] \in Hats /\ gHatValue[i] \in HatValues
    BY <1>0, <1>1, <2>1 DEF DpadOK, HatsGiven
  <2>3. /\ gHat'[confState] = hat /\ gHatValue'[confState] = value
        /\ \A i \in 0 .. 3 : i # confState => gHat'[i] = gHat[i] /\ gHatValue'[i] = gHatValue[i]
        /\ hatIterator' = confState + 1
    BY <1>1, <2>2, DpadRanges DEF GivesHat, Stores
  <2>4. ASSUME NEW i \in 0 .. 3, i < confState'
        PROVE  /\ given'[i] = <<"h", gHat'[i], gHatValue'[i]>>
               /\ gHat'[i] \in Hats /\ gHatValue'[i] \in HatValues
    <3>1. CASE i = confState
      BY <1>1, <2>3, <3>1
    <3>2. CASE i < confState
      BY <1>1, <2>2, <2>3, <3>2
    <3> QED
      BY <1>1, <2>4, <3>1, <3>2
  <2> QED
    BY <1>1, <2>3, <2>4
<1> QED
  BY <1>3, <1>4, <1>5 DEF DpadOK

\* A first press, or a hat of the other controller: the next hat given takes its place.
LEMMA StoresHatKeeps ==
  ASSUME WizardInv, DpadOK, NEW hat \in Hats, NEW value \in HatValues, StoresHat(hat, value)
  PROVE  DpadOK'
<1>1. /\ confState' = confState /\ gControllerConf /\ confState \in 0 .. 20
      /\ UNCHANGED <<given, gControllerButton, gAxis, gAxisValue, axisIterator>>
      /\ heard' # "nothing" /\ Begun
  BY DpadRanges DEF StoresHat, Stores, Begun
<1>2. ButtonsGiven' /\ AxesGiven'
  BY <1>1 DEF DpadOK, ButtonsGiven, AxesGiven
<1>3. HatsGiven'
  <2> SUFFICES ASSUME heard' # "overrun", \A i \in 0 .. 3 : i < confState => given[i][1] = "h"
               PROVE  /\ confState <= 4 => hatIterator' = confState
                      /\ confState >= 4 => hatIterator' = 4
                      /\ \A i \in 0 .. 3 : i < confState =>
                           /\ given[i] = <<"h", gHat'[i], gHatValue'[i]>>
                           /\ gHat'[i] \in Hats /\ gHatValue'[i] \in HatValues
    BY <1>1 DEF HatsGiven
  <2>1. heard # "overrun" /\ hatIterator \in 0 .. 3 /\ hatIterator' = hatIterator
    BY DEF StoresHat, Stores
  <2>2. /\ confState <= 4 => hatIterator = confState
        /\ confState >= 4 => hatIterator = 4
        /\ \A i \in 0 .. 3 : i < confState =>
             /\ given[i] = <<"h", gHat[i], gHatValue[i]>>
             /\ gHat[i] \in Hats /\ gHatValue[i] \in HatValues
    BY <1>1, <2>1 DEF DpadOK, HatsGiven
  <2>3. \A i \in 0 .. 3 : i # hatIterator => gHat'[i] = gHat[i] /\ gHatValue'[i] = gHatValue[i]
    BY <2>1, DpadRanges DEF StoresHat, Stores
  <2>4. \A i \in 0 .. 3 : i < confState => i # hatIterator
    BY <1>1, <2>1, <2>2
  <2> QED
    BY <2>1, <2>2, <2>3, <2>4
<1> QED
  BY <1>2, <1>3 DEF DpadOK

\* startControllerConf
LEMMA StartDpad ==
  ASSUME startControllerConf
  PROVE  DpadOK'
<1>1. /\ confState' = 0 /\ gControllerButton' = [i \in 0 .. 22 |-> 23]
      /\ given' = [i \in 0 .. 3 |-> <<>>]
      /\ gHat' = [i \in 0 .. 3 |-> -1]
      /\ hatIterator' = 0 /\ axisIterator' = 0
  BY NumbersHold DEF Numbers, startControllerConf
<1>2. ASSUME NEW i \in 0 .. 3
      PROVE  gControllerButton'[i] = 23 /\ given'[i] = <<>> /\ gHat'[i] = -1
  <2>1. i \in 0 .. 22
    OBVIOUS
  <2>2. gControllerButton'[i] = 23
    BY <1>1, <2>1
  <2>3. given'[i] = <<>>
    BY <1>1
  <2>4. gHat'[i] = -1
    BY <1>1
  <2> QED
    BY <2>2, <2>3, <2>4
<1> QED
  BY <1>1, <1>2 DEF DpadOK, ButtonsGiven, HatsGiven, AxesGiven

-----------------------------------------------------------------------------
(* Each step of the wizard is one of these.                                *)

LEMMA ButtonDpad ==
  ASSUME WizardInv, WizardInv', DpadOK, Dpad \subseteq Tracked,
         NEW cmd \in Buttons \cup {SKIP_ITEM}, statemachineConf(cmd)
  PROVE  DpadOK'
<1>1. /\ gControllerConf /\ confState \in 0 .. 20 /\ cmd \in 0 .. 23
      /\ gControllerButton \in [0 .. 22 -> 0 .. 23] /\ confState' \in 0 .. 20
      /\ UNCHANGED <<gHat, gHatValue, hatIterator, gAxis, gAxisValue, axisIterator>>
  <2>1. gControllerConf /\ UNCHANGED <<gHat, gHatValue, hatIterator, gAxis, gAxisValue, axisIterator>>
    BY DEF statemachineConf, hats, axes
  <2>2. cmd \in 0 .. 23
    BY InputsAssumption, NumbersHold DEF Numbers
  <2>3. confState' \in 0 .. 20
    BY PartsNext DEF ItemOK
  <2> QED
    BY <2>1, <2>2, <2>3, DpadRanges
<1>2. CASE UNCHANGED <<gControllerConf, confState, gControllerButton, given, heard>>
  <2>1. Elsewhere
    BY <1>1, <1>2 DEF Elsewhere
  <2> QED
    BY <2>1, ElsewhereKeeps
<1>3. CASE /\ confState \in 0 .. 3 /\ gControllerButton' = Recorded(confState, cmd)
           /\ Ask(NextItem(confState)) /\ UNCHANGED heard
           /\ given' = [given EXCEPT ![confState] =
                          IF cmd = SKIP_ITEM THEN <<"skip">> ELSE <<"b", cmd>>]
  <2>1. confState' = confState + 1
    BY <1>3, NumbersHold DEF Numbers, Ask, NextItem
  <2>2. gControllerButton' = [gControllerButton EXCEPT ![confState] = cmd]
    BY <1>3, NumbersHold DEF Numbers, Recorded
  <2>3. GivesButton(cmd)
    BY <1>1, <1>3, <2>1, <2>2, NumbersHold DEF Numbers, GivesButton, Gives
  <2> QED
    BY <1>1, <2>3, GivesButtonKeeps
<1>4. CASE /\ confState >= 4 /\ confState' >= 4 /\ UNCHANGED <<given, heard>>
           /\ \E item \in 4 .. 22 : gControllerButton' \in {Recorded(item, cmd), gControllerButton}
  <2>1. \A i \in 0 .. 3 : gControllerButton'[i] = gControllerButton[i]
    BY <1>1, <1>4 DEF Recorded
  <2>2. Elsewhere
    BY <1>1, <1>4, <2>1 DEF Elsewhere
  <2> QED
    BY <2>2, ElsewhereKeeps
<1>5. CASE AnswerItem(cmd)
  <2>1. \/ UNCHANGED <<gControllerConf, confState, gControllerButton, given, heard>>
        \/ /\ confState < 15 /\ gControllerButton' = Recorded(confState, cmd)
           /\ Ask(NextItem(confState)) /\ UNCHANGED heard
           /\ given' = IF confState \notin 0 .. 3 THEN given
                       ELSE [given EXCEPT ![confState] =
                               IF cmd = SKIP_ITEM THEN <<"skip">> ELSE <<"b", cmd>>]
    BY <1>5, NumbersHold DEF Numbers, AnswerItem
  <2>2. CASE /\ confState \in 4 .. 14 /\ gControllerButton' = Recorded(confState, cmd)
             /\ Ask(NextItem(confState)) /\ UNCHANGED <<heard, given>>
    <3>1. confState' >= 4
      BY <2>2, NumbersHold DEF Numbers, Ask, NextItem
    <3> QED
      BY <1>4, <2>2, <3>1
  <2>3. ASSUME confState < 15, gControllerButton' = Recorded(confState, cmd),
               Ask(NextItem(confState)), UNCHANGED heard,
               given' = IF confState \notin 0 .. 3 THEN given
                        ELSE [given EXCEPT ![confState] =
                                IF cmd = SKIP_ITEM THEN <<"skip">> ELSE <<"b", cmd>>]
        PROVE  DpadOK'
    <3>1. CASE confState \in 0 .. 3
      BY <1>3, <2>3, <3>1
    <3>2. CASE confState \in 4 .. 14
      BY <2>2, <2>3, <3>2
    <3> QED
      BY <1>1, <2>3, <3>1, <3>2
  <2> QED
    BY <1>2, <2>1, <2>3
<1>6. CASE AnswerTrigger(cmd)
  <2>1. /\ confState >= 4 /\ confState' >= 4 /\ UNCHANGED <<given, heard>>
        /\ gControllerButton' \in {Recorded(21, cmd), Recorded(22, cmd)}
    BY <1>6, NumbersHold DEF Numbers, AnswerTrigger, Ask, setMapping
  <2> QED
    BY <1>4, <2>1
<1>7. CASE SkipAxis
  <2>1. /\ confState >= 4 /\ confState' >= 4 /\ UNCHANGED <<given, heard, gControllerButton>>
    BY <1>7, NumbersHold DEF Numbers, SkipAxis, Ask, setMapping
  <2> QED
    BY <1>4, <2>1
<1> QED
  BY <1>5, <1>6, <1>7 DEF statemachineConf

LEMMA AxisDpad ==
  ASSUME WizardInv, WizardInv', DpadOK, NEW cmd \in Axes, NEW negative \in BOOLEAN,
         statemachineConfAxis(cmd, negative)
  PROVE  DpadOK'
<1>1. /\ gControllerConf /\ confState \in 0 .. 20 /\ confState' \in 0 .. 20
      /\ gControllerButton \in [0 .. 22 -> 0 .. 23]
      /\ UNCHANGED <<gHat, gHatValue, hatIterator, heard>>
      /\ \/ HearAxis(cmd) /\ UNCHANGED <<axes, given>>
         \/ AnswerDpad(cmd, negative) /\ UNCHANGED gControllerButton
  <2>1. /\ gControllerConf /\ UNCHANGED <<gHat, gHatValue, hatIterator, heard>>
        /\ \/ HearAxis(cmd) /\ UNCHANGED <<axes, given>>
           \/ AnswerDpad(cmd, negative) /\ UNCHANGED gControllerButton
    BY DEF statemachineConfAxis, hats
  <2>2. confState' \in 0 .. 20
    BY PartsNext DEF ItemOK
  <2> QED
    BY <2>1, <2>2, DpadRanges
<1>2. CASE HearAxis(cmd) /\ UNCHANGED <<axes, given>>
  <2>1. confState >= 15 /\ confState' >= 4
    <3>1. confState >= 15
      BY <1>2, NumbersHold DEF Numbers, HearAxis
    <3>2. confState' \notin 0 .. 3
      BY <1>2, Parts, HearAxisInv
    <3> QED
      BY <1>1, <3>1, <3>2
  <2>2. \A i \in 0 .. 3 : gControllerButton'[i] = gControllerButton[i]
    <3>1. \/ \E next \in Nat : checkAxis(cmd, next)
          \/ checkTrigger(cmd, Ask(AXIS_RIGHTTRIGGER)) \/ checkTrigger(cmd, setMapping)
      BY <1>2, NumbersHold DEF Numbers, HearAxis
    <3>2. \/ gControllerButton' = gControllerButton
          \/ gControllerButton' = [gControllerButton EXCEPT ![confState] = xValue]
          \/ gControllerButton' = [gControllerButton EXCEPT ![confState] = xValue,
                                                            ![confState + 1] = yValue]
      BY <3>1 DEF checkAxis, checkTrigger, Sample
    <3> QED
      BY <1>1, <2>1, <3>2
  <2>3. Elsewhere
    <3>1. gControllerConf' => gControllerConf
      BY <1>1, Zenon
    <3> QED
      BY <1>1, <1>2, <2>1, <2>2, <3>1 DEF Elsewhere, axes
  <2> QED
    BY <2>3, ElsewhereKeeps
<1>3. CASE AnswerDpad(cmd, negative) /\ UNCHANGED gControllerButton
  <2>1. GivesAxis(cmd, negative)
    BY <1>1, <1>3, NumbersHold DEF Numbers, GivesAxis, Gives, AnswerDpad, Ask
  <2> QED
    BY <2>1, GivesAxisKeeps
<1> QED
  BY <1>1, <1>2, <1>3

LEMMA HatDpad ==
  ASSUME WizardInv, WizardInv', DpadOK, NEW hat \in Hats, NEW value \in HatValues,
         NEW own \in BOOLEAN, statemachineConfHat(hat, value, own)
  PROVE  DpadOK'
<1> DEFINE m == StoredHat(hat, value)
<1>1. /\ gControllerConf /\ UNCHANGED <<gControllerButton, axes, xValue>>
      /\ gHat' = m.gHat /\ gHatValue' = m.gHatValue
      /\ heard' = IF hatIterator \in 0 .. 3 /\ heard # "overrun" THEN "hat" ELSE "overrun"
      /\ \/ /\ hatIterator' = m.hatIterator + 1 /\ confState \in 0 .. 3
            /\ Ask(confState + 1)
            /\ given' = [given EXCEPT ![confState] = <<"h", hat, value>>]
         \/ /\ hatIterator' = m.hatIterator
            /\ UNCHANGED <<gControllerConf, confState, given, moved>>
  BY HatStep
<1>2. hatIterator \in 0 .. 3 =>
        /\ m.gHat = [gHat EXCEPT ![hatIterator] = hat]
        /\ m.gHatValue = [gHatValue EXCEPT ![hatIterator] = value]
        /\ m.hatIterator = hatIterator
  BY HatInside
<1> HIDE DEF m
<1>3. Stores(hat, value) /\ (heard' # "overrun" => m.hatIterator = hatIterator)
  BY <1>1, <1>2 DEF Stores, axes
<1>4. CASE /\ hatIterator' = m.hatIterator + 1 /\ confState \in 0 .. 3
           /\ Ask(confState + 1)
           /\ given' = [given EXCEPT ![confState] = <<"h", hat, value>>]
  <2>1. GivesHat(hat, value)
    BY <1>1, <1>3, <1>4 DEF GivesHat, Gives, Ask
  <2> QED
    BY <2>1, GivesHatKeeps
<1>5. CASE /\ hatIterator' = m.hatIterator
           /\ UNCHANGED <<gControllerConf, confState, given, moved>>
  <2>1. StoresHat(hat, value)
    BY <1>1, <1>3, <1>5 DEF StoresHat
  <2> QED
    BY <2>1, StoresHatKeeps
<1> QED
  BY <1>1, <1>4, <1>5

LEMMA DpadNext ==
  ASSUME WizardInv, DpadOK, [Next]_vars, Dpad \subseteq Tracked
  PROVE  DpadOK'
<1>0. WizardInv'
  BY WizardNext
<1>1. CASE startControllerConf
  BY <1>1, StartDpad
<1>2. CASE resetStatemachine \/ UNCHANGED vars
  <2>1. UNCHANGED <<given, gHat, gHatValue, hatIterator, heard, gAxis, gAxisValue, axisIterator,
                    confState, gControllerButton>>
    BY <1>2 DEF resetStatemachine, vars, history, hats, axes
  <2>2. gControllerConf' => gControllerConf
    BY <1>2, Zenon DEF resetStatemachine, vars
  <2>3. Elsewhere
    BY <2>1, <2>2, DpadRanges DEF Elsewhere
  <2> QED
    BY <2>3, ElsewhereKeeps
<1>3. CASE \E cmd \in Buttons \cup {SKIP_ITEM} : statemachineConf(cmd)
  BY <1>0, <1>3, ButtonDpad
<1>4. CASE \E cmd \in Axes, negative \in BOOLEAN : statemachineConfAxis(cmd, negative)
  BY <1>0, <1>4, AxisDpad
<1>5. CASE \E hat \in Hats, value \in HatValues, own \in BOOLEAN :
             statemachineConfHat(hat, value, own)
  BY <1>0, <1>5, HatDpad
<1> QED
  BY <1>1, <1>2, <1>3, <1>4, <1>5 DEF Next

\* UniformDpadAsGiven, from what has been given.
LEMMA DpadIs ==
  ASSUME WizardInv, DpadOK
  PROVE  UniformDpadAsGiven
<1> SUFFICES ASSUME DpadDone, NEW i \in 0 .. 3,
                    \/ AllGiven("b")
                    \/ AllGiven("h") /\ heard # "overrun"
                    \/ AllGiven("a") /\ heard = "nothing"
             PROVE  DpadMapping(i) = given[i]
  BY NumbersHold DEF Numbers, UniformDpadAsGiven
<1>1. /\ Begun /\ confState \in 4 .. 20
      /\ \A j \in 0 .. 3 : j < confState /\ given[j] # <<>>
  <2>1. confState \in 4 .. 20
    BY DpadRanges, NumbersHold DEF Numbers, DpadDone
  <2>2. Begun
    BY <2>1 DEF Begun
  <2> QED
    BY <2>1, <2>2 DEF DpadOK, ButtonsGiven
<1>2. CASE AllGiven("b")
  <2>1. given[i] = <<"b", gControllerButton[i]>> /\ gControllerButton[i] # 23
    BY <1>1, <1>2, NumbersHold DEF Numbers, AllGiven, DpadOK, ButtonsGiven
  <2> QED
    BY <2>1, NumbersHold DEF Numbers, DpadMapping
<1>3. CASE AllGiven("h") /\ heard # "overrun"
  <2>1. \A j \in 0 .. 3 : given[j][1] = "h"
    BY <1>3, NumbersHold DEF Numbers, AllGiven
  <2>2. gControllerButton[i] = 23
    BY <1>1, <2>1 DEF DpadOK, ButtonsGiven
  <2>3. /\ given[i] = <<"h", gHat[i], gHatValue[i]>>
        /\ gHat[i] \in Hats /\ gHatValue[i] \in HatValues
    BY <1>1, <1>3, <2>1 DEF DpadOK, HatsGiven
  <2>4. gHat[i] # -1 /\ gHatValue[i] # -1
    BY <2>3, InputsAssumption
  <2> QED
    BY <2>2, <2>3, <2>4, NumbersHold DEF Numbers, DpadMapping
<1>4. CASE AllGiven("a") /\ heard = "nothing"
  <2>1. \A j \in 0 .. 3 : given[j][1] = "a"
    BY <1>4, NumbersHold DEF Numbers, AllGiven
  <2>2. gControllerButton[i] = 23
    BY <1>1, <2>1 DEF DpadOK, ButtonsGiven
  <2>3. given[i] = <<"a", gAxis[i], gAxisValue[i]>> /\ gAxis[i] \in Axes
    BY <1>1, <2>1 DEF DpadOK, AxesGiven
  <2>4. gHat[i] = -1 /\ gAxis[i] # -1
    BY <1>1, <1>4, <2>3, InputsAssumption, NumbersHold DEF Numbers, DpadOK, HatsGiven
  <2> QED
    BY <2>2, <2>3, <2>4, NumbersHold DEF Numbers, DpadMapping
<1> QED
  BY <1>2, <1>3, <1>4

LEMMA InitDpad == Init => DpadOK
  BY DEF Init, DpadOK, ButtonsGiven, HatsGiven, AxesGiven, Begun

-----------------------------------------------------------------------------
(* The theorem on the dpad.                                                *)

\* A dpad all of buttons, all of hats or all of axes is written as it was pressed, for
\* any buttons, axes and hats, whatever first presses, hats of the other controller,
\* skipped items and configurations that were left came between.  The entries of the
\* dpad in gControllerButton[] have to be followed (Tracked).
THEOREM DpadAsGiven ==
  ASSUME Dpad \subseteq Tracked
  PROVE  Spec => []UniformDpadAsGiven
<1>1. Init => WizardInv /\ DpadOK
  BY InitInv, InitDpad
<1>2. WizardInv /\ DpadOK /\ [Next]_vars => WizardInv' /\ DpadOK'
  BY WizardNext, DpadNext
<1>3. WizardInv /\ DpadOK => UniformDpadAsGiven
  BY DpadIs
<1> QED
  BY <1>1, <1>2, <1>3, PTL DEF Spec

-----------------------------------------------------------------------------
(* The wizard implements a questionnaire.                                  *)

\* One item is asked for after the other.
Turn(item, next) ==
  \E k \in 1 .. 18 : item = Order[k] /\ next = Order[k + 1]

LEMMA OrderIs ==
  /\ Len(Order) = 19 /\ DOMAIN Order = 1 .. 19
  /\ Order[1] = 0 /\ Order[2] = 1 /\ Order[3] = 2 /\ Order[4] = 3 /\ Order[5] = 4
  /\ Order[6] = 5 /\ Order[7] = 6 /\ Order[8] = 7 /\ Order[9] = 11 /\ Order[10] = 12
  /\ Order[11] = 13 /\ Order[12] = 14 /\ Order[13] = 8 /\ Order[14] = 10 /\ Order[15] = 9
  /\ Order[16] = 15 /\ Order[17] = 17 /\ Order[18] = 19 /\ Order[19] = 20
  BY DEF Order

LEMMA Turns ==
  /\ \A item \in 0 .. 14 : Turn(item, NextItem(item))
  /\ \A item \in 0 .. 3 : Turn(item, item + 1)
  /\ Turn(15, 17) /\ Turn(17, 19) /\ Turn(19, 20)
<1>1. /\ Turn(0, 1) /\ Turn(1, 2) /\ Turn(2, 3) /\ Turn(3, 4) /\ Turn(4, 5)
      /\ Turn(5, 6) /\ Turn(6, 7) /\ Turn(7, 11)
  BY OrderIs DEF Turn
<1>2. /\ Turn(11, 12) /\ Turn(12, 13) /\ Turn(13, 14) /\ Turn(14, 8)
      /\ Turn(8, 10) /\ Turn(10, 9) /\ Turn(9, 15)
  BY OrderIs DEF Turn
<1>3. Turn(15, 17) /\ Turn(17, 19) /\ Turn(19, 20)
  BY OrderIs DEF Turn
<1>4. ASSUME NEW item \in 0 .. 14
      PROVE  Turn(item, NextItem(item))
  <2>1. \/ item \in {7, 8, 9, 10, 14}
        \/ item \in 0 .. 6 \cup 11 .. 13
    OBVIOUS
  <2>2. CASE item \in {7, 8, 9, 10, 14}
    BY <1>1, <1>2, <2>2, NumbersHold DEF NextItem, Numbers
  <2>3. CASE item \in 0 .. 6 \cup 11 .. 13
    <3>1. NextItem(item) = item + 1
      BY <2>3, NumbersHold DEF NextItem, Numbers
    <3>2. item \in {0, 1, 2, 3, 4, 5, 6, 11, 12, 13}
      BY <2>3
    <3> QED
      BY <1>1, <1>2, <3>1, <3>2
  <2> QED
    BY <2>1, <2>2, <2>3
<1>5. ASSUME NEW item \in 0 .. 3
      PROVE  Turn(item, item + 1)
  <2>1. item \in {0, 1, 2, 3}
    OBVIOUS
  <2> QED
    BY <1>1, <2>1
<1> QED
  BY <1>3, <1>4, <1>5

LEMMA FieldsAre ==
  /\ \A item \in 0 .. 14 : Fields[item] = {item}
  /\ Fields[15] = {15, 16} /\ Fields[17] = {17, 18}
  /\ Fields[19] = {19, 21} /\ Fields[20] = {20, 22}
  BY NumbersHold DEF Fields, Numbers

\* What a step has to do to be an answer: it leaves the entries of other items alone and
\* goes on to the next item, or ends after the last one.
LEMMA IsAnswer ==
  ASSUME WizardInv, WizardInv', gControllerConf,
         \A entry \in 0 .. 22 : entry \notin Fields[confState] =>
           gControllerButton'[entry] = gControllerButton[entry],
         \/ gControllerConf' /\ Turn(confState, confState')
         \/ ~gControllerConf' /\ confState = 20 /\ confState' = 20
  PROVE  Form!Answer
<1>1. gControllerButton' \in [Items -> 0 .. SKIP_ITEM] /\ Items = 0 .. 22
  BY RangesHold DEF WizardInv, TypeOK
<1>2. \E k \in 1 .. Len(Order) :
        /\ confState = Order[k]
        /\ IF k < Len(Order) THEN gControllerConf' /\ confState' = Order[k + 1]
           ELSE ~gControllerConf' /\ confState' = confState
  <2>1. CASE gControllerConf' /\ Turn(confState, confState')
    <3>1. PICK k \in 1 .. 18 : confState = Order[k] /\ confState' = Order[k + 1]
      BY <2>1 DEF Turn
    <3>2. k \in 1 .. Len(Order) /\ k < Len(Order)
      BY OrderIs
    <3> QED
      BY <2>1, <3>1, <3>2
  <2>2. CASE ~gControllerConf' /\ confState = 20 /\ confState' = 20
    BY <2>2, OrderIs
  <2> QED
    BY <2>1, <2>2
<1> QED
  BY <1>1, <1>2 DEF Form!Answer

\* A step that only goes on to the next item.
LEMMA IsSkip ==
  ASSUME WizardInv, WizardInv', gControllerConf, NEW next, Ask(next), Turn(confState, next),
         gControllerButton' = gControllerButton
  PROVE  Form!Answer
  BY IsAnswer DEF Ask

\* A step that records an entry of its item and goes on.
LEMMA IsRecord ==
  ASSUME WizardInv, WizardInv', gControllerConf, NEW entry \in Fields[confState], NEW value,
         gControllerButton' = Recorded(entry, value),
         \/ \E next : Ask(next) /\ Turn(confState, next)
         \/ setMapping /\ confState = 20
  PROVE  Form!Answer
<1>1. \A other \in 0 .. 22 : other \notin Fields[confState] =>
        gControllerButton'[other] = gControllerButton[other]
  BY Ranges DEF Recorded
<1>2. \/ gControllerConf' /\ Turn(confState, confState')
      \/ ~gControllerConf' /\ confState = 20 /\ confState' = 20
  BY DEF Ask, setMapping
<1> QED
  BY <1>1, <1>2, IsAnswer

LEMMA ButtonAnswers ==
  ASSUME WizardInv, WizardInv', NEW cmd, statemachineConf(cmd)
  PROVE  Form!Answer \/ UNCHANGED <<gControllerConf, confState, gControllerButton>>
<1>0. gControllerConf /\ confState \in 0 .. 20
  BY Ranges DEF statemachineConf
<1>1. CASE AnswerItem(cmd)
  <2>1. CASE confState = DPAD_UP /\ secondRun # cmd
    BY <1>1, <2>1 DEF AnswerItem
  <2>2. CASE ~(confState = DPAD_UP /\ secondRun # cmd)
    <3>1. /\ confState < 15 /\ Ask(NextItem(confState))
          /\ gControllerButton' = Recorded(confState, cmd)
      BY <1>1, <2>2, NumbersHold DEF AnswerItem, Numbers
    <3>2. Turn(confState, NextItem(confState)) /\ confState \in Fields[confState]
      BY <1>0, <3>1, Turns, FieldsAre
    <3> QED
      BY <1>0, <3>1, <3>2, IsRecord
  <2> QED
    BY <2>1, <2>2
<1>2. CASE AnswerTrigger(cmd)
  <2>1. \/ /\ confState = 19 /\ gControllerButton' = Recorded(21, cmd) /\ Ask(20)
        \/ /\ confState = 20 /\ gControllerButton' = Recorded(22, cmd) /\ setMapping
    BY <1>2, NumbersHold DEF AnswerTrigger, Numbers
  <2>2. 21 \in Fields[19] /\ 22 \in Fields[20] /\ Turn(19, 20)
    BY FieldsAre, Turns
  <2>3. CASE confState = 19 /\ gControllerButton' = Recorded(21, cmd) /\ Ask(20)
    BY <1>0, <2>2, <2>3, IsRecord
  <2>4. CASE confState = 20 /\ gControllerButton' = Recorded(22, cmd) /\ setMapping
    BY <1>0, <2>2, <2>4, IsRecord
  <2> QED
    BY <2>1, <2>3, <2>4
<1>3. CASE SkipAxis
  <2>1. /\ gControllerButton' = gControllerButton
        /\ \/ confState = 15 /\ Ask(17)
           \/ confState = 17 /\ Ask(19)
           \/ confState = 19 /\ Ask(20)
           \/ confState = 20 /\ setMapping
    BY <1>3, NumbersHold DEF SkipAxis, Numbers
  <2>2. CASE confState = 20 /\ setMapping
    BY <1>0, <2>1, <2>2, IsAnswer DEF setMapping
  <2>3. CASE \E next : Ask(next) /\ Turn(confState, next)
    BY <1>0, <2>1, <2>3, IsSkip
  <2> QED
    BY <2>1, <2>2, <2>3, Turns
<1> QED
  BY <1>1, <1>2, <1>3 DEF statemachineConf

LEMMA AxisAnswers ==
  ASSUME WizardInv, WizardInv', NEW cmd \in Axes, NEW negative \in BOOLEAN,
         statemachineConfAxis(cmd, negative)
  PROVE  Form!Answer \/ UNCHANGED <<gControllerConf, confState, gControllerButton>>
<1>0. gControllerConf /\ confState \in 0 .. 20
  BY Ranges DEF statemachineConfAxis
<1>1. ASSUME NEW next, checkAxis(cmd, next),
             Turn(confState, next), Fields[confState] = {confState, confState + 1}
      PROVE  Form!Answer \/ UNCHANGED <<gControllerConf, confState, gControllerButton>>
  <2>1. CASE xCount > Threshold /\ yCount > Threshold
    <3>1. /\ Ask(next)
          /\ gControllerButton' = [gControllerButton EXCEPT ![confState] = xValue,
                                                            ![confState + 1] = yValue]
      BY <1>1, <2>1 DEF checkAxis
    <3>2. \A other \in 0 .. 22 : other \notin Fields[confState] =>
            gControllerButton'[other] = gControllerButton[other]
      BY <1>1, <3>1, Ranges
    <3> QED
      BY <1>0, <1>1, <3>1, <3>2, IsAnswer DEF Ask
  <2>2. CASE ~(xCount > Threshold /\ yCount > Threshold)
    BY <1>1, <2>2 DEF checkAxis, Sample
  <2> QED
    BY <2>1, <2>2
<1>2. ASSUME checkTrigger(cmd, Ask(20)), confState = 19
      PROVE  Form!Answer \/ UNCHANGED <<gControllerConf, confState, gControllerButton>>
  <2>1. CASE xCount > Threshold
    <3>1. /\ Ask(20) /\ Turn(19, 20) /\ Fields[19] = {19, 21}
          /\ gControllerButton' = [gControllerButton EXCEPT ![19] = xValue]
      BY <1>2, <2>1, Turns, FieldsAre DEF checkTrigger
    <3>2. \A other \in 0 .. 22 : other \notin Fields[confState] =>
            gControllerButton'[other] = gControllerButton[other]
      BY <1>2, <3>1, Ranges
    <3> QED
      BY <1>0, <1>2, <3>1, <3>2, IsAnswer DEF Ask
  <2>2. CASE ~(xCount > Threshold)
    BY <1>2, <2>2 DEF checkTrigger
  <2> QED
    BY <2>1, <2>2
<1>3. ASSUME checkTrigger(cmd, setMapping), confState = 20
      PROVE  Form!Answer \/ UNCHANGED <<gControllerConf, confState, gControllerButton>>
  <2>1. CASE xCount > Threshold
    <3>1. /\ setMapping /\ Fields[20] = {20, 22}
          /\ gControllerButton' = [gControllerButton EXCEPT ![20] = xValue]
      BY <1>3, <2>1, FieldsAre DEF checkTrigger
    <3>2. \A other \in 0 .. 22 : other \notin Fields[confState] =>
            gControllerButton'[other] = gControllerButton[other]
      BY <1>3, <3>1, Ranges
    <3> QED
      BY <1>0, <1>3, <3>1, <3>2, IsAnswer DEF setMapping
  <2>2. CASE ~(xCount > Threshold)
    BY <1>3, <2>2 DEF checkTrigger
  <2> QED
    BY <2>1, <2>2
<1>4. CASE HearAxis(cmd)
  <2>1. \/ confState = 15 /\ checkAxis(cmd, 17)
        \/ confState = 17 /\ checkAxis(cmd, 19)
        \/ confState = 19 /\ checkTrigger(cmd, Ask(20))
        \/ confState = 20 /\ checkTrigger(cmd, setMapping)
    BY <1>4, NumbersHold DEF HearAxis, Numbers
  <2>2. /\ Turn(15, 17) /\ Turn(17, 19)
        /\ Fields[15] = {15, 15 + 1} /\ Fields[17] = {17, 17 + 1}
    BY Turns, FieldsAre
  <2> QED
    BY <1>1, <1>2, <1>3, <2>1, <2>2
<1>5. CASE AnswerDpad(cmd, negative) /\ UNCHANGED gControllerButton
  <2>1. confState \in 0 .. 3 /\ Ask(confState + 1)
    BY <1>0, <1>5, NumbersHold DEF AnswerDpad, Numbers
  <2>2. Turn(confState, confState + 1)
    BY <2>1, Turns
  <2> QED
    BY <1>0, <1>5, <2>1, <2>2, IsSkip
<1> QED
  BY <1>4, <1>5 DEF statemachineConfAxis

LEMMA HatAnswers ==
  ASSUME WizardInv, WizardInv', NEW hat \in Hats, NEW value \in HatValues, NEW own \in BOOLEAN,
         statemachineConfHat(hat, value, own)
  PROVE  Form!Answer \/ UNCHANGED <<gControllerConf, confState, gControllerButton>>
<1>1. /\ gControllerConf /\ gControllerButton' = gControllerButton
      /\ \/ confState \in 0 .. 3 /\ Ask(confState + 1)
         \/ UNCHANGED <<gControllerConf, confState>>
  BY HatStep
<1>2. CASE confState \in 0 .. 3 /\ Ask(confState + 1)
  <2>1. Turn(confState, confState + 1)
    BY <1>2, Turns
  <2> QED
    BY <1>1, <1>2, <2>1, IsSkip
<1> QED
  BY <1>1, <1>2

LEMMA StepForm ==
  ASSUME WizardInv, WizardInv', [Next]_vars
  PROVE  [Form!Next]_<<gControllerConf, confState, gControllerButton>>
<1>1. CASE startControllerConf
  <2>1. Form!Start
    BY <1>1, OrderIs, NumbersHold DEF startControllerConf, Form!Start, Numbers
  <2> QED
    BY <2>1 DEF Form!Next
<1>2. CASE resetStatemachine
  BY <1>2 DEF resetStatemachine, Form!Next, Form!Leave
<1>3. CASE \E cmd \in Buttons \cup {SKIP_ITEM} : statemachineConf(cmd)
  BY <1>3, ButtonAnswers DEF Form!Next
<1>4. CASE \E cmd \in Axes, negative \in BOOLEAN : statemachineConfAxis(cmd, negative)
  BY <1>4, AxisAnswers DEF Form!Next
<1>5. CASE \E hat \in Hats, value \in HatValues, own \in BOOLEAN :
             statemachineConfHat(hat, value, own)
  BY <1>5, HatAnswers DEF Form!Next
<1>6. CASE UNCHANGED vars
  BY <1>6 DEF vars
<1> QED
  BY <1>1, <1>2, <1>3, <1>4, <1>5, <1>6 DEF Next

\* For any buttons, axes and hats, however they are mixed with ENTER, with hats and
\* samples that are left over and with configurations that were left: every item is asked
\* for once and in its turn, an answer is recorded at an entry of its item only, and a new
\* configuration knows nothing of the one before.
THEOREM QuestionnaireImplemented == Spec => ImplementsQuestionnaire
<1>1. Init => Form!Init
  <2> SUFFICES ASSUME Init PROVE Form!Init
    OBVIOUS
  <2>1. confState = Order[1] /\ 1 \in DOMAIN Order
    BY OrderIs DEF Init
  <2>2. gControllerButton \in [Items -> 0 .. SKIP_ITEM]
    BY NumbersHold DEF Init, Numbers
  <2> QED
    BY <2>1, <2>2 DEF Init, Form!Init
<1> QED
  BY <1>1, StepForm, WizardInvHolds, PTL DEF Spec, ImplementsQuestionnaire, Form!Spec
=============================================================================
