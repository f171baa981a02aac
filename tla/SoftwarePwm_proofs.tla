------------------------- MODULE SoftwarePwm_proofs -------------------------
(* What is proved of the software PWM for every width of a byte, every       *)
(* colour, depth and slowdown: no variable leaves its range, a period that   *)
(* the main loop leaves alone is lit as long as the colour says, and from    *)
(* one such period to the next the channel does not move away from the       *)
(* colour asked for.                                                         *)
EXTENDS SoftwarePwm, Lemmas

-----------------------------------------------------------------------------
(* Arithmetic *)

(* The width of a byte is a number.                                          *)
LEMMA WidthType == Width \in Nat /\ Width > 1
BY SoftwarePwmAssumption, SMT DEF Byte

(* The interrupt blends the colours by the part of the fade that is over.    *)
Shade(index) == Mean(Width, PartOf(Width, index, smoothSlowdown), start, end)

(* While the fade is not over the blend of two bytes is a byte, also when    *)
(* the host has set the slowdown to 0 or below the index.                    *)
LEMMA BlendByte ==
  ASSUME TypeOK, ~FadeOver
  PROVE  Blend = Shade(smoothIndex) /\ Blend \in Byte
<1>1. /\ smoothIndex \in Nat /\ smoothSlowdown \in Nat
      /\ smoothIndex < smoothSlowdown
      /\ start \in Nat /\ end \in Nat
      /\ Width \in Nat \ {0}
  BY WidthType DEF TypeOK, FadeOver, Byte
<1>2. Blend = Shade(smoothIndex)
  BY DEF Blend, Shade, Mean, PartOf
<1>3. PartOf(Width, smoothIndex, smoothSlowdown) \in 0 .. Width - 1
  BY <1>1, Parts
<1>4. /\ Shade(smoothIndex) \in Nat
      /\ Shade(smoothIndex) <= start \/ Shade(smoothIndex) <= end
  BY <1>1, <1>3, MeanBetween DEF Shade
<1>5. QED
  BY <1>1, <1>2, <1>4 DEF TypeOK, Byte

(* An index of the PWM is followed by one.                                   *)
LEMMA AfterByte == \A i \in Byte : After(i) \in Byte
<1> SUFFICES ASSUME NEW i \in Byte PROVE After(i) \in Byte
  OBVIOUS
<1>1. i + 1 \in Nat /\ Width \in Nat \ {0}
  BY WidthType DEF Byte
<1>2. QED
  BY <1>1, Division DEF After, Byte

(* The index goes on by one unless it is at the largest byte.                *)
LEMMA AfterNext == \A i \in Byte : i # Width - 1 => After(i) = i + 1
<1> SUFFICES ASSUME NEW i \in Byte, i # Width - 1 PROVE After(i) = i + 1
  OBVIOUS
<1>1. i + 1 \in Nat /\ i + 1 < Width /\ Width \in Nat \ {0}
  BY WidthType DEF Byte
<1>2. QED
  BY <1>1, SMT DEF After

-----------------------------------------------------------------------------
(* The invariant.  TypeOK is not inductive, since litSlots is counted up,    *)
(* and DutyCycle is not, since the index might wrap within a quiet period:   *)
(* it does not because a quiet period begins below its maximum and only a    *)
(* store of the main loop changes that.                                      *)

QuietBelowMaximum == /\ maxPwmValue # 0
                     /\ quiet => pwmIndex <= maxPwmValue

PwmInv == TypeOK /\ DutyCycle /\ QuietBelowMaximum

(* The invariant holds when the device is switched on.                       *)
LEMMA InitInv == Init => PwmInv
<1> SUFFICES ASSUME Init PROVE PwmInv
  OBVIOUS
<1>1. 0 \in Byte /\ 1 \in Byte
  BY WidthType DEF Byte
<1>2. FirstSlowdown \in Byte /\ FirstDepth \in Byte /\ FirstDepth # 0 /\ 0 <= FirstDepth
  BY SoftwarePwmAssumption, WidthType DEF Byte
<1>3. TypeOK
  BY <1>1, <1>2 DEF Init, TypeOK, Places
<1>4. DutyCycle
  <2>1. Shown = 0
    BY DEF Init, Shown
  <2>2. QED
    BY <2>1 DEF Init, DutyCycle
<1>5. QuietBelowMaximum
  <2>1. pwmIndex = 0 /\ maxPwmValue = FirstDepth
    BY DEF Init
  <2>2. QED
    BY <1>2, <2>1 DEF QuietBelowMaximum
<1>6. QED
  BY <1>3, <1>4, <1>5 DEF PwmInv

(* What the interrupt computes at the start of a period is a byte.           *)
LEMMA EvalByte ==
  ASSUME TypeOK, EvalCurrentImage_SmoothlyAlg
  PROVE  {current', start', smoothIndex'} \subseteq Byte
<1>1. CASE FadeOver
  BY <1>1 DEF EvalCurrentImage_SmoothlyAlg, TypeOK
<1>2. CASE ~FadeOver
  <2>1. smoothIndex + 1 \in Byte
    BY <1>2, WidthType DEF FadeOver, TypeOK, Byte
  <2>2. QED
    BY <1>2, <2>1, BlendByte DEF EvalCurrentImage_SmoothlyAlg, TypeOK
<1>3. QED
  BY <1>1, <1>2

(* A period begins with one slot, lit unless the channel is dark.            *)
LEMMA RestartInv ==
  ASSUME PwmInv, Restart
  PROVE  PwmInv'
<1> USE DEF PwmInv
<1>1. /\ {start', current', smoothIndex'} \subseteq Byte
      /\ UNCHANGED <<end, settings, pc, reg, wanted>>
  <2>1. CASE isSmoothEnabled # 0
    BY <2>1, EvalByte DEF Restart
  <2>2. CASE isSmoothEnabled = 0
    BY <2>2 DEF Restart, TypeOK
  <2>3. QED
    BY <2>1, <2>2 DEF Restart
<1>2. Slot(Shown', 0) /\ Shown' \in Byte
  BY <1>1 DEF Restart, Shown, settings, TypeOK
<1>3. 0 \in Byte /\ 1 \in Byte /\ After(0) = 1
  BY WidthType, AfterNext DEF Byte
<1>4. /\ pwmIndex' = 1
      /\ lit' = IF Shown' = 0 THEN 0 ELSE 1
      /\ litSlots' = lit'
      /\ quiet' = TRUE
  BY <1>2, <1>3 DEF Slot, Lit, Restart, Byte
<1>5. TypeOK'
  BY <1>1, <1>3, <1>4 DEF TypeOK, settings
<1>6. DutyCycle'
  BY <1>2, <1>4 DEF DutyCycle, Byte
<1>7. QuietBelowMaximum'
  <2>1. maxPwmValue' = maxPwmValue /\ maxPwmValue \in Byte /\ maxPwmValue # 0
    BY <1>1 DEF settings, TypeOK, QuietBelowMaximum
  <2>2. QED
    BY <1>4, <2>1, WidthType DEF QuietBelowMaximum, Byte
<1>8. QED
  BY <1>5, <1>6, <1>7

(* A slot of a quiet period adds to the lit ones while the colour is above   *)
(* the index.                                                                *)
LEMMA ContinueInv ==
  ASSUME PwmInv, Continue
  PROVE  PwmInv'
<1> USE DEF PwmInv
<1>1. /\ UNCHANGED <<images, settings, pc, reg, quiet, wanted>>
      /\ Shown' = Shown
      /\ Slot(Shown, pwmIndex)
      /\ Shown \in Byte /\ pwmIndex \in Byte
      /\ lit' \in 0 .. 1
  BY DEF Continue, images, settings, Shown, Slot, Lit, TypeOK
<1>2. pwmIndex' \in Byte
  BY <1>1, AfterByte DEF Slot
<1>3. CASE quiet
  <2>1. pwmIndex < maxPwmValue /\ maxPwmValue \in Byte
    BY <1>3, WidthType DEF Continue, QuietBelowMaximum, TypeOK, Byte
  <2>2. pwmIndex # Width - 1
    BY <1>1, <2>1, WidthType DEF Byte
  <2>3. pwmIndex' = pwmIndex + 1
    BY <1>1, <2>2, AfterNext DEF Slot
  <2>4. litSlots' = IF Shown' < pwmIndex' THEN Shown' ELSE pwmIndex'
    <3>1. litSlots = IF Shown < pwmIndex THEN Shown ELSE pwmIndex
      BY <1>3 DEF DutyCycle
    <3>2. litSlots' = litSlots + (IF Shown > pwmIndex THEN 1 ELSE 0)
      BY <1>1, <1>3 DEF Continue, Slot, Lit
    <3>3. Shown \in Nat /\ pwmIndex \in Nat
      BY <1>1, WidthType DEF Byte
    <3>4. QED
      BY <1>1, <2>3, <3>1, <3>2, <3>3
  <2>5. litSlots' \in Byte
    BY <1>1, <1>2, <2>4
  <2>6. pwmIndex' <= maxPwmValue'
    BY <1>1, <2>1, <2>3, WidthType DEF settings, Byte
  <2>7. TypeOK'
    BY <1>1, <1>2, <2>5 DEF TypeOK, images, settings
  <2>8. QED
    BY <1>1, <2>4, <2>6, <2>7 DEF DutyCycle, QuietBelowMaximum, settings
<1>4. CASE ~quiet
  <2>1. litSlots' = 0 /\ 0 \in Byte /\ quiet' = FALSE
    BY <1>1, <1>4, WidthType DEF Continue, Byte, TypeOK
  <2>2. TypeOK'
    BY <1>1, <1>2, <2>1 DEF TypeOK, images, settings
  <2>3. QED
    BY <1>1, <2>1, <2>2 DEF DutyCycle, QuietBelowMaximum, settings
<1>5. QED
  BY <1>3, <1>4

(* A store of the main loop ends the quiet; it stores bytes, and depths that *)
(* are not zero.                                                             *)
LEMMA StoreInv ==
  ASSUME PwmInv, Host \/ Loop
  PROVE  PwmInv'
<1> USE DEF PwmInv
<1>1. 0 \in Byte
  BY WidthType DEF Byte
<1>2. quiet' = FALSE /\ litSlots' = 0 /\ UNCHANGED pwm /\ pc' \in Places
  BY DEF Host, Loop, UpdateLeds, SetPwmLevelMaxValue, SetSmoothSlowdown, OffAll, StoreStart,
     StoreEnd, LoadStart, Compare, ClearIndex, StoreSlowdown, FillStart, FillCurrent, FillEnd,
     Step, Places
<1>3. ASSUME {start', current', end', smoothIndex', isSmoothEnabled', smoothSlowdown',
              maxPwmValue', reg', wanted'} \subseteq Byte,
             maxPwmValue' # 0
      PROVE  PwmInv'
  BY <1>1, <1>2, <1>3 DEF TypeOK, DutyCycle, QuietBelowMaximum, pwm
<1>4. CASE UpdateLeds
  BY <1>3, <1>4, SoftwarePwmAssumption
     DEF UpdateLeds, images, settings, TypeOK, QuietBelowMaximum
<1>5. CASE SetPwmLevelMaxValue
  BY <1>3, <1>5, SoftwarePwmAssumption
     DEF SetPwmLevelMaxValue, images, TypeOK
<1>6. CASE SetSmoothSlowdown
  BY <1>3, <1>6, SoftwarePwmAssumption
     DEF SetSmoothSlowdown, images, TypeOK, QuietBelowMaximum
<1>7. CASE OffAll
  BY <1>1, <1>3, <1>7 DEF OffAll, images, settings, TypeOK, QuietBelowMaximum
<1>8. CASE Loop
  BY <1>1, <1>3, <1>8
     DEF Loop, StoreStart, StoreEnd, LoadStart, Compare, ClearIndex, StoreSlowdown, FillStart,
         FillCurrent, FillEnd, images, settings, TypeOK, QuietBelowMaximum
<1>9. QED
  BY <1>4, <1>5, <1>6, <1>7, <1>8 DEF Host

(* Every step keeps the invariant.                                           *)
LEMMA PwmInvariant == Spec => []PwmInv
<1>1. PwmInv /\ [Next]_vars => PwmInv'
  <2> SUFFICES ASSUME PwmInv, [Next]_vars PROVE PwmInv'
    OBVIOUS
  <2>1. CASE Restart
    BY <2>1, RestartInv
  <2>2. CASE Continue
    BY <2>2, ContinueInv
  <2>3. CASE Host \/ Loop
    BY <2>3, StoreInv
  <2>4. CASE UNCHANGED vars
    BY <2>4 DEF vars, images, settings, pwm, PwmInv, TypeOK, DutyCycle, QuietBelowMaximum,
       Shown
  <2>5. QED
    BY <2>1, <2>2, <2>3, <2>4 DEF Next, Tick
<1>2. QED
  BY InitInv, <1>1, PTL DEF Spec

(* No colour, setting or index of the PWM leaves a byte, whatever the        *)
(* interrupt saw half written and whatever slowdown the host has set.        *)
THEOREM TypeCorrect == Spec => []TypeOK
<1>1. PwmInv => TypeOK
  BY DEF PwmInv
<1>2. QED
  BY <1>1, PwmInvariant, PTL

(* In a period without a store the channel is lit for as many slots as its   *)
(* colour says, also when the period before was cut short or led past its    *)
(* end by a new maximum.                                                     *)
THEOREM DutyCycleKept == Spec => []DutyCycle
<1>1. PwmInv => DutyCycle
  BY DEF PwmInv
<1>2. QED
  BY <1>1, PwmInvariant, PTL

-----------------------------------------------------------------------------
(* The fade.  That a period brings the channel no further from the colour    *)
(* asked for needs two more facts: at the places where the main loop leaves  *)
(* the image alone the end of the fade is that colour, and what a quiet      *)
(* period shows is what the interrupt blended at the index before, from the  *)
(* same two colours and under the same settings, or the end of the fade.     *)

EndStored ==
  /\ pc \in {"usb", "compare", "test", "clear", "slowdown"} => end = wanted
  /\ pc \in {"fillStart", "fillCurrent", "fillEnd"} => wanted = 0

AtEnd == start = end /\ current = end
OnTheWay == /\ smoothIndex # 0 /\ smoothIndex - 1 < smoothSlowdown
            /\ current = Shade(smoothIndex - 1)

Fading == quiet /\ isSmoothEnabled # 0 => AtEnd \/ OnTheWay

FadeInv == TypeOK /\ EndStored /\ Fading

(* What the start of a period with a smooth fade leaves.                     *)
LEMMA Evaluated ==
  ASSUME TypeOK, Restart, isSmoothEnabled # 0
  PROVE  IF FadeOver THEN start' = end /\ current' = end
         ELSE /\ start' = start /\ smoothIndex' = smoothIndex + 1
              /\ current' = Shade(smoothIndex) /\ smoothIndex < smoothSlowdown
BY BlendByte, WidthType DEF Restart, EvalCurrentImage_SmoothlyAlg, FadeOver, TypeOK, Byte

(* A step of the main loop or of the host leaves the end of the fade right,  *)
(* and no quiet period.                                                      *)
LEMMA StoreFade ==
  ASSUME FadeInv, Host \/ Loop
  PROVE  EndStored' /\ Fading'
<1> USE DEF Step, FadeInv, EndStored
<1>1. quiet' = FALSE
  BY DEF Host, Loop, UpdateLeds, SetPwmLevelMaxValue, SetSmoothSlowdown, OffAll, StoreStart,
     StoreEnd, LoadStart, Compare, ClearIndex, StoreSlowdown, FillStart, FillCurrent, FillEnd
<1>2. Fading'
  BY <1>1 DEF Fading
<1>3. CASE Host
  BY <1>2, <1>3 DEF Host, UpdateLeds, SetPwmLevelMaxValue, SetSmoothSlowdown, OffAll, images
<1>4. CASE StoreStart \/ StoreEnd \/ LoadStart \/ Compare \/ ClearIndex \/ StoreSlowdown
  BY <1>2, <1>4
     DEF StoreStart, StoreEnd, LoadStart, Compare, ClearIndex, StoreSlowdown, images
<1>5. CASE FillStart \/ FillCurrent \/ FillEnd
  BY <1>2, <1>5 DEF FillStart, FillCurrent, FillEnd
<1>6. QED
  BY <1>3, <1>4, <1>5 DEF Loop

(* A tick leaves a quiet period at a blend of the fade, or at its end.       *)
LEMMA TickFade ==
  ASSUME FadeInv, Tick
  PROVE  EndStored' /\ Fading'
<1> USE DEF FadeInv
<1>1. UNCHANGED <<end, settings, pc, wanted>>
  BY DEF Tick, Restart, Continue, images
<1>2. EndStored'
  BY <1>1 DEF EndStored
<1>3. CASE Continue
  <2>1. UNCHANGED <<images, settings, quiet>>
    BY <1>3 DEF Continue
  <2>2. QED
    BY <1>2, <2>1 DEF images, settings, Fading, AtEnd, OnTheWay, Shade
<1>4. CASE Restart /\ isSmoothEnabled # 0
  <2>1. CASE FadeOver
    BY <1>1, <1>2, <1>4, <2>1, Evaluated DEF Fading, AtEnd
  <2>2. CASE ~FadeOver
    <3>1. /\ start' = start /\ smoothIndex' = smoothIndex + 1
          /\ current' = Shade(smoothIndex) /\ smoothIndex < smoothSlowdown
      BY <1>4, <2>2, Evaluated
    <3>2. smoothIndex \in Nat
      BY WidthType DEF TypeOK, Byte
    <3>3. smoothIndex' # 0 /\ smoothIndex' - 1 = smoothIndex
      BY <3>1, <3>2
    <3>4. Shade(smoothIndex)' = Mean(Width, PartOf(Width, smoothIndex', smoothSlowdown), start, end)
      BY <1>1, <3>1 DEF Shade, settings
    <3>5. current' = Mean(Width, PartOf(Width, smoothIndex' - 1, smoothSlowdown'), start', end')
      BY <1>1, <3>1, <3>3 DEF Shade, settings
    <3>6. OnTheWay'
      BY <1>1, <3>1, <3>3, <3>5 DEF OnTheWay, Shade, settings
    <3>7. QED
      BY <1>2, <3>6 DEF Fading
  <2>3. QED
    BY <2>1, <2>2
<1>5. CASE Restart /\ isSmoothEnabled = 0
  BY <1>1, <1>2, <1>5 DEF Fading, settings
<1>6. QED
  BY <1>3, <1>4, <1>5 DEF Tick, TypeOK, Byte

(* Switched on, the device shows black and was asked for black.              *)
LEMMA InitFade == Init => EndStored /\ Fading
BY DEF Init, EndStored, Fading, AtEnd

(* The invariant of the fade is one of the specification.                    *)
LEMMA FadeInvariant == Spec => []FadeInv
<1>1. Init => FadeInv
  BY InitInv, InitFade DEF PwmInv, FadeInv
<1>2. FadeInv /\ TypeOK' /\ [Next]_vars => FadeInv'
  <2> SUFFICES ASSUME FadeInv, TypeOK', [Next]_vars PROVE EndStored' /\ Fading'
    BY DEF FadeInv
  <2>1. CASE Tick
    BY <2>1, TickFade
  <2>2. CASE Host \/ Loop
    BY <2>2, StoreFade
  <2>3. CASE UNCHANGED vars
    BY <2>3 DEF vars, images, settings, FadeInv, EndStored, Fading, AtEnd, OnTheWay, Shade
  <2>4. QED
    BY <2>1, <2>2, <2>3 DEF Next
<1>3. QED
  BY <1>1, <1>2, TypeCorrect, PTL DEF Spec

(* A number between another one and the goal is no further from the goal.    *)
LEMMA Nearer ==
  ASSUME NEW a \in Nat, NEW b \in Nat, NEW goal \in Nat,
         (a <= b /\ b <= goal) \/ (goal <= b /\ b <= a)
  PROVE  Distance(b, goal) <= Distance(a, goal)
BY DEF Distance

(* The step of a fade.                                                       *)
LEMMA FadeStep ==
  ASSUME FadeInv, Restart, quiet, pc = "usb", isSmoothEnabled # 0
  PROVE  Distance(current', end) <= Distance(current, end)
<1>1. /\ TypeOK /\ (AtEnd \/ OnTheWay)
      /\ {start, current, end, smoothIndex, smoothSlowdown} \subseteq Nat
      /\ Width \in Nat \ {0}
  BY WidthType DEF FadeInv, Fading, TypeOK, Byte
<1>2. CASE FadeOver
  <2>1. current' = end
    BY <1>1, <1>2, Evaluated
  <2>2. QED
    BY <1>1, <2>1 DEF Distance
<1>3. CASE ~FadeOver
  <2>1. current' = Shade(smoothIndex) /\ smoothIndex < smoothSlowdown
    BY <1>1, <1>3, Evaluated
  <2> DEFINE f == PartOf(Width, smoothIndex, smoothSlowdown)
  <2>2. f \in 0 .. Width - 1
    BY <1>1, <2>1, Parts
  <2>3. CASE AtEnd
    <3>1. Shade(smoothIndex) = end
      BY <1>1, <2>2, <2>3, MeanBetween DEF AtEnd, Shade
    <3>2. QED
      BY <1>1, <2>1, <3>1 DEF Distance
  <2>4. CASE OnTheWay
    <3> DEFINE e == PartOf(Width, smoothIndex - 1, smoothSlowdown)
    <3>1. smoothIndex - 1 \in Nat /\ smoothIndex - 1 <= smoothIndex
      BY <1>1, <2>4 DEF OnTheWay
    <3>2. e \in 0 .. Width - 1 /\ e <= f
      BY <1>1, <2>1, <3>1, Parts
    <3>3. current = Mean(Width, e, start, end) /\ current' = Mean(Width, f, start, end)
      BY <2>1, <2>4 DEF OnTheWay, Shade
    <3> HIDE DEF e, f
    <3>4. /\ current' \in Nat
          /\ start <= end => current <= current' /\ current' <= end
          /\ end <= start => end <= current' /\ current' <= current
      BY <1>1, <2>2, <3>2, <3>3, MeanApproaches
    <3>5. (current <= current' /\ current' <= end) \/ (end <= current' /\ current' <= current)
      BY <1>1, <3>4
    <3>6. QED
      BY <1>1, <3>4, <3>5, Nearer
  <2>5. QED
    BY <1>1, <2>3, <2>4
<1>4. QED
  BY <1>2, <1>3

(* From one period to the next with no store between them the channel does   *)
(* not move away from the colour asked for, whatever half of a command the   *)
(* period before had seen.                                                   *)
THEOREM FadeApproaches == Spec => Approaches
<1>1. FadeInv /\ [Next]_vars =>
        [Restart /\ quiet /\ pc = "usb" =>
           Distance(Shown', wanted) <= Distance(Shown, wanted)]_vars
  <2> SUFFICES ASSUME FadeInv, Restart, quiet, pc = "usb"
               PROVE  Distance(Shown', wanted) <= Distance(Shown, wanted)
    OBVIOUS
  <2>1. end = wanted /\ end' = end /\ isSmoothEnabled' = isSmoothEnabled
    BY DEF FadeInv, EndStored, Restart, settings
  <2>2. CASE isSmoothEnabled # 0
    BY <2>1, <2>2, FadeStep DEF Shown
  <2>3. CASE isSmoothEnabled = 0
    <3>1. Shown' = Shown /\ Distance(Shown, wanted) \in Int
      BY <2>1, <2>3, WidthType DEF Shown, FadeInv, TypeOK, Byte, Distance
    <3>2. QED
      BY <3>1
  <2>4. QED
    BY <2>2, <2>3
<1>2. QED
  BY <1>1, FadeInvariant, PTL DEF Spec, Approaches
=============================================================================
