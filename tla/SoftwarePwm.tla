---------------------------- MODULE SoftwarePwm ----------------------------
(* The firmware of the device, hardware 4 and 5: the timer interrupt lights  *)
(* the LEDs slot by slot and fades at the start of each period, while the    *)
(* main loop stores colours and settings in the memory the interrupt reads   *)
(* (Firmware/LedManager.c, LedDriver.c, LightpackUSB.c, Lightpack.c).        *)
(*                                                                           *)
(* Colours are single bytes here, and a colour channel of a LED meets the    *)
(* others only in the smooth index of the LED: one channel is modelled, the  *)
(* index of a LED with several in LightpackFirmware.                         *)
EXTENDS Integers

CONSTANTS
  Width,          \* values of a byte: 256 in the code
  Shades,         \* the colours the host sends
  Depths,         \* the values it sends of maxPwmValue
  Slowdowns,      \* the values it sends of the smooth slowdown
  FirstDepth, FirstSlowdown  \* g_Settings when the device is switched on

Byte == 0 .. Width - 1

(* The host sends colour depths from 32 to 255 (Settings.cpp).             *)
ASSUME SoftwarePwmAssumption ==
  /\ Width \in Nat \ {0}
  /\ Shades \subseteq Byte /\ Slowdowns \subseteq Byte
  /\ Depths \subseteq Byte \ {0} /\ FirstDepth \in Byte \ {0}
  /\ FirstSlowdown \in Byte \ {0}

VARIABLES
  start, current, end, smoothIndex,  \* g_Images
  isSmoothEnabled, smoothSlowdown, maxPwmValue,  \* g_Settings
  pwmIndex,     \* s_pwmIndex
  pc,           \* where the main loop is
  reg,          \* the processor register it works with
  lit,          \* the channel is lit in this slot
  quiet,        \* history: the main loop has stored nothing in this period
  litSlots,     \* history: the lit slots of a quiet period
  wanted        \* history: the colour that was asked for last

images   == <<start, current, end, smoothIndex>>
settings == <<isSmoothEnabled, smoothSlowdown, maxPwmValue>>
pwm      == <<pwmIndex, lit>>
vars == <<images, settings, pwm, pc, reg, quiet, litSlots, wanted>>

Places == {"usb", "start", "end", "compare", "test", "clear", "slowdown", "off",
           "fillStart", "fillCurrent", "fillEnd"}

TypeOK ==
  /\ {start, current, end, smoothIndex, isSmoothEnabled, smoothSlowdown, maxPwmValue,
      pwmIndex, reg, wanted} \subseteq Byte
  /\ lit \in 0 .. 1 /\ quiet \in BOOLEAN /\ pc \in Places
  /\ litSlots \in Byte

Init ==
  /\ start = 0 /\ current = 0 /\ end = 0 /\ smoothIndex = 0
  /\ isSmoothEnabled = 1 /\ smoothSlowdown = FirstSlowdown /\ maxPwmValue = FirstDepth
  /\ pwmIndex = 0 /\ lit = 0 /\ litSlots = 0
  /\ pc = "usb" /\ reg = 0 /\ quiet = TRUE /\ wanted = 0

(***************************************************************************)
(* The timer interrupt.                                                    *)
(***************************************************************************)
FadeOver == smoothIndex >= smoothSlowdown

(* Mutant: the two coefficients are swapped                                *)
Blend_Swapped ==
  LET coefEnd   == (smoothIndex * Width) \div smoothSlowdown
      coefStart == Width - coefEnd
  IN  (coefEnd * start + coefStart * end) \div Width

Blend ==
  LET coefEnd   == (smoothIndex * Width) \div smoothSlowdown
      coefStart == Width - coefEnd
  IN  (coefStart * start + coefEnd * end) \div Width

EvalCurrentImage_SmoothlyAlg ==
  /\ current' = IF FadeOver THEN end ELSE Blend
  /\ start' = IF FadeOver THEN end ELSE start
  /\ smoothIndex' = IF FadeOver THEN smoothIndex ELSE smoothIndex + 1

(* Mutant: a colour is lit one slot too long                               *)
Lit_Closed(colour, index) == IF colour >= index THEN 1 ELSE 0

(* LedDriver_UpdatePWM                                                     *)
Lit(colour, index) == IF colour > index THEN 1 ELSE 0

(* Mutant: the index is wider than a byte                                  *)
After_Wide(index) == index + 1

(* Mutant: the index stops at the largest byte                             *)
After_Saturated(index) == IF index = Width - 1 THEN index ELSE index + 1

After(index) == (index + 1) % Width

(* A slot in which the channel shows a colour for one step of the index    *)
Slot(colour, index) ==
  /\ lit' = Lit(colour, index)
  /\ pwmIndex' = After(index)

(* A period begins: the LEDs go off for a while and the image is faded.    *)
Restart ==
  /\ pwmIndex = maxPwmValue
  /\ IF isSmoothEnabled # 0
     THEN EvalCurrentImage_SmoothlyAlg /\ Slot(current', 0)
     ELSE Slot(end, 0) /\ UNCHANGED <<start, current, smoothIndex>>
  /\ litSlots' = lit'
  /\ quiet' = TRUE
  /\ UNCHANGED <<end, settings, pc, reg, wanted>>

Continue ==
  /\ pwmIndex # maxPwmValue
  /\ Slot(IF isSmoothEnabled # 0 THEN current ELSE end, pwmIndex)
  /\ litSlots' = IF quiet THEN litSlots + lit' ELSE 0
  /\ UNCHANGED <<images, settings, pc, reg, quiet, wanted>>

Tick == Restart \/ Continue

(***************************************************************************)
(* The main loop.  Each step is one store; the interrupt may come between  *)
(* any two of them.                                                        *)
(***************************************************************************)
Step(from, to) == pc = from /\ pc' = to /\ quiet' = FALSE /\ litSlots' = 0

(* CMD_UPDATE_LEDS: start = current goes through a register.               *)
UpdateLeds ==
  /\ Step("usb", "start")
  /\ wanted' \in Shades
  /\ reg' = current
  /\ UNCHANGED <<images, settings, pwm>>

StoreStart ==
  /\ Step("start", "end")
  /\ start' = reg
  /\ UNCHANGED <<current, end, smoothIndex, settings, pwm, reg, wanted>>

StoreEnd ==
  /\ Step("end", "compare")
  /\ end' = wanted
  /\ UNCHANGED <<start, current, smoothIndex, settings, pwm, reg, wanted>>

(* A colour that changed restarts the fade; the two are loaded in turn.    *)
LoadStart ==
  /\ Step("compare", "test")
  /\ reg' = start
  /\ UNCHANGED <<images, settings, pwm, wanted>>

Compare ==
  /\ Step("test", IF reg # end THEN "clear" ELSE "usb")
  /\ UNCHANGED <<images, settings, pwm, reg, wanted>>

ClearIndex ==
  /\ Step("clear", "usb")
  /\ smoothIndex' = 0
  /\ UNCHANGED <<start, current, end, settings, pwm, reg, wanted>>

SetPwmLevelMaxValue ==
  /\ Step("usb", "usb")
  /\ maxPwmValue' \in Depths
  /\ UNCHANGED <<images, isSmoothEnabled, smoothSlowdown, pwm, reg, wanted>>

(* The two settings of one command are stored one after the other.         *)
SetSmoothSlowdown ==
  /\ Step("usb", "slowdown")
  /\ isSmoothEnabled' \in Slowdowns
  /\ reg' = isSmoothEnabled'
  /\ UNCHANGED <<images, smoothSlowdown, maxPwmValue, pwm, wanted>>

StoreSlowdown ==
  /\ Step("slowdown", "usb")
  /\ smoothSlowdown' = reg
  /\ UNCHANGED <<images, isSmoothEnabled, maxPwmValue, pwm, reg, wanted>>

(* CMD_OFF_ALL, or the cable is pulled: LedManager_FillImages(0, 0, 0)     *)
OffAll ==
  /\ Step("usb", "fillStart")
  /\ wanted' = 0
  /\ UNCHANGED <<images, settings, pwm, reg>>

FillStart ==
  /\ Step("fillStart", "fillCurrent") /\ start' = 0
  /\ UNCHANGED <<current, end, smoothIndex, settings, pwm, reg, wanted>>

FillCurrent ==
  /\ Step("fillCurrent", "fillEnd") /\ current' = 0
  /\ UNCHANGED <<start, end, smoothIndex, settings, pwm, reg, wanted>>

FillEnd ==
  /\ Step("fillEnd", "usb") /\ end' = 0
  /\ UNCHANGED <<start, current, smoothIndex, settings, pwm, reg, wanted>>

Host == UpdateLeds \/ SetPwmLevelMaxValue \/ SetSmoothSlowdown \/ OffAll
Loop == StoreStart \/ StoreEnd \/ LoadStart \/ Compare \/ ClearIndex \/ StoreSlowdown
          \/ FillStart \/ FillCurrent \/ FillEnd

Next == Tick \/ Host \/ Loop

(* The timer fires again and again, and after each return from interrupt   *)
(* the processor executes at least one instruction of the main loop.       *)
Spec == Init /\ [][Next]_vars /\ WF_vars(Tick) /\ WF_vars(Loop)

-----------------------------------------------------------------------------
(* What must hold *)

Shown == IF isSmoothEnabled # 0 THEN current ELSE end

(* In a period that the main loop leaves alone the channel is lit for as many *)
(* slots as its colour says, first all the lit ones and then the dark ones,   *)
(* whatever came before: a period never inherits from the one that a lower    *)
(* maximum cut short or led past its end.                                     *)
DutyCycle ==
  quiet => litSlots = IF Shown < pwmIndex THEN Shown ELSE pwmIndex

(* The index is compared with the maximum for equality.  Also when the host   *)
(* has set the maximum below it, a new period begins in the end.              *)
PeriodsEnd == <>[][~SetPwmLevelMaxValue]_vars => []<><<Restart>>_vars

(* From one period to the next with no store of the main loop between them    *)
(* the channel does not move away from the colour asked for.                  *)
Distance(a, b) == IF a < b THEN b - a ELSE a - b
Approaches ==
  [][Restart /\ quiet /\ pc = "usb" =>
       Distance(Shown', wanted) <= Distance(Shown, wanted)]_vars

(* Whatever the interrupt saw of a half written colour or setting, once the   *)
(* host leaves the device alone the channel comes to show the colour asked    *)
(* for last.                                                                  *)
Settles == <>[][~Host]_vars => <>[](Shown = wanted)
=============================================================================
