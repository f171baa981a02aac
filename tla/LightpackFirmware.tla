------------------------- MODULE LightpackFirmware -------------------------
(* The firmware of the device, hardware 6 and later: the main loop, which    *)
(* takes one HID report at a time and writes the colours of g_Images byte by *)
(* byte, and the timer interrupt, which reads and writes the same colours    *)
(* between any two of those writes and shows them on the LEDs                *)
(* (Firmware/Lightpack.c, LightpackUSB.c, LedManager.c, LedDriver.c).        *)
(*                                                                           *)
(* The statements of the main loop are taken in the order of the source; the *)
(* two bytes of a colour go in either order, as the compiler pleases.  The   *)
(* interrupt handler cannot be interrupted, so a tick is one step.           *)
EXTENDS SmoothColors, FiniteSets

CONSTANTS LEDS_COUNT,   \* LEDs of the device (10 in the code)
          CHANNELS,     \* colour channels of a LED (3 in the code)
          Shades,       \* the shades the host sends
          Slowdowns,    \* the values it sends of the smooth slowdown
          FirstSlowdown \* smoothSlowdown of g_Settings when it is switched on

ASSUME FirmwareAssumption ==
  /\ LEDS_COUNT \in Nat \ {0} /\ CHANNELS \in Nat \ {0}
  /\ Shades \subseteq Shade
  /\ Slowdowns \subseteq 0 .. 255 /\ FirstSlowdown \in 1 .. 255

Leds == 0 .. LEDS_COUNT - 1
Channels == 0 .. CHANNELS - 1
Image == [Leds -> [Channels -> Shade]]
BlackImage == [i \in Leds |-> [c \in Channels |-> Black]]

VARIABLES start, current, end, smoothIndex,  \* g_Images
          isSmoothEnabled, smoothSlowdown,   \* g_Settings
          ledsOffAll,                        \* Flag_LedsOffAll
          configured,    \* USB_DeviceState = DEVICE_STATE_Configured
          report,        \* ReportData: the colours of the report in hand
          pc,            \* where the main loop is, and the bytes it has left
          reg,           \* the processor register the main loop works with
          lit,           \* what the LEDs show, latched by the last tick
          wanted,        \* history: the colours that were asked for last
          since          \* history: what the main loop did since the last tick

images   == <<start, current, end, smoothIndex>>
settings == <<isSmoothEnabled, smoothSlowdown>>
history  == <<wanted, since>>
vars == <<images, settings, ledsOffAll, configured, report, pc, reg, lit, history>>

Places == {"usb", "load", "store", "end", "low", "compare", "clear", "slowdown",
           "flags", "fillStart", "fillCurrent", "fillEnd"}

TypeOK ==
  /\ {start, current, end, lit, wanted, report} \subseteq Image
  /\ smoothIndex \in [Leds -> 0 .. 255]
  /\ isSmoothEnabled \in 0 .. 255 /\ smoothSlowdown \in 0 .. 255
  /\ {ledsOffAll, configured} \subseteq BOOLEAN
  /\ since \in {"nothing", "frames", "other"}
  /\ reg \in Nat
  /\ pc \in [at : Places, led : Leds, ch : Channels, left : SUBSET Bytes]

Init ==
  /\ start = BlackImage /\ current = BlackImage /\ end = BlackImage
  /\ lit = BlackImage /\ wanted = BlackImage /\ report = BlackImage
  /\ smoothIndex = [i \in Leds |-> 0]
  /\ isSmoothEnabled = 1 /\ smoothSlowdown = FirstSlowdown
  /\ ledsOffAll = FALSE /\ configured = FALSE /\ since = "other"
  /\ reg = 0
  /\ pc = [at |-> "usb", led |-> 0, ch |-> 0, left |-> Bytes]

(***************************************************************************)
(* The timer interrupt.                                                    *)
(***************************************************************************)
BetweenReports == pc.at \in {"usb", "flags"}

FadeOver(i) == smoothIndex[i] >= smoothSlowdown

EvalCurrentImage_SmoothlyAlg ==
  /\ current' = [i \in Leds |-> IF FadeOver(i) THEN end[i] ELSE
                   [c \in Channels |->
                      Blend(start[i][c], end[i][c], smoothIndex[i], smoothSlowdown)]]
  /\ start' = [i \in Leds |-> IF FadeOver(i) THEN end[i] ELSE start[i]]
  /\ smoothIndex' = [i \in Leds |->
                       IF FadeOver(i) THEN smoothIndex[i] ELSE smoothIndex[i] + 1]

Tick ==
  /\ EvalCurrentImage_SmoothlyAlg
  /\ lit' = IF isSmoothEnabled # 0 THEN current' ELSE end
  /\ since' = IF BetweenReports THEN "nothing" ELSE "other"
  /\ UNCHANGED <<end, settings, ledsOffAll, configured, report, pc, reg, wanted>>

(***************************************************************************)
(* The main loop.  GoTo starts a statement on a colour, Does(at, b) is one *)
(* of its bytes, and Then says where the loop goes after the last one.     *)
(***************************************************************************)
GoTo(at, i, c) == [at |-> at, led |-> i, ch |-> c, left |-> Bytes]
FirstColor(at) == GoTo(at, 0, 0)
NextChannel(at, after) ==
  IF pc.ch + 1 \in Channels THEN GoTo(at, pc.led, pc.ch + 1) ELSE after
NextLed(at, after) ==
  IF pc.led + 1 \in Leds THEN GoTo(at, pc.led + 1, 0) ELSE after

Does(at, b) == pc.at = at /\ b \in pc.left
Then(b, after) ==
  pc' = IF pc.left = {b} THEN after ELSE [pc EXCEPT !.left = @ \ {b}]

WriteByte(image, value, b) ==
  image' = [image EXCEPT ![pc.led][pc.ch] = WithByte(@, value, b)]

(* ProcessUsbTasks: at most one report is taken in each round.             *)
NoReport ==
  /\ pc.at = "usb" /\ pc' = FirstColor("flags")
  /\ UNCHANGED <<images, settings, ledsOffAll, configured, report, reg, lit, history>>

UpdateLeds ==
  /\ pc.at = "usb" /\ configured
  /\ \E colors \in [Leds -> [Channels -> Shades]] :
       report' = colors /\ wanted' = colors
  /\ pc' = FirstColor("load")
  /\ since' = IF since = "other" THEN "other" ELSE "frames"
  /\ UNCHANGED <<images, settings, ledsOffAll, configured, reg, lit>>

OffAll ==
  /\ pc.at = "usb" /\ configured
  /\ ledsOffAll' = TRUE /\ pc' = FirstColor("flags")
  /\ UNCHANGED <<images, settings, configured, report, reg, lit, history>>

(* The two settings of one command are stored one after the other.         *)
SetSmoothSlowdown ==
  /\ pc.at = "usb" /\ configured
  /\ \E slowdown \in Slowdowns : isSmoothEnabled' = slowdown /\ reg' = slowdown
  /\ pc' = FirstColor("slowdown") /\ since' = "other"
  /\ UNCHANGED <<images, smoothSlowdown, ledsOffAll, configured, report, lit, wanted>>

StoreSlowdown ==
  /\ pc.at = "slowdown"
  /\ smoothSlowdown' = reg /\ pc' = FirstColor("flags")
  /\ UNCHANGED <<images, isSmoothEnabled, ledsOffAll, configured, report, reg, lit,
                 history>>

(* CMD_UPDATE_LEDS: start = current, each colour loaded and then stored.   *)
LoadCurrent(b) ==
  /\ Does("load", b)
  /\ reg' = WithByte(reg, current[pc.led][pc.ch], b)
  /\ Then(b, GoTo("store", pc.led, pc.ch))
  /\ UNCHANGED <<images, settings, ledsOffAll, configured, report, lit, history>>

StoreStart(b) ==
  /\ Does("store", b)
  /\ WriteByte(start, reg, b)
  /\ Then(b, NextChannel("load", GoTo("end", pc.led, 0)))
  /\ UNCHANGED <<current, end, smoothIndex, settings, ledsOffAll, configured, report,
                 reg, lit, history>>

(* end = the high digits of the report, then its low digits or-ed in.      *)
StoreEnd(b) ==
  /\ Does("end", b)
  /\ WriteByte(end, HighDigits(report[pc.led][pc.ch]), b)
  /\ Then(b, NextChannel("end", GoTo("low", pc.led, 0)))
  /\ UNCHANGED <<start, current, smoothIndex, settings, ledsOffAll, configured, report,
                 reg, lit, history>>

OrEnd ==
  /\ pc.at = "low"
  /\ end' = [end EXCEPT ![pc.led][pc.ch] = OrLowDigit(@, report[pc.led][pc.ch])]
  /\ pc' = NextChannel("low", GoTo("compare", pc.led, 0))
  /\ UNCHANGED <<start, current, smoothIndex, settings, ledsOffAll, configured, report,
                 reg, lit, history>>

(* Mutant: only the low byte is compared.                                  *)
Compare_LowByte(b) ==
  /\ Does("compare", b)
  /\ LET from == start[pc.led][pc.ch]
         to   == end[pc.led][pc.ch]
     IN  IF WithByte(from, to, "lo") # from
         THEN pc' = GoTo("clear", pc.led, pc.ch)
         ELSE Then(b, NextChannel("compare", NextLed("load", FirstColor("flags"))))
  /\ UNCHANGED <<images, settings, ledsOffAll, configured, report, reg, lit, history>>

(* A pixel that changed, by one byte at least, restarts its fade.          *)
Compare(b) ==
  /\ Does("compare", b)
  /\ LET from == start[pc.led][pc.ch]
         to   == end[pc.led][pc.ch]
     IN  IF WithByte(from, to, b) # from
         THEN pc' = GoTo("clear", pc.led, pc.ch)
         ELSE Then(b, NextChannel("compare", NextLed("load", FirstColor("flags"))))
  /\ UNCHANGED <<images, settings, ledsOffAll, configured, report, reg, lit, history>>

ClearIndex ==
  /\ pc.at = "clear"
  /\ smoothIndex' = [smoothIndex EXCEPT ![pc.led] = 0]
  /\ pc' = NextLed("load", FirstColor("flags"))
  /\ UNCHANGED <<start, current, end, settings, ledsOffAll, configured, report, reg,
                 lit, history>>

(* _ProcessFlags: the flag is not looked at while the USB is not           *)
(* configured, and the LEDs are then blackened in every round.             *)
ProcessFlags ==
  /\ pc.at = "flags"
  /\ ledsOffAll' = (ledsOffAll /\ ~configured)
  /\ IF ledsOffAll \/ ~configured
     THEN pc' = FirstColor("fillStart") /\ wanted' = BlackImage /\ since' = "other"
     ELSE pc' = FirstColor("usb") /\ UNCHANGED history
  /\ UNCHANGED <<images, settings, configured, report, reg, lit>>

(* LedManager_FillImages(0, 0, 0): three images, LED by LED.               *)
FillStart(b) ==
  /\ Does("fillStart", b) /\ WriteByte(start, Black, b)
  /\ Then(b, NextChannel("fillStart", GoTo("fillCurrent", pc.led, 0)))
  /\ UNCHANGED <<current, end, smoothIndex>>

FillCurrent(b) ==
  /\ Does("fillCurrent", b) /\ WriteByte(current, Black, b)
  /\ Then(b, NextChannel("fillCurrent", GoTo("fillEnd", pc.led, 0)))
  /\ UNCHANGED <<start, end, smoothIndex>>

FillEnd(b) ==
  /\ Does("fillEnd", b) /\ WriteByte(end, Black, b)
  /\ Then(b, NextChannel("fillEnd", NextLed("fillStart", FirstColor("usb"))))
  /\ UNCHANGED <<start, current, smoothIndex>>

LedManager_FillImages(b) ==
  /\ FillStart(b) \/ FillCurrent(b) \/ FillEnd(b)
  /\ UNCHANGED <<settings, ledsOffAll, configured, report, reg, lit, history>>

(***************************************************************************)
(* The host configures the device, or it is unplugged, reset or suspended, *)
(* or woken up: by the interrupt of the bus, wherever the main loop is.    *)
(***************************************************************************)
UsbConfigured ==
  /\ ~configured /\ configured' = TRUE
  /\ UNCHANGED <<images, settings, ledsOffAll, report, pc, reg, lit, history>>

UsbLost ==
  /\ configured /\ configured' = FALSE
  /\ UNCHANGED <<images, settings, ledsOffAll, report, pc, reg, lit, history>>

Host == UpdateLeds \/ OffAll \/ SetSmoothSlowdown
Usb  == UsbConfigured \/ UsbLost
Loop ==
  \/ NoReport \/ StoreSlowdown \/ OrEnd \/ ClearIndex \/ ProcessFlags
  \/ \E b \in Bytes : \/ LoadCurrent(b) \/ StoreStart(b) \/ StoreEnd(b)
                      \/ Compare(b) \/ LedManager_FillImages(b)

Next == Tick \/ Host \/ Usb \/ Loop

(* The timer fires again and again, and after each return from interrupt   *)
(* the processor executes at least one instruction of the main loop.       *)
Spec == Init /\ [][Next]_vars /\ WF_vars(Tick) /\ WF_vars(Loop)

(***************************************************************************)
(* Properties.                                                             *)
(***************************************************************************)

(* Whatever the interrupt saw of a half written frame, once the host and   *)
(* the cable leave the device alone the LEDs come to show, and keep, the   *)
(* colours asked for last: the frame of the last report, or black.         *)
Settles == <>[][~Host /\ ~Usb]_vars => <>[](lit = wanted)

(* From one tick to the next with no report, setting or filling between    *)
(* them, no channel of no LED moves away from the colour asked for.        *)
Distance(a, b) == IF a < b THEN b - a ELSE a - b
Approaches ==
  [][Tick /\ since = "nothing" => \A i \in Leds, c \in Channels :
        Distance(lit'[i][c], wanted[i][c]) <= Distance(lit[i][c], wanted[i][c])]_vars

(* A fade starts from what the LEDs show: when whole frames were written   *)
(* between two ticks, however many, the second tick changes nothing yet.   *)
FadeStarts ==
  [][Tick /\ since = "frames" /\ BetweenReports
       /\ isSmoothEnabled # 0 /\ smoothSlowdown # 0 => lit' = lit]_vars

=============================================================================
