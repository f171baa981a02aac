---------------------- MODULE LightpackFirmware_proofs ----------------------
(* What is proved of the firmware for every number of LEDs, channels and     *)
(* digits: no byte-wise copy and no blend ever leaves the range of a colour, *)
(* a fade starts from what the LEDs show, and it never moves away from the   *)
(* colour asked for.                                                         *)
EXTENDS LightpackFirmware, Lemmas

(* The number of shades is a positive multiple of what the low byte counts.  *)
LEMMA Sizes ==
  /\ Digit * Digit \in Nat \ {0}
  /\ Digit * Digit * Digit \in Nat \ {0}
  /\ Digit * Digit * Digit = Digit * (Digit * Digit)
<1>1. Digit * Digit \in Nat \ {0}
  BY DigitAssumption, SMT
<1>2. Digit * Digit * Digit \in Nat \ {0}
  BY <1>1, DigitAssumption, SMT
<1> QED
  BY <1>1, <1>2, DigitAssumption, SMT

(* Different multiples of b are at least b apart.                            *)
LEMMA Multiples ==
  ASSUME NEW p \in Nat, NEW q \in Nat, NEW b \in Nat \ {0}, p < q
  PROVE  b * p + b <= b * q
<1>1. q >= p + 1
  OBVIOUS
<1>2. b * q >= b * (p + 1)
  BY <1>1, SMT
<1>3. b * (p + 1) = b * p + b
  BY SMT
<1> QED
  BY <1>2, <1>3, SMT

(* A number is below q times b exactly when its quotient by b is below q.    *)
LEMMA BelowMultiple ==
  ASSUME NEW x \in Nat, NEW q \in Nat, NEW b \in Nat \ {0}
  PROVE  x < b * q <=> x \div b < q
<1> DEFINE p == x \div b
           r == x % b
<1>1. p \in Nat /\ r \in 0 .. b - 1 /\ x = b * p + r
  BY Division
<1>2. b * p \in Nat /\ b * q \in Nat
  BY <1>1, SMT
<1> HIDE DEF p, r
<1>3. CASE p < q
  <2>1. b * p + b <= b * q
    BY <1>1, <1>3, Multiples
  <2> QED
    BY <1>1, <1>2, <1>3, <2>1, SMT DEF p
<1>4. CASE q <= p
  <2>1. b * q <= b * p
    BY <1>1, <1>2, <1>4, Multiples, SMT
  <2> QED
    BY <1>1, <1>2, <1>4, <2>1, SMT DEF p
<1> QED
  BY <1>1, <1>3, <1>4, SMT

(* What is added below a multiple of b stays below the next one.             *)
LEMMA BelowTop ==
  ASSUME NEW x \in Nat, NEW low \in Nat, NEW b \in Nat \ {0}, NEW top \in Nat,
         x + b <= top, low < b
  PROVE  x + low \in 0 .. top - 1
BY SMT

(* A byte of a colour written into a colour leaves a colour.  What the other *)
(* byte was does not matter when the byte written is the high one.           *)
LEMMA WithByteShade ==
  ASSUME NEW old \in Nat, NEW new \in Shade, NEW b \in Bytes,
         b = "lo" => old \in Shade
  PROVE  WithByte(old, new, b) \in Shade
<1> DEFINE B == Digit * Digit
           H(x) == x \div B
           L(x) == x % B
<1>1. B \in Nat \ {0} /\ Digit * Digit * Digit \in Nat \ {0}
      /\ Digit * Digit * Digit = B * Digit /\ Digit \in Nat
  BY Sizes, DigitAssumption, SMT
<1> HIDE DEF B
<1>2. \A x \in Nat : H(x) \in Nat /\ L(x) \in 0 .. B - 1 /\ x = B * H(x) + L(x)
  BY <1>1, Division
<1>3. \A x \in Shade : x \in Nat /\ x < B * Digit
  BY <1>1, SMT DEF Shade
<1>4. \A x \in Shade : H(x) < Digit
  BY <1>1, <1>3, BelowMultiple
<1> HIDE DEF H, L
<1>5. \A x \in Shade : B * H(x) \in Nat /\ B * H(x) + B <= B * Digit
  <2> SUFFICES ASSUME NEW x \in Shade
               PROVE  B * H(x) \in Nat /\ B * H(x) + B <= B * Digit
    OBVIOUS
  <2>1. H(x) \in Nat
    BY <1>2, <1>3
  <2>2. B * H(x) + B <= B * Digit
    BY <1>1, <1>4, <2>1, Multiples
  <2>3. B * H(x) \in Nat
    BY <1>1, <2>1, SMT
  <2> QED
    BY <2>2, <2>3
<1>6. \A x \in Shade : x - L(x) = B * H(x)
  BY <1>1, <1>2, <1>3, <1>5, SMT
<1>7. \A x \in Nat : L(x) \in Nat /\ L(x) < B
  BY <1>1, <1>2, SMT
<1>8. B * Digit \in Nat
  BY <1>1, SMT
<1>9. \A x \in Shade, y \in Nat : (x - L(x)) + L(y) \in Shade
  <2> SUFFICES ASSUME NEW x \in Shade, NEW y \in Nat
               PROVE  (x - L(x)) + L(y) \in 0 .. (B * Digit) - 1
    BY <1>1 DEF Shade
  <2>1. (B * H(x)) + L(y) \in 0 .. (B * Digit) - 1
    BY <1>1, <1>5, <1>7, <1>8, BelowTop
  <2> QED
    BY <1>6, <2>1
<1>10. CASE b = "lo"
  BY <1>3, <1>9, <1>10 DEF WithByte, L, B
<1>11. CASE b = "hi"
  BY <1>9, <1>11 DEF WithByte, L, B
<1> QED
  BY <1>10, <1>11 DEF Bytes

(* The low byte loaded into a register that holds no colour yet leaves a     *)
(* number.                                                                   *)
LEMMA WithByteNat ==
  ASSUME NEW old \in Nat, NEW new \in Nat, NEW b \in Bytes
  PROVE  WithByte(old, new, b) \in Nat
<1> DEFINE B == Digit * Digit
           L(x) == x % B
<1>1. B \in Nat \ {0}
  BY Sizes
<1> HIDE DEF B
<1>2. \A x \in Nat : L(x) \in 0 .. B - 1 /\ x - L(x) \in Nat
  <2> SUFFICES ASSUME NEW x \in Nat PROVE L(x) \in 0 .. B - 1 /\ x - L(x) \in Nat
    OBVIOUS
  <2>1. x \div B \in Nat /\ x % B \in 0 .. B - 1 /\ x = B * (x \div B) + (x % B)
    BY <1>1, Division
  <2>2. B * (x \div B) \in Nat
    BY <1>1, <2>1, SMT
  <2> QED
    BY <1>1, <2>1, <2>2, SMT
<1> HIDE DEF L
<1>3. \A x, y \in Nat : (x - L(x)) + L(y) \in Nat
  BY <1>1, <1>2, SMT
<1> QED
  BY <1>3 DEF WithByte, L, B

(* The report read in its two parts is a colour, whatever was there.         *)
LEMMA DigitsShade ==
  ASSUME NEW old \in Shade, NEW x \in Shade
  PROVE  HighDigits(x) \in Shade /\ OrLowDigit(old, x) \in Shade
<1> DEFINE B == Digit * Digit
           H(y) == y \div Digit
<1>1. B \in Nat \ {0} /\ Digit \in Nat \ {0}
      /\ Digit * Digit * Digit = Digit * B
  BY Sizes, DigitAssumption, SMT
<1> HIDE DEF B
<1>2. Digit * B \in Nat
  BY <1>1, SMT
<1>3. \A y \in Shade : y \in Nat /\ y < Digit * B
  BY <1>1, <1>2, SMT DEF Shade
<1>4. \A y \in Shade : H(y) \in Nat /\ H(y) < B
  BY <1>1, <1>3, BelowMultiple, Division
<1> HIDE DEF H
<1>5. \A y \in Shade : Digit * H(y) \in Nat /\ (Digit * H(y)) + Digit <= Digit * B
  <2> SUFFICES ASSUME NEW y \in Shade
               PROVE  Digit * H(y) \in Nat /\ (Digit * H(y)) + Digit <= Digit * B
    OBVIOUS
  <2>1. H(y) \in Nat /\ H(y) < B /\ B \in Nat
    BY <1>1, <1>4
  <2>2. (Digit * H(y)) + Digit <= Digit * B
    BY <1>1, <2>1, Multiples
  <2>3. Digit * H(y) \in Nat
    BY <1>1, <2>1, SMT
  <2> QED
    BY <2>2, <2>3
<1>6. HighDigits(x) = Digit * H(x) /\ HighDigits(old) = Digit * H(old)
  <2>1. \A y \in Nat : y * Digit = Digit * y
    BY <1>1, SMT
  <2> QED
    BY <1>4, <2>1 DEF HighDigits, H
<1>7. x % Digit \in Nat /\ x % Digit < Digit
  <2>1. x \in Nat
    BY <1>3
  <2>2. x % Digit \in 0 .. Digit - 1
    BY <1>1, <2>1, Division
  <2> QED
    BY <1>1, <2>2, SMT
<1>8. (Digit * H(x)) + 0 \in 0 .. (Digit * B) - 1
  BY <1>1, <1>2, <1>5, BelowTop, SMT
<1>9. (Digit * H(old)) + (x % Digit) \in 0 .. (Digit * B) - 1
  BY <1>1, <1>2, <1>5, <1>7, BelowTop
<1>10. (Digit * H(x)) + 0 = Digit * H(x)
  BY <1>5, SMT
<1> QED
  BY <1>1, <1>6, <1>8, <1>9, <1>10 DEF Shade, OrLowDigit

(* What the interrupt blends is the mean of the two colours of the fade.     *)
Parcels == 65536
Faded(from, to, index, slowdown) ==
  Mean(Parcels, PartOf(Parcels, index, slowdown), from, to)

(* The blend of the main module in the terms of the arithmetic below.        *)
LEMMA BlendFaded ==
  \A from, to, index, slowdown :
     Blend(from, to, index, slowdown) = Faded(from, to, index, slowdown)
BY DEF Blend, Faded, Mean, PartOf, Parcels

(* A fade that is not over shows a colour.                                   *)
LEMMA BlendShade ==
  ASSUME NEW from \in Shade, NEW to \in Shade,
         NEW index \in Nat, NEW slowdown \in Nat, index < slowdown
  PROVE  Blend(from, to, index, slowdown) \in Shade
<1>1. from \in Nat /\ to \in Nat /\ Parcels \in Nat \ {0}
  BY SMT DEF Shade, Parcels
<1>2. PartOf(Parcels, index, slowdown) \in 0 .. Parcels - 1
  BY <1>1, Parts
<1>3. /\ Faded(from, to, index, slowdown) \in Nat
      /\ \/ Faded(from, to, index, slowdown) <= from
         \/ Faded(from, to, index, slowdown) <= to
  BY <1>1, <1>2, MeanBetween DEF Faded
<1> QED
  BY <1>1, <1>3, BlendFaded, Sizes, SMT DEF Shade

(***************************************************************************)
(* The type invariant.  By itself it is not inductive: a colour is copied    *)
(* from the register it was loaded into, so what the register holds at each  *)
(* place has to be known, and while a colour is being loaded, whether its    *)
(* high byte has arrived.                                                    *)
(***************************************************************************)
RegisterHolds ==
  /\ pc.at = "slowdown" => reg \in 0 .. 255
  /\ pc.at = "store" => reg \in Shade
  /\ pc.at = "load" /\ "hi" \notin pc.left => reg \in Shade

TypeInv == TypeOK /\ RegisterHolds

Counters == [at : Places, led : Leds, ch : Channels, left : SUBSET Bytes]

(* The first positions and black, where everything starts from.              *)
LEMMA Positions ==
  /\ 0 \in Leds /\ 0 \in Channels /\ Leds \subseteq Nat /\ Channels \subseteq Nat
  /\ Black \in Shade /\ Shade \subseteq Nat /\ BlackImage \in Image
<1>1. 0 \in Leds /\ 0 \in Channels /\ Leds \subseteq Nat /\ Channels \subseteq Nat
  BY FirmwareAssumption, SMT DEF Leds, Channels
<1>2. Black \in Shade /\ Shade \subseteq Nat
  BY Sizes, SMT DEF Shade, Black
<1> QED
  BY <1>1, <1>2 DEF BlackImage, Image

(* Wherever the loop goes, it goes to a statement on a colour.               *)
LEMMA Goes ==
  ASSUME NEW at \in Places, NEW i \in Leds, NEW c \in Channels
  PROVE  GoTo(at, i, c) \in Counters
BY DEF GoTo, Counters

(* A channel of a LED in an image is a colour.                               *)
LEMMA Colour ==
  ASSUME NEW image \in Image, NEW i \in Leds, NEW c \in Channels
  PROVE  image[i][c] \in Shade /\ image[i][c] \in Nat
BY Positions DEF Image

(* A byte of a colour written into an image leaves an image.                 *)
LEMMA ImageWritten ==
  ASSUME NEW image \in Image, NEW i \in Leds, NEW c \in Channels,
         NEW value \in Shade, NEW b \in Bytes
  PROVE  [image EXCEPT ![i][c] = WithByte(@, value, b)] \in Image
<1>1. image[i][c] \in Shade /\ image[i][c] \in Nat
  BY Colour
<1>2. WithByte(image[i][c], value, b) \in Shade
  BY <1>1, WithByteShade
<1> QED
  BY <1>2 DEF Image

(* The invariant holds when the device is switched on.                       *)
THEOREM TypeInit == Init => TypeInv
<1> SUFFICES ASSUME Init PROVE TypeInv
  OBVIOUS
<1>1. start \in Image /\ current \in Image /\ end \in Image
      /\ lit \in Image /\ wanted \in Image /\ report \in Image
  BY Positions DEF Init
<1>2. smoothIndex \in [Leds -> 0 .. 255]
  BY SMT DEF Init
<1>3. isSmoothEnabled \in 0 .. 255 /\ smoothSlowdown \in 0 .. 255 /\ reg \in Nat
  BY FirmwareAssumption, SMT DEF Init
<1>4. pc = GoTo("usb", 0, 0)
  BY DEF Init, GoTo
<1>5. pc \in Counters
  BY <1>4, Goes, Positions DEF Places
<1>6. RegisterHolds
  BY <1>4 DEF RegisterHolds, GoTo
<1> QED
  BY <1>1, <1>2, <1>3, <1>5, <1>6 DEF TypeInv, TypeOK, Init, Counters

(* The interrupt computes colours only.                                      *)
LEMMA TickTyped == TypeInv /\ Tick => TypeInv'
<1> SUFFICES ASSUME TypeInv, Tick PROVE TypeInv'
  OBVIOUS
<1> USE DEF TypeInv, TypeOK
<1>1. \A i \in Leds : ~FadeOver(i) =>
         /\ smoothIndex[i] + 1 \in 0 .. 255
         /\ \A c \in Channels :
               Blend(start[i][c], end[i][c], smoothIndex[i], smoothSlowdown) \in Shade
  <2> SUFFICES ASSUME NEW i \in Leds, ~FadeOver(i)
               PROVE  /\ smoothIndex[i] + 1 \in 0 .. 255
                      /\ \A c \in Channels :
                            Blend(start[i][c], end[i][c], smoothIndex[i], smoothSlowdown)
                               \in Shade
    OBVIOUS
  <2>1. smoothIndex[i] \in Nat /\ smoothSlowdown \in 0 .. 255
        /\ smoothIndex[i] < smoothSlowdown
    BY SMT DEF FadeOver
  <2>2. \A c \in Channels : start[i][c] \in Shade /\ end[i][c] \in Shade
    BY DEF Image
  <2>3. smoothIndex[i] + 1 \in 0 .. 255 /\ smoothSlowdown \in Nat
    BY <2>1, SMT
  <2> QED
    BY <2>1, <2>2, <2>3, BlendShade
<1>2. smoothIndex' \in [Leds -> 0 .. 255]
  BY <1>1 DEF Tick, EvalCurrentImage_SmoothlyAlg
<1>3. start' \in Image
  BY DEF Tick, EvalCurrentImage_SmoothlyAlg, Image
<1>4. current' \in Image
  BY <1>1 DEF Tick, EvalCurrentImage_SmoothlyAlg, Image
<1>5. lit' \in Image
  BY <1>4 DEF Tick
<1> QED
  BY <1>2, <1>3, <1>4, <1>5 DEF Tick, RegisterHolds, settings

(* The loop stays within its places.                                         *)
LEMMA Continues ==
  ASSUME TypeInv, NEW at \in Places,
         NEW after \in Counters
  PROVE  /\ NextChannel(at, after) \in Counters
         /\ NextLed(at, after) \in Counters
         /\ NextChannel(at, after).at \in {at, after.at}
         /\ NextLed(at, after).at \in {at, after.at}
<1>1. pc.led \in Leds /\ pc.ch \in Channels
  BY DEF TypeInv, TypeOK
<1> QED
  BY <1>1, Goes, Positions DEF NextChannel, NextLed, GoTo

(* The host sends shades and settings in range.                              *)
LEMMA HostTyped == TypeInv /\ Host => TypeInv'
<1> SUFFICES ASSUME TypeInv, Host PROVE TypeInv'
  OBVIOUS
<1> USE DEF TypeInv, TypeOK, images, settings, history, FirstColor
<1>1. GoTo("flags", 0, 0) \in Counters /\ GoTo("load", 0, 0) \in Counters
      /\ GoTo("slowdown", 0, 0) \in Counters
  BY Goes, Positions DEF Places
<1>2. CASE UpdateLeds
  <2>1. report' \in Image /\ wanted' \in Image
    BY <1>2, FirmwareAssumption DEF UpdateLeds, Image
  <2>2. RegisterHolds'
    BY <1>2 DEF UpdateLeds, RegisterHolds, GoTo, Bytes
  <2> QED
    BY <1>1, <1>2, <2>1, <2>2 DEF UpdateLeds, Counters
<1>3. CASE OffAll
  <2>1. RegisterHolds'
    BY <1>3 DEF OffAll, RegisterHolds, GoTo
  <2> QED
    BY <1>1, <1>3, <2>1 DEF OffAll, Counters
<1>4. CASE SetSmoothSlowdown
  <2>1. reg' \in 0 .. 255 /\ isSmoothEnabled' \in 0 .. 255
    BY <1>4, FirmwareAssumption DEF SetSmoothSlowdown
  <2>2. reg' \in Nat
    BY <2>1, SMT
  <2>3. RegisterHolds'
    BY <1>4, <2>1 DEF SetSmoothSlowdown, RegisterHolds, GoTo
  <2> QED
    BY <1>1, <1>4, <2>1, <2>2, <2>3 DEF SetSmoothSlowdown, Counters
<1> QED
  BY <1>2, <1>3, <1>4 DEF Host

(* The cable changes nothing of the colours.                                 *)
LEMMA UsbTyped == TypeInv /\ Usb => TypeInv'
<1> SUFFICES ASSUME TypeInv, Usb PROVE TypeInv'
  OBVIOUS
<1>1. configured' \in BOOLEAN
  BY DEF Usb, UsbConfigured, UsbLost
<1>2. UNCHANGED <<images, settings, ledsOffAll, report, pc, reg, lit, history>>
  BY DEF Usb, UsbConfigured, UsbLost
<1>3. RegisterHolds'
  BY <1>2 DEF TypeInv, RegisterHolds
<1> QED
  BY <1>1, <1>2, <1>3 DEF TypeInv, TypeOK, images, settings, history

(* A statement that is not over goes on with its other byte.                 *)
LEMMA ThenTyped ==
  ASSUME TypeInv, NEW b \in Bytes, NEW after \in Counters, Then(b, after)
  PROVE  /\ pc' \in Counters
         /\ pc'.at \in {pc.at, after.at}
BY DEF TypeInv, TypeOK, Then, Counters

(* The copy of the colour that is shown into the one the fade starts from.   *)
LEMMA LoadTyped ==
  ASSUME TypeInv, NEW b \in Bytes, LoadCurrent(b)
  PROVE  TypeInv'
<1> USE DEF TypeInv, TypeOK, images, settings, history
<1>1. pc.led \in Leds /\ pc.ch \in Channels /\ pc.left \subseteq Bytes /\ b \in pc.left
      /\ pc.at = "load"
  BY DEF LoadCurrent, Does
<1>2. current[pc.led][pc.ch] \in Shade /\ current[pc.led][pc.ch] \in Nat
  <2>1. current \in Image
    OBVIOUS
  <2> QED
    BY <1>1, <2>1, Colour
<1>3. GoTo("store", pc.led, pc.ch) \in Counters
  BY <1>1, Goes DEF Places
<1>4. pc' \in Counters
  BY <1>3, ThenTyped DEF LoadCurrent
<1>5. reg' \in Nat
  BY <1>2, WithByteNat DEF LoadCurrent
<1>6. RegisterHolds'
  <2>1. CASE b = "hi"
    <3>1. reg' \in Shade
      BY <1>2, <2>1, WithByteShade DEF LoadCurrent
    <3>2. pc'.at \in {"load", "store"}
      BY <1>1, <1>3, ThenTyped DEF LoadCurrent, GoTo
    <3> QED
      BY <3>1, <3>2 DEF RegisterHolds
  <2>2. CASE b = "lo" /\ "hi" \in pc.left
    <3>1. pc' = [pc EXCEPT !.left = @ \ {b}]
      BY <1>1, <2>2 DEF LoadCurrent, Then
    <3> QED
      BY <1>1, <2>2, <3>1 DEF RegisterHolds
  <2>3. CASE b = "lo" /\ "hi" \notin pc.left
    <3>1. reg \in Shade
      BY <1>1, <2>3 DEF RegisterHolds
    <3>2. reg' \in Shade
      BY <1>2, <3>1, WithByteShade DEF LoadCurrent
    <3>3. pc'.at \in {"load", "store"}
      BY <1>1, <1>3, ThenTyped DEF LoadCurrent, GoTo
    <3> QED
      BY <3>2, <3>3 DEF RegisterHolds
  <2> QED
    BY <2>1, <2>2, <2>3 DEF Bytes
<1> QED
  BY <1>4, <1>5, <1>6 DEF LoadCurrent, Counters

(* While the register keeps what it holds, only where the loop arrives can   *)
(* matter.                                                                   *)
LEMMA RegisterKept ==
  ASSUME RegisterHolds, UNCHANGED reg,
         \/ pc'.at \notin {"slowdown", "store", "load"}
         \/ pc'.at = "load" /\ "hi" \in pc'.left
         \/ pc'.at = "store" /\ reg \in Shade
  PROVE  RegisterHolds'
BY DEF RegisterHolds

(* What was loaded is a colour, so the copy is one.                          *)
LEMMA StoreStartTyped ==
  ASSUME TypeInv, NEW b \in Bytes, StoreStart(b)
  PROVE  TypeInv'
<1> USE DEF TypeInv, TypeOK, images, settings, history
<1> DEFINE after == NextChannel("load", GoTo("end", pc.led, 0))
<1>1. pc.led \in Leds /\ pc.ch \in Channels /\ pc.at = "store" /\ reg \in Shade
  BY DEF StoreStart, Does, RegisterHolds
<1>2. GoTo("end", pc.led, 0) \in Counters
  BY <1>1, Goes, Positions DEF Places
<1>3. after \in Counters
  BY <1>2, Continues DEF Places
<1>4. after.at = "end" \/ (after.at = "load" /\ after.left = Bytes)
  BY DEF NextChannel, GoTo
<1> HIDE DEF after
<1>5. Then(b, after)
  BY DEF StoreStart, after
<1>6. pc' \in Counters
  BY <1>3, <1>5, ThenTyped
<1>7. RegisterHolds'
  <2>1. pc' = after \/ pc'.at = "store"
    BY <1>1, <1>5 DEF Then
  <2> QED
    BY <1>1, <1>4, <2>1, RegisterKept DEF StoreStart, Bytes
<1>8. start' \in Image
  BY <1>1, ImageWritten DEF StoreStart, WriteByte
<1> QED
  BY <1>6, <1>7, <1>8 DEF StoreStart, Counters

(* The other places of the loop do not use the register: a step from one of  *)
(* them needs only to arrive at a place of that kind, or at a first load.    *)
Careless == {"usb", "end", "low", "compare", "clear", "flags", "fillStart",
             "fillCurrent", "fillEnd"}

(* A step between statements that do not use the register keeps what it is   *)
(* known to hold.                                                            *)
LEMMA CarelessStep ==
  ASSUME TypeInv, UNCHANGED reg, NEW b \in Bytes, NEW after \in Counters,
         pc.at \in Careless,
         after.at \in Careless \/ (after.at = "load" /\ after.left = Bytes),
         pc' = after \/ Then(b, after)
  PROVE  pc' \in Counters /\ RegisterHolds'
<1>1. pc \in Counters
  BY DEF TypeInv, TypeOK, Counters
<1>2. pc' = after \/ pc' = [pc EXCEPT !.left = @ \ {b}]
  BY DEF Then
<1>3. CASE pc' = after
  BY <1>3, RegisterKept DEF TypeInv, Careless, Bytes
<1>4. CASE pc' = [pc EXCEPT !.left = @ \ {b}]
  <2>1. pc' \in Counters /\ pc'.at = pc.at
    BY <1>1, <1>4 DEF Counters
  <2> QED
    BY <2>1, RegisterKept DEF TypeInv, Careless
<1> QED
  BY <1>2, <1>3, <1>4

(* Where the loop is, and where its statements can send it.                  *)
LEMMA AtPlace ==
  ASSUME TypeInv
  PROVE  /\ pc.led \in Leds /\ pc.ch \in Channels /\ pc.at \in Places
         /\ \A at \in Places :
              /\ FirstColor(at) \in Counters /\ FirstColor(at).at = at
              /\ FirstColor(at).left = Bytes
              /\ GoTo(at, pc.led, 0) \in Counters /\ GoTo(at, pc.led, pc.ch) \in Counters
<1>1. pc.led \in Leds /\ pc.ch \in Channels /\ pc.at \in Places
  BY DEF TypeInv, TypeOK
<1>2. \A at \in Places : FirstColor(at) \in Counters
  BY Goes, Positions DEF FirstColor
<1>3. \A at \in Places :
        GoTo(at, pc.led, 0) \in Counters /\ GoTo(at, pc.led, pc.ch) \in Counters
  BY <1>1, Goes, Positions
<1> QED
  BY <1>1, <1>2, <1>3 DEF FirstColor, GoTo

(* The high digits of the report, byte by byte.                              *)
LEMMA StoreEndTyped ==
  ASSUME TypeInv, NEW b \in Bytes, StoreEnd(b)
  PROVE  TypeInv'
<1> USE DEF images, settings, history
<1> DEFINE after == NextChannel("end", GoTo("low", pc.led, 0))
<1>1. after \in Counters /\ after.at \in {"end", "low"}
  BY AtPlace, Continues DEF Places, GoTo
<1> HIDE DEF after
<1>2. Then(b, after) /\ pc.at = "end" /\ UNCHANGED reg
  BY DEF StoreEnd, Does, after
<1>3. pc' \in Counters /\ RegisterHolds'
  <2>1. pc.at \in Careless /\ after.at \in Careless
    BY <1>1, <1>2 DEF Careless
  <2> QED
    BY <1>1, <1>2, <2>1, CarelessStep
<1>4. pc.led \in Leds /\ pc.ch \in Channels /\ report \in Image /\ end \in Image
  BY AtPlace DEF TypeInv, TypeOK
<1>5. HighDigits(report[pc.led][pc.ch]) \in Shade
  BY <1>4, Colour, DigitsShade
<1>6. end' \in Image
  BY <1>4, <1>5, ImageWritten DEF StoreEnd, WriteByte
<1> QED
  BY <1>3, <1>6 DEF StoreEnd, Counters, TypeInv,
    TypeOK

(* The low digits or-ed into what the high digits left.                      *)
LEMMA OrEndTyped ==
  ASSUME TypeInv, OrEnd
  PROVE  TypeInv'
<1> USE DEF images, settings, history
<1> DEFINE after == NextChannel("low", GoTo("compare", pc.led, 0))
<1>1. after \in Counters /\ after.at \in {"low", "compare"}
  BY AtPlace, Continues DEF Places, GoTo
<1> HIDE DEF after
<1>2. pc' = after /\ pc.at = "low" /\ UNCHANGED reg
  BY DEF OrEnd, after
<1>3. pc' \in Counters /\ RegisterHolds'
  <2>1. pc.at \in Careless /\ after.at \in Careless /\ "lo" \in Bytes
    BY <1>1, <1>2 DEF Careless, Bytes
  <2> QED
    BY <1>1, <1>2, <2>1, CarelessStep
<1>4. pc.led \in Leds /\ pc.ch \in Channels /\ report \in Image /\ end \in Image
  BY AtPlace DEF TypeInv, TypeOK
<1>5. OrLowDigit(end[pc.led][pc.ch], report[pc.led][pc.ch]) \in Shade
  BY <1>4, Colour, DigitsShade
<1>6. end' \in Image
  BY <1>4, <1>5 DEF OrEnd, Image
<1> QED
  BY <1>3, <1>6 DEF OrEnd, Counters, TypeInv,
    TypeOK

(* After a pixel comes the first load of the next, or the flags.             *)
LEMMA NextPixel ==
  ASSUME TypeInv
  PROVE  LET over == NextLed("load", FirstColor("flags"))
         IN  /\ over \in Counters
             /\ over.at = "flags" \/ (over.at = "load" /\ over.left = Bytes)
<1> DEFINE over == NextLed("load", FirstColor("flags"))
<1>1. over \in Counters /\ over.at \in {"load", "flags"}
  BY AtPlace, Continues DEF Places
<1>2. over = FirstColor("flags") \/ over = GoTo("load", pc.led + 1, 0)
  BY DEF NextLed
<1>3. over.left = Bytes
  BY <1>2 DEF FirstColor, GoTo
<1> QED
  BY <1>1, <1>3

(* The comparison of a pixel, and the restart of its fade.                   *)
LEMMA CompareTyped ==
  ASSUME TypeInv, NEW b \in Bytes, Compare(b)
  PROVE  TypeInv'
<1> USE DEF images, settings, history
<1> DEFINE over == NextLed("load", FirstColor("flags"))
           after == NextChannel("compare", over)
<1>1. over \in Counters /\ (over.at = "flags" \/ (over.at = "load" /\ over.left = Bytes))
  BY NextPixel
<1>2. after \in Counters
      /\ (after.at \in {"flags", "compare"} \/ (after.at = "load" /\ after.left = Bytes))
  BY <1>1, Continues DEF Places, NextChannel, GoTo
<1>3. GoTo("clear", pc.led, pc.ch) \in Counters /\ GoTo("clear", pc.led, pc.ch).at = "clear"
  BY AtPlace DEF Places, GoTo
<1>4. pc.at = "compare" /\ UNCHANGED reg
      /\ (pc' = GoTo("clear", pc.led, pc.ch) \/ Then(b, after))
  BY DEF Compare, Does
<1> HIDE DEF after
<1>5. pc' \in Counters /\ RegisterHolds'
  <2>1. pc.at \in Careless /\ "clear" \in Careless
        /\ (after.at \in Careless \/ (after.at = "load" /\ after.left = Bytes))
    BY <1>2, <1>4 DEF Careless
  <2> QED
    BY <1>2, <1>3, <1>4, <2>1, CarelessStep
<1> QED
  BY <1>5 DEF Compare, Counters, TypeInv,
    TypeOK

(* A restarted fade counts from zero.                                        *)
LEMMA ClearIndexTyped ==
  ASSUME TypeInv, ClearIndex
  PROVE  TypeInv'
<1> USE DEF images, settings, history
<1> DEFINE over == NextLed("load", FirstColor("flags"))
<1>1. over \in Counters /\ (over.at = "flags" \/ (over.at = "load" /\ over.left = Bytes))
  BY NextPixel
<1> HIDE DEF over
<1>2. pc.at = "clear" /\ UNCHANGED reg /\ pc' = over
  BY DEF ClearIndex, over
<1>3. pc' \in Counters /\ RegisterHolds'
  <2>1. pc.at \in Careless /\ "lo" \in Bytes
        /\ (over.at \in Careless \/ (over.at = "load" /\ over.left = Bytes))
    BY <1>1, <1>2 DEF Careless, Bytes
  <2> QED
    BY <1>1, <1>2, <2>1, CarelessStep
<1>4. smoothIndex' \in [Leds -> 0 .. 255]
  BY SMT DEF ClearIndex, TypeInv, TypeOK
<1> QED
  BY <1>3, <1>4 DEF ClearIndex, Counters, TypeInv,
    TypeOK

(* The black fill.                                                           *)
LEMMA FillTyped ==
  ASSUME TypeInv, NEW b \in Bytes, LedManager_FillImages(b)
  PROVE  TypeInv'
<1> USE DEF images, settings, history
<1> DEFINE round == NextLed("fillStart", FirstColor("usb"))
<1>1. pc.led \in Leds /\ pc.ch \in Channels /\ UNCHANGED reg /\ Black \in Shade
  BY AtPlace, Positions DEF LedManager_FillImages
<1>2. \A image \in Image :
        [image EXCEPT ![pc.led][pc.ch] = WithByte(@, Black, b)] \in Image
  BY <1>1, ImageWritten
<1>3. CASE FillStart(b)
  <2>1. NextChannel("fillStart", GoTo("fillCurrent", pc.led, 0)) \in Counters
        /\ NextChannel("fillStart", GoTo("fillCurrent", pc.led, 0)).at \in Careless
    BY AtPlace, Continues DEF Places, GoTo, Careless
  <2>2. pc' \in Counters /\ RegisterHolds'
    <3>1. pc.at \in Careless
          /\ Then(b, NextChannel("fillStart", GoTo("fillCurrent", pc.led, 0)))
      BY <1>3 DEF FillStart, Does, Careless
    <3> QED
      BY <1>1, <2>1, <3>1, CarelessStep
  <2>3. start' \in Image
    BY <1>2, <1>3 DEF FillStart, WriteByte, TypeInv, TypeOK
  <2> QED
    BY <1>3, <2>2, <2>3 DEF FillStart, LedManager_FillImages, Counters, TypeInv,
    TypeOK
<1>4. CASE FillCurrent(b)
  <2>1. NextChannel("fillCurrent", GoTo("fillEnd", pc.led, 0)) \in Counters
        /\ NextChannel("fillCurrent", GoTo("fillEnd", pc.led, 0)).at \in Careless
    BY AtPlace, Continues DEF Places, GoTo, Careless
  <2>2. pc' \in Counters /\ RegisterHolds'
    <3>1. pc.at \in Careless
          /\ Then(b, NextChannel("fillCurrent", GoTo("fillEnd", pc.led, 0)))
      BY <1>4 DEF FillCurrent, Does, Careless
    <3> QED
      BY <1>1, <2>1, <3>1, CarelessStep
  <2>3. current' \in Image
    BY <1>2, <1>4 DEF FillCurrent, WriteByte, TypeInv, TypeOK
  <2> QED
    BY <1>4, <2>2, <2>3 DEF FillCurrent, LedManager_FillImages, Counters, TypeInv,
    TypeOK
<1>5. CASE FillEnd(b)
  <2>1. round \in Counters /\ round.at \in {"fillStart", "usb"}
    BY AtPlace, Continues DEF Places
  <2>2. NextChannel("fillEnd", round) \in Counters
        /\ NextChannel("fillEnd", round).at \in Careless
    BY <2>1, Continues DEF Places, Careless
  <2>3. pc' \in Counters /\ RegisterHolds'
    <3>1. pc.at \in Careless /\ Then(b, NextChannel("fillEnd", round))
      BY <1>5 DEF FillEnd, Does, Careless
    <3> QED
      BY <1>1, <2>2, <3>1, CarelessStep
  <2>4. end' \in Image
    BY <1>2, <1>5 DEF FillEnd, WriteByte, TypeInv, TypeOK
  <2> QED
    BY <1>5, <2>3, <2>4 DEF FillEnd, LedManager_FillImages, Counters, TypeInv,
    TypeOK
<1> QED
  BY <1>3, <1>4, <1>5 DEF LedManager_FillImages

(* The rest of the round: no report, a stored setting, the flags.            *)
LEMMA RoundTyped ==
  ASSUME TypeInv, NoReport \/ StoreSlowdown \/ ProcessFlags
  PROVE  TypeInv'
<1> USE DEF TypeInv, TypeOK, images, settings, history
<1>1. /\ UNCHANGED reg
      /\ pc' \in Counters /\ pc'.at \in {"flags", "fillStart", "usb"}
  BY AtPlace DEF NoReport, StoreSlowdown, ProcessFlags, Places
<1>2. RegisterHolds'
  BY <1>1, RegisterKept
<1>3. CASE NoReport
  BY <1>1, <1>2, <1>3 DEF NoReport, Counters
<1>4. CASE StoreSlowdown
  <2>1. smoothSlowdown' \in 0 .. 255
    BY <1>4 DEF StoreSlowdown, RegisterHolds
  <2> QED
    BY <1>1, <1>2, <1>4, <2>1 DEF StoreSlowdown, Counters
<1>5. CASE ProcessFlags
  <2>1. wanted' \in Image /\ since' \in {"nothing", "frames", "other"}
    BY <1>5, Positions DEF ProcessFlags
  <2>2. ledsOffAll' \in BOOLEAN
    BY <1>5 DEF ProcessFlags
  <2> QED
    BY <1>1, <1>2, <1>5, <2>1, <2>2 DEF ProcessFlags, Counters
<1> QED
  BY <1>3, <1>4, <1>5

(* Every step of the loop, the interrupt, the host or the cable keeps it.    *)
THEOREM TypeStep == TypeInv /\ [Next]_vars => TypeInv'
<1> SUFFICES ASSUME TypeInv, [Next]_vars PROVE TypeInv'
  OBVIOUS
<1>1. CASE Tick
  BY <1>1, TickTyped
<1>2. CASE Host
  BY <1>2, HostTyped
<1>3. CASE Usb
  BY <1>3, UsbTyped
<1>4. CASE Loop
  <2>1. CASE NoReport \/ StoreSlowdown \/ ProcessFlags
    BY <2>1, RoundTyped
  <2>2. CASE OrEnd
    BY <2>2, OrEndTyped
  <2>3. CASE ClearIndex
    BY <2>3, ClearIndexTyped
  <2>4. ASSUME NEW b \in Bytes,
               LoadCurrent(b) \/ StoreStart(b) \/ StoreEnd(b) \/ Compare(b)
                 \/ LedManager_FillImages(b)
        PROVE  TypeInv'
    BY <2>4, LoadTyped, StoreStartTyped, StoreEndTyped, CompareTyped, FillTyped
  <2> QED
    BY <1>4, <2>1, <2>2, <2>3, <2>4 DEF Loop
<1>5. CASE UNCHANGED vars
  BY <1>5 DEF vars, images, settings, history, TypeInv, TypeOK, RegisterHolds
<1> QED
  BY <1>1, <1>2, <1>3, <1>4, <1>5 DEF Next

(* Whatever the interrupt reads between two bytes, the images, the LEDs and  *)
(* the counters of the fades stay in range, for every number of LEDs.        *)
THEOREM TypeCorrect == Spec => []TypeOK
<1>1. TypeInv => TypeOK
  BY DEF TypeInv
<1> QED
  BY <1>1, TypeInit, TypeStep, PTL DEF Spec

-----------------------------------------------------------------------------
(* A colour written byte by byte                                             *)

Half == Digit * Digit
Low(x) == x % Half
High(x) == x - (x % Half)

(* The byte b of x is that of v.                                             *)
HasByte(x, v, b) == IF b = "lo" THEN Low(x) = Low(v) ELSE High(x) = High(v)

(* A number is its high byte and its low byte; put together from two of      *)
(* those, it has them.                                                       *)
LEMMA TwoBytes ==
  ASSUME NEW x \in Nat, NEW y \in Nat
  PROVE  /\ Low(x) \in Nat /\ High(x) \in Nat /\ x = High(x) + Low(x)
         /\ Low(High(x) + Low(y)) = Low(y) /\ High(High(x) + Low(y)) = High(x)
<1>1. Half \in Nat \ {0}
  BY Sizes DEF Half
<1> DEFINE q == x \div Half
<1>2. q \in Nat /\ Low(x) \in 0 .. Half - 1 /\ x = Half * q + Low(x)
      /\ Low(y) \in 0 .. Half - 1
  BY <1>1, Division DEF Low
<1>3. Half * q \in Nat
  BY <1>1, <1>2, Product
<1>4. High(x) = Half * q
  BY <1>1, <1>2, <1>3 DEF High, Low
<1>5. Low(High(x) + Low(y)) = Low(y)
  <2>1. (Half * q + Low(y)) % Half = Low(y)
    BY <1>1, <1>2, QuotientExact
  <2>2. \A z : Low(z) = z % Half
    BY DEF Low
  <2> QED
    BY <1>4, <2>1, <2>2
<1>6. High(High(x) + Low(y)) = High(x)
  BY <1>1, <1>2, <1>3, <1>4, <1>5 DEF High, Low
<1> QED
  BY <1>1, <1>2, <1>3, <1>4, <1>5, <1>6

(* What writing a byte puts together.                                        *)
LEMMA WithByteParts ==
  \A x, v : /\ WithByte(x, v, "lo") = High(x) + Low(v)
            /\ WithByte(x, v, "hi") = High(v) + Low(x)
BY DEF WithByte, High, Low, Half

(* Writing a byte sets this one and leaves the other.                        *)
LEMMA ByteWritten ==
  ASSUME NEW x \in Nat, NEW v \in Nat, NEW b \in Bytes
  PROVE  /\ WithByte(x, v, b) \in Nat
         /\ HasByte(WithByte(x, v, b), v, b)
         /\ \A o \in Bytes \ {b} : HasByte(x, v, o) => HasByte(WithByte(x, v, b), v, o)
<1>1. WithByte(x, v, b) \in Nat
  BY WithByteNat
<1>2. CASE b = "lo"
  <2>1. WithByte(x, v, b) = High(x) + Low(v)
    BY <1>2, WithByteParts
  <2>2. Low(WithByte(x, v, b)) = Low(v) /\ High(WithByte(x, v, b)) = High(x)
    BY <2>1, TwoBytes
  <2> QED
    BY <1>1, <1>2, <2>2 DEF HasByte, Bytes
<1>3. CASE b = "hi"
  <2>1. WithByte(x, v, b) = High(v) + Low(x)
    BY <1>3, WithByteParts
  <2>2. Low(WithByte(x, v, b)) = Low(x) /\ High(WithByte(x, v, b)) = High(v)
    BY <2>1, TwoBytes
  <2> QED
    BY <1>1, <1>3, <2>2 DEF HasByte, Bytes
<1> QED
  BY <1>2, <1>3 DEF Bytes

(* A colour with both bytes of another one is that one.                      *)
LEMMA BytesEqual ==
  ASSUME NEW x \in Nat, NEW v \in Nat, \A b \in Bytes : HasByte(x, v, b)
  PROVE  x = v
<1>1. Low(x) = Low(v) /\ High(x) = High(v)
  BY DEF HasByte, Bytes
<1> QED
  BY <1>1, TwoBytes

(* The comparison of a byte finds out whether it is the same.                *)
LEMMA ByteCompared ==
  ASSUME NEW x \in Nat, NEW v \in Nat, NEW b \in Bytes, WithByte(x, v, b) = x
  PROVE  HasByte(x, v, b)
BY ByteWritten

(* The two parts of the report make up the colour that was sent.             *)
LEMMA PartsOfReport ==
  ASSUME NEW x \in Nat
  PROVE  HighDigits(x) \in Nat /\ OrLowDigit(HighDigits(x), x) = x
<1> DEFINE q == x \div Digit
           r == x % Digit
<1>1. Digit \in Nat \ {0}
  BY DigitAssumption
<1>2. q \in Nat /\ r \in 0 .. Digit - 1 /\ x = Digit * q + r
  BY <1>1, Division
<1>3. Digit * q \in Nat /\ q * Digit = Digit * q
  BY <1>1, <1>2, Product, SMT
<1>4. HighDigits(x) = Digit * q + 0
  BY <1>3 DEF HighDigits
<1>5. HighDigits(x) \div Digit = q
  BY <1>1, <1>2, <1>4, QuotientExact, 0 \in 0 .. Digit - 1
<1>6. HighDigits(HighDigits(x)) = Digit * q
  BY <1>3, <1>5 DEF HighDigits
<1>7. HighDigits(x) = Digit * q
  BY <1>3, <1>4
<1> QED
  BY <1>2, <1>3, <1>6, <1>7 DEF OrLowDigit

-----------------------------------------------------------------------------
(* The colour a fade ends at.  Where the main loop is not writing images the *)
(* end of every fade is the colour asked for last.  To see that, one has to  *)
(* know at every place which bytes of the frame, or of black, have arrived.  *)

Writing == {"load", "store", "end", "low", "compare", "clear"}
Filling == {"fillStart", "fillCurrent", "fillEnd"}
Resting == {"usb", "flags", "slowdown"}

EndResting == pc.at \in Resting => end = wanted

Handled(c, b) == c < pc.ch \/ (c = pc.ch /\ b \notin pc.left)
HighStored(c, b) == pc.at = "low" \/ (pc.at = "end" /\ Handled(c, b))
LowStored(c) == pc.at \in {"compare", "clear"} \/ (pc.at = "low" /\ c < pc.ch)

EndWriting ==
  pc.at \in Writing =>
    /\ wanted = report
    /\ \A i \in Leds : i < pc.led => end[i] = report[i]
    /\ \A c \in Channels :
         IF LowStored(c) THEN end[pc.led][c] = report[pc.led][c]
         ELSE \A b \in Bytes : HighStored(c, b) =>
                HasByte(end[pc.led][c], HighDigits(report[pc.led][c]), b)

EndFilling ==
  pc.at \in Filling =>
    /\ wanted = BlackImage
    /\ \A i \in Leds : i < pc.led => end[i] = BlackImage[i]
    /\ pc.at = "fillEnd" =>
         \A c \in Channels, b \in Bytes : Handled(c, b) => HasByte(end[pc.led][c], Black, b)

EndInv == EndResting /\ EndWriting /\ EndFilling

(* The loop takes the LEDs, and the channels of a LED, one after the other.  *)
LEMMA InOrder ==
  ASSUME TypeInv
  PROVE  /\ pc.led \in Leds /\ pc.ch \in Channels /\ pc.left \subseteq Bytes
         /\ pc.led + 1 \in Leds => \A i \in Leds : i < pc.led + 1 <=> i < pc.led \/ i = pc.led
         /\ pc.led + 1 \notin Leds => \A i \in Leds : i < pc.led \/ i = pc.led
         /\ pc.ch + 1 \in Channels =>
              \A c \in Channels : c < pc.ch + 1 <=> c < pc.ch \/ c = pc.ch
         /\ pc.ch + 1 \notin Channels => \A c \in Channels : c < pc.ch \/ c = pc.ch
         /\ \A i \in Leds : ~(i < 0) /\ ~(i < i)
         /\ \A c \in Channels : ~(c < 0) /\ ~(c < c)
<1>1. pc.led \in Leds /\ pc.ch \in Channels /\ pc.left \subseteq Bytes
  BY DEF TypeInv, TypeOK
<1>2. LEDS_COUNT \in Nat /\ CHANNELS \in Nat
  BY FirmwareAssumption
<1> QED
  BY <1>1, <1>2, SMT DEF Leds, Channels

(* Colours that are the same in all channels are the same.                   *)
LEMMA SameColours ==
  ASSUME NEW f \in Image, NEW g \in Image, NEW i \in Leds,
         \A c \in Channels : f[i][c] = g[i][c]
  PROVE  f[i] = g[i]
BY DEF Image

(* Images that are the same in all LEDs are the same.                        *)
LEMMA SameImages ==
  ASSUME NEW f \in Image, NEW g \in Image, \A i \in Leds : f[i] = g[i]
  PROVE  f = g
BY DEF Image

(* A step that leaves the ends and the place alone.                          *)
LEMMA EndKept ==
  ASSUME EndInv, UNCHANGED <<end, wanted, report, pc>>
  PROVE  EndInv'
BY DEF EndInv, EndResting, EndWriting, EndFilling, Handled, HighStored, LowStored

(* After a LED comes the next one; after the last one the frame is written.  *)
LEMMA LedWritten ==
  ASSUME TypeInv, EndInv, pc.at \in Writing, UNCHANGED <<end, wanted, report>>,
         pc' = NextLed("load", FirstColor("flags")),
         \A c \in Channels : end[pc.led][c] = report[pc.led][c]
  PROVE  EndInv'
<1>1. /\ wanted = report /\ end \in Image /\ report \in Image
      /\ \A i \in Leds : i < pc.led => end[i] = report[i]
      /\ end[pc.led] = report[pc.led]
  BY InOrder, SameColours DEF EndInv, EndWriting, TypeInv, TypeOK
<1>2. CASE pc.led + 1 \in Leds
  <2>1. pc' = GoTo("load", pc.led + 1, 0)
    BY <1>2 DEF NextLed
  <2>2. pc'.at = "load" /\ pc'.led = pc.led + 1
    BY <2>1 DEF GoTo
  <2>3. \A i \in Leds : i < pc'.led => end[i] = report[i]
    BY <1>1, <1>2, <2>2, InOrder
  <2>4. EndWriting'
    BY <1>1, <2>2, <2>3 DEF EndWriting, LowStored, HighStored
  <2> QED
    BY <2>2, <2>4 DEF EndInv, EndResting, EndFilling, Resting, Filling
<1>3. CASE pc.led + 1 \notin Leds
  <2>1. pc'.at = "flags"
    BY <1>3 DEF NextLed, FirstColor, GoTo
  <2>2. end = report
    BY <1>1, <1>3, InOrder, SameImages
  <2> QED
    BY <1>1, <2>1, <2>2 DEF EndInv, EndResting, EndWriting, EndFilling, Writing, Filling
<1> QED
  BY <1>2, <1>3

(* A byte of a statement that was done: the loop stays at the LED, with this *)
(* byte handled too, or all bytes of the LED are.                            *)
LEMMA ByteDone ==
  ASSUME TypeInv, NEW b \in pc.left, NEW next, NEW after, Then(b, NextChannel(next, after))
  PROVE  \/ /\ pc'.at \in {pc.at, next} /\ pc'.led = pc.led
            /\ pc' = [pc EXCEPT !.left = @ \ {b}] \/ (pc'.at = next /\ pc'.left = Bytes)
            /\ \A c \in Channels, o \in Bytes :
                 Handled(c, o)' => Handled(c, o) \/ (c = pc.ch /\ o = b)
         \/ /\ pc' = after
            /\ \A c \in Channels, o \in Bytes : Handled(c, o) \/ (c = pc.ch /\ o = b)
<1>1. pc \in Counters
  BY DEF TypeInv, TypeOK, Counters
<1>2. CASE pc.left # {b}
  <2>1. pc' = [pc EXCEPT !.left = @ \ {b}]
    BY <1>2 DEF Then
  <2> QED
    BY <1>1, <2>1 DEF Counters, Handled
<1>3. CASE pc.left = {b} /\ pc.ch + 1 \in Channels
  <2>1. pc' = GoTo(next, pc.led, pc.ch + 1)
    BY <1>3 DEF Then, NextChannel
  <2>2. pc'.at = next /\ pc'.led = pc.led /\ pc'.ch = pc.ch + 1 /\ pc'.left = Bytes
    BY <2>1 DEF GoTo
  <2>3. ASSUME NEW c \in Channels, NEW o \in Bytes, Handled(c, o)'
        PROVE  Handled(c, o) \/ (c = pc.ch /\ o = b)
    <3>1. c < pc.ch + 1
      BY <2>2, <2>3 DEF Handled
    <3>2. c < pc.ch \/ c = pc.ch
      BY <1>3, <3>1, InOrder
    <3> QED
      BY <1>3, <3>2 DEF Handled
  <2> QED
    BY <2>2, <2>3
<1>4. CASE pc.left = {b} /\ pc.ch + 1 \notin Channels
  <2>1. pc' = after
    BY <1>4 DEF Then, NextChannel
  <2>2. \A c \in Channels : c < pc.ch \/ c = pc.ch
    BY <1>4, InOrder
  <2> QED
    BY <1>4, <2>1, <2>2 DEF Handled
<1> QED
  BY <1>2, <1>3, <1>4

(* A byte written into an image: the other colours are as before, and of     *)
(* this one the byte is written and the other one is as before.              *)
Written(f, i, c, v, b) == [f EXCEPT ![i][c] = WithByte(@, v, b)]

(* A store of one byte changes one channel of one LED and no other byte of   *)
(* it.                                                                       *)
LEMMA OneByteWritten ==
  ASSUME NEW f \in Image, NEW i \in Leds, NEW c \in Channels, NEW v \in Nat, NEW b \in Bytes
  PROVE  /\ \A k \in Leds : k # i => Written(f, i, c, v, b)[k] = f[k]
         /\ \A d \in Channels : d # c => Written(f, i, c, v, b)[i][d] = f[i][d]
         /\ HasByte(Written(f, i, c, v, b)[i][c], v, b)
         /\ \A o \in Bytes : HasByte(f[i][c], v, o) => HasByte(Written(f, i, c, v, b)[i][c], v, o)
<1>1. f[i][c] \in Nat
  BY Colour
<1>2. /\ Written(f, i, c, v, b)[i][c] = WithByte(f[i][c], v, b)
      /\ \A k \in Leds : k # i => Written(f, i, c, v, b)[k] = f[k]
      /\ \A d \in Channels : d # c => Written(f, i, c, v, b)[i][d] = f[i][d]
  BY DEF Image, Written
<1> QED
  BY <1>1, <1>2, ByteWritten

(* The steps that leave the ends alone: within a place of rest, up to the    *)
(* copy of the LED, and the fill of the other two images.                    *)
LEMMA EndAway ==
  ASSUME TypeInv, EndInv, UNCHANGED end,
         \/ pc.at \in Resting /\ pc'.at \in Resting /\ UNCHANGED wanted
         \/ /\ pc.at \in {"load", "store"} /\ pc'.led = pc.led
            /\ pc'.at \in {"load", "store"} \/ pc' = GoTo("end", pc.led, 0)
            /\ UNCHANGED <<wanted, report>>
         \/ /\ pc.at \in {"fillStart", "fillCurrent"} /\ pc'.led = pc.led
            /\ pc'.at \in {"fillStart", "fillCurrent"} \/ pc' = GoTo("fillEnd", pc.led, 0)
            /\ UNCHANGED wanted
  PROVE  EndInv'
<1> USE DEF EndInv
<1>1. CASE pc.at \in Resting /\ pc'.at \in Resting /\ UNCHANGED wanted
  BY <1>1 DEF EndResting, EndWriting, EndFilling, Resting, Writing, Filling
<1>2. CASE /\ pc.at \in {"load", "store"} /\ pc'.led = pc.led
           /\ pc'.at \in {"load", "store"} \/ pc' = GoTo("end", pc.led, 0)
           /\ UNCHANGED <<wanted, report>>
  <2>1. /\ pc'.at \in {"load", "store"} \/ (pc'.at = "end" /\ pc'.ch = 0 /\ pc'.left = Bytes)
        /\ pc'.led = pc.led
    BY <1>2 DEF GoTo
  <2>2. \A c \in Channels : ~LowStored(c)' /\ \A b \in Bytes : ~HighStored(c, b)'
    BY <2>1, InOrder DEF LowStored, HighStored, Handled
  <2>3. wanted = report /\ \A i \in Leds : i < pc.led => end[i] = report[i]
    BY <1>2 DEF EndWriting, Writing
  <2>4. wanted' = report' /\ \A i \in Leds : i < pc'.led => end'[i] = report'[i]
    BY <1>2, <2>1, <2>3
  <2>5. EndWriting'
    BY <2>2, <2>4 DEF EndWriting
  <2> QED
    BY <2>1, <2>5 DEF EndResting, EndFilling, Resting, Filling
<1>3. CASE /\ pc.at \in {"fillStart", "fillCurrent"} /\ pc'.led = pc.led
           /\ pc'.at \in {"fillStart", "fillCurrent"} \/ pc' = GoTo("fillEnd", pc.led, 0)
           /\ UNCHANGED wanted
  <2>1. /\ \/ pc'.at \in {"fillStart", "fillCurrent"}
           \/ pc'.at = "fillEnd" /\ pc'.ch = 0 /\ pc'.left = Bytes
        /\ pc'.led = pc.led
    BY <1>3 DEF GoTo
  <2>2. pc'.at = "fillEnd" => \A c \in Channels, b \in Bytes : ~Handled(c, b)'
    BY <2>1, InOrder DEF Handled
  <2>3. EndFilling'
    BY <1>3, <2>1, <2>2 DEF EndFilling, Filling
  <2> QED
    BY <2>1, <2>3 DEF EndResting, EndWriting, Resting, Writing
<1> QED
  BY <1>1, <1>2, <1>3

(* A frame begins at the first LED, of which nothing is written, and so does *)
(* a fill.                                                                   *)
LEMMA EndBegins ==
  ASSUME TypeInv, EndInv, UNCHANGED end,
         \/ pc' = FirstColor("load") /\ wanted' = report'
         \/ pc' = FirstColor("fillStart") /\ wanted' = BlackImage
  PROVE  EndInv'
<1>1. /\ pc'.led = 0 /\ pc'.at \in {"load", "fillStart"}
      /\ pc'.at = "load" => wanted' = report'
      /\ pc'.at = "fillStart" => wanted' = BlackImage
  BY DEF FirstColor, GoTo
<1>2. EndWriting' /\ EndFilling' /\ EndResting'
  BY <1>1, InOrder
     DEF EndWriting, EndFilling, EndResting, Writing, Filling, Resting, LowStored, HighStored
<1> QED
  BY <1>2 DEF EndInv

(* A byte of the high digits arrives.                                        *)
LEMMA EndStored ==
  ASSUME TypeInv, EndInv, NEW b \in Bytes, StoreEnd(b)
  PROVE  EndInv'
<1> DEFINE high(c) == HighDigits(report[pc.led][c])
<1>1. /\ b \in pc.left /\ pc.at = "end" /\ pc.led \in Leds /\ pc.ch \in Channels
      /\ end \in Image /\ report \in Image /\ UNCHANGED <<report, wanted>>
      /\ wanted = report
      /\ \A i \in Leds : i < pc.led => end[i] = report[i]
      /\ \A c \in Channels, o \in Bytes : Handled(c, o) => HasByte(end[pc.led][c], high(c), o)
  BY InOrder DEF StoreEnd, Does, history, TypeInv, TypeOK, EndInv, EndWriting, Writing,
     LowStored, HighStored
<1>2. high(pc.ch) \in Nat
  BY <1>1, Colour, PartsOfReport
<1>3. end' = Written(end, pc.led, pc.ch, high(pc.ch), b)
  BY DEF StoreEnd, WriteByte, Written
<1>4. /\ \A i \in Leds : i # pc.led => end'[i] = end[i]
      /\ \A c \in Channels : c # pc.ch => end'[pc.led][c] = end[pc.led][c]
      /\ HasByte(end'[pc.led][pc.ch], high(pc.ch), b)
      /\ \A o \in Bytes : HasByte(end[pc.led][pc.ch], high(pc.ch), o)
                            => HasByte(end'[pc.led][pc.ch], high(pc.ch), o)
  <2> HIDE DEF high
  <2>1. end \in Image /\ pc.led \in Leds /\ pc.ch \in Channels
    BY <1>1
  <2> QED
    BY <1>2, <1>3, <2>1, OneByteWritten
<1>5. \A c \in Channels, o \in Bytes :
        Handled(c, o) \/ (c = pc.ch /\ o = b) => HasByte(end'[pc.led][c], high(c), o)
  <2> HIDE DEF high
  <2> QED
    BY <1>1, <1>4
<1>6. \A i \in Leds : i < pc.led => end'[i] = report'[i]
  BY <1>1, <1>4, InOrder
<1>7. \/ /\ pc'.at = "end" /\ pc'.led = pc.led
         /\ \A c \in Channels, o \in Bytes :
              Handled(c, o)' => Handled(c, o) \/ (c = pc.ch /\ o = b)
      \/ /\ pc' = GoTo("low", pc.led, 0)
         /\ \A c \in Channels, o \in Bytes : Handled(c, o) \/ (c = pc.ch /\ o = b)
  BY <1>1, ByteDone DEF StoreEnd
<1>8. pc'.at \in {"end", "low"} /\ pc'.led = pc.led
      /\ (pc'.at = "low" => pc'.ch = 0)
      /\ \A c \in Channels, o \in Bytes : HighStored(c, o)' => HasByte(end'[pc.led][c], high(c), o)
  <2>1. CASE pc'.at = "end"
    BY <1>5, <1>7, <2>1 DEF GoTo, HighStored
  <2>2. CASE pc' = GoTo("low", pc.led, 0)
    BY <1>5, <1>7, <2>2 DEF GoTo
  <2> QED
    BY <1>7, <2>1, <2>2
<1>9. \A c \in Channels : ~LowStored(c)'
  BY <1>8, InOrder DEF LowStored
<1>10. EndWriting'
  <2>1. \A c \in Channels : high(c)' = high(c)
    BY <1>1, <1>8
  <2> HIDE DEF high
  <2> QED
    BY <1>1, <1>6, <1>8, <1>9 DEF EndWriting, high
<1> QED
  BY <1>8, <1>10 DEF EndInv, EndResting, EndFilling, Resting, Filling

(* The low digits arrive, and the colour is the one of the report.           *)
LEMMA EndOrred ==
  ASSUME TypeInv, EndInv, OrEnd
  PROVE  EndInv'
<1>1. /\ pc.at = "low" /\ pc.led \in Leds /\ pc.ch \in Channels
      /\ end \in Image /\ report \in Image /\ UNCHANGED <<report, wanted>>
      /\ wanted = report
      /\ \A i \in Leds : i < pc.led => end[i] = report[i]
      /\ \A c \in Channels : c < pc.ch => end[pc.led][c] = report[pc.led][c]
      /\ \A c \in Channels : ~(c < pc.ch) =>
           \A b \in Bytes : HasByte(end[pc.led][c], HighDigits(report[pc.led][c]), b)
  BY InOrder DEF OrEnd, history, TypeInv, TypeOK, EndInv, EndWriting, Writing,
     LowStored, HighStored
<1> DEFINE x == report[pc.led][pc.ch]
<1>2. x \in Nat /\ end[pc.led][pc.ch] \in Nat /\ HighDigits(x) \in Nat
  BY <1>1, Colour, PartsOfReport
<1>3. \A b \in Bytes : HasByte(end[pc.led][pc.ch], HighDigits(x), b)
  BY <1>1, InOrder
<1>4. end[pc.led][pc.ch] = HighDigits(x)
  <2> HIDE DEF x
  <2> QED
    BY <1>2, <1>3, BytesEqual
<1>5. OrLowDigit(end[pc.led][pc.ch], x) = x
  <2> HIDE DEF x
  <2> QED
    BY <1>2, <1>4, PartsOfReport
<1>6. /\ \A i \in Leds : i # pc.led => end'[i] = end[i]
      /\ \A c \in Channels : c # pc.ch => end'[pc.led][c] = end[pc.led][c]
      /\ end'[pc.led][pc.ch] = x
  BY <1>1, <1>5 DEF OrEnd, Image
<1>7. \A i \in Leds : i < pc.led => end'[i] = report'[i]
  BY <1>1, <1>6, InOrder
<1>8. CASE pc.ch + 1 \in Channels
  <2>1. pc' = GoTo("low", pc.led, pc.ch + 1)
    BY <1>8 DEF OrEnd, NextChannel
  <2>2. pc'.at = "low" /\ pc'.led = pc.led /\ pc'.ch = pc.ch + 1
    BY <2>1 DEF GoTo
  <2>3. \A c \in Channels : LowStored(c)' <=> c < pc.ch \/ c = pc.ch
    BY <1>8, <2>2, InOrder DEF LowStored
  <2>4. \A c \in Channels : LowStored(c)' => end'[pc.led][c] = report[pc.led][c]
    BY <1>1, <1>6, <2>3, InOrder
  <2>5. \A c \in Channels : ~LowStored(c)' =>
          \A b \in Bytes : HasByte(end'[pc.led][c], HighDigits(report[pc.led][c]), b)
    BY <1>1, <1>6, <2>3
  <2>6. EndWriting'
    BY <1>1, <1>7, <2>2, <2>4, <2>5 DEF EndWriting
  <2> QED
    BY <2>2, <2>6 DEF EndInv, EndResting, EndFilling, Resting, Filling
<1>9. CASE pc.ch + 1 \notin Channels
  <2>1. pc' = GoTo("compare", pc.led, 0)
    BY <1>9 DEF OrEnd, NextChannel
  <2>2. pc'.at = "compare" /\ pc'.led = pc.led
    BY <2>1 DEF GoTo
  <2>3. \A c \in Channels : end'[pc.led][c] = report[pc.led][c]
    BY <1>1, <1>6, <1>9, InOrder
  <2>4. \A c \in Channels : LowStored(c)'
    BY <2>2 DEF LowStored
  <2>5. EndWriting'
    BY <1>1, <1>7, <2>2, <2>3, <2>4 DEF EndWriting
  <2> QED
    BY <2>2, <2>5 DEF EndInv, EndResting, EndFilling, Resting, Filling
<1> QED
  BY <1>8, <1>9

(* The comparison and the restart of the fade come after all the ends of the *)
(* LED.                                                                      *)
LEMMA EndCompared ==
  ASSUME TypeInv, EndInv, NEW b \in Bytes, Compare(b) \/ ClearIndex
  PROVE  EndInv'
<1> DEFINE over == NextLed("load", FirstColor("flags"))
<1>1. /\ pc.at \in {"compare", "clear"} /\ UNCHANGED <<end, report, wanted>>
      /\ wanted = report
      /\ \A i \in Leds : i < pc.led => end[i] = report[i]
      /\ \A c \in Channels : end[pc.led][c] = report[pc.led][c]
  BY DEF Compare, ClearIndex, Does, images, history, EndInv, EndWriting, Writing, LowStored
<1>2. ASSUME pc'.at \in {"compare", "clear"}, pc'.led = pc.led
      PROVE  EndInv'
  BY <1>1, <1>2 DEF EndInv, EndWriting, EndResting, EndFilling, LowStored, Resting, Filling
<1>3. ASSUME pc' = over PROVE EndInv'
  BY <1>1, <1>3, LedWritten DEF Writing
<1>4. CASE ClearIndex
  BY <1>3, <1>4 DEF ClearIndex
<1>5. CASE pc' = GoTo("clear", pc.led, pc.ch)
  BY <1>2, <1>5 DEF GoTo
<1>6. CASE pc.at = "compare" /\ b \in pc.left /\ Then(b, NextChannel("compare", over))
  <2> HIDE DEF over
  <2>1. pc' = over \/ (pc'.at = "compare" /\ pc'.led = pc.led)
    BY <1>6, ByteDone
  <2> QED
    BY <1>2, <1>3, <2>1
<1> QED
  BY <1>4, <1>5, <1>6 DEF Compare, Does

(* A byte of black arrives.                                                  *)
LEMMA EndFilled ==
  ASSUME TypeInv, EndInv, NEW b \in Bytes, FillEnd(b), UNCHANGED wanted
  PROVE  EndInv'
<1> DEFINE round == NextLed("fillStart", FirstColor("usb"))
<1>1. /\ b \in pc.left /\ pc.at = "fillEnd" /\ pc.led \in Leds /\ pc.ch \in Channels
      /\ end \in Image /\ wanted = BlackImage
      /\ \A i \in Leds : i < pc.led => end[i] = BlackImage[i]
      /\ \A c \in Channels, o \in Bytes : Handled(c, o) => HasByte(end[pc.led][c], Black, o)
  BY InOrder DEF FillEnd, Does, TypeInv, TypeOK, EndInv, EndFilling, Filling
<1>2. Black \in Nat
  BY Positions
<1>3. end' = Written(end, pc.led, pc.ch, Black, b)
  BY DEF FillEnd, WriteByte, Written
<1>4. /\ \A i \in Leds : i # pc.led => end'[i] = end[i]
      /\ \A c \in Channels : c # pc.ch => end'[pc.led][c] = end[pc.led][c]
      /\ HasByte(end'[pc.led][pc.ch], Black, b)
      /\ \A o \in Bytes : HasByte(end[pc.led][pc.ch], Black, o)
                            => HasByte(end'[pc.led][pc.ch], Black, o)
  BY <1>1, <1>2, <1>3, OneByteWritten
<1>5. \A c \in Channels, o \in Bytes :
        Handled(c, o) \/ (c = pc.ch /\ o = b) => HasByte(end'[pc.led][c], Black, o)
  BY <1>1, <1>4
<1>6. \A i \in Leds : i < pc.led => end'[i] = BlackImage[i]
  BY <1>1, <1>4, InOrder
<1>7. \/ /\ pc'.at = "fillEnd" /\ pc'.led = pc.led
         /\ \A c \in Channels, o \in Bytes :
              Handled(c, o)' => Handled(c, o) \/ (c = pc.ch /\ o = b)
      \/ /\ pc' = round
         /\ \A c \in Channels, o \in Bytes : Handled(c, o) \/ (c = pc.ch /\ o = b)
  <2> HIDE DEF round
  <2> QED
    BY <1>1, ByteDone DEF FillEnd, round
<1>8. CASE /\ pc'.at = "fillEnd" /\ pc'.led = pc.led
           /\ \A c \in Channels, o \in Bytes :
                Handled(c, o)' => Handled(c, o) \/ (c = pc.ch /\ o = b)
  BY <1>1, <1>5, <1>6, <1>8
     DEF EndInv, EndResting, EndWriting, EndFilling, Resting, Writing
<1>9. CASE /\ pc' = round
           /\ \A c \in Channels, o \in Bytes : Handled(c, o) \/ (c = pc.ch /\ o = b)
  <2>1. end' \in Image
    <3>1. Black \in Shade
      BY Positions
    <3> QED
      BY <1>1, <3>1, ImageWritten DEF FillEnd, WriteByte
  <2>2. end'[pc.led] = BlackImage[pc.led]
    <3>1. ASSUME NEW c \in Channels PROVE end'[pc.led][c] = BlackImage[pc.led][c]
      <4>1. \A o \in Bytes : HasByte(end'[pc.led][c], Black, o)
        BY <1>5, <1>9
      <4>2. end'[pc.led][c] \in Nat
        BY <1>1, <2>1, Colour
      <4>3. end'[pc.led][c] = Black
        BY <1>2, <4>1, <4>2, BytesEqual
      <4> QED
        BY <1>1, <4>3 DEF BlackImage
    <3> QED
      BY <1>1, <2>1, <3>1, SameColours, Positions
  <2>3. CASE pc.led + 1 \in Leds
    <3>1. pc' = GoTo("fillStart", pc.led + 1, 0)
      BY <1>9, <2>3 DEF NextLed
    <3>2. pc'.at = "fillStart" /\ pc'.led = pc.led + 1
      BY <3>1 DEF GoTo
    <3>3. \A i \in Leds : i < pc'.led => end'[i] = BlackImage[i]
      BY <1>6, <2>2, <2>3, <3>2, InOrder
    <3> QED
      BY <1>1, <3>2, <3>3 DEF EndInv, EndResting, EndWriting, EndFilling, Resting, Writing
  <2>4. CASE pc.led + 1 \notin Leds
    <3>1. pc'.at = "usb"
      BY <1>9, <2>4 DEF NextLed, FirstColor, GoTo
    <3>2. end' = BlackImage
      BY <1>6, <2>1, <2>2, <2>4, InOrder, SameImages, Positions
    <3> QED
      BY <1>1, <3>1, <3>2 DEF EndInv, EndResting, EndWriting, EndFilling, Writing, Filling
  <2> QED
    BY <2>3, <2>4
<1> QED
  BY <1>7, <1>8, <1>9

(* A statement on a byte stays at the LED until it goes on.                  *)
LEMMA StatementStays ==
  ASSUME TypeInv, NEW b \in pc.left, NEW next, NEW at,
         \/ Then(b, NextChannel(next, GoTo(at, pc.led, 0)))
         \/ Then(b, GoTo(at, pc.led, pc.ch)) /\ next = at
  PROVE  /\ pc'.led = pc.led
         /\ pc'.at \in {pc.at, next} \/ pc' = GoTo(at, pc.led, 0)
<1>1. CASE Then(b, NextChannel(next, GoTo(at, pc.led, 0)))
  <2> DEFINE after == GoTo(at, pc.led, 0)
  <2>1. after.led = pc.led
    BY DEF GoTo
  <2> HIDE DEF after
  <2>2. (pc'.at \in {pc.at, next} /\ pc'.led = pc.led) \/ pc' = after
    BY <1>1, ByteDone DEF after
  <2> QED
    BY <2>1, <2>2 DEF after
<1>2. CASE Then(b, GoTo(at, pc.led, pc.ch)) /\ next = at
  BY <1>2 DEF Then, GoTo, TypeInv, TypeOK
<1> QED
  BY <1>1, <1>2

(* Every step leaves the ends right.                                         *)
LEMMA EndStep ==
  ASSUME TypeInv, EndInv, [Next]_vars
  PROVE  EndInv'
<1> USE DEF images, settings, history
<1>1. CASE Tick \/ Usb \/ UNCHANGED vars
  <2>1. UNCHANGED <<end, wanted, report, pc>>
    BY <1>1 DEF Tick, Usb, UsbConfigured, UsbLost, vars
  <2> QED
    BY <2>1, EndKept
<1>2. CASE NoReport \/ StoreSlowdown \/ OffAll \/ SetSmoothSlowdown
  <2>1. /\ UNCHANGED <<end, wanted>>
        /\ pc.at \in Resting /\ pc'.at \in Resting
    BY <1>2 DEF NoReport, StoreSlowdown, OffAll, SetSmoothSlowdown, Resting, FirstColor, GoTo
  <2> QED
    BY <2>1, EndAway
<1>3. CASE UpdateLeds
  <2>1. UNCHANGED end /\ pc' = FirstColor("load") /\ wanted' = report'
    BY <1>3 DEF UpdateLeds
  <2> QED
    BY <2>1, EndBegins
<1>4. CASE ProcessFlags
  <2>1. CASE pc' = FirstColor("fillStart") /\ wanted' = BlackImage
    BY <1>4, <2>1, EndBegins DEF ProcessFlags
  <2>2. CASE pc' = FirstColor("usb") /\ UNCHANGED wanted
    <3>1. UNCHANGED end /\ pc.at \in Resting /\ pc'.at \in Resting
      BY <1>4, <2>2 DEF ProcessFlags, Resting, FirstColor, GoTo
    <3> QED
      BY <2>2, <3>1, EndAway
  <2> QED
    BY <1>4, <2>1, <2>2 DEF ProcessFlags
<1>5. ASSUME NEW b \in Bytes, LoadCurrent(b) \/ StoreStart(b)
      PROVE  EndInv'
  <2>1. /\ UNCHANGED <<end, wanted, report>> /\ b \in pc.left /\ pc.at \in {"load", "store"}
    BY <1>5 DEF LoadCurrent, StoreStart, Does
  <2>2. \/ Then(b, GoTo("store", pc.led, pc.ch))
        \/ Then(b, NextChannel("load", GoTo("end", pc.led, 0)))
    BY <1>5 DEF LoadCurrent, StoreStart
  <2>3. /\ pc'.led = pc.led
        /\ pc'.at \in {"load", "store"} \/ pc' = GoTo("end", pc.led, 0)
    <3>1. CASE Then(b, GoTo("store", pc.led, pc.ch))
      <4>1. GoTo("store", pc.led, 0).at = "store"
        BY DEF GoTo
      <4> QED
        BY <2>1, <3>1, <4>1, StatementStays
    <3>2. CASE Then(b, NextChannel("load", GoTo("end", pc.led, 0)))
      BY <2>1, <3>2, StatementStays
    <3> QED
      BY <2>2, <3>1, <3>2
  <2> QED
    BY <2>1, <2>3, EndAway
<1>6. ASSUME NEW b \in Bytes, FillStart(b) \/ FillCurrent(b), UNCHANGED history
      PROVE  EndInv'
  <2>1. UNCHANGED <<end, wanted>> /\ b \in pc.left /\ pc.at \in {"fillStart", "fillCurrent"}
    BY <1>6 DEF FillStart, FillCurrent, Does
  <2>2. CASE FillStart(b)
    <3>1. GoTo("fillCurrent", pc.led, 0).at = "fillCurrent"
      BY DEF GoTo
    <3>2. Then(b, NextChannel("fillStart", GoTo("fillCurrent", pc.led, 0)))
      BY <2>2 DEF FillStart
    <3>3. pc'.led = pc.led /\ pc'.at \in {"fillStart", "fillCurrent"}
      BY <2>1, <3>1, <3>2, StatementStays
    <3> QED
      BY <2>1, <3>3, EndAway
  <2>3. CASE FillCurrent(b)
    <3>1. Then(b, NextChannel("fillCurrent", GoTo("fillEnd", pc.led, 0)))
      BY <2>3 DEF FillCurrent
    <3>2. /\ pc'.led = pc.led
          /\ pc'.at \in {"fillStart", "fillCurrent"} \/ pc' = GoTo("fillEnd", pc.led, 0)
      BY <2>1, <3>1, StatementStays
    <3> QED
      BY <2>1, <3>2, EndAway
  <2> QED
    BY <1>6, <2>2, <2>3
<1>7. ASSUME NEW b \in Bytes,
             StoreEnd(b) \/ Compare(b) \/ LedManager_FillImages(b)
      PROVE  EndInv'
  BY <1>6, <1>7, EndStored, EndCompared, EndFilled DEF LedManager_FillImages
<1>8. CASE OrEnd \/ ClearIndex
  BY <1>8, EndOrred, EndCompared DEF Bytes
<1> QED
  BY <1>1, <1>2, <1>3, <1>4, <1>5, <1>7, <1>8 DEF Next, Host, Loop

-----------------------------------------------------------------------------
(* The fade.  What the LEDs show is known as long as nothing but whole       *)
(* frames was written since the last tick between two reports: the image     *)
(* that this tick computed, since a frame leaves it alone.  With nothing     *)
(* written it lies on the way of a fade, or at its end; the LEDs of which a  *)
(* new frame was written start from it, with their index at 0 or nothing to  *)
(* fade.                                                                     *)

SinceInv == /\ pc.at \in Writing => since # "nothing"
            /\ pc.at \in Filling \cup {"slowdown"} => since = "other"

LitInv == /\ since # "other" /\ isSmoothEnabled # 0 => lit = current
          /\ since = "nothing" /\ isSmoothEnabled = 0 => lit = end

AtEnd(i) == start[i] = end[i] /\ current[i] = end[i]
OnTheWay(i) ==
  /\ smoothIndex[i] # 0 /\ smoothIndex[i] - 1 < smoothSlowdown
  /\ \A c \in Channels :
       current[i][c] = Faded(start[i][c], end[i][c], smoothIndex[i] - 1, smoothSlowdown)
Fading == since = "nothing" => \A i \in Leds : AtEnd(i) \/ OnTheWay(i)

Ready(i) == start[i] = current[i] /\ (start[i] = end[i] \/ smoothIndex[i] = 0)
Copied(c, b) ==
  \/ pc.at \in {"end", "low", "compare", "clear"}
  \/ pc.at = "load" /\ c < pc.ch
  \/ pc.at = "store" /\ Handled(c, b)

FrameWriting ==
  since = "frames" /\ pc.at \in Writing =>
    /\ \A i \in Leds : i < pc.led => Ready(i)
    /\ \A c \in Channels, b \in Bytes :
         Copied(c, b) => HasByte(start[pc.led][c], current[pc.led][c], b)
    /\ pc.at = "compare" => \A c \in Channels, b \in Bytes :
         Handled(c, b) => HasByte(start[pc.led][c], end[pc.led][c], b)
    /\ pc.at = "load" => \A b \in Bytes :
         b \notin pc.left => HasByte(reg, current[pc.led][pc.ch], b)
    /\ pc.at = "store" => reg = current[pc.led][pc.ch]
FrameResting == since = "frames" /\ pc.at \in Resting => \A i \in Leds : Ready(i)

FadeInv == SinceInv /\ LitInv /\ Fading /\ FrameWriting /\ FrameResting

(* A tick within a report, a setting or a fill: nothing is known.            *)
LEMMA OtherSince == since' = "other" => FadeInv'
BY DEF FadeInv, SinceInv, LitInv, Fading, FrameWriting, FrameResting

(* A step that leaves the images, the settings and the history alone, from a *)
(* place of rest to another one.                                             *)
LEMMA FadeKept ==
  ASSUME FadeInv, UNCHANGED <<images, settings, lit, since>>,
         UNCHANGED <<pc, reg>> \/ (pc.at \in {"usb", "flags"} /\ pc'.at \in {"usb", "flags"})
  PROVE  FadeInv'
<1> USE DEF FadeInv, images, settings
<1>1. LitInv' /\ Fading'
  BY DEF LitInv, Fading, AtEnd, OnTheWay
<1>2. CASE UNCHANGED <<pc, reg>>
  BY <1>1, <1>2 DEF SinceInv, FrameWriting, FrameResting, Ready, Copied, Handled
<1>3. CASE pc.at \in {"usb", "flags"} /\ pc'.at \in {"usb", "flags"}
  BY <1>1, <1>3 DEF SinceInv, FrameWriting, FrameResting, Ready, Writing, Filling, Resting
<1> QED
  BY <1>2, <1>3

(* What a tick leaves of a LED.                                              *)
LEMMA Evaluated ==
  ASSUME TypeInv, Tick, NEW i \in Leds
  PROVE  IF FadeOver(i) THEN start'[i] = end[i] /\ current'[i] = end[i]
         ELSE /\ start'[i] = start[i] /\ smoothIndex'[i] = smoothIndex[i] + 1
              /\ smoothIndex[i] \in Nat /\ smoothIndex[i] < smoothSlowdown
              /\ current'[i] = [c \in Channels |->
                   Faded(start[i][c], end[i][c], smoothIndex[i], smoothSlowdown)]
<1>1. smoothIndex[i] \in 0 .. 255 /\ smoothSlowdown \in 0 .. 255
  BY DEF TypeInv, TypeOK
<1>2. CASE FadeOver(i)
  BY <1>2 DEF Tick, EvalCurrentImage_SmoothlyAlg
<1>3. CASE ~FadeOver(i)
  <2>1. smoothIndex[i] \in Nat /\ smoothIndex[i] < smoothSlowdown
    BY <1>1, <1>3 DEF FadeOver
  <2>2. /\ start'[i] = start[i] /\ smoothIndex'[i] = smoothIndex[i] + 1
        /\ current'[i] = [c \in Channels |->
              Blend(start[i][c], end[i][c], smoothIndex[i], smoothSlowdown)]
    BY <1>3 DEF Tick, EvalCurrentImage_SmoothlyAlg
  <2> QED
    BY <1>3, <2>1, <2>2, BlendFaded
<1> QED
  BY <1>2, <1>3

(* A tick between two reports.                                               *)
LEMMA TickFade ==
  ASSUME TypeInv, FadeInv, Tick
  PROVE  FadeInv'
<1>1. CASE ~BetweenReports
  BY <1>1, OtherSince DEF Tick
<1>2. CASE BetweenReports
  <2>1. /\ since' = "nothing" /\ UNCHANGED <<end, settings, pc>>
        /\ lit' = IF isSmoothEnabled # 0 THEN current' ELSE end
        /\ pc.at \in {"usb", "flags"}
    BY <1>2 DEF Tick, BetweenReports
  <2>2. SinceInv' /\ LitInv' /\ FrameWriting' /\ FrameResting'
    BY <2>1 DEF SinceInv, LitInv, FrameWriting, FrameResting, settings, Writing, Filling
  <2>3. ASSUME NEW i \in Leds PROVE AtEnd(i)' \/ OnTheWay(i)'
    <3>1. CASE FadeOver(i)
      BY <2>1, <3>1, Evaluated DEF AtEnd
    <3>2. CASE ~FadeOver(i)
      <4>1. /\ start'[i] = start[i] /\ smoothIndex'[i] = smoothIndex[i] + 1
            /\ smoothIndex[i] \in Nat /\ smoothIndex[i] < smoothSlowdown
            /\ current'[i] = [c \in Channels |->
                 Faded(start[i][c], end[i][c], smoothIndex[i], smoothSlowdown)]
        BY <3>2, Evaluated
      <4>2. smoothIndex'[i] # 0 /\ smoothIndex'[i] - 1 = smoothIndex[i]
        BY <4>1
      <4>3. \A c \in Channels : current'[i][c] =
              Faded(start'[i][c], end'[i][c], smoothIndex'[i] - 1, smoothSlowdown')
        BY <2>1, <4>1, <4>2 DEF settings
      <4> QED
        BY <2>1, <4>1, <4>2, <4>3 DEF OnTheWay, settings
    <3> QED
      BY <3>1, <3>2
  <2>4. Fading'
    BY <2>3 DEF Fading
  <2> QED
    BY <2>2, <2>4 DEF FadeInv
<1> QED
  BY <1>1, <1>2

(* The steps of the main loop away from the frames.                          *)
LEMMA AwayFade ==
  ASSUME TypeInv, FadeInv,
         \/ Host \/ Usb \/ NoReport \/ StoreSlowdown \/ ProcessFlags
         \/ \E b \in Bytes : LedManager_FillImages(b)
  PROVE  FadeInv'
<1>1. CASE Usb \/ NoReport \/ OffAll \/ (ProcessFlags /\ UNCHANGED history)
  <2>1. /\ UNCHANGED <<images, settings, lit, since>>
        /\ \/ UNCHANGED <<pc, reg>>
           \/ pc.at \in {"usb", "flags"} /\ pc'.at \in {"usb", "flags"}
           \/ since' = "other"
    BY <1>1 DEF Usb, UsbConfigured, UsbLost, NoReport, OffAll, ProcessFlags, FirstColor, GoTo,
       history
  <2> QED
    BY <2>1, FadeKept, OtherSince
<1>2. CASE SetSmoothSlowdown \/ StoreSlowdown \/ (ProcessFlags /\ since' = "other")
  BY <1>2, OtherSince DEF SetSmoothSlowdown, StoreSlowdown, FadeInv, SinceInv, history
<1>3. ASSUME NEW b \in Bytes, LedManager_FillImages(b) PROVE FadeInv'
  <2>1. since' = since /\ pc.at \in Filling
    BY <1>3 DEF LedManager_FillImages, FillStart, FillCurrent, FillEnd, Does, Filling, history
  <2> QED
    BY <2>1, OtherSince DEF FadeInv, SinceInv
<1>4. CASE UpdateLeds
  <2>1. /\ UNCHANGED <<images, settings, lit, reg>>
        /\ since' = IF since = "other" THEN "other" ELSE "frames"
        /\ pc'.at = "load" /\ pc'.led = 0 /\ pc'.ch = 0 /\ pc'.left = Bytes
    BY <1>4 DEF UpdateLeds, FirstColor, GoTo
  <2>2. \A c \in Channels, b \in Bytes : ~Copied(c, b)'
    BY <2>1, InOrder DEF Copied
  <2>3. FrameWriting'
    BY <2>1, <2>2, InOrder DEF FrameWriting
  <2>4. SinceInv' /\ LitInv' /\ Fading' /\ FrameResting'
    BY <2>1 DEF FadeInv, SinceInv, LitInv, Fading, FrameResting, images, settings, Filling,
       Resting
  <2> QED
    BY <2>3, <2>4 DEF FadeInv
<1> QED
  BY <1>1, <1>2, <1>3, <1>4 DEF Host, ProcessFlags

(* A step within a frame need only leave the frame right.                    *)
LEMMA FrameKept ==
  ASSUME FadeInv, since = "frames", pc.at \in Writing,
         UNCHANGED <<current, settings, lit, since>>,
         \/ pc'.at \in Writing /\ FrameWriting'
         \/ pc'.at = "flags" /\ FrameResting'
  PROVE  FadeInv'
<1>1. LitInv' /\ Fading' /\ SinceInv'
  BY DEF FadeInv, LitInv, Fading, SinceInv, settings, Writing, Filling
<1> QED
  BY <1>1 DEF FadeInv, FrameWriting, FrameResting, Writing, Resting

(* What is known of a frame that is being written.                           *)
LEMMA FrameKnown ==
  ASSUME TypeInv, FadeInv, since = "frames", pc.at \in Writing
  PROVE  /\ pc.led \in Leds /\ pc.ch \in Channels
         /\ start \in Image /\ current \in Image /\ end \in Image
         /\ \A i \in Leds : i < pc.led => Ready(i)
         /\ \A c \in Channels, b \in Bytes :
              Copied(c, b) => HasByte(start[pc.led][c], current[pc.led][c], b)
         /\ pc.at \in {"end", "low", "compare", "clear"} => start[pc.led] = current[pc.led]
<1>1. /\ pc.led \in Leds /\ pc.ch \in Channels
      /\ start \in Image /\ current \in Image /\ end \in Image
  BY InOrder DEF TypeInv, TypeOK
<1>2. /\ \A i \in Leds : i < pc.led => Ready(i)
      /\ \A c \in Channels, b \in Bytes :
           Copied(c, b) => HasByte(start[pc.led][c], current[pc.led][c], b)
  BY DEF FadeInv, FrameWriting
<1>3. ASSUME pc.at \in {"end", "low", "compare", "clear"}
      PROVE  start[pc.led] = current[pc.led]
  <2>1. ASSUME NEW c \in Channels PROVE start[pc.led][c] = current[pc.led][c]
    <3>1. \A b \in Bytes : HasByte(start[pc.led][c], current[pc.led][c], b)
      BY <1>2, <1>3 DEF Copied
    <3>2. start[pc.led][c] \in Nat /\ current[pc.led][c] \in Nat
      BY <1>1, Colour
    <3> QED
      BY <3>1, <3>2, BytesEqual
  <2> QED
    BY <1>1, <2>1, SameColours
<1> QED
  BY <1>1, <1>2, <1>3

(* After a LED that is ready comes the next one, or the frame is written.    *)
LEMMA LedReady ==
  ASSUME TypeInv, FadeInv, since = "frames", pc.at \in Writing,
         UNCHANGED <<start, current, end, settings, lit, since>>,
         \A i \in Leds : i < pc.led \/ i = pc.led => Ready(i)',
         pc' = NextLed("load", FirstColor("flags"))
  PROVE  FadeInv'
<1>1. CASE pc.led + 1 \in Leds
  <2>1. pc' = GoTo("load", pc.led + 1, 0)
    BY <1>1 DEF NextLed
  <2>2. pc'.at = "load" /\ pc'.led = pc.led + 1 /\ pc'.ch = 0 /\ pc'.left = Bytes
    BY <2>1 DEF GoTo
  <2>3. \A i \in Leds : i < pc'.led => Ready(i)'
    BY <1>1, <2>2, InOrder
  <2>4. \A c \in Channels, b \in Bytes : ~Copied(c, b)'
    BY <2>2, InOrder DEF Copied
  <2>5. FrameWriting'
    BY <2>2, <2>3, <2>4 DEF FrameWriting
  <2> QED
    BY <2>2, <2>5, FrameKept DEF Writing
<1>2. CASE pc.led + 1 \notin Leds
  <2>1. pc'.at = "flags"
    BY <1>2 DEF NextLed, FirstColor, GoTo
  <2>2. \A i \in Leds : Ready(i)'
    BY <1>2, InOrder
  <2> QED
    BY <2>1, <2>2, FrameKept DEF FrameResting
<1> QED
  BY <1>1, <1>2

(* A byte of the colour that is shown is loaded.                             *)
LEMMA FrameLoaded ==
  ASSUME TypeInv, FadeInv, since = "frames", NEW b \in Bytes, LoadCurrent(b)
  PROVE  FadeInv'
<1> DEFINE x == current[pc.led][pc.ch]
<1>1. /\ pc.at = "load" /\ b \in pc.left /\ pc.at \in Writing /\ reg \in Nat
      /\ UNCHANGED <<start, current, end, smoothIndex, settings, lit, since>>
      /\ reg' = WithByte(reg, x, b)
      /\ \A o \in Bytes : o \notin pc.left => HasByte(reg, x, o)
  BY DEF LoadCurrent, Does, images, history, Writing, TypeInv, TypeOK, FadeInv, FrameWriting
<1>2. /\ pc.led \in Leds /\ pc.ch \in Channels /\ x \in Nat /\ pc \in Counters
      /\ \A i \in Leds : i < pc.led => Ready(i)
      /\ \A c \in Channels, o \in Bytes :
           Copied(c, o) => HasByte(start[pc.led][c], current[pc.led][c], o)
  BY <1>1, FrameKnown, Colour DEF TypeInv, TypeOK, Counters
<1>0. UNCHANGED <<current, settings, lit, since>> /\ pc.at \in Writing
  BY <1>1
<1> HIDE DEF x
<1>3. reg' \in Nat /\ \A o \in Bytes : o = b \/ o \notin pc.left => HasByte(reg', x, o)
  BY <1>1, <1>2, ByteWritten
<1>4. \A i \in Leds : Ready(i) => Ready(i)'
  BY <1>1 DEF Ready
<1>5. CASE pc' = [pc EXCEPT !.left = @ \ {b}]
  <2>1. /\ pc'.at = "load" /\ pc'.led = pc.led /\ pc'.ch = pc.ch
        /\ pc'.left = pc.left \ {b}
    BY <1>1, <1>2, <1>5 DEF Counters
  <2>2. \A c \in Channels, o \in Bytes : Copied(c, o)' => Copied(c, o)
    BY <1>1, <2>1 DEF Copied
  <2>3. \A o \in Bytes : o \notin pc'.left => HasByte(reg', current'[pc'.led][pc'.ch], o)
    BY <1>1, <1>3, <2>1 DEF x
  <2>4. FrameWriting'
    BY <1>1, <1>2, <1>4, <2>1, <2>2, <2>3 DEF FrameWriting
  <2> QED
    BY <1>0, <2>1, <2>4, FrameKept DEF Writing
<1>6. CASE pc.left = {b} /\ pc' = GoTo("store", pc.led, pc.ch)
  <2>1. /\ pc'.at = "store" /\ pc'.led = pc.led /\ pc'.ch = pc.ch /\ pc'.left = Bytes
    BY <1>6 DEF GoTo
  <2>2. \A c \in Channels, o \in Bytes : Copied(c, o)' => Copied(c, o)
    BY <1>1, <2>1 DEF Copied, Handled
  <2>3. reg' = x
    BY <1>2, <1>3, <1>6, BytesEqual
  <2>4. FrameWriting'
    BY <1>1, <1>2, <1>4, <2>1, <2>2, <2>3 DEF FrameWriting, x
  <2> QED
    BY <1>0, <2>1, <2>4, FrameKept DEF Writing
<1> QED
  BY <1>5, <1>6 DEF LoadCurrent, Then

(* A byte of the loaded colour is stored where the fade starts.              *)
LEMMA FrameCopied ==
  ASSUME TypeInv, FadeInv, since = "frames", NEW b \in Bytes, StoreStart(b)
  PROVE  FadeInv'
<1> DEFINE x == current[pc.led][pc.ch]
<1>1. /\ pc.at = "store" /\ b \in pc.left /\ pc.at \in Writing /\ reg = x
      /\ UNCHANGED <<current, end, smoothIndex, settings, lit, since, reg>>
      /\ start' = Written(start, pc.led, pc.ch, reg, b)
  BY DEF StoreStart, Does, history, Writing, FadeInv, FrameWriting, WriteByte, Written
<1>2. /\ pc.led \in Leds /\ pc.ch \in Channels /\ reg \in Nat /\ start \in Image
      /\ \A i \in Leds : i < pc.led => Ready(i)
      /\ \A c \in Channels, o \in Bytes :
           Handled(c, o) => HasByte(start[pc.led][c], current[pc.led][c], o)
  BY <1>1, FrameKnown, Colour DEF Copied
<1>0. UNCHANGED <<current, settings, lit, since>> /\ pc.at \in Writing
  BY <1>1
<1> HIDE DEF x
<1>3. /\ \A i \in Leds : i # pc.led => start'[i] = start[i]
      /\ \A c \in Channels : c # pc.ch => start'[pc.led][c] = start[pc.led][c]
      /\ HasByte(start'[pc.led][pc.ch], reg, b)
      /\ \A o \in Bytes : HasByte(start[pc.led][pc.ch], reg, o)
                            => HasByte(start'[pc.led][pc.ch], reg, o)
  BY <1>1, <1>2, OneByteWritten
<1>4. \A c \in Channels, o \in Bytes :
        Handled(c, o) \/ (c = pc.ch /\ o = b)
          => HasByte(start'[pc.led][c], current'[pc.led][c], o)
  BY <1>1, <1>2, <1>3 DEF x
<1>5. \A i \in Leds : i < pc.led => Ready(i)'
  BY <1>1, <1>2, <1>3, InOrder DEF Ready
<1> DEFINE after == GoTo("end", pc.led, 0)
<1>6. after.at = "end" /\ after.led = pc.led
  BY DEF GoTo
<1>7. Then(b, NextChannel("load", after))
  BY DEF StoreStart
<1> HIDE DEF after
<1>8. \/ /\ pc'.at \in {pc.at, "load"} /\ pc'.led = pc.led
         /\ pc' = [pc EXCEPT !.left = @ \ {b}] \/ (pc'.at = "load" /\ pc'.left = Bytes)
         /\ \A c \in Channels, o \in Bytes :
              Handled(c, o)' => Handled(c, o) \/ (c = pc.ch /\ o = b)
      \/ /\ pc' = after
         /\ \A c \in Channels, o \in Bytes : Handled(c, o) \/ (c = pc.ch /\ o = b)
  BY <1>1, <1>7, ByteDone
<1>9. CASE /\ pc'.at \in {pc.at, "load"} /\ pc'.led = pc.led
           /\ pc' = [pc EXCEPT !.left = @ \ {b}] \/ (pc'.at = "load" /\ pc'.left = Bytes)
           /\ \A c \in Channels, o \in Bytes :
                Handled(c, o)' => Handled(c, o) \/ (c = pc.ch /\ o = b)
  <2>1. pc'.at \in {"store", "load"} /\ pc'.led = pc.led
    BY <1>1, <1>9
  <2>2. pc \in Counters
    BY DEF TypeInv, TypeOK, Counters
  <2>3. /\ pc'.at = "store" => pc'.ch = pc.ch
        /\ pc'.at = "load" => pc'.left = Bytes
    BY <1>1, <1>9, <2>2 DEF Counters
  <2>4. \A c \in Channels, o \in Bytes : Copied(c, o)' => Handled(c, o)'
    BY <2>1 DEF Copied, Handled
  <2>5. \A c \in Channels, o \in Bytes :
          Copied(c, o)' => HasByte(start'[pc'.led][c], current'[pc'.led][c], o)
    BY <1>4, <1>9, <2>1, <2>4
  <2>6. FrameWriting'
    BY <1>1, <1>5, <2>1, <2>3, <2>5 DEF FrameWriting, x
  <2> QED
    BY <1>0, <2>1, <2>6, FrameKept DEF Writing
<1>10. CASE /\ pc' = after
            /\ \A c \in Channels, o \in Bytes : Handled(c, o) \/ (c = pc.ch /\ o = b)
  <2>1. FrameWriting'
    BY <1>4, <1>5, <1>6, <1>10 DEF FrameWriting
  <2> QED
    BY <1>0, <1>6, <1>10, <2>1, FrameKept DEF Writing
<1> QED
  BY <1>8, <1>9, <1>10

(* The colours of the report arrive where the fade ends.                     *)
LEMMA FrameEnds ==
  ASSUME TypeInv, FadeInv, since = "frames", NEW b \in Bytes, StoreEnd(b) \/ OrEnd
  PROVE  FadeInv'
<1>1. /\ pc.at \in {"end", "low"} /\ pc.at \in Writing
      /\ UNCHANGED <<start, current, smoothIndex, settings, lit, since, reg>>
  BY DEF StoreEnd, OrEnd, Does, history, Writing
<1>2. /\ pc.led \in Leds /\ pc.ch \in Channels /\ end \in Image
      /\ \A i \in Leds : i < pc.led => Ready(i)
      /\ \A c \in Channels, o \in Bytes : HasByte(start[pc.led][c], current[pc.led][c], o)
  BY <1>1, FrameKnown DEF Copied
<1>3. \A i \in Leds : i # pc.led => end'[i] = end[i]
  BY <1>2 DEF StoreEnd, OrEnd, WriteByte, Image
<1>4. \A i \in Leds : i < pc.led => Ready(i)'
  BY <1>1, <1>2, <1>3, InOrder DEF Ready
<1>5. /\ pc'.led = pc.led
      /\ \/ pc'.at \in {"end", "low"}
         \/ pc'.at = "compare" /\ pc'.ch = 0 /\ pc'.left = Bytes
  <2>1. CASE StoreEnd(b)
    <3>1. b \in pc.left /\ pc.at = "end" /\ Then(b, NextChannel("end", GoTo("low", pc.led, 0)))
      BY <2>1 DEF StoreEnd, Does
    <3>2. /\ pc'.led = pc.led
          /\ pc'.at \in {"end", "end"} \/ pc' = GoTo("low", pc.led, 0)
      BY <3>1, StatementStays
    <3> QED
      BY <3>2 DEF GoTo
  <2>2. CASE OrEnd
    BY <2>2 DEF OrEnd, NextChannel, GoTo
  <2> QED
    BY <2>1, <2>2
<1>6. pc'.at = "compare" => \A c \in Channels, o \in Bytes : ~Handled(c, o)'
  BY <1>5, InOrder DEF Handled
<1>7. FrameWriting'
  BY <1>1, <1>2, <1>4, <1>5, <1>6 DEF FrameWriting
<1>8. UNCHANGED <<current, settings, lit, since>> /\ pc.at \in Writing /\ pc'.at \in Writing
  BY <1>1, <1>5 DEF Writing
<1> QED
  BY <1>7, <1>8, FrameKept

(* A LED that changed has its index cleared; of one that did not, the two    *)
(* ends of the fade are the same.                                            *)
LEMMA FrameCompared ==
  ASSUME TypeInv, FadeInv, since = "frames", NEW b \in Bytes, Compare(b) \/ ClearIndex
  PROVE  FadeInv'
<1> DEFINE over == NextLed("load", FirstColor("flags"))
<1>1. /\ pc.at \in {"compare", "clear"} /\ pc.at \in Writing
      /\ UNCHANGED <<start, current, end, settings, lit, since>>
      /\ pc.at = "compare" => UNCHANGED smoothIndex
  BY DEF Compare, ClearIndex, Does, history, Writing, images
<1>2. /\ pc.led \in Leds /\ pc.ch \in Channels /\ start \in Image /\ end \in Image
      /\ \A i \in Leds : i < pc.led => Ready(i)
      /\ \A c \in Channels, o \in Bytes : HasByte(start[pc.led][c], current[pc.led][c], o)
      /\ start[pc.led] = current[pc.led]
  BY <1>1, FrameKnown DEF Copied
<1>3. UNCHANGED <<current, settings, lit, since>>
  BY <1>1
<1>4. CASE ClearIndex
  <2>1. /\ smoothIndex'[pc.led] = 0
        /\ \A i \in Leds : i # pc.led => smoothIndex'[i] = smoothIndex[i]
    BY <1>2, <1>4 DEF ClearIndex, TypeInv, TypeOK
  <2>2. \A i \in Leds : i < pc.led \/ i = pc.led => Ready(i)'
    BY <1>1, <1>2, <2>1, InOrder DEF Ready
  <2> QED
    BY <1>1, <1>4, <2>2, LedReady DEF ClearIndex
<1>5. CASE Compare(b) /\ pc' = GoTo("clear", pc.led, pc.ch)
  <2>1. pc'.at = "clear" /\ pc'.led = pc.led
    BY <1>5 DEF GoTo
  <2>2. \A i \in Leds : Ready(i) => Ready(i)'
    BY <1>1, <1>5 DEF Ready, Compare, Does
  <2>3. FrameWriting'
    BY <1>1, <1>2, <2>1, <2>2 DEF FrameWriting
  <2> QED
    BY <1>1, <1>3, <2>1, <2>3, FrameKept DEF Writing
<1>6. CASE /\ Compare(b)
           /\ WithByte(start[pc.led][pc.ch], end[pc.led][pc.ch], b) = start[pc.led][pc.ch]
           /\ Then(b, NextChannel("compare", over))
  <2>1. pc.at = "compare" /\ b \in pc.left
    BY <1>6 DEF Compare, Does
  <2>2. \A c \in Channels, o \in Bytes :
          Handled(c, o) => HasByte(start[pc.led][c], end[pc.led][c], o)
    BY <1>1, <2>1 DEF FadeInv, FrameWriting
  <2>3. HasByte(start[pc.led][pc.ch], end[pc.led][pc.ch], b)
    BY <1>2, <1>6, Colour, ByteCompared
  <2>4. \A i \in Leds : Ready(i) => Ready(i)'
    BY <1>1, <2>1 DEF Ready
  <2> HIDE DEF over
  <2>5. \/ /\ pc'.at = "compare" /\ pc'.led = pc.led
           /\ \A c \in Channels, o \in Bytes :
                Handled(c, o)' => Handled(c, o) \/ (c = pc.ch /\ o = b)
        \/ /\ pc' = over
           /\ \A c \in Channels, o \in Bytes : Handled(c, o) \/ (c = pc.ch /\ o = b)
    BY <1>6, <2>1, ByteDone
  <2>6. CASE /\ pc'.at = "compare" /\ pc'.led = pc.led
             /\ \A c \in Channels, o \in Bytes :
                  Handled(c, o)' => Handled(c, o) \/ (c = pc.ch /\ o = b)
    <3>1. \A c \in Channels, o \in Bytes :
            Handled(c, o)' => HasByte(start'[pc'.led][c], end'[pc'.led][c], o)
      BY <1>1, <2>2, <2>3, <2>6
    <3>2. FrameWriting'
      BY <1>1, <1>2, <2>4, <2>6, <3>1 DEF FrameWriting
    <3> QED
      BY <1>1, <1>3, <2>6, <3>2, FrameKept DEF Writing
  <2>7. CASE /\ pc' = over
             /\ \A c \in Channels, o \in Bytes : Handled(c, o) \/ (c = pc.ch /\ o = b)
    <3>1. ASSUME NEW c \in Channels PROVE start[pc.led][c] = end[pc.led][c]
      <4>1. \A o \in Bytes : HasByte(start[pc.led][c], end[pc.led][c], o)
        BY <2>2, <2>3, <2>7
      <4>2. start[pc.led][c] \in Nat /\ end[pc.led][c] \in Nat
        BY <1>2, Colour
      <4> QED
        BY <4>1, <4>2, BytesEqual
    <3>2. start[pc.led] = end[pc.led]
      BY <1>2, <3>1, SameColours
    <3>3. \A i \in Leds : i < pc.led \/ i = pc.led => Ready(i)'
      BY <1>2, <2>4, <3>2 DEF Ready
    <3> QED
      BY <1>1, <2>7, <3>3, LedReady DEF over
  <2> QED
    BY <2>5, <2>6, <2>7
<1> QED
  BY <1>4, <1>5, <1>6 DEF Compare

(* Every step keeps what is known of the fade.                               *)
LEMMA FadeStep ==
  ASSUME TypeInv, FadeInv, [Next]_vars
  PROVE  FadeInv'
<1>1. CASE UNCHANGED vars
  BY <1>1, FadeKept DEF vars, history
<1>2. CASE Tick
  BY <1>2, TickFade
<1>3. CASE \/ Host \/ Usb \/ NoReport \/ StoreSlowdown \/ ProcessFlags
           \/ \E b \in Bytes : LedManager_FillImages(b)
  BY <1>3, AwayFade
<1>4. ASSUME NEW b \in Bytes,
             LoadCurrent(b) \/ StoreStart(b) \/ StoreEnd(b) \/ Compare(b) \/ OrEnd \/ ClearIndex
      PROVE  FadeInv'
  <2>1. pc.at \in Writing /\ since' = since
    BY <1>4 DEF LoadCurrent, StoreStart, StoreEnd, Compare, OrEnd, ClearIndex, Does, Writing,
       history
  <2>2. since \in {"frames", "other"}
    BY <2>1 DEF FadeInv, SinceInv, TypeInv, TypeOK
  <2>3. CASE since = "other"
    BY <2>1, <2>3, OtherSince
  <2>4. CASE since = "frames"
    BY <1>4, <2>4, FrameLoaded, FrameCopied, FrameEnds, FrameCompared
  <2> QED
    BY <2>2, <2>3, <2>4
<1> QED
  BY <1>1, <1>2, <1>3, <1>4 DEF Next, Loop, Bytes

(* The three parts together are an invariant of the specification.           *)
LEMMA FirmwareInvariant == Spec => [](TypeInv /\ EndInv /\ FadeInv)
<1>1. Init => EndInv /\ FadeInv
  BY DEF Init, EndInv, EndResting, EndWriting, EndFilling, FadeInv, SinceInv, LitInv, Fading,
     FrameWriting, FrameResting, Writing, Filling
<1>2. TypeInv /\ EndInv /\ FadeInv /\ [Next]_vars => (TypeInv /\ EndInv /\ FadeInv)'
  BY TypeStep, EndStep, FadeStep
<1> QED
  BY <1>1, <1>2, TypeInit, PTL DEF Spec

(* A number between another one and the goal is no further from the goal.    *)
LEMMA Nearer ==
  ASSUME NEW a \in Nat, NEW b \in Nat, NEW goal \in Nat,
         (a <= b /\ b <= goal) \/ (goal <= b /\ b <= a)
  PROVE  Distance(b, goal) <= Distance(a, goal)
BY DEF Distance

(* A colour is blended of some number of parts.                             *)
LEMMA ParcelsType == Parcels \in Nat \ {0}
BY DEF Parcels

(* A fade of one colour into itself shows it, and so does one at its start.  *)
LEMMA FadedStart ==
  ASSUME NEW from \in Nat, NEW to \in Nat, NEW index \in Nat, NEW slowdown \in Nat,
         index < slowdown, from = to \/ index = 0
  PROVE  Faded(from, to, index, slowdown) = from
<1> DEFINE e == PartOf(Parcels, index, slowdown)
<1>1. e \in 0 .. Parcels - 1 /\ PartOf(Parcels, 0, slowdown) = 0
  BY ParcelsType, Parts
<1>2. Mean(Parcels, 0, from, to) = from /\ (from = to => Mean(Parcels, e, from, to) = from)
  <2> HIDE DEF e
  <2> QED
    BY <1>1, ParcelsType, MeanBetween
<1> QED
  BY <1>1, <1>2 DEF Faded

(* One step of a fade.                                                       *)
LEMMA FadedApproaches ==
  ASSUME NEW from \in Nat, NEW to \in Nat, NEW index \in Nat, NEW slowdown \in Nat,
         index # 0, index < slowdown
  PROVE  Distance(Faded(from, to, index, slowdown), to)
           <= Distance(Faded(from, to, index - 1, slowdown), to)
<1> DEFINE f == PartOf(Parcels, index, slowdown)
           e == PartOf(Parcels, index - 1, slowdown)
<1>1. index - 1 \in Nat /\ index - 1 <= index
  OBVIOUS
<1>2. e \in 0 .. Parcels - 1 /\ f \in 0 .. Parcels - 1 /\ e <= f
  BY <1>1, ParcelsType, Parts
<1> HIDE DEF e, f
<1>3. /\ Mean(Parcels, e, from, to) \in Nat /\ Mean(Parcels, f, from, to) \in Nat
      /\ \/ /\ Mean(Parcels, e, from, to) <= Mean(Parcels, f, from, to)
            /\ Mean(Parcels, f, from, to) <= to
         \/ /\ to <= Mean(Parcels, f, from, to)
            /\ Mean(Parcels, f, from, to) <= Mean(Parcels, e, from, to)
  BY <1>2, ParcelsType, MeanApproaches
<1> QED
  BY <1>3, Nearer DEF Faded, e, f

(* What a fade is computed from are numbers.                                 *)
LEMMA FadeNumbers ==
  ASSUME TypeInv, NEW i \in Leds, NEW c \in Channels
  PROVE  /\ start[i][c] \in Nat /\ current[i][c] \in Nat /\ end[i][c] \in Nat
         /\ smoothIndex[i] \in Nat /\ smoothSlowdown \in Nat
<1>1. /\ start \in Image /\ current \in Image /\ end \in Image
      /\ smoothIndex \in [Leds -> 0 .. 255] /\ smoothSlowdown \in 0 .. 255
  BY DEF TypeInv, TypeOK
<1>2. /\ start[i][c] \in Nat /\ current[i][c] \in Nat /\ end[i][c] \in Nat
  BY <1>1, Colour
<1>3. QED
  BY <1>1, <1>2

(* The step of a LED.                                                        *)
LEMMA LedApproaches ==
  ASSUME TypeInv, FadeInv, Tick, since = "nothing", NEW i \in Leds, NEW c \in Channels
  PROVE  Distance(current'[i][c], end[i][c]) <= Distance(current[i][c], end[i][c])
<1>1. /\ start[i][c] \in Nat /\ current[i][c] \in Nat /\ end[i][c] \in Nat
      /\ smoothIndex[i] \in Nat /\ smoothSlowdown \in Nat
  BY FadeNumbers
<1>2. AtEnd(i) \/ OnTheWay(i)
  BY DEF FadeInv, Fading
<1>3. CASE FadeOver(i)
  <2>1. current'[i][c] = end[i][c]
    BY <1>3, Evaluated
  <2> QED
    BY <1>1, <2>1 DEF Distance
<1>4. CASE ~FadeOver(i)
  <2>1. /\ smoothIndex[i] < smoothSlowdown
        /\ current'[i][c] = Faded(start[i][c], end[i][c], smoothIndex[i], smoothSlowdown)
    BY <1>4, Evaluated
  <2>2. CASE AtEnd(i)
    <3>1. start[i][c] = end[i][c]
      BY <2>2 DEF AtEnd
    <3>2. current'[i][c] = end[i][c]
      BY <1>1, <2>1, <3>1, FadedStart
    <3> QED
      BY <1>1, <3>2 DEF Distance
  <2>3. CASE OnTheWay(i)
    BY <1>1, <2>1, <2>3, FadedApproaches DEF OnTheWay
  <2> QED
    BY <1>2, <2>2, <2>3
<1> QED
  BY <1>3, <1>4

(* From one tick to the next with no report, setting or fill between them no *)
(* channel of no LED moves away from the colour asked for, for every number  *)
(* of LEDs and whatever the ticks before saw of half written frames.         *)
THEOREM FadeApproaches == Spec => Approaches
<1>1. TypeInv /\ EndInv /\ FadeInv /\ [Next]_vars =>
        [Tick /\ since = "nothing" => \A i \in Leds, c \in Channels :
           Distance(lit'[i][c], wanted[i][c]) <= Distance(lit[i][c], wanted[i][c])]_vars
  <2> SUFFICES ASSUME TypeInv, EndInv, FadeInv, Tick, since = "nothing",
                      NEW i \in Leds, NEW c \in Channels
               PROVE  Distance(lit'[i][c], wanted[i][c]) <= Distance(lit[i][c], wanted[i][c])
    OBVIOUS
  <2>1. pc.at \in Resting
    BY DEF FadeInv, SinceInv, TypeInv, TypeOK, Places, Writing, Filling, Resting
  <2>2. end = wanted
    BY <2>1 DEF EndInv, EndResting
  <2>3. CASE isSmoothEnabled # 0
    <3>1. lit = current /\ lit' = current'
      BY <2>3 DEF FadeInv, LitInv, Tick
    <3> QED
      BY <2>2, <3>1, LedApproaches
  <2>4. CASE isSmoothEnabled = 0
    <3>1. lit' = lit /\ lit[i][c] \in Nat /\ wanted[i][c] \in Nat
      BY <2>4, Colour DEF FadeInv, LitInv, Tick, TypeInv, TypeOK
    <3> QED
      BY <3>1 DEF Distance
  <2> QED
    BY <2>3, <2>4
<1> QED
  BY <1>1, FirmwareInvariant, PTL DEF Spec, Approaches

(* A fade starts from what the LEDs show: after whole frames between two     *)
(* ticks the second tick changes nothing yet, although start, end and the    *)
(* index were written byte by byte, LED by LED.                              *)
THEOREM FadesStart == Spec => FadeStarts
<1>1. TypeInv /\ EndInv /\ FadeInv /\ [Next]_vars =>
        [Tick /\ since = "frames" /\ BetweenReports
           /\ isSmoothEnabled # 0 /\ smoothSlowdown # 0 => lit' = lit]_vars
  <2> SUFFICES ASSUME TypeInv, FadeInv, TypeInv', Tick, since = "frames", BetweenReports,
                      isSmoothEnabled # 0, smoothSlowdown # 0
               PROVE  lit' = lit
    BY TypeStep
  <2>1. lit = current /\ lit' = current' /\ \A i \in Leds : Ready(i)
    BY DEF FadeInv, LitInv, FrameResting, Resting, BetweenReports, Tick
  <2>2. current \in Image /\ current' \in Image
    BY DEF TypeInv, TypeOK
  <2>3. ASSUME NEW i \in Leds, NEW c \in Channels PROVE current'[i][c] = current[i][c]
    <3>1. /\ start[i][c] \in Nat /\ end[i][c] \in Nat
          /\ smoothIndex[i] \in Nat /\ smoothSlowdown \in Nat
      BY FadeNumbers
    <3>2. start[i] = current[i] /\ (start[i] = end[i] \/ smoothIndex[i] = 0)
      BY <2>1 DEF Ready
    <3>3. CASE FadeOver(i)
      <4>1. smoothIndex[i] # 0
        BY <3>1, <3>3 DEF FadeOver
      <4> QED
        BY <3>2, <3>3, <4>1, Evaluated
    <3>4. CASE ~FadeOver(i)
      <4>1. /\ smoothIndex[i] < smoothSlowdown
            /\ current'[i][c] = Faded(start[i][c], end[i][c], smoothIndex[i], smoothSlowdown)
        BY <3>4, Evaluated
      <4>2. start[i][c] = end[i][c] \/ smoothIndex[i] = 0
        BY <3>2
      <4>3. current'[i][c] = start[i][c]
        BY <3>1, <4>1, <4>2, FadedStart
      <4> QED
        BY <3>2, <4>3
    <3> QED
      BY <3>3, <3>4
  <2>4. \A i \in Leds : current'[i] = current[i]
    BY <2>2, <2>3, SameColours
  <2> QED
    BY <2>1, <2>2, <2>4, SameImages
<1> QED
  BY <1>1, FirmwareInvariant, PTL DEF Spec, FadeStarts
=============================================================================
