---------------------------- MODULE SmoothColors ----------------------------
(* The colours of the firmware (hardware 6 and later) as the processor sees  *)
(* them: 12-bit numbers of three digits, kept in two bytes of memory that    *)
(* are read and written one at a time, and the blend that the timer          *)
(* interrupt computes between the colour a fade starts from and the one it   *)
(* ends at (Firmware/LedManager.c, Firmware/datatypes.h).                    *)
EXTENDS Integers

CONSTANT Digit      \* values of one digit: 16 in the code (a nibble)

ASSUME DigitAssumption == Digit \in Nat \ {0, 1}

Bytes == {"lo", "hi"}
Shade == 0 .. Digit * Digit * Digit - 1
Black == 0

(* The low byte holds two digits of a shade, the high byte the third.        *)
WithByte(old, new, b) ==
  LET Lo(x) == x % (Digit * Digit)
  IN  IF b = "lo" THEN (old - Lo(old)) + Lo(new) ELSE (new - Lo(new)) + Lo(old)

(* Mutants: the nibble is shifted out, and assigned instead of or-ed.      *)
HighDigits_Shifted(x) == x * Digit
OrLowDigit_Assigned(old, x) == x % Digit

(* What the report says in its first three bytes, and with the nibble that   *)
(* follows them or-ed into what is there.                                    *)
HighDigits(x) == (x \div Digit) * Digit
OrLowDigit(old, x) == HighDigits(old) + (x % Digit)

(* Mutant: the two coefficients are swapped.                               *)
Blend_Swapped(from, to, index, slowdown) ==
  LET coefEnd   == (index * 65536) \div slowdown
      coefStart == 65536 - coefEnd
  IN  (coefEnd * from + coefStart * to) \div 65536

(* Fixed-point blend: `index` steps of `slowdown` from `from` to `to`.       *)
Blend(from, to, index, slowdown) ==
  LET coefEnd   == (index * 65536) \div slowdown
      coefStart == 65536 - coefEnd
  IN  (coefStart * from + coefEnd * to) \div 65536
=============================================================================
