--------------------------- MODULE DeviceCommands ---------------------------
(***************************************************************************)
(* The vocabulary shared by the manager of the LED devices and by what it  *)
(* promises: the commands of LedDeviceManager, their arguments, and the    *)
(* queued Qt signals that carry them to the object of the device.          *)
(***************************************************************************)
EXTENDS Naturals, Sequences

CONSTANTS
  Param,    \* commands with one argument (gamma, brightness, smoothing ...)
  Void,     \* commands without one (firmware version, settings refresh ...)
  Value,    \* the arguments; a frame of colours is a value as well
  NoValue   \* "no argument", and a field of the context never written

SetColors      == "setColors"
OffLeds        == "switchOffLeds"
UpdateSettings == "updateDeviceSettings"
Open           == "open"

ASSUME DeviceCommandsAssumption ==
  /\ Param \cap Void = {}
  /\ {SetColors, OffLeds, Open} \cap (Param \cup Void) = {}
  /\ UpdateSettings \in Void
  /\ NoValue \notin Value

(* The commands with a member of CommandContext to remember their argument *)
Carrying == Param \cup {SetColors}

Command == Carrying \cup Void \cup {OffLeds}

ArgOf(c) == IF c \in Carrying THEN Value ELSE {NoValue}

(* A signal of the manager on its way to the event loop of the device      *)
Signal(c, v) == [cmd |-> c, value |-> v]

Signals == [cmd : Command \cup {Open}, value : Value \cup {NoValue}]

(* What initLedDevice emits to the device it has just connected            *)
Greeting == << Signal(UpdateSettings, NoValue), Signal(Open, NoValue) >>
=============================================================================
