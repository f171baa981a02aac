--------------------------- MODULE CommandChannel ---------------------------
(***************************************************************************)
(* What the command dispatcher of LedDeviceManager promises to its         *)
(* callers, without its timer, its saved context, its unlocked callers or  *)
(* the completions of the device.  A command posted on an idle channel is  *)
(* sent at once.  One posted on a busy channel waits; posting it again     *)
(* replaces its argument and keeps its place, so that at most one of each  *)
(* kind waits and what is sent is always the argument posted last.  The    *)
(* commands that wait are sent in the order they were first posted, or are *)
(* all given up together.                                                  *)
(*                                                                         *)
(* The command to switch off may also come from outside, at any time: it   *)
(* takes the channel for itself and goes out past the queue, or it is put  *)
(* at the end of the queue, where an idle channel lets it wait.            *)
(***************************************************************************)
EXTENDS DeviceCommands

VARIABLES
  pending,  \* the commands that wait, each with the argument to send
  busy,     \* a command was sent and nothing has been heard of it
  wire      \* signals on their way to the device

channelVars == <<pending, busy, wire>>

Waiting(c) == \E i \in DOMAIN pending : pending[i].cmd = c

Replace(c, v) ==
  [i \in DOMAIN pending |-> IF pending[i].cmd = c
                            THEN [cmd |-> c, value |-> v]
                            ELSE pending[i]]

Init ==
  /\ pending = << >>
  /\ busy = FALSE
  /\ wire = Greeting

SendAtOnce(c, v) ==
  /\ ~busy
  /\ busy' = TRUE
  /\ wire' = Append(wire, Signal(c, v))
  /\ UNCHANGED pending

Wait(c, v) ==
  /\ busy
  /\ UNCHANGED <<busy, wire>>
  /\ pending' = IF Waiting(c) THEN Replace(c, v)
                              ELSE Append(pending, [cmd |-> c, value |-> v])

Post(c) == \E v \in ArgOf(c) : SendAtOnce(c, v) \/ Wait(c, v)

(* The command that has waited longest is sent                             *)
SendNext ==
  /\ busy' = TRUE
  /\ pending # << >>
  /\ wire' = Append(wire, Signal(Head(pending).cmd, Head(pending).value))
  /\ pending' = Tail(pending)

(* Nothing waits, but a command to switch off that came from outside       *)
Settle ==
  /\ busy' = FALSE
  /\ UNCHANGED <<wire, pending>>
  /\ \A i \in DOMAIN pending : pending[i].cmd = OffLeds

(* The command failed or nobody answered in time: all that waits is lost   *)
GiveUp ==
  /\ UNCHANGED <<busy, wire>>
  /\ pending' = << >>

(* A frame sent past the queue when the lights are switched on, or a       *)
(* command to switch off whose sender has claimed the channel              *)
Bypass(c, v) ==
  /\ wire' = Append(wire, Signal(c, v))
  /\ UNCHANGED <<busy, pending>>

ClaimOutside ==
  /\ busy' = TRUE
  /\ UNCHANGED <<wire, pending>>

WaitOutside ==
  /\ UNCHANGED <<busy, wire>>
  /\ pending' = Append(pending, [cmd |-> OffLeds, value |-> NoValue])

Take ==
  /\ wire # << >>
  /\ wire' = Tail(wire)
  /\ UNCHANGED <<busy, pending>>

Next ==
  \/ ClaimOutside
  \/ Take
  \/ Settle
  \/ GiveUp
  \/ WaitOutside
  \/ SendNext
  \/ Bypass(OffLeds, NoValue)
  \/ \E v \in Value : Bypass(SetColors, v)
  \/ \E c \in Command : Post(c)

SafeSpec == Init /\ [][Next]_channelVars

(* A busy channel hears of its command, one way or another                 *)
Spec == SafeSpec /\ WF_channelVars(busy /\ (SendNext \/ Settle \/ GiveUp))
=============================================================================
