-------------------------- MODULE LedDeviceManager --------------------------
(***************************************************************************)
(* LedDeviceManager and its CommandDispatcher                              *)
(* (Software/prismatic/LedDeviceManager.cpp).                              *)
(*                                                                         *)
(* The manager lives in a thread of its own, where each of its slots is    *)
(* one event, and the object of the device in a second one.  Both          *)
(* directions are queued connections, hence two FIFO event queues:         *)
(* toDevice for the signals of the manager, fromDevice for the             *)
(* commandCompleted signals of the device.                                 *)
(*                                                                         *)
(* The main thread calls switchOffLeds and switchOnLeds directly, with no  *)
(* lock, while the thread of the manager runs its slots.  Wherever one of  *)
(* the two reads or writes what the other writes, a step ends: slot and    *)
(* call hold what the running slot and the direct call have left to do.    *)
(***************************************************************************)
EXTENDS DeviceCommands

CONSTANTS
  MaxPending,  \* bound: signals queued or about to be, when a caller adds one
  MaxReplies   \* bound: completions one signal causes

ASSUME LedDeviceManagerAssumption ==
  /\ MaxPending \in Nat
  /\ MaxReplies \in Nat

VARIABLES
  ready,       \* m_isLastCommandCompleted
  cmdQueue,    \* m_cmdQueue, the runners named by their command
  timer,       \* m_cmdTimeoutTimer is active
  context,     \* m_context: the argument saved for each carrying command
  status,      \* m_backlightStatus
  toDevice,    \* events queued for the thread of the device
  fromDevice,  \* ledDeviceCommandCompleted(ok) events queued for the manager
  slot,        \* what the slot the manager is in has left to do
  call,        \* what the direct call of the main thread has left to do
  newest       \* history: the argument each command that waits was posted
               \* with last

vars == <<ready, cmdQueue, timer, context, status, toDevice, fromDevice, slot, call, newest>>

Queued == {cmdQueue[i] : i \in DOMAIN cmdQueue}

Left(at, c, v) == [at |-> at, cmd |-> c, value |-> v]

(* Between two slots, or no call: nothing is left to do                    *)
Nothing == Left("nothing", OffLeds, NoValue)

(* The state when the slot init() returns                                  *)
Init ==
  /\ ready = TRUE
  /\ cmdQueue = << >>
  /\ timer = FALSE
  /\ context = [c \in Carrying |-> NoValue]
  /\ newest = [c \in Carrying |-> NoValue]
  /\ status = "On"
  /\ toDevice = Greeting
  /\ fromDevice = << >>
  /\ slot = Nothing
  /\ call = Nothing

-----------------------------------------------------------------------------
(* The dispatcher, in the thread of the manager *)

(* A caller that will emit a signal waits for room, never the code         *)
WillEmit(todo) == IF todo.at \in {"send", "emit", "runOff", "claim", "off", "read"} THEN 1 ELSE 0

Room(n) ==
  Len(toDevice) + Len(fromDevice) + WillEmit(slot) + WillEmit(call) + n <= MaxPending

Emit(c, v) == toDevice' = Append(toDevice, Signal(c, v))

(* postCommand finds the last command completed: runImmediate is to follow *)
PostNow(c, v) ==
  /\ ready
  /\ Room(1)
  /\ slot' = Left("send", c, v)
  /\ UNCHANGED <<cmdQueue, newest>>

(* Mutant: appendCommand without the contains() check                      *)
PostLater_Again(c, v) ==
  /\ ~ready
  /\ cmdQueue' = Append(cmdQueue, c)
  /\ newest' = IF c \in Carrying THEN [newest EXCEPT ![c] = v] ELSE newest
  /\ UNCHANGED slot

(* postCommand on a busy dispatcher: appendCommand, once per runner        *)
PostLater(c, v) ==
  /\ ~ready
  /\ cmdQueue' = IF c \in Queued THEN cmdQueue ELSE Append(cmdQueue, c)
  /\ newest' = IF c \in Carrying THEN [newest EXCEPT ![c] = v] ELSE newest
  /\ UNCHANGED slot

Post(c, v) == PostNow(c, v) \/ PostLater(c, v)

(* Mutant: the status falls back to the first of Backlight::Status         *)
StatusAfter_Unknown(c) == IF c = OffLeds THEN "Unknown" ELSE status

(* Only the runner of switchOffLeds, processOffLeds, changes the status    *)
StatusAfter(c) == IF c = OffLeds THEN "Off" ELSE status

(* The rest of postCommand: the deadline starts, and the command is sent,  *)
(* the one to switch off after its runner has written the status.          *)
SendNow ==
  /\ slot.at = "send"
  /\ timer' = TRUE
  /\ ready' = FALSE
  /\ status' = StatusAfter(slot.cmd)
  /\ IF slot.cmd = OffLeds
       THEN slot' = Left("emit", OffLeds, NoValue) /\ UNCHANGED toDevice
       ELSE slot' = Nothing /\ Emit(slot.cmd, slot.value)
  /\ UNCHANGED <<cmdQueue, context, fromDevice, call, newest>>

(* A signal that is all a slot has left to send                            *)
SlotEmits ==
  /\ slot.at = "emit"
  /\ Emit(slot.cmd, slot.value)
  /\ slot' = Nothing
  /\ UNCHANGED <<ready, cmdQueue, timer, context, status, fromDevice, call, newest>>

(* What runDeferred passes on: the member of the context, if there is one  *)
SavedArg(c) == IF c \in Carrying THEN context[c] ELSE NoValue

(* processNextCommand takes the first of the queue, which is not empty     *)
TakeNext ==
  /\ cmdQueue' = Tail(cmdQueue)
  /\ newest' = [c \in Carrying |-> IF c = Head(cmdQueue) THEN NoValue ELSE newest[c]]
  /\ Emit(Head(cmdQueue), SavedArg(Head(cmdQueue)))
  /\ ready' = FALSE

(* Mutant: the next command is sent without starting the deadline afresh   *)
RunNext_Untimed ==
  /\ cmdQueue # << >>
  /\ timer' = FALSE
  /\ status' = StatusAfter(Head(cmdQueue))
  /\ IF Head(cmdQueue) = OffLeds
       THEN slot' = Left("runOff", OffLeds, NoValue) /\ UNCHANGED <<ready, cmdQueue, toDevice, newest>>
       ELSE TakeNext /\ UNCHANGED slot

(* commandCompleted(true) with a command that waits                        *)
RunNext ==
  /\ cmdQueue # << >>
  /\ timer' = TRUE
  /\ status' = StatusAfter(Head(cmdQueue))
  /\ IF Head(cmdQueue) = OffLeds
       THEN slot' = Left("runOff", OffLeds, NoValue) /\ UNCHANGED <<ready, cmdQueue, toDevice, newest>>
       ELSE TakeNext /\ UNCHANGED slot

(* The rest of it when that is the command to switch off.  The call of the *)
(* main thread only appends, so it may as well leave the queue here.       *)
RunOff ==
  /\ slot.at = "runOff"
  /\ TakeNext
  /\ slot' = Nothing
  /\ UNCHANGED <<timer, context, status, fromDevice, call>>

(* commandCompleted(true) with none                                        *)
Settle ==
  /\ cmdQueue = << >>
  /\ timer' = FALSE
  /\ slot' = Left("idle", OffLeds, NoValue)
  /\ UNCHANGED <<ready, cmdQueue, newest, toDevice, status>>

(* commandCompleted(false)                                                 *)
Abandon ==
  /\ timer' = FALSE
  /\ cmdQueue' = << >>
  /\ newest' = [c \in Carrying |-> NoValue]
  /\ slot' = Left("idle", OffLeds, NoValue)
  /\ UNCHANGED <<ready, toDevice, status>>

(* The last thing either of them does: whatever the main thread has        *)
(* appended or sent since, the last command counts as completed.           *)
BecomesIdle ==
  /\ slot.at = "idle"
  /\ ready' = TRUE
  /\ slot' = Nothing
  /\ UNCHANGED <<cmdQueue, timer, context, status, toDevice, fromDevice, call, newest>>

SlotGoesOn == SendNow \/ SlotEmits \/ RunOff \/ BecomesIdle

-----------------------------------------------------------------------------
(* The slots of the manager *)

SetColorsSlot(v) ==
  /\ slot = Nothing
  /\ status = "On"
  /\ context' = [context EXCEPT ![SetColors] = v]
  /\ Post(SetColors, v)
  /\ UNCHANGED <<ready, timer, status, toDevice, fromDevice, call>>

(* Mutant: the argument is saved only when the command is first queued     *)
SetParamSlot_First(p, v) ==
  /\ slot = Nothing
  /\ Post(p, v)
  /\ context' = IF ready \/ p \in Queued THEN context ELSE [context EXCEPT ![p] = v]
  /\ UNCHANGED <<ready, timer, status, toDevice, fromDevice, call>>

SetParamSlot(p, v) ==
  /\ slot = Nothing
  /\ Post(p, v)
  /\ context' = IF ready THEN context ELSE [context EXCEPT ![p] = v]
  /\ UNCHANGED <<ready, timer, status, toDevice, fromDevice, call>>

VoidSlot(c) ==
  /\ slot = Nothing
  /\ Post(c, NoValue)
  /\ UNCHANGED <<ready, timer, context, status, toDevice, fromDevice, call>>

SwitchOffLedsSlot == VoidSlot(OffLeds)

(* switchOnLeds resends the last frame without asking the dispatcher       *)
SwitchOnLedsSlot ==
  /\ slot = Nothing
  /\ status' = "On"
  /\ IF context[SetColors] = NoValue
       THEN UNCHANGED slot
       ELSE Room(1) /\ slot' = Left("emit", SetColors, context[SetColors])
  /\ UNCHANGED <<ready, cmdQueue, timer, context, toDevice, fromDevice, call, newest>>

LedDeviceCommandCompleted ==
  /\ slot = Nothing
  /\ fromDevice # << >>
  /\ fromDevice' = Tail(fromDevice)
  /\ IF Head(fromDevice) THEN RunNext \/ Settle ELSE Abandon
  /\ UNCHANGED <<context, call>>

LedDeviceCommandTimedOut ==
  /\ slot = Nothing
  /\ timer
  /\ Abandon
  /\ UNCHANGED <<context, fromDevice, call>>

-----------------------------------------------------------------------------
(* The direct calls of the main thread (startBacklight, winEventFilter,    *)
(* commitData) *)

(* postCommand reads m_isLastCommandCompleted, and contains() the queue    *)
SwitchOffLedsCall ==
  /\ call = Nothing
  /\ \/ ready /\ Room(1) /\ call' = Left("claim", OffLeds, NoValue)
     \/ ~ready /\ OffLeds \in Queued /\ UNCHANGED call
     \/ ~ready /\ OffLeds \notin Queued /\ call' = Left("append", OffLeds, NoValue)
  /\ UNCHANGED <<ready, cmdQueue, timer, context, status, toDevice, fromDevice, slot, newest>>

(* appendCommand, whatever has become of the dispatcher in between         *)
CallAppends ==
  /\ call.at = "append"
  /\ cmdQueue' = Append(cmdQueue, OffLeds)
  /\ call' = Nothing
  /\ UNCHANGED <<ready, timer, context, status, toDevice, fromDevice, slot, newest>>

(* A timer that belongs to the thread of the manager cannot be started     *)
(* here: Qt refuses, or in builds without the test starts it all the same  *)
CallClaims ==
  /\ call.at = "claim"
  /\ \E started \in BOOLEAN : timer' = started
  /\ ready' = FALSE
  /\ call' = Left("off", OffLeds, NoValue)
  /\ UNCHANGED <<cmdQueue, context, status, toDevice, fromDevice, slot, newest>>

(* processOffLeds writes the status, then emits                            *)
CallSwitchesOff ==
  /\ call.at = "off"
  /\ status' = "Off"
  /\ call' = Left("emit", OffLeds, NoValue)
  /\ UNCHANGED <<ready, cmdQueue, timer, context, toDevice, fromDevice, slot, newest>>

SwitchOnLedsCall ==
  /\ call = Nothing
  /\ Room(1)
  /\ status' = "On"
  /\ call' = Left("read", OffLeds, NoValue)
  /\ UNCHANGED <<ready, cmdQueue, timer, context, toDevice, fromDevice, slot, newest>>

(* The saved frame is copied, and emitted when others may have been sent   *)
CallReadsSaved ==
  /\ call.at = "read"
  /\ call' = IF context[SetColors] = NoValue THEN Nothing
             ELSE Left("emit", SetColors, context[SetColors])
  /\ UNCHANGED <<ready, cmdQueue, timer, context, status, toDevice, fromDevice, slot, newest>>

CallEmits ==
  /\ call.at = "emit"
  /\ Emit(call.cmd, call.value)
  /\ call' = Nothing
  /\ UNCHANGED <<ready, cmdQueue, timer, context, status, fromDevice, slot, newest>>

CallGoesOn == CallAppends \/ CallClaims \/ CallSwitchesOff \/ CallReadsSaved \/ CallEmits

-----------------------------------------------------------------------------
(* The thread of the device *)

(* A handler that ends in setColors returns without an answer when the     *)
(* frame is longer than the device, and open() when nothing is found.  All *)
(* others answer, some (updateDeviceSettings, or a write that has to       *)
(* reopen the device) several times over.                                  *)
Counts(c) == {n \in 0..MaxReplies : c \in Void \cup {OffLeds} => n > 0}

Answers(c) == UNION {[1..n -> BOOLEAN] : n \in Counts(c)}

DeviceHandles ==
  /\ toDevice # << >>
  /\ toDevice' = Tail(toDevice)
  /\ \E oks \in Answers(Head(toDevice).cmd) :
       /\ Len(oks) > 1 => Room(Len(oks) - 1)
       /\ fromDevice' = fromDevice \o oks
  /\ UNCHANGED <<ready, cmdQueue, timer, context, status, slot, call, newest>>

(* A device without an open handle opens itself when its ping timer fires, *)
(* and completes commands nobody has sent.                                 *)
PingReopens ==
  /\ \E oks \in Answers(Open) :
       /\ oks # << >> /\ Room(Len(oks))
       /\ fromDevice' = fromDevice \o oks
  /\ UNCHANGED <<ready, cmdQueue, timer, context, status, toDevice, slot, call, newest>>

-----------------------------------------------------------------------------
Next ==
  \/ \E v \in Value : SetColorsSlot(v)
  \/ \E p \in Param, v \in Value : SetParamSlot(p, v)
  \/ \E c \in Void : VoidSlot(c)
  \/ SwitchOffLedsSlot
  \/ SwitchOnLedsSlot
  \/ LedDeviceCommandCompleted
  \/ LedDeviceCommandTimedOut
  \/ SendNow \/ SlotEmits \/ RunOff \/ BecomesIdle
  \/ SwitchOffLedsCall \/ SwitchOnLedsCall
  \/ CallAppends \/ CallClaims \/ CallSwitchesOff \/ CallReadsSaved \/ CallEmits
  \/ DeviceHandles
  \/ PingReopens

(* The event loop of the manager serves its events in their order and      *)
(* looks at its timer in every round, so no crowd of callers keeps a       *)
(* completion or the deadline waiting for ever; a slot or a call that has  *)
(* begun goes on, and the thread of the device takes its events.  Nobody   *)
(* has to call a slot and the device need not answer.                      *)
Fairness ==
  /\ WF_vars(SlotGoesOn)
  /\ WF_vars(CallGoesOn)
  /\ SF_vars(LedDeviceCommandCompleted)
  /\ SF_vars(LedDeviceCommandCompleted \/ LedDeviceCommandTimedOut)
  /\ WF_vars(DeviceHandles)

SafeSpec == Init /\ [][Next]_vars
Spec == SafeSpec /\ Fairness

-----------------------------------------------------------------------------
(* What must hold *)

Todo == [at : {"nothing", "send", "emit", "runOff", "idle", "append", "claim", "off", "read"},
         cmd : Command, value : Value \cup {NoValue}]

TypeOK ==
  /\ ready \in BOOLEAN
  /\ cmdQueue \in Seq(Command)
  /\ timer \in BOOLEAN
  /\ context \in [Carrying -> Value \cup {NoValue}]
  /\ newest \in [Carrying -> Value \cup {NoValue}]
  /\ status \in {"On", "Off"}
  /\ toDevice \in Seq(Signals)
  /\ fromDevice \in Seq(BOOLEAN)
  /\ slot \in Todo
  /\ call \in Todo

(* A completion is queued or being handled, or the command to switch off,  *)
(* which no device leaves unanswered, is on its way or about to be.        *)
AnswerToCome ==
  \/ fromDevice # << >>
  \/ slot.at = "idle"
  \/ \E i \in DOMAIN toDevice : toDevice[i].cmd = OffLeds
  \/ call.at = "off"
  \/ call.at = "emit" /\ call.cmd = OffLeds

(* A busy dispatcher always has a running deadline, or an answer to come   *)
(* when the main thread has put the deadline out: it would otherwise queue *)
(* every later command and wait for ever for a device that is gone.        *)
BusyHasDeadline == ~ready => timer \/ AnswerToCome

(* A completion or the deadline is still to come for every command that    *)
(* waits, but for the command to switch off: the main thread may append    *)
(* that one to a dispatcher that has become idle since it looked.          *)
OnlyOffIsStranded == ready \/ slot.at = "idle" => Queued \subseteq {OffLeds}

(* A kind of command waits at most once, so the backlog is bounded by the  *)
(* number of kinds however fast the callers post; the command to switch    *)
(* off at most twice, when both threads find it missing at the same time.  *)
NoDuplicates ==
  /\ \A i, j \in DOMAIN cmdQueue :
       cmdQueue[i] = cmdQueue[j] => i = j \/ (cmdQueue[i] = OffLeds /\ call.at # "append")
  /\ \A i, j, k \in DOMAIN cmdQueue :
       cmdQueue[i] = cmdQueue[j] /\ cmdQueue[j] = cmdQueue[k] => i = j \/ j = k \/ i = k

(* A command that waits has its argument in the context, and it is the one *)
(* it was posted with last: more than the assertion of                     *)
(* SetColorsCommandRunner::runDeferred, and for every carrying command.    *)
DeferredIsSaved ==
  \A c \in Queued \cap Carrying : context[c] = newest[c] /\ newest[c] # NoValue

(* Between its two steps the runner of a deferred switch-off stays first   *)
RunsTheFirst == slot.at = "runOff" => cmdQueue # << >> /\ Head(cmdQueue) = OffLeds

DispatcherInv ==
  /\ BusyHasDeadline
  /\ OnlyOffIsStranded
  /\ NoDuplicates
  /\ DeferredIsSaved
  /\ RunsTheFirst

(* No command waits for ever: each is sent or given up in the end, however *)
(* fast the callers post and even if the device answers nothing but the    *)
(* command to switch off.  Only that one may stay, in an idle dispatcher.  *)
BacklogDrains ==
  \A c \in Command : []<>(c \notin Queued \/ (c = OffLeds /\ ready))

(* The commands that wait, with the arguments they were posted with last:  *)
(* what the dispatcher has to send, whatever it saved in the context.      *)
NewestArg(c) == IF c \in Carrying THEN newest[c] ELSE NoValue

WaitingCommands ==
  [i \in DOMAIN cmdQueue |-> [cmd |-> cmdQueue[i], value |-> NewestArg(cmdQueue[i])]]

(* The dispatcher implements the channel its callers are promised; it is   *)
(* idle to the one whose command it is about to send.                      *)
Channel == INSTANCE CommandChannel WITH
  pending <- WaitingCommands,
  busy    <- ~ready /\ slot.at # "send",
  wire    <- toDevice

ChannelSafe == Channel!SafeSpec

(* And it serves a busy channel for ever, however silent the device.       *)
ChannelLive == Channel!Spec

-----------------------------------------------------------------------------
(* What the sources say of the manager and the code does not do            *)

Sends(c) ==
  /\ Len(toDevice') > Len(toDevice)
  /\ toDevice'[Len(toDevice')].cmd = c

(* "Off leds before quit" (LightpackApplication.cpp:629), "Turn off lights *)
(* when exiting" (CHANGELOG:194): once the command to switch off has been  *)
(* sent, no frame that waited is sent until the lights are switched on     *)
(* again.                                                                  *)
NoFrameWhileOff ==
  [][status = "Off" /\ call.at # "emit" /\ cmdQueue' # cmdQueue => ~Sends(SetColors)]_vars
=============================================================================
