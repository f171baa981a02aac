----------------------- MODULE LedDeviceManager_proofs -----------------------
(***************************************************************************)
(* Proofs about LedDeviceManager, for every set of commands and arguments  *)
(* and every bound: type correctness, the invariant of the dispatcher, and *)
(* the refinement of CommandChannel.                                       *)
(***************************************************************************)
EXTENDS LedDeviceManager, SequenceTheorems, TLAPS

-----------------------------------------------------------------------------
(* Type correctness *)

(* What initLedDevice emits is a sequence of signals.                      *)
LEMMA GreetingType == Greeting \in Seq(Signals)
<1>1. UpdateSettings \in Command
  BY DeviceCommandsAssumption DEF Command
<1>2. /\ Signal(UpdateSettings, NoValue) \in Signals
      /\ Signal(Open, NoValue) \in Signals
  BY <1>1 DEF Signal, Signals
<1>3. QED
  BY <1>2 DEF Greeting

(* Emitting a command keeps the queue of the device thread typed.          *)
LEMMA EmitType ==
  ASSUME TypeOK, NEW c \in Command, NEW v \in Value \cup {NoValue}, Emit(c, v)
  PROVE  toDevice' \in Seq(Signals)
<1>1. Signal(c, v) \in Signals
  BY DEF Signal, Signals
<1>2. QED
  BY <1>1, AppendProperties DEF Emit, TypeOK

(* What a command finds saved is a value, or none for one without argument. *)
LEMMA SavedArgType ==
  ASSUME TypeOK, NEW c \in Command
  PROVE  SavedArg(c) \in Value \cup {NoValue}
BY DEF SavedArg, TypeOK

Stage == {"nothing", "send", "emit", "runOff", "idle", "append", "claim", "off", "read"}

(* What a slot or a call has left to do is a record of its stage, a command *)
(* and an argument.                                                        *)
LEMMA LeftType ==
  /\ Nothing \in Todo
  /\ \A at \in Stage, c \in Command, v \in Value \cup {NoValue} : Left(at, c, v) \in Todo
  /\ \A at \in Stage : Left(at, OffLeds, NoValue) \in Todo
BY DEF Nothing, Left, Todo, Stage, Command

(* The commands of the vocabulary are commands, and those that carry an    *)
(* argument do.                                                            *)
LEMMA Vocabulary ==
  /\ SetColors \in Command /\ OffLeds \in Command
  /\ SetColors \in Carrying /\ OffLeds \notin Carrying
  /\ Param \subseteq Command /\ Param \subseteq Carrying
  /\ Void \subseteq Command /\ Void \cap Carrying = {}
  /\ NoValue \notin Value
BY DeviceCommandsAssumption DEF Command, Carrying, SetColors, OffLeds

(* A post, whether its command is to be sent or queued, keeps the types of *)
(* what it changes.                                                        *)
LEMMA PostType ==
  ASSUME TypeOK, NEW c \in Command, NEW v \in Value \cup {NoValue}, Post(c, v)
  PROVE  /\ cmdQueue' \in Seq(Command)
         /\ newest' \in [Carrying -> Value \cup {NoValue}]
         /\ slot' \in Todo
<1>1. CASE PostNow(c, v)
  <2>1. Left("send", c, v) \in Todo
    BY LeftType DEF Stage
  <2>2. QED
    BY <1>1, <2>1 DEF PostNow, TypeOK
<1>2. CASE PostLater(c, v)
  <2>1. Append(cmdQueue, c) \in Seq(Command)
    BY AppendProperties DEF TypeOK
  <2>2. QED
    BY <1>2, <2>1 DEF PostLater, TypeOK
<1>3. QED
  BY <1>1, <1>2 DEF Post

(* Taking the first of the commands that wait keeps the types.             *)
LEMMA TakeNextType ==
  ASSUME TypeOK, cmdQueue # << >>, TakeNext
  PROVE  /\ ready' \in BOOLEAN
         /\ cmdQueue' \in Seq(Command)
         /\ newest' \in [Carrying -> Value \cup {NoValue}]
         /\ toDevice' \in Seq(Signals)
<1>1. Head(cmdQueue) \in Command /\ Tail(cmdQueue) \in Seq(Command)
  BY HeadTailProperties DEF TypeOK
<1>2. toDevice' \in Seq(Signals)
  BY <1>1, SavedArgType, EmitType DEF TakeNext
<1>3. QED
  BY <1>1, <1>2 DEF TakeNext, TypeOK

(* Completing a command with one that waits keeps the types.               *)
LEMMA RunNextType ==
  ASSUME TypeOK, RunNext, UNCHANGED <<context, call>>, fromDevice' \in Seq(BOOLEAN)
  PROVE  TypeOK'
<1>1. timer' \in BOOLEAN /\ status' \in {"On", "Off"}
  BY DEF RunNext, StatusAfter, TypeOK
<1>2. context' \in [Carrying -> Value \cup {NoValue}] /\ call' \in Todo
  BY DEF TypeOK
<1>3. CASE Head(cmdQueue) = OffLeds
  <2>1. Left("runOff", OffLeds, NoValue) \in Todo
    BY LeftType DEF Stage
  <2>2. /\ ready' \in BOOLEAN /\ cmdQueue' \in Seq(Command) /\ toDevice' \in Seq(Signals)
        /\ newest' \in [Carrying -> Value \cup {NoValue}] /\ slot' \in Todo
    BY <1>3, <2>1 DEF RunNext, TypeOK
  <2>3. QED
    BY <1>1, <1>2, <2>2 DEF TypeOK
<1>4. CASE Head(cmdQueue) # OffLeds
  <2>1. cmdQueue # << >> /\ TakeNext /\ slot' \in Todo
    BY <1>4 DEF RunNext, TypeOK
  <2>2. QED
    BY <1>1, <1>2, <2>1, TakeNextType DEF TypeOK
<1>5. QED
  BY <1>3, <1>4

(* A queue that is emptied, or found empty, keeps the types.               *)
LEMMA SettleType ==
  ASSUME TypeOK, Settle \/ Abandon, UNCHANGED <<context, call>>, fromDevice' \in Seq(BOOLEAN)
  PROVE  TypeOK'
<1>1. Left("idle", OffLeds, NoValue) \in Todo
  BY LeftType DEF Stage
<1>2. << >> \in Seq(Command)
  BY EmptySeq
<1>3. CASE Settle
  BY <1>1, <1>3 DEF Settle, TypeOK
<1>4. CASE Abandon
  BY <1>1, <1>2, <1>4 DEF Abandon, TypeOK
<1>5. QED
  BY <1>3, <1>4

(* The handler of a device queues a sequence of completions.               *)
LEMMA RepliesType ==
  ASSUME TypeOK, NEW c, NEW oks \in Answers(c)
  PROVE  /\ oks \in Seq(BOOLEAN)
         /\ fromDevice \o oks \in Seq(BOOLEAN)
         /\ Len(oks) \in Nat
         /\ Len(fromDevice \o oks) = Len(fromDevice) + Len(oks)
         /\ c \in Void \cup {OffLeds} => Len(oks) > 0
<1>1. PICK n \in Counts(c) : oks \in [1..n -> BOOLEAN]
  BY DEF Answers
<1>2. n \in Nat /\ (c \in Void \cup {OffLeds} => n > 0)
  BY LedDeviceManagerAssumption DEF Counts
<1>3. oks \in Seq(BOOLEAN) /\ Len(oks) = n
  BY <1>1, <1>2, SeqDef, LenProperties
<1>4. /\ fromDevice \o oks \in Seq(BOOLEAN)
      /\ Len(fromDevice \o oks) = Len(fromDevice) + Len(oks)
  BY <1>3, ConcatProperties DEF TypeOK
<1>5. QED
  BY <1>2, <1>3, <1>4

(* The slots of the manager that post, send or emit keep the types.        *)
LEMMA SlotType ==
  ASSUME TypeOK, RunsTheFirst,
         \/ \E v \in Value : SetColorsSlot(v)
         \/ \E p \in Param, v \in Value : SetParamSlot(p, v)
         \/ \E c \in Void \cup {OffLeds} : VoidSlot(c)
         \/ SwitchOnLedsSlot \/ SlotGoesOn
  PROVE  TypeOK'
<1>1. ASSUME NEW v \in Value, SetColorsSlot(v) PROVE TypeOK'
  <2>1. /\ cmdQueue' \in Seq(Command)
        /\ newest' \in [Carrying -> Value \cup {NoValue}]
        /\ slot' \in Todo
    BY <1>1, Vocabulary, PostType DEF SetColorsSlot
  <2>2. QED
    BY <1>1, <2>1 DEF SetColorsSlot, TypeOK
<1>2. ASSUME NEW p \in Param, NEW v \in Value, SetParamSlot(p, v) PROVE TypeOK'
  <2>1. /\ cmdQueue' \in Seq(Command)
        /\ newest' \in [Carrying -> Value \cup {NoValue}]
        /\ slot' \in Todo
    BY <1>2, Vocabulary, PostType DEF SetParamSlot
  <2>2. QED
    BY <1>2, <2>1 DEF SetParamSlot, TypeOK
<1>3. ASSUME NEW c \in Void \cup {OffLeds}, VoidSlot(c) PROVE TypeOK'
  <2>1. /\ cmdQueue' \in Seq(Command)
        /\ newest' \in [Carrying -> Value \cup {NoValue}]
        /\ slot' \in Todo
    BY <1>3, Vocabulary, PostType DEF VoidSlot
  <2>2. QED
    BY <1>3, <2>1 DEF VoidSlot, TypeOK
<1>4. CASE SwitchOnLedsSlot
  <2>1. context[SetColors] \in Value \cup {NoValue}
    BY Vocabulary DEF TypeOK
  <2>2. slot' \in Todo
    BY <1>4, <2>1, Vocabulary, LeftType DEF SwitchOnLedsSlot, Stage, TypeOK
  <2>3. QED
    BY <1>4, <2>2 DEF SwitchOnLedsSlot, TypeOK
<1>5. CASE SendNow
  <2>1. slot.cmd \in Command /\ slot.value \in Value \cup {NoValue}
    BY DEF TypeOK, Todo
  <2>2. slot' \in Todo
    BY <1>5, LeftType DEF SendNow, Stage
  <2>3. toDevice' \in Seq(Signals)
    BY <1>5, <2>1, EmitType DEF SendNow, TypeOK
  <2>4. QED
    BY <1>5, <2>2, <2>3 DEF SendNow, StatusAfter, TypeOK
<1>6. CASE SlotEmits
  <2>1. slot.cmd \in Command /\ slot.value \in Value \cup {NoValue}
    BY DEF TypeOK, Todo
  <2>2. toDevice' \in Seq(Signals)
    BY <1>6, <2>1, EmitType DEF SlotEmits
  <2>3. QED
    BY <1>6, <2>2, LeftType DEF SlotEmits, TypeOK
<1>7. CASE BecomesIdle
  BY <1>7, LeftType DEF BecomesIdle, TypeOK
<1>8. CASE RunOff
  <2>1. cmdQueue # << >>
    BY <1>8 DEF RunOff, RunsTheFirst
  <2>2. QED
    BY <1>8, <2>1, TakeNextType, LeftType DEF RunOff, TypeOK
<1>9. QED
  BY <1>1, <1>2, <1>3, <1>4, <1>5, <1>6, <1>7, <1>8 DEF SlotGoesOn

(* The direct calls of the main thread keep the types.                     *)
LEMMA CallType ==
  ASSUME TypeOK, SwitchOffLedsCall \/ SwitchOnLedsCall \/ CallGoesOn
  PROVE  TypeOK'
<1>1. CASE SwitchOffLedsCall
  <2>1. call' \in Todo
    BY <1>1, LeftType DEF SwitchOffLedsCall, Stage, TypeOK
  <2>2. QED
    BY <1>1, <2>1 DEF SwitchOffLedsCall, TypeOK
<1>2. CASE SwitchOnLedsCall
  <2>1. call' \in Todo
    BY <1>2, LeftType DEF SwitchOnLedsCall, Stage
  <2>2. QED
    BY <1>2, <2>1 DEF SwitchOnLedsCall, TypeOK
<1>3. CASE CallAppends
  <2>1. Append(cmdQueue, OffLeds) \in Seq(Command)
    BY Vocabulary, AppendProperties DEF TypeOK
  <2>2. QED
    BY <1>3, <2>1, LeftType DEF CallAppends, TypeOK
<1>4. CASE CallClaims
  <2>1. call' \in Todo
    BY <1>4, LeftType DEF CallClaims, Stage
  <2>2. QED
    BY <1>4, <2>1 DEF CallClaims, TypeOK
<1>5. CASE CallSwitchesOff
  <2>1. call' \in Todo
    BY <1>5, LeftType DEF CallSwitchesOff, Stage
  <2>2. QED
    BY <1>5, <2>1 DEF CallSwitchesOff, TypeOK
<1>6. CASE CallReadsSaved
  <2>1. context[SetColors] \in Value \cup {NoValue}
    BY Vocabulary DEF TypeOK
  <2>2. call' \in Todo
    BY <1>6, <2>1, Vocabulary, LeftType DEF CallReadsSaved, Stage
  <2>3. QED
    BY <1>6, <2>2 DEF CallReadsSaved, TypeOK
<1>7. CASE CallEmits
  <2>1. call.cmd \in Command /\ call.value \in Value \cup {NoValue}
    BY DEF TypeOK, Todo
  <2>2. toDevice' \in Seq(Signals)
    BY <1>7, <2>1, EmitType DEF CallEmits
  <2>3. QED
    BY <1>7, <2>2, LeftType DEF CallEmits, TypeOK
<1>8. QED
  BY <1>1, <1>2, <1>3, <1>4, <1>5, <1>6, <1>7 DEF CallGoesOn

(* Every step keeps the variables of the manager, both event queues and    *)
(* both threads typed.                                                     *)
LEMMA NextType == TypeOK /\ RunsTheFirst /\ [Next]_vars => TypeOK'
<1> SUFFICES ASSUME TypeOK, RunsTheFirst, [Next]_vars PROVE TypeOK'
  OBVIOUS
<1>1. CASE \/ \E v \in Value : SetColorsSlot(v)
           \/ \E p \in Param, v \in Value : SetParamSlot(p, v)
           \/ \E c \in Void \cup {OffLeds} : VoidSlot(c)
           \/ SwitchOnLedsSlot \/ SlotGoesOn
  BY <1>1, SlotType
<1>2. CASE SwitchOffLedsCall \/ SwitchOnLedsCall \/ CallGoesOn
  BY <1>2, CallType
<1>3. CASE LedDeviceCommandCompleted
  <2>1. fromDevice' \in Seq(BOOLEAN)
    BY <1>3, HeadTailProperties DEF LedDeviceCommandCompleted, TypeOK
  <2>2. UNCHANGED <<context, call>> /\ (RunNext \/ Settle \/ Abandon)
    BY <1>3 DEF LedDeviceCommandCompleted
  <2>3. QED
    BY <2>1, <2>2, RunNextType, SettleType
<1>4. CASE LedDeviceCommandTimedOut
  BY <1>4, SettleType DEF LedDeviceCommandTimedOut, TypeOK
<1>5. CASE DeviceHandles
  <2>1. PICK oks \in Answers(Head(toDevice).cmd) : fromDevice' = fromDevice \o oks
    BY <1>5 DEF DeviceHandles
  <2>2. fromDevice' \in Seq(BOOLEAN)
    BY <2>1, RepliesType
  <2>3. toDevice' \in Seq(Signals)
    BY <1>5, HeadTailProperties DEF DeviceHandles, TypeOK
  <2>4. QED
    BY <1>5, <2>2, <2>3 DEF DeviceHandles, TypeOK
<1>6. CASE PingReopens
  <2>1. PICK oks \in Answers(Open) : fromDevice' = fromDevice \o oks
    BY <1>6 DEF PingReopens
  <2>2. fromDevice' \in Seq(BOOLEAN)
    BY <2>1, RepliesType
  <2>3. QED
    BY <1>6, <2>2 DEF PingReopens, TypeOK
<1>7. CASE UNCHANGED vars
  BY <1>7 DEF vars, TypeOK
<1>8. QED
  BY <1>1, <1>2, <1>3, <1>4, <1>5, <1>6, <1>7
     DEF Next, SlotGoesOn, CallGoesOn, SwitchOffLedsSlot

-----------------------------------------------------------------------------
(* The invariant of the dispatcher.  It is inductive together with TypeOK: *)
(* a post that finds the last command completed finds nothing in the queue *)
(* but a stranded command to switch off (OnlyOffIsStranded), so it sends   *)
(* its own argument and none that was saved earlier.                       *)

(* The dispatcher starts idle with an empty backlog.                       *)
LEMMA InitInv == Init => DispatcherInv
<1> SUFFICES ASSUME Init PROVE DispatcherInv
  OBVIOUS
<1>1. DOMAIN cmdQueue = {} /\ Queued = {}
  BY DEF Init, Queued
<1>2. BusyHasDeadline /\ RunsTheFirst
  BY DEF Init, Nothing, Left, BusyHasDeadline, RunsTheFirst
<1>3. OnlyOffIsStranded /\ NoDuplicates /\ DeferredIsSaved
  BY <1>1 DEF OnlyOffIsStranded, NoDuplicates, DeferredIsSaved
<1>4. QED
  BY <1>2, <1>3 DEF DispatcherInv

(* An answer to come in the queues stays to come while a signal is queued  *)
(* behind it, and the command to switch off, once emitted, is one.         *)
LEMMA AnswerStays ==
  ASSUME TypeOK, NEW c, NEW v, Emit(c, v), UNCHANGED fromDevice,
         \/ fromDevice # << >>
         \/ \E i \in DOMAIN toDevice : toDevice[i].cmd = OffLeds
         \/ c = OffLeds
  PROVE  AnswerToCome'
<1>1. CASE fromDevice # << >>
  BY <1>1 DEF AnswerToCome
<1>2. ASSUME NEW i \in DOMAIN toDevice, toDevice[i].cmd = OffLeds PROVE AnswerToCome'
  <2>1. i \in DOMAIN toDevice' /\ toDevice'[i] = toDevice[i]
    BY DEF Emit, TypeOK
  <2>2. QED
    BY <1>2, <2>1 DEF AnswerToCome
<1>3. CASE c = OffLeds
  <2> DEFINE n == Len(toDevice) + 1
  <2>1. n \in DOMAIN toDevice' /\ toDevice'[n] = Signal(c, v)
    BY DEF Emit, TypeOK
  <2>2. QED
    BY <1>3, <2>1 DEF AnswerToCome, Signal
<1>4. QED
  BY <1>1, <1>2, <1>3

(* A device that takes the command to switch off queues its completion.    *)
LEMMA AnswerComes ==
  ASSUME TypeOK, AnswerToCome, DeviceHandles
  PROVE  AnswerToCome'
<1>1. PICK oks \in Answers(Head(toDevice).cmd) : fromDevice' = fromDevice \o oks
  BY DEF DeviceHandles
<1>2. /\ fromDevice' \in Seq(BOOLEAN)
      /\ Len(fromDevice') = Len(fromDevice) + Len(oks)
      /\ Len(oks) \in Nat
      /\ Head(toDevice).cmd = OffLeds => Len(oks) > 0
  BY <1>1, RepliesType
<1>3. Len(fromDevice) \in Nat /\ (fromDevice # << >> => Len(fromDevice) > 0)
  BY EmptySeq, LenProperties DEF TypeOK
<1>4. ASSUME fromDevice # << >> \/ Head(toDevice).cmd = OffLeds PROVE AnswerToCome'
  <2>1. Len(fromDevice') > 0
    BY <1>2, <1>3, <1>4
  <2>2. fromDevice' # << >>
    BY <1>2, <2>1, EmptySeq
  <2>3. QED
    BY <2>2 DEF AnswerToCome
<1>5. CASE slot.at = "idle" \/ call.at = "off" \/ (call.at = "emit" /\ call.cmd = OffLeds)
  BY <1>5 DEF DeviceHandles, AnswerToCome
<1>6. ASSUME NEW i \in DOMAIN toDevice, toDevice[i].cmd = OffLeds PROVE AnswerToCome'
  <2>1. /\ toDevice # << >>
        /\ toDevice' = Tail(toDevice)
        /\ Head(toDevice) = toDevice[1]
        /\ i \in 1..Len(toDevice)
        /\ DOMAIN toDevice' = 1..(Len(toDevice) - 1)
        /\ \A j \in 1..(Len(toDevice) - 1) : toDevice'[j] = toDevice[j + 1]
        /\ Len(toDevice) \in Nat
    BY HeadTailProperties, LenProperties DEF DeviceHandles, TypeOK
  <2>2. CASE i = 1
    BY <1>4, <1>6, <2>1, <2>2
  <2>3. CASE i # 1
    <3>1. i - 1 \in DOMAIN toDevice' /\ toDevice'[i - 1] = toDevice[i]
      BY <2>1, <2>3
    <3>2. QED
      BY <1>6, <3>1 DEF AnswerToCome
  <2>4. QED
    BY <2>2, <2>3
<1>7. QED
  BY <1>4, <1>5, <1>6 DEF AnswerToCome

(* No step leaves a busy dispatcher without a deadline and without an      *)
(* answer to come: only the main thread puts the deadline out, and it goes *)
(* on to send the command to switch off, which every device answers.       *)
LEMMA DeadlineNext ==
  TypeOK /\ RunsTheFirst /\ BusyHasDeadline /\ [Next]_vars => BusyHasDeadline'
<1> SUFFICES ASSUME TypeOK, RunsTheFirst, BusyHasDeadline, [Next]_vars PROVE BusyHasDeadline'
  OBVIOUS
<1>1. CASE \/ \E v \in Value : SetColorsSlot(v)
           \/ \E p \in Param, v \in Value : SetParamSlot(p, v)
           \/ \E c \in Void \cup {OffLeds} : VoidSlot(c)
  <2>1. slot = Nothing /\ UNCHANGED <<ready, timer, toDevice, fromDevice, call>>
    BY <1>1 DEF SetColorsSlot, SetParamSlot, VoidSlot
  <2>2. slot.at # "idle"
    BY <2>1 DEF Nothing, Left
  <2>3. QED
    BY <2>1, <2>2 DEF BusyHasDeadline, AnswerToCome
<1>2. CASE SwitchOnLedsSlot
  <2>1. slot.at # "idle"
    BY <1>2 DEF SwitchOnLedsSlot, Nothing, Left
  <2>2. QED
    BY <1>2, <2>1 DEF SwitchOnLedsSlot, BusyHasDeadline, AnswerToCome
<1>3. CASE SendNow
  BY <1>3 DEF SendNow, BusyHasDeadline
<1>4. CASE SlotEmits
  <2>1. Emit(slot.cmd, slot.value) /\ UNCHANGED <<ready, timer, fromDevice, call>>
    BY <1>4 DEF SlotEmits
  <2>2. slot.at # "idle"
    BY <1>4 DEF SlotEmits
  <2>3. CASE call.at = "off" \/ (call.at = "emit" /\ call.cmd = OffLeds)
    BY <2>1, <2>3 DEF BusyHasDeadline, AnswerToCome
  <2>4. CASE fromDevice # << >> \/ \E i \in DOMAIN toDevice : toDevice[i].cmd = OffLeds
    BY <2>1, <2>4, AnswerStays DEF BusyHasDeadline
  <2>5. QED
    BY <2>1, <2>2, <2>3, <2>4 DEF BusyHasDeadline, AnswerToCome
<1>5. CASE RunOff
  <2>1. Emit(OffLeds, SavedArg(OffLeds)) /\ UNCHANGED fromDevice
    BY <1>5 DEF RunOff, RunsTheFirst, TakeNext
  <2>2. QED
    BY <2>1, AnswerStays DEF BusyHasDeadline
<1>6. CASE BecomesIdle
  BY <1>6 DEF BecomesIdle, BusyHasDeadline
<1>7. CASE LedDeviceCommandCompleted \/ LedDeviceCommandTimedOut
  <2>1. RunNext \/ Settle \/ Abandon
    BY <1>7 DEF LedDeviceCommandCompleted, LedDeviceCommandTimedOut
  <2>2. QED
    BY <2>1 DEF RunNext, Settle, Abandon, Left, BusyHasDeadline, AnswerToCome
<1>8. CASE SwitchOffLedsCall \/ SwitchOnLedsCall \/ CallAppends \/ CallReadsSaved
  BY <1>8 DEF SwitchOffLedsCall, SwitchOnLedsCall, CallAppends, CallReadsSaved, Nothing,
     Left, BusyHasDeadline, AnswerToCome
<1>9. CASE CallClaims \/ CallSwitchesOff
  BY <1>9 DEF CallClaims, CallSwitchesOff, Left, BusyHasDeadline, AnswerToCome
<1>10. CASE CallEmits
  <2>1. Emit(call.cmd, call.value) /\ UNCHANGED <<ready, timer, fromDevice, slot>>
    BY <1>10 DEF CallEmits
  <2>2. call.at # "off"
    BY <1>10 DEF CallEmits
  <2>3. CASE slot.at = "idle"
    BY <2>1, <2>3 DEF BusyHasDeadline, AnswerToCome
  <2>4. CASE \/ fromDevice # << >>
             \/ \E i \in DOMAIN toDevice : toDevice[i].cmd = OffLeds
             \/ call.cmd = OffLeds
    BY <2>1, <2>4, AnswerStays DEF BusyHasDeadline
  <2>5. QED
    BY <2>1, <2>2, <2>3, <2>4 DEF BusyHasDeadline, AnswerToCome
<1>11. CASE DeviceHandles
  BY <1>11, AnswerComes DEF DeviceHandles, BusyHasDeadline
<1>12. CASE PingReopens
  <2>1. PICK oks \in Answers(Open) : fromDevice' = fromDevice \o oks
    BY <1>12 DEF PingReopens
  <2>2. /\ fromDevice' \in Seq(BOOLEAN)
        /\ Len(fromDevice') = Len(fromDevice) + Len(oks) /\ Len(oks) \in Nat
    BY <2>1, RepliesType
  <2>3. fromDevice # << >> => Len(fromDevice) > 0
    BY EmptySeq, LenProperties DEF TypeOK
  <2>4. fromDevice # << >> => fromDevice' # << >>
    BY <2>2, <2>3, EmptySeq, LenProperties DEF TypeOK
  <2>5. QED
    BY <1>12, <2>4 DEF PingReopens, BusyHasDeadline, AnswerToCome
<1>13. CASE UNCHANGED vars
  BY <1>13 DEF vars, BusyHasDeadline, AnswerToCome
<1>14. QED
  BY <1>1, <1>2, <1>3, <1>4, <1>5, <1>6, <1>7, <1>8, <1>9, <1>10, <1>11, <1>12, <1>13
     DEF Next, SwitchOffLedsSlot

BacklogInv == OnlyOffIsStranded /\ NoDuplicates /\ DeferredIsSaved /\ RunsTheFirst

(* A step that leaves the queue alone, makes no busy dispatcher idle, saves *)
(* no argument of a command that waits and lets the main thread append     *)
(* only what it has missed in the queue.                                   *)
LEMMA SameBacklog ==
  ASSUME BacklogInv, UNCHANGED <<cmdQueue, newest>>,
         \A c \in Queued \cap Carrying : context'[c] = context[c],
         ready' \/ slot'.at = "idle" => ready \/ slot.at = "idle",
         call'.at = "append" => call.at = "append" \/ OffLeds \notin Queued,
         slot'.at = "runOff" =>
           slot.at = "runOff" \/ (cmdQueue # << >> /\ Head(cmdQueue) = OffLeds)
  PROVE  BacklogInv'
<1>1. Queued' = Queued
  BY DEF Queued
<1>2. OnlyOffIsStranded' /\ RunsTheFirst'
  BY <1>1 DEF BacklogInv, OnlyOffIsStranded, RunsTheFirst
<1>3. DeferredIsSaved'
  BY <1>1 DEF BacklogInv, DeferredIsSaved
<1>4. NoDuplicates'
  BY DEF BacklogInv, NoDuplicates, Queued
<1>5. QED
  BY <1>2, <1>3, <1>4 DEF BacklogInv

(* An empty queue has nothing to get wrong.                                *)
LEMMA EmptyBacklog ==
  ASSUME cmdQueue' = << >>, slot'.at # "runOff"
  PROVE  BacklogInv'
<1>1. DOMAIN cmdQueue' = {} /\ Queued' = {}
  BY DEF Queued
<1>2. QED
  BY <1>1 DEF BacklogInv, OnlyOffIsStranded, NoDuplicates, DeferredIsSaved, RunsTheFirst

(* A command is appended to the queue: one that is not in it, by a slot    *)
(* that found the dispatcher busy, with the argument it saves; or the one  *)
(* to switch off, by the main thread, whatever the queue now holds.        *)
LEMMA AppendBacklog ==
  ASSUME TypeOK, BacklogInv, NEW c \in Command, cmdQueue' = Append(cmdQueue, c),
         \/ /\ c \notin Queued /\ ~ready' /\ slot'.at # "idle"
            /\ UNCHANGED call
         \/ c = OffLeds /\ call.at = "append" /\ call'.at # "append",
         UNCHANGED <<ready, slot>>,
         \A d \in Carrying : d # c => context'[d] = context[d] /\ newest'[d] = newest[d],
         c \in Carrying => context'[c] = newest'[c] /\ newest'[c] # NoValue
  PROVE  BacklogInv'
<1>1. /\ Len(cmdQueue') = Len(cmdQueue) + 1
      /\ DOMAIN cmdQueue' = 1..(Len(cmdQueue) + 1)
      /\ DOMAIN cmdQueue = 1..Len(cmdQueue)
      /\ Len(cmdQueue) \in Nat
      /\ cmdQueue'[Len(cmdQueue) + 1] = c
      /\ \A i \in 1..Len(cmdQueue) : cmdQueue'[i] = cmdQueue[i]
  BY AppendProperties, LenProperties DEF TypeOK
<1>2. Queued' \subseteq Queued \cup {c}
  BY <1>1 DEF Queued
<1>3. OnlyOffIsStranded'
  BY <1>2 DEF BacklogInv, OnlyOffIsStranded
<1>4. DeferredIsSaved'
  BY <1>2 DEF BacklogInv, DeferredIsSaved
<1>5. NoDuplicates'
  <2>1. CASE c \notin Queued /\ UNCHANGED call
    <3>1. \A i \in 1..Len(cmdQueue) : cmdQueue[i] # c
      BY <1>1, <2>1 DEF Queued
    <3>2. QED
      BY <1>1, <2>1, <3>1 DEF BacklogInv, NoDuplicates
  <2>2. CASE c = OffLeds /\ call.at = "append" /\ call'.at # "append"
    <3>1. \A i, j \in 1..Len(cmdQueue) : cmdQueue[i] = cmdQueue[j] => i = j
      BY <1>1, <2>2 DEF BacklogInv, NoDuplicates
    <3>2. \A i, j \in DOMAIN cmdQueue' :
            cmdQueue'[i] = cmdQueue'[j] => i = j \/ (cmdQueue'[i] = OffLeds /\ call'.at # "append")
      BY <1>1, <2>2, <3>1
    <3>3. \A i, j, k \in DOMAIN cmdQueue' :
            cmdQueue'[i] = cmdQueue'[j] /\ cmdQueue'[j] = cmdQueue'[k]
              => i = j \/ j = k \/ i = k
      BY <1>1, <3>1
    <3>4. QED
      BY <3>2, <3>3 DEF NoDuplicates
  <2>3. QED
    BY <2>1, <2>2
<1>6. RunsTheFirst'
  <2>1. CASE slot.at = "runOff"
    <3>1. cmdQueue # << >> /\ Head(cmdQueue) = OffLeds
      BY <2>1 DEF BacklogInv, RunsTheFirst
    <3>2. Len(cmdQueue) > 0
      BY <3>1, EmptySeq, LenProperties DEF TypeOK
    <3>3. Head(cmdQueue) = cmdQueue[1] /\ 1 \in 1..Len(cmdQueue)
      BY <3>1, <3>2, HeadTailProperties, LenProperties DEF TypeOK
    <3>4. cmdQueue' # << >> /\ cmdQueue' \in Seq(Command)
      BY <1>1, <3>2, EmptySeq, AppendProperties DEF TypeOK
    <3>5. Head(cmdQueue') = cmdQueue'[1]
      BY <3>4, HeadTailProperties
    <3>6. QED
      BY <1>1, <3>1, <3>3, <3>4, <3>5 DEF RunsTheFirst
  <2>2. QED
    BY <2>1 DEF RunsTheFirst
<1>7. QED
  BY <1>3, <1>4, <1>5, <1>6 DEF BacklogInv

(* The first command leaves the queue, with the history of its argument.   *)
LEMMA TakeBacklog ==
  ASSUME TypeOK, BacklogInv, cmdQueue # << >>, TakeNext, UNCHANGED <<context, call>>,
         slot'.at \notin {"idle", "runOff"}
  PROVE  BacklogInv'
<1>1. /\ Len(cmdQueue) \in Nat
      /\ DOMAIN cmdQueue = 1..Len(cmdQueue)
      /\ DOMAIN cmdQueue' = 1..(Len(cmdQueue) - 1)
      /\ \A i \in 1..(Len(cmdQueue) - 1) : cmdQueue'[i] = cmdQueue[i + 1]
      /\ Head(cmdQueue) = cmdQueue[1]
      /\ 1 \in DOMAIN cmdQueue
  <2>1. Len(cmdQueue) > 0
    BY EmptySeq, LenProperties DEF TypeOK
  <2>2. QED
    BY <2>1, HeadTailProperties, LenProperties DEF TakeNext, TypeOK
<1>2. NoDuplicates'
  <2>1. \A i, j \in DOMAIN cmdQueue' : cmdQueue'[i] = cmdQueue'[j] =>
          i = j \/ (cmdQueue'[i] = OffLeds /\ call'.at # "append")
    BY <1>1 DEF BacklogInv, NoDuplicates
  <2>2. ASSUME NEW i \in DOMAIN cmdQueue', NEW j \in DOMAIN cmdQueue', NEW k \in DOMAIN cmdQueue',
               cmdQueue'[i] = cmdQueue'[j], cmdQueue'[j] = cmdQueue'[k]
        PROVE  i = j \/ j = k \/ i = k
    <3>1. /\ i + 1 \in DOMAIN cmdQueue /\ j + 1 \in DOMAIN cmdQueue /\ k + 1 \in DOMAIN cmdQueue
          /\ cmdQueue[i + 1] = cmdQueue[j + 1] /\ cmdQueue[j + 1] = cmdQueue[k + 1]
      BY <1>1, <2>2
    <3>2. i + 1 = j + 1 \/ j + 1 = k + 1 \/ i + 1 = k + 1
      BY <3>1 DEF BacklogInv, NoDuplicates
    <3>3. QED
      BY <1>1, <3>2
  <2>3. QED
    BY <2>1, <2>2 DEF NoDuplicates
<1>3. Queued' \subseteq Queued
  BY <1>1 DEF Queued
<1>4. Head(cmdQueue) \in Carrying => Head(cmdQueue) \notin Queued'
  <2>1. Head(cmdQueue) \in Carrying => Head(cmdQueue) # OffLeds
    BY Vocabulary
  <2>2. QED
    BY <1>1, <2>1 DEF Queued, BacklogInv, NoDuplicates
<1>5. DeferredIsSaved'
  BY <1>3, <1>4 DEF TakeNext, BacklogInv, DeferredIsSaved
<1>6. OnlyOffIsStranded' /\ RunsTheFirst'
  BY DEF TakeNext, OnlyOffIsStranded, RunsTheFirst
<1>7. QED
  BY <1>2, <1>5, <1>6 DEF BacklogInv

(* A post by a slot: what it sends at once it need not save, since nothing *)
(* of its kind waits; what it queues it has saved.                         *)
LEMMA PostBacklog ==
  ASSUME TypeOK, BacklogInv, slot = Nothing, NEW c \in Command, NEW v, Post(c, v),
         UNCHANGED <<ready, call>>,
         \A d \in Carrying : d # c => context'[d] = context[d],
         ~ready /\ c \in Carrying => context'[c] = v /\ v # NoValue
  PROVE  BacklogInv'
<1>0. slot.at = "nothing"
  BY DEF Nothing, Left
<1>1. CASE PostNow(c, v)
  <2>1. \A d \in Queued \cap Carrying : d # c
    BY <1>1, Vocabulary DEF PostNow, BacklogInv, OnlyOffIsStranded
  <2>2. slot'.at = "send"
    BY <1>1 DEF PostNow, Left
  <2>3. /\ UNCHANGED <<cmdQueue, newest>>
        /\ \A d \in Queued \cap Carrying : context'[d] = context[d]
        /\ ready' \/ slot'.at = "idle" => ready \/ slot.at = "idle"
        /\ call'.at = "append" => call.at = "append" \/ OffLeds \notin Queued
        /\ slot'.at # "runOff"
    BY <1>1, <2>1, <2>2 DEF PostNow
  <2>4. QED
    BY <2>3, SameBacklog
<1>2. CASE PostLater(c, v)
  <2>1. \A d \in Carrying : newest'[d] = IF d = c THEN v ELSE newest[d]
    BY <1>2 DEF PostLater, TypeOK
  <2>2. ~ready /\ slot' = slot
    BY <1>2 DEF PostLater
  <2>3. CASE c \in Queued
    <3>1. cmdQueue' = cmdQueue /\ Queued' = Queued
      BY <1>2, <2>3 DEF PostLater, Queued
    <3>2. DeferredIsSaved'
      BY <2>1, <2>2, <3>1 DEF BacklogInv, DeferredIsSaved
    <3>3. NoDuplicates' /\ OnlyOffIsStranded' /\ RunsTheFirst'
      BY <2>2, <3>1 DEF BacklogInv, NoDuplicates, OnlyOffIsStranded, RunsTheFirst
    <3>4. QED
      BY <3>2, <3>3 DEF BacklogInv
  <2>4. CASE c \notin Queued
    <3>1. cmdQueue' = Append(cmdQueue, c)
      BY <1>2, <2>4 DEF PostLater
    <3>2. \A d \in Carrying : d # c => context'[d] = context[d] /\ newest'[d] = newest[d]
      BY <2>1
    <3>3. c \in Carrying => context'[c] = newest'[c] /\ newest'[c] # NoValue
      BY <2>1, <2>2
    <3>4. /\ ~ready' /\ slot'.at # "idle"
          /\ UNCHANGED <<ready, slot, call>>
      BY <1>0, <2>2
    <3>5. QED
      BY <2>4, <3>1, <3>2, <3>3, <3>4, AppendBacklog
  <2>5. QED
    BY <2>3, <2>4
<1>3. QED
  BY <1>1, <1>2 DEF Post

(* Every step of the manager, of its callers and of the device keeps the   *)
(* backlog in order.                                                       *)
LEMMA BacklogNext == TypeOK /\ BacklogInv /\ [Next]_vars => BacklogInv'
<1> SUFFICES ASSUME TypeOK, BacklogInv, [Next]_vars PROVE BacklogInv'
  OBVIOUS
<1>1. ASSUME NEW v \in Value, SetColorsSlot(v) PROVE BacklogInv'
  <2>1. /\ SetColors \in Command /\ SetColors \in Carrying /\ v # NoValue
        /\ slot = Nothing /\ Post(SetColors, v) /\ UNCHANGED <<ready, call>>
        /\ context' = [context EXCEPT ![SetColors] = v]
    BY <1>1, Vocabulary DEF SetColorsSlot
  <2>2. /\ \A d \in Carrying : d # SetColors => context'[d] = context[d]
        /\ context'[SetColors] = v
    BY <2>1 DEF TypeOK
  <2>3. QED
    BY <2>1, <2>2, PostBacklog
<1>2. ASSUME NEW p \in Param, NEW v \in Value, SetParamSlot(p, v) PROVE BacklogInv'
  <2>1. /\ p \in Command /\ p \in Carrying /\ v # NoValue
        /\ slot = Nothing /\ Post(p, v) /\ UNCHANGED <<ready, call>>
        /\ context' = IF ready THEN context ELSE [context EXCEPT ![p] = v]
    BY <1>2, Vocabulary DEF SetParamSlot
  <2>2. /\ \A d \in Carrying : d # p => context'[d] = context[d]
        /\ ~ready => context'[p] = v
    BY <2>1 DEF TypeOK
  <2>3. QED
    BY <2>1, <2>2, PostBacklog
<1>3. ASSUME NEW c \in Void \cup {OffLeds}, VoidSlot(c) PROVE BacklogInv'
  <2>1. /\ c \in Command /\ c \notin Carrying
        /\ slot = Nothing /\ Post(c, NoValue) /\ UNCHANGED <<ready, call, context>>
    BY <1>3, Vocabulary DEF VoidSlot
  <2>2. QED
    BY <2>1, PostBacklog
<1>4. CASE SwitchOnLedsSlot \/ SendNow \/ SlotEmits
  <2>1. UNCHANGED <<cmdQueue, newest, context, call>>
    BY <1>4 DEF SwitchOnLedsSlot, SendNow, SlotEmits
  <2>2. slot'.at \in {"nothing", "emit"} /\ (ready' => ready)
    BY <1>4 DEF SwitchOnLedsSlot, SendNow, SlotEmits, Nothing, Left
  <2>3. QED
    BY <2>1, <2>2, SameBacklog
<1>5. CASE BecomesIdle
  <2>1. slot.at = "idle" /\ slot'.at = "nothing" /\ UNCHANGED <<cmdQueue, newest, context, call>>
    BY <1>5 DEF BecomesIdle, Nothing, Left
  <2>2. QED
    BY <2>1, SameBacklog
<1>6. CASE RunOff
  <2>1. cmdQueue # << >> /\ TakeNext /\ UNCHANGED <<context, call>> /\ slot'.at = "nothing"
    BY <1>6 DEF RunOff, BacklogInv, RunsTheFirst, Nothing, Left
  <2>2. QED
    BY <2>1, TakeBacklog
<1>7. CASE LedDeviceCommandCompleted \/ LedDeviceCommandTimedOut
  <2>0. slot.at = "nothing" /\ UNCHANGED <<context, call>>
    <3>1. slot = Nothing /\ UNCHANGED <<context, call>>
      BY <1>7 DEF LedDeviceCommandCompleted, LedDeviceCommandTimedOut
    <3>2. QED
      BY <3>1 DEF Nothing, Left
  <2>1. CASE RunNext /\ Head(cmdQueue) = OffLeds
    <3>1. slot'.at = "runOff" /\ cmdQueue # << >> /\ UNCHANGED <<ready, cmdQueue, newest>>
      BY <2>1 DEF RunNext, Left
    <3>2. QED
      BY <2>0, <2>1, <3>1, SameBacklog
  <2>2. CASE RunNext /\ Head(cmdQueue) # OffLeds
    <3>1. slot'.at = "nothing" /\ cmdQueue # << >> /\ TakeNext
      BY <2>0, <2>2 DEF RunNext
    <3>2. QED
      BY <2>0, <3>1, TakeBacklog
  <2>3. CASE Settle \/ Abandon
    <3>1. cmdQueue' = << >> /\ slot'.at = "idle"
      BY <2>3 DEF Settle, Abandon, Left
    <3>2. QED
      BY <3>1, EmptyBacklog
  <2>4. QED
    BY <1>7, <2>1, <2>2, <2>3 DEF LedDeviceCommandCompleted, LedDeviceCommandTimedOut
<1>8. CASE SwitchOffLedsCall
  <2>1. UNCHANGED <<ready, cmdQueue, newest, context, slot>>
    BY <1>8 DEF SwitchOffLedsCall
  <2>2. call'.at = "append" => call.at = "append" \/ OffLeds \notin Queued
    BY <1>8 DEF SwitchOffLedsCall, Left
  <2>3. QED
    BY <2>1, <2>2, SameBacklog
<1>9. CASE CallAppends
  <2>1. /\ cmdQueue' = Append(cmdQueue, OffLeds) /\ call.at = "append" /\ call'.at # "append"
        /\ UNCHANGED <<ready, slot, context, newest>>
    BY <1>9 DEF CallAppends, Nothing, Left
  <2>2. OffLeds \in Command /\ OffLeds \notin Carrying
    BY Vocabulary
  <2>3. QED
    BY <2>1, <2>2, AppendBacklog
<1>10. CASE SwitchOnLedsCall \/ CallClaims \/ CallSwitchesOff \/ CallReadsSaved \/ CallEmits
  <2>1. UNCHANGED <<cmdQueue, newest, context, slot>> /\ (ready' => ready)
    BY <1>10 DEF SwitchOnLedsCall, CallClaims, CallSwitchesOff, CallReadsSaved, CallEmits
  <2>2. call'.at # "append"
    BY <1>10 DEF SwitchOnLedsCall, CallClaims, CallSwitchesOff, CallReadsSaved, CallEmits,
       Nothing, Left
  <2>3. QED
    BY <2>1, <2>2, SameBacklog
<1>11. CASE DeviceHandles \/ PingReopens \/ UNCHANGED vars
  <2>1. UNCHANGED <<ready, cmdQueue, newest, context, slot, call>>
    BY <1>11 DEF DeviceHandles, PingReopens, vars
  <2>2. QED
    BY <2>1, SameBacklog
<1>12. QED
  BY <1>1, <1>2, <1>3, <1>4, <1>5, <1>6, <1>7, <1>8, <1>9, <1>10, <1>11
     DEF Next, SwitchOffLedsSlot

IInv == TypeOK /\ DispatcherInv

(* Types and invariant of the dispatcher are inductive together.           *)
LEMMA Inductive == SafeSpec => []IInv
<1>1. Init => IInv
  <2> SUFFICES ASSUME Init PROVE TypeOK
    BY InitInv DEF IInv
  <2>1. QED
    BY GreetingType, EmptySeq, LeftType DEF Init, TypeOK
<1>2. IInv /\ [Next]_vars => IInv'
  <2> SUFFICES ASSUME IInv, [Next]_vars PROVE IInv'
    OBVIOUS
  <2>1. TypeOK /\ BusyHasDeadline /\ RunsTheFirst /\ BacklogInv
    BY DEF IInv, DispatcherInv, BacklogInv
  <2>2. TypeOK'
    BY <2>1, NextType
  <2>3. BusyHasDeadline'
    BY <2>1, DeadlineNext
  <2>4. BacklogInv'
    BY <2>1, BacklogNext
  <2>5. QED
    BY <2>2, <2>3, <2>4 DEF IInv, DispatcherInv, BacklogInv
<1>3. QED
  BY <1>1, <1>2, PTL DEF SafeSpec

(* The variables of the manager, both event queues and the two threads     *)
(* keep their types.                                                       *)
THEOREM TypeCorrect == SafeSpec => []TypeOK
<1>1. IInv => TypeOK
  BY DEF IInv
<1>2. QED
  BY <1>1, Inductive, PTL

(* With the main thread calling in unlocked, between any two accesses of   *)
(* the dispatcher to its state: it never waits without a deadline or an    *)
(* answer to come, strands no command but the one to switch off, queues    *)
(* that one at most twice and each other kind once, and never runs a       *)
(* command whose argument was not saved (LedDeviceManager.cpp:141-224).    *)
THEOREM DispatcherCorrect == SafeSpec => []DispatcherInv
<1>1. IInv => DispatcherInv
  BY DEF IInv
<1>2. QED
  BY <1>1, Inductive, PTL

-----------------------------------------------------------------------------
(* The refinement of CommandChannel *)

Waiters == [cmd : Command, value : Value \cup {NoValue}]

(* The argument a command was posted with last is a value, or none.          *)
LEMMA NewestArgType ==
  ASSUME TypeOK, NEW c \in Command
  PROVE  NewestArg(c) \in Value \cup {NoValue}
BY DEF NewestArg, TypeOK

(* The channel's queue is as long as that of the runners.                    *)
LEMMA WaitingIsSeq ==
  ASSUME TypeOK
  PROVE  /\ WaitingCommands \in Seq(Waiters)
         /\ Len(WaitingCommands) = Len(cmdQueue)
         /\ DOMAIN WaitingCommands = 1..Len(cmdQueue)
         /\ DOMAIN cmdQueue = 1..Len(cmdQueue)
         /\ Len(cmdQueue) \in Nat
<1>1. Len(cmdQueue) \in Nat /\ DOMAIN cmdQueue = 1..Len(cmdQueue)
  BY LenProperties DEF TypeOK
<1>2. \A i \in 1..Len(cmdQueue) : WaitingCommands[i] \in Waiters
  <2> SUFFICES ASSUME NEW i \in 1..Len(cmdQueue) PROVE WaitingCommands[i] \in Waiters
    OBVIOUS
  <2>1. cmdQueue[i] \in Command
    BY ElementOfSeq DEF TypeOK
  <2>2. NewestArg(cmdQueue[i]) \in Value \cup {NoValue}
    BY <2>1, NewestArgType
  <2>3. QED
    BY <1>1, <2>1, <2>2 DEF WaitingCommands, Waiters
<1>3. WaitingCommands \in [1..Len(cmdQueue) -> Waiters]
  BY <1>1, <1>2 DEF WaitingCommands
<1>4. WaitingCommands \in Seq(Waiters)
  BY <1>1, <1>3, SeqDef
<1>5. QED
  BY <1>1, <1>3, <1>4, LenProperties

(* Without runners nothing waits in the channel.                             *)
LEMMA NothingWaits == cmdQueue = << >> => WaitingCommands = << >>
BY DEF WaitingCommands

(* The same after a step.                                                    *)
LEMMA NothingWaitsNext == cmdQueue' = << >> => WaitingCommands' = << >>
BY DEF WaitingCommands

(* Channel and manager have the same commands and arguments.               *)
LEMMA SameCommand ==
  /\ Channel!Command = Command
  /\ Channel!SetColors = SetColors
  /\ Channel!OffLeds = OffLeds
  /\ \A c : Channel!ArgOf(c) = ArgOf(c)
  /\ \A c, v : Channel!Signal(c, v) = Signal(c, v)
BY DEF Channel!Command, Command, Channel!Carrying, Carrying, SetColors,
   Channel!SetColors, OffLeds, Channel!OffLeds, Channel!ArgOf, ArgOf, Channel!Signal, Signal

(* Both send the device they connect to the same greeting.                 *)
LEMMA SameGreeting == Channel!Greeting = Greeting
BY DEF Greeting, Channel!Greeting, Signal, Channel!Signal, UpdateSettings,
   Channel!UpdateSettings, Open, Channel!Open

(* The channel's queue changes only with the runners or the newest         *)
(* arguments.                                                              *)
LEMMA SameWaiting == UNCHANGED <<cmdQueue, newest>> => UNCHANGED WaitingCommands
BY DEF WaitingCommands, NewestArg

(* What a slot or a call is about to send has an argument of its command.  *)
SentOK(todo) ==
  /\ todo.at = "send" => todo.value \in ArgOf(todo.cmd)
  /\ todo.at = "emit" => \/ todo.cmd = SetColors /\ todo.value \in Value
                         \/ todo.cmd = OffLeds /\ todo.value = NoValue

SendsRight == SentOK(slot) /\ SentOK(call)

(* Stages other than these two send nothing by themselves.                 *)
LEMMA SentLeft ==
  /\ SentOK(Nothing)
  /\ \A at, c, v : at \notin {"send", "emit"} => SentOK(Left(at, c, v))
  /\ \A c : \A v \in ArgOf(c) : SentOK(Left("send", c, v))
  /\ \A v \in Value : SentOK(Left("emit", SetColors, v))
  /\ SentOK(Left("emit", OffLeds, NoValue))
BY DEF SentOK, Nothing, Left

(* It stays so in every step.                                              *)
LEMMA SendsRightNext == TypeOK /\ SendsRight /\ [Next]_vars => SendsRight'
<1> SUFFICES ASSUME TypeOK, SendsRight, [Next]_vars PROVE SendsRight'
  OBVIOUS
<1>1. ASSUME NEW c, NEW v \in ArgOf(c), Post(c, v), UNCHANGED call PROVE SendsRight'
  BY <1>1, SentLeft DEF Post, PostNow, PostLater, SendsRight
<1>2. ASSUME NEW v \in Value, SetColorsSlot(v) PROVE SendsRight'
  <2>1. v \in ArgOf(SetColors)
    BY DEF ArgOf, Carrying
  <2>2. QED
    BY <1>1, <1>2, <2>1 DEF SetColorsSlot
<1>3. ASSUME NEW p \in Param, NEW v \in Value, SetParamSlot(p, v) PROVE SendsRight'
  <2>1. v \in ArgOf(p)
    BY DEF ArgOf, Carrying
  <2>2. QED
    BY <1>1, <1>3, <2>1 DEF SetParamSlot
<1>4. ASSUME NEW c \in Void \cup {OffLeds}, VoidSlot(c) PROVE SendsRight'
  <2>1. NoValue \in ArgOf(c)
    BY Vocabulary DEF ArgOf
  <2>2. QED
    BY <1>1, <1>4, <2>1 DEF VoidSlot
<1>5. ASSUME context[SetColors] # NoValue PROVE context[SetColors] \in Value
  BY <1>5, Vocabulary DEF TypeOK
<1>6. CASE SwitchOnLedsSlot
  BY <1>5, <1>6, SentLeft DEF SwitchOnLedsSlot, SendsRight
<1>7. CASE SendNow \/ SlotEmits \/ RunOff \/ BecomesIdle
  BY <1>7, SentLeft DEF SendNow, SlotEmits, RunOff, BecomesIdle, SendsRight
<1>8. CASE LedDeviceCommandCompleted \/ LedDeviceCommandTimedOut
  <2>1. UNCHANGED call /\ (RunNext \/ Settle \/ Abandon)
    BY <1>8 DEF LedDeviceCommandCompleted, LedDeviceCommandTimedOut
  <2>2. slot' = slot \/ slot' = Left("runOff", OffLeds, NoValue) \/ slot' = Left("idle", OffLeds, NoValue)
    BY <2>1 DEF RunNext, Settle, Abandon
  <2>3. QED
    BY <2>1, <2>2, SentLeft DEF SendsRight
<1>9. CASE SwitchOffLedsCall \/ SwitchOnLedsCall
  BY <1>9, SentLeft DEF SwitchOffLedsCall, SwitchOnLedsCall, SendsRight
<1>10. CASE CallAppends \/ CallClaims \/ CallSwitchesOff \/ CallEmits
  BY <1>10, SentLeft DEF CallAppends, CallClaims, CallSwitchesOff, CallEmits, SendsRight
<1>11. CASE CallReadsSaved
  BY <1>5, <1>11, SentLeft DEF CallReadsSaved, SendsRight
<1>12. CASE DeviceHandles \/ PingReopens \/ UNCHANGED vars
  BY <1>12 DEF DeviceHandles, PingReopens, vars, SendsRight
<1>13. QED
  BY <1>2, <1>3, <1>4, <1>6, <1>7, <1>8, <1>9, <1>10, <1>11, <1>12
     DEF Next, SwitchOffLedsSlot

(* A command without argument that is appended waits last.                 *)
LEMMA AppendWaits ==
  ASSUME TypeOK, cmdQueue' = Append(cmdQueue, OffLeds), UNCHANGED newest
  PROVE  WaitingCommands' = Append(WaitingCommands, [cmd |-> OffLeds, value |-> NoValue])
<1> DEFINE entry == [cmd |-> OffLeds, value |-> NoValue]
<1>1. /\ Len(cmdQueue) \in Nat
      /\ DOMAIN cmdQueue = 1..Len(cmdQueue)
      /\ DOMAIN cmdQueue' = 1..(Len(cmdQueue) + 1)
      /\ \A i \in 1..Len(cmdQueue) : cmdQueue'[i] = cmdQueue[i]
      /\ cmdQueue'[Len(cmdQueue) + 1] = OffLeds
  BY AppendProperties, LenProperties DEF TypeOK
<1>2. \A k : NewestArg(k)' = NewestArg(k)
  BY DEF NewestArg
<1>3. NewestArg(OffLeds) = NoValue
  BY Vocabulary DEF NewestArg
<1>4. \A i \in 1..Len(cmdQueue) : WaitingCommands'[i] = WaitingCommands[i]
  BY <1>1, <1>2 DEF WaitingCommands
<1>5. WaitingCommands'[Len(cmdQueue) + 1] = entry
  BY <1>1, <1>2, <1>3 DEF WaitingCommands
<1>6. entry \in Waiters
  BY Vocabulary DEF Waiters
<1>7. DOMAIN WaitingCommands' = 1..(Len(cmdQueue) + 1)
  BY <1>1 DEF WaitingCommands
<1> HIDE DEF entry
<1>8. /\ Append(WaitingCommands, entry) \in Seq(Waiters)
      /\ Len(Append(WaitingCommands, entry)) = Len(cmdQueue) + 1
      /\ \A i \in 1..Len(cmdQueue) : Append(WaitingCommands, entry)[i] = WaitingCommands[i]
      /\ Append(WaitingCommands, entry)[Len(cmdQueue) + 1] = entry
  BY <1>6, WaitingIsSeq, AppendProperties
<1>9. \A i \in 1..(Len(cmdQueue) + 1) :
        WaitingCommands'[i] = Append(WaitingCommands, entry)[i]
  BY <1>1, <1>4, <1>5, <1>8
<1>10. \A i \in 1..(Len(cmdQueue) + 1) : Append(WaitingCommands, entry)[i] \in Waiters
  BY <1>8, ElementOfSeq
<1>11. WaitingCommands' \in [1..(Len(cmdQueue) + 1) -> Waiters]
  BY <1>7, <1>9, <1>10 DEF WaitingCommands
<1>12. WaitingCommands' \in Seq(Waiters) /\ Len(WaitingCommands') = Len(cmdQueue) + 1
  BY <1>1, <1>7, <1>11, SeqDef, LenProperties
<1>13. WaitingCommands' = Append(WaitingCommands, entry)
  BY <1>8, <1>9, <1>12, SeqEqual
<1>14. QED
  BY <1>13 DEF entry

(* A command posted on a busy dispatcher waits with its new argument, and  *)
(* nothing else that waits changes.                                        *)
LEMMA PostLaterStep ==
  ASSUME TypeOK, NEW c \in Command, NEW v \in ArgOf(c), slot = Nothing,
         PostLater(c, v), UNCHANGED <<ready, toDevice>>
  PROVE  Channel!Next
<1> DEFINE entry == [cmd |-> c, value |-> v]
<1>1. NewestArg(c)' = v
  BY DEF NewestArg, PostLater, ArgOf, TypeOK
<1>2. \A k \in Command : k # c => NewestArg(k)' = NewestArg(k)
  BY DEF NewestArg, PostLater, TypeOK
<1>3. /\ DOMAIN cmdQueue = 1..Len(cmdQueue)
      /\ Len(cmdQueue) \in Nat
      /\ \A i \in 1..Len(cmdQueue) : cmdQueue[i] \in Command
  BY LenProperties, ElementOfSeq DEF TypeOK
<1>4. Channel!Waiting(c) <=> c \in Queued
  BY DEF Channel!Waiting, WaitingCommands, Queued
<1>5. WaitingCommands' = IF Channel!Waiting(c) THEN Channel!Replace(c, v)
                                               ELSE Append(WaitingCommands, entry)
  <2>1. CASE c \in Queued
    <3>1. cmdQueue' = cmdQueue
      BY <2>1 DEF PostLater
    <3>2. WaitingCommands' = Channel!Replace(c, v)
      BY <1>1, <1>2, <1>3, <3>1 DEF WaitingCommands, Channel!Replace
    <3>3. QED
      BY <1>4, <2>1, <3>2
  <2>2. CASE c \notin Queued
    <3>1. /\ cmdQueue' = Append(cmdQueue, c)
          /\ \A i \in 1..Len(cmdQueue) : cmdQueue[i] # c
      BY <1>3, <2>2 DEF PostLater, Queued
    <3>2. /\ DOMAIN cmdQueue' = 1..(Len(cmdQueue) + 1)
          /\ \A i \in 1..Len(cmdQueue) : cmdQueue'[i] = cmdQueue[i]
          /\ cmdQueue'[Len(cmdQueue) + 1] = c
      BY <3>1, AppendProperties, LenProperties DEF TypeOK
    <3>3. \A i \in 1..Len(cmdQueue) : WaitingCommands'[i] = WaitingCommands[i]
      BY <1>2, <1>3, <3>1, <3>2 DEF WaitingCommands
    <3>4. WaitingCommands'[Len(cmdQueue) + 1] = entry
      BY <1>1, <1>3, <3>2 DEF WaitingCommands
    <3>5. DOMAIN WaitingCommands' = 1..(Len(cmdQueue) + 1)
      BY <3>2 DEF WaitingCommands
    <3>6. entry \in Waiters
      BY DEF Waiters, ArgOf
    <3>7. /\ Append(WaitingCommands, entry) \in Seq(Waiters)
          /\ Len(Append(WaitingCommands, entry)) = Len(cmdQueue) + 1
          /\ \A i \in 1..Len(cmdQueue) :
               Append(WaitingCommands, entry)[i] = WaitingCommands[i]
          /\ Append(WaitingCommands, entry)[Len(cmdQueue) + 1] = entry
      <4> HIDE DEF entry
      <4>1. QED
        BY <3>6, WaitingIsSeq, AppendProperties
    <3>8. WaitingCommands' \in [1..(Len(cmdQueue) + 1) -> Waiters]
      <4>1. \A i \in 1..(Len(cmdQueue) + 1) : WaitingCommands'[i] \in Waiters
        <5> SUFFICES ASSUME NEW i \in 1..(Len(cmdQueue) + 1)
                     PROVE  WaitingCommands'[i] \in Waiters
          OBVIOUS
        <5>1. CASE i \in 1..Len(cmdQueue)
          BY <3>3, <5>1, WaitingIsSeq, ElementOfSeq
        <5>2. CASE i = Len(cmdQueue) + 1
          BY <3>4, <3>6, <5>2
        <5>3. QED
          BY <1>3, <5>1, <5>2
      <4>2. QED
        BY <3>5, <4>1 DEF WaitingCommands
    <3>9. WaitingCommands' \in Seq(Waiters) /\ Len(WaitingCommands') = Len(cmdQueue) + 1
      BY <1>3, <3>5, <3>8, SeqDef, LenProperties
    <3>10. WaitingCommands' = Append(WaitingCommands, entry)
      <4> HIDE DEF entry
      <4>1. \A i \in 1..(Len(cmdQueue) + 1) :
              WaitingCommands'[i] = Append(WaitingCommands, entry)[i]
        BY <1>3, <3>3, <3>4, <3>7
      <4>2. QED
        BY <3>7, <3>9, <4>1, SeqEqual
    <3>11. QED
      BY <1>4, <2>2, <3>10
  <2>3. QED
    BY <2>1, <2>2
<1>6. Channel!Wait(c, v)
  <2>1. slot.at # "send" /\ ~ready /\ UNCHANGED <<ready, slot, toDevice>>
    BY DEF PostLater, Nothing, Left
  <2>2. QED
    BY <1>5, <2>1 DEF Channel!Wait
<1>7. v \in Channel!ArgOf(c)
  BY DEF ArgOf, Channel!ArgOf, Carrying, Channel!Carrying, SetColors, Channel!SetColors
<1>8. QED
  BY <1>6, <1>7, SameCommand DEF Channel!Post, Channel!Next

(* The runner at the head of the queue sends the command that waits first. *)
LEMMA TakeNextStep ==
  ASSUME TypeOK, DispatcherInv, cmdQueue # << >>, TakeNext, slot'.at # "send"
  PROVE  Channel!SendNext
<1>1. /\ DOMAIN cmdQueue = 1..Len(cmdQueue)
      /\ Len(cmdQueue) \in Nat
      /\ cmdQueue # << >>
      /\ cmdQueue' = Tail(cmdQueue)
  BY LenProperties DEF TakeNext, TypeOK
<1>2. /\ Head(cmdQueue) = cmdQueue[1]
      /\ Len(cmdQueue) # 0
      /\ Len(cmdQueue') = Len(cmdQueue) - 1
      /\ DOMAIN cmdQueue' = 1..(Len(cmdQueue) - 1)
      /\ \A i \in 1..(Len(cmdQueue) - 1) : cmdQueue'[i] = cmdQueue[i + 1]
  BY <1>1, HeadTailProperties, LenProperties, EmptySeq DEF TypeOK
<1>3. WaitingCommands # << >>
  BY <1>1, <1>2, WaitingIsSeq, EmptySeq
<1>4. Head(WaitingCommands) = [cmd |-> Head(cmdQueue), value |-> SavedArg(Head(cmdQueue))]
  <2>0. SavedArg(Head(cmdQueue)) = NewestArg(Head(cmdQueue))
    <3>1. Head(cmdQueue) \in Queued
      BY <1>1, <1>2 DEF Queued
    <3>2. QED
      BY <3>1 DEF SavedArg, NewestArg, DispatcherInv, DeferredIsSaved
  <2>1. Head(WaitingCommands) = WaitingCommands[1]
    BY <1>3, WaitingIsSeq, HeadTailProperties
  <2>2. 1 \in DOMAIN cmdQueue
    BY <1>1, <1>2
  <2>3. QED
    BY <1>2, <2>0, <2>1, <2>2 DEF WaitingCommands
<1>5. WaitingCommands' = Tail(WaitingCommands)
  <2>0. /\ \A k : k # Head(cmdQueue) => NewestArg(k)' = NewestArg(k)
        /\ NewestArg(OffLeds)' = NewestArg(OffLeds)
    BY Vocabulary DEF NewestArg, TakeNext
  <2>1. \A i \in 1..(Len(cmdQueue) - 1) : cmdQueue[i + 1] # Head(cmdQueue) \/ cmdQueue[i + 1] = OffLeds
    BY <1>1, <1>2 DEF DispatcherInv, NoDuplicates
  <2>2. /\ Tail(WaitingCommands) \in Seq(Waiters)
        /\ Len(Tail(WaitingCommands)) = Len(cmdQueue) - 1
        /\ \A i \in 1..(Len(cmdQueue) - 1) :
             Tail(WaitingCommands)[i] = WaitingCommands[i + 1]
    BY <1>3, WaitingIsSeq, HeadTailProperties
  <2>3. \A i \in 1..(Len(cmdQueue) - 1) : WaitingCommands'[i] = WaitingCommands[i + 1]
    BY <1>1, <1>2, <2>0, <2>1 DEF WaitingCommands
  <2>4. \A i \in 1..(Len(cmdQueue) - 1) : WaitingCommands'[i] \in Waiters
    BY <1>1, <2>3, WaitingIsSeq, ElementOfSeq
  <2>5. WaitingCommands' \in [1..(Len(cmdQueue) - 1) -> Waiters]
    BY <1>2, <2>4 DEF WaitingCommands
  <2>6. /\ WaitingCommands' \in Seq(Waiters)
        /\ Len(WaitingCommands') = Len(cmdQueue) - 1
    <3>1. Len(cmdQueue) - 1 \in Nat
      BY <1>1, <1>2
    <3>2. WaitingCommands' \in Seq(Waiters)
      BY <2>5, <3>1, SeqDef
    <3>3. DOMAIN WaitingCommands' = 1..(Len(cmdQueue) - 1)
      BY <2>5
    <3>4. QED
      BY <3>1, <3>2, <3>3, LenProperties
  <2>7. QED
    BY <2>2, <2>3, <2>6, SeqEqual
<1>6. QED
  BY <1>3, <1>4, <1>5 DEF TakeNext, Emit, Channel!SendNext, Signal, Channel!Signal

(* A frame resent, or the command to switch off, goes out past the queue.  *)
LEMMA BypassStep ==
  ASSUME NEW todo, SentOK(todo), todo.at = "emit", Emit(todo.cmd, todo.value),
         UNCHANGED <<cmdQueue, newest>>,
         (~ready' /\ slot'.at # "send") = (~ready /\ slot.at # "send")
  PROVE  Channel!Next
<1>1. UNCHANGED WaitingCommands
  BY SameWaiting
<1>2. Channel!Bypass(todo.cmd, todo.value)
  BY <1>1, SameCommand DEF Channel!Bypass, Emit
<1>3. QED
  BY <1>2, SameCommand DEF SentOK, Channel!Next

(* The initial states of the manager are initial states of the channel.    *)
LEMMA ChannelInit == Init => Channel!Init
<1> SUFFICES ASSUME Init PROVE Channel!Init
  OBVIOUS
<1>1. WaitingCommands = << >>
  BY NothingWaits DEF Init
<1>2. QED
  BY <1>1, SameGreeting DEF Init, Channel!Init

(* Every step of the manager, of the main thread and of the device is a    *)
(* step of the channel, or none.                                           *)
LEMMA ChannelNext ==
  ASSUME TypeOK, DispatcherInv, SendsRight, [Next]_vars
  PROVE  [Channel!Next]_(Channel!channelVars)
<1> DEFINE Goal == Channel!Next \/ UNCHANGED Channel!channelVars
<1>0. ASSUME UNCHANGED <<cmdQueue, newest, toDevice>>,
             (~ready' /\ slot'.at # "send") = (~ready /\ slot.at # "send")
      PROVE  Goal
  BY <1>0, SameWaiting DEF Channel!channelVars
<1>1. ASSUME NEW c \in Command, NEW v \in ArgOf(c), slot = Nothing, Post(c, v),
             UNCHANGED <<ready, toDevice>>
      PROVE  Goal
  <2>1. CASE PostNow(c, v)
    BY <1>0, <1>1, <2>1 DEF PostNow
  <2>2. CASE PostLater(c, v)
    BY <1>1, <2>2, PostLaterStep
  <2>3. QED
    BY <1>1, <2>1, <2>2 DEF Post
<1>2. ASSUME NEW v \in Value, SetColorsSlot(v) PROVE Goal
  <2>1. v \in ArgOf(SetColors)
    BY Vocabulary DEF ArgOf
  <2>2. QED
    BY <1>1, <1>2, <2>1, Vocabulary DEF SetColorsSlot
<1>3. ASSUME NEW p \in Param, NEW v \in Value, SetParamSlot(p, v) PROVE Goal
  <2>1. p \in Command /\ v \in ArgOf(p)
    BY Vocabulary DEF ArgOf
  <2>2. QED
    BY <1>1, <1>3, <2>1 DEF SetParamSlot
<1>4. ASSUME NEW c \in Void \cup {OffLeds}, VoidSlot(c) PROVE Goal
  <2>1. c \in Command /\ NoValue \in ArgOf(c)
    BY Vocabulary DEF ArgOf
  <2>2. QED
    BY <1>1, <1>4, <2>1 DEF VoidSlot
<1>5. CASE SwitchOnLedsSlot
  <2>1. slot.at = "nothing" /\ slot'.at # "send"
    BY <1>5 DEF SwitchOnLedsSlot, Nothing, Left
  <2>2. QED
    BY <1>0, <1>5, <2>1 DEF SwitchOnLedsSlot
<1>6. CASE SendNow
  <2>1. UNCHANGED WaitingCommands
    BY <1>6, SameWaiting DEF SendNow
  <2>2. slot.at = "send" /\ ~ready' /\ slot'.at # "send"
    BY <1>6 DEF SendNow, Nothing, Left
  <2>3. CASE slot.cmd = OffLeds
    <3>1. toDevice' = toDevice
      BY <1>6, <2>3 DEF SendNow
    <3>2. Channel!ClaimOutside
      BY <2>1, <2>2, <3>1 DEF Channel!ClaimOutside
    <3>3. QED
      BY <3>2 DEF Channel!Next
  <2>4. CASE slot.cmd # OffLeds
    <3>1. Emit(slot.cmd, slot.value)
      BY <1>6, <2>4 DEF SendNow
    <3>2. slot.cmd \in Command /\ slot.value \in ArgOf(slot.cmd)
      BY <2>2 DEF TypeOK, Todo, SendsRight, SentOK
    <3>3. Channel!SendAtOnce(slot.cmd, slot.value)
      BY <2>1, <2>2, <3>1, SameCommand DEF Channel!SendAtOnce, Emit
    <3>4. QED
      BY <3>2, <3>3, SameCommand DEF Channel!Post, Channel!Next
  <2>5. QED
    BY <2>3, <2>4
<1>7. CASE SlotEmits
  <2>1. /\ slot.at = "emit" /\ Emit(slot.cmd, slot.value)
        /\ UNCHANGED <<ready, cmdQueue, newest>> /\ slot'.at = "nothing"
    BY <1>7 DEF SlotEmits, Nothing, Left
  <2>2. QED
    BY <2>1, BypassStep DEF SendsRight
<1>8. CASE RunOff
  <2>1. cmdQueue # << >> /\ TakeNext /\ slot'.at = "nothing"
    BY <1>8 DEF RunOff, DispatcherInv, RunsTheFirst, Nothing, Left
  <2>2. QED
    BY <2>1, TakeNextStep DEF Channel!Next
<1>9. CASE BecomesIdle
  <2>1. UNCHANGED WaitingCommands /\ toDevice' = toDevice /\ ready'
    BY <1>9, SameWaiting DEF BecomesIdle
  <2>2. \A i \in DOMAIN WaitingCommands : WaitingCommands[i].cmd = OffLeds
    BY <1>9 DEF BecomesIdle, DispatcherInv, OnlyOffIsStranded, Queued, WaitingCommands
  <2>3. Channel!Settle
    BY <2>1, <2>2, SameCommand DEF Channel!Settle
  <2>4. QED
    BY <2>3 DEF Channel!Next
<1>10. CASE LedDeviceCommandCompleted \/ LedDeviceCommandTimedOut
  <2>1. slot = Nothing
    BY <1>10 DEF LedDeviceCommandCompleted, LedDeviceCommandTimedOut
  <2>2. slot.at = "nothing"
    BY <2>1 DEF Nothing, Left
  <2>3. CASE RunNext /\ Head(cmdQueue) # OffLeds
    BY <2>2, <2>3, TakeNextStep DEF RunNext, Channel!Next
  <2>4. CASE (RunNext /\ Head(cmdQueue) = OffLeds) \/ Settle
    <3>1. UNCHANGED <<ready, cmdQueue, newest, toDevice>> /\ slot'.at # "send"
      BY <2>4 DEF RunNext, Settle, Left
    <3>2. QED
      BY <1>0, <2>2, <3>1
  <2>5. CASE Abandon
    <3>1. UNCHANGED <<ready, toDevice>> /\ cmdQueue' = << >> /\ slot'.at # "send"
      BY <2>5 DEF Abandon, Left
    <3>2. Channel!GiveUp
      BY <2>2, <3>1, NothingWaitsNext DEF Channel!GiveUp
    <3>3. QED
      BY <3>2 DEF Channel!Next
  <2>6. QED
    BY <1>10, <2>3, <2>4, <2>5 DEF LedDeviceCommandCompleted, LedDeviceCommandTimedOut
<1>11. CASE SwitchOffLedsCall \/ SwitchOnLedsCall \/ CallSwitchesOff \/ CallReadsSaved \/ PingReopens
  <2>1. UNCHANGED <<ready, cmdQueue, newest, toDevice, slot>>
    BY <1>11 DEF SwitchOffLedsCall, SwitchOnLedsCall, CallSwitchesOff, CallReadsSaved, PingReopens
  <2>2. QED
    BY <1>0, <2>1
<1>12. CASE CallAppends
  <2>1. UNCHANGED <<ready, slot, toDevice>>
    BY <1>12 DEF CallAppends
  <2>2. WaitingCommands' = Append(WaitingCommands, [cmd |-> OffLeds, value |-> NoValue])
    BY <1>12, AppendWaits DEF CallAppends
  <2>3. Channel!WaitOutside
    BY <2>1, <2>2, SameCommand DEF Channel!WaitOutside
  <2>4. QED
    BY <2>3 DEF Channel!Next
<1>13. CASE CallClaims
  <2>1. UNCHANGED <<cmdQueue, newest, toDevice, slot>> /\ ~ready'
    BY <1>13 DEF CallClaims
  <2>2. CASE slot.at = "send"
    BY <1>0, <2>1, <2>2
  <2>3. CASE slot.at # "send"
    BY <2>1, <2>3, SameWaiting DEF Channel!ClaimOutside, Channel!Next
  <2>4. QED
    BY <2>2, <2>3
<1>14. CASE CallEmits
  <2>1. /\ call.at = "emit" /\ Emit(call.cmd, call.value)
        /\ UNCHANGED <<ready, cmdQueue, newest, slot>>
    BY <1>14 DEF CallEmits
  <2>2. QED
    BY <2>1, BypassStep DEF SendsRight
<1>15. CASE DeviceHandles
  <2>1. UNCHANGED WaitingCommands /\ UNCHANGED <<ready, slot>>
    BY <1>15, SameWaiting DEF DeviceHandles
  <2>2. Channel!Take
    BY <1>15, <2>1 DEF DeviceHandles, Channel!Take
  <2>3. QED
    BY <2>2 DEF Channel!Next
<1>16. CASE UNCHANGED vars
  BY <1>0, <1>16 DEF vars
<1>17. QED
  BY <1>2, <1>3, <1>4, <1>5, <1>6, <1>7, <1>8, <1>9, <1>10, <1>11, <1>12, <1>13, <1>14,
     <1>15, <1>16 DEF Next, SwitchOffLedsSlot

(* The dispatcher keeps the promise of the channel: coalescing loses no    *)
(* argument but an overwritten one, reorders nothing, and every command    *)
(* sent is the one that waited longest with its newest argument, while the *)
(* main thread may claim the dispatcher, send past its queue and append to *)
(* it between any two of its steps.                                        *)
THEOREM DispatcherImplementsChannel == SafeSpec => ChannelSafe
<1>1. Init => SendsRight
  BY SentLeft DEF Init, SendsRight
<1>2. IInv /\ SendsRight /\ [Next]_vars => SendsRight'
  BY SendsRightNext DEF IInv
<1>3. IInv /\ SendsRight /\ [Next]_vars => [Channel!Next]_(Channel!channelVars)
  BY ChannelNext DEF IInv
<1>4. QED
  BY <1>1, <1>2, <1>3, ChannelInit, Inductive, PTL
     DEF SafeSpec, ChannelSafe, Channel!SafeSpec
=============================================================================
