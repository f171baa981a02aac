--------------------- MODULE LightpackApplication_proofs ---------------------
(* What is proved of the sources of colours, for every set of colours and    *)
(* every bound of the queues: the types, the timer of the mood lamp, and     *)
(* that capture is never lost.                                               *)
EXTENDS LightpackApplication, SequenceTheorems, TLAPS

Event  == {"attempt", "grabber", "locked", "unlocked"}
Posted == Frame \cup {"off", "on"}

-----------------------------------------------------------------------------
(* The two queues *)

(* Queueing an event keeps the queue of the main thread typed.               *)
LEMMA PostType ==
  ASSUME TypeOK, NEW e \in Event, Post(e)
  PROVE  events' \in Seq(Event)
BY AppendProperties DEF Post, TypeOK, Event

(* Sending a frame keeps the queue of the manager's thread typed.            *)
LEMMA EmitType ==
  ASSUME TypeOK, NEW f \in Posted, Emit(f)
  PROVE  frames' \in Seq(Posted)
BY AppendProperties DEF Emit, TypeOK, Posted

(* The main thread takes an event from its queue in its loop only.           *)
LEMMA HandleType ==
  ASSUME TypeOK, NEW e, Handle(e)
  PROVE  events' \in Seq(Event) /\ main = "loop"
BY HeadTailProperties DEF Handle, Idle, TypeOK, Event

(* The manager's thread takes a frame and leaves the rest of its queue.      *)
LEMMA TakenType ==
  ASSUME TypeOK, frames # << >>, frames' = Tail(frames)
  PROVE  frames' \in Seq(Posted) /\ Head(frames) \in Posted
BY HeadTailProperties DEF TypeOK, Posted

-----------------------------------------------------------------------------
(* The two sources keep their types whoever starts and stops them.           *)

(* updateColors of the lamp notes and sends a colour.                        *)
LEMMA UpdateType ==
  ASSUME TypeOK, NEW rgb \in Color, UpdateColors(rgb)
  PROVE  frames' \in Seq(Posted) /\ rgbSaved' \in Color \cup {"none"}
<1>1. rgb \in Posted
  BY DEF Posted, Frame
<1>2. QED
  BY <1>1, EmitType DEF UpdateColors, TypeOK, Posted

(* The colours a lamp may show are colours.                                  *)
LEMMA RgbType == TypeOK => Rgb \subseteq Color
BY DEF TypeOK, Rgb

(* Starting or stopping the lamp keeps its members and the queue of frames   *)
(* typed.                                                                    *)
LEMMA LampStartType ==
  ASSUME TypeOK, NEW enabled \in BOOLEAN, LampStart(enabled)
  PROVE  /\ {lampOn', lampTimer', liquid'} \subseteq BOOLEAN
         /\ color' \in Color /\ rgbSaved' \in Color \cup {"none"}
         /\ frames' \in Seq(Posted)
<1>1. CASE enabled
  <2>1. PICK rgb \in Rgb : Emit(rgb) /\ rgbSaved' = rgb /\ lampTimer' = (lampTimer \/ liquid)
    BY <1>1 DEF LampStart
  <2>2. rgb \in Color /\ rgb \in Posted
    BY RgbType DEF Posted, Frame
  <2>3. QED
    BY <1>1, <2>1, <2>2, EmitType DEF LampStart, TypeOK
<1>2. CASE ~enabled
  BY <1>2 DEF LampStart, TypeOK, Posted
<1>3. QED
  BY <1>1, <1>2

(* startBacklight keeps the sources typed and goes on to the switch.         *)
LEMMA StartSourcesType ==
  ASSUME TypeOK, NEW isOn \in BOOLEAN, NEW isLocked \in BOOLEAN, NEW m \in Modes,
         StartSources(isOn, isLocked, m)
  PROVE  /\ {grabbing', hooked', lampOn', lampTimer', liquid'} \subseteq BOOLEAN
         /\ color' \in Color /\ rgbSaved' \in Color \cup {"none"}
         /\ frames' \in Seq(Posted)
         /\ main' = "switch"
<1>1. (isOn /\ ~isLocked /\ m = "MoodLamp") \in BOOLEAN
  OBVIOUS
<1>2. QED
  BY <1>1, LampStartType DEF StartSources, GrabStart, TypeOK

-----------------------------------------------------------------------------
(* Type correctness *)

(* The application starts well typed.                                        *)
LEMMA InitType == Init => TypeOK
<1> SUFFICES ASSUME Init PROVE TypeOK
  OBVIOUS
<1>1. frames \in Seq(Frame \cup {"off", "on"}) /\ events \in Seq(Event)
  <2>1. color \in Frame \cup {"off", "on"}
    BY DEF Init, Frame
  <2>2. << >> \in Seq(Frame \cup {"off", "on"}) /\ << >> \in Seq(Event)
    BY EmptySeq
  <2>3. <<color>> \in Seq(Frame \cup {"off", "on"})
    BY <2>1
  <2>4. QED
    BY <2>2, <2>3 DEF Init
<1>2. QED
  BY <1>1 DEF Init, TypeOK, Modes, Frame, Event

(* The manager's thread keeps the types.                                     *)
LEMMA ManagerType == ASSUME TypeOK, Manager PROVE TypeOK'
<1>1. CASE TakeFrame
  BY <1>1, TakenType DEF TakeFrame, settings, status, api, capture, lamp, TypeOK, Posted
<1>2. CASE SendFrame
  BY <1>2 DEF SendFrame, settings, status, api, capture, lamp, TypeOK
<1>3. CASE SwitchOffLedsSlot
  BY <1>3, TakenType DEF SwitchOffLedsSlot, SwitchOff, settings, status, api, capture, lamp,
     TypeOK, Posted
<1>4. CASE SwitchOnLedsSlot
  BY <1>4, TakenType DEF SwitchOnLedsSlot, settings, status, api, capture, lamp, TypeOK, Posted
<1>5. QED
  BY <1>1, <1>2, <1>3, <1>4 DEF Manager

(* The events of the main thread keep the types.                             *)
LEMMA HandleEventType == ASSUME TypeOK, HandleEvent PROVE TypeOK'
<1>1. CASE OnFrameGrabAttempted
  <2>1. frames' \in Seq(Posted)
    BY <1>1, EmitType DEF OnFrameGrabAttempted, TypeOK, Posted, Frame
  <2>2. QED
    BY <1>1, <2>1, HandleType
       DEF OnFrameGrabAttempted, settings, status, capture, lamp, manager, TypeOK, Event, Posted
<1>2. CASE OnGrabberTypeChanged
  BY <1>2, HandleType
     DEF OnGrabberTypeChanged, settings, status, lamp, manager, TypeOK, Event
<1>3. CASE SetDeviceLockViaAPI
  <2>1. (Head(events) = "locked") \in BOOLEAN /\ backlight \in BOOLEAN /\ mode \in Modes
    BY DEF TypeOK
  <2>2. StartSources(backlight, Head(events) = "locked", mode)
    BY <1>3 DEF SetDeviceLockViaAPI
  <2>3. /\ {grabbing', hooked', lampOn', lampTimer', liquid'} \subseteq BOOLEAN
        /\ color' \in Color /\ rgbSaved' \in Color \cup {"none"}
        /\ frames' \in Seq(Posted)
        /\ main' = "switch"
    BY <2>1, <2>2, StartSourcesType
  <2>4. events' \in Seq(Event)
    BY <1>3, HandleType DEF SetDeviceLockViaAPI
  <2>5. QED
    BY <1>3, <2>1, <2>3, <2>4
       DEF SetDeviceLockViaAPI, settings, manager, TypeOK, Event, Posted
<1>4. QED
  BY <1>1, <1>2, <1>3 DEF HandleEvent

(* The direct calls of the manager from the main thread keep the types.      *)
LEMMA SwitchType == ASSUME TypeOK, SwitchLights \/ RestoreColors PROVE TypeOK'
<1>1. CASE SwitchLights
  BY <1>1 DEF SwitchLights, SwitchOff, settings, api, capture, lamp, TypeOK, Frame
<1>2. CASE RestoreColors
  BY <1>2 DEF RestoreColors, settings, api, capture, lamp, manager, TypeOK
<1>3. QED
  BY <1>1, <1>2

(* The user, the clients and the games keep the types.                       *)
LEMMA UserType == ASSUME TypeOK, User PROVE TypeOK'
<1>1. CASE SetStatusChanged
  <2>1. PICK isOn \in BOOLEAN : backlight' = isOn /\ StartSources(isOn, lock, mode)
    BY <1>1 DEF SetStatusChanged
  <2>2. /\ {grabbing', hooked', lampOn', lampTimer', liquid'} \subseteq BOOLEAN
        /\ color' \in Color /\ rgbSaved' \in Color \cup {"none"}
        /\ frames' \in Seq(Posted)
        /\ main' = "switch"
    BY <2>1, StartSourcesType DEF TypeOK
  <2>3. QED
    BY <1>1, <2>1, <2>2 DEF SetStatusChanged, settings, api, manager, TypeOK, Posted
<1>2. CASE LightpackModeChanged
  <2>1. PICK m \in Modes : mode' = m /\ StartSources(backlight, lock, m)
    BY <1>2 DEF LightpackModeChanged
  <2>2. /\ {grabbing', hooked', lampOn', lampTimer', liquid'} \subseteq BOOLEAN
        /\ color' \in Color /\ rgbSaved' \in Color \cup {"none"}
        /\ frames' \in Seq(Posted)
        /\ main' = "switch"
    BY <2>1, StartSourcesType DEF TypeOK
  <2>3. QED
    BY <1>2, <2>1, <2>2 DEF LightpackModeChanged, api, manager, TypeOK, Posted
<1>3. CASE SetMoodLampColor
  <2>1. PICK c \in Color : color' = c /\ (Emit(c) \/ UNCHANGED frames)
    BY <1>3 DEF SetMoodLampColor
  <2>2. frames' \in Seq(Posted)
    BY <2>1, EmitType DEF TypeOK, Posted, Frame
  <2>3. QED
    BY <1>3, <2>1, <2>2 DEF SetMoodLampColor, settings, status, api, capture, manager, TypeOK,
       Posted
<1>4. CASE SetMoodLampLiquidMode
  <2>1. UpdateColors(color) \/ UNCHANGED <<frames, rgbSaved>>
    BY <1>4 DEF SetMoodLampLiquidMode
  <2>2. frames' \in Seq(Posted) /\ rgbSaved' \in Color \cup {"none"}
    BY <2>1, UpdateType DEF TypeOK, Posted
  <2>3. QED
    BY <1>4, <2>2 DEF SetMoodLampLiquidMode, settings, status, api, capture, manager, TypeOK,
       Posted
<1>5. CASE ChooseGrabber
  BY <1>5, PostType DEF ChooseGrabber, status, capture, lamp, manager, TypeOK, Event
<1>6. CASE SessionChange
  BY <1>6, EmitType DEF SessionChange, settings, status, api, capture, lamp, manager, TypeOK,
     Posted
<1>7. QED
  BY <1>1, <1>2, <1>3, <1>4, <1>5, <1>6 DEF User

(* The grabbers' and the lamp's timers and the return from a game keep the   *)
(* types.                                                                    *)
LEMMA TimersType == ASSUME TypeOK, Timers PROVE TypeOK'
<1>1. CASE Grab
  BY <1>1, PostType DEF Grab, settings, status, capture, lamp, manager, TypeOK, Event
<1>2. CASE LampTick
  <2>1. PICK rgb \in Rgb : UpdateColors(rgb)
    BY <1>2 DEF LampTick
  <2>2. frames' \in Seq(Posted) /\ rgbSaved' \in Color \cup {"none"}
    BY <2>1, RgbType, UpdateType
  <2>3. QED
    BY <1>2, <2>2 DEF LampTick, settings, status, api, capture, manager, TypeOK, Posted
<1>3. CASE HandleIfFrameGrabbed
  BY <1>3 DEF HandleIfFrameGrabbed, settings, status, api, lamp, manager, TypeOK
<1>4. QED
  BY <1>1, <1>2, <1>3 DEF Timers

(* The threads keep the types of all they share, with queues of any length.  *)
THEOREM TypeCorrect == Spec => []TypeOK
<1>1. TypeOK /\ [Next]_vars => TypeOK'
  <2> SUFFICES ASSUME TypeOK, [Next]_vars PROVE TypeOK'
    OBVIOUS
  <2>1. CASE HookedFrame
    BY <2>1 DEF HookedFrame, settings, status, api, lamp, manager, TypeOK
  <2>2. CASE TellLockStatus
    BY <2>2, PostType DEF TellLockStatus, settings, status, capture, lamp, manager, TypeOK, Event
  <2>3. CASE ClientSetsColors
    BY <2>3, EmitType DEF ClientSetsColors, settings, status, api, capture, lamp, manager,
       TypeOK, Posted, Frame
  <2>4. CASE ProcessOffLeds
    BY <2>4 DEF ProcessOffLeds, settings, status, api, capture, lamp, TypeOK
  <2>5. CASE UNCHANGED vars
    BY <2>5 DEF vars, settings, status, api, capture, lamp, manager, TypeOK
  <2>6. QED
    BY <2>1, <2>2, <2>3, <2>4, <2>5, ManagerType, HandleEventType, SwitchType, UserType, TimersType
       DEF Next
<1>2. QED
  BY InitType, <1>1, PTL DEF Spec

-----------------------------------------------------------------------------
(* The sources.  LampTicks is inductive.  NeverBlind is so once it is said   *)
(* of every place of the main thread: startBacklight starts the sources      *)
(* before it leaves its event loop, and no other step takes a grabber away   *)
(* without putting the other one in its place.                               *)

SomeGrabber == backlight /\ ~lock /\ mode = "Ambilight" => grabbing \/ hooked

SourcesInv == LampTicks /\ SomeGrabber

(* startBacklight leaves a ticking lamp and a working grabber where they are *)
(* due.                                                                      *)
LEMMA StartSourcesInv ==
  ASSUME TypeOK, LampTicks, NEW isOn \in BOOLEAN, NEW isLocked \in BOOLEAN, NEW m \in Modes,
         StartSources(isOn, isLocked, m), backlight' = isOn, lock' = isLocked, mode' = m
  PROVE  SourcesInv'
<1>1. LampTicks'
  BY DEF StartSources, LampStart, LampTicks, TypeOK
<1>2. SomeGrabber'
  BY DEF StartSources, GrabStart, SomeGrabber
<1>3. QED
  BY <1>1, <1>2 DEF SourcesInv

(* Every step of the three threads keeps SourcesInv.                         *)
LEMMA SourcesNext == TypeOK /\ SourcesInv /\ [Next]_vars => SourcesInv'
<1> SUFFICES ASSUME TypeOK, SourcesInv, [Next]_vars PROVE SourcesInv'
  OBVIOUS
<1>0. LampTicks /\ SomeGrabber
  BY DEF SourcesInv
<1>1. ASSUME UNCHANGED <<capture, lampOn, lampTimer, liquid, backlight, lock, mode>>
      PROVE  SourcesInv'
  BY <1>1 DEF SourcesInv, LampTicks, SomeGrabber, capture
<1>2. CASE SetStatusChanged
  <2>1. PICK isOn \in BOOLEAN : backlight' = isOn /\ StartSources(isOn, lock, mode)
    BY <1>2 DEF SetStatusChanged
  <2>2. UNCHANGED <<lock, mode>>
    BY <1>2 DEF SetStatusChanged, settings
  <2>3. QED
    BY <1>0, <2>1, <2>2, StartSourcesInv DEF TypeOK
<1>3. CASE LightpackModeChanged
  <2>1. PICK m \in Modes : mode' = m /\ StartSources(backlight, lock, m)
    BY <1>3 DEF LightpackModeChanged
  <2>2. UNCHANGED <<lock, backlight>>
    BY <1>3 DEF LightpackModeChanged
  <2>3. QED
    BY <1>0, <2>1, <2>2, StartSourcesInv DEF TypeOK
<1>4. CASE SetDeviceLockViaAPI
  <2>1. lock' \in BOOLEAN /\ StartSources(backlight, lock', mode)
    BY <1>4 DEF SetDeviceLockViaAPI
  <2>2. UNCHANGED <<mode, backlight>>
    BY <1>4 DEF SetDeviceLockViaAPI, settings
  <2>3. QED
    BY <1>0, <2>1, <2>2, StartSourcesInv DEF TypeOK
<1>5. CASE LampTick
  <2>1. /\ UNCHANGED <<capture, lampOn, liquid, backlight, lock, mode>>
        /\ lampTimer' = (lampOn /\ liquid)
    BY <1>5 DEF LampTick, settings, status
  <2>2. QED
    BY <1>0, <2>1 DEF SourcesInv, LampTicks, SomeGrabber, capture
<1>6. CASE SetMoodLampLiquidMode
  <2>1. /\ UNCHANGED <<capture, lampOn, backlight, lock, mode>>
        /\ liquid' = ~liquid
        /\ lampTimer' = (lampOn /\ ~liquid)
    BY <1>6 DEF SetMoodLampLiquidMode, settings, status
  <2>2. QED
    BY <1>0, <2>1 DEF SourcesInv, LampTicks, SomeGrabber, capture
<1>7. CASE HookedFrame
  BY <1>0, <1>7 DEF HookedFrame, settings, status, lamp, SourcesInv, LampTicks, SomeGrabber
<1>8. CASE HandleIfFrameGrabbed
  BY <1>0, <1>8 DEF HandleIfFrameGrabbed, settings, status, lamp, SourcesInv, LampTicks,
     SomeGrabber
<1>9. CASE OnGrabberTypeChanged
  <2>1. grabbing \/ hooked => grabbing' \/ hooked'
    BY <1>9 DEF OnGrabberTypeChanged, TypeOK
  <2>2. UNCHANGED <<lamp, backlight, lock, mode>>
    BY <1>9 DEF OnGrabberTypeChanged, settings, status
  <2>3. QED
    BY <1>0, <2>1, <2>2 DEF lamp, SourcesInv, LampTicks, SomeGrabber
<1>10. CASE SetMoodLampColor
  BY <1>1, <1>10 DEF SetMoodLampColor, settings, status, lamp
<1>11. CASE Manager \/ OnFrameGrabAttempted \/ SessionChange \/ Grab \/ TellLockStatus
            \/ ClientSetsColors \/ ProcessOffLeds
  BY <1>1, <1>11 DEF Manager, TakeFrame, SendFrame, SwitchOffLedsSlot, SwitchOnLedsSlot,
     ProcessOffLeds, OnFrameGrabAttempted, SessionChange, Grab, TellLockStatus, ClientSetsColors, settings,
     status, lamp
<1>12. CASE SwitchLights \/ RestoreColors \/ ChooseGrabber
  BY <1>1, <1>12 DEF SwitchLights, RestoreColors, ChooseGrabber, settings, status, lamp
<1>13. CASE UNCHANGED vars
  BY <1>1, <1>13 DEF vars, settings, status, lamp
<1>14. QED
  BY <1>2, <1>3, <1>4, <1>5, <1>6, <1>7, <1>8, <1>9, <1>10, <1>11, <1>12, <1>13
     DEF Next, HandleEvent, User, Timers

(* SourcesInv holds in every reachable state.                                *)
LEMMA SourcesAlways == Spec => []SourcesInv
<1>1. Init => SourcesInv
  BY DEF Init, SourcesInv, LampTicks, SomeGrabber
<1>2. QED
  BY <1>1, SourcesNext, TypeCorrect, PTL DEF Spec

(* The timer of the liquid lamp runs exactly while the lamp is on and        *)
(* liquid, after every order of switches, locks, modes and its own ticks.    *)
THEOREM LampAlwaysTicks == Spec => []LampTicks
<1>1. SourcesInv => LampTicks
  BY DEF SourcesInv
<1>2. QED
  BY <1>1, SourcesAlways, PTL

(* Some grabber works whenever the lights are on, free for capture and in    *)
(* that mode, whoever took over from whom before.                            *)
THEOREM CaptureNeverLost == Spec => []NeverBlind
<1>1. SourcesInv => NeverBlind
  BY DEF SourcesInv, SomeGrabber, NeverBlind
<1>2. QED
  BY <1>1, SourcesAlways, PTL
=============================================================================
