------------------------ MODULE LightpackApplication ------------------------
(* The main thread as the source of colours: LightpackApplication decides    *)
(* whether GrabManager or MoodLampManager runs, from the status of the       *)
(* lights, the lock of the API and the mode, and tells LedDeviceManager to   *)
(* switch the lights (LightpackApplication.cpp, GrabManager.cpp,             *)
(* MoodLampManager.cpp, D3D10Grabber.cpp, ui/SettingsWindow.cpp).            *)
(*                                                                           *)
(* Three threads take part: the main thread, the API thread, which posts the *)
(* status of the lock to it, and the thread of LedDeviceManager, which gets  *)
(* frames as queued events but is switched by direct calls.  A frame is      *)
(* named by what it shows.  This module ends where the manager has accepted  *)
(* a frame and saved it; what its dispatcher then does with it, sends it,    *)
(* has it wait or loses it, is the subject of LedDeviceManager.  From there  *)
(* comes what a switch-off may do here: change the status at once, later, or *)
(* never.                                                                    *)
(* Whether a frame is sent although it shows what the last one did is a      *)
(* setting the user may change at any time, so either may happen.            *)
EXTENDS Naturals, Sequences

CONSTANTS
  Color,      \* the colours of the mood lamp
  MaxEvents,  \* bound: events posted to the main thread and not yet handled
  MaxFrames   \* bound: events posted to the manager and not yet handled

ASSUME LightpackApplicationAssumption ==
  /\ {"screen", "client", "none", "off", "on", "loop", "switch"} \cap Color = {}
  /\ {MaxEvents, MaxFrames} \subseteq Nat

Modes == {"Ambilight", "MoodLamp"}
Frame == Color \cup {"screen", "client"}

VARIABLES
  windows,          \* the build hears of the session and has hooked capture,
                    \* whose D3D10GrabberImpl::init has succeeded
  mode, dx1011,     \* settings: Lightpack mode, hooked capture enabled
  backlight, lock,  \* m_backlightStatus = On or DeviceError; locked
  main,             \* "loop", or in startBacklight: "switch", or the frame
                    \* that switchOnLeds has read and is about to send
  events,           \* posted to the main thread, oldest first
  held,             \* what the API thread told last about the lock
  grabbing, hooked, \* m_grabber and m_d3d10Grabber are started
  lampOn, lampTimer, liquid, color, rgbSaved,  \* of MoodLampManager
  frames,           \* events posted to the manager, oldest first
  inHand,           \* the frame its slot setColors has accepted
  lights, saved,    \* m_backlightStatus = On and savedColors of the manager
  offWaits          \* its dispatcher has a switch-off waiting

settings == <<windows, mode, dx1011>>
status   == <<backlight, lock, main>>
api      == <<events, held>>
capture  == <<grabbing, hooked>>
lamp     == <<lampOn, lampTimer, liquid, color, rgbSaved>>
manager  == <<inHand, lights, saved, offWaits>>
vars == <<settings, status, api, capture, lamp, frames, manager>>

TypeOK ==
  /\ {windows, dx1011, backlight, lock, held, grabbing, hooked, lampOn, lampTimer,
      liquid, lights, offWaits} \subseteq BOOLEAN
  /\ mode \in Modes /\ main \in {"loop", "switch"} \cup Frame
  /\ events \in Seq({"attempt", "grabber", "locked", "unlocked"})
  /\ color \in Color /\ rgbSaved \in Color \cup {"none"}
  /\ frames \in Seq(Frame \cup {"off", "on"})
  /\ {inHand, saved} \subseteq Frame \cup {"none"}

(* initializeAll and the first startBacklight; the manager begins with its *)
(* status on                                                               *)
Init ==
  /\ windows \in BOOLEAN
  /\ mode \in Modes /\ dx1011 = FALSE
  /\ backlight \in BOOLEAN /\ lock = FALSE /\ main = "loop"
  /\ events = << >> /\ held = FALSE
  /\ grabbing = (backlight /\ mode = "Ambilight") /\ hooked = FALSE
  /\ lampOn = (backlight /\ mode = "MoodLamp")
  /\ liquid \in BOOLEAN /\ lampTimer = (lampOn /\ liquid)
  /\ color \in Color /\ rgbSaved = "none"
  /\ frames = IF lampOn THEN <<color>> ELSE << >>
  /\ inHand = "none" /\ saved = "none"
  /\ offWaits \in BOOLEAN /\ (offWaits => ~backlight)
  /\ lights = (backlight \/ offWaits)

(***************************************************************************)
(* The threads' queues.                                                    *)
(***************************************************************************)
Post(e)  == Len(events) < MaxEvents /\ events' = Append(events, e)
Emit(f)  == Len(frames) < MaxFrames /\ frames' = Append(frames, f)
Idle     == main = "loop"
Handle(e) == Idle /\ events # << >> /\ Head(events) = e /\ events' = Tail(events)

(***************************************************************************)
(* GrabManager and its grabbers.                                           *)
(***************************************************************************)
(* GrabManager::start: the hooked grabber is left alone.                   *)
GrabStart(enabled) == grabbing' = enabled /\ UNCHANGED hooked

(* The timer of m_grabber, or a frame that a game draws while its grabber  *)
(* is started: the manager hears of it through its own event queue.        *)
Grab ==
  /\ Idle /\ (grabbing \/ hooked)
  /\ Post("attempt")
  /\ UNCHANGED <<settings, status, held, capture, lamp, frames, manager>>

(* A game draws a frame, and D3D10Grabber asks to take over.               *)
HookedFrame ==
  /\ windows /\ Idle
  /\ ~hooked /\ dx1011
  /\ hooked' = TRUE /\ grabbing' = FALSE
  /\ UNCHANGED <<settings, status, api, lamp, frames, manager>>

(* Mutant: the hooked grabber stops and nothing takes its place            *)
HandleIfFrameGrabbed_Blind ==
  /\ windows /\ Idle /\ hooked
  /\ hooked' = FALSE
  /\ UNCHANGED <<settings, status, api, grabbing, lamp, frames, manager>>

(* No frame of a game for a second: the capture is given back to m_grabber *)
(* (onGrabberStateChangeRequested), whatever the lights do.                *)
HandleIfFrameGrabbed ==
  /\ windows /\ Idle /\ hooked
  /\ grabbing' = TRUE /\ hooked' = FALSE
  /\ UNCHANGED <<settings, status, api, lamp, frames, manager>>

(* The user selects a grabber, or hooked capture, in the settings window;  *)
(* grabberTypeChanged is a queued connection.                              *)
ChooseGrabber ==
  /\ windows /\ Idle
  /\ dx1011' \in BOOLEAN
  /\ Post("grabber")
  /\ UNCHANGED <<windows, mode, status, held, capture, lamp, frames, manager>>

OnGrabberTypeChanged ==
  /\ Handle("grabber")
  /\ hooked'   = (hooked \/ (grabbing /\ dx1011))
  /\ grabbing' = ((grabbing \/ hooked) /\ ~dx1011)
  /\ UNCHANGED <<settings, status, held, lamp, frames, manager>>

(* onFrameGrabAttempted.  Nothing is sent while a LED widget is moved or   *)
(* if the colours are the same.  A late event sends black: still a frame.  *)
OnFrameGrabAttempted ==
  /\ Handle("attempt")
  /\ Emit("screen") \/ UNCHANGED frames
  /\ UNCHANGED <<settings, status, held, capture, lamp, manager>>

(***************************************************************************)
(* MoodLampManager.                                                        *)
(***************************************************************************)
(* updateColors: a liquid lamp walks from colour to colour; a frame that   *)
(* would show the colour sent last may be left out.                        *)
Rgb == IF liquid THEN Color ELSE {color}

UpdateColors(rgb) ==
  /\ Emit(rgb) \/ (rgb = rgbSaved /\ UNCHANGED frames)
  /\ rgbSaved' = rgb

(* Mutant: the colour shown before the lock is not forgotten               *)
LampStart_Remembers(enabled) ==
  /\ lampOn' = enabled
  /\ IF enabled
     THEN \E rgb \in Rgb :
            UpdateColors(rgb) /\ lampTimer' = (lampTimer \/ liquid)
     ELSE lampTimer' = FALSE /\ UNCHANGED <<frames, rgbSaved>>
  /\ UNCHANGED <<liquid, color>>

(* MoodLampManager::start: m_rgbSaved is cleared, so a frame is sent.      *)
LampStart(enabled) ==
  /\ lampOn' = enabled
  /\ IF enabled
     THEN \E rgb \in Rgb :
            Emit(rgb) /\ rgbSaved' = rgb /\ lampTimer' = (lampTimer \/ liquid)
     ELSE lampTimer' = FALSE /\ UNCHANGED <<frames, rgbSaved>>
  /\ UNCHANGED <<liquid, color>>

LampTick ==
  /\ Idle /\ lampTimer
  /\ \E rgb \in Rgb : UpdateColors(rgb)
  /\ lampTimer' = (lampOn /\ liquid)
  /\ UNCHANGED <<settings, status, api, capture, lampOn, liquid, color, manager>>

(* setCurrentColor.  startBacklight connects the signal once more each     *)
(* time, so that the frame is sent several times over: always the same.    *)
SetMoodLampColor ==
  /\ Idle
  /\ \E c \in Color :
       /\ color' = c
       /\ IF lampOn /\ ~liquid THEN Emit(c) ELSE UNCHANGED frames
  /\ UNCHANGED <<settings, status, api, capture, lampOn, lampTimer, liquid, rgbSaved,
                 manager>>

(* Mutant: the timer is started only by the first updateColors             *)
SetMoodLampLiquidMode_Untimed ==
  /\ Idle
  /\ liquid' = ~liquid
  /\ lampTimer' = FALSE
  /\ IF lampOn /\ liquid
     THEN UpdateColors(color)
     ELSE UNCHANGED <<frames, rgbSaved>>
  /\ UNCHANGED <<settings, status, api, capture, lampOn, color, manager>>

(* setLiquidMode, and updateColors when the lamp becomes constant          *)
SetMoodLampLiquidMode ==
  /\ Idle
  /\ liquid' = ~liquid
  /\ lampTimer' = (lampOn /\ ~liquid)
  /\ IF lampOn /\ liquid
     THEN UpdateColors(color)
     ELSE UNCHANGED <<frames, rgbSaved>>
  /\ UNCHANGED <<settings, status, api, capture, lampOn, color, manager>>

(***************************************************************************)
(* LightpackApplication.                                                   *)
(***************************************************************************)
(* Mutant: the lock is not asked for when the mode is the mood lamp        *)
StartSources_Unlocked(isOn, isLocked, newMode) ==
  /\ GrabStart(isOn /\ ~isLocked /\ newMode = "Ambilight")
  /\ LampStart(isOn /\ newMode = "MoodLamp")
  /\ main' = "switch"

(* startBacklight up to the switch of the lights                           *)
StartSources(isOn, isLocked, newMode) ==
  /\ GrabStart(isOn /\ ~isLocked /\ newMode = "Ambilight")
  /\ LampStart(isOn /\ ~isLocked /\ newMode = "MoodLamp")
  /\ main' = "switch"

(* switchOffLeds: the dispatcher runs it at once or has it wait            *)
SwitchOff ==
  \/ lights' = FALSE /\ UNCHANGED offWaits
  \/ offWaits' = TRUE /\ UNCHANGED lights

(* Mutant: switchOnLeds does not ask whether colours are saved             *)
SwitchLights_Unsaved ==
  /\ main = "switch"
  /\ \/ ~backlight /\ SwitchOff /\ main' = "loop"
     \/ backlight /\ lights' = TRUE /\ main' = saved /\ UNCHANGED offWaits
  /\ UNCHANGED <<settings, backlight, lock, api, capture, lamp, frames, inHand, saved>>

(* ... and its end: switchOffLeds or switchOnLeds of the manager, called   *)
(* in the main thread while the manager may be handling a frame in its own *)
SwitchLights ==
  /\ main = "switch"
  /\ \/ ~backlight /\ SwitchOff /\ main' = "loop"
     \/ /\ backlight /\ lights' = TRUE
        /\ main' = IF saved = "none" THEN "loop" ELSE saved
        /\ UNCHANGED offWaits
  /\ UNCHANGED <<settings, backlight, lock, api, capture, lamp, frames, inHand, saved>>

(* switchOnLeds has read savedColors and sends them straight to the device; *)
(* the manager may have saved and sent others since                        *)
RestoreColors ==
  /\ main \in Frame /\ main' = "loop"
  /\ UNCHANGED <<settings, backlight, lock, api, capture, lamp, frames, manager>>

(* On, off, device error: the user, the tray, another instance, the API    *)
SetStatusChanged ==
  /\ Idle
  /\ \E isOn \in BOOLEAN : backlight' = isOn /\ StartSources(isOn, lock, mode)
  /\ UNCHANGED <<settings, lock, api, manager>>

(* setLightpackMode; the settings window repeats its status                *)
LightpackModeChanged ==
  /\ Idle
  /\ \E m \in Modes : mode' = m /\ StartSources(backlight, lock, m)
  /\ UNCHANGED <<windows, dx1011, backlight, lock, api, manager>>

SetDeviceLockViaAPI ==
  /\ Handle("locked") \/ Handle("unlocked")
  /\ lock' = (Head(events) = "locked")
  /\ StartSources(backlight, Head(events) = "locked", mode)
  /\ UNCHANGED <<settings, backlight, held, manager>>

(* EndSessionDetector: the computer is locked and unlocked; the settings   *)
(* window passes it on to the manager as queued signals.                   *)
SessionChange ==
  /\ windows /\ Idle
  /\ Emit("off") \/ Emit("on")
  /\ UNCHANGED <<settings, status, api, capture, lamp, manager>>

(***************************************************************************)
(* The API thread: LightpackPluginInterface tells each change of the lock, *)
(* and the client that holds it sends colours straight to the manager.     *)
(***************************************************************************)
TellLockStatus ==
  /\ held' = ~held
  /\ Post(IF held THEN "unlocked" ELSE "locked")
  /\ UNCHANGED <<settings, status, capture, lamp, frames, manager>>

ClientSetsColors ==
  /\ held /\ Emit("client")
  /\ UNCHANGED <<settings, status, api, capture, lamp, manager>>

(***************************************************************************)
(* The thread of LedDeviceManager.                                         *)
(***************************************************************************)
(* Mutant: setColors does not ask for the status                           *)
TakeFrame_Anyway ==
  /\ inHand = "none" /\ frames # << >> /\ Head(frames) \in Frame
  /\ frames' = Tail(frames)
  /\ inHand' = Head(frames)
  /\ UNCHANGED <<settings, status, api, capture, lamp, lights, saved, offWaits>>

(* setColors reads the status, and drops the frame while the lights are off *)
TakeFrame ==
  /\ inHand = "none" /\ frames # << >> /\ Head(frames) \in Frame
  /\ frames' = Tail(frames)
  /\ inHand' = IF lights THEN Head(frames) ELSE "none"
  /\ UNCHANGED <<settings, status, api, capture, lamp, lights, saved, offWaits>>

(* ... and saves it and passes it on, whatever the status is by now        *)
SendFrame ==
  /\ inHand # "none" /\ inHand' = "none"
  /\ saved' = inHand
  /\ UNCHANGED <<settings, status, api, capture, lamp, frames, lights, offWaits>>

SwitchOffLedsSlot ==
  /\ inHand = "none" /\ frames # << >> /\ Head(frames) = "off"
  /\ frames' = Tail(frames)
  /\ SwitchOff
  /\ UNCHANGED <<settings, status, api, capture, lamp, inHand, saved>>

SwitchOnLedsSlot ==
  /\ inHand = "none" /\ frames # << >> /\ Head(frames) = "on"
  /\ frames' = Tail(frames)
  /\ lights' = TRUE
  /\ UNCHANGED <<settings, status, api, capture, lamp, inHand, saved, offWaits>>

(* processOffLeds, when a completion has the dispatcher run it; a failure  *)
(* or the deadline has it forgotten.                                       *)
ProcessOffLeds ==
  /\ inHand = "none" /\ offWaits /\ offWaits' = FALSE
  /\ lights' = FALSE \/ UNCHANGED lights
  /\ UNCHANGED <<settings, status, api, capture, lamp, frames, inHand, saved>>

Manager == TakeFrame \/ SendFrame \/ SwitchOffLedsSlot \/ SwitchOnLedsSlot
HandleEvent == OnFrameGrabAttempted \/ OnGrabberTypeChanged \/ SetDeviceLockViaAPI
User == SetStatusChanged \/ LightpackModeChanged \/ SetMoodLampColor
          \/ SetMoodLampLiquidMode \/ ChooseGrabber \/ SessionChange
Timers == Grab \/ LampTick \/ HandleIfFrameGrabbed

Next == Manager \/ ProcessOffLeds \/ HandleEvent \/ SwitchLights \/ RestoreColors
          \/ User \/ Timers \/ HookedFrame \/ TellLockStatus \/ ClientSetsColors

(* Both event loops run, and the timers of the main thread fire.  A        *)
(* switch-off that waits may be stranded (see LedDeviceManager).  Users,   *)
(* clients and games owe nothing.                                          *)
Fairness ==
  /\ WF_vars(Manager) /\ WF_vars(SwitchLights \/ RestoreColors)
  /\ SF_vars(HandleEvent) /\ SF_vars(HandleIfFrameGrabbed)

Spec == Init /\ [][Next]_vars /\ Fairness

-----------------------------------------------------------------------------
(* What must hold *)

(* The timer of a liquid mood lamp runs as long as the lamp is on, and only  *)
(* then, whatever was switched, locked and chosen in whatever order: the     *)
(* lamp neither freezes nor draws over another source.                       *)
LampTicks == lampTimer = (lampOn /\ liquid)

(* While the lights are on and free for capture some grabber works: no order *)
(* of take-overs by games, grabbers chosen, locks and switches loses both.   *)
NeverBlind ==
  Idle /\ backlight /\ ~lock /\ mode = "Ambilight" => grabbing \/ hooked

Shows(f) == inHand = f \/ f \in {frames[i] : i \in DOMAIN frames}

(* A frame the application made itself is on its way to the manager          *)
OwnFrames == \E f \in Frame \ {"client"} : Shows(f)

(* Once a client keeps the lock the application, with the capture of the     *)
(* operating system, makes no frames of its own any more.  What it still     *)
(* does, at every change of mode and status, is to resend the colours that   *)
(* the manager saved last (startBacklight calls switchOnLeds): these may be  *)
(* its own until the client has sent a frame, and never again after that.    *)
LockSilences ==
  ~windows /\ <>[]held =>
    /\ <>[]~OwnFrames
    /\ []<>(saved = "client") => <>[](saved = "client" /\ main \in {"loop", "switch", "client"})

(* Once the lights are switched off for good the sources fall silent, even   *)
(* if the switch-off is lost in the dispatcher of the manager; and if its    *)
(* status is off in the end, it accepts no frame of anybody any more.        *)
OffStopsTheLights ==
  ~windows /\ <>[]~backlight =>
    /\ <>[]~OwnFrames
    /\ <>[]~lights => <>[](inHand = "none")

(* While the lights stay on and the mode is a constant mood lamp, the manager *)
(* keeps the colour of the lamp in the end whenever nobody holds the lock any *)
(* more, and switchOnLeds resends no other: "This is usable if start is       *)
(* called after API unlock, and we should force set current color"            *)
(* (MoodLampManager.cpp:67)                                                   *)
LampReturns ==
  ~windows /\ [](backlight /\ mode = "MoodLamp" /\ ~liquid) =>
    \A c \in Color :
      <>[](~held /\ color = c) => <>[](saved = c /\ main \in {"loop", "switch", c})

-----------------------------------------------------------------------------
(* What the sources say and the code does not do                             *)

(* "Opens access to set-commands, If success - suspends capture"             *)
(* (ApiServer.cpp:1207): once the main thread has handled the lock, no       *)
(* grabber works                                                             *)
LockSuspendsCapture == Idle /\ lock => ~grabbing /\ ~hooked
=============================================================================
