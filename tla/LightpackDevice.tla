-------------------------- MODULE LightpackDevice --------------------------
(***************************************************************************)
(* LedDeviceLightpack (Software/prismatic/devices/LedDeviceLightpack.cpp): *)
(* the object that owns the HID handles of all Lightpacks, below the       *)
(* manager of the LED devices.                                             *)
(*                                                                         *)
(* Its slots run to completion in the thread of the devices, but while one *)
(* runs a cable may be pulled or plugged between any two transfers.  A     *)
(* transfer that fails closes and reopens all devices in the middle of the *)
(* slot; opening sends every setting again, through the same write buffer  *)
(* and the same list of handles that the interrupted slot goes on using.   *)
(* todo is the call stack of the slot: the statements still to execute.    *)
(* The value of commandCompleted is left open, as LedDeviceManager does.   *)
(***************************************************************************)
EXTENDS Naturals, SequencesExt

CONSTANTS
  PortOrder,    \* the Lightpacks, in the order open() lists them
  Address,      \* what hid_open_path may return: freed memory is reused
  ByteSetting,  \* the settings of one byte (colour depth, slowdown)
  Picture,      \* the frames the manager sends
  Adjustments,  \* setters of AbstractLedDevice::updateDeviceSettings that
                \* send the saved colours again (5 in the code)
  MaxReopens    \* bound: while so many transfers wait for a reopen no cable
                \* is pulled

Port == ToSet(PortOrder)

(* A frame has so many parts of 10 LEDs; the last one may be too short to  *)
(* cover the first bytes of its report; switchOffLeds saves a dark one.    *)
Frame == [parts : Nat, short : BOOLEAN, dark : BOOLEAN]
NoFrame == [parts |-> 0, short |-> FALSE, dark |-> TRUE]

ASSUME LightpackDeviceAssumption ==
  /\ PortOrder \in Seq(Port) /\ IsInjective(PortOrder)
  /\ PortOrder # << >>
  /\ {"free", "dead", "null"} \cap (Port \cup Address) = {}
  /\ \E hs \in [DOMAIN PortOrder -> Address] : IsInjective(hs)
  /\ {"delay", "leds", "black", "colour"} \cap ByteSetting = {}
  /\ IsFiniteSet(ByteSetting)
  /\ \A f \in Picture : f \in Frame /\ f.parts > 0 /\ ~f.dark
  /\ Adjustments \in Nat /\ MaxReopens \in Nat

VARIABLES
  plugged,   \* the ports with a Lightpack that can be opened
  told,      \* the settings each was sent since it was plugged in
  heap,      \* for each address: "free", or the port behind the handle, or
             \* "dead" when its cable was pulled
  devices,   \* m_devices
  buffer,    \* the data of m_writeBuffer: first byte, second byte, the rest
  saved,     \* m_colorsSaved
  enabled,   \* isBacklightEnabled() and isPingDeviceEverySecond()
  timer,     \* m_timerPingDevice is active
  muted,     \* its signals are blocked
  todo,      \* the statements of the running slot
  due,       \* history: the running slot still owes a commandCompleted
  reopened   \* history: the running slot has reopened the devices

cable == <<plugged, told>>
usb == <<heap, devices>>
ping == <<timer, muted>>
colours == <<buffer, saved>>
history == <<due, reopened>>
vars == <<cable, usb, ping, colours, history, enabled, todo>>

-----------------------------------------------------------------------------
(* Reports *)

Setting == ByteSetting \cup {"delay"}
Order   == Setting \cup {"leds"}
Blank   == <<"black", "black", "black">>

(* Part i of frame f written over the bytes b                              *)
Paint(b, f, i) ==
  LET colour == IF f.dark THEN "black" ELSE "colour"
  IN  IF i = f.parts /\ f.short THEN <<b[1], b[2], colour>>
                                ELSE <<colour, colour, colour>>

(* setRefreshDelay writes two bytes, the other setters one                 *)
Store(b, s) == <<s, IF s = "delay" THEN s ELSE b[2], b[3]>>

(* The bytes the firmware reads for an order                               *)
Heeded(order, b) ==
  IF order = "leds" THEN b ELSE IF order = "delay" THEN SubSeq(b, 1, 2) ELSE <<b[1]>>

-----------------------------------------------------------------------------
(* Statements *)

SetColors(f)          == [op |-> "setColors", frame |-> f]
SetColorsSaved        == [op |-> "setColorsSaved"]
Sized(f)              == [op |-> "sized", frame |-> f]
Part(f, i)            == [op |-> "part", frame |-> f, i |-> i]
SwitchOff             == [op |-> "off"]
Darken                == [op |-> "darken"]
Set(s)                == [op |-> "set", order |-> s]
Each(order, i)        == [op |-> "each", order |-> order, i |-> i]
Write(order, h, want) == [op |-> "write", order |-> order, to |-> h, want |-> want]
Rewrite(order, h)     == [op |-> "rewrite", order |-> order, to |-> h]
Read                  == [op |-> "read"]
Reread                == [op |-> "reread"]
Answer                == [op |-> "answer"]
Reopen                == [op |-> "reopen"]
Open                  == [op |-> "open"]
Opened                == [op |-> "opened"]
PingOpened            == [op |-> "pingOpened"]

RequestFirmwareVersion == <<Read, Answer>>

UpdateDeviceSettings ==
  [i \in 1..Adjustments |-> SetColorsSaved]
    \o <<Set("delay")>> \o SetToSeq({Set(s) : s \in ByteSetting})
    \o RequestFirmwareVersion

Idle == todo = << >>
At(ops) == ~Idle /\ Head(todo).op \in ops

(* The statement at the top of the stack is replaced by others             *)
Then(statements) == todo' = statements \o Tail(todo)

Init ==
  /\ plugged \in SUBSET Port
  /\ told = [p \in Port |-> {}]
  /\ heap = [a \in Address |-> "free"]
  /\ devices = << >>
  /\ buffer = Blank
  /\ saved = NoFrame
  /\ enabled \in BOOLEAN
  /\ timer = FALSE
  /\ muted = FALSE
  /\ todo = << >>
  /\ due = FALSE
  /\ reopened = FALSE

-----------------------------------------------------------------------------
(* Transfers *)

(* restartPingDevice, called on every ioDeviceSuccess and openDeviceSuccess *)
RestartPingDevice == timer' = enabled /\ UNCHANGED muted

Live(h) == h \in Address /\ heap[h] \in Port

Receive(order, h) == told' = [told EXCEPT ![heap[h]] = @ \cup ({order} \cap Setting)]

(* The four hid_writes of writeBufferToDeviceWithCheck                     *)
WriteBufferToDeviceWithCheck ==
  /\ At({"write"})
  /\ LET w == Head(todo) IN
       \/ /\ Live(w.to)
          /\ Receive(w.order, w.to)
          /\ RestartPingDevice
          /\ Then(<< >>)
       \/ /\ ~Live(w.to)
          /\ Then(<<Reopen, Rewrite(w.order, w.to)>>)
          /\ IF w.to = "null" THEN UNCHANGED ping ELSE RestartPingDevice
          /\ UNCHANGED told
  /\ UNCHANGED <<plugged, usb, colours, history, enabled>>

(* After tryToReopenDevice the buffer, whatever it holds by now, is        *)
(* written through the old pointer.  hid_close has freed it: it may be the *)
(* handle of a device just opened, or memory in which nobody is reached.   *)
WriteAfterReopen ==
  /\ At({"rewrite"})
  /\ LET w == Head(todo) IN
       IF devices # << >> /\ Live(w.to) THEN Receive(w.order, w.to) ELSE UNCHANGED told
  /\ IF devices = << >> THEN UNCHANGED ping ELSE RestartPingDevice
  /\ Then(<< >>)
  /\ UNCHANGED <<plugged, usb, colours, history, enabled>>

ReadDataFromDeviceWithCheck ==
  /\ At({"read"})
  /\ Then(IF devices # << >> /\ Live(Head(devices)) THEN << >> ELSE <<Reopen, Reread>>)
  /\ IF devices = << >> THEN UNCHANGED ping ELSE RestartPingDevice
  /\ UNCHANGED <<cable, usb, colours, history, enabled>>

ReadAfterReopen ==
  /\ At({"reread"})
  /\ Then(<< >>)
  /\ IF devices = << >> THEN UNCHANGED ping ELSE RestartPingDevice
  /\ UNCHANGED <<cable, usb, colours, history, enabled>>

-----------------------------------------------------------------------------
(* Opening and closing *)

(* Mutant: the handles stay in the list                                    *)
CloseDevices_Kept ==
  /\ heap' = [a \in Address |-> "free"]
  /\ UNCHANGED devices
  /\ muted' = TRUE

(* closeDevices blocks the signals of the timer; nothing unblocks them     *)
CloseDevices ==
  /\ heap' = [a \in Address |-> "free"]
  /\ devices' = << >>
  /\ muted' = TRUE

TryToReopenDevice ==
  /\ At({"reopen"})
  /\ CloseDevices
  /\ timer' = FALSE
  /\ reopened' = TRUE
  /\ Then(<<Open>>)
  /\ UNCHANGED <<cable, colours, due, enabled>>

(* Mutant: the NULL of a hid_open_path that failed goes into the list      *)
Enumerate_Null ==
  /\ devices' = <<"null">>
  /\ UNCHANGED heap

(* The loop over what hid_enumerate returned: what was found before p and  *)
(* with p, and after each turn                                             *)
FoundWith(found, p) == IF p \in plugged THEN Append(found, p) ELSE found

Finding ==
  LET found[i \in 0..Len(PortOrder)] ==
        IF i = 0 THEN << >> ELSE FoundWith(found[i - 1], PortOrder[i])
  IN  found

Enumerate ==
  LET found == Finding[Len(PortOrder)]
      free  == {a \in Address : heap[a] = "free"}
  IN  \E hs \in [DOMAIN found -> free] :
        /\ IsInjective(hs)
        /\ devices' = hs
        /\ heap' = [a \in Address |-> IF Contains(hs, a)
                                      THEN found[SelectInSeq(hs, LAMBDA h : h = a)]
                                      ELSE heap[a]]

(* Mutant: the settings are not sent to the devices that were opened       *)
OpenDevices_Unconfigured ==
  /\ At({"open"})
  /\ \/ /\ devices # << >> \/ plugged = {}
        /\ RestartPingDevice
        /\ Then(<< >>)
        /\ UNCHANGED usb
     \/ /\ devices = << >> /\ plugged # {}
        /\ Enumerate
        /\ Then(<<Opened>>)
        /\ UNCHANGED ping
  /\ UNCHANGED <<cable, colours, history, enabled>>

(* open(): nothing to do, nothing found, or devices to be configured       *)
OpenDevices ==
  /\ At({"open"})
  /\ \/ /\ devices # << >> \/ plugged = {}
        /\ RestartPingDevice
        /\ Then(<< >>)
        /\ UNCHANGED usb
     \/ /\ devices = << >> /\ plugged # {}
        /\ Enumerate
        /\ Then(UpdateDeviceSettings \o <<Opened>>)
        /\ UNCHANGED ping
  /\ UNCHANGED <<cable, colours, history, enabled>>

OpenDeviceSuccess ==
  /\ At({"opened"})
  /\ RestartPingDevice
  /\ Then(<< >>)
  /\ UNCHANGED <<cable, usb, colours, history, enabled>>

-----------------------------------------------------------------------------
(* Colours *)

(* Mutant: nothing is reopened for colours                                 *)
MaxLedsCount_Closed == << >>

(* maxLedsCount reopens when there is no device at all                     *)
MaxLedsCount == IF devices = << >> THEN <<Reopen>> ELSE << >>

SetColorsCalled ==
  /\ \/ At({"setColors"}) /\ Then(MaxLedsCount \o <<Sized(Head(todo).frame)>>)
     \/ At({"setColorsSaved"}) /\ Then(MaxLedsCount \o <<Sized(saved)>>)
  /\ UNCHANGED <<cable, usb, ping, colours, history, enabled>>

(* A frame longer than the devices is dropped, without commandCompleted    *)
CheckSize ==
  /\ At({"sized"})
  /\ LET f == Head(todo).frame IN
       IF f.parts > Len(devices)
       THEN Then(<< >>) /\ UNCHANGED colours
       ELSE Then(<<Part(f, 1)>>) /\ saved' = f /\ buffer' = Blank
  /\ UNCHANGED <<cable, usb, ping, history, enabled>>

(* m_devices[i], past the end of a list that a reopen made shorter as well *)
DeviceAt(i) == IF i \in DOMAIN devices THEN {devices[i]} ELSE Address \cup {"null"}

(* Mutant: the buffer is not cleared between two parts                     *)
NextPart_Uncleared ==
  /\ At({"part"})
  /\ LET f == Head(todo).frame  i == Head(todo).i IN
       IF i <= f.parts
       THEN /\ buffer' = Paint(buffer, f, i)
            /\ \E h \in DeviceAt(i) :
                 Then(<<Write("leds", h, Paint(Blank, f, i)), Part(f, i + 1)>>)
            /\ UNCHANGED due
       ELSE UNCHANGED buffer /\ due' = FALSE /\ Then(<< >>)
  /\ UNCHANGED <<cable, usb, ping, reopened, saved, enabled>>

(* The loop of setColors: the buffer is cleared after each part is written *)
NextPart ==
  /\ At({"part"})
  /\ LET f == Head(todo).frame  i == Head(todo).i IN
       IF i <= f.parts
       THEN /\ buffer' = Paint(Blank, f, i)
            /\ \E h \in DeviceAt(i) :
                 Then(<<Write("leds", h, Paint(Blank, f, i)), Part(f, i + 1)>>)
            /\ UNCHANGED due
       ELSE buffer' = Blank /\ due' = FALSE /\ Then(<< >>)
  /\ UNCHANGED <<cable, usb, ping, reopened, saved, enabled>>

SwitchOffCalled ==
  /\ At({"off"})
  /\ Then((IF saved.parts = 0 THEN MaxLedsCount ELSE << >>) \o <<Darken>>)
  /\ UNCHANGED <<cable, usb, ping, colours, history, enabled>>

DarkenLeds ==
  /\ At({"darken"})
  /\ saved' = IF saved.parts = 0 THEN [NoFrame EXCEPT !.parts = Len(devices)]
                                 ELSE [saved EXCEPT !.dark = TRUE]
  /\ timer' = FALSE
  /\ buffer' = Blank
  /\ Then(<<Each("leds", 1)>>)
  /\ UNCHANGED <<cable, usb, muted, history, enabled>>

-----------------------------------------------------------------------------
(* Settings *)

SetSetting ==
  /\ At({"set"})
  /\ buffer' = Store(buffer, Head(todo).order)
  /\ Then(<<Each(Head(todo).order, 1)>>)
  /\ UNCHANGED <<cable, usb, ping, history, saved, enabled>>

Wanted(order) == IF order = "leds" THEN Blank ELSE Store(Blank, order)

(* Mutant: only a loop that wrote something emits commandCompleted         *)
NextDevice_Silent ==
  /\ At({"each"})
  /\ LET order == Head(todo).order  i == Head(todo).i IN
       IF i \in DOMAIN devices
       THEN Then(<<Write(order, devices[i], Wanted(order)), Each(order, i + 1)>>)
              /\ UNCHANGED due
       ELSE Then(<< >>) /\ due' = (due /\ i = 1)
  /\ UNCHANGED <<cable, usb, ping, reopened, colours, enabled>>

(* The loop over m_devices of the setters and of switchOffLeds             *)
NextDevice ==
  /\ At({"each"})
  /\ LET order == Head(todo).order  i == Head(todo).i IN
       IF i \in DOMAIN devices
       THEN Then(<<Write(order, devices[i], Wanted(order)), Each(order, i + 1)>>)
              /\ UNCHANGED due
       ELSE Then(<< >>) /\ due' = FALSE
  /\ UNCHANGED <<cable, usb, ping, reopened, colours, enabled>>

CommandCompleted ==
  /\ At({"answer"})
  /\ due' = FALSE
  /\ Then(<< >>)
  /\ UNCHANGED <<cable, usb, ping, reopened, colours, enabled>>

-----------------------------------------------------------------------------
(* The slots *)

Call(statements, owes) ==
  /\ Idle
  /\ todo' = statements
  /\ due' = owes
  /\ reopened' = FALSE

(* The commands that the manager expects to be answered                    *)
AnsweringSlot ==
  /\ \/ \E s \in Setting : Call(<<Set(s)>>, TRUE)
     \/ Call(<<SwitchOff>>, TRUE)
     \/ Call(RequestFirmwareVersion, TRUE)
     \/ Call(UpdateDeviceSettings, TRUE)
  /\ UNCHANGED <<cable, usb, ping, colours, enabled>>

(* open() is no command, and setGamma and its like end in setColors        *)
OtherSlot ==
  /\ \/ Call(<<Open>>, FALSE)
     \/ Call(<<SetColorsSaved>>, FALSE)
     \/ \E f \in Picture : Call(<<SetColors(f)>>, FALSE)
  /\ UNCHANGED <<cable, usb, ping, colours, enabled>>

(* timerPingDeviceTimeout, unless the signals of the timer are blocked     *)
TimerPingDeviceTimeout ==
  /\ timer /\ ~muted
  /\ IF devices = << >>
       THEN Call(<<Open, PingOpened>>, FALSE) /\ UNCHANGED <<cable, usb, ping>>
       ELSE /\ Call(<< >>, FALSE)
            /\ timer' = enabled
            /\ IF Live(Head(devices)) THEN UNCHANGED <<usb, muted>> ELSE CloseDevices
            /\ UNCHANGED cable
  /\ UNCHANGED <<colours, enabled>>

(* What a ping has opened is closed again: "device should be opened by     *)
(* open() function"                                                        *)
PingHasOpened ==
  /\ At({"pingOpened"})
  /\ Then(<< >>)
  /\ IF devices = << >> THEN RestartPingDevice /\ UNCHANGED usb
                        ELSE CloseDevices /\ timer' = FALSE
  /\ UNCHANGED <<cable, colours, history, enabled>>

Step ==
  \/ WriteBufferToDeviceWithCheck
  \/ WriteAfterReopen
  \/ ReadDataFromDeviceWithCheck
  \/ ReadAfterReopen
  \/ TryToReopenDevice
  \/ OpenDevices
  \/ OpenDeviceSuccess
  \/ SetColorsCalled
  \/ CheckSize
  \/ NextPart
  \/ SwitchOffCalled
  \/ DarkenLeds
  \/ SetSetting
  \/ NextDevice
  \/ CommandCompleted
  \/ PingHasOpened

-----------------------------------------------------------------------------
(* The world.  A cable that moves between two statements is noticed at the *)
(* next transfer or search, so it moves just before one.                   *)

Transfers == {"write", "rewrite", "read", "reread", "open"}
Waiting == Len(SelectSeq(todo, LAMBDA s : s.op \in {"rewrite", "reread"}))

Unplug(p) ==
  /\ Idle \/ At(Transfers)
  /\ p \in plugged
  /\ Waiting < MaxReopens
  /\ plugged' = plugged \ {p}
  /\ told' = [told EXCEPT ![p] = {}]
  /\ heap' = [a \in Address |-> IF heap[a] = p THEN "dead" ELSE heap[a]]
  /\ UNCHANGED <<devices, ping, colours, history, enabled, todo>>

Plug(p) ==
  /\ Idle \/ At(Transfers)
  /\ p \notin plugged
  /\ plugged' = plugged \cup {p}
  /\ UNCHANGED <<told, usb, ping, colours, history, enabled, todo>>

(* The user switches the backlight or the pings on or off                  *)
Configure ==
  /\ Idle \/ At(Transfers)
  /\ enabled' = ~enabled
  /\ UNCHANGED <<cable, usb, ping, colours, history, todo>>

Next ==
  \/ Step
  \/ AnsweringSlot
  \/ OtherSlot
  \/ TimerPingDeviceTimeout
  \/ \E p \in Port : Unplug(p)
  \/ \E p \in Port : Plug(p)
  \/ Configure

(* The thread of the devices runs and its timer fires.  Nobody has to call *)
(* a slot, and cables move as they like.                                   *)
SafeSpec == Init /\ [][Next]_vars
Spec == SafeSpec /\ WF_vars(Step) /\ WF_vars(TimerPingDeviceTimeout)

-----------------------------------------------------------------------------
(* What must hold *)

TypeOK ==
  /\ plugged \subseteq Port
  /\ told \in [Port -> SUBSET Setting]
  /\ heap \in [Address -> Port \cup {"free", "dead"}]
  /\ devices \in Seq(Address)
  /\ buffer \in [1..3 -> Setting \cup {"black", "colour"}]
  /\ saved \in Frame
  /\ {enabled, timer, muted, due, reopened} \subseteq BOOLEAN

(* Between two slots every Lightpack that can still be reached was sent    *)
(* all settings since it was plugged in, however often opening it was      *)
(* interrupted and started afresh: none shows colours unconfigured.        *)
OpenedIsConfigured ==
  Idle => \A i \in DOMAIN devices :
            Live(devices[i]) => Setting \subseteq told[heap[devices[i]]]

(* m_devices never holds a handle that was closed, nor two for one device, *)
(* and until a slot reopens the devices it writes through open handles.    *)
HandlesAreOpen ==
  /\ \A i \in DOMAIN devices : heap[devices[i]] # "free"
  /\ \A i, j \in DOMAIN devices :
       Live(devices[i]) /\ heap[devices[i]] = heap[devices[j]] => i = j
  /\ At({"write"}) /\ ~reopened => Contains(devices, Head(todo).to)

(* The buffer is shared by all orders; until a slot reopens the devices,   *)
(* each report carries the bytes its order is about and no others' bytes.  *)
WholeReports ==
  At({"write"}) /\ ~reopened =>
    Heeded(Head(todo).order, buffer) = Heeded(Head(todo).order, Head(todo).want)

(* A slot that returns has answered the manager, whatever was pulled while *)
(* it ran, if LedDeviceManager!Counts says that it answers.                *)
SlotsAnswer == Idle => ~due

(* "now, then screen picture changed, device will be reopened"             *)
(* (Software/CHANGELOG:286): if the cables stay in and frames that fit one *)
(* device keep coming, the first handle is usable in the end, for good.    *)
FirstReopens ==
  /\ <>[](plugged = Port)
  /\ []<>(At({"setColors"}) /\ Head(todo).frame.parts = 1)
  => <>[](devices # << >> /\ Live(Head(devices)))

-----------------------------------------------------------------------------
(* What the sources say and the code does not do                           *)

(* "Start ping device with PingDeviceInterval ms after last data transfer  *)
(* complete" (LedDeviceLightpack.cpp:461): the timeouts of a timer that    *)
(* runs on are not ignored for ever.                                       *)
TimerFires == <>[]timer => []<>~muted
=============================================================================
