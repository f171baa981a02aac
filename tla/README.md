# Formal model of Lightpack / Prismatik

TLA+ modules, TLC runs and TLAPS proofs about the host software in
`src/Software/prismatic` and the firmware in `src/Firmware`. The model is
written from the code: `PROJECT.json` ("map") names the lines each definition
stands for.

## 1. The system

```
 grabbers, mood lamp, GUI, settings        API clients (TCP)      plugins
        | setColors, setGamma ...              | lock, setcolor ...
        v                                      v
 LightpackApplication (main thread) <--- ApiServer (API thread)
        |        ^  status of the lock   |  lock list
        |        +---- LightpackPluginInterface (called from both threads)
        | queued signals
        v
 LedDeviceManager (its own thread): CommandDispatcher, 100 ms deadline
        | queued signals      ^ commandCompleted(ok), queued
        v                     |
 AbstractLedDevice (device thread): Lightpack (HID), Adalight, Ardulight,
        | HID reports                Virtual, AlienFX
        v
 Firmware: main loop (reports, flags) + timer interrupt (fade, LEDs)
```

| component | state | operations | what is hard | what makes it correct |
|---|---|---|---|---|
| LedDeviceManager | last command completed?, queue of runners, saved arguments, deadline, status of the lights | one slot per command, completion, time-out; two of the slots also called from the main thread | completions carry no identity, may be missing, late or repeated; signals that bypass the dispatcher; two threads in it without a lock | newest argument, oldest place, bounded backlog, always a deadline or an answer, backlog drains |
| Lightpack HID device | handles, write buffer, saved colours, ping timer | setters, colours, off, open, reopen, ping | reopening inside a write, one buffer for all orders, freed handles, blocked signals of the ping timer | every slot answers, whole reports, nothing left unconfigured, a lost device comes back |
| LightpackPluginInterface | list of lock keys, `lockAlive`, plugins | Lock, UnLock, setters, expiry, reload | two threads without a lock; insertion while iterating; two ways to tell the application | API holders are not preempted, silent plugins are, the application knows the status |
| ApiServer | sessions and their keys | connect, leave, guid, lock, unlock, set-commands, stop | keys from a counter; nested event loop of setcolor | one client at a time has access |
| setcolor task | colours being parsed, number of LEDs | parse in another thread, clear, resize | late results, nested requests, half parsed commands | a result acknowledges its own request, setcolor becomes available again, each LED shows the newest request for it |
| Application | mode, lock and light status | start and stop capture and mood lamp, quit | direct calls into other threads | some source works when it should, silent while locked or off |
| GrabManager and its grabbers | which grabber is started | start, take-over by a game, choice | queued frames, two grabbers that replace each other | never blind, suspended while locked |
| MoodLampManager | colour, liquid mode, timer, last colour sent | start, colour, mode, tick | its memory of what it sent goes stale | its timer runs when it should, its colour returns |
| PluginsManager, Plugin | processes, priorities | load, start, stop | every state change reloads the list | - |
| Firmware, hardware 6 and 7 | three images, fade index, settings, flags | reports, off, settings, interrupt | interrupt between two bytes; reset of the fade after the change | the LEDs end at the colours asked for, fading |
| Firmware, hardware 4 and 5 | the same in bytes, the index of the software PWM | the same, depth of the PWM | index compared for equality with a maximum that changes | brightness as asked, periods end, the LEDs end at the colours asked for |
| Settings, GUI, wizard, updates, log | - | - | - | not modelled |

`PROJECT.json` lists the hazards line by line ("hazards").

## 2. Modules

| module | models | code |
|---|---|---|
| `DeviceCommands` | commands, arguments and signals of the manager | `LedDeviceManager.hpp`, runners in `LedDeviceManager.cpp` |
| `CommandChannel` | abstract specification: what the dispatcher promises | - |
| `LedDeviceManager` | the dispatcher, its slots, the direct calls of the main thread step by step, both event queues | `LedDeviceManager.cpp`, `LedDeviceLightpack.cpp` for the answers |
| `LightpackPluginInterface` | the lock list, and the status the application keeps | `LightpackPluginInterface.cpp`, `LightpackApplication.cpp` |
| `ApiServer` | sessions; composes with the lock | `ApiServer.cpp` |
| `SetColorTask` | the wait of setcolor in nested event loops, and the task | `ApiServer.cpp`, `ApiServerSetColorTask.cpp` |
| `LightpackApplication` | main thread, API thread and manager thread as sources of colours | `LightpackApplication.cpp`, `GrabManager.cpp`, `MoodLampManager.cpp`, `D3D10Grabber.cpp` |
| `LightpackDevice` | the slots of the HID device, transfer by transfer | `LedDeviceLightpack.cpp`, `AbstractLedDevice.cpp` |
| `SmoothColors` | 12-bit colours in two bytes, the fixed-point blend | `datatypes.h`, `LedManager.c` |
| `LightpackFirmware` | main loop in byte steps, timer interrupt, cable | `Lightpack.c`, `LightpackUSB.c`, `LedManager.c` |
| `SoftwarePwm` | the same for hardware 4 and 5: slots, periods and single bytes | `LedManager.c`, `LedDriver.c`, `LightpackUSB.c` |
| `LedDeviceManager_proofs`, `ApiServer_proofs`, `SetColorTask_proofs`, `LightpackDevice_proofs`, `LightpackApplication_proofs`, `LightpackFirmware_proofs`, `SoftwarePwm_proofs` | theorems about the module of the name | - |
| `Lemmas` | lemmas that several of them need: induction, lists without and with a key, division, the blend of two colours | - |
| `MCLedDeviceManager`, `MCApiServer`, `MCLightpackDevice`, `MCSetColorTask`, `MCLightpackApplication` | constants and bounds for TLC | - |

Definitions whose comment begins with "Mutant" are deliberately wrong versions
of the definition that follows; they are used by no specification. Each shows
that a property fails when the code has that bug.

### LedDeviceManager

The variables are the members of the class: `ready` is
`m_isLastCommandCompleted`, `cmdQueue` is `m_cmdQueue` (runners named by their
command), `timer` the deadline, `context` the saved arguments, `status`
`m_backlightStatus`. `newest` is history: the argument each waiting command was
posted with last, which is what the channel must send; `context` is what the
code saved. `toDevice` and `fromDevice` are the event queues of the two
threads. All one-argument slots have the shape of `SetParamSlot`, all slots
without argument that of `VoidSlot`; `Param` and `Void` are sets of names.
Properties of `postCommand` are thereby checked for every command. `Init` is
the state after the slot `init()`. A device may answer a signal zero times
(oversized frame, no device found) or several times (`updateDeviceSettings`
calls setters that each complete): `Counts` says which command may do what.
`PingReopens` are the completions a device sends of its own accord, when its
ping timer finds it again.

The main thread calls `switchOffLeds` and `switchOnLeds` directly
(`LightpackApplication.cpp:346`), without a lock, while the manager's thread is in
a slot of its own. `slot` and `call` hold what each of the two has left to do, and
a step ends wherever one reads or writes what the other uses: `SwitchOffLedsCall`
reads `m_isLastCommandCompleted`, and then `CallAppends` appends or `CallClaims`
starts the deadline and clears the flag, `CallSwitchesOff` writes the status and
`CallEmits` sends. In the manager's thread a command is posted (`Post`) before it is
sent (`SendNow`), and a completion empties the queue (`Settle`, `Abandon`) before the
dispatcher counts as idle (`BecomesIdle`). So the model has what follows from this
in the code:

- a switch-off appended to a dispatcher that has become idle since the call looked
  is stranded until another command completes (`OnlyOffIsStranded` says that no
  other command can be);
- the two threads may both append a switch-off, so it may wait twice;
- a claim that races with `BecomesIdle` leaves the dispatcher idle with a command
  on its way;
- Qt refuses to start the deadline, whose timer belongs to the manager's thread,
  or, in builds without that test, starts it all the same: `CallClaims` allows both.

The statements on `QList` itself, the copy of the saved colours and the members it
reads are taken as whole: torn reads are undefined and not modelled.
`recreateLedDevice` is a public slot that nothing in this revision calls; it is not
modelled.

### LightpackPluginInterface and ApiServer

`lockSessionKeys` is the list itself. Keys are guids of plugins or API keys
(strings that contain "API"); an API key is modelled by the number of clients
it was made from. `Lock` keeps the odd loop of the code, which may insert a
caller several times: `Inserting` is the list after each turn of it. The signal with the lock status takes two ways: called
directly from the main thread (`TellFromMainThread`) and queued from the API
thread (`TellFromApiThread`). A call is one step: the missing mutual exclusion
of the two threads *within* a call is not modelled. Between whole calls every
plugin in the list is loaded (`LockListInv`), so `Lock` does not meet its exit for a
key whose plugin is not found (`LightpackPluginInterface.cpp:213`). Plugins are reloaded
as in the configuration with a window, the only one that connects
`updatePlugin`. When the settings of the API change, `stopListening` drops the
clients one by one; `StopListening` is one turn of its loop and `stopping` says that
the API thread is in it, so that the main thread may come between two turns.

### SetColorTask

`waiting` is the stack of the nested event loops in which `setcolor:` waits for
its result: only the innermost can return, and while it waits the server goes on
serving the other clients. `isDone` and `isSuccess` are `m_isTaskSetColorDone`
and `m_isTaskSetColorParseSuccess`; a result carries no name, so whoever waits
when it arrives takes it. A colour is named by the client that asked for it and
a command by the LEDs it names; the number 0 stands for text that cannot be
parsed. `ParseSetColor` writes `m_colors` up to the first error, as the loop of
the code does. `since` is history: the requests parsed since all LEDs were last black, from
which `NewestRequestShows` computes, by the numbers of the requests alone, what each LED
must show. The task may be slow without end. A client that waits is not
read again, because `readyRead` is not emitted recursively; it may leave. `holder`
replaces the lock list of `LightpackPluginInterface`: one client at a time.

### LightpackDevice

A slot of the device runs to completion in its thread, but in the middle of any
transfer it may find that the device is gone, close all handles and open them
again, which configures the devices through the same transfers. `todo` is the
call stack of the running slot as a list of statements. Every action takes the
statement at its top and replaces it by those it calls. Handles are addresses of
a small heap: `hid_close` frees one and `hid_open_path` may return it again. A
write through a pointer that was freed is undefined: it reaches the device now
at this address, or nobody. The index past the end of `m_devices`, which a
reopen can make shorter under a loop over the LEDs, reads any handle or none.
The write buffer is what it holds at the first byte, the second and the rest,
enough to tell which order a byte belongs to. `told` records which settings each
device has been sent since it was plugged in. The value of `commandCompleted` is
left open, as in `LedDeviceManager`. A cable moves just before a transfer, a
search or a slot: nothing else can notice it, so this loses no behaviour. `Finding` is
the loop over what `hid_enumerate` returned, after each turn.

### LightpackApplication

The main thread decides which source runs: `GrabManager`, where a hooked game may
take over from the chosen grabber and gives back after a second, or
`MoodLampManager`. `startBacklight` starts and stops the sources and then calls
the manager's `switchOnLeds` or `switchOffLeds` directly, in the main thread,
while the manager may be handling a frame in its own: `main` and `inHand` split
the slots where the other thread can come between. Frames are named by what they
show. The module ends where the manager has accepted a frame and saved it: what its
dispatcher does with it is the subject of `LedDeviceManager`. From there comes what a
switch-off may do here (`SwitchOff`): it is run at once, or it waits (`offWaits`) and
is run later or lost, with a failed command or stranded (`ProcessOffLeds`, without
fairness). `RestoreColors` is the end of `switchOnLeds`, which sends the colours it has
read: what the manager has saved since is not sent again, so the LEDs may keep
older colours until the next frame, and no property says otherwise.
Whether a frame equal to the last is sent depends on a setting and is left open.
`windows` says whether the build hears of the session and has hooked capture whose
`D3D10GrabberImpl::init` has succeeded, chosen once in `Init`. Not modelled: start-up before `initializeAll`, profiles,
which change colours and mode in one go, and the shutdown.

### LightpackFirmware

Hardware 6 and 7. `pc` is the statement of the main loop and the bytes of it that
are left: a 16-bit load or store is two steps in either order, so that `Tick`,
the interrupt handler, may come between any two. Statements keep the order of
the source. Within a tick nothing else happens, as AVR handlers run with
interrupts disabled. `lit` is what the drivers latched. `wanted` and `since` are
history: the last colours asked for, and whether anything but whole frames
happened since the last tick. The cable and the bus act at any time: `UsbConfigured` is also
the interrupt that wakes the bus up. The timer options, whose change
stops the timer for some instructions, the watchdog, and the settings that
hardware 6 does not use (`brightness`, `maxPwmValue`) are left out.

### SoftwarePwm

Hardware 4 and 5 light the LEDs from the timer interrupt: each tick is a slot, a
period ends when the index equals `maxPwmValue`, and only then is the image
faded. Colours are single bytes, so a store is one step, and the interrupt may
come between any two. The channels of the hardware share only the index of the
fade per LED; one channel is modelled. `Width` is the number of values of a byte.
`quiet` and `litSlots` are history: the lit slots of a period in which the main
loop has stored nothing. Brightness, a busy wait between slots, is left out.

## 3. Runs

| run | bounds | shows |
|---|---|---|
| `manager` | 2 values, one command of each shape besides colours and off, 2 events queued or about to be, 1 completion per signal | types, `DispatcherInv`, refinement of `CommandChannel` with its liveness, `BacklogDrains` |
| `manager_dark` | 1 value, 3 events, 2 completions per signal | violation of `NoFrameWhileOff` |
| `api_lock` | 2 clients, 2 plugins, all priorities, 2 events | five properties of the lock |
| `api_exclusive` | 2 clients, no plugins | violation of `OneClientHasAccess` |
| `api_suspended` | 2 clients | violation of `NobodyLocksIsKnown` |
| `setcolor` | 2 clients, 3 commands, 1 or 2 LEDs, 2 requests, 2 events queued | who waits, whose reply it is, `NewestRequestShows`, availability |
| `application` | 2 mood colours, as `Bounded` says; 1 event and 1 frame queued | the two invariants of the sources, silence when locked or off, return of the lamp |
| `app_capture` | 1 mood colour, 1 event and 1 frame queued | violation of `LockSuspendsCapture` |
| `device` | 2 Lightpacks, 2 addresses, 1 setting of each width, 1 reopen interrupted by a cable | configuration, handles, reports, answers, reopening |
| `device_ping` | 1 Lightpack | violation of `TimerFires` |
| `firmware` | 1 LED, 1 channel, shades of three binary digits, slowdowns 0 and 2 | range, `Settles`, `Approaches`, `FadeStarts` |
| `pwm` | bytes of 8 values, shades 0, 2, 7, depths 2 and 7, slowdowns 0 and 2 | types, `DutyCycle`, `PeriodsEnd`, `Approaches`, `Settles` |

Why the bounds are enough. The manager stores, passes on and compares arguments:
two values tell a stale argument from a new one, and two events hold a command behind
another, or a completion behind one. `MaxPending` counts the events queued and those
that a slot or a call has begun to send; it stops callers and devices that answer
repeatedly, not the code. One completion per signal suffices for completions that
nobody expects: the greeting and the ping timer cause them. Two clients and two
plugins make the list of locks hold an API key before two plugins of different
priorities.

`setcolor`: two requests make a late result meet a later request, and nest one
inside the other; the three commands are one that fits, one that names a LED too many
when there is one LED, and one that breaks after its first colour. `MaxQueued`
limits what the application posts, requests of clients are always queued.

`application`: two colours tell the colour a lamp shows from the one it has. They vary
where the lamp is constant; elsewhere, and with the grabbers of Windows, where the
run asks only for the invariants of the sources, the constant one is fixed
(`MCLightpackApplication!Bounded`). Steps beyond
this bound are cut, and the liveness properties hold of what is left: `LampReturns`
speaks of a constant lamp, whose behaviours are all inside, and the two others ask
whose frames they are and not of which colour. A queue of one frame makes frames
wait and callers wait for it, and its frame and the one in hand of the manager are two.

`device`: two Lightpacks make one vanish while the other is written to and let a
reopen return a handle of the other one. `MaxReopens` limits how many transfers
wait for a reopen while a cable is pulled: one nested inside the configuration
of another. Three addresses and two or three interrupted reopens were checked once
for the safety properties (3.9 million states). `Adjustments` is the number of setters that
end in the same resending of colours, 5 in the code and 1 here: they differ in
nothing but their number.

`firmware`: three binary digits give a shade that spans both bytes and needs
both statements of the report (5 = 101), and one that only needs one byte (1); a
slowdown of 2 has one intermediate colour, a slowdown of 0 is the boundary of
the division. LEDs are independent of each other in the code (one loop body
each); channels share `smoothIndex`, and an instance with two channels was
checked once (1.7 million states, four minutes, no error).

`pwm`: eight values make a maximum lowered below the index, the wrap of the index,
a shade above the maximum and one slot more or less all distinct.

Deadlock is checked in all runs.

### Fairness

- `LedDeviceManager!Fairness`: the event loop of the manager runs. A slot or a call
  that has begun goes on (weak fairness). A completion that is queued is delivered, and
  while the deadline runs either a completion is delivered or the deadline fires:
  other slots come between and make these wait, but the loop takes events in order and
  looks at its timers in every round, hence strong fairness. The thread of the
  device takes its events; it need not answer them, but for the command to switch
  off, which every device answers. Callers owe nothing.
- `ApiServer!Spec`: the 5 s timer of the lock fires in the main thread. Clients owe nothing.
- `SetColorTask!Spec`: a loop that waits ends, by a result or by the time it
  measures itself. The task owes nothing.
- `LightpackApplication!Fairness`: the manager's thread and the main thread run.
  Waiting events are handled and the timer of the hooked grabber fires although
  other events of the main thread come between, hence strong fairness for
  these two. Users, clients and games owe nothing.
- `LightpackDevice!Spec`: a slot that runs goes on, and the ping timer fires.
  Nobody has to call a slot, and cables move as they like.
- `LightpackFirmware!Spec`, `SoftwarePwm!Spec`: the timer interrupt comes again
  and again, and the main loop advances (an AVR executes at least one
  instruction after each return from interrupt). The host and the cable owe
  nothing.

### Disagreements with the sources' own words

1. `NoFrameWhileOff`: "Off leds before quit" (`LightpackApplication.cpp:629`),
   "Turn off lights when exiting" (`Software/CHANGELOG:194`). A frame accepted
   after the switch-off has claimed the dispatcher, and before it has written the
   status, waits and is sent after it (`LedDeviceManager.cpp:159-162`, 283, 300). A
   switch-off that waits itself has the same effect, with more steps.
2. `OneClientHasAccess`: lock "blocking access for other clients"
   (`ApiServer.cpp:1207`). A session key is a count of clients, which repeats after
   a disconnection (`ApiServer.cpp:242`): two clients hold one lock.
3. `NobodyLocksIsKnown`: unlock "continues the normal execution"
   (`ApiServer.cpp:1214`). The status of a lock is queued in the API thread; a reload of
   the plugins takes the lock away and tells so directly, and the older status
   is handled after it (`LightpackApplication.cpp:300`).
4. `TimerFires`: "Start ping device with PingDeviceInterval ms after last data
   transfer complete" (`LedDeviceLightpack.cpp:461`). `closeDevices` blocks the
   signals of the timer (447) and nothing unblocks them.
5. `LockSuspendsCapture`: lock "suspends capture" (`ApiServer.cpp:1207`). A game
   takes the capture over without asking for the lock (`GrabManager.cpp:161`).

Shown by the models but promised by nobody: a switch-off of the main thread is stranded
in an idle dispatcher, or lost with a failed command, so that the manager stays on
(`LedDeviceManager.cpp:165`, 185); one that waits runs after the lights were
switched on again and leaves them dark (`LedDeviceManager.cpp:298`); `switchOnLeds`
resends the colours saved last while a client holds the lock, and may send them after
newer ones (`LightpackApplication.cpp:348`); the first frame of a constant mood lamp is
dropped when the lights were off (`LightpackApplication.cpp:334`), a late grab
attempt overwrites the lamp's colour (`GrabManager.cpp:436`), and an API lock left
behind by `guid:` never expires (`ApiServer.cpp:553`).

## 4. Theorems

Every invariant and every action property of the passing runs, and the refinement
of `CommandChannel` without its liveness, is a theorem: it holds for all values of the
constants that meet the assumptions of the modules (`...Assumption`, checked by TLC
in each run), and no bound on the state is used. Each proof module states an
inductive invariant, proves that the initial states have it and that every action
keeps it (a lemma for each group of actions), and draws the theorems from it. The
invariants were checked with TLC before they were proved.

`LedDeviceManager_proofs`, for every command and value, with the two threads interleaved:

- `TypeCorrect`: `SafeSpec => []TypeOK`, one step per action.
- `DispatcherCorrect`: `SafeSpec => []DispatcherInv`. `TypeOK /\ DispatcherInv`
  is inductive. `NoDuplicates` survives `appendCommand` because of its
  `contains` check and `takeFirst` because it only shifts the queue; the call of the
  main thread, which has checked a step earlier, can add a second switch-off and
  no third, as the check of the manager's thread then fails.
  `DeferredIsSaved` (what is saved is the newest argument) because `saveContext`
  precedes `appendCommand`. `OnlyOffIsStranded` because the manager's own posts and
  its `BecomesIdle` are in one thread: between `Settle`, which finds the queue empty,
  and the end of the slot only the other thread appends, and it appends nothing but
  the switch-off. `BusyHasDeadline` because only the command to switch off can be sent
  without a deadline, and its answer then stays to come until it arrives (`AnswerToCome`).
  `RunsTheFirst` because the other thread appends at the end only.
- `DispatcherImplementsChannel`: `SafeSpec => ChannelSafe`. The mapping pairs
  the queue of runners with the newest arguments, and takes the dispatcher for idle
  while a slot is about to send at once. A post on a waiting command changes exactly
  its element, and a command that is run sends what is saved, which `DeferredIsSaved`
  says is the newest argument; `NoDuplicates` says that the rest of the queue keeps
  its arguments when the head is taken. The steps of the main thread map to a claim,
  a late append and a command sent past the queue of the channel.

`ApiServer_proofs`, for finitely many clients and plugins, all priorities and
any queue. Its invariant `IInv` is `TypeOK /\ LockListInv`:

- `TypeCorrect` and `LockListCorrect` (`LockListInv`). The loop of `Lock` inserts the
  caller once before each plugin of a lower priority, while it walks over the same
  list. By induction on its turns the list it leaves holds only the caller and
  what was there, and the head of an API client stays the head, because the loop
  ends at once when it meets one. So a caller that is put first is put before a
  plugin, and no key of an API client moves to a place behind the first.
- `NobodyPreemptsClients` (`NotPreempted`): the head of the list is an API key, and it
  stays the head in every step that is not its own unlock or leaving, that of a client
  with the same key, or a reload: `Lock` of another key puts nothing before it,
  `UnLock` of another key removes only that one, and the timer of the lock spares it.
  The steps that are excluded are named by `OthersStep`, none by what it does to the list.
- `ApiThreadTellsTheTruth` (`ApiThreadTellsStatus`): each way to change the list in
  the API thread queues the status of the new list; the ways that do not change it
  leave the last status told as it was.

`SetColorTask_proofs`, for any clients, commands and numbers of LEDs. Its
invariant is `TaskInv`:

- `TypeCorrect`, `NeverBusyForNothing` (`BusyForAReason`), `RepliesAreOwn`
  (`ReplyIsOwn`) and `FramesAreExplained` (`NewestRequestShows`), each for `Spec`.
- `ParsedOnce`: the requests in the task's queue have different numbers, given
  out before and without an outcome. So a request that has an outcome keeps it,
  and one that fails cannot be overwritten by one that succeeds.
- `OneOnItsWay`: while nothing was given up, one request at most is on its way,
  the latest, in one of the two queues, exactly while `m_isTaskSetColorDone` is
  false. That is why a result, which carries no name, belongs to the innermost
  waiter; `OuterOvertaken` says that all others have been overtaken.
- `InOrder` and `Explained`: the requests in the task's queue are numbered upwards and
  all later than those in `since`. So the one that is parsed is the newest, `GoodIsNamed`
  says that it writes exactly the LEDs that it names up to its first error, and the
  others keep the colour of the request that explained them before.

`LightpackDevice_proofs`, for any number of Lightpacks, handles, parts of a
frame and finitely many settings, without a bound on how deep reopenings nest. Two
invariants, the first about the call stack alone:

- `EverySlotAnswers`: `SafeSpec => []SlotsAnswer`. While an answer is owed, some
  statement on the stack will give it (`AnswerOnStack`), and no statement above it
  takes it away. This is the half of `LedDeviceManager!Counts` that the manager
  cannot do without.
- `ReportsAreWhole`: `SafeSpec => []WholeReports`. `Shape` says that a loop over
  the devices that is not on top stands below the transfer it has begun, and that
  writes stand on top only; `ReopenFirst` that the first transfer that failed
  reopens at once; `LoopIsFilled` that until then the buffer holds what the loop
  sends. `HeededStore` is the arithmetic: a setter overwrites every byte that its
  order reads.
- `TypeCorrect`, `HandlesStayOpen` (`HandlesAreOpen`) and `DevicesAreConfigured`
  (`OpenedIsConfigured`), from `DeviceInv`. `HandlesListed` says that the handles given
  out are those in `m_devices`, so that opening, which takes free ones, gives each
  device one of its own. `StackFits` keeps the loops in the list until a reopen makes
  it shorter. `OpenedIsConfigured` speaks of the moments between slots; `Configuring`
  says the same of every moment: a setting that a device in reach has not been
  sent is still to be sent to it, by an order not begun, by a loop that has not come to
  it or by the transfer to it. A transfer that fails closes the list, and opening it
  again orders every setting. `FoundOnce` is the induction on the loop of the
  search: it finds no Lightpack twice.

`LightpackApplication_proofs`, for every set of colours and every bound of the
queues: `TypeCorrect`, and, from `SourcesInv`, `LampAlwaysTicks` (`LampTicks`) and
`CaptureNeverLost` (`NeverBlind`). `LampTicks` is inductive. `NeverBlind` is not,
since it speaks of the moments when the main thread is in its loop: `SomeGrabber`
says the same of every moment, because `startBacklight` starts the sources before
it returns, and no other step takes a grabber away without putting the other one in
its place.

`LightpackFirmware_proofs`, for every number of digits, LEDs and channels and
every slowdown:

- `TypeCorrect`: `Spec => []TypeOK`. No mixture of bytes that the interrupt can
  see, and no blend it computes from one, leaves the range of a colour, and no
  fade index passes 255. `WithByteShade`, `DigitsShade` and `BlendShade` are the
  arithmetic: a byte replaced in a colour, the two parts of the report, and a
  blend whose index is below its slowdown (the guard of the code; at a slowdown
  of 0 the fade is over and nothing is divided). `TypeOK` alone is not
  inductive, because the loop copies a colour through a register: `TypeInv` adds
  `RegisterHolds`, what the register is known to hold where it is used, and that
  it is a colour as soon as its high byte has been loaded.
- `FadeApproaches` (`Approaches`) and `FadesStart` (`FadeStarts`). `EndInv` says of every
  statement of the main loop which bytes of the frame, or of black, have arrived in
  `images.end`: at rest it is what was asked for last. `FadeInv` says where each
  LED stands in its fade. With nothing written since the last tick it is at its
  end, or shows the blend of its two ends at the index before
  (`Fading`), and `MeanApproaches` is the arithmetic: with one step more the blend does
  not move away from the end, whatever the fixed-point division rounds. With whole
  frames written, each LED behind the loop starts from what it shows with
  its index at 0, or has nothing to fade (`FrameResting`), since the loop copies
  `current` to `start` and clears the index in one report. `FrameWriting` is the same in
  the middle of a report, byte by byte. A tick that falls into a report sets
  `since` to "other", and both properties begin again with the next whole interval.

`SoftwarePwm_proofs`, for every width of a byte, colour, depth and slowdown:

- `TypeCorrect` and `DutyCycleKept` (`DutyCycle`).
  Neither is inductive alone, since the lit slots are counted up and the index might
  wrap. `QuietBelowMaximum` adds that a period without a store begins below its
  maximum and that the maximum is never 0, so it ends before the index wraps.
  `BlendByte` is the arithmetic of the fade, also for a slowdown of 0.
- `FadeApproaches` (`Approaches`), from `FadeInv`: `EndStored`, the end of the fade is the
  colour asked for where the main loop leaves the image alone, and `Fading`, a
  quiet period shows the end or the blend at the index before.

`Lemmas` proves what several of these need. `SetInduction` is induction stated
with a set instead of a predicate (the prover cannot instantiate an operator
parameter); with it the two recursive functions of the models, `Inserting` and
`Finding`, are reasoned about.

Model-checked only, because fairness is beyond the prover: the liveness properties
`ChannelLive`, `BacklogDrains`, `SilentPluginLosesLock`, `BecomesAvailable`,
`FirstReopens`, `LockSilences`, `OffStopsTheLights`, `LampReturns`, `PeriodsEnd` and the two
`Settles`.

## 5. Not modelled

Platform I/O (the grabbers' pictures, serial transport, the transfers below one HID
report), the GUI, settings storage, the wizard, updates and logging; the start-up
and the shutdown of the application. Vendored code (`LUFA`, `third_party`, most
of the tree's lines), examples and other clients are outside the project's own logic:
the map covers the subsystems above and a small share of the whole tree.
Components and reasons are listed in `PROJECT.json`.

Races inside one call of `Lock`, which both the main and the API thread make, are
not modelled: a call is one step. `LedDeviceManager::recreateLedDevice` is not
modelled, since nothing calls it. If `D3D10GrabberImpl::init` fails, hooked capture can
be chosen and delivers nothing, and has no timer to give back: not modelled either.
In `SoftwarePwm` the off flag and a bus that is not configured are one action.

## 6. Plan

Done: the modules above, and the proof of everything they check but liveness. Next,
in this order:

1. An abstract specification of a device, what `LedDeviceManager!Answers` assumes,
   which `LightpackDevice` implements, with its proof.
2. `Lock` and `UnLock` split into their accesses of the list, as `postCommand` is.
3. The start-up, profiles and the shutdown of the application.
