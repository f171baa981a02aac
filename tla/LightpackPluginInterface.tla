---------------------- MODULE LightpackPluginInterface ----------------------
(***************************************************************************)
(* The lock on the set-commands: LightpackPluginInterface                  *)
(* (Software/prismatic/LightpackPluginInterface.cpp) and the status of the *)
(* lock that LightpackApplication keeps to suspend its own colours.        *)
(*                                                                         *)
(* lockSessionKeys is a list: its head holds the lock, the others wait.    *)
(* The thread of the API server locks and unlocks, the main thread lets    *)
(* locks expire and reloads the plugins.  The interface tells the          *)
(* application the status by a signal: the slot is called at once when the *)
(* main thread emits it, and queued when the API thread does.              *)
(* One call is one step, although nothing in the code serialises the two   *)
(* threads.                                                                *)
(***************************************************************************)
EXTENDS Naturals, SequencesExt

CONSTANTS
  Guid,       \* the guids of the plugins
  ApiKey,     \* keys that contain "API", one for each count of clients
  MaxEvents   \* bound: status events that wait for the main thread

ASSUME PluginInterfaceAssumption ==
  /\ IsFiniteSet(Guid) /\ Guid \cap ApiKey = {}
  /\ MaxEvents \in Nat

VARIABLES
  lockSessionKeys,
  lockAlive,
  plugins,       \* the guids of _plugins
  priority,      \* Plugin::getPriority of each plugin
  statusEvents,  \* updateDeviceLockStatus signals queued for the main thread
  lockStatus     \* LightpackApplication::m_deviceLockStatus

interfaceVars ==
  <<lockSessionKeys, lockAlive, plugins, priority, statusEvents, lockStatus>>

Key == Guid \cup ApiKey

(* A plugin without a saved priority has 0                                 *)
Priorities == [Guid -> 0..Cardinality(Guid)]

(* lockAlive has no initialiser, priorities come from the settings file    *)
InterfaceInit ==
  /\ lockSessionKeys = << >>
  /\ lockAlive \in BOOLEAN
  /\ plugins = Guid
  /\ priority \in Priorities
  /\ statusEvents = << >>
  /\ lockStatus = "Unlocked"

-----------------------------------------------------------------------------
(* Telling the application *)

StatusOf(keys) ==
  IF keys = << >> THEN "Unlocked"
  ELSE IF Head(keys) \in ApiKey THEN "Api" ELSE "Plugin"

TellFromApiThread(statuses) ==
  /\ Len(statusEvents \o statuses) <= MaxEvents
  /\ statusEvents' = statusEvents \o statuses
  /\ UNCHANGED lockStatus

TellFromMainThread(status) ==
  /\ lockStatus' = status
  /\ UNCHANGED statusEvents

(* setDeviceLockViaAPI, called from the queue of the main thread           *)
SetDeviceLockViaAPI ==
  /\ statusEvents # << >>
  /\ lockStatus' = Head(statusEvents)
  /\ statusEvents' = Tail(statusEvents)
  /\ UNCHANGED <<lockSessionKeys, lockAlive, plugins, priority>>

-----------------------------------------------------------------------------
(* The operations of the list *)

CheckLock(k) ==
  IF lockSessionKeys = << >> THEN 0 ELSE IF Head(lockSessionKeys) = k THEN 1 ELSE -1

(* The foreach of Lock runs over a copy of the list up to the first key of *)
(* an API client, and inserts k into the list itself before every plugin   *)
(* of a lower priority.                                                    *)
Overtaken ==
  LET first == SelectInSeq(lockSessionKeys, LAMBDA x : x \in ApiKey)
  IN  IF first = 0 THEN lockSessionKeys ELSE SubSeq(lockSessionKeys, 1, first - 1)

InsertBefore(k, keys, x) ==
  IF priority[k] > priority[x]
  THEN InsertAt(keys, SelectInSeq(keys, LAMBDA y : y = x), k)
  ELSE keys

(* The list after each turn of the foreach                                 *)
Inserting(k) ==
  LET keys[i \in 0..Len(Overtaken)] ==
        IF i = 0 THEN lockSessionKeys ELSE InsertBefore(k, keys[i - 1], Overtaken[i])
  IN  keys

KeysWith(k) ==
  LET keys == Inserting(k)[Len(Overtaken)]
  IN  IF Contains(keys, k) THEN keys ELSE Append(keys, k)

(* Mutant: an API client locks a list that is not empty                    *)
CanLock_Anyway(k) ==
  \/ Contains(lockSessionKeys, k)
  \/ k \in ApiKey
  \/ k \in Guid /\ k \in plugins

CanLock(k) ==
  \/ Contains(lockSessionKeys, k)
  \/ k \in ApiKey /\ lockSessionKeys = << >>
  \/ k \in Guid /\ k \in plugins

(* Mutant: the status told is that of the caller, not of the head          *)
Lock_TellsCaller(k) ==
  IF CanLock(k) /\ ~Contains(lockSessionKeys, k)
  THEN /\ lockSessionKeys' = IF k \in ApiKey THEN <<k>> \o lockSessionKeys
                                             ELSE KeysWith(k)
       /\ TellFromApiThread(<<StatusOf(<<k>>)>>)
       /\ lockAlive' = TRUE
       /\ UNCHANGED <<plugins, priority>>
  ELSE UNCHANGED interfaceVars

Lock(k) ==
  IF CanLock(k) /\ ~Contains(lockSessionKeys, k)
  THEN /\ lockSessionKeys' = IF k \in ApiKey THEN <<k>> \o lockSessionKeys
                                             ELSE KeysWith(k)
       /\ TellFromApiThread(<<StatusOf(lockSessionKeys')>>)
       /\ lockAlive' = TRUE
       /\ UNCHANGED <<plugins, priority>>
  ELSE UNCHANGED interfaceVars

(* A key that waits may unlock as well: it leaves the list                 *)
KeysWithout(k) == RemoveFirst(lockSessionKeys, k)

UnLock(k) ==
  IF Contains(lockSessionKeys, k)
  THEN /\ lockSessionKeys' = KeysWithout(k)
       /\ TellFromApiThread(<<StatusOf(lockSessionKeys')>>)
       /\ UNCHANGED <<lockAlive, plugins, priority>>
  ELSE UNCHANGED interfaceVars

(* SetLockAlive, SetColors, SetFrame and SetColor                          *)
SetLockAlive(k) ==
  /\ CheckLock(k) = 1
  /\ lockAlive' = TRUE
  /\ UNCHANGED <<lockSessionKeys, plugins, priority, statusEvents, lockStatus>>

(* Mutant: the lock of an API client expires too                           *)
Expires_Any == ~lockAlive /\ lockSessionKeys # << >>

Expires ==
  /\ ~lockAlive
  /\ lockSessionKeys # << >>
  /\ Head(lockSessionKeys) \notin ApiKey

(* Mutant: the first timeout does not clear lockAlive                      *)
TimeoutLock_KeepsAlive ==
  \/ lockAlive /\ UNCHANGED interfaceVars
  \/ /\ Expires
     /\ lockSessionKeys' = Tail(lockSessionKeys)
     /\ TellFromMainThread(StatusOf(lockSessionKeys'))
     /\ UNCHANGED <<lockAlive, plugins, priority>>

(* timeoutLock, every 5 seconds in the main thread                         *)
TimeoutLock ==
  \/ /\ lockAlive
     /\ lockAlive' = FALSE
     /\ UNCHANGED <<lockSessionKeys, plugins, priority, statusEvents, lockStatus>>
  \/ /\ Expires
     /\ lockSessionKeys' = Tail(lockSessionKeys)
     /\ TellFromMainThread(StatusOf(lockSessionKeys'))
     /\ UNCHANGED <<lockAlive, plugins, priority>>

(* updatePlugin, whenever the process of a plugin starts or ends and when  *)
(* the plugins are reloaded: the head is unlocked, the rest forgotten.     *)
UpdatePlugin(loaded) ==
  /\ lockSessionKeys' = << >>
  /\ IF lockSessionKeys = << >>
       THEN UNCHANGED <<statusEvents, lockStatus>>
       ELSE TellFromMainThread(StatusOf(Tail(lockSessionKeys)))
  /\ plugins' = loaded
  /\ UNCHANGED <<lockAlive, priority>>

(* The user moves a plugin in the list of the settings window: the plugins *)
(* in the list are numbered from the last one up, the others keep theirs.  *)
SavePriorityPlugin ==
  /\ \E p \in Bijection(plugins, 1..Cardinality(plugins)) :
       priority' = [g \in Guid |-> IF g \in plugins THEN p[g] ELSE priority[g]]
  /\ UNCHANGED <<lockSessionKeys, lockAlive, plugins, statusEvents, lockStatus>>

MainThread ==
  \/ SetDeviceLockViaAPI
  \/ TimeoutLock
  \/ \E loaded \in SUBSET Guid : UpdatePlugin(loaded)
  \/ SavePriorityPlugin
=============================================================================
