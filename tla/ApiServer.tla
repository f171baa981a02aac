----------------------------- MODULE ApiServer -----------------------------
(***************************************************************************)
(* The sessions of the API server (Software/prismatic/ApiServer.cpp) and   *)
(* what they do to the lock of LightpackPluginInterface.  A client starts  *)
(* with a key made from the number of clients at that moment, and may take *)
(* the guid of a plugin for its key instead.                               *)
(***************************************************************************)
EXTENDS LightpackPluginInterface

CONSTANTS
  Client,   \* the sockets
  NoKey     \* the socket is not in m_clients

ASSUME ApiServerAssumption ==
  /\ IsFiniteSet(Client)
  /\ ApiKey = 0..(Cardinality(Client) - 1)
  /\ NoKey \notin Guid \cup ApiKey

VARIABLES
  sessionKey,  \* m_clients: the session key of every connected socket
  stopping     \* the API thread is in the loop of stopListening

vars == <<interfaceVars, sessionKey, stopping>>

Clients == {c \in Client : sessionKey[c] # NoKey}

Init ==
  /\ InterfaceInit
  /\ sessionKey = [c \in Client |-> NoKey]
  /\ stopping = FALSE

-----------------------------------------------------------------------------
(* Mutant: the clients are counted after the new one was inserted          *)
IncomingConnection_Late(c) ==
  /\ ~stopping /\ c \notin Clients
  /\ sessionKey' = [sessionKey EXCEPT ![c] = Cardinality(Clients) + 1]
  /\ UNCHANGED <<interfaceVars, stopping>>

IncomingConnection(c) ==
  /\ ~stopping /\ c \notin Clients
  /\ sessionKey' = [sessionKey EXCEPT ![c] = Cardinality(Clients)]
  /\ UNCHANGED <<interfaceVars, stopping>>

(* Only the holder gives its lock back; a key that waits stays behind      *)
Drop(c) ==
  /\ c \in Clients
  /\ IF CheckLock(sessionKey[c]) = 1 THEN UnLock(sessionKey[c])
                                     ELSE UNCHANGED interfaceVars
  /\ sessionKey' = [sessionKey EXCEPT ![c] = NoKey]

ClientDisconnected(c) == ~stopping /\ Drop(c) /\ UNCHANGED stopping

(* The settings of the API changed: one turn of the loop that drops every  *)
(* client, in the order of the addresses of the sockets.  The main thread  *)
(* goes on meanwhile.                                                      *)
StopListening(c) == Drop(c) /\ stopping' = (Clients # {c})

(* A command of a client that is connected                                 *)
Command(c) == ~stopping /\ c \in Clients /\ UNCHANGED stopping

(* "guid:" gives the session the key of a plugin, and keeps its locks      *)
CmdGuid(c, g) ==
  /\ Command(c)
  /\ g \in plugins
  /\ sessionKey' = [sessionKey EXCEPT ![c] = g]
  /\ UNCHANGED interfaceVars

CmdLock(c) ==
  /\ Command(c)
  /\ Lock(sessionKey[c])
  /\ UNCHANGED sessionKey

CmdUnlock(c) ==
  /\ Command(c)
  /\ UnLock(sessionKey[c])
  /\ UNCHANGED sessionKey

(* "setcolor:" keeps the lock alive; the other set-commands do not         *)
CmdSetColor(c) ==
  /\ Command(c)
  /\ SetLockAlive(sessionKey[c])
  /\ UNCHANGED sessionKey

(* What a client does to the lock by giving it back or by going            *)
GivesBack(c) == CmdUnlock(c) \/ ClientDisconnected(c) \/ StopListening(c)

GoesOn(c) ==
  \/ IncomingConnection(c)
  \/ \E g \in Guid : CmdGuid(c, g)
  \/ CmdLock(c)
  \/ CmdSetColor(c)

ApiThread == \E c \in Client : GivesBack(c) \/ GoesOn(c)

Next == ApiThread \/ (MainThread /\ UNCHANGED <<sessionKey, stopping>>)

(* The timer of the lock fires for ever in a main thread that runs its     *)
(* events; no client has to do anything.                                   *)
Spec == Init /\ [][Next]_vars /\ WF_vars(TimeoutLock /\ UNCHANGED <<sessionKey, stopping>>)

-----------------------------------------------------------------------------
(* What must hold *)

TypeOK ==
  /\ lockSessionKeys \in Seq(Key)
  /\ lockAlive \in BOOLEAN
  /\ plugins \subseteq Guid
  /\ priority \in Priorities
  /\ statusEvents \in Seq({"Unlocked", "Api", "Plugin"})
  /\ lockStatus \in {"Unlocked", "Api", "Plugin"}
  /\ sessionKey \in [Client -> Key \cup {NoKey}]
  /\ stopping \in BOOLEAN

(* The key of an API client holds the lock or is not in the list: it never *)
(* waits, and no plugin, whatever its priority, is put before it.  Every   *)
(* plugin in the list is loaded, so that Lock finds its priority.          *)
LockListInv ==
  /\ \A i \in DOMAIN lockSessionKeys : lockSessionKeys[i] \in ApiKey => i = 1
  /\ ToSet(lockSessionKeys) \cap Guid \subseteq plugins

(* The steps of everybody but the clients with the key k that unlock or    *)
(* leave: all commands of the others, their leaving, the timer, the queue  *)
(* and the priorities.  Only updatePlugin is not among them.               *)
OthersStep(k) ==
  \/ /\ TimeoutLock \/ SavePriorityPlugin \/ SetDeviceLockViaAPI
     /\ UNCHANGED <<sessionKey, stopping>>
  \/ \E c \in Client : GoesOn(c) \/ (sessionKey[c] # k /\ GivesBack(c))

(* An API client loses its lock to nobody else: not to the timer, not to a *)
(* lock of a plugin of any priority, and not to a client with another key  *)
(* that unlocks, disconnects or is dropped, whether other keys wait in the *)
(* list or not.  Its own unlock and leaving, and updatePlugin, which       *)
(* forgets the whole list, are the only ways out.                          *)
NotPreempted ==
  [][\A k \in ApiKey : CheckLock(k) = 1 /\ OthersStep(k) => CheckLock(k)' = 1]_vars

(* What the application knows of the lock once its queue is empty          *)
Told == IF statusEvents = << >> THEN lockStatus ELSE Last(statusEvents)

(* Whatever the API thread does, the last status it tells is the status of *)
(* the list, if that was so before.                                        *)
ApiThreadTellsStatus ==
  [][Told = StatusOf(lockSessionKeys) /\ ~MainThread
       => Told' = StatusOf(lockSessionKeys')]_vars

(* A plugin that holds the lock and says nothing loses it, or somebody     *)
(* refreshes the lock for ever.                                            *)
SilentPluginLosesLock ==
  \A g \in Guid : \/ []<>(CheckLock(g) # 1)
                  \/ []<><<~lockAlive /\ lockAlive'>>_vars

-----------------------------------------------------------------------------
(* What the help of the API says and the code does not do                  *)

(* "blocking access for other clients to set-commands" (ApiServer.cpp:1207) *)
OneClientHasAccess ==
  \A c, d \in Clients : CheckLock(sessionKey[c]) = 1 /\ CheckLock(sessionKey[d]) = 1
                          => c = d

(* Unlock "continues the normal execution of the application"              *)
(* (ApiServer.cpp:1214): with no key in the list and no signal on its way, *)
(* the application knows it is unlocked.                                   *)
NobodyLocksIsKnown ==
  lockSessionKeys = << >> /\ statusEvents = << >> => lockStatus = "Unlocked"
=============================================================================
