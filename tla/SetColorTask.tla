---------------------------- MODULE SetColorTask ----------------------------
(***************************************************************************)
(* The "setcolor:" command of the API (Software/prismatic/ApiServer.cpp    *)
(* and ApiServerSetColorTask.cpp).                                         *)
(*                                                                         *)
(* The server parses the colours in the thread of a task and waits for the *)
(* result in a nested event loop, which goes on serving the other clients. *)
(* waiting is the stack of these loops: only the innermost can return.  A  *)
(* result carries no name: it is taken by whoever waits when it arrives.   *)
(* A client that waits is not read again: readyRead is not nested.         *)
(***************************************************************************)
EXTENDS Naturals, SequencesExt

CONSTANTS
  Client,      \* the sockets
  Nobody,      \* no client holds the lock
  Command,     \* the commands: the LEDs they name; 0 is not a number
  LedCounts,   \* numbers of LEDs the settings may name
  MaxRequests, \* bound: setcolor requests
  MaxQueued    \* bound: events of the application that wait for the task

ASSUME SetColorTaskAssumption ==
  /\ Nobody \notin Client
  /\ "black" \notin Client
  /\ Command \subseteq Seq(Nat)
  /\ LedCounts \subseteq Nat /\ LedCounts # {}
  /\ MaxRequests \in Nat /\ MaxQueued \in Nat

VARIABLES
  clients,    \* m_clients
  holder,     \* the client that holds the lock
  isDone,     \* m_isTaskSetColorDone
  isSuccess,  \* m_isTaskSetColorParseSuccess
  waiting,    \* the requests whose loops run, the innermost last
  toTask,     \* events queued for the task: requests, clear, a LED count
  toServer,   \* taskSetColorIsSuccess(ok) queued for the server
  numberOfLeds,
  colors,     \* m_colors: whose colour each LED has; taskParseSetColorDone
              \* passes it on
  count,      \* history: requests made
  parsed,     \* history: for each request, what the parser said of it
  reply,      \* history: the last reply: to which request, and ok or error
  overtaken,  \* history: requests during whose wait another one was sent
  tardy,      \* history: a request was given up before its result came
  since       \* history: the requests parsed since all LEDs were last black

server == <<clients, holder, isDone, isSuccess, waiting>>
task   == <<numberOfLeds, colors, since>>
vars   == <<server, toTask, toServer, task, count, parsed, reply, overtaken, tardy>>

Id == 1..MaxRequests

Request(id, by, command) == [op |-> "parse", id |-> id, by |-> by, leds |-> command]
Clear       == [op |-> "clear"]
Resize(n)   == [op |-> "resize", leds |-> n]
NoReply     == [id |-> 0, ok |-> FALSE]
Black(n)    == [i \in 1..n |-> "black"]

Init ==
  /\ clients = {}
  /\ holder = Nobody
  /\ isDone = TRUE
  /\ isSuccess \in BOOLEAN
  /\ waiting = << >>
  /\ toTask = << >>
  /\ toServer = << >>
  /\ numberOfLeds \in LedCounts
  /\ colors = Black(numberOfLeds)
  /\ count = 0
  /\ parsed = [id \in Id |-> "unknown"]
  /\ reply = NoReply
  /\ overtaken = {}
  /\ tardy = FALSE
  /\ since = {}

-----------------------------------------------------------------------------
(* The server *)

Waits(c) == \E i \in DOMAIN waiting : waiting[i].by = c

Connect(c) ==
  /\ c \notin clients /\ ~Waits(c)
  /\ clients' = clients \cup {c}
  /\ UNCHANGED <<holder, isDone, isSuccess, waiting, toTask, toServer, task, count,
                 parsed, reply, overtaken, tardy>>

(* The client leaves, also while its request waits                         *)
Disconnect(c) ==
  /\ c \in clients
  /\ clients' = clients \ {c}
  /\ holder' = IF holder = c THEN Nobody ELSE holder
  /\ UNCHANGED <<isDone, isSuccess, waiting, toTask, toServer, task, count, parsed,
                 reply, overtaken, tardy>>

LockOrUnlock(c) ==
  /\ c \in clients /\ ~Waits(c)
  /\ \/ holder = Nobody /\ holder' = c
     \/ holder = c /\ holder' = Nobody
  /\ UNCHANGED <<clients, isDone, isSuccess, waiting, toTask, toServer, task, count,
                 parsed, reply, overtaken, tardy>>

(* Mutant: m_isTaskSetColorDone is not asked                               *)
SetColor_Anytime(c, command) ==
  /\ c \in clients /\ ~Waits(c)
  /\ holder = c
  /\ count < MaxRequests
  /\ isDone' = FALSE
  /\ isSuccess' = FALSE
  /\ count' = count + 1
  /\ LET r == Request(count + 1, c, command) IN
       toTask' = Append(toTask, r) /\ waiting' = Append(waiting, r)
  /\ overtaken' = overtaken \cup {r.id : r \in ToSet(waiting)}
  /\ UNCHANGED <<clients, holder, toServer, task, parsed, reply, tardy>>

(* While m_isTaskSetColorDone is false the command is skipped              *)
SetColor(c, command) ==
  /\ c \in clients /\ ~Waits(c)
  /\ holder = c
  /\ isDone
  /\ count < MaxRequests
  /\ isDone' = FALSE
  /\ isSuccess' = FALSE
  /\ count' = count + 1
  /\ LET r == Request(count + 1, c, command) IN
       toTask' = Append(toTask, r) /\ waiting' = Append(waiting, r)
  /\ overtaken' = overtaken \cup {r.id : r \in ToSet(waiting)}
  /\ UNCHANGED <<clients, holder, toServer, task, parsed, reply, tardy>>

TaskSetColorIsSuccess ==
  /\ toServer # << >>
  /\ isDone' = TRUE
  /\ isSuccess' = Head(toServer)
  /\ toServer' = Tail(toServer)
  /\ UNCHANGED <<clients, holder, waiting, toTask, task, count, parsed, reply,
                 overtaken, tardy>>

(* writeData: a client that has left gets no reply                         *)
ReplyTo(r, ok) ==
  reply' = IF r.by \in clients THEN [id |-> r.id, ok |-> ok] ELSE reply

(* The innermost loop ends because a result has come, its own or not       *)
LoopEnds ==
  /\ waiting # << >>
  /\ isDone
  /\ ReplyTo(Last(waiting), isSuccess)
  /\ waiting' = Front(waiting)
  /\ UNCHANGED <<clients, holder, isDone, isSuccess, toTask, toServer, task, count,
                 parsed, overtaken, tardy>>

(* Mutant: setcolor stays unavailable                                      *)
LoopTimesOut_Stuck ==
  /\ waiting # << >>
  /\ ~isDone
  /\ ReplyTo(Last(waiting), FALSE)
  /\ waiting' = Front(waiting)
  /\ tardy' = TRUE
  /\ UNCHANGED <<clients, holder, isDone, isSuccess, toTask, toServer, task, count,
                 parsed, overtaken>>

(* It ends after SignalWaitTimeoutMs; "cmd setcolor is available" again    *)
LoopTimesOut ==
  /\ waiting # << >>
  /\ ~isDone
  /\ ReplyTo(Last(waiting), FALSE)
  /\ waiting' = Front(waiting)
  /\ isDone' = TRUE
  /\ tardy' = TRUE
  /\ UNCHANGED <<clients, holder, isSuccess, toTask, toServer, task, count, parsed,
                 overtaken>>

-----------------------------------------------------------------------------
(* The task *)

(* The application switches the lights off, or the settings name another   *)
(* number of LEDs                                                          *)
Post(event) ==
  /\ Len(toTask) < MaxQueued
  /\ toTask' = Append(toTask, event)
  /\ UNCHANGED <<server, toServer, task, count, parsed, reply, overtaken, tardy>>

(* Mutant: a single command that cannot be parsed is skipped               *)
Good_Skips(leds) == SelectSeq(leds, LAMBDA n : n \in 1..Len(colors))

(* The single commands before the first one that cannot be parsed          *)
Good(leds) ==
  LET bad == SelectInSeq(leds, LAMBDA n : n \notin 1..Len(colors))
  IN  IF bad = 0 THEN leds ELSE SubSeq(leds, 1, bad - 1)

Coloured(frame, leds, c) ==
  [i \in DOMAIN frame |-> IF Contains(leds, i) THEN c ELSE frame[i]]

(* startParseSetColorTask: m_colors is written while the buffer is parsed  *)
ParseSetColor ==
  /\ toTask # << >> /\ Head(toTask).op = "parse"
  /\ LET r  == Head(toTask)
         ok == r.leds # << >> /\ Good(r.leds) = r.leds
     IN  /\ colors' = Coloured(colors, Good(r.leds), r.by)
         /\ since' = since \cup {r}
         /\ toServer' = Append(toServer, ok)
         /\ parsed' = [parsed EXCEPT ![r.id] = IF ok THEN "ok" ELSE "error"]
  /\ toTask' = Tail(toTask)
  /\ UNCHANGED <<server, numberOfLeds, count, reply, overtaken, tardy>>

(* Mutant: the loop over the LEDs stops one too early                      *)
Reinit_Short ==
  /\ toTask # << >> /\ Head(toTask).op # "parse"
  /\ numberOfLeds' = IF Head(toTask) = Clear THEN numberOfLeds ELSE Head(toTask).leds
  /\ colors' = Black(numberOfLeds' - 1)
  /\ since' = {}
  /\ toTask' = Tail(toTask)
  /\ UNCHANGED <<server, toServer, count, parsed, reply, overtaken, tardy>>

(* reinitColorBuffers and setApiDeviceNumberOfLeds                         *)
Reinit ==
  /\ toTask # << >> /\ Head(toTask).op # "parse"
  /\ numberOfLeds' = IF Head(toTask) = Clear THEN numberOfLeds ELSE Head(toTask).leds
  /\ colors' = Black(numberOfLeds')
  /\ since' = {}
  /\ toTask' = Tail(toTask)
  /\ UNCHANGED <<server, toServer, count, parsed, reply, overtaken, tardy>>

-----------------------------------------------------------------------------
Next ==
  \/ \E c \in Client : Connect(c)
  \/ \E c \in Client : Disconnect(c)
  \/ \E c \in Client : LockOrUnlock(c)
  \/ \E c \in Client, command \in Command : SetColor(c, command)
  \/ TaskSetColorIsSuccess
  \/ LoopEnds
  \/ LoopTimesOut
  \/ Post(Clear)
  \/ \E n \in LedCounts : Post(Resize(n))
  \/ ParseSetColor
  \/ Reinit

(* A loop that waits measures the time itself.  The task may be slow or    *)
(* stuck, and clients owe nothing.                                         *)
Spec == Init /\ [][Next]_vars /\ WF_vars(LoopEnds \/ LoopTimesOut)

-----------------------------------------------------------------------------
(* What must hold *)

Frames == UNION {[1..n -> Client \cup {"black"}] : n \in LedCounts}

TypeOK ==
  /\ clients \subseteq Client
  /\ holder \in Client \cup {Nobody}
  /\ {isDone, isSuccess, tardy} \subseteq BOOLEAN
  /\ waiting \in Seq([op : {"parse"}, id : Id, by : Client, leds : Command])
  /\ toServer \in Seq(BOOLEAN)
  /\ numberOfLeds \in LedCounts
  /\ colors \in Frames
  /\ parsed \in [Id -> {"unknown", "ok", "error"}]
  /\ overtaken \subseteq Id

(* As long as setcolor is unavailable somebody waits for it, and the       *)
(* result of the one who waits innermost is still to come: it is never     *)
(* unavailable for nothing.                                                *)
BusyForAReason ==
  ~isDone => /\ waiting # << >>
             /\ parsed[Last(waiting).id] = "unknown" \/ toServer # << >>

(* Only a late result and a nested request can mix up replies: the others  *)
(* say of the request what the parser said of it.                          *)
ReplyIsOwn ==
  reply # NoReply /\ ~tardy /\ reply.id \notin overtaken =>
    parsed[reply.id] = IF reply.ok THEN "ok" ELSE "error"

(* A request names an LED, if the parser gets that far                     *)
Names(r, n) ==
  \E i \in DOMAIN r.leds :
    r.leds[i] = n /\ \A j \in 1..i : r.leds[j] \in 1..numberOfLeds

(* There is a colour for each LED of the settings, and each LED has the    *)
(* colour of the newest request that names it since the colours were last  *)
(* cleared or resized, in the order in which the server made the requests, *)
(* however many were given up, overtaken or refused in between.  A request *)
(* that fails counts as far as it was parsed: its client is told "error",  *)
(* and the next frame, also that of another client, shows what it left.    *)
NewestRequestShows ==
  /\ Len(colors) = numberOfLeds
  /\ \A n \in DOMAIN colors :
       LET named == {r \in since : Names(r, n)}
       IN  IF named = {} THEN colors[n] = "black"
           ELSE \E r \in named : /\ colors[n] = r.by
                                 /\ \A other \in named : other.id <= r.id

(* "cmd setcolor is available" (ApiServer.cpp:640): setcolor becomes       *)
(* available again, however slow the task is.                              *)
BecomesAvailable == ~isDone ~> isDone

=============================================================================
