------------------------ MODULE SetColorTask_proofs ------------------------
(* What is proved of the wait for the setcolor task, for any number of       *)
(* clients, commands and LEDs and every bound: who waits, whose reply it is, *)
(* and what a frame consists of.                                             *)
EXTENDS SetColorTask, Lemmas

-----------------------------------------------------------------------------
(* The inductive invariant *)

Requests == [op : {"parse"}, id : Id, by : Client, leds : Command]
Events   == Requests \cup {Clear} \cup {Resize(n) : n \in LedCounts}

(* Where in the queue of the task the requests are                           *)
Pending == {i \in 1..Len(toTask) : toTask[i].op = "parse"}

Outcome(ok) == IF ok THEN "ok" ELSE "error"

(* The types that TypeOK leaves out, and the length of a frame               *)
HistoryType ==
  /\ count \in 0..MaxRequests
  /\ toTask \in Seq(Events)
  /\ reply = NoReply \/ reply \in [id : Id, ok : BOOLEAN]
  /\ colors \in [1..numberOfLeds -> Client \cup {"black"}]
  /\ since \subseteq Requests

(* A request is parsed once: those in the queue have distinct numbers, which *)
(* were given out, and no other number has an outcome before its request.    *)
ParsedOnce ==
  /\ \A i \in Pending : toTask[i].id <= count /\ parsed[toTask[i].id] = "unknown"
  /\ \A i, j \in Pending : toTask[i].id = toTask[j].id => i = j
  /\ \A id \in Id : id > count => parsed[id] = "unknown"

(* The requests reach the task in the order in which they were made.         *)
InOrder ==
  /\ \A i, j \in Pending : i < j => toTask[i].id < toTask[j].id
  /\ \A r \in since : r.id <= count /\ \A i \in Pending : r.id < toTask[i].id

(* All who wait, except the innermost, have been overtaken                   *)
OuterOvertaken == \A i \in 1..Len(waiting) - 1 : waiting[i].id \in overtaken

(* While nothing was given up, at most one request is on its way: the latest *)
(* one, in one of the two queues, for as long as setcolor is unavailable.    *)
OneOnItsWay ==
  ~tardy =>
    /\ isDone => Pending = {} /\ toServer = << >>
    /\ ~isDone =>
         /\ Last(waiting).id = count
         /\ \/ toServer = << >> /\ \A i \in Pending : toTask[i].id = count
            \/ /\ Pending = {}
               /\ \E ok \in BOOLEAN : toServer = <<ok>> /\ parsed[count] = Outcome(ok)

(* ... and what the server remembers is the outcome of who waits for it      *)
RemembersOutcome ==
  ~tardy /\ isDone /\ waiting # << >> /\ Last(waiting).id \notin overtaken =>
    parsed[Last(waiting).id] = Outcome(isSuccess)

(* A request explains the colour of an LED: no later one names it.           *)
Explains(r, n) ==
  /\ Names(r, n)
  /\ colors[n] = r.by
  /\ \A other \in since : Names(other, n) => other.id <= r.id

(* An LED is black until a request names it; then the newest one shows.      *)
Explained ==
  \A n \in 1..numberOfLeds :
    \/ colors[n] = "black" /\ \A r \in since : ~Names(r, n)
    \/ \E r \in since : Explains(r, n)

TaskInv ==
  /\ TypeOK
  /\ HistoryType
  /\ ParsedOnce
  /\ BusyForAReason
  /\ OuterOvertaken
  /\ OneOnItsWay
  /\ RemembersOutcome
  /\ ReplyIsOwn
  /\ InOrder
  /\ Explained

-----------------------------------------------------------------------------
(* Frames *)

(* A function on 1..n is a sequence of length n.                             *)
LEMMA LengthOfFrame ==
  ASSUME NEW S, NEW n \in Nat, NEW f \in [1..n -> S]
  PROVE  Len(f) = n
<1>1. f \in Seq(S)
  OBVIOUS
<1>2. Len(f) \in Nat /\ DOMAIN f = 1..Len(f) /\ DOMAIN f = 1..n
  BY <1>1, LenProperties
<1>3. QED
  BY <1>2, SMT

(* A cleared frame is black in each of its LEDs.                             *)
LEMMA BlackIsFrame ==
  ASSUME NEW n
  PROVE  Black(n) \in [1..n -> Client \cup {"black"}]
BY DEF Black

(* A command that names LEDs leaves a frame of the same length.              *)
LEMMA ColouredIsFrame ==
  ASSUME NEW n, NEW frame \in [1..n -> Client \cup {"black"}], NEW leds, NEW c \in Client
  PROVE  Coloured(frame, leds, c) \in [1..n -> Client \cup {"black"}]
BY DEF Coloured

(* The frames for the number of LEDs that is set are frames.                 *)
LEMMA FrameOfSettings ==
  ASSUME numberOfLeds \in LedCounts
  PROVE  [1..numberOfLeds -> Client \cup {"black"}] \subseteq Frames
BY DEF Frames

(* The LEDs of the single commands that are parsed are those the request     *)
(* names.                                                                    *)
LEMMA GoodIsNamed ==
  ASSUME NEW r, r.leds \in Seq(Nat), Len(colors) = numberOfLeds, NEW n
  PROVE  Contains(Good(r.leds), n) <=> Names(r, n)
<1> DEFINE L == r.leds
           I == {i \in 1..Len(L) : L[i] \notin 1..Len(colors)}
<1>0. Len(L) \in Nat /\ DOMAIN L = 1..Len(L)
  BY LenProperties
<1>1. CASE I = {}
  <2>1. Good(L) = L
    BY <1>0, <1>1 DEF Good, SelectInSeq
  <2>2. \A i \in 1..Len(L) : \A j \in 1..i : j \in 1..Len(L) /\ L[j] \in 1..numberOfLeds
    <3>1. \A i \in 1..Len(L) : \A j \in 1..i : j \in 1..Len(L)
      BY <1>0
    <3>2. QED
      BY <1>1, <3>1
  <2>3. QED
    BY <1>0, <2>1, <2>2 DEF Contains, Names
<1>2. CASE I # {}
  <2> DEFINE p == Min(I)
             s == SubSeq(L, 1, p - 1)
  <2>1. \E i \in I : \A j \in I : i <= j
    <3>1. I \subseteq Nat
      BY <1>0
    <3>2. QED
      BY <1>2, <3>1, LeastNatural
  <2>2. p \in I /\ \A j \in I : p <= j
    BY <2>1 DEF Min
  <2>3. p \in 1..Len(L) /\ p # 0
    BY <2>2
  <2>4. Good(L) = s
    BY <1>0, <1>2, <2>3 DEF Good, SelectInSeq
  <2> HIDE DEF p
  <2>5. /\ Len(s) = p - 1
        /\ \A i \in 1..(p - 1) : s[i] = L[i]
    <3>0. p - 1 \in Nat /\ \A i \in 1..(p - 1) : i \in 1..Len(L)
      BY <1>0, <2>3
    <3>1. \A i \in 1..(p - 1) : L[i] \in Nat
      BY <3>0, ElementOfSeq
    <3>2. /\ Len(s) = IF 1 <= p - 1 THEN p - 1 - 1 + 1 ELSE 0
          /\ \A i \in 1..(p - 1 - 1 + 1) : s[i] = L[1 + i - 1]
      BY <2>3, <3>0, <3>1, SubSeqProperties
    <3>3. QED
      BY <2>3, <3>2
  <2>6. \A i \in 1..(p - 1) : i \in 1..Len(L) /\ L[i] \in 1..numberOfLeds
    <3>1. \A i \in 1..(p - 1) : i \in 1..Len(L) /\ ~(p <= i)
      BY <1>0, <2>3
    <3>2. QED
      BY <2>2, <3>1
  <2>7. ASSUME Names(r, n) PROVE \E i \in 1..(p - 1) : L[i] = n
    <3>1. PICK i \in 1..Len(L) : L[i] = n /\ \A j \in 1..i : L[j] \in 1..numberOfLeds
      BY <1>0, <2>7 DEF Names
    <3>2. p \notin 1..i
      BY <2>2, <3>1
    <3>3. i \in 1..(p - 1)
      BY <1>0, <2>3, <3>2
    <3>4. QED
      BY <3>1, <3>3
  <2>8. ASSUME NEW i \in 1..(p - 1), L[i] = n PROVE Names(r, n)
    <3>1. \A j \in 1..i : j \in 1..(p - 1)
      BY <2>3
    <3>2. QED
      BY <1>0, <2>6, <2>8, <3>1 DEF Names
  <2>9. QED
    BY <2>4, <2>5, <2>7, <2>8 DEF Contains
<1>3. QED
  BY <1>1, <1>2

-----------------------------------------------------------------------------
(* The queue of the task *)

(* An event for the task is a request, a clearing or a new number of LEDs.   *)
LEMMA EventType ==
  ASSUME NEW e \in Events
  PROVE  /\ e.op = "parse" => e \in Requests
         /\ e.op # "parse" => e = Clear \/ \E n \in LedCounts : e = Resize(n)
BY DEF Events, Requests, Clear, Resize

(* What is added stands last, what is taken stood first.                     *)
LEMMA Appended ==
  ASSUME TypeOK, HistoryType, NEW e \in Events, toTask' = Append(toTask, e)
  PROVE  /\ toTask' \in Seq(Events)
         /\ Len(toTask) \in Nat
         /\ \A i \in Pending : i \in Pending' /\ toTask'[i] = toTask[i]
         /\ \A i \in Pending' :
              \/ i \in Pending /\ toTask'[i] = toTask[i]
              \/ i = Len(toTask) + 1 /\ toTask'[i] = e /\ e.op = "parse"
<1>1. /\ toTask' \in Seq(Events) /\ Len(toTask) \in Nat
      /\ Len(toTask') = Len(toTask) + 1
      /\ \A i \in 1..Len(toTask) : toTask'[i] = toTask[i]
      /\ toTask'[Len(toTask) + 1] = e
  BY AppendProperties, LenProperties DEF HistoryType
<1>2. \A i \in 1..Len(toTask') : i \in 1..Len(toTask) \/ i = Len(toTask) + 1
  BY <1>1
<1>3. 1..Len(toTask) \subseteq 1..Len(toTask')
  BY <1>1
<1>4. QED
  BY <1>1, <1>2, <1>3 DEF Pending

(* What the task takes is the oldest event; the requests behind it move up   *)
(* by one.                                                                   *)
LEMMA Taken ==
  ASSUME TypeOK, HistoryType, toTask # << >>, toTask' = Tail(toTask)
  PROVE  /\ toTask' \in Seq(Events)
         /\ Head(toTask) \in Events
         /\ Head(toTask).op = "parse" => 1 \in Pending /\ toTask[1] = Head(toTask)
         /\ \A i \in Pending' : i + 1 \in Pending /\ i \in Nat \ {0}
                                  /\ toTask'[i] = toTask[i + 1]
<1>1. /\ toTask' \in Seq(Events) /\ Head(toTask) \in Events
      /\ Len(toTask) \in Nat \ {0}
      /\ Len(toTask') = Len(toTask) - 1
      /\ \A i \in 1..Len(toTask') : toTask'[i] = toTask[i + 1]
  BY HeadTailProperties, EmptySeq DEF HistoryType
<1>2. toTask[1] = Head(toTask)
  BY <1>1 DEF HistoryType
<1>3. 1 \in 1..Len(toTask) /\ \A i \in 1..Len(toTask') : i + 1 \in 1..Len(toTask)
  BY <1>1
<1>4. QED
  BY <1>1, <1>2, <1>3 DEF Pending

(* The colours stay explained by steps that leave the task alone.            *)
LEMMA SameFrame ==
  ASSUME UNCHANGED task
  PROVE  Explained' <=> Explained
BY DEF task, Explained, Explains, Names

(* The requests stay in order while none is made or taken.                   *)
LEMMA SameOrder ==
  ASSUME UNCHANGED <<toTask, task, count>>
  PROVE  InOrder' <=> InOrder
BY DEF task, InOrder, Pending

-----------------------------------------------------------------------------
(* Init *)

(* Nobody waits at the start and no request has been made.                   *)
LEMMA InitInv == Init => TaskInv
<1> SUFFICES ASSUME Init PROVE TaskInv
  OBVIOUS
<1>1. numberOfLeds \in LedCounts /\ colors \in [1..numberOfLeds -> Client \cup {"black"}]
  BY BlackIsFrame DEF Init
<1>2. Pending = {} /\ Len(toTask) = 0 /\ Len(waiting) = 0
  BY DEF Init, Pending
<1>3. TypeOK
  <2>1. waiting \in Seq([op : {"parse"}, id : Id, by : Client, leds : Command]) /\ toServer \in Seq(BOOLEAN)
    BY EmptySeq DEF Init
  <2>2. QED
    BY <1>1, <2>1, FrameOfSettings DEF Init, TypeOK
<1>4. HistoryType
  <2>1. toTask \in Seq(Events)
    BY EmptySeq DEF Init
  <2>2. count \in 0..MaxRequests
    BY SetColorTaskAssumption DEF Init
  <2>3. QED
    BY <1>1, <2>1, <2>2 DEF Init, HistoryType
<1>5. ParsedOnce
  BY <1>2 DEF Init, ParsedOnce
<1>6. InOrder /\ Explained
  BY <1>2 DEF Init, InOrder, Explained, Black
<1>7. QED
  BY <1>2, <1>3, <1>4, <1>5, <1>6 DEF Init, TaskInv, BusyForAReason, OuterOvertaken, OneOnItsWay,
     RemembersOutcome, ReplyIsOwn

-----------------------------------------------------------------------------
(* The server *)

(* What the steps leave alone that touch neither the queues nor a history.   *)
LEMMA SameQueue ==
  ASSUME UNCHANGED toTask
  PROVE  Pending' = Pending
BY DEF Pending

(* Clients that come, leave, lock or unlock keep TaskInv.                    *)
LEMMA ClientsInv ==
  ASSUME TaskInv,
         \E c \in Client : Connect(c) \/ Disconnect(c) \/ LockOrUnlock(c)
  PROVE  TaskInv'
<1> USE DEF TaskInv
<1>1. /\ UNCHANGED <<isDone, isSuccess, waiting, toTask, toServer, task, count, parsed,
                     reply, overtaken, tardy>>
      /\ clients' \subseteq Client
      /\ holder' \in Client \cup {Nobody}
  BY DEF Connect, Disconnect, LockOrUnlock, TypeOK
<1>2. TypeOK'
  BY <1>1 DEF TypeOK, task
<1>3. InOrder' /\ Explained'
  BY <1>1, SameFrame, SameOrder
<1>4. QED
  BY <1>1, <1>2, <1>3, SameQueue DEF task, HistoryType, ParsedOnce, BusyForAReason, OuterOvertaken,
     OneOnItsWay, RemembersOutcome, ReplyIsOwn

(* A new request has a number that nothing is known of, and its client waits *)
(* innermost; all who waited before are overtaken.                           *)
LEMMA SetColorInv ==
  ASSUME TaskInv, NEW c \in Client, NEW command \in Command, SetColor(c, command)
  PROVE  TaskInv'
<1> USE DEF TaskInv
<1> DEFINE r == Request(count + 1, c, command)
<1>1. /\ isDone /\ isDone' = FALSE /\ isSuccess' = FALSE
      /\ count' = count + 1 /\ count + 1 \in Id /\ count \in Nat
      /\ toTask' = Append(toTask, r)
      /\ waiting' = Append(waiting, r)
      /\ overtaken' = overtaken \cup {q.id : q \in ToSet(waiting)}
      /\ UNCHANGED <<clients, holder, toServer, task, parsed, reply, tardy>>
  BY SetColorTaskAssumption DEF SetColor, HistoryType, Id
<1>2. r \in Requests /\ r \in Events /\ r.id = count + 1
  BY <1>1 DEF Request, Requests, Events
<1> HIDE DEF r
<1>3. /\ waiting' \in Seq(Requests) /\ waiting' # << >>
      /\ Len(waiting) \in Nat /\ Len(waiting') = Len(waiting) + 1
      /\ \A i \in 1..Len(waiting) : waiting'[i] = waiting[i]
      /\ Last(waiting') = r
  <2>1. waiting \in Seq(Requests)
    BY DEF TypeOK, Requests
  <2>2. QED
    BY <1>1, <1>2, <2>1, AppendProperties, LenProperties DEF Last
<1>4. \A i \in 1..Len(waiting) : waiting[i].id \in overtaken' /\ waiting[i].id \in Id
  <2>1. \A i \in 1..Len(waiting) : waiting[i] \in Requests /\ waiting[i] \in ToSet(waiting)
    BY ElementOfSeq, LenProperties DEF TypeOK, Requests, ToSet
  <2>2. QED
    BY <1>1, <2>1 DEF Requests
<1>5. overtaken' \subseteq Id
  <2>1. waiting \in Seq(Requests)
    BY DEF TypeOK, Requests
  <2>2. \A q \in ToSet(waiting) : \E i \in 1..Len(waiting) : q = waiting[i]
    BY <2>1, LenProperties DEF ToSet
  <2>3. \A q \in ToSet(waiting) : q.id \in Id
    BY <1>4, <2>2
  <2>4. QED
    BY <1>1, <2>3 DEF TypeOK
<1>6. /\ toTask' \in Seq(Events)
      /\ \A i \in Pending' : \/ i \in Pending /\ toTask'[i] = toTask[i]
                             \/ i = Len(toTask) + 1 /\ toTask'[i] = r
  BY <1>1, <1>2, Appended
<1>7. TypeOK' /\ HistoryType'
  <2>1. TypeOK'
    BY <1>1, <1>3, <1>5 DEF TypeOK, Requests, task
  <2>2. count' \in 0..MaxRequests
    BY <1>1, SetColorTaskAssumption DEF Id
  <2>3. QED
    BY <1>1, <1>6, <2>1, <2>2 DEF HistoryType, task
<1>8. ParsedOnce'
  <2>1. \A i \in Pending : toTask[i].id \in Id /\ toTask[i].id <= count
    BY EventType, ElementOfSeq DEF Pending, Requests, HistoryType, ParsedOnce
  <2>2. \A i \in Pending' : toTask'[i].id <= count' /\ parsed'[toTask'[i].id] = "unknown"
    <3>1. \A i \in Pending : toTask[i].id <= count' /\ parsed'[toTask[i].id] = "unknown"
      BY <1>1, <2>1 DEF ParsedOnce, Id
    <3>2. r.id <= count' /\ parsed'[r.id] = "unknown"
      BY <1>1, <1>2 DEF ParsedOnce
    <3>3. QED
      BY <1>6, <3>1, <3>2
  <2>3. \A i \in Pending : toTask[i].id # count + 1
    BY <1>1, <2>1 DEF Id
  <2>4. \A i, j \in Pending' : toTask'[i].id = toTask'[j].id => i = j
    BY <1>2, <1>6, <2>3 DEF ParsedOnce
  <2>5. \A id \in Id : id > count' => parsed'[id] = "unknown"
    BY <1>1 DEF ParsedOnce, Id
  <2>6. QED
    BY <2>2, <2>4, <2>5 DEF ParsedOnce
<1>9. parsed'[count'] = "unknown"
  BY <1>1 DEF ParsedOnce
<1>10. BusyForAReason'
  BY <1>1, <1>2, <1>3, <1>9 DEF BusyForAReason
<1>11. OuterOvertaken'
  BY <1>3, <1>4 DEF OuterOvertaken
<1>12. OneOnItsWay'
  BY <1>1, <1>2, <1>3, <1>6 DEF OneOnItsWay
<1>13. InOrder'
  <2>1. \A i \in Pending : i <= Len(toTask) /\ i \in Nat /\ toTask[i].id <= count
                               /\ toTask[i].id \in Nat
    <3>1. \A i \in Pending : toTask[i] \in Requests
      BY EventType, ElementOfSeq DEF Pending, HistoryType
    <3>2. QED
      BY <3>1 DEF Pending, ParsedOnce, Requests, Id
  <2>2. \A i, j \in Pending' : i < j => toTask'[i].id < toTask'[j].id
    <3>1. SUFFICES ASSUME NEW i \in Pending', NEW j \in Pending', i < j
                   PROVE  toTask'[i].id < toTask'[j].id
      OBVIOUS
    <3>0. Len(toTask) \in Nat
      BY LenProperties DEF HistoryType
    <3>2. i \in Pending /\ toTask'[i] = toTask[i]
      BY <1>6, <2>1, <3>0, <3>1
    <3>3. CASE j \in Pending /\ toTask'[j] = toTask[j]
      BY <3>1, <3>2, <3>3 DEF InOrder
    <3>4. CASE toTask'[j] = r
      BY <1>1, <1>2, <2>1, <3>2, <3>4
    <3>5. QED
      BY <1>6, <3>3, <3>4
  <2>3. ASSUME NEW q \in since
        PROVE  q.id <= count' /\ \A i \in Pending' : q.id < toTask'[i].id
    <3>1. q.id \in Nat /\ q.id <= count
      BY DEF HistoryType, Requests, Id, InOrder
    <3>2. q.id <= count' /\ q.id < r.id
      BY <1>1, <1>2, <3>1
    <3>3. \A i \in Pending : q.id < toTask[i].id
      BY DEF InOrder
    <3>4. QED
      BY <1>6, <3>2, <3>3
  <2>4. QED
    BY <1>1, <2>2, <2>3 DEF InOrder, task
<1>14. Explained'
  BY <1>1, SameFrame
<1>15. QED
  BY <1>1, <1>7, <1>8, <1>10, <1>11, <1>12, <1>13, <1>14
     DEF RemembersOutcome, ReplyIsOwn, task

(* The result that arrives belongs to the innermost waiter, as long as       *)
(* nothing was given up.                                                     *)
LEMMA ResultInv ==
  ASSUME TaskInv, TaskSetColorIsSuccess
  PROVE  TaskInv'
<1> USE DEF TaskInv
<1>1. /\ toServer # << >> /\ isDone' = TRUE
      /\ isSuccess' = Head(toServer) /\ toServer' = Tail(toServer)
      /\ UNCHANGED <<clients, holder, waiting, toTask, task, count, parsed, reply,
                     overtaken, tardy>>
  BY DEF TaskSetColorIsSuccess
<1>2. toServer' \in Seq(BOOLEAN) /\ isSuccess' \in BOOLEAN
  BY <1>1, HeadTailProperties DEF TypeOK
<1>3. ASSUME ~tardy
      PROVE  /\ Pending' = {} /\ toServer' = << >>
             /\ Last(waiting).id = count /\ parsed[count] = Outcome(isSuccess')
  BY <1>1, <1>3, SameQueue DEF OneOnItsWay
<1>4. TypeOK' /\ HistoryType'
  BY <1>1, <1>2 DEF TypeOK, HistoryType, task
<1>5. RemembersOutcome' /\ OneOnItsWay'
  BY <1>1, <1>3 DEF RemembersOutcome, OneOnItsWay
<1>6. InOrder' /\ Explained'
  BY <1>1, SameFrame, SameOrder
<1>7. QED
  BY <1>1, <1>4, <1>5, <1>6, SameQueue DEF ParsedOnce, BusyForAReason, OuterOvertaken, ReplyIsOwn,
     task

(* The innermost waiter leaves with what the server remembers, or gives up;  *)
(* the next one has been overtaken.                                          *)
LEMMA LoopInv ==
  ASSUME TaskInv, LoopEnds \/ LoopTimesOut
  PROVE  TaskInv'
<1> USE DEF TaskInv
<1>1. /\ waiting # << >> /\ waiting' = Front(waiting) /\ isDone' = TRUE
      /\ UNCHANGED <<clients, holder, isSuccess, toTask, toServer, task, count, parsed, overtaken>>
  <2>1. isDone \in BOOLEAN
    BY DEF TypeOK
  <2>2. QED
    BY <2>1 DEF LoopEnds, LoopTimesOut
<1>2. /\ waiting \in Seq(Requests) /\ Len(waiting) \in Nat \ {0}
      /\ Last(waiting) \in Requests
  <2>1. waiting \in Seq(Requests)
    BY DEF TypeOK, Requests
  <2>2. Len(waiting) \in Nat \ {0}
    BY <1>1, <2>1, EmptySeq
  <2>3. QED
    BY <2>1, <2>2, ElementOfSeq DEF Last
<1>3. /\ waiting' \in Seq(Requests)
      /\ Len(waiting') = Len(waiting) - 1
      /\ \A i \in 1..Len(waiting') : waiting'[i] = waiting[i]
  <2> DEFINE n == Len(waiting) - 1
  <2>1. n \in Nat /\ \A i \in 1..n : waiting[i] \in Requests
    BY <1>2, ElementOfSeq
  <2> HIDE DEF n
  <2>2. /\ SubSeq(waiting, 1, n) \in Seq(Requests)
        /\ Len(SubSeq(waiting, 1, n)) = n
        /\ \A i \in 1..n : SubSeq(waiting, 1, n)[i] = waiting[i]
    BY <2>1, SubSeqProperties
  <2>3. waiting' = SubSeq(waiting, 1, n)
    BY <1>1 DEF Front, n
  <2>4. QED
    BY <2>2, <2>3 DEF n
<1>4. \/ reply' = reply
      \/ \E ok \in BOOLEAN : reply' = [id |-> Last(waiting).id, ok |-> ok]
  BY DEF LoopEnds, LoopTimesOut, ReplyTo, TypeOK
<1>5. TypeOK' /\ HistoryType'
  <2>1. isDone' \in BOOLEAN /\ tardy' \in BOOLEAN
    BY DEF LoopEnds, LoopTimesOut, TypeOK
  <2>2. QED
    BY <1>1, <1>2, <1>3, <1>4, <2>1 DEF TypeOK, HistoryType, Requests, task
<1>6. OuterOvertaken'
  BY <1>1, <1>2, <1>3 DEF OuterOvertaken
<1>7. waiting' # << >> => Last(waiting').id \in overtaken'
  <2>1. Len(waiting') \in Nat /\ (waiting' # << >> => Len(waiting') # 0)
    BY <1>3, EmptySeq, LenProperties
  <2>2. QED
    BY <1>1, <1>2, <1>3, <2>1 DEF OuterOvertaken, Last
<1>8. ASSUME ~tardy'
      PROVE  /\ isDone /\ ~tardy
             /\ reply' = reply \/ reply' = [id |-> Last(waiting).id, ok |-> isSuccess]
  BY <1>8 DEF LoopEnds, LoopTimesOut, ReplyTo
<1>9. OneOnItsWay'
  BY <1>1, <1>8, SameQueue DEF OneOnItsWay
<1>10. ReplyIsOwn'
  BY <1>1, <1>8 DEF ReplyIsOwn, RemembersOutcome, Outcome
<1>11. InOrder' /\ Explained'
  BY <1>1, SameFrame, SameOrder
<1>12. QED
  BY <1>1, <1>5, <1>6, <1>7, <1>9, <1>10, <1>11, SameQueue
     DEF ParsedOnce, BusyForAReason, RemembersOutcome, task

-----------------------------------------------------------------------------
(* The task *)

(* What the application queues for the task keeps TaskInv.                   *)
LEMMA PostInv ==
  ASSUME TaskInv, NEW e \in Events, e.op # "parse", Post(e)
  PROVE  TaskInv'
<1> USE DEF TaskInv
<1>1. /\ toTask' = Append(toTask, e)
      /\ UNCHANGED <<server, toServer, task, count, parsed, reply, overtaken, tardy>>
  BY DEF Post
<1>2. /\ toTask' \in Seq(Events)
      /\ \A i \in Pending' : i \in Pending /\ toTask'[i] = toTask[i]
  BY <1>1, Appended
<1>3. TypeOK' /\ HistoryType'
  BY <1>1, <1>2 DEF TypeOK, HistoryType, server, task
<1>4. ParsedOnce' /\ OneOnItsWay'
  <2>1. Pending' \subseteq Pending /\ \A i \in Pending' : toTask'[i] = toTask[i]
    BY <1>2
  <2>2. ParsedOnce'
    <3>1. \A i \in Pending' : toTask'[i].id <= count' /\ parsed'[toTask'[i].id] = "unknown"
      <4>1. TAKE i \in Pending'
      <4>2. i \in Pending /\ toTask'[i] = toTask[i]
        BY <2>1
      <4>3. toTask[i].id <= count /\ parsed[toTask[i].id] = "unknown"
        BY <4>2 DEF ParsedOnce
      <4>4. QED
        BY <1>1, <4>2, <4>3
    <3>2. \A i, j \in Pending' : toTask'[i].id = toTask'[j].id => i = j
      BY <2>1 DEF ParsedOnce
    <3>3. \A id \in Id : id > count' => parsed'[id] = "unknown"
      BY <1>1 DEF ParsedOnce
    <3>4. QED
      BY <3>1, <3>2, <3>3 DEF ParsedOnce
  <2>3. OneOnItsWay'
    BY <1>1, <2>1 DEF OneOnItsWay, server
  <2>4. QED
    BY <2>2, <2>3
<1>5. InOrder' /\ Explained'
  BY <1>1, <1>2, SameFrame DEF InOrder, task
<1>6. QED
  BY <1>1, <1>3, <1>4, <1>5 DEF BusyForAReason, OuterOvertaken, RemembersOutcome, ReplyIsOwn,
     server, task

(* A request gets its only outcome, and is the newest one to name the LEDs   *)
(* it colours, whether it fails or not.                                      *)
LEMMA ParseInv ==
  ASSUME TaskInv, ParseSetColor
  PROVE  TaskInv'
<1> USE DEF TaskInv
<1> DEFINE r  == Head(toTask)
           ok == r.leds # << >> /\ Good(r.leds) = r.leds
<1>1. /\ toTask # << >> /\ r.op = "parse" /\ toTask' = Tail(toTask)
      /\ colors' = Coloured(colors, Good(r.leds), r.by)
      /\ since' = since \cup {r}
      /\ toServer' = Append(toServer, ok)
      /\ parsed' = [parsed EXCEPT ![r.id] = Outcome(ok)]
      /\ UNCHANGED <<server, numberOfLeds, count, reply, overtaken, tardy>>
  BY DEF ParseSetColor, Outcome
<1>2. /\ toTask' \in Seq(Events) /\ r \in Requests /\ r.id \in Id /\ r.by \in Client
      /\ 1 \in Pending /\ toTask[1] = r
      /\ \A i \in Pending' : i + 1 \in Pending /\ i \in Nat \ {0} /\ toTask'[i] = toTask[i + 1]
  BY <1>1, Taken, EventType DEF Requests
<1> HIDE DEF r
<1>3. r.id <= count /\ parsed[r.id] = "unknown"
  BY <1>2 DEF ParsedOnce
<1>4. \A i \in Pending' : toTask'[i].id # r.id
  <2>1. \A i \in Pending' : toTask[i + 1].id = r.id => i + 1 = 1
    BY <1>2 DEF ParsedOnce
  <2>2. QED
    BY <1>2, <2>1
<1>5. ok \in BOOLEAN
  OBVIOUS
<1> HIDE DEF ok
<1>6. toServer' \in Seq(BOOLEAN) /\ toServer' # << >>
  BY <1>1, <1>5, AppendProperties DEF TypeOK
<1>7. /\ parsed' \in [Id -> {"unknown", "ok", "error"}]
      /\ parsed'[r.id] = Outcome(ok)
      /\ \A id \in Id : id # r.id => parsed'[id] = parsed[id]
  BY <1>1, <1>2, <1>5 DEF TypeOK, Outcome
<1>8. colors' \in [1..numberOfLeds -> Client \cup {"black"}]
  BY <1>1, <1>2, ColouredIsFrame DEF HistoryType
<1>9. TypeOK' /\ HistoryType'
  BY <1>1, <1>2, <1>6, <1>7, <1>8, FrameOfSettings DEF TypeOK, HistoryType, server
<1>10. ParsedOnce'
  <2>1. \A i \in Pending' : toTask'[i].id \in Id
    BY <1>2, Taken, EventType, ElementOfSeq DEF Pending, Requests, HistoryType
  <2>2. \A i \in Pending' : toTask'[i].id <= count /\ parsed[toTask'[i].id] = "unknown"
    BY <1>2 DEF ParsedOnce
  <2>3. \A i \in Pending' : parsed'[toTask'[i].id] = "unknown"
    BY <1>4, <1>7, <2>1, <2>2
  <2>4. \A i, j \in Pending' : toTask'[i].id = toTask'[j].id => i = j
    BY <1>2 DEF ParsedOnce
  <2>5. \A id \in Id : id > count => parsed'[id] = "unknown"
    <3>1. \A id \in Id : id > count => id # r.id
      BY <1>2, <1>3 DEF HistoryType, Id
    <3>2. QED
      BY <1>7, <3>1 DEF ParsedOnce
  <2>6. QED
    BY <1>1, <2>2, <2>3, <2>4, <2>5 DEF ParsedOnce
<1>11. BusyForAReason'
  BY <1>1, <1>6 DEF BusyForAReason, server
<1>12. OneOnItsWay'
  <2>1. SUFFICES ASSUME ~tardy
                 PROVE  ~isDone /\ Pending' = {} /\ parsed'[count] = Outcome(ok)
                          /\ toServer' = <<ok>> /\ Last(waiting).id = count
    BY <1>1, <1>5, <2>1 DEF OneOnItsWay, server
  <2>2. ~isDone /\ toServer = << >> /\ \A i \in Pending : toTask[i].id = count
    BY <1>2, <2>1 DEF OneOnItsWay, TypeOK
  <2>3. toServer' = <<ok>> /\ Last(waiting).id = count
    BY <1>1, <2>1, <2>2 DEF OneOnItsWay
  <2>4. r.id = count /\ Pending' = {}
    BY <1>2, <1>4, <2>2
  <2>5. QED
    BY <1>7, <2>2, <2>3, <2>4
<1>13. RemembersOutcome'
  BY <1>1, <1>2 DEF RemembersOutcome, OneOnItsWay, server
<1>14. ReplyIsOwn'
  <2>1. reply # NoReply => reply.id \in Id
    BY DEF HistoryType
  <2>2. QED
    BY <1>1, <1>3, <1>7, <2>1 DEF ReplyIsOwn
<1>15. InOrder'
  <2>1. \A i, j \in Pending' : i < j => toTask'[i].id < toTask'[j].id
    BY <1>2 DEF InOrder
  <2>2. \A q \in since : \A i \in Pending' : q.id < toTask'[i].id
    BY <1>2 DEF InOrder
  <2>3. \A i \in Pending' : r.id < toTask'[i].id
    BY <1>2 DEF InOrder
  <2>4. QED
    BY <1>1, <1>3, <2>1, <2>2, <2>3 DEF InOrder
<1>16. Explained'
  <2>1. \A q : \A n : Names(q, n)' <=> Names(q, n)
    BY <1>1 DEF Names
  <2>2. r.id \in Nat /\ \A q \in since : q.id \in Nat /\ q.id < r.id
    BY <1>2 DEF InOrder, HistoryType, Requests, Id
  <2>3. Len(colors) = numberOfLeds /\ numberOfLeds \in Nat /\ DOMAIN colors = 1..numberOfLeds
    BY LengthOfFrame, SetColorTaskAssumption DEF TypeOK, HistoryType
  <2>4. r.leds \in Seq(Nat)
    BY <1>2, SetColorTaskAssumption DEF Requests
  <2> SUFFICES ASSUME NEW n \in 1..numberOfLeds
               PROVE  \/ colors'[n] = "black" /\ \A q \in since' : ~Names(q, n)
                      \/ \E q \in since' : /\ Names(q, n) /\ colors'[n] = q.by
                                           /\ \A other \in since' : Names(other, n) => other.id <= q.id
    BY <1>1, <2>1 DEF Explained, Explains
  <2>5. colors'[n] = IF Names(r, n) THEN r.by ELSE colors[n]
    BY <1>1, <2>3, <2>4, GoodIsNamed DEF Coloured
  <2>6. CASE Names(r, n)
    <3>1. \A other \in since' : other.id <= r.id
      BY <1>1, <2>2
    <3>2. QED
      BY <1>1, <2>5, <2>6, <3>1
  <2>7. CASE ~Names(r, n)
    <3>1. colors'[n] = colors[n] /\ since' = since \cup {r}
      BY <1>1, <2>5, <2>7
    <3>2. CASE colors[n] = "black" /\ \A q \in since : ~Names(q, n)
      BY <2>7, <3>1, <3>2
    <3>3. CASE \E q \in since : Explains(q, n)
      <4>1. PICK q \in since : Explains(q, n)
        BY <3>3
      <4>2. \A other \in since' : Names(other, n) => other.id <= q.id
        BY <2>7, <3>1, <4>1 DEF Explains
      <4>3. QED
        BY <3>1, <4>1, <4>2 DEF Explains
    <3>4. QED
      BY <3>2, <3>3 DEF Explained
  <2>8. QED
    BY <2>6, <2>7
<1>17. OuterOvertaken'
  BY <1>1 DEF OuterOvertaken, server
<1>18. QED
  BY <1>9, <1>10, <1>11, <1>12, <1>13, <1>14, <1>15, <1>16, <1>17

(* Clearing the colours or changing their number keeps TaskInv.              *)
LEMMA ReinitInv ==
  ASSUME TaskInv, Reinit
  PROVE  TaskInv'
<1> USE DEF TaskInv
<1>1. /\ toTask # << >> /\ toTask' = Tail(toTask) /\ Head(toTask).op # "parse"
      /\ colors' = Black(numberOfLeds') /\ since' = {}
      /\ UNCHANGED <<server, toServer, count, parsed, reply, overtaken, tardy>>
  BY DEF Reinit
<1>2. /\ toTask' \in Seq(Events) /\ Head(toTask) \in Events
      /\ \A i \in Pending' : i + 1 \in Pending /\ i \in Nat \ {0} /\ toTask'[i] = toTask[i + 1]
  BY <1>1, Taken
<1>3. numberOfLeds' \in LedCounts
  <2>1. Head(toTask) = Clear \/ \E n \in LedCounts : Head(toTask) = Resize(n)
    BY <1>1, <1>2, EventType
  <2>2. QED
    BY <2>1 DEF Reinit, TypeOK, Resize, Clear
<1>4. colors' \in [1..numberOfLeds' -> Client \cup {"black"}]
  BY <1>1, BlackIsFrame
<1>5. colors' \in Frames
  BY <1>3, <1>4 DEF Frames
<1>6. TypeOK' /\ HistoryType'
  BY <1>1, <1>2, <1>3, <1>4, <1>5 DEF TypeOK, HistoryType, server
<1>7. ParsedOnce'
  <2>1. \A i, j \in Pending' : toTask'[i].id = toTask'[j].id => i + 1 = j + 1
    BY <1>2 DEF ParsedOnce
  <2>2. \A i, j \in Pending' : i + 1 = j + 1 => i = j
    BY <1>2
  <2>3. \A i \in Pending' : toTask'[i].id <= count /\ parsed[toTask'[i].id] = "unknown"
    BY <1>2 DEF ParsedOnce
  <2>4. QED
    BY <1>1, <2>1, <2>2, <2>3 DEF ParsedOnce
<1>8. OneOnItsWay'
  BY <1>1, <1>2 DEF OneOnItsWay, server
<1>9. InOrder' /\ Explained'
  <2>1. \A i, j \in Pending' : i < j => i + 1 < j + 1
    BY <1>2
  <2>2. InOrder'
    BY <1>1, <1>2, <2>1 DEF InOrder
  <2>3. QED
    BY <1>1, <2>2 DEF Explained, Black
<1>10. QED
  BY <1>1, <1>6, <1>7, <1>8, <1>9 DEF BusyForAReason, OuterOvertaken, RemembersOutcome,
     ReplyIsOwn, server

-----------------------------------------------------------------------------
(* The theorems *)

(* TaskInv holds in every reachable state.                                   *)
LEMMA TaskInvariant == Spec => []TaskInv
<1>1. TaskInv /\ [Next]_vars => TaskInv'
  <2> SUFFICES ASSUME TaskInv, [Next]_vars PROVE TaskInv'
    OBVIOUS
  <2>1. CASE \E c \in Client : Connect(c) \/ Disconnect(c) \/ LockOrUnlock(c)
    BY <2>1, ClientsInv
  <2>2. CASE \E c \in Client, command \in Command : SetColor(c, command)
    BY <2>2, SetColorInv
  <2>3. CASE TaskSetColorIsSuccess
    BY <2>3, ResultInv
  <2>4. CASE LoopEnds \/ LoopTimesOut
    BY <2>4, LoopInv
  <2>5. CASE Post(Clear) \/ \E n \in LedCounts : Post(Resize(n))
    <3>1. /\ Clear \in Events /\ Clear.op # "parse"
          /\ \A n \in LedCounts : Resize(n) \in Events /\ Resize(n).op # "parse"
      BY DEF Events, Clear, Resize
    <3>2. QED
      BY <2>5, <3>1, PostInv
  <2>6. CASE ParseSetColor
    BY <2>6, ParseInv
  <2>7. CASE Reinit
    BY <2>7, ReinitInv
  <2>8. CASE UNCHANGED vars
    <3>1. InOrder' /\ Explained'
      BY <2>8, SameFrame, SameOrder DEF vars, TaskInv
    <3>2. QED
      BY <2>8, <3>1, SameQueue DEF vars, server, task, TaskInv, TypeOK, HistoryType, ParsedOnce,
         BusyForAReason, OuterOvertaken, OneOnItsWay, RemembersOutcome, ReplyIsOwn
  <2>9. QED
    BY <2>1, <2>2, <2>3, <2>4, <2>5, <2>6, <2>7, <2>8 DEF Next
<1>2. QED
  BY InitInv, <1>1, PTL DEF Spec

(* The server, the task and both queues between them keep their types, for   *)
(* every command and number of LEDs.                                         *)
THEOREM TypeCorrect == Spec => []TypeOK
<1>1. TaskInv => TypeOK
  BY DEF TaskInv
<1>2. QED
  BY <1>1, TaskInvariant, PTL

(* setcolor is unavailable only while somebody waits for it and its result   *)
(* is still to come: it is never refused for nothing.                        *)
THEOREM NeverBusyForNothing == Spec => []BusyForAReason
<1>1. TaskInv => BusyForAReason
  BY DEF TaskInv
<1>2. QED
  BY <1>1, TaskInvariant, PTL

(* Without a late result and a nested request, every reply says of a request *)
(* what the parser said of it.                                               *)
THEOREM RepliesAreOwn == Spec => []ReplyIsOwn
<1>1. TaskInv => ReplyIsOwn
  BY DEF TaskInv
<1>2. QED
  BY <1>1, TaskInvariant, PTL

(* The frame has a colour for each LED, and each LED the colour of the       *)
(* newest request that names it since the colours were last cleared or       *)
(* resized (ApiServerSetColorTask::parseCommandSequence, also where it fails *)
(* half way), for every command, number of LEDs, and order of the two        *)
(* threads.                                                                  *)
THEOREM FramesAreExplained == Spec => []NewestRequestShows
<1>1. TaskInv => NewestRequestShows
  <2> SUFFICES ASSUME TaskInv PROVE NewestRequestShows
    OBVIOUS
  <2>1. numberOfLeds \in Nat /\ colors \in [1..numberOfLeds -> Client \cup {"black"}]
    BY SetColorTaskAssumption DEF TaskInv, TypeOK, HistoryType
  <2>2. Len(colors) = numberOfLeds /\ DOMAIN colors = 1..numberOfLeds
    BY <2>1, LengthOfFrame
  <2>3. QED
    BY <2>2 DEF TaskInv, Explained, Explains, NewestRequestShows
<1>2. QED
  BY <1>1, TaskInvariant, PTL
=============================================================================
