----------------------- MODULE LightpackDevice_proofs -----------------------
(* What is proved of the call stack of the device, for any number of         *)
(* Lightpacks, handles and settings, and reopenings nested as deep as they   *)
(* come: every slot answers, no report carries the bytes of another one, an  *)
(* opened device has been sent every setting or will be, and the handles in  *)
(* the list are those the system has given out.                              *)
EXTENDS LightpackDevice, Lemmas

-----------------------------------------------------------------------------
(* Stacks *)

IsStack(s) == s \in Seq(ToSet(s))

(* A sequence over any set is a stack.                                       *)
LEMMA StackOfSeq ==
  ASSUME NEW T, NEW s \in Seq(T)
  PROVE  IsStack(s)
<1>1. Len(s) \in Nat /\ s \in [1..Len(s) -> T] /\ DOMAIN s = 1..Len(s)
  BY LenProperties
<1>2. s \in [1..Len(s) -> ToSet(s)]
  BY <1>1 DEF ToSet
<1>3. QED
  BY <1>1, <1>2 DEF IsStack

(* What stands where when statements replace the top of the stack            *)
LEMMA Replaced ==
  ASSUME IsStack(todo), todo # << >>, NEW st, IsStack(st), Then(st)
  PROVE  /\ IsStack(todo')
         /\ Len(st) \in Nat /\ Len(todo) \in Nat \ {0} /\ Head(todo) = todo[1]
         /\ Len(todo') = Len(st) + Len(todo) - 1
         /\ \A i \in 1..Len(st) : todo'[i] = st[i]
         /\ \A i \in Len(st) + 1 .. Len(todo') : /\ i - Len(st) + 1 \in 2..Len(todo)
                                                 /\ todo'[i] = todo[i - Len(st) + 1]
         /\ \A i \in 2..Len(todo) : /\ Len(st) + i - 1 \in Len(st) + 1 .. Len(todo')
                                    /\ todo'[Len(st) + i - 1] = todo[i]
<1> DEFINE S == ToSet(todo) \cup ToSet(st)
<1>1. todo \in Seq(S) /\ st \in Seq(S)
  BY SeqMonotonic DEF IsStack
<1>2. /\ Tail(todo) \in Seq(S)
      /\ Len(Tail(todo)) = Len(todo) - 1
      /\ \A i \in 1..Len(Tail(todo)) : Tail(todo)[i] = todo[i + 1]
  BY <1>1, HeadTailProperties
<1>3. Len(st) \in Nat /\ Len(todo) \in Nat \ {0} /\ Head(todo) = todo[1]
  BY <1>1, EmptySeq, LenProperties
<1> HIDE DEF S
<1>4. /\ todo' \in Seq(S)
      /\ Len(todo') = Len(st) + Len(Tail(todo))
      /\ \A i \in 1 .. Len(st) + Len(Tail(todo)) :
           todo'[i] = IF i <= Len(st) THEN st[i] ELSE Tail(todo)[i - Len(st)]
  BY <1>1, <1>2, ConcatProperties DEF Then
<1>5. IsStack(todo')
  BY <1>4, StackOfSeq
<1>6. \A i \in 1..Len(st) : todo'[i] = st[i]
  BY <1>2, <1>3, <1>4
<1>7. \A i \in Len(st) + 1 .. Len(todo') :
        /\ i - Len(st) + 1 \in 2..Len(todo)
        /\ todo'[i] = todo[i - Len(st) + 1]
  <2> SUFFICES ASSUME NEW i \in Len(st) + 1 .. Len(todo')
               PROVE  /\ i - Len(st) + 1 \in 2..Len(todo)
                      /\ todo'[i] = todo[i - Len(st) + 1]
    OBVIOUS
  <2>1. i - Len(st) \in 1..Len(Tail(todo)) /\ i \in 1..Len(st) + Len(Tail(todo)) /\ ~(i <= Len(st))
    BY <1>2, <1>3, <1>4
  <2>2. QED
    BY <1>2, <1>3, <1>4, <2>1
<1>8. \A i \in 2..Len(todo) : /\ Len(st) + i - 1 \in Len(st) + 1 .. Len(todo')
                              /\ todo'[Len(st) + i - 1] = todo[i]
  <2> SUFFICES ASSUME NEW i \in 2..Len(todo)
               PROVE  /\ Len(st) + i - 1 \in Len(st) + 1 .. Len(todo')
                      /\ todo'[Len(st) + i - 1] = todo[i]
    OBVIOUS
  <2>1. Len(st) + i - 1 \in Len(st) + 1 .. Len(todo')
    BY <1>2, <1>3, <1>4
  <2>2. Len(st) + i - 1 - Len(st) + 1 = i
    BY <1>3
  <2>3. QED
    BY <1>7, <2>1, <2>2
<1>9. QED
  BY <1>2, <1>3, <1>4, <1>5, <1>6, <1>7, <1>8

-----------------------------------------------------------------------------
(* The shape of the stack: a loop over the devices that is not on top stands *)
(* below the transfer it has begun, transfers not yet begun stand on top     *)
(* only, and orders are orders.                                              *)

Loop(x)     == x.op = "each"
Transfer(x) == x.op \in {"write", "rewrite"}
Resumed(x)  == x.op \in {"rewrite", "reread"}
Answers(x)  == x.op \in {"set", "each", "off", "darken", "answer"}
Ordered(x)  == /\ x.op = "set" => x.order \in Setting
               /\ x.op = "each" => x.order \in Order

Shape(s) ==
  /\ IsStack(s)
  /\ \A i \in 1..Len(s) : Ordered(s[i])
  /\ \A i \in 2..Len(s) : /\ s[i].op # "write"
                          /\ Loop(s[i]) => Transfer(s[i - 1]) /\ s[i - 1].order = s[i].order

(* The stack keeps its shape when the statement on top is replaced by well   *)
(* shaped ones, the last a transfer of the loop below, if there is one.      *)
LEMMA ShapeReplaced ==
  ASSUME Shape(todo), todo # << >>, NEW st, Shape(st), Then(st),
         2 \in 1..Len(todo) /\ Loop(todo[2]) =>
           \/ st = << >>
           \/ Transfer(st[Len(st)]) /\ st[Len(st)].order = todo[2].order
  PROVE  Shape(todo')
<1>1. /\ IsStack(todo')
      /\ Len(st) \in Nat /\ Len(todo) \in Nat \ {0}
      /\ Len(todo') = Len(st) + Len(todo) - 1
      /\ \A i \in 1..Len(st) : todo'[i] = st[i]
      /\ \A i \in Len(st) + 1 .. Len(todo') : /\ i - Len(st) + 1 \in 2..Len(todo)
                                              /\ todo'[i] = todo[i - Len(st) + 1]
  BY Replaced DEF Shape
<1>2. \A i \in 1..Len(todo') : i \in 1..Len(st) \/ i \in Len(st) + 1 .. Len(todo')
  BY <1>1
<1>3. \A i \in 1..Len(todo') : Ordered(todo'[i])
  <2>1. \A i \in 2..Len(todo) : Ordered(todo[i])
    BY <1>1 DEF Shape
  <2>2. QED
    BY <1>1, <1>2, <2>1 DEF Shape
<1>4. ASSUME NEW i \in 2..Len(todo')
      PROVE  /\ todo'[i].op # "write"
             /\ Loop(todo'[i]) => Transfer(todo'[i - 1]) /\ todo'[i - 1].order = todo'[i].order
  <2>1. CASE i \in 1..Len(st)
    <3>1. i \in 2..Len(st) /\ i - 1 \in 1..Len(st)
      BY <1>1, <2>1
    <3>2. QED
      BY <1>1, <2>1, <3>1 DEF Shape
  <2>2. CASE i = Len(st) + 1
    <3>1. Len(st) \in 1..Len(st) /\ i - 1 = Len(st) /\ st # << >>
      BY <1>1, <2>2
    <3>2. i \in Len(st) + 1 .. Len(todo') /\ i - Len(st) + 1 = 2
      BY <1>1, <2>2
    <3>3. todo'[i] = todo[2] /\ 2 \in 2..Len(todo) /\ 2 \in 1..Len(todo)
      BY <1>1, <3>2
    <3>4. todo'[i - 1] = st[Len(st)]
      BY <1>1, <3>1
    <3>5. QED
      BY <3>1, <3>3, <3>4 DEF Shape
  <2>3. CASE i \in Len(st) + 2 .. Len(todo')
    <3> DEFINE k == i - Len(st) + 1
    <3>1. /\ i \in Len(st) + 1 .. Len(todo') /\ i - 1 \in Len(st) + 1 .. Len(todo')
          /\ (i - 1) - Len(st) + 1 = k - 1 /\ k - 1 \in 2..Len(todo)
      BY <1>1, <2>3
    <3>2. todo'[i] = todo[k] /\ k \in 2..Len(todo) /\ todo'[i - 1] = todo[k - 1]
      BY <1>1, <3>1
    <3>3. QED
      BY <3>2 DEF Shape
  <2>4. QED
    BY <1>1, <2>1, <2>2, <2>3
<1>5. QED
  BY <1>1, <1>3, <1>4 DEF Shape

(* Short stacks *)

(* No statements are well shaped.                                            *)
LEMMA None == Shape(<< >>) /\ Len(<< >>) = 0
<1>1. << >> \in Seq({}) /\ Len(<< >>) = 0
  BY EmptySeq
<1>2. IsStack(<< >>)
  BY <1>1, StackOfSeq
<1>3. 1..0 = {} /\ 2..0 = {}
  OBVIOUS
<1>4. QED
  BY <1>1, <1>2, <1>3 DEF Shape

(* A single statement is well shaped if its order is one.                    *)
LEMMA One ==
  ASSUME NEW x, Ordered(x)
  PROVE  Shape(<<x>>) /\ Len(<<x>>) = 1 /\ <<x>>[1] = x
<1> DEFINE s == <<x>>
<1>1. s \in Seq({x}) /\ Len(s) = 1 /\ s[1] = x
  OBVIOUS
<1> HIDE DEF s
<1>2. IsStack(s)
  BY <1>1, StackOfSeq
<1>3. (\A i \in 1..1 : i = 1) /\ 2..1 = {}
  OBVIOUS
<1>4. Shape(s)
  BY <1>1, <1>2, <1>3 DEF Shape
<1>5. QED
  BY <1>1, <1>4 DEF s

(* So is a transfer with the loop it belongs to behind it.                   *)
LEMMA Two ==
  ASSUME NEW x, NEW y, Ordered(x), Ordered(y), y.op # "write",
         Loop(y) => Transfer(x) /\ x.order = y.order
  PROVE  Shape(<<x, y>>) /\ Len(<<x, y>>) = 2 /\ <<x, y>>[1] = x /\ <<x, y>>[2] = y
<1> DEFINE s == <<x, y>>
<1>1. s \in Seq({x, y}) /\ Len(s) = 2 /\ s[1] = x /\ s[2] = y
  OBVIOUS
<1> HIDE DEF s
<1>2. IsStack(s)
  BY <1>1, StackOfSeq
<1>3. (\A i \in 1..2 : i = 1 \/ i = 2) /\ (\A i \in 2..2 : i = 2 /\ i - 1 = 1)
  OBVIOUS
<1>4. Shape(s)
  BY <1>1, <1>2, <1>3 DEF Shape
<1>5. QED
  BY <1>1, <1>4 DEF s

(* A statement appended to none or one.                                      *)
LEMMA Joined ==
  ASSUME NEW x
  PROVE  << >> \o <<x>> = <<x>> /\ \A y : <<y>> \o <<x>> = <<y, x>>
<1>1. << >> \o <<x>> = <<x>>
  <2>1. <<x>> \in Seq({x})
    OBVIOUS
  <2>2. QED
    BY <2>1, ConcatEmptySeq
<1>2. ASSUME NEW y PROVE <<y>> \o <<x>> = <<y, x>>
  <2> DEFINE a == <<y>>
             b == <<x>>
             c == <<y, x>>
             S == {x, y}
  <2>1. /\ a \in Seq(S) /\ b \in Seq(S) /\ c \in Seq(S)
        /\ Len(a) = 1 /\ Len(b) = 1 /\ Len(c) = 2
        /\ a[1] = y /\ b[1] = x /\ c[1] = y /\ c[2] = x
    OBVIOUS
  <2> HIDE DEF a, b, c, S
  <2>2. /\ a \o b \in Seq(S) /\ Len(a \o b) = 2
        /\ \A i \in 1..2 : (a \o b)[i] = IF i <= 1 THEN a[i] ELSE b[i - 1]
    BY <2>1, ConcatProperties
  <2>3. \A i \in 1..2 : (a \o b)[i] = c[i]
    <3>1. \A i \in 1..2 : (i = 1 /\ i <= 1) \/ (i = 2 /\ ~(i <= 1) /\ i - 1 = 1)
      OBVIOUS
    <3>2. QED
      BY <2>1, <2>2, <3>1
  <2>4. a \o b = c
    BY <2>1, <2>2, <2>3, SeqEqual
  <2>5. QED
    BY <2>4 DEF a, b, c
<1>3. QED
  BY <1>1, <1>2

(* What is sent to devices just opened: colours, orders and a question for   *)
(* the version, which is answered.                                           *)
Preset == {SetColorsSaved, Read, Answer, Opened} \cup {Set(s) : s \in Setting}

(* The statements of updateDeviceSettings, and what they carry.              *)
LEMMA PresetOps ==
  ASSUME NEW x \in Preset
  PROVE  /\ x.op \in {"setColorsSaved", "read", "answer", "opened", "set"}
         /\ Ordered(x)
BY DEF Preset, SetColorsSaved, Read, Answer, Opened, Set, Ordered

(* Whatever is made of those statements is well shaped.                      *)
LEMMA PresetShape ==
  ASSUME NEW s \in Seq(Preset)
  PROVE  Shape(s) /\ \A i \in 1..Len(s) : s[i] \in Preset
<1>1. \A i \in 1..Len(s) : s[i] \in Preset
  BY ElementOfSeq
<1>2. \A i \in 2..Len(s) : i \in 1..Len(s)
  OBVIOUS
<1>3. \A i \in 1..Len(s) :
        s[i].op \in {"setColorsSaved", "read", "answer", "opened", "set"} /\ Ordered(s[i])
  BY <1>1, PresetOps
<1>4. QED
  BY <1>1, <1>2, <1>3, StackOfSeq DEF Shape, Loop

(* updateDeviceSettings sets every one-byte setting.                         *)
LEMMA SettingsSeq ==
  LET s == SetToSeq({Set(x) : x \in ByteSetting})
  IN  s \in Seq(Preset) /\ \A x \in ByteSetting : Contains(s, Set(x))
<1> DEFINE S == {Set(s) : s \in ByteSetting}
<1>1. IsFiniteSet(S)
  <2> DEFINE f == [s \in ByteSetting |-> Set(s)]
  <2>1. f \in Surjection(ByteSetting, S)
    BY DEF Surjection
  <2>2. IsFiniteSet(ByteSetting)
    BY LightpackDeviceAssumption
  <2> HIDE DEF f, S
  <2>3. QED
    BY <2>1, <2>2, FS_Surjection
<1>2. \A x \in ByteSetting : Set(x) \in S
  OBVIOUS
<1> HIDE DEF S
<1>3. SetToSeq(S) \in Seq(S) /\ \A x \in S : Contains(SetToSeq(S), x)
  BY <1>1, InARow
<1>4. S \subseteq Preset
  BY DEF S, Preset, Setting
<1>5. QED
  BY <1>2, <1>3, <1>4, SeqMonotonic DEF S

(* updateDeviceSettings sets every setting, and ends in an answer.           *)
LEMMA UpdateSeq ==
  /\ UpdateDeviceSettings \in Seq(Preset)
  /\ Contains(UpdateDeviceSettings, Answer)
  /\ \A s \in Setting : Contains(UpdateDeviceSettings, Set(s))
<1> DEFINE A == [i \in 1..Adjustments |-> SetColorsSaved]
           B == <<Set("delay")>>
           C == SetToSeq({Set(s) : s \in ByteSetting})
           D == RequestFirmwareVersion
<1>1. A \in Seq(Preset)
  BY LightpackDeviceAssumption DEF Preset
<1>2. B \in Seq(Preset) /\ Contains(B, Set("delay"))
  <2>1. B \in Seq(Preset) /\ Len(B) = 1 /\ B[1] = Set("delay")
    BY DEF Preset, Setting
  <2>2. QED
    BY <2>1 DEF Contains
<1>3. C \in Seq(Preset) /\ \A x \in ByteSetting : Contains(C, Set(x))
  BY SettingsSeq
<1>4. D \in Seq(Preset) /\ Contains(D, Answer)
  <2>1. D \in Seq(Preset) /\ Len(D) = 2 /\ D[2] = Answer
    BY DEF RequestFirmwareVersion, Preset
  <2>2. QED
    BY <2>1 DEF Contains
<1>5. UpdateDeviceSettings = A \o B \o C \o D
  BY DEF UpdateDeviceSettings
<1> HIDE DEF A, B, C, D
<1>6. A \o B \in Seq(Preset) /\ Contains(A \o B, Set("delay"))
  BY <1>1, <1>2, InBoth, ConcatProperties
<1>7. /\ A \o B \o C \in Seq(Preset)
      /\ \A s \in Setting : Contains(A \o B \o C, Set(s))
  <2>1. A \o B \o C \in Seq(Preset)
    BY <1>3, <1>6, ConcatProperties
  <2>2. \A s \in Setting : Contains(A \o B, Set(s)) \/ Contains(C, Set(s))
    BY <1>3, <1>6 DEF Setting
  <2>3. QED
    BY <1>3, <1>6, <2>1, <2>2, InBoth
<1>8. QED
  BY <1>4, <1>5, <1>7, InBoth, ConcatProperties

-----------------------------------------------------------------------------
(* The invariant *)

(* Until the slot has reopened the devices, the buffer holds what a loop is  *)
(* about to send, or is in the middle of sending.                            *)
LoopIsFilled ==
  ~reopened =>
    \A i \in {1, 2} \cap 1..Len(todo) :
      Loop(todo[i]) => Heeded(todo[i].order, buffer)
                         = Heeded(todo[i].order, Wanted(todo[i].order))

(* The first transfer that failed is about to reopen the devices             *)
ReopenFirst ==
  ~reopened /\ (\E i \in 1..Len(todo) : Resumed(todo[i])) => todo[1].op = "reopen"

(* Who owes an answer has a statement that gives it                          *)
AnswerOnStack == due => \E i \in 1..Len(todo) : Answers(todo[i])

StackInv ==
  /\ Shape(todo)
  /\ LoopIsFilled
  /\ ReopenFirst
  /\ AnswerOnStack
  /\ WholeReports

-----------------------------------------------------------------------------
(* One statement is replaced by others *)

(* An answer stays on the stack unless it is given.                          *)
LEMMA AnswerKept ==
  ASSUME StackInv, todo # << >>, NEW st, Shape(st), Then(st),
         due' => due /\ (Answers(todo[1]) => \E i \in 1..Len(st) : Answers(st[i]))
  PROVE  AnswerOnStack'
<1> SUFFICES ASSUME due' PROVE \E i \in 1..Len(todo') : Answers(todo'[i])
  BY DEF AnswerOnStack
<1>1. /\ Len(st) \in Nat /\ Len(todo) \in Nat \ {0}
      /\ Len(todo') = Len(st) + Len(todo) - 1
      /\ \A i \in 1..Len(st) : todo'[i] = st[i]
      /\ \A i \in 2..Len(todo) : /\ Len(st) + i - 1 \in Len(st) + 1 .. Len(todo')
                                 /\ todo'[Len(st) + i - 1] = todo[i]
  BY Replaced DEF StackInv, Shape
<1>2. PICK i \in 1..Len(todo) : Answers(todo[i])
  BY DEF StackInv, AnswerOnStack
<1>3. CASE i = 1
  <2>1. PICK k \in 1..Len(st) : Answers(st[k])
    BY <1>2, <1>3
  <2>2. k \in 1..Len(todo') /\ Answers(todo'[k])
    BY <1>1, <2>1
  <2>3. QED
    BY <2>2
<1>4. CASE i # 1
  <2>1. i \in 2..Len(todo)
    BY <1>1, <1>4
  <2>2. Len(st) + i - 1 \in 1..Len(todo') /\ Answers(todo'[Len(st) + i - 1])
    BY <1>1, <1>2, <2>1
  <2>3. QED
    BY <2>2
<1>5. QED
  BY <1>3, <1>4

(* Once the devices have been reopened only the shape and the answer matter  *)
LEMMA ExecutedReopened ==
  ASSUME StackInv, todo # << >>, NEW st, Shape(st), Then(st), reopened',
         2 \in 1..Len(todo) /\ Loop(todo[2]) =>
           st = << >> \/ (Transfer(st[Len(st)]) /\ st[Len(st)].order = todo[2].order),
         due' => due /\ (Answers(todo[1]) => \E i \in 1..Len(st) : Answers(st[i]))
  PROVE  StackInv'
<1>1. Shape(todo')
  BY ShapeReplaced DEF StackInv
<1>2. AnswerOnStack'
  BY AnswerKept
<1>3. QED
  BY <1>1, <1>2 DEF StackInv, LoopIsFilled, ReopenFirst, WholeReports

(* What At says of the statement on top.                                     *)
LEMMA Top ==
  ASSUME IsStack(todo)
  PROVE  \A ops : At(ops) => /\ todo # << >> /\ Len(todo) \in Nat \ {0}
                             /\ Head(todo) = todo[1] /\ 1 \in 1..Len(todo)
                             /\ todo[1].op \in ops
<1>1. todo # << >> => Len(todo) \in Nat \ {0} /\ Head(todo) = todo[1] /\ 1 \in 1..Len(todo)
  BY EmptySeq DEF IsStack
<1>2. QED
  BY <1>1 DEF At, Idle

(* Before, a loop is only found on top or below the transfer on top, and the *)
(* statements that follow it are no transfers.                               *)
LEMMA Quiet ==
  ASSUME StackInv, todo # << >>, ~reopened, todo[1].op # "reopen"
  PROVE  /\ \A i \in 1..Len(todo) : ~Resumed(todo[i])
         /\ \A i \in 2..Len(todo) : ~Transfer(todo[i])
         /\ \A i \in 2..Len(todo) : Loop(todo[i]) => i = 2 /\ todo[1].op = "write"
<1>1. \A i \in 1..Len(todo) : ~Resumed(todo[i])
  BY DEF StackInv, ReopenFirst
<1>2. Len(todo) \in Nat \ {0}
  BY EmptySeq DEF StackInv, Shape, IsStack
<1>3. \A i \in 2..Len(todo) : i \in 1..Len(todo)
  BY <1>2
<1>4. \A i \in 2..Len(todo) : ~Transfer(todo[i])
  BY <1>1, <1>3 DEF StackInv, Shape, Transfer, Resumed
<1>5. ASSUME NEW i \in 2..Len(todo), Loop(todo[i])
      PROVE  i = 2 /\ todo[1].op = "write"
  <2>1. Transfer(todo[i - 1])
    BY <1>5 DEF StackInv, Shape
  <2>2. i - 1 = 1
    BY <1>2, <1>4, <2>1
  <2>3. todo[1].op = "write"
    BY <1>1, <1>2, <2>1, <2>2 DEF Transfer, Resumed
  <2>4. QED
    BY <2>2, <2>3
<1>6. QED
  BY <1>1, <1>4, <1>5

(* When executing a statement keeps StackInv: it pushes well shaped          *)
(* statements, gives the answer it stands for, and fills the buffer for what *)
(* it pushes.                                                                *)
LEMMA Executed ==
  ASSUME StackInv, todo # << >>, NEW st, Shape(st), Then(st), UNCHANGED reopened,
         todo[1].op \notin {"write", "rewrite", "reopen"},
         due' => due /\ (Answers(todo[1]) => \E i \in 1..Len(st) : Answers(st[i])),
         (\E i \in 1..Len(st) : Resumed(st[i])) => st[1].op = "reopen",
         ~reopened => \A i \in 1..Len(st) :
           /\ Loop(st[i]) => Heeded(st[i].order, buffer')
                               = Heeded(st[i].order, Wanted(st[i].order))
           /\ st[i].op = "write" => Heeded(st[i].order, buffer')
                                      = Heeded(st[i].order, st[i].want)
  PROVE  StackInv'
<1>1. /\ IsStack(todo')
      /\ Len(st) \in Nat /\ Len(todo) \in Nat \ {0}
      /\ Len(todo') = Len(st) + Len(todo) - 1
      /\ \A i \in 1..Len(st) : todo'[i] = st[i]
      /\ \A i \in Len(st) + 1 .. Len(todo') : /\ i - Len(st) + 1 \in 2..Len(todo)
                                              /\ todo'[i] = todo[i - Len(st) + 1]
  BY Replaced DEF StackInv, Shape
<1>2. \A i \in 1..Len(todo') : i \in 1..Len(st) \/ i \in Len(st) + 1 .. Len(todo')
  BY <1>1
<1>3. ~(2 \in 1..Len(todo) /\ Loop(todo[2]))
  <2>1. 2 \in 1..Len(todo) /\ Loop(todo[2]) => Transfer(todo[1])
    <3>1. 2 \in 1..Len(todo) => 2 \in 2..Len(todo) /\ 2 - 1 = 1
      OBVIOUS
    <3>2. QED
      BY <3>1 DEF StackInv, Shape
  <2>2. QED
    BY <2>1 DEF Transfer
<1>4. Shape(todo') /\ AnswerOnStack'
  BY <1>3, ShapeReplaced, AnswerKept DEF StackInv
<1>5. CASE reopened
  BY <1>3, <1>5, ExecutedReopened
<1>6. CASE ~reopened
  <2>1. \A i \in 2..Len(todo) : ~Loop(todo[i]) /\ ~Resumed(todo[i]) /\ todo[i].op # "write"
    <3>1. \A i \in 2..Len(todo) : i \in 1..Len(todo)
      BY <1>1
    <3>2. QED
      BY <1>6, <3>1, Quiet DEF Transfer
  <2>2. \A i \in 1..Len(todo') :
          \/ i \in 1..Len(st) /\ todo'[i] = st[i]
          \/ ~Loop(todo'[i]) /\ ~Resumed(todo'[i]) /\ todo'[i].op # "write"
    BY <1>1, <1>2, <2>1
  <2>3. LoopIsFilled'
    <3>1. SUFFICES ASSUME NEW i \in {1, 2} \cap 1..Len(todo'), Loop(todo'[i])
                   PROVE  Heeded(todo'[i].order, buffer')
                            = Heeded(todo'[i].order, Wanted(todo'[i].order))
      BY DEF LoopIsFilled
    <3>2. i \in 1..Len(st) /\ todo'[i] = st[i]
      BY <2>2, <3>1
    <3>3. QED
      BY <1>6, <3>1, <3>2
  <2>4. ReopenFirst'
    <3>1. SUFFICES ASSUME NEW i \in 1..Len(todo'), Resumed(todo'[i])
                   PROVE  todo'[1].op = "reopen"
      BY DEF ReopenFirst
    <3>2. i \in 1..Len(st) /\ todo'[i] = st[i]
      BY <2>2, <3>1
    <3>3. 1 \in 1..Len(st)
      BY <1>1, <3>2
    <3>4. QED
      BY <1>1, <3>1, <3>2, <3>3
  <2>5. WholeReports'
    <3>1. SUFFICES ASSUME todo' # << >>, todo'[1].op = "write"
                   PROVE  Heeded(todo'[1].order, buffer')
                            = Heeded(todo'[1].order, todo'[1].want)
      <4>1. todo' # << >> => Head(todo') = todo'[1]
        BY <1>1, EmptySeq DEF IsStack
      <4>2. QED
        BY <3>1, <4>1 DEF WholeReports, At, Idle
    <3>2. 1 \in 1..Len(todo')
      BY <1>1, <3>1, EmptySeq DEF IsStack
    <3>3. 1 \in 1..Len(st) /\ todo'[1] = st[1]
      BY <2>2, <3>1, <3>2
    <3>4. QED
      BY <1>6, <3>1, <3>3
  <2>6. QED
    BY <1>4, <2>3, <2>4, <2>5 DEF StackInv
<1>7. QED
  BY <1>5, <1>6

-----------------------------------------------------------------------------
(* The statements of the slots *)

(* A store leaves no byte of an order as it was, so that what stood in the   *)
(* buffer before does not matter.                                            *)
LEMMA HeededStore ==
  ASSUME NEW s \in Setting, NEW b
  PROVE  Heeded(s, Store(b, s)) = Heeded(s, Wanted(s))
<1>1. s # "leds"
  BY LightpackDeviceAssumption DEF Setting
<1>2. CASE s = "delay"
  <2> DEFINE x == Store(b, s)
             y == Store(Blank, s)
  <2>1. x[1] = s /\ x[2] = s /\ y[1] = s /\ y[2] = s
    BY <1>2 DEF Store
  <2> HIDE DEF x, y
  <2>2. \A i \in 1..2 : i = 1 \/ i = 2
    OBVIOUS
  <2>3. /\ SubSeq(x, 1, 2) \in Seq({s}) /\ Len(SubSeq(x, 1, 2)) = 2
        /\ \A i \in 1..2 : SubSeq(x, 1, 2)[i] = x[i]
    BY <2>1, <2>2, SubSeqProperties
  <2>4. /\ SubSeq(y, 1, 2) \in Seq({s}) /\ Len(SubSeq(y, 1, 2)) = 2
        /\ \A i \in 1..2 : SubSeq(y, 1, 2)[i] = y[i]
    BY <2>1, <2>2, SubSeqProperties
  <2>5. SubSeq(x, 1, 2) = SubSeq(y, 1, 2)
    BY <2>1, <2>2, <2>3, <2>4, SeqEqual
  <2>6. QED
    BY <1>1, <1>2, <2>5 DEF Heeded, Wanted, x, y
<1>3. CASE s # "delay"
  BY <1>1, <1>3 DEF Heeded, Wanted, Store
<1>4. QED
  BY <1>2, <1>3

(* The statements that are pushed one by one                                 *)
LEMMA StatementOps ==
  /\ \A f : Sized(f).op = "sized" /\ Ordered(Sized(f))
  /\ \A f, i : Part(f, i).op = "part" /\ Ordered(Part(f, i))
  /\ \A o, h, w : /\ Write(o, h, w).op = "write" /\ Ordered(Write(o, h, w))
                  /\ Write(o, h, w).order = o /\ Write(o, h, w).want = w
  /\ \A o, h : /\ Rewrite(o, h).op = "rewrite" /\ Ordered(Rewrite(o, h))
               /\ Rewrite(o, h).order = o
  /\ \A o, i : Each(o, i).op = "each" /\ Each(o, i).order = o
  /\ \A o \in Order : \A i : Ordered(Each(o, i))
  /\ Darken.op = "darken" /\ Ordered(Darken)
  /\ Reopen.op = "reopen" /\ Ordered(Reopen)
  /\ Reread.op = "reread" /\ Ordered(Reread)
  /\ Open.op = "open" /\ Ordered(Open)
  /\ Opened.op = "opened" /\ Ordered(Opened)
BY DEF Sized, Part, Write, Rewrite, Each, Darken, Reopen, Reread, Open, Opened, Ordered

(* A report that is written keeps StackInv, also when its transfer fails.    *)
LEMMA WriteInv == ASSUME StackInv, WriteBufferToDeviceWithCheck PROVE StackInv'
<1>1. /\ todo # << >> /\ todo[1].op = "write" /\ Head(todo) = todo[1]
      /\ Len(todo) \in Nat \ {0}
      /\ UNCHANGED <<buffer, due, reopened>>
  BY Top DEF StackInv, Shape, WriteBufferToDeviceWithCheck, colours, history
<1>2. PICK st \in {<< >>, <<Reopen, Rewrite(todo[1].order, todo[1].to)>>} : Then(st)
  BY <1>1 DEF WriteBufferToDeviceWithCheck
<1>3. /\ Shape(st)
      /\ st = << >> => Len(st) = 0
      /\ st # << >> => /\ Len(st) = 2 /\ st[1].op = "reopen" /\ st[2].op = "rewrite"
                       /\ st[2].order = todo[1].order
  BY None, Two, StatementOps DEF Loop
<1>4. 2 \in 1..Len(todo) /\ Loop(todo[2]) => todo[2].order = todo[1].order
  <2>1. 2 \in 1..Len(todo) => 2 \in 2..Len(todo) /\ 2 - 1 = 1
    OBVIOUS
  <2>2. QED
    BY <2>1 DEF StackInv, Shape
<1>5. 2 \in 1..Len(todo) /\ Loop(todo[2]) =>
        st = << >> \/ (Transfer(st[Len(st)]) /\ st[Len(st)].order = todo[2].order)
  BY <1>3, <1>4 DEF Transfer
<1>6. ~Answers(todo[1])
  BY <1>1 DEF Answers
<1>7. CASE reopened
  BY <1>1, <1>2, <1>3, <1>5, <1>6, <1>7, ExecutedReopened
<1>8. CASE ~reopened
  <2>1. Shape(todo') /\ AnswerOnStack'
    BY <1>1, <1>2, <1>3, <1>5, <1>6, ShapeReplaced, AnswerKept DEF StackInv
  <2>2. /\ Len(todo') = Len(st) + Len(todo) - 1
        /\ \A i \in 1..Len(st) : todo'[i] = st[i]
        /\ \A i \in Len(st) + 1 .. Len(todo') : /\ i - Len(st) + 1 \in 2..Len(todo)
                                                /\ todo'[i] = todo[i - Len(st) + 1]
    BY <1>1, <1>2, <1>3, Replaced DEF StackInv, Shape
  <2>3. \A i \in 2..Len(todo) : /\ ~Resumed(todo[i]) /\ todo[i].op # "write"
                                /\ Loop(todo[i]) => i = 2
    <3>1. \A i \in 2..Len(todo) : i \in 1..Len(todo)
      BY <1>1
    <3>2. QED
      BY <1>1, <1>8, <3>1, Quiet DEF Transfer
  <2>4. CASE st = << >>
    <3>1. \A i \in 1..Len(todo') : i + 1 \in 2..Len(todo) /\ todo'[i] = todo[i + 1]
      <4>1. \A i \in 1..Len(todo') : i \in Len(st) + 1 .. Len(todo') /\ i - Len(st) + 1 = i + 1
        BY <1>3, <2>4
      <4>2. QED
        BY <2>2, <4>1
    <3>2. LoopIsFilled'
      <4>1. SUFFICES ASSUME NEW i \in {1, 2} \cap 1..Len(todo'), Loop(todo'[i])
                     PROVE  Heeded(todo'[i].order, buffer')
                              = Heeded(todo'[i].order, Wanted(todo'[i].order))
        BY DEF LoopIsFilled
      <4>2. todo'[i] = todo[i + 1] /\ i + 1 = 2 /\ 2 \in 1..Len(todo) /\ Loop(todo[2])
        BY <2>3, <3>1, <4>1
      <4>3. QED
        BY <1>1, <1>8, <4>2 DEF StackInv, LoopIsFilled
    <3>3. ReopenFirst'
      BY <2>3, <3>1 DEF ReopenFirst
    <3>4. WholeReports'
      <4>1. todo' # << >> => Head(todo') = todo'[1] /\ 1 \in 1..Len(todo')
        BY <2>1, EmptySeq DEF Shape, IsStack
      <4>2. QED
        BY <2>3, <3>1, <4>1 DEF WholeReports, At, Idle
    <3>5. QED
      BY <2>1, <3>2, <3>3, <3>4 DEF StackInv
  <2>5. CASE st # << >>
    <3>1. todo'[1].op = "reopen" /\ todo'[2].op = "rewrite"
      <4>1. /\ st[1].op = "reopen" /\ st[2].op = "rewrite"
            /\ 1 \in 1..Len(st) /\ 2 \in 1..Len(st)
        BY <1>3, <2>5
      <4>2. todo'[1] = st[1] /\ todo'[2] = st[2]
        BY <2>2, <4>1
      <4>3. QED
        BY <4>1, <4>2
    <3>2. LoopIsFilled' /\ ReopenFirst'
      BY <3>1 DEF LoopIsFilled, ReopenFirst, Loop
    <3>3. WholeReports'
      <4>1. todo' # << >> => Head(todo') = todo'[1]
        BY <2>1, EmptySeq DEF Shape, IsStack
      <4>2. QED
        BY <3>1, <4>1 DEF WholeReports, At, Idle
    <3>4. QED
      BY <2>1, <3>2, <3>3 DEF StackInv
  <2>6. QED
    BY <2>4, <2>5
<1>9. QED
  BY <1>7, <1>8

(* A report written again after a reopen keeps StackInv.                     *)
LEMMA RewriteInv == ASSUME StackInv, WriteAfterReopen PROVE StackInv'
<1>1. /\ todo # << >> /\ todo[1].op = "rewrite" /\ 1 \in 1..Len(todo)
      /\ Then(<< >>) /\ UNCHANGED <<due, reopened>>
  BY Top DEF StackInv, Shape, WriteAfterReopen, history
<1>2. reopened
  BY <1>1 DEF StackInv, ReopenFirst, Resumed
<1>3. QED
  BY <1>1, <1>2, None, ExecutedReopened DEF Answers

(* Closing the devices for a reopen keeps StackInv.                          *)
LEMMA ReopenInv == ASSUME StackInv, TryToReopenDevice PROVE StackInv'
<1>1. /\ todo # << >> /\ todo[1].op = "reopen"
      /\ Then(<<Open>>) /\ due' = due /\ reopened'
  BY Top DEF StackInv, Shape, TryToReopenDevice
<1>2. Shape(<<Open>>)
  BY One, StatementOps
<1>3. ~(2 \in 1..Len(todo) /\ Loop(todo[2]))
  <2>1. 2 \in 1..Len(todo) => 2 \in 2..Len(todo) /\ 2 - 1 = 1
    OBVIOUS
  <2>2. QED
    BY <1>1, <2>1 DEF StackInv, Shape, Transfer
<1>4. QED
  BY <1>1, <1>2, <1>3, ExecutedReopened DEF Answers

(* Statements that neither loop nor write, and do not answer                 *)
Plain(x) == ~Loop(x) /\ ~Resumed(x) /\ x.op # "write"

(* A statement that gives no answer and pushes only plain ones keeps         *)
(* StackInv.                                                                 *)
LEMMA PlainInv ==
  ASSUME StackInv, todo # << >>, NEW st, Shape(st), Then(st), UNCHANGED <<due, reopened>>,
         todo[1].op \notin {"write", "rewrite", "reopen"}, ~Answers(todo[1]),
         \A i \in 1..Len(st) : Plain(st[i])
  PROVE  StackInv'
BY Executed DEF Plain

(* Reading from a device, also again after a reopen, keeps StackInv.         *)
LEMMA ReadInv ==
  ASSUME StackInv, ReadDataFromDeviceWithCheck \/ ReadAfterReopen PROVE StackInv'
<1>1. /\ todo # << >> /\ todo[1].op \in {"read", "reread"}
      /\ UNCHANGED <<due, reopened>>
  BY Top DEF StackInv, Shape, ReadDataFromDeviceWithCheck, ReadAfterReopen, history
<1>2. PICK st \in {<< >>, <<Reopen, Reread>>} : Then(st)
  BY DEF ReadDataFromDeviceWithCheck, ReadAfterReopen
<1>3. /\ Shape(st)
      /\ st = << >> => Len(st) = 0
      /\ st # << >> => Len(st) = 2 /\ st[1].op = "reopen" /\ st[2].op = "reread"
  BY None, Two, StatementOps DEF Loop
<1>4. \A i \in 1..Len(st) : /\ st[i].op \in {"reopen", "reread"} /\ st # << >>
  <2>1. (\A i \in 1..2 : i = 1 \/ i = 2) /\ 1..0 = {}
    OBVIOUS
  <2>2. QED
    BY <1>3, <2>1
<1>5. QED
  BY <1>1, <1>2, <1>3, <1>4, Executed DEF Loop, Answers

(* Opening the devices, and what follows it, keeps StackInv.                 *)
LEMMA OpenInv ==
  ASSUME StackInv, OpenDevices \/ OpenDeviceSuccess \/ PingHasOpened PROVE StackInv'
<1>1. /\ todo # << >> /\ todo[1].op \in {"open", "opened", "pingOpened"}
      /\ UNCHANGED <<due, reopened>>
  BY Top DEF StackInv, Shape, OpenDevices, OpenDeviceSuccess, PingHasOpened, history
<1>2. PICK st \in {<< >>, UpdateDeviceSettings \o <<Opened>>} : Then(st)
  BY DEF OpenDevices, OpenDeviceSuccess, PingHasOpened
<1>3. st \in Seq(Preset)
  <2>1. <<Opened>> \in Seq(Preset) /\ << >> \in Seq(Preset)
    BY EmptySeq DEF Preset
  <2>2. QED
    BY <2>1, UpdateSeq, ConcatProperties
<1>4. Shape(st) /\ \A i \in 1..Len(st) : Plain(st[i])
  BY <1>3, PresetShape, PresetOps DEF Plain, Loop, Resumed
<1>5. QED
  BY <1>1, <1>2, <1>4, PlainInv DEF Answers

(* setColors, up to its loop, keeps StackInv.                                *)
LEMMA ColoursInv == ASSUME StackInv, SetColorsCalled \/ CheckSize PROVE StackInv'
<1>1. /\ todo # << >> /\ todo[1].op \in {"setColors", "setColorsSaved", "sized"}
      /\ UNCHANGED <<due, reopened>>
  BY Top DEF StackInv, Shape, SetColorsCalled, CheckSize, history
<1>2. PICK f, st : Then(st) /\ st \in {<< >>, <<Part(f, 1)>>, <<Sized(f)>>, <<Reopen, Sized(f)>>}
  <2>1. CASE SetColorsCalled
    BY <2>1, Joined DEF SetColorsCalled, MaxLedsCount
  <2>2. CASE CheckSize
    BY <2>2 DEF CheckSize
  <2>3. QED
    BY <2>1, <2>2
<1>3. Shape(st) /\ \A i \in 1..Len(st) : Plain(st[i])
  <2>1. CASE st = << >>
    BY <2>1, None
  <2>2. CASE st = <<Part(f, 1)>>
    BY <2>2, One, StatementOps DEF Plain, Loop, Resumed
  <2>3. CASE st = <<Sized(f)>>
    BY <2>3, One, StatementOps DEF Plain, Loop, Resumed
  <2>4. CASE st = <<Reopen, Sized(f)>>
    <3>1. Shape(st) /\ Len(st) = 2 /\ st[1] = Reopen /\ st[2] = Sized(f)
      BY <2>4, Two, StatementOps DEF Loop
    <3>2. QED
      BY <3>1, StatementOps DEF Plain, Loop, Resumed
  <2>5. QED
    BY <1>2, <2>1, <2>2, <2>3, <2>4
<1>4. QED
  BY <1>1, <1>2, <1>3, PlainInv DEF Answers

(* The part that is written is what the buffer was filled with just before   *)
LEMMA PartInv == ASSUME StackInv, NextPart PROVE StackInv'
<1> DEFINE f == Head(todo).frame
           i == Head(todo).i
           want == Paint(Blank, f, i)
<1>1. /\ todo # << >> /\ todo[1].op = "part" /\ UNCHANGED reopened
  BY Top DEF StackInv, Shape, NextPart
<1>2. CASE i <= f.parts
  <2>1. PICK h \in DeviceAt(i) : Then(<<Write("leds", h, want), Part(f, i + 1)>>)
    BY <1>2 DEF NextPart
  <2>2. buffer' = want /\ due' = due
    BY <1>2 DEF NextPart
  <2> HIDE DEF f, i, want
  <2> DEFINE st == <<Write("leds", h, want), Part(f, i + 1)>>
  <2>3. /\ Shape(st) /\ Len(st) = 2
        /\ st[1] = Write("leds", h, want) /\ st[2] = Part(f, i + 1)
    BY Two, StatementOps DEF Loop
  <2> HIDE DEF st
  <2>4. \A k \in 1..Len(st) : /\ ~Loop(st[k]) /\ ~Resumed(st[k])
                              /\ st[k].op = "write" => st[k].want = buffer'
    <3>1. \A k \in 1..2 : k = 1 \/ k = 2
      OBVIOUS
    <3>2. QED
      BY <2>2, <2>3, <3>1, StatementOps DEF Loop, Resumed
  <2>5. Then(st)
    BY <2>1 DEF st
  <2>6. QED
    BY <1>1, <2>2, <2>3, <2>4, <2>5, Executed DEF Answers
<1>3. CASE ~(i <= f.parts)
  <2>1. Then(<< >>) /\ due' = FALSE
    BY <1>3 DEF NextPart
  <2>2. QED
    BY <1>1, <2>1, None, Executed DEF Answers
<1>4. QED
  BY <1>2, <1>3

(* switchOffLeds, up to its loop, keeps StackInv.                            *)
LEMMA SwitchOffInv == ASSUME StackInv, SwitchOffCalled PROVE StackInv'
<1>1. /\ todo # << >> /\ todo[1].op = "off" /\ UNCHANGED <<due, reopened>>
  BY Top DEF StackInv, Shape, SwitchOffCalled, history
<1>2. PICK st \in {<<Darken>>, <<Reopen, Darken>>} : Then(st)
  BY Joined DEF SwitchOffCalled, MaxLedsCount
<1>3. /\ Shape(st) /\ \A i \in 1..Len(st) : Plain(st[i])
      /\ \E i \in 1..Len(st) : Answers(st[i])
  <2>1. CASE st = <<Darken>>
    BY <2>1, One, StatementOps DEF Plain, Loop, Resumed, Answers
  <2>2. CASE st = <<Reopen, Darken>>
    <3>1. Shape(st) /\ Len(st) = 2 /\ st[1] = Reopen /\ st[2] = Darken
      BY <2>2, Two, StatementOps DEF Loop
    <3>2. QED
      BY <3>1, StatementOps DEF Plain, Loop, Resumed, Answers
  <2>3. QED
    BY <1>2, <2>1, <2>2
<1>4. QED
  BY <1>1, <1>2, <1>3, Executed DEF Plain

(* A loop begins with the buffer filled for it                               *)
LEMMA FillInv == ASSUME StackInv, DarkenLeds \/ SetSetting PROVE StackInv'
<1>1. /\ todo # << >> /\ todo[1].op \in {"darken", "set"} /\ UNCHANGED <<due, reopened>>
      /\ Head(todo) = todo[1] /\ 1 \in 1..Len(todo)
  BY Top DEF StackInv, Shape, DarkenLeds, SetSetting, history
<1>2. PICK order \in Order :
        Then(<<Each(order, 1)>>) /\ Heeded(order, buffer') = Heeded(order, Wanted(order))
  <2>1. CASE DarkenLeds
    BY <2>1 DEF DarkenLeds, Wanted, Order
  <2>2. CASE SetSetting
    <3>1. todo[1].op = "set"
      BY <2>2, Top DEF StackInv, Shape, SetSetting
    <3>2. todo[1].order \in Setting
      BY <1>1, <3>1 DEF StackInv, Shape, Ordered
    <3>3. QED
      BY <1>1, <2>2, <3>2, HeededStore DEF SetSetting, Order
  <2>3. QED
    BY <2>1, <2>2
<1> DEFINE st == <<Each(order, 1)>>
<1>3. Shape(st) /\ Len(st) = 1 /\ st[1] = Each(order, 1)
  BY One, StatementOps
<1>4. Then(st)
  BY <1>2
<1> HIDE DEF st
<1>5. \A k \in 1..Len(st) : /\ st[k].order = order /\ ~Resumed(st[k]) /\ st[k].op # "write"
  BY <1>3, StatementOps DEF Resumed
<1>6. \E k \in 1..Len(st) : Answers(st[k])
  BY <1>3, StatementOps DEF Answers
<1>7. QED
  BY <1>1, <1>2, <1>3, <1>4, <1>5, <1>6, Executed

(* It goes on with a transfer and itself, or it answers                      *)
LEMMA LoopInv == ASSUME StackInv, NextDevice PROVE StackInv'
<1> DEFINE order == Head(todo).order
           i == Head(todo).i
<1>1. /\ todo # << >> /\ todo[1].op = "each" /\ Head(todo) = todo[1]
      /\ 1 \in 1..Len(todo)
      /\ UNCHANGED <<reopened, buffer>>
  BY Top DEF StackInv, Shape, NextDevice, colours
<1>2. CASE i \in DOMAIN devices
  <2>1. PICK h : Then(<<Write(order, h, Wanted(order)), Each(order, i + 1)>>)
    BY <1>2 DEF NextDevice
  <2>2. due' = due
    BY <1>2 DEF NextDevice
  <2>3. order \in Order
    BY <1>1 DEF StackInv, Shape, Ordered
  <2>4. ~reopened => Heeded(order, buffer') = Heeded(order, Wanted(order))
    BY <1>1 DEF StackInv, LoopIsFilled, Loop
  <2> HIDE DEF order, i
  <2> DEFINE st == <<Write(order, h, Wanted(order)), Each(order, i + 1)>>
  <2>5. /\ Shape(st) /\ Len(st) = 2
        /\ st[1] = Write(order, h, Wanted(order)) /\ st[2] = Each(order, i + 1)
    BY <2>3, Two, StatementOps DEF Loop, Transfer
  <2>6. Then(st)
    BY <2>1
  <2> HIDE DEF st
  <2>7. \A k \in 1..Len(st) : /\ st[k].order = order /\ ~Resumed(st[k])
                              /\ st[k].op = "write" => st[k].want = Wanted(order)
    <3>1. \A k \in 1..2 : k = 1 \/ k = 2
      OBVIOUS
    <3>2. QED
      BY <2>5, <3>1, StatementOps DEF Resumed
  <2>8. \E k \in 1..Len(st) : Answers(st[k])
    BY <2>5, StatementOps DEF Answers
  <2>9. QED
    BY <1>1, <2>2, <2>4, <2>5, <2>6, <2>7, <2>8, Executed
<1>3. CASE i \notin DOMAIN devices
  <2>1. Then(<< >>) /\ due' = FALSE
    BY <1>3 DEF NextDevice
  <2>2. QED
    BY <1>1, <2>1, None, Executed
<1>4. QED
  BY <1>2, <1>3

(* commandCompleted, which gives the answer that was owed, keeps StackInv.   *)
LEMMA AnswerInv == ASSUME StackInv, CommandCompleted PROVE StackInv'
<1>1. /\ todo # << >> /\ todo[1].op = "answer"
      /\ Then(<< >>) /\ due' = FALSE /\ UNCHANGED reopened
  BY Top DEF StackInv, Shape, CommandCompleted
<1>2. QED
  BY <1>1, None, Executed

-----------------------------------------------------------------------------
(* Slots and cables *)

(* A slot that starts with plain statements, and an answer if it owes one,   *)
(* begins in StackInv.                                                       *)
LEMMA CallInv ==
  ASSUME NEW st, Shape(st), NEW owes \in BOOLEAN, Call(st, owes),
         \A i \in 1..Len(st) : Plain(st[i]),
         owes => \E i \in 1..Len(st) : Answers(st[i])
  PROVE  StackInv'
<1>1. todo' = st /\ due' = owes
  BY DEF Call
<1>2. st # << >> => Head(st) = st[1] /\ 1 \in 1..Len(st)
  BY EmptySeq DEF Shape, IsStack
<1>3. WholeReports'
  BY <1>1, <1>2 DEF WholeReports, At, Idle, Plain
<1>4. QED
  BY <1>1, <1>3 DEF StackInv, LoopIsFilled, ReopenFirst, AnswerOnStack, Plain

(* A slot of one plain statement begins in StackInv.                         *)
LEMMA PushOne ==
  ASSUME NEW x, Ordered(x), Plain(x), NEW owes \in BOOLEAN, owes => Answers(x),
         Call(<<x>>, owes)
  PROVE  StackInv'
<1> DEFINE st == <<x>>
<1>1. Shape(st) /\ Len(st) = 1 /\ st[1] = x /\ Call(st, owes)
  BY One
<1> HIDE DEF st
<1>2. \A i \in 1..Len(st) : Plain(st[i])
  BY <1>1
<1>3. owes => \E i \in 1..Len(st) : Answers(st[i])
  BY <1>1
<1>4. QED
  BY <1>1, <1>2, <1>3, CallInv

(* All slots of the manager's signals begin in StackInv.                     *)
LEMMA SlotInv ==
  ASSUME StackInv, AnsweringSlot \/ OtherSlot PROVE StackInv'
<1>1. CASE \E s \in Setting : Call(<<Set(s)>>, TRUE)
  <2>1. PICK s \in Setting : Call(<<Set(s)>>, TRUE)
    BY <1>1
  <2>2. Set(s).op = "set" /\ Ordered(Set(s))
    BY DEF Set, Ordered
  <2>3. QED
    BY <2>1, <2>2, PushOne DEF Plain, Loop, Resumed, Answers
<1>2. CASE Call(<<SwitchOff>>, TRUE)
  <2>1. SwitchOff.op = "off" /\ Ordered(SwitchOff)
    BY DEF SwitchOff, Ordered
  <2>2. QED
    BY <1>2, <2>1, PushOne DEF Plain, Loop, Resumed, Answers
<1>3. CASE Call(RequestFirmwareVersion, TRUE) \/ Call(UpdateDeviceSettings, TRUE)
  <2>1. PICK st \in {RequestFirmwareVersion, UpdateDeviceSettings} : Call(st, TRUE)
    BY <1>3
  <2>2. st \in Seq(Preset) /\ Contains(st, Answer)
    <3>1. /\ RequestFirmwareVersion \in Seq(Preset)
          /\ Len(RequestFirmwareVersion) = 2 /\ RequestFirmwareVersion[2] = Answer
      BY DEF RequestFirmwareVersion, Preset
    <3>2. Contains(RequestFirmwareVersion, Answer)
      BY <3>1 DEF Contains
    <3>3. QED
      BY <3>1, <3>2, UpdateSeq
  <2>3. Answers(Answer)
    BY DEF Answers, Answer
  <2>4. Shape(st) /\ \A i \in 1..Len(st) : Plain(st[i])
    <3>1. Shape(st) /\ \A i \in 1..Len(st) : st[i] \in Preset
      BY <2>2, PresetShape
    <3>2. \A x \in Preset : Plain(x)
      BY PresetOps DEF Plain, Loop, Resumed
    <3>3. QED
      BY <3>1, <3>2
  <2>5. \E i \in 1..Len(st) : Answers(st[i])
    BY <2>2, <2>3 DEF Contains
  <2>6. QED
    BY <2>1, <2>4, <2>5, CallInv
<1>4. CASE OtherSlot
  <2>1. PICK x : Call(<<x>>, FALSE) /\ x.op \in {"open", "setColorsSaved", "setColors"}
    <3>1. /\ Open.op = "open" /\ SetColorsSaved.op = "setColorsSaved"
          /\ \A f : SetColors(f).op = "setColors"
      BY DEF Open, SetColorsSaved, SetColors
    <3>2. QED
      BY <1>4, <3>1 DEF OtherSlot
  <2>2. Ordered(x)
    BY <2>1 DEF Ordered
  <2>3. QED
    BY <2>1, <2>2, PushOne DEF Plain, Loop, Resumed
<1>5. QED
  BY <1>1, <1>2, <1>3, <1>4 DEF AnsweringSlot

(* The slot of the ping timer begins in StackInv.                            *)
LEMMA PingInv ==
  ASSUME StackInv, TimerPingDeviceTimeout PROVE StackInv'
<1>1. PICK st \in {<< >>, <<Open, PingOpened>>} : Call(st, FALSE)
  BY DEF TimerPingDeviceTimeout
<1>2. Shape(st) /\ \A i \in 1..Len(st) : Plain(st[i])
  <2>1. CASE st = << >>
    BY <2>1, None
  <2>2. CASE st = <<Open, PingOpened>>
    <3>1. PingOpened.op = "pingOpened" /\ Ordered(PingOpened)
      BY DEF PingOpened, Ordered
    <3>2. Shape(st) /\ Len(st) = 2 /\ st[1] = Open /\ st[2] = PingOpened
      BY <2>2, <3>1, Two, StatementOps DEF Loop
    <3>3. QED
      BY <3>1, <3>2, StatementOps DEF Plain, Loop, Resumed
  <2>3. QED
    BY <1>1, <2>1, <2>2
<1>3. QED
  BY <1>1, <1>2, CallInv

(* Every step of the slots, the cables and the settings keeps StackInv.      *)
LEMMA StackNext == StackInv /\ [Next]_vars => StackInv'
<1> SUFFICES ASSUME StackInv, [Next]_vars PROVE StackInv'
  OBVIOUS
<1>1. CASE Step
  BY <1>1, WriteInv, RewriteInv, ReadInv, ReopenInv, OpenInv, ColoursInv, PartInv, SwitchOffInv,
     FillInv, LoopInv, AnswerInv DEF Step
<1>2. CASE AnsweringSlot \/ OtherSlot \/ TimerPingDeviceTimeout
  BY <1>2, SlotInv, PingInv
<1>3. CASE (\E p \in Port : Unplug(p) \/ Plug(p)) \/ Configure \/ UNCHANGED vars
  <2>1. UNCHANGED <<todo, buffer, due, reopened>>
    BY <1>3 DEF Unplug, Plug, Configure, vars, colours, history
  <2>2. QED
    BY <2>1 DEF StackInv, LoopIsFilled, ReopenFirst, AnswerOnStack, WholeReports, At, Idle
<1>4. QED
  BY <1>1, <1>2, <1>3 DEF Next

(* StackInv holds in every reachable state.                                  *)
LEMMA StackAlways == SafeSpec => []StackInv
<1>1. Init => StackInv
  BY None DEF Init, StackInv, LoopIsFilled, ReopenFirst, AnswerOnStack, WholeReports, At, Idle
<1>2. QED
  BY <1>1, StackNext, PTL DEF SafeSpec

-----------------------------------------------------------------------------
(* The theorems *)

(* A slot that the manager expects to be answered has answered when it       *)
(* returns, whatever failed and was reopened on the way.                     *)
THEOREM EverySlotAnswers == SafeSpec => []SlotsAnswer
<1>1. StackInv => SlotsAnswer
  BY None DEF StackInv, AnswerOnStack, SlotsAnswer, Idle
<1>2. QED
  BY <1>1, StackAlways, PTL

(* As long as a slot has not reopened the devices, each of its reports       *)
(* carries the bytes of its own order: what loops and parts share is only    *)
(* the buffer, and each fills it before it is sent.                          *)
THEOREM ReportsAreWhole == SafeSpec => []WholeReports
<1>1. StackInv => WholeReports
  BY DEF StackInv
<1>2. QED
  BY <1>1, StackAlways, PTL

-----------------------------------------------------------------------------
(* Opening: the Lightpacks that are found, and what the list of handles and  *)
(* the heap are when they have been opened                                   *)

(* The list of devices found is a recursive function on the ports.           *)
LEMMA FindingIs ==
  Finding = [i \in 0..Len(PortOrder) |->
               IF i = 0 THEN << >> ELSE FoundWith(Finding[i - 1], PortOrder[i])]
<1> DEFINE Turns(g, n) ==
             g = [i \in 0..n |-> IF i = 0 THEN << >> ELSE FoundWith(g[i - 1], PortOrder[i])]
           T == {n \in Nat : \E g : Turns(g, n)}
<1>1. 0 \in T
  <2>1. Turns([i \in 0..0 |-> << >>], 0)
    OBVIOUS
  <2>2. QED
    BY <2>1
<1>2. ASSUME NEW n \in Nat, n \in T PROVE n + 1 \in T
  <2>1. PICK g : Turns(g, n)
    BY <1>2
  <2> DEFINE h == [i \in 0..(n + 1) |->
                     IF i \in 0..n THEN g[i] ELSE FoundWith(g[n], PortOrder[n + 1])]
  <2>2. ASSUME NEW i \in 0..(n + 1)
        PROVE  h[i] = IF i = 0 THEN << >> ELSE FoundWith(h[i - 1], PortOrder[i])
    <3>1. CASE i = 0
      BY <2>1, <3>1
    <3>2. CASE i \in 1..n
      <4>1. h[i] = g[i] /\ h[i - 1] = g[i - 1]
        BY <3>2
      <4>2. g[i] = FoundWith(g[i - 1], PortOrder[i])
        BY <2>1, <3>2
      <4>3. QED
        BY <3>2, <4>1, <4>2
    <3>3. CASE i = n + 1
      <4>1. i \notin 0..n /\ i - 1 \in 0..n /\ i - 1 = n /\ i # 0
        BY <3>3
      <4>2. h[i] = FoundWith(g[n], PortOrder[n + 1]) /\ h[i - 1] = g[n]
        BY <4>1
      <4>3. QED
        BY <3>3, <4>1, <4>2
    <3>4. QED
      BY <3>1, <3>2, <3>3
  <2>3. Turns(h, n + 1)
    BY <2>2
  <2> HIDE DEF h, Turns
  <2>4. \E g1 : Turns(g1, n + 1)
    BY <2>3
  <2>5. QED
    BY <2>4
<1> HIDE DEF T
<1>3. Nat \subseteq T
  BY <1>1, <1>2, SetInduction
<1>4. \E g : Turns(g, Len(PortOrder))
  <2>1. Len(PortOrder) \in Nat
    BY LightpackDeviceAssumption, LenProperties
  <2>2. QED
    BY <1>3, <2>1 DEF T
<1>5. Finding = CHOOSE g : Turns(g, Len(PortOrder))
  BY DEF Finding
<1> HIDE DEF Turns
<1>6. Turns(Finding, Len(PortOrder))
  BY <1>4, <1>5
<1>7. QED
  BY <1>6 DEF Turns

(* Every turn finds other Lightpacks.                                        *)
LEMMA FoundOnce ==
  LET found == Finding[Len(PortOrder)]
  IN  found \in Seq(Port) /\ \A i, j \in 1..Len(found) : found[i] = found[j] => i = j
<1> DEFINE n == Len(PortOrder)
           OK(s, i) == /\ s \in Seq(Port)
                       /\ \A j \in 1..Len(s) : \E k \in 1..i : s[j] = PortOrder[k]
                       /\ \A j, k \in 1..Len(s) : s[j] = s[k] => j = k
           T == {i \in Nat : i <= n => OK(Finding[i], i)}
<1>0. /\ PortOrder \in Seq(Port) /\ n \in Nat /\ DOMAIN PortOrder = 1..n
      /\ \A i, j \in 1..n : PortOrder[i] = PortOrder[j] => i = j
  BY LightpackDeviceAssumption, LenProperties DEF IsInjective
<1>1. 0 \in T
  <2>1. Finding[0] = << >>
    BY <1>0, FindingIs
  <2>2. << >> \in Seq(Port) /\ 1..Len(<< >>) = {}
    OBVIOUS
  <2>3. QED
    BY <2>1, <2>2
<1>2. ASSUME NEW i \in Nat, i \in T PROVE i + 1 \in T
  <2> SUFFICES ASSUME i + 1 <= n PROVE OK(Finding[i + 1], i + 1)
    OBVIOUS
  <2> DEFINE s == Finding[i]
             p == PortOrder[i + 1]
  <2>1. OK(s, i)
    BY <1>0, <1>2
  <2>2. Finding[i + 1] = FoundWith(s, p)
    BY <1>0, FindingIs
  <2>3. p \in Port /\ i + 1 \in 1..n
    BY <1>0, ElementOfSeq
  <2>4. \A j \in 1..Len(s) : s[j] # p
    <3>1. \A k \in 1..i : PortOrder[k] # p
      BY <1>0, <2>3
    <3>2. QED
      BY <2>1, <3>1
  <2> HIDE DEF s, p
  <2>5. /\ Append(s, p) \in Seq(Port) /\ Len(Append(s, p)) = Len(s) + 1
        /\ \A j \in 1..Len(s) : Append(s, p)[j] = s[j]
        /\ Append(s, p)[Len(s) + 1] = p
        /\ Len(s) \in Nat
    BY <2>1, <2>3, AppendProperties, LenProperties
  <2>6. \A k \in 1..i : k \in 1..(i + 1)
    OBVIOUS
  <2>7. CASE p \in plugged
    <3> DEFINE t == Append(s, p)
    <3> HIDE DEF t
    <3>1. \A j \in 1..Len(t) : j \in 1..Len(s) \/ j = Len(s) + 1
      BY <2>5 DEF t
    <3>2. \A j \in 1..Len(t) : \E k \in 1..(i + 1) : t[j] = PortOrder[k]
      <4>1. SUFFICES ASSUME NEW j \in 1..Len(t) PROVE \E k \in 1..(i + 1) : t[j] = PortOrder[k]
        OBVIOUS
      <4>2. CASE j \in 1..Len(s)
        BY <2>1, <2>5, <2>6, <4>2 DEF t
      <4>3. CASE j = Len(s) + 1
        BY <2>5, <4>3, i + 1 \in 1..(i + 1) DEF t, p
      <4>4. QED
        BY <3>1, <4>2, <4>3
    <3>3. \A j, k \in 1..Len(t) : t[j] = t[k] => j = k
      <4>1. \A j \in 1..Len(s) : t[j] = s[j] /\ s[j] # p
        BY <2>4, <2>5 DEF t
      <4>2. t[Len(s) + 1] = p
        BY <2>5 DEF t
      <4>3. \A j, k \in 1..Len(s) : s[j] = s[k] => j = k
        BY <2>1
      <4>4. QED
        BY <3>1, <4>1, <4>2, <4>3
    <3>4. QED
      BY <2>2, <2>5, <2>7, <3>2, <3>3 DEF t, FoundWith
  <2>8. CASE p \notin plugged
    BY <2>1, <2>2, <2>6, <2>8 DEF FoundWith
  <2>9. QED
    BY <2>7, <2>8
<1>3. n \in T
  <2> HIDE DEF T
  <2>1. Nat \subseteq T
    BY <1>1, <1>2, SetInduction
  <2>2. QED
    BY <1>0, <2>1
<1>4. QED
  BY <1>0, <1>3

-----------------------------------------------------------------------------
(* The invariant of the handles                                              *)

(* The statements carry frames and places                                    *)
Typed(x) == /\ x.op \in {"setColors", "sized", "part"} => x.frame \in Frame
            /\ x.op \in {"part", "each"} => x.i \in Nat \ {0}

StackTyped == \A i \in 1..Len(todo) : Typed(todo[i])

(* The handles that are open are those of the list, one for each device.     *)
HandlesListed == \A a \in Address : heap[a] # "free" <=> Contains(devices, a)

OneHandleEach ==
  \A i, j \in 1..Len(devices) : Live(devices[i]) /\ heap[devices[i]] = heap[devices[j]] => i = j

(* Until the slot has reopened the devices no frame is longer than they are, *)
(* and the handle about to be written to is one of the list.                 *)
Fits(x)   == x.op = "part" => x.frame.parts <= Len(devices)
Listed(x) == x.op = "write" => Contains(devices, x.to)

StackFits == ~reopened => \A i \in 1..Len(todo) : Fits(todo[i]) /\ Listed(todo[i])

(* What a ping opens is closed by the last statement of its slot.            *)
PingLast == \A i \in 1..Len(todo) : todo[i].op = "pingOpened" => i = Len(todo)

(* A device that has not been sent a setting will be sent it: by an order    *)
(* not begun, by a loop that has not come to it, or by the transfer to it.   *)
Covers(x, i, s) ==
  \/ x.op = "set" /\ x.order = s
  \/ x.op = "each" /\ x.order = s /\ x.i <= i
  \/ x.op = "write" /\ x.order = s /\ x.to = devices[i]

Configuring ==
  \A i \in 1..Len(devices) : Live(devices[i]) =>
    \A s \in Setting : \/ s \in told[heap[devices[i]]]
                       \/ \E k \in 1..Len(todo) : Covers(todo[k], i, s)

DeviceInv ==
  /\ TypeOK
  /\ StackInv
  /\ StackTyped
  /\ HandlesListed
  /\ OneHandleEach
  /\ StackFits
  /\ PingLast
  /\ Configuring

(* Facts about an empty list of devices.                                     *)
LEMMA NoDevices == << >> \in Seq(Address) /\ Len(<< >>) = 0 /\ 1..0 = {} /\ \A x : ~Contains(<< >>, x)
<1>1. << >> \in Seq(Address) /\ Len(<< >>) = 0 /\ 1..0 = {}
  OBVIOUS
<1>2. QED
  BY <1>1 DEF Contains

(* Closing leaves no handle open and none in the list.                       *)
LEMMA Closed ==
  ASSUME CloseDevices
  PROVE  /\ devices' = << >> /\ devices' \in Seq(Address)
         /\ heap' \in [Address -> Port \cup {"free", "dead"}]
         /\ HandlesListed' /\ OneHandleEach' /\ Configuring'
<1>1. devices' = << >> /\ heap' = [a \in Address |-> "free"]
  BY DEF CloseDevices
<1>2. HandlesListed'
  BY <1>1, NoDevices DEF HandlesListed
<1>3. OneHandleEach' /\ Configuring'
  BY <1>1, NoDevices DEF OneHandleEach, Configuring
<1>4. QED
  BY <1>1, <1>2, <1>3, NoDevices

(* Opening fills both.                                                       *)
LEMMA Enumerated ==
  ASSUME TypeOK, HandlesListed, devices = << >>, Enumerate
  PROVE  /\ devices' \in Seq(Address)
         /\ heap' \in [Address -> Port \cup {"free", "dead"}]
         /\ HandlesListed' /\ OneHandleEach'
<1> DEFINE found == Finding[Len(PortOrder)]
           free == {a \in Address : heap[a] = "free"}
<1>1. found \in Seq(Port) /\ \A i, j \in 1..Len(found) : found[i] = found[j] => i = j
  BY FoundOnce
<1>2. \A a \in Address : heap[a] = "free"
  BY NoDevices DEF HandlesListed
<1>3. PICK hs \in [DOMAIN found -> free] :
        /\ IsInjective(hs)
        /\ devices' = hs
        /\ heap' = [a \in Address |-> IF Contains(hs, a) THEN found[Place(hs, a)] ELSE heap[a]]
  BY DEF Enumerate, Place
<1> HIDE DEF found
<1>4. /\ Len(found) \in Nat /\ DOMAIN found = 1..Len(found)
      /\ \A i \in 1..Len(found) : found[i] \in Port
  BY <1>1, LenProperties, ElementOfSeq
<1>5. /\ hs \in [1..Len(found) -> Address] /\ hs \in Seq(Address) /\ Len(hs) = Len(found)
      /\ \A i, j \in 1..Len(hs) : hs[i] = hs[j] => i = j
  <2>1. hs \in [1..Len(found) -> Address] /\ DOMAIN hs = 1..Len(found)
    BY <1>3, <1>4
  <2>2. QED
    BY <1>3, <1>4, <2>1 DEF IsInjective
<1>6. \A a \in Address : Contains(hs, a) => /\ heap'[a] = found[Place(hs, a)]
                                           /\ heap'[a] \in Port
  <2>1. SUFFICES ASSUME NEW a \in Address, Contains(hs, a)
                 PROVE  heap'[a] = found[Place(hs, a)] /\ heap'[a] \in Port
    OBVIOUS
  <2>2. Place(hs, a) \in 1..Len(hs)
    BY <1>5, <2>1, PlaceOf
  <2>3. QED
    BY <1>3, <1>4, <1>5, <2>1, <2>2
<1>7. \A a \in Address : ~Contains(hs, a) => heap'[a] = "free"
  BY <1>2, <1>3
<1>8. "free" \notin Port
  BY LightpackDeviceAssumption
<1>9. heap' \in [Address -> Port \cup {"free", "dead"}]
  <2>1. DOMAIN heap' = Address /\ heap' = [a \in Address |-> heap'[a]]
    BY <1>3
  <2>2. QED
    BY <1>6, <1>7, <2>1
<1>10. HandlesListed'
  BY <1>3, <1>6, <1>7, <1>8 DEF HandlesListed
<1>11. \A i \in 1..Len(hs) : heap'[hs[i]] = found[i]
  <2>1. SUFFICES ASSUME NEW i \in 1..Len(hs) PROVE heap'[hs[i]] = found[i]
    OBVIOUS
  <2>2. hs[i] \in Address /\ Contains(hs, hs[i])
    BY <1>5 DEF Contains
  <2>3. Place(hs, hs[i]) = i
    BY <1>5, <2>2, PlaceOf
  <2>4. QED
    BY <1>6, <2>2, <2>3
<1>12. OneHandleEach'
  <2>1. SUFFICES ASSUME NEW i \in 1..Len(hs), NEW j \in 1..Len(hs), heap'[hs[i]] = heap'[hs[j]]
                 PROVE  i = j
    BY <1>3 DEF OneHandleEach
  <2>2. found[i] = found[j]
    BY <1>11, <2>1
  <2>3. QED
    BY <1>1, <1>5, <2>1, <2>2
<1>13. QED
  BY <1>3, <1>5, <1>9, <1>10, <1>12

-----------------------------------------------------------------------------
(* One statement is replaced by others *)

(* What stands on the stack afterwards stood on it or is new, and what stood *)
(* below the top or is new stands on it.                                     *)
LEMMA Content ==
  ASSUME StackInv, todo # << >>, NEW st, Shape(st), Then(st)
  PROVE  /\ \A i \in 1..Len(todo') : \/ \E k \in 1..Len(st) : todo'[i] = st[k]
                                     \/ \E k \in 2..Len(todo) : todo'[i] = todo[k]
         /\ \A k \in 1..Len(st) : \E i \in 1..Len(todo') : todo'[i] = st[k]
         /\ \A k \in 2..Len(todo) : \E i \in 1..Len(todo') : todo'[i] = todo[k]
         /\ \A k \in 2..Len(todo) : k \in 1..Len(todo)
         /\ \A k \in 1..Len(todo) : k = 1 \/ k \in 2..Len(todo)
         /\ 1 \in 1..Len(todo)
<1>1. /\ Len(st) \in Nat /\ Len(todo) \in Nat \ {0}
      /\ Len(todo') = Len(st) + Len(todo) - 1
      /\ \A i \in 1..Len(st) : todo'[i] = st[i]
      /\ \A i \in Len(st) + 1 .. Len(todo') : /\ i - Len(st) + 1 \in 2..Len(todo)
                                              /\ todo'[i] = todo[i - Len(st) + 1]
      /\ \A i \in 2..Len(todo) : /\ Len(st) + i - 1 \in Len(st) + 1 .. Len(todo')
                                 /\ todo'[Len(st) + i - 1] = todo[i]
  BY Replaced DEF StackInv, Shape
<1>2. \A i \in 1..Len(todo') : i \in 1..Len(st) \/ i \in Len(st) + 1 .. Len(todo')
  BY <1>1
<1>3. \A i \in 1..Len(todo') : \/ \E k \in 1..Len(st) : todo'[i] = st[k]
                               \/ \E k \in 2..Len(todo) : todo'[i] = todo[k]
  BY <1>1, <1>2
<1>4. \A k \in 1..Len(st) : k \in 1..Len(todo') /\ todo'[k] = st[k]
  BY <1>1
<1>5. \A k \in 2..Len(todo) : /\ Len(st) + k - 1 \in 1..Len(todo')
                              /\ todo'[Len(st) + k - 1] = todo[k]
  BY <1>1
<1>6. /\ \A k \in 1..Len(st) : \E i \in 1..Len(todo') : todo'[i] = st[k]
      /\ \A k \in 2..Len(todo) : \E i \in 1..Len(todo') : todo'[i] = todo[k]
  BY <1>4, <1>5
<1>7. /\ \A k \in 2..Len(todo) : k \in 1..Len(todo)
      /\ \A k \in 1..Len(todo) : k = 1 \/ k \in 2..Len(todo)
      /\ 1 \in 1..Len(todo)
  BY <1>1
<1>8. QED
  BY <1>3, <1>6, <1>7

(* The statements on the stack stay typed when those pushed are.             *)
LEMMA TypedKept ==
  ASSUME StackInv, StackTyped, todo # << >>, NEW st, Shape(st), Then(st),
         \A k \in 1..Len(st) : Typed(st[k])
  PROVE  StackTyped'
<1>1. \A i \in 1..Len(todo') : Typed(todo'[i])
  BY Content DEF StackTyped
<1>2. QED
  BY <1>1 DEF StackTyped, Typed

(* What the ping timer does after opening stays the last statement.          *)
LEMMA PingLastKept ==
  ASSUME StackInv, PingLast, todo # << >>, NEW st, Shape(st), Then(st),
         \A k \in 1..Len(st) : st[k].op # "pingOpened"
  PROVE  PingLast'
<1>1. /\ Len(st) \in Nat /\ Len(todo) \in Nat \ {0}
      /\ Len(todo') = Len(st) + Len(todo) - 1
      /\ \A i \in 1..Len(st) : todo'[i] = st[i]
      /\ \A i \in Len(st) + 1 .. Len(todo') : /\ i - Len(st) + 1 \in 2..Len(todo)
                                              /\ todo'[i] = todo[i - Len(st) + 1]
  BY Replaced DEF StackInv, Shape
<1>2. ASSUME NEW i \in 1..Len(todo'), todo'[i].op = "pingOpened" PROVE i = Len(todo')
  <2>1. i \in Len(st) + 1 .. Len(todo')
    BY <1>1, <1>2
  <2>2. i - Len(st) + 1 \in 1..Len(todo) /\ todo[i - Len(st) + 1].op = "pingOpened"
    BY <1>1, <1>2, <2>1
  <2>3. i - Len(st) + 1 = Len(todo)
    BY <2>2 DEF PingLast
  <2>4. QED
    BY <1>1, <2>1, <2>3
<1>3. QED
  BY <1>2 DEF PingLast

(* Frames on the stack fit the list, and writes go to handles in it, when    *)
(* those pushed do and the list stays.                                       *)
LEMMA FitsKept ==
  ASSUME StackInv, StackFits, todo # << >>, NEW st, Shape(st), Then(st), UNCHANGED devices,
         reopened => reopened',
         ~reopened => \A k \in 1..Len(st) : Fits(st[k]) /\ Listed(st[k])
  PROVE  StackFits'
<1>1. SUFFICES ASSUME ~reopened'
               PROVE  \A i \in 1..Len(todo') : Fits(todo'[i]) /\ Listed(todo'[i])
  BY DEF StackFits, Fits, Listed
<1>2. \A k \in 1..Len(todo) : Fits(todo[k]) /\ Listed(todo[k])
  BY <1>1 DEF StackFits
<1>3. QED
  BY <1>1, <1>2, Content

(* A setting owed to a device is sent by the statement on top or still       *)
(* ordered by those pushed or below.                                         *)
LEMMA ConfiguringKept ==
  ASSUME StackInv, Configuring, todo # << >>, NEW st, Shape(st), Then(st), UNCHANGED usb,
         \A p \in Port : told[p] \subseteq told'[p],
         \A i \in 1..Len(devices) : Live(devices[i]) =>
           \A s \in Setting : Covers(todo[1], i, s) =>
             \/ s \in told'[heap[devices[i]]]
             \/ \E k \in 1..Len(st) : Covers(st[k], i, s)
  PROVE  Configuring'
<1>1. devices' = devices /\ heap' = heap
  BY DEF usb
<1>2. ASSUME NEW i \in 1..Len(devices), Live(devices[i]), NEW s \in Setting
      PROVE  \/ s \in told'[heap[devices[i]]]
             \/ \E k \in 1..Len(todo') : Covers(todo'[k], i, s)
  <2>1. heap[devices[i]] \in Port
    BY <1>2 DEF Live
  <2>2. CASE s \in told[heap[devices[i]]]
    BY <2>1, <2>2
  <2>3. CASE \E k \in 1..Len(todo) : Covers(todo[k], i, s)
    <3>1. PICK k \in 1..Len(todo) : Covers(todo[k], i, s)
      BY <2>3
    <3>2. CASE k = 1
      BY <1>2, <3>1, <3>2, Content
    <3>3. CASE k \in 2..Len(todo)
      BY <3>1, <3>3, Content
    <3>4. QED
      BY <3>2, <3>3, Content
  <2>4. QED
    BY <1>2, <2>2, <2>3 DEF Configuring
<1>3. QED
  BY <1>1, <1>2 DEF Configuring, Covers, Live

-----------------------------------------------------------------------------
(* Types *)

(* A report of three parts, byte by byte.                                    *)
LEMMA Bytes ==
  ASSUME NEW X, NEW a \in X, NEW b \in X, NEW c \in X
  PROVE  /\ <<a, b, c>> \in [1..3 -> X]
         /\ <<a, b, c>>[1] = a /\ <<a, b, c>>[2] = b /\ <<a, b, c>>[3] = c
<1> DEFINE t == <<a, b, c>>
<1>1. t \in Seq(X) /\ Len(t) = 3 /\ t[1] = a /\ t[2] = b /\ t[3] = c
  OBVIOUS
<1> HIDE DEF t
<1>2. t \in [1..3 -> X]
  BY <1>1, LenProperties
<1>3. QED
  BY <1>1, <1>2 DEF t

Byte == Setting \cup {"black", "colour"}

(* Filling the buffer, for colours or a setting, leaves a buffer.            *)
LEMMA BufferType ==
  /\ Blank \in [1..3 -> Byte]
  /\ \A b \in [1..3 -> Byte] : \A s \in Setting : Store(b, s) \in [1..3 -> Byte]
  /\ \A f, i : Paint(Blank, f, i) \in [1..3 -> Byte]
<1>1. Blank \in [1..3 -> Byte] /\ Blank[1] = "black" /\ Blank[2] = "black"
  BY Bytes DEF Blank, Byte
<1>2. ASSUME NEW b \in [1..3 -> Byte], NEW s \in Setting PROVE Store(b, s) \in [1..3 -> Byte]
  <2>1. b[2] \in Byte /\ b[3] \in Byte /\ s \in Byte
    BY DEF Byte
  <2> DEFINE second == IF s = "delay" THEN s ELSE b[2]
  <2>2. second \in Byte
    BY <2>1
  <2> HIDE DEF second
  <2>3. <<s, second, b[3]>> \in [1..3 -> Byte]
    BY <2>1, <2>2, Bytes
  <2>4. QED
    BY <2>3 DEF Store, second
<1>3. ASSUME NEW f, NEW i PROVE Paint(Blank, f, i) \in [1..3 -> Byte]
  <2> DEFINE colour == IF f.dark THEN "black" ELSE "colour"
  <2>1. colour \in Byte
    BY DEF Byte
  <2> HIDE DEF colour
  <2>2. /\ <<colour, colour, colour>> \in [1..3 -> Byte]
        /\ <<Blank[1], Blank[2], colour>> \in [1..3 -> Byte]
    BY <1>1, <2>1, Bytes DEF Byte
  <2>3. QED
    BY <2>2 DEF Paint, colour
<1>4. QED
  BY <1>1, <1>2, <1>3

(* A report that arrives adds to what its device was told and takes nothing  *)
(* away.                                                                     *)
LEMMA ToldType ==
  ASSUME TypeOK, NEW order, NEW h, Live(h), Receive(order, h)
  PROVE  /\ told' \in [Port -> SUBSET Setting]
         /\ \A p \in Port : told[p] \subseteq told'[p]
         /\ order \in Setting => order \in told'[heap[h]]
<1>1. heap[h] \in Port /\ told \in [Port -> SUBSET Setting]
  BY DEF Live, TypeOK
<1>2. told' = [told EXCEPT ![heap[h]] = @ \cup ({order} \cap Setting)]
  BY DEF Receive
<1>3. QED
  BY <1>1, <1>2

(* The colours saved by setColors and switchOffLeds are a frame.             *)
LEMMA SavedType ==
  ASSUME TypeOK, StackInv, StackTyped, CheckSize \/ DarkenLeds
  PROVE  saved' \in Frame
<1>1. saved \in Frame /\ devices \in Seq(Address) /\ Len(devices) \in Nat
  BY LenProperties DEF TypeOK
<1>2. CASE CheckSize
  <2>1. /\ Head(todo) = todo[1] /\ 1 \in 1..Len(todo) /\ todo[1].op = "sized"
    BY <1>2, Top DEF StackInv, Shape, CheckSize
  <2>2. Head(todo).frame \in Frame
    BY <2>1 DEF StackTyped, Typed
  <2>3. QED
    BY <1>1, <1>2, <2>2 DEF CheckSize, colours
<1>3. CASE DarkenLeds
  BY <1>1, <1>3 DEF DarkenLeds, NoFrame, Frame
<1>4. QED
  BY <1>2, <1>3

(* Every step keeps TypeOK while statements and handles are typed.           *)
LEMMA TypeStep ==
  ASSUME TypeOK, StackInv, StackTyped, HandlesListed, Step
  PROVE  TypeOK'
<1> USE DEF cable, usb, ping, colours, history
<1>1. CASE WriteBufferToDeviceWithCheck
  <2>1. told' \in [Port -> SUBSET Setting]
    <3>1. told' = told \/ (Live(Head(todo).to) /\ Receive(Head(todo).order, Head(todo).to))
      BY <1>1 DEF WriteBufferToDeviceWithCheck
    <3>2. QED
      BY <3>1, ToldType DEF TypeOK
  <2>2. timer' \in BOOLEAN /\ muted' = muted
    BY <1>1 DEF WriteBufferToDeviceWithCheck, RestartPingDevice, TypeOK
  <2>3. UNCHANGED <<plugged, heap, devices, buffer, saved, enabled, due, reopened>>
    BY <1>1 DEF WriteBufferToDeviceWithCheck
  <2>4. QED
    BY <2>1, <2>2, <2>3 DEF TypeOK
<1>2. CASE WriteAfterReopen
  <2>1. told' \in [Port -> SUBSET Setting]
    <3>1. told' = told \/ (Live(Head(todo).to) /\ Receive(Head(todo).order, Head(todo).to))
      BY <1>2 DEF WriteAfterReopen
    <3>2. QED
      BY <3>1, ToldType DEF TypeOK
  <2>2. timer' \in BOOLEAN /\ muted' = muted
    BY <1>2 DEF WriteAfterReopen, RestartPingDevice, TypeOK
  <2>3. UNCHANGED <<plugged, heap, devices, buffer, saved, enabled, due, reopened>>
    BY <1>2 DEF WriteAfterReopen
  <2>4. QED
    BY <2>1, <2>2, <2>3 DEF TypeOK
<1>3. CASE ReadDataFromDeviceWithCheck \/ ReadAfterReopen \/ OpenDeviceSuccess
  <2>1. timer' \in BOOLEAN /\ muted' = muted
    BY <1>3 DEF ReadDataFromDeviceWithCheck, ReadAfterReopen, OpenDeviceSuccess,
       RestartPingDevice, TypeOK
  <2>2. UNCHANGED <<plugged, told, heap, devices, buffer, saved, enabled, due, reopened>>
    BY <1>3 DEF ReadDataFromDeviceWithCheck, ReadAfterReopen, OpenDeviceSuccess
  <2>3. QED
    BY <2>1, <2>2 DEF TypeOK
<1>4. CASE TryToReopenDevice
  <2>1. /\ heap' \in [Address -> Port \cup {"free", "dead"}] /\ devices' \in Seq(Address)
        /\ muted' = TRUE
    BY <1>4, Closed DEF TryToReopenDevice, CloseDevices
  <2>2. /\ timer' = FALSE /\ reopened' = TRUE
        /\ UNCHANGED <<plugged, told, buffer, saved, enabled, due>>
    BY <1>4 DEF TryToReopenDevice
  <2>3. QED
    BY <2>1, <2>2 DEF TypeOK
<1>5. CASE OpenDevices
  <2>1. heap' \in [Address -> Port \cup {"free", "dead"}] /\ devices' \in Seq(Address)
    BY <1>5, Enumerated DEF OpenDevices, TypeOK
  <2>2. /\ timer' \in BOOLEAN /\ muted' = muted
        /\ UNCHANGED <<plugged, told, buffer, saved, enabled, due, reopened>>
    BY <1>5 DEF OpenDevices, RestartPingDevice, TypeOK
  <2>3. QED
    BY <2>1, <2>2 DEF TypeOK
<1>6. CASE SetColorsCalled \/ SwitchOffCalled
  BY <1>6 DEF SetColorsCalled, SwitchOffCalled, TypeOK
<1>7. CASE CheckSize
  <2>1. buffer' \in [1..3 -> Byte] /\ saved' \in Frame
    BY <1>7, SavedType, BufferType DEF CheckSize, TypeOK, Byte
  <2>2. QED
    BY <1>7, <2>1 DEF CheckSize, TypeOK, Byte
<1>8. CASE NextPart
  <2>1. buffer' \in [1..3 -> Byte]
    BY <1>8, BufferType DEF NextPart
  <2>2. due' \in BOOLEAN
    BY <1>8 DEF NextPart, TypeOK
  <2>3. UNCHANGED <<plugged, told, heap, devices, saved, enabled, timer, muted, reopened>>
    BY <1>8 DEF NextPart
  <2>4. QED
    BY <2>1, <2>2, <2>3 DEF TypeOK, Byte
<1>9. CASE DarkenLeds
  <2>1. buffer' \in [1..3 -> Byte] /\ saved' \in Frame
    BY <1>9, SavedType, BufferType DEF DarkenLeds
  <2>2. QED
    BY <1>9, <2>1 DEF DarkenLeds, TypeOK, Byte
<1>10. CASE SetSetting
  <2>1. Head(todo) = todo[1] /\ 1 \in 1..Len(todo) /\ todo[1].op = "set"
    BY <1>10, Top DEF StackInv, Shape, SetSetting
  <2>2. Head(todo).order \in Setting
    BY <2>1 DEF StackInv, Shape, Ordered
  <2>3. buffer' \in [1..3 -> Byte]
    BY <1>10, <2>2, BufferType DEF SetSetting, TypeOK, Byte
  <2>4. QED
    BY <1>10, <2>3 DEF SetSetting, TypeOK, Byte
<1>11. CASE NextDevice
  <2>1. due' \in BOOLEAN
    BY <1>11 DEF NextDevice, TypeOK
  <2>2. UNCHANGED <<plugged, told, heap, devices, buffer, saved, enabled, timer, muted, reopened>>
    BY <1>11 DEF NextDevice
  <2>3. QED
    BY <2>1, <2>2 DEF TypeOK
<1>12. CASE CommandCompleted
  BY <1>12 DEF CommandCompleted, TypeOK
<1>13. CASE PingHasOpened
  <2>1. heap' \in [Address -> Port \cup {"free", "dead"}] /\ devices' \in Seq(Address)
    BY <1>13, Closed DEF PingHasOpened, TypeOK
  <2>2. timer' \in BOOLEAN /\ muted' \in BOOLEAN
    BY <1>13 DEF PingHasOpened, CloseDevices, RestartPingDevice, TypeOK
  <2>3. UNCHANGED <<plugged, told, buffer, saved, enabled, due, reopened>>
    BY <1>13 DEF PingHasOpened
  <2>4. QED
    BY <2>1, <2>2, <2>3 DEF TypeOK
<1>14. QED
  BY <1>1, <1>2, <1>3, <1>4, <1>5, <1>6, <1>7, <1>8, <1>9, <1>10, <1>11, <1>12, <1>13 DEF Step

-----------------------------------------------------------------------------
(* The statements *)

Good(x) == /\ Typed(x) /\ x.op # "pingOpened"
           /\ ~reopened => Fits(x) /\ Listed(x)

(* Whatever needs no frame, place or handle                                  *)
Simple(x) == x.op \notin {"setColors", "sized", "part", "each", "write", "pingOpened"}

(* Simple statements are typed and fit any list.                             *)
LEMMA SimpleIsGood ==
  ASSUME NEW x, Simple(x)
  PROVE  Good(x)
BY DEF Simple, Good, Typed, Fits, Listed

(* The statements that are simple.                                           *)
LEMMA SimpleOps ==
  /\ \A o, h : Simple(Rewrite(o, h))
  /\ Simple(Darken) /\ Simple(Reopen) /\ Simple(Reread) /\ Simple(Open) /\ Simple(Opened)
  /\ \A x \in Preset : Simple(x)
<1>1. \A x \in Preset : Simple(x)
  BY PresetOps DEF Simple
<1>2. QED
  BY <1>1 DEF Simple, Rewrite, Darken, Reopen, Reread, Open, Opened

(* The elements of stacks of up to two statements.                           *)
LEMMA Elements ==
  /\ \A k \in 1..Len(<< >>) : FALSE
  /\ \A x : \A k \in 1..Len(<<x>>) : <<x>>[k] = x
  /\ \A x, y : \A k \in 1..Len(<<x, y>>) : <<x, y>>[k] = x \/ <<x, y>>[k] = y
<1>1. 1..0 = {} /\ (\A k \in 1..1 : k = 1) /\ (\A k \in 1..2 : k = 1 \/ k = 2)
  OBVIOUS
<1>2. Len(<< >>) = 0
  OBVIOUS
<1>3. \A x : Len(<<x>>) = 1 /\ <<x>>[1] = x
  OBVIOUS
<1>4. \A x, y : Len(<<x, y>>) = 2 /\ <<x, y>>[1] = x /\ <<x, y>>[2] = y
  OBVIOUS
<1>5. \A x : \A k \in 1..Len(<<x>>) : <<x>>[k] = x
  BY <1>1, <1>3
<1>6. \A x, y : \A k \in 1..Len(<<x, y>>) : <<x, y>>[k] = x \/ <<x, y>>[k] = y
  BY <1>1, <1>4
<1>7. QED
  BY <1>1, <1>2, <1>5, <1>6

(* A statement that touches no handle                                        *)
LEMMA Advance ==
  ASSUME DeviceInv, Step, todo # << >>, NEW st, Shape(st), Then(st), UNCHANGED usb,
         reopened => reopened',
         \A p \in Port : told[p] \subseteq told'[p],
         \A k \in 1..Len(st) : Good(st[k]),
         \A i \in 1..Len(devices) : Live(devices[i]) =>
           \A s \in Setting : Covers(todo[1], i, s) =>
             \/ s \in told'[heap[devices[i]]]
             \/ \E k \in 1..Len(st) : Covers(st[k], i, s)
  PROVE  DeviceInv'
<1>1. TypeOK'
  BY TypeStep DEF DeviceInv
<1>2. StackInv'
  BY StackNext DEF DeviceInv, Next
<1>3. StackTyped'
  BY TypedKept DEF DeviceInv, Good
<1>4. PingLast'
  BY PingLastKept DEF DeviceInv, Good
<1>5. StackFits'
  BY FitsKept DEF DeviceInv, Good, usb
<1>6. Configuring'
  BY ConfiguringKept DEF DeviceInv
<1>7. HandlesListed' /\ OneHandleEach'
  BY DEF DeviceInv, HandlesListed, OneHandleEach, usb, Live
<1>8. QED
  BY <1>1, <1>2, <1>3, <1>4, <1>5, <1>6, <1>7 DEF DeviceInv

(* One that neither sends nor orders a setting                               *)
LEMMA AdvancePlain ==
  ASSUME DeviceInv, Step, todo # << >>, NEW st, Shape(st), Then(st),
         UNCHANGED <<usb, told, reopened>>,
         todo[1].op \notin {"set", "each", "write"},
         \A k \in 1..Len(st) : Good(st[k])
  PROVE  DeviceInv'
<1>1. \A i, s : ~Covers(todo[1], i, s)
  BY DEF Covers
<1>2. QED
  BY <1>1, Advance

(* What the invariant says of the statement on top.                          *)
LEMMA OnTop ==
  ASSUME DeviceInv
  PROVE  \A ops : At(ops) => /\ todo # << >> /\ Head(todo) = todo[1] /\ 1 \in 1..Len(todo)
                             /\ todo[1].op \in ops
                             /\ Typed(todo[1]) /\ Ordered(todo[1])
                             /\ ~reopened => Fits(todo[1]) /\ Listed(todo[1])
BY Top DEF DeviceInv, StackInv, Shape, StackTyped, StackFits

(* A report that is written keeps DeviceInv, also when its transfer fails.   *)
LEMMA WriteDevice == ASSUME DeviceInv, WriteBufferToDeviceWithCheck PROVE DeviceInv'
<1> DEFINE w == todo[1]
<1>1. /\ todo # << >> /\ Head(todo) = w /\ w.op = "write"
      /\ UNCHANGED <<usb, reopened>>
  BY OnTop DEF WriteBufferToDeviceWithCheck, history
<1>2. Step
  BY DEF Step
<1>3. CASE Live(w.to) /\ Receive(w.order, w.to) /\ Then(<< >>)
  <2>1. /\ \A p \in Port : told[p] \subseteq told'[p]
        /\ w.order \in Setting => w.order \in told'[heap[w.to]]
    BY <1>3, ToldType DEF DeviceInv
  <2>2. \A i \in 1..Len(devices) : \A s \in Setting :
          Covers(w, i, s) => s \in told'[heap[devices[i]]]
    BY <1>1, <2>1 DEF Covers
  <2>3. QED
    BY <1>1, <1>2, <1>3, <2>1, <2>2, None, Elements, Advance
<1>4. CASE ~Live(w.to) /\ Then(<<Reopen, Rewrite(w.order, w.to)>>) /\ UNCHANGED told
  <2> DEFINE st == <<Reopen, Rewrite(w.order, w.to)>>
  <2>1. Shape(st)
    BY Two, StatementOps DEF Loop
  <2>2. \A k \in 1..Len(st) : Good(st[k])
    BY Elements, SimpleOps, SimpleIsGood
  <2>3. Then(st)
    BY <1>4
  <2>4. \A i \in 1..Len(devices) : \A s \in Setting : Covers(w, i, s) => ~Live(devices[i])
    BY <1>1, <1>4 DEF Covers
  <2> HIDE DEF st
  <2>5. QED
    BY <1>1, <1>2, <1>4, <2>1, <2>2, <2>3, <2>4, Advance
<1>5. QED
  BY <1>1, <1>3, <1>4 DEF WriteBufferToDeviceWithCheck

(* A report written again after a reopen keeps DeviceInv.                    *)
LEMMA RewriteDevice == ASSUME DeviceInv, WriteAfterReopen PROVE DeviceInv'
<1>1. /\ todo # << >> /\ todo[1].op = "rewrite" /\ Then(<< >>)
      /\ UNCHANGED <<usb, reopened>> /\ Step
  BY OnTop DEF WriteAfterReopen, history, Step
<1>2. \A p \in Port : told[p] \subseteq told'[p]
  <2>1. told' = told \/ (Live(Head(todo).to) /\ Receive(Head(todo).order, Head(todo).to))
    BY DEF WriteAfterReopen
  <2>2. QED
    BY <2>1, ToldType DEF DeviceInv
<1>3. \A i, s : ~Covers(todo[1], i, s)
  BY <1>1 DEF Covers
<1>4. QED
  BY <1>1, <1>2, <1>3, None, Elements, Advance

(* Reading keeps DeviceInv.                                                  *)
LEMMA ReadDevice ==
  ASSUME DeviceInv, ReadDataFromDeviceWithCheck \/ ReadAfterReopen PROVE DeviceInv'
<1>1. /\ todo # << >> /\ todo[1].op \in {"read", "reread"}
      /\ UNCHANGED <<usb, told, reopened>> /\ Step
  BY OnTop DEF ReadDataFromDeviceWithCheck, ReadAfterReopen, cable, history, Step
<1>2. PICK st \in {<< >>, <<Reopen, Reread>>} : Then(st)
  BY DEF ReadDataFromDeviceWithCheck, ReadAfterReopen
<1>3. Shape(st)
  BY None, Two, StatementOps DEF Loop
<1>4. \A k \in 1..Len(st) : Good(st[k])
  BY <1>2, Elements, SimpleOps, SimpleIsGood
<1>5. QED
  BY <1>1, <1>2, <1>3, <1>4, AdvancePlain

(* setColors, up to its loop, keeps DeviceInv.                               *)
LEMMA ColoursDevice ==
  ASSUME DeviceInv, SetColorsCalled \/ CheckSize PROVE DeviceInv'
<1>1. /\ todo # << >> /\ todo[1].op \in {"setColors", "setColorsSaved", "sized"}
      /\ UNCHANGED <<usb, told, reopened>> /\ Step
      /\ saved \in Frame
  BY OnTop DEF SetColorsCalled, CheckSize, cable, history, Step, DeviceInv, TypeOK
<1>2. PICK f, st : /\ Then(st) /\ f \in Frame
                   /\ \/ st \in {<< >>, <<Sized(f)>>, <<Reopen, Sized(f)>>}
                      \/ st = <<Part(f, 1)>> /\ f.parts <= Len(devices)
  <2>1. CASE At({"setColors"}) /\ Then(MaxLedsCount \o <<Sized(Head(todo).frame)>>)
    <3>1. Head(todo).frame \in Frame
      BY <2>1, OnTop DEF Typed
    <3>2. QED
      BY <2>1, <3>1, Joined DEF MaxLedsCount
  <2>2. CASE At({"setColorsSaved"}) /\ Then(MaxLedsCount \o <<Sized(saved)>>)
    BY <1>1, <2>2, Joined DEF MaxLedsCount
  <2>3. CASE CheckSize
    <3>1. Head(todo).frame \in Frame
      BY <2>3, OnTop DEF Typed, CheckSize
    <3>2. Len(devices) \in Nat /\ Head(todo).frame.parts \in Nat
      BY <3>1, LenProperties DEF Frame, DeviceInv, TypeOK
    <3>3. CASE Head(todo).frame.parts > Len(devices)
      <4>1. Then(<< >>)
        BY <2>3, <3>3 DEF CheckSize
      <4>2. QED
        BY <3>1, <4>1
    <3>4. CASE ~(Head(todo).frame.parts > Len(devices))
      <4>1. Then(<<Part(Head(todo).frame, 1)>>)
        BY <2>3, <3>4 DEF CheckSize
      <4>2. Head(todo).frame.parts <= Len(devices)
        BY <3>2, <3>4
      <4>3. QED
        BY <3>1, <4>1, <4>2
    <3>5. QED
      BY <3>3, <3>4
  <2>4. QED
    BY <2>1, <2>2, <2>3 DEF SetColorsCalled
<1>3. Good(Sized(f)) /\ Good(Reopen)
  BY <1>2, SimpleOps, SimpleIsGood DEF Good, Typed, Fits, Listed, Sized
<1>4. st = <<Part(f, 1)>> => Good(Part(f, 1))
  BY <1>2 DEF Good, Typed, Fits, Listed, Part, SetColors, Sized
<1>5. Shape(st) /\ \A k \in 1..Len(st) : Good(st[k])
  <2>1. CASE st = << >>
    BY <2>1, None, Elements
  <2>2. CASE st = <<Part(f, 1)>>
    BY <1>4, <2>2, One, StatementOps, Elements
  <2>3. CASE st = <<Sized(f)>>
    BY <1>3, <2>3, One, StatementOps, Elements
  <2>4. CASE st = <<Reopen, Sized(f)>>
    <3>1. Shape(st)
      BY <2>4, Two, StatementOps DEF Loop
    <3>2. QED
      BY <1>3, <2>4, <3>1, Elements
  <2>5. QED
    BY <1>2, <2>1, <2>2, <2>3, <2>4
<1>6. QED
  BY <1>1, <1>2, <1>5, AdvancePlain

(* A turn of the loop of setColors keeps DeviceInv.                          *)
LEMMA PartDevice == ASSUME DeviceInv, NextPart PROVE DeviceInv'
<1> DEFINE f == todo[1].frame
           i == todo[1].i
           want == Paint(Blank, f, i)
<1>1. /\ todo # << >> /\ Head(todo) = todo[1] /\ todo[1].op = "part"
      /\ f \in Frame /\ i \in Nat \ {0} /\ (~reopened => f.parts <= Len(devices))
      /\ UNCHANGED <<usb, told, reopened>> /\ Step
  BY OnTop DEF NextPart, cable, Step, Typed, Fits
<1>2. Len(devices) \in Nat /\ f.parts \in Nat /\ DOMAIN devices = 1..Len(devices)
  BY <1>1, LenProperties DEF DeviceInv, TypeOK, Frame
<1>3. CASE i <= f.parts
  <2>1. PICK h \in DeviceAt(i) : Then(<<Write("leds", h, want), Part(f, i + 1)>>)
    BY <1>1, <1>3 DEF NextPart
  <2>2. ~reopened => Contains(devices, h)
    <3>1. ~reopened => i \in 1..Len(devices)
      BY <1>1, <1>2, <1>3
    <3>2. QED
      BY <1>2, <3>1 DEF DeviceAt, Contains
  <2> HIDE DEF f, i, want
  <2> DEFINE st == <<Write("leds", h, want), Part(f, i + 1)>>
  <2>3. Shape(st)
    BY Two, StatementOps DEF Loop
  <2>4. Good(Write("leds", h, want)) /\ Good(Part(f, i + 1))
    <3>1. Good(Write("leds", h, want))
      BY <2>2 DEF Good, Typed, Fits, Listed, Write
    <3>2. i + 1 \in Nat \ {0}
      BY <1>1
    <3>3. Good(Part(f, i + 1))
      BY <1>1, <3>2 DEF Good, Typed, Fits, Listed, Part
    <3>4. QED
      BY <3>1, <3>3
  <2>5. \A k \in 1..Len(st) : Good(st[k])
    BY <2>4, Elements
  <2>6. Then(st)
    BY <2>1
  <2> HIDE DEF st
  <2>7. QED
    BY <1>1, <2>3, <2>5, <2>6, AdvancePlain
<1>4. CASE ~(i <= f.parts)
  <2>1. Then(<< >>)
    BY <1>1, <1>4 DEF NextPart
  <2>2. QED
    BY <1>1, <2>1, None, Elements, AdvancePlain
<1>5. QED
  BY <1>3, <1>4

(* switchOffLeds up to its loop, an answer and the signal of an opened       *)
(* device keep DeviceInv.                                                    *)
LEMMA SwitchOffDevice ==
  ASSUME DeviceInv, SwitchOffCalled \/ CommandCompleted \/ OpenDeviceSuccess PROVE DeviceInv'
<1>1. /\ todo # << >> /\ todo[1].op \in {"off", "answer", "opened"}
      /\ UNCHANGED <<usb, told, reopened>> /\ Step
  BY OnTop DEF SwitchOffCalled, CommandCompleted, OpenDeviceSuccess, cable, history, Step
<1>2. PICK st \in {<< >>, <<Darken>>, <<Reopen, Darken>>} : Then(st)
  BY Joined DEF SwitchOffCalled, CommandCompleted, OpenDeviceSuccess, MaxLedsCount
<1>3. Shape(st) /\ \A k \in 1..Len(st) : Good(st[k])
  <2>1. Good(Darken) /\ Good(Reopen)
    BY SimpleOps, SimpleIsGood
  <2>2. Shape(st)
    BY <1>2, None, One, Two, StatementOps DEF Loop
  <2>3. QED
    BY <1>2, <2>1, <2>2, Elements
<1>4. QED
  BY <1>1, <1>2, <1>3, AdvancePlain

(* The turns of the loops over the devices are typed and fit.                *)
LEMMA GoodEach ==
  ASSUME NEW order, NEW i \in Nat \ {0}
  PROVE  Good(Each(order, i))
BY DEF Good, Typed, Fits, Listed, Each

(* The black frame of switchOffLeds keeps DeviceInv.                         *)
LEMMA DarkenDevice == ASSUME DeviceInv, DarkenLeds PROVE DeviceInv'
<1>1. /\ todo # << >> /\ todo[1].op = "darken" /\ Then(<<Each("leds", 1)>>)
      /\ UNCHANGED <<usb, told, reopened>> /\ Step
  BY OnTop DEF DarkenLeds, cable, history, Step
<1>2. Shape(<<Each("leds", 1)>>)
  BY One, StatementOps DEF Order
<1>3. \A k \in 1..Len(<<Each("leds", 1)>>) : Good(<<Each("leds", 1)>>[k])
  BY GoodEach, Elements
<1>4. QED
  BY <1>1, <1>2, <1>3, AdvancePlain

(* An order begins: its loop comes to every device.                          *)
LEMMA SettingDevice == ASSUME DeviceInv, SetSetting PROVE DeviceInv'
<1> DEFINE order == todo[1].order
           st == <<Each(order, 1)>>
<1>1. /\ todo # << >> /\ todo[1].op = "set" /\ Then(st) /\ order \in Setting
      /\ UNCHANGED <<usb, told, reopened>> /\ Step
  BY OnTop DEF SetSetting, cable, history, Step, Ordered
<1> HIDE DEF order
<1>2. Shape(st) /\ Len(st) = 1 /\ st[1] = Each(order, 1)
  BY <1>1, One, StatementOps DEF Order
<1>3. \A k \in 1..Len(st) : Good(st[k])
  BY GoodEach, Elements
<1> HIDE DEF st
<1>4. ASSUME NEW i \in 1..Len(devices), NEW s \in Setting, Covers(todo[1], i, s)
      PROVE  \E k \in 1..Len(st) : Covers(st[k], i, s)
  <2>1. s = order
    BY <1>1, <1>4 DEF Covers, order
  <2>2. 1 <= i
    OBVIOUS
  <2>3. Covers(Each(order, 1), i, s)
    BY <2>1, <2>2 DEF Covers, Each
  <2>4. QED
    BY <1>2, <2>3
<1>5. QED
  BY <1>1, <1>2, <1>3, <1>4, Advance

(* The loop goes on: it writes to one device and comes to the others.        *)
LEMMA LoopDevice == ASSUME DeviceInv, NextDevice PROVE DeviceInv'
<1> DEFINE order == todo[1].order
           n == todo[1].i
<1>1. /\ todo # << >> /\ Head(todo) = todo[1] /\ todo[1].op = "each"
      /\ order \in Order /\ n \in Nat \ {0}
      /\ UNCHANGED <<usb, told, reopened>> /\ Step
  BY OnTop DEF NextDevice, cable, Step, Ordered, Typed
<1>2. Len(devices) \in Nat /\ DOMAIN devices = 1..Len(devices)
  BY LenProperties DEF DeviceInv, TypeOK
<1>3. ASSUME NEW i \in 1..Len(devices), NEW s \in Setting, Covers(todo[1], i, s)
      PROVE  s = order /\ n <= i
  BY <1>1, <1>3 DEF Covers
<1>4. CASE n \in DOMAIN devices
  <2> DEFINE write == Write(order, devices[n], Wanted(order))
             st == <<write, Each(order, n + 1)>>
  <2>1. Then(st)
    BY <1>1, <1>4 DEF NextDevice
  <2> HIDE DEF order, n
  <2>2. Shape(st) /\ Len(st) = 2 /\ st[1] = write /\ st[2] = Each(order, n + 1)
    BY <1>1, Two, StatementOps DEF Loop, Transfer
  <2>3. Good(write)
    <3>1. Contains(devices, devices[n])
      BY <1>2, <1>4 DEF Contains
    <3>2. QED
      BY <3>1 DEF Good, Typed, Fits, Listed, Write
  <2>4. \A k \in 1..Len(st) : Good(st[k])
    BY <1>1, <2>3, GoodEach, Elements, n + 1 \in Nat \ {0}
  <2>5. ASSUME NEW i \in 1..Len(devices), NEW s \in Setting, Covers(todo[1], i, s)
        PROVE  Covers(write, i, s) \/ Covers(Each(order, n + 1), i, s)
    <3>1. s = order /\ (n = i \/ n + 1 <= i)
      BY <1>1, <1>3, <2>5
    <3>2. QED
      BY <3>1 DEF Covers, Write, Each
  <2> HIDE DEF st, write
  <2>6. ASSUME NEW i \in 1..Len(devices), NEW s \in Setting, Covers(todo[1], i, s)
        PROVE  \E k \in 1..Len(st) : Covers(st[k], i, s)
    BY <2>2, <2>5, <2>6, 1 \in 1..2, 2 \in 1..2
  <2>7. QED
    BY <1>1, <2>1, <2>2, <2>4, <2>6, Advance
<1>5. CASE n \notin DOMAIN devices
  <2>1. Then(<< >>)
    BY <1>1, <1>5 DEF NextDevice
  <2>2. \A i \in 1..Len(devices) : \A s \in Setting : ~Covers(todo[1], i, s)
    BY <1>1, <1>2, <1>3, <1>5
  <2>3. QED
    BY <1>1, <2>1, <2>2, None, Elements, Advance
<1>6. QED
  BY <1>4, <1>5

-----------------------------------------------------------------------------
(* Reopening *)

(* Closing the devices for a reopen keeps DeviceInv.                         *)
LEMMA ReopenDevice == ASSUME DeviceInv, TryToReopenDevice PROVE DeviceInv'
<1>1. /\ todo # << >> /\ todo[1].op = "reopen" /\ Then(<<Open>>) /\ reopened' = TRUE
      /\ CloseDevices /\ Step
  BY OnTop DEF TryToReopenDevice, Step
<1>2. TypeOK' /\ StackInv'
  BY <1>1, TypeStep, StackNext DEF DeviceInv, Next
<1>3. HandlesListed' /\ OneHandleEach' /\ Configuring'
  BY <1>1, Closed
<1>4. Shape(<<Open>>) /\ \A k \in 1..Len(<<Open>>) : Good(<<Open>>[k])
  BY One, StatementOps, Elements, SimpleOps, SimpleIsGood
<1>5. StackTyped' /\ PingLast'
  BY <1>1, <1>4, TypedKept, PingLastKept DEF DeviceInv, Good
<1>6. StackFits'
  BY <1>1 DEF StackFits
<1>7. QED
  BY <1>2, <1>3, <1>5, <1>6 DEF DeviceInv

(* Devices just opened were sent nothing, and every setting is ordered.      *)
LEMMA OpenDevice == ASSUME DeviceInv, OpenDevices PROVE DeviceInv'
<1>1. /\ todo # << >> /\ todo[1].op = "open" /\ UNCHANGED <<told, reopened>> /\ Step
  BY OnTop DEF OpenDevices, cable, history, Step
<1>2. CASE Then(<< >>) /\ UNCHANGED usb
  BY <1>1, <1>2, None, Elements, AdvancePlain
<1>3. CASE devices = << >> /\ Enumerate /\ Then(UpdateDeviceSettings \o <<Opened>>)
  <2> DEFINE st == UpdateDeviceSettings \o <<Opened>>
  <2>1. st \in Seq(Preset) /\ \A s \in Setting : Contains(st, Set(s))
    <3>1. <<Opened>> \in Seq(Preset)
      BY DEF Preset
    <3>2. QED
      BY <3>1, UpdateSeq, ConcatProperties, InBoth
  <2> HIDE DEF st
  <2>2. Shape(st) /\ \A k \in 1..Len(st) : st[k] \in Preset
    BY <2>1, PresetShape
  <2>3. \A k \in 1..Len(st) : Simple(st[k]) /\ Good(st[k])
    BY <2>2, SimpleOps, SimpleIsGood
  <2>4. Then(st)
    BY <1>3 DEF st
  <2>5. TypeOK' /\ StackInv'
    BY <1>1, TypeStep, StackNext DEF DeviceInv, Next
  <2>6. HandlesListed' /\ OneHandleEach'
    BY <1>3, Enumerated DEF DeviceInv
  <2>7. StackTyped' /\ PingLast'
    BY <1>1, <2>2, <2>3, <2>4, TypedKept, PingLastKept DEF DeviceInv, Good
  <2>8. StackFits'
    <3>1. SUFFICES ASSUME ~reopened, NEW i \in 1..Len(todo')
                   PROVE  /\ todo'[i].op = "part" => todo'[i].frame.parts <= Len(devices')
                          /\ todo'[i].op # "write"
      BY <1>1 DEF StackFits, Fits, Listed
    <3>2. CASE \E k \in 1..Len(st) : todo'[i] = st[k]
      BY <2>3, <3>2 DEF Simple
    <3>3. CASE \E k \in 2..Len(todo) : todo'[i] = todo[k]
      <4>1. PICK k \in 2..Len(todo) : todo'[i] = todo[k]
        BY <3>3
      <4>2. k \in 1..Len(todo)
        BY <1>1, <2>2, <2>4, Content DEF DeviceInv
      <4>3. todo[k].op = "part" => todo[k].frame.parts <= 0 /\ todo[k].frame.parts \in Nat
        BY <1>3, <3>1, <4>2, NoDevices DEF DeviceInv, StackFits, Fits, StackTyped, Typed, Frame
      <4>4. Len(devices') \in Nat
        BY <2>5, LenProperties DEF TypeOK
      <4>5. todo[k].op # "write"
        BY <4>1 DEF DeviceInv, StackInv, Shape
      <4>6. QED
        BY <4>1, <4>3, <4>4, <4>5
    <3>4. QED
      BY <1>1, <2>2, <2>4, <3>2, <3>3, Content DEF DeviceInv
  <2>9. Configuring'
    <3>1. ASSUME NEW s \in Setting
          PROVE  \E k \in 1..Len(todo') : todo'[k].op = "set" /\ todo'[k].order = s
      <4>1. PICK m \in 1..Len(st) : st[m] = Set(s)
        BY <2>1 DEF Contains
      <4>2. \A n \in 1..Len(st) : \E k \in 1..Len(todo') : todo'[k] = st[n]
        BY <1>1, <2>2, <2>4, Content DEF DeviceInv
      <4>3. PICK k \in 1..Len(todo') : todo'[k] = Set(s)
        BY <4>1, <4>2
      <4>4. QED
        BY <4>3 DEF Set
    <3>2. QED
      BY <3>1 DEF Configuring, Covers
  <2>10. QED
    BY <2>5, <2>6, <2>7, <2>8, <2>9 DEF DeviceInv
<1>4. QED
  BY <1>2, <1>3 DEF OpenDevices

(* An empty stack is typed and fits.                                         *)
LEMMA EmptyStack ==
  ASSUME todo' = << >>
  PROVE  StackTyped' /\ PingLast' /\ StackFits'
BY NoDevices DEF StackTyped, PingLast, StackFits

(* What the ping timer does after opening keeps DeviceInv.                   *)
LEMMA PingHasOpenedDevice == ASSUME DeviceInv, PingHasOpened PROVE DeviceInv'
<1>1. /\ todo # << >> /\ todo[1].op = "pingOpened" /\ 1 \in 1..Len(todo) /\ Then(<< >>)
      /\ UNCHANGED <<told, reopened>> /\ Step
  BY OnTop DEF PingHasOpened, cable, history, Step
<1>2. CASE UNCHANGED usb
  BY <1>1, <1>2, None, Elements, AdvancePlain
<1>3. CASE CloseDevices
  <2>1. Len(todo) = 1
    BY <1>1 DEF DeviceInv, PingLast
  <2>2. todo' = << >>
    <3>1. Len(todo') = 0 /\ IsStack(todo')
      BY <1>1, <2>1, None, Replaced DEF DeviceInv, StackInv, Shape
    <3>2. QED
      BY <3>1, EmptySeq DEF IsStack
  <2>3. TypeOK' /\ StackInv'
    BY <1>1, TypeStep, StackNext DEF DeviceInv, Next
  <2>4. QED
    BY <1>3, <2>2, <2>3, Closed, EmptyStack DEF DeviceInv
<1>4. QED
  BY <1>2, <1>3 DEF PingHasOpened

-----------------------------------------------------------------------------
(* Slots and cables *)

(* While no slot runs every device has been sent every setting.              *)
LEMMA IdleConfigured ==
  ASSUME DeviceInv, Idle
  PROVE  \A i \in 1..Len(devices) : Live(devices[i]) => Setting \subseteq told[heap[devices[i]]]
<1>1. 1..Len(todo) = {}
  BY NoDevices DEF Idle
<1>2. QED
  BY <1>1 DEF DeviceInv, Configuring

(* A slot that starts with typed statements begins in DeviceInv.             *)
LEMMA CallDevice ==
  ASSUME DeviceInv, NEW st, NEW owes \in BOOLEAN, Call(st, owes), StackInv', TypeOK',
         UNCHANGED <<told, usb>>,
         \A k \in 1..Len(st) : /\ Typed(st[k]) /\ st[k].op \notin {"part", "write"}
                               /\ st[k].op = "pingOpened" => k = Len(st)
  PROVE  DeviceInv'
<1>1. todo' = st /\ Idle
  BY DEF Call
<1>2. StackTyped' /\ PingLast' /\ StackFits'
  BY <1>1 DEF StackTyped, Typed, PingLast, StackFits, Fits, Listed
<1>3. Configuring'
  BY <1>1, IdleConfigured DEF Configuring, usb, Live
<1>4. HandlesListed' /\ OneHandleEach'
  BY DEF DeviceInv, HandlesListed, OneHandleEach, usb, Live
<1>5. QED
  BY <1>2, <1>3, <1>4 DEF DeviceInv

(* All slots of the manager's signals begin in DeviceInv.                    *)
LEMMA SlotDevice == ASSUME DeviceInv, AnsweringSlot \/ OtherSlot PROVE DeviceInv'
<1>1. /\ UNCHANGED <<cable, usb, ping, colours, enabled>> /\ UNCHANGED <<told, usb>>
      /\ Next
  BY DEF AnsweringSlot, OtherSlot, cable, Next
<1>2. StackInv'
  BY <1>1, StackNext DEF DeviceInv
<1>3. PICK st, owes :
        /\ Call(st, owes) /\ owes \in BOOLEAN
        /\ \/ st \in Seq(Preset)
           \/ \E x : /\ st = <<x>> /\ x.op \in {"off", "open", "setColors"}
                     /\ x.op = "setColors" => x.frame \in Frame
  <2>1. \A s \in Setting : <<Set(s)>> \in Seq(Preset)
    BY DEF Preset
  <2>2. RequestFirmwareVersion \in Seq(Preset) /\ <<SetColorsSaved>> \in Seq(Preset)
    BY DEF RequestFirmwareVersion, Preset
  <2>3. UpdateDeviceSettings \in Seq(Preset)
    BY UpdateSeq
  <2>4. /\ SwitchOff.op = "off" /\ Open.op = "open"
        /\ \A f : SetColors(f).op = "setColors" /\ SetColors(f).frame = f
    BY DEF SwitchOff, Open, SetColors
  <2>5. Picture \subseteq Frame
    BY LightpackDeviceAssumption
  <2>6. CASE AnsweringSlot
    BY <2>1, <2>2, <2>3, <2>4, <2>6 DEF AnsweringSlot
  <2>7. CASE OtherSlot
    <3>1. CASE Call(<<Open>>, FALSE) \/ Call(<<SetColorsSaved>>, FALSE)
      BY <2>2, <2>4, <3>1
    <3>2. CASE \E f \in Picture : Call(<<SetColors(f)>>, FALSE)
      <4>1. PICK f \in Picture : Call(<<SetColors(f)>>, FALSE)
        BY <3>2
      <4>2. SetColors(f).op = "setColors" /\ SetColors(f).frame \in Frame
        BY <2>4, <2>5
      <4>3. QED
        BY <4>1, <4>2
    <3>3. QED
      BY <2>7, <3>1, <3>2 DEF OtherSlot
  <2>8. QED
    BY <2>6, <2>7
<1>4. TypeOK'
  BY <1>1, <1>3 DEF DeviceInv, TypeOK, cable, usb, ping, colours, Call
<1>5. \A k \in 1..Len(st) : Typed(st[k]) /\ st[k].op \notin {"part", "write", "pingOpened"}
  <2>1. CASE st \in Seq(Preset)
    <3>1. \A k \in 1..Len(st) : Simple(st[k])
      BY <2>1, PresetShape, SimpleOps
    <3>2. QED
      BY <3>1 DEF Simple, Typed
  <2>2. CASE \E x : /\ st = <<x>> /\ x.op \in {"off", "open", "setColors"}
                    /\ x.op = "setColors" => x.frame \in Frame
    BY <2>2, Elements DEF Typed
  <2>3. QED
    BY <1>3, <2>1, <2>2
<1>6. QED
  BY <1>1, <1>2, <1>3, <1>4, <1>5, CallDevice

(* The slot of the ping timer begins in DeviceInv.                           *)
LEMMA PingDevice == ASSUME DeviceInv, TimerPingDeviceTimeout PROVE DeviceInv'
<1>1. UNCHANGED <<told, plugged, buffer, saved, enabled>> /\ StackInv' /\ Next
  BY StackNext DEF TimerPingDeviceTimeout, cable, colours, DeviceInv, Next
<1>2. CASE Call(<<Open, PingOpened>>, FALSE) /\ UNCHANGED <<cable, usb, ping>>
  <2> DEFINE st == <<Open, PingOpened>>
  <2>1. \A k \in 1..Len(st) : /\ Typed(st[k]) /\ st[k].op \notin {"part", "write"}
                              /\ st[k].op = "pingOpened" => k = Len(st)
    <3>1. Len(st) = 2 /\ st[1] = Open /\ st[2] = PingOpened /\ \A k \in 1..2 : k = 1 \/ k = 2
      OBVIOUS
    <3>2. QED
      BY <3>1 DEF Typed, Open, PingOpened
  <2>2. TypeOK'
    BY <1>1, <1>2 DEF DeviceInv, TypeOK, cable, usb, ping, Call
  <2> HIDE DEF st
  <2>3. QED
    BY <1>1, <1>2, <2>1, <2>2, CallDevice DEF st
<1>3. CASE Call(<< >>, FALSE) /\ timer' = enabled /\ UNCHANGED <<usb, muted>>
  <2>1. TypeOK'
    BY <1>1, <1>3 DEF DeviceInv, TypeOK, usb, Call
  <2>2. QED
    BY <1>1, <1>3, <2>1, Elements, CallDevice
<1>4. CASE Call(<< >>, FALSE) /\ timer' = enabled /\ CloseDevices
  <2>1. TypeOK'
    BY <1>1, <1>4, Closed DEF DeviceInv, TypeOK, Call, CloseDevices
  <2>2. todo' = << >>
    BY <1>4 DEF Call
  <2>3. QED
    BY <1>1, <1>4, <2>1, <2>2, Closed, EmptyStack DEF DeviceInv
<1>5. QED
  BY <1>2, <1>3, <1>4 DEF TimerPingDeviceTimeout

(* A pulled cable leaves its handle dead in the list: nobody waits for it.   *)
LEMMA UnplugDevice == ASSUME DeviceInv, NEW p \in Port, Unplug(p) PROVE DeviceInv'
<1>1. /\ UNCHANGED <<devices, ping, colours, history, enabled, todo>>
      /\ plugged' = plugged \ {p}
      /\ told' = [told EXCEPT ![p] = {}]
      /\ heap' = [a \in Address |-> IF heap[a] = p THEN "dead" ELSE heap[a]]
      /\ Next
  BY DEF Unplug, Next
<1>2. {"free", "dead"} \cap Port = {}
  BY LightpackDeviceAssumption
<1>3. StackInv'
  BY <1>1, StackNext DEF DeviceInv
<1>4. TypeOK'
  BY <1>1 DEF DeviceInv, TypeOK, ping, colours, history
<1>5. \A a \in Address : /\ heap'[a] # "free" <=> heap[a] # "free"
                         /\ heap'[a] \in Port => heap'[a] = heap[a] /\ heap[a] # p
  BY <1>1, <1>2
<1>6. \A i \in 1..Len(devices) : devices[i] \in Address
  BY ElementOfSeq DEF DeviceInv, TypeOK
<1>7. HandlesListed'
  BY <1>1, <1>5 DEF DeviceInv, HandlesListed
<1>8. OneHandleEach'
  BY <1>1, <1>5, <1>6 DEF DeviceInv, OneHandleEach, Live
<1>9. StackTyped' /\ PingLast' /\ StackFits'
  BY <1>1 DEF DeviceInv, StackTyped, PingLast, StackFits, Fits, Listed, Typed, history
<1>10. Configuring'
  <2>1. SUFFICES ASSUME NEW i \in 1..Len(devices), Live(devices[i])', NEW s \in Setting
                 PROVE  \/ s \in told'[heap'[devices[i]]]
                        \/ \E k \in 1..Len(todo) : Covers(todo[k], i, s)
    BY <1>1 DEF Configuring, Covers
  <2>2. Live(devices[i]) /\ heap'[devices[i]] = heap[devices[i]] /\ heap[devices[i]] # p
    BY <1>1, <1>5, <1>6, <2>1 DEF Live
  <2>3. told'[heap[devices[i]]] = told[heap[devices[i]]]
    BY <1>1, <2>2 DEF DeviceInv, TypeOK, Live
  <2>4. QED
    BY <2>2, <2>3 DEF DeviceInv, Configuring
<1>11. QED
  BY <1>3, <1>4, <1>7, <1>8, <1>9, <1>10 DEF DeviceInv

(* Every step of the slots, the cables and the settings keeps DeviceInv.     *)
LEMMA DeviceNext == DeviceInv /\ [Next]_vars => DeviceInv'
<1> SUFFICES ASSUME DeviceInv, [Next]_vars PROVE DeviceInv'
  OBVIOUS
<1>1. CASE Step
  BY <1>1, WriteDevice, RewriteDevice, ReadDevice, ReopenDevice, OpenDevice, ColoursDevice,
     PartDevice, SwitchOffDevice, DarkenDevice, SettingDevice, LoopDevice, PingHasOpenedDevice
     DEF Step
<1>2. CASE AnsweringSlot \/ OtherSlot \/ TimerPingDeviceTimeout
  BY <1>2, SlotDevice, PingDevice
<1>3. CASE \E p \in Port : Unplug(p)
  BY <1>3, UnplugDevice
<1>4. CASE (\E p \in Port : Plug(p)) \/ Configure \/ UNCHANGED vars
  <2>1. UNCHANGED <<told, heap, devices, timer, muted, buffer, saved, due, reopened, todo>>
    BY <1>4 DEF Plug, Configure, vars, cable, usb, ping, colours, history
  <2>2. plugged' \subseteq Port /\ enabled' \in BOOLEAN
    BY <1>4 DEF Plug, Configure, vars, cable, DeviceInv, TypeOK
  <2>3. StackInv'
    BY StackNext DEF DeviceInv
  <2>4. TypeOK'
    BY <2>1, <2>2 DEF DeviceInv, TypeOK
  <2>5. QED
    BY <2>1, <2>3, <2>4 DEF DeviceInv, StackTyped, Typed, HandlesListed, OneHandleEach, StackFits,
       Fits, Listed, PingLast, Configuring, Covers, Live
<1>5. QED
  BY <1>1, <1>2, <1>3, <1>4 DEF Next

(* DeviceInv holds before the first slot runs.                               *)
LEMMA DeviceInit == Init => DeviceInv
<1> SUFFICES ASSUME Init PROVE DeviceInv
  OBVIOUS
<1>1. StackInv
  BY None DEF Init, StackInv, LoopIsFilled, ReopenFirst, AnswerOnStack, WholeReports, At, Idle
<1>2. TypeOK
  BY BufferType, NoDevices DEF Init, TypeOK, Byte, NoFrame, Frame
<1>3. QED
  BY <1>1, <1>2, NoDevices DEF Init, DeviceInv, StackTyped, HandlesListed, OneHandleEach,
     StackFits, PingLast, Configuring

(* DeviceInv holds in every reachable state.                                 *)
LEMMA DeviceAlways == SafeSpec => []DeviceInv
BY DeviceInit, DeviceNext, PTL DEF SafeSpec

(* Every variable keeps its type, however deep the reopenings nest.          *)
THEOREM TypeCorrect == SafeSpec => []TypeOK
<1>1. DeviceInv => TypeOK
  BY DEF DeviceInv
<1>2. QED
  BY <1>1, DeviceAlways, PTL

(* Between two slots every Lightpack that can be reached was sent all        *)
(* settings since it was plugged in, for any number of them, whatever cables *)
(* were pulled while they were being opened (open and tryToReopenDevice).    *)
THEOREM DevicesAreConfigured == SafeSpec => []OpenedIsConfigured
<1>1. DeviceInv => OpenedIsConfigured
  <2>1. SUFFICES ASSUME DeviceInv PROVE OpenedIsConfigured
    OBVIOUS
  <2>2. DOMAIN devices = 1..Len(devices)
    BY <2>1, LenProperties DEF DeviceInv, TypeOK
  <2>3. QED
    BY <2>1, <2>2, IdleConfigured DEF OpenedIsConfigured
<1>2. QED
  BY <1>1, DeviceAlways, PTL

(* m_devices holds no handle that was closed and no two of one device, and   *)
(* until a slot has reopened the devices it writes through handles of the    *)
(* list: closeDevices, open and the loops agree on it.                       *)
THEOREM HandlesStayOpen == SafeSpec => []HandlesAreOpen
<1>1. DeviceInv => HandlesAreOpen
  <2>1. SUFFICES ASSUME DeviceInv PROVE HandlesAreOpen
    OBVIOUS
  <2>2. DOMAIN devices = 1..Len(devices) /\ \A i \in 1..Len(devices) : devices[i] \in Address
    BY <2>1, LenProperties, ElementOfSeq DEF DeviceInv, TypeOK
  <2>3. \A i \in DOMAIN devices : heap[devices[i]] # "free"
    BY <2>1, <2>2 DEF DeviceInv, HandlesListed, Contains
  <2>4. At({"write"}) /\ ~reopened => Contains(devices, Head(todo).to)
    BY <2>1, OnTop DEF Listed
  <2>5. QED
    BY <2>1, <2>2, <2>3, <2>4 DEF HandlesAreOpen, DeviceInv, OneHandleEach
<1>2. QED
  BY <1>1, DeviceAlways, PTL
=============================================================================
