-------------------------- MODULE ApiServer_proofs --------------------------
(* What is proved of the lock of the API, for every number of clients and    *)
(* plugins, all priorities and every bound of the queue: the types, the      *)
(* shape of the list of keys, that nobody takes the lock from an API client, *)
(* and that the API thread tells the status the list has.                    *)
EXTENDS ApiServer, Lemmas

-----------------------------------------------------------------------------
(* The keys that Lock overtakes are the head of the list, and none if it is  *)
(* the key of an API client.                                                 *)

(* What Lock walks over is a first part of the list; it is empty when an API *)
(* client holds the lock.                                                    *)
LEMMA OvertakenType ==
  ASSUME NEW X, lockSessionKeys \in Seq(X)
  PROVE  /\ Len(Overtaken) \in 0..Len(lockSessionKeys)
         /\ \A i \in 1..Len(Overtaken) : Overtaken[i] = lockSessionKeys[i]
         /\ lockSessionKeys # << >> /\ Head(lockSessionKeys) \in ApiKey => Len(Overtaken) = 0
<1> DEFINE L == lockSessionKeys
           I == {i \in 1..Len(L) : L[i] \in ApiKey}
<1>0. Len(L) \in Nat
  BY LenProperties
<1>1. CASE I = {}
  <2>1. Overtaken = L
    BY <1>1 DEF Overtaken, SelectInSeq
  <2>2. ~(L # << >> /\ Head(L) \in ApiKey)
    <3>1. SUFFICES ASSUME L # << >>, Head(L) \in ApiKey PROVE FALSE
      OBVIOUS
    <3>2. 1 \in 1..Len(L) /\ Head(L) = L[1]
      BY <1>0, <3>1, EmptySeq
    <3>3. QED
      BY <1>1, <3>1, <3>2
  <2>3. QED
    BY <1>0, <2>1, <2>2
<1>2. CASE I # {}
  <2>1. \E i \in I : \A j \in I : i <= j
    <3>1. I \subseteq Nat
      BY <1>0
    <3>2. QED
      BY <1>2, <3>1, LeastNatural
  <2>2. Min(I) \in I /\ \A j \in I : Min(I) <= j
    BY <2>1 DEF Min
  <2> DEFINE p == Min(I)
  <2>4. p \in 1..Len(L) /\ p # 0
    BY <2>2
  <2>3. Overtaken = SubSeq(L, 1, p - 1)
    BY <1>2, <2>4 DEF Overtaken, SelectInSeq
  <2> HIDE DEF p
  <2>5. /\ Len(Overtaken) = IF 1 <= p - 1 THEN p - 1 - 1 + 1 ELSE 0
        /\ \A i \in 1..(p - 1 - 1 + 1) : Overtaken[i] = L[1 + i - 1]
    <3>1. \A i \in 1..(p - 1) : L[i] \in X
      BY <1>0, <2>4, ElementOfSeq
    <3>2. QED
      BY <2>3, <2>4, <3>1, SubSeqProperties
  <2>6. Len(Overtaken) = p - 1
    BY <2>4, <2>5
  <2>7. ASSUME L # << >>, Head(L) \in ApiKey PROVE p = 1
    <3>1. 1 \in I
      BY <1>0, <2>4, <2>7
    <3>2. QED
      BY <2>2, <2>4, <3>1 DEF p
  <2>8. QED
    BY <1>0, <2>4, <2>5, <2>6, <2>7
<1>3. QED
  BY <1>1, <1>2

(* The foreach of Lock has a result after each of its turns, ...             *)
LEMMA InsertingIs ==
  ASSUME NEW X, lockSessionKeys \in Seq(X), NEW k
  PROVE  Inserting(k) = [i \in 0..Len(Overtaken) |->
           IF i = 0 THEN lockSessionKeys ELSE InsertBefore(k, Inserting(k)[i - 1], Overtaken[i])]
<1> DEFINE Turns(g, n) ==
             g = [i \in 0..n |->
                    IF i = 0 THEN lockSessionKeys ELSE InsertBefore(k, g[i - 1], Overtaken[i])]
           T == {n \in Nat : \E g : Turns(g, n)}
<1>1. 0 \in T
  <2>1. Turns([i \in 0..0 |-> lockSessionKeys], 0)
    OBVIOUS
  <2>2. QED
    BY <2>1
<1>2. ASSUME NEW n \in Nat, n \in T PROVE n + 1 \in T
  <2>1. PICK g : Turns(g, n)
    BY <1>2
  <2> DEFINE h == [i \in 0..(n + 1) |->
                     IF i \in 0..n THEN g[i] ELSE InsertBefore(k, g[n], Overtaken[n + 1])]
  <2>2. ASSUME NEW i \in 0..(n + 1)
        PROVE  h[i] = IF i = 0 THEN lockSessionKeys ELSE InsertBefore(k, h[i - 1], Overtaken[i])
    <3>1. CASE i = 0
      BY <2>1, <3>1
    <3>2. CASE i \in 1..n
      <4>1. h[i] = g[i] /\ h[i - 1] = g[i - 1]
        BY <3>2
      <4>2. g[i] = InsertBefore(k, g[i - 1], Overtaken[i])
        BY <2>1, <3>2
      <4>3. QED
        BY <3>2, <4>1, <4>2
    <3>3. CASE i = n + 1
      <4>1. i \notin 0..n /\ i - 1 \in 0..n /\ i - 1 = n /\ i # 0
        BY <3>3
      <4>2. h[i] = InsertBefore(k, g[n], Overtaken[n + 1]) /\ h[i - 1] = g[n]
        BY <4>1
      <4>3. QED
        BY <3>3, <4>1, <4>2
    <3>4. QED
      BY <3>1, <3>2, <3>3
  <2>3. Turns(h, n + 1)
    BY <2>2
  <2> HIDE DEF h, Turns
  <2>4. \E g1 : Turns(g1, n + 1)
    BY <2>3
  <2>5. QED
    BY <2>4
<1> HIDE DEF T
<1>3. Nat \subseteq T
  BY <1>1, <1>2, SetInduction
<1>4. \E g : Turns(g, Len(Overtaken))
  BY <1>3, OvertakenType, LenProperties DEF T
<1>5. Inserting(k) = CHOOSE g : Turns(g, Len(Overtaken))
  BY DEF Inserting
<1> HIDE DEF Turns
<1>6. Turns(Inserting(k), Len(Overtaken))
  BY <1>4, <1>5
<1>7. QED
  BY <1>6 DEF Turns

(* ... a list of the same keys and k, with k behind the key of an API        *)
(* client.                                                                   *)
LEMMA KeysWithType ==
  ASSUME NEW X, lockSessionKeys \in Seq(X), NEW k \in X
  PROVE  /\ KeysWith(k) \in Seq(X)
         /\ /\ lockSessionKeys # << >> /\ Head(lockSessionKeys) \in ApiKey
            /\ ~Contains(lockSessionKeys, k)
            => KeysWith(k) = Append(lockSessionKeys, k)
<1> DEFINE L == lockSessionKeys
           n == Len(Overtaken)
           T == {i \in Nat : i <= n =>
                   /\ Inserting(k)[i] \in Seq(X)
                   /\ \A x : Contains(L, x) => Contains(Inserting(k)[i], x)}
<1>0. Len(L) \in Nat /\ n \in 0..Len(L)
  BY LenProperties, OvertakenType
<1>1. Inserting(k)[0] = L
  BY <1>0, InsertingIs
<1>2. ASSUME NEW i \in Nat, i \in T, i + 1 <= n
      PROVE  /\ Inserting(k)[i + 1] \in Seq(X)
             /\ \A x : Contains(L, x) => Contains(Inserting(k)[i + 1], x)
  <2> DEFINE keys == Inserting(k)[i]
  <2>1. Inserting(k)[i + 1] = InsertBefore(k, keys, Overtaken[i + 1])
    BY <1>0, <1>2, InsertingIs
  <2>2. keys \in Seq(X) /\ \A x : Contains(L, x) => Contains(keys, x)
    BY <1>0, <1>2
  <2>3. Contains(keys, Overtaken[i + 1])
    <3>1. i + 1 \in 1..n /\ i + 1 \in 1..Len(L)
      BY <1>0, <1>2
    <3>2. Contains(L, Overtaken[i + 1])
      BY <3>1, OvertakenType DEF Contains
    <3>3. QED
      BY <2>2, <3>2
  <2> HIDE DEF keys
  <2>4. Place(keys, Overtaken[i + 1]) \in 1..Len(keys)
    BY <2>2, <2>3, PlaceOf
  <2>5. /\ InsertAt(keys, Place(keys, Overtaken[i + 1]), k) \in Seq(X)
        /\ \A x : Contains(keys, x) =>
                    Contains(InsertAt(keys, Place(keys, Overtaken[i + 1]), k), x)
    BY <2>2, <2>4, Inserted
  <2>6. InsertBefore(k, keys, Overtaken[i + 1])
          \in {keys, InsertAt(keys, Place(keys, Overtaken[i + 1]), k)}
    BY DEF InsertBefore, Place
  <2>7. QED
    BY <2>1, <2>2, <2>5, <2>6
<1>3. 0 \in T
  BY <1>1
<1>4. ASSUME NEW i \in Nat, i \in T PROVE i + 1 \in T
  BY <1>2, <1>4
<1>5. n \in T
  <2> HIDE DEF T
  <2>1. Nat \subseteq T
    BY <1>3, <1>4, SetInduction
  <2>2. QED
    BY <1>0, <2>1
<1>6. Inserting(k)[n] \in Seq(X)
  BY <1>0, <1>5
<1>7. KeysWith(k) = IF Contains(Inserting(k)[n], k) THEN Inserting(k)[n]
                                                    ELSE Append(Inserting(k)[n], k)
  BY DEF KeysWith
<1>8. KeysWith(k) \in Seq(X)
  BY <1>6, <1>7, AppendProperties
<1>9. ASSUME L # << >>, Head(L) \in ApiKey, ~Contains(L, k)
      PROVE  KeysWith(k) = Append(L, k)
  <2>1. n = 0
    BY <1>9, OvertakenType
  <2>2. QED
    BY <1>1, <1>7, <1>9, <2>1
<1>10. QED
  BY <1>8, <1>9

-----------------------------------------------------------------------------
(* The shape of the list, and what keeps it                                  *)

Shape(keys, loaded) ==
  \A i \in 1..Len(keys) : /\ keys[i] \in ApiKey => i = 1
                          /\ keys[i] \in Guid => keys[i] \in loaded

(* Shape says in the terms of the list what LockListInv says.                *)
LEMMA ShapeIs ==
  ASSUME NEW keys \in Seq(Key), NEW loaded
  PROVE  (/\ \A i \in DOMAIN keys : keys[i] \in ApiKey => i = 1
          /\ ToSet(keys) \cap Guid \subseteq loaded) <=> Shape(keys, loaded)
<1>1. DOMAIN keys = 1..Len(keys)
  BY LenProperties
<1>2. ToSet(keys) \cap Guid \subseteq loaded
        <=> \A i \in 1..Len(keys) : keys[i] \in Guid => keys[i] \in loaded
  BY <1>1, Zenon DEF ToSet
<1>3. QED
  BY <1>1, <1>2 DEF Shape

(* UnLock of a key that stands in the list keeps the shape of the list.      *)
LEMMA ShapeRemoved ==
  ASSUME NEW keys \in Seq(Key), NEW loaded, Shape(keys, loaded), NEW k, Contains(keys, k)
  PROVE  RemoveFirst(keys, k) \in Seq(Key) /\ Shape(RemoveFirst(keys, k), loaded)
<1> DEFINE s == RemoveFirst(keys, k)
<1>0. Len(keys) \in Nat /\ Place(keys, k) \in 1..Len(keys)
  BY LenProperties, PlaceOf
<1>1. /\ s \in Seq(Key) /\ Len(s) = Len(keys) - 1
      /\ \A j \in 1..(Len(keys) - 1) : s[j] = IF j < Place(keys, k) THEN keys[j] ELSE keys[j + 1]
  BY Removed
<1> HIDE DEF s
<1>2. ASSUME NEW j \in 1..Len(s)
      PROVE  (s[j] \in ApiKey => j = 1) /\ (s[j] \in Guid => s[j] \in loaded)
  <2>1. j \in 1..Len(keys) /\ j + 1 \in 1..Len(keys)
    BY <1>0, <1>1
  <2>2. s[j] = keys[j] \/ s[j] = keys[j + 1]
    BY <1>0, <1>1
  <2>3. /\ keys[j] \in ApiKey => j = 1
        /\ keys[j] \in Guid => keys[j] \in loaded
        /\ keys[j + 1] \in ApiKey => j + 1 = 1
        /\ keys[j + 1] \in Guid => keys[j + 1] \in loaded
    BY <2>1 DEF Shape
  <2>4. QED
    BY <2>1, <2>2, <2>3
<1>3. QED
  BY <1>1, <1>2 DEF Shape, s

(* The timer, which drops the holder, keeps the shape of the list.           *)
LEMMA ShapeTail ==
  ASSUME NEW keys \in Seq(Key), NEW loaded, Shape(keys, loaded), keys # << >>
  PROVE  Tail(keys) \in Seq(Key) /\ Shape(Tail(keys), loaded)
<1>1. Contains(keys, keys[1]) /\ RemoveFirst(keys, keys[1]) = Tail(keys)
  <2>1. 1 \in 1..Len(keys)
    BY LenProperties, EmptySeq
  <2>2. Contains(keys, keys[1])
    BY <2>1 DEF Contains
  <2>3. QED
    BY <2>2, Removed
<1>2. QED
  BY <1>1, ShapeRemoved

(* The list after a key that may lock was added                              *)
LEMMA ShapeLocked ==
  ASSUME lockSessionKeys \in Seq(Key), plugins \subseteq Guid,
         Shape(lockSessionKeys, plugins), NEW k \in Key,
         CanLock(k), ~Contains(lockSessionKeys, k),
         NEW keys, keys = IF k \in ApiKey THEN <<k>> \o lockSessionKeys ELSE KeysWith(k)
  PROVE  keys \in Seq(Key) /\ Shape(keys, plugins)
<1> DEFINE L == lockSessionKeys
<1>0. Guid \cap ApiKey = {}
  BY PluginInterfaceAssumption
<1>1. CASE k \in ApiKey
  <2>1. L = << >>
    BY <1>0, <1>1 DEF CanLock
  <2>2. <<k>> \in Seq(Key)
    OBVIOUS
  <2>3. keys = <<k>>
    BY <1>1, <2>1, <2>2, ConcatEmptySeq
  <2>4. QED
    BY <1>0, <1>1, <2>2, <2>3 DEF Shape
<1>2. CASE k \notin ApiKey /\ L # << >> /\ Head(L) \in ApiKey
  <2>1. keys = Append(L, k)
    BY <1>2, KeysWithType
  <2>2. k \in plugins
    BY <1>2 DEF CanLock
  <2>3. /\ keys \in Seq(Key) /\ Len(keys) = Len(L) + 1
        /\ \A i \in 1..Len(L) : keys[i] = L[i]
        /\ keys[Len(L) + 1] = k
    <3>1. /\ Append(L, k) \in Seq(Key) /\ Len(Append(L, k)) = Len(L) + 1
          /\ \A i \in 1..Len(L) : Append(L, k)[i] = L[i]
          /\ Append(L, k)[Len(L) + 1] = k
      BY AppendProperties
    <3>2. QED
      BY ONLY <2>1, <3>1
  <2>4. Len(L) \in Nat
    BY LenProperties
  <2>5. ASSUME NEW i \in 1..Len(keys)
        PROVE  (keys[i] \in ApiKey => i = 1) /\ (keys[i] \in Guid => keys[i] \in plugins)
    <3>1. CASE i \in 1..Len(L)
      BY <2>3, <3>1 DEF Shape
    <3>2. CASE i = Len(L) + 1
      BY <1>2, <2>2, <2>3, <3>2
    <3>3. QED
      BY <2>3, <2>4, <3>1, <3>2
  <2>6. QED
    BY <2>3, <2>5 DEF Shape
<1>3. CASE k \notin ApiKey /\ ~(L # << >> /\ Head(L) \in ApiKey)
  <2>1. k \in plugins
    BY <1>3 DEF CanLock
  <2>2. \A i \in 1..Len(L) : L[i] \in plugins
    <3>1. SUFFICES ASSUME NEW i \in 1..Len(L) PROVE L[i] \in plugins
      OBVIOUS
    <3>2. L[i] \in Key
      BY ElementOfSeq
    <3>3. L[i] \notin ApiKey
      <4>1. SUFFICES ASSUME L[i] \in ApiKey PROVE FALSE
        OBVIOUS
      <4>2. i = 1
        BY <4>1 DEF Shape
      <4>3. L # << >> /\ Head(L) = L[1]
        BY <4>2, EmptySeq
      <4>4. QED
        BY <1>3, <4>1, <4>2, <4>3
    <3>4. QED
      BY <3>2, <3>3 DEF Shape, Key
  <2>3. L \in Seq(plugins)
    <3>1. L \in [1..Len(L) -> Key] /\ Len(L) \in Nat
      BY LenProperties
    <3>2. L \in [1..Len(L) -> plugins]
      BY <2>2, <3>1
    <3>3. QED
      BY <3>1, <3>2, SeqDef
  <2>4. keys \in Seq(plugins)
    BY <1>3, <2>1, <2>3, KeysWithType
  <2>5. \A i \in 1..Len(keys) : keys[i] \in plugins
    BY <2>4, ElementOfSeq
  <2>6. keys \in Seq(Key)
    BY <2>4, SeqMonotonic DEF Key
  <2>7. QED
    BY <1>0, <2>5, <2>6 DEF Shape
<1>4. QED
  BY <1>1, <1>2, <1>3

-----------------------------------------------------------------------------
(* What the operations of the interface keep: the types, and the list has    *)
(* its shape                                                                 *)

Statuses == {"Unlocked", "Api", "Plugin"}

InterfaceOK ==
  /\ lockSessionKeys \in Seq(Key)
  /\ lockAlive \in BOOLEAN
  /\ plugins \subseteq Guid
  /\ priority \in Priorities
  /\ statusEvents \in Seq(Statuses)
  /\ lockStatus \in Statuses
  /\ Shape(lockSessionKeys, plugins)

(* The status that is told is always one of the three.                       *)
LEMMA StatusOfType ==
  ASSUME NEW keys
  PROVE  StatusOf(keys) \in Statuses
BY DEF StatusOf, Statuses

(* A status told from the API thread keeps the queue of the main thread      *)
(* typed.                                                                    *)
LEMMA TellFromApiThreadType ==
  ASSUME InterfaceOK, NEW keys, TellFromApiThread(<<StatusOf(keys)>>)
  PROVE  statusEvents' \in Seq(Statuses) /\ lockStatus' \in Statuses
<1> DEFINE st == StatusOf(keys)
<1>1. <<st>> \in Seq(Statuses)
  BY StatusOfType
<1>2. statusEvents \o <<st>> \in Seq(Statuses)
  BY <1>1, ConcatProperties DEF InterfaceOK
<1>3. QED
  BY <1>2 DEF TellFromApiThread, InterfaceOK

(* Lock keeps the state of the interface, whoever calls it.                  *)
LEMMA LockKeeps ==
  ASSUME InterfaceOK, NEW k \in Key, Lock(k)
  PROVE  InterfaceOK'
<1>1. CASE CanLock(k) /\ ~Contains(lockSessionKeys, k)
  <2>1. /\ lockSessionKeys' = IF k \in ApiKey THEN <<k>> \o lockSessionKeys ELSE KeysWith(k)
        /\ TellFromApiThread(<<StatusOf(lockSessionKeys')>>)
        /\ lockAlive' = TRUE
        /\ UNCHANGED <<plugins, priority>>
    BY <1>1 DEF Lock
  <2>2. lockSessionKeys' \in Seq(Key) /\ Shape(lockSessionKeys', plugins)
    BY <1>1, <2>1, ShapeLocked DEF InterfaceOK
  <2>3. statusEvents' \in Seq(Statuses) /\ lockStatus' \in Statuses
    BY <2>1, TellFromApiThreadType
  <2>4. QED
    BY <2>1, <2>2, <2>3 DEF InterfaceOK
<1>2. CASE ~(CanLock(k) /\ ~Contains(lockSessionKeys, k))
  BY <1>2 DEF Lock, interfaceVars, InterfaceOK
<1>3. QED
  BY <1>1, <1>2

(* UnLock keeps the state of the interface, whoever calls it.                *)
LEMMA UnLockKeeps ==
  ASSUME InterfaceOK, NEW k, UnLock(k)
  PROVE  InterfaceOK'
<1>1. CASE Contains(lockSessionKeys, k)
  <2>1. /\ lockSessionKeys' = RemoveFirst(lockSessionKeys, k)
        /\ TellFromApiThread(<<StatusOf(lockSessionKeys')>>)
        /\ UNCHANGED <<lockAlive, plugins, priority>>
    BY <1>1 DEF UnLock, KeysWithout
  <2>2. lockSessionKeys' \in Seq(Key) /\ Shape(lockSessionKeys', plugins)
    BY <1>1, <2>1, ShapeRemoved DEF InterfaceOK
  <2>3. statusEvents' \in Seq(Statuses) /\ lockStatus' \in Statuses
    BY <2>1, TellFromApiThreadType
  <2>4. QED
    BY <2>1, <2>2, <2>3 DEF InterfaceOK
<1>2. CASE ~Contains(lockSessionKeys, k)
  BY <1>2 DEF UnLock, interfaceVars, InterfaceOK
<1>3. QED
  BY <1>1, <1>2

(* The plugins are numbered from 1 up, no further than there are plugins.    *)
LEMMA SavedPriorities ==
  ASSUME InterfaceOK, SavePriorityPlugin
  PROVE  priority' \in Priorities
<1>1. PICK p \in Bijection(plugins, 1..Cardinality(plugins)) :
             priority' = [g \in Guid |-> IF g \in plugins THEN p[g] ELSE priority[g]]
  BY DEF SavePriorityPlugin
<1>2. p \in [plugins -> 1..Cardinality(plugins)]
  BY DEF Bijection, Injection
<1>3. /\ Cardinality(plugins) \in Nat /\ Cardinality(Guid) \in Nat
      /\ Cardinality(plugins) <= Cardinality(Guid)
  BY PluginInterfaceAssumption, FS_Subset, FS_CardinalityType DEF InterfaceOK
<1>4. \A g \in Guid : (IF g \in plugins THEN p[g] ELSE priority[g]) \in 0..Cardinality(Guid)
  BY <1>2, <1>3 DEF InterfaceOK, Priorities
<1>5. QED
  BY <1>1, <1>4 DEF Priorities

(* So do the timer of the lock, the changes of the plugins and the delivery  *)
(* of a status.                                                              *)
LEMMA MainThreadKeeps ==
  ASSUME InterfaceOK, MainThread
  PROVE  InterfaceOK'
<1>1. ASSUME SetDeviceLockViaAPI PROVE InterfaceOK'
  <2>1. Head(statusEvents) \in Statuses /\ Tail(statusEvents) \in Seq(Statuses)
    BY <1>1, HeadTailProperties DEF SetDeviceLockViaAPI, InterfaceOK
  <2>2. QED
    BY <1>1, <2>1 DEF SetDeviceLockViaAPI, InterfaceOK
<1>2. ASSUME TimeoutLock PROVE InterfaceOK'
  <2>1. CASE lockAlive' = FALSE /\ UNCHANGED <<lockSessionKeys, plugins, priority,
                                               statusEvents, lockStatus>>
    BY <2>1 DEF InterfaceOK
  <2>2. CASE /\ Expires
             /\ lockSessionKeys' = Tail(lockSessionKeys)
             /\ TellFromMainThread(StatusOf(lockSessionKeys'))
             /\ UNCHANGED <<lockAlive, plugins, priority>>
    <3>1. Tail(lockSessionKeys) \in Seq(Key) /\ Shape(Tail(lockSessionKeys), plugins)
      BY <2>2, ShapeTail DEF Expires, InterfaceOK
    <3>2. lockStatus' \in Statuses /\ statusEvents' = statusEvents
      BY <2>2, StatusOfType DEF TellFromMainThread
    <3>3. QED
      BY <2>2, <3>1, <3>2 DEF InterfaceOK
  <2>3. QED
    BY <1>2, <2>1, <2>2 DEF TimeoutLock
<1>3. ASSUME NEW loaded \in SUBSET Guid, UpdatePlugin(loaded) PROVE InterfaceOK'
  <2>1. lockSessionKeys' \in Seq(Key) /\ Shape(lockSessionKeys', loaded)
    <3>1. << >> \in Seq(Key) /\ Len(<< >>) = 0
      OBVIOUS
    <3>2. Shape(<< >>, loaded)
      BY DEF Shape
    <3>3. QED
      BY <1>3, <3>1, <3>2 DEF UpdatePlugin
  <2>2. lockStatus' \in Statuses /\ statusEvents' = statusEvents
    BY <1>3, StatusOfType DEF UpdatePlugin, TellFromMainThread, InterfaceOK
  <2>3. QED
    BY <1>3, <2>1, <2>2 DEF UpdatePlugin, InterfaceOK
<1>4. ASSUME SavePriorityPlugin PROVE InterfaceOK'
  BY <1>4, SavedPriorities DEF SavePriorityPlugin, InterfaceOK
<1>5. QED
  BY <1>1, <1>2, <1>3, <1>4 DEF MainThread

-----------------------------------------------------------------------------
(* The inductive invariant: the types and the shape of the list, together    *)
(* with the keys of the sessions.  Each needs the other: Lock finds the      *)
(* place of a key among the priorities only when the plugins in the list are *)
(* loaded, and the list is one of keys only as long as the sessions have     *)
(* keys.                                                                     *)

IInv ==
  /\ InterfaceOK
  /\ sessionKey \in [Client -> Key \cup {NoKey}]
  /\ stopping \in BOOLEAN

(* The inductive invariant is the type invariant and LockListInv.            *)
LEMMA IInvIs == IInv <=> TypeOK /\ LockListInv
<1>1. InterfaceOK <=> /\ lockSessionKeys \in Seq(Key)
                      /\ lockAlive \in BOOLEAN
                      /\ plugins \subseteq Guid
                      /\ priority \in Priorities
                      /\ statusEvents \in Seq(Statuses)
                      /\ lockStatus \in Statuses
                      /\ LockListInv
  BY ShapeIs DEF InterfaceOK, LockListInv
<1>2. QED
  BY <1>1 DEF IInv, TypeOK, Statuses

(* It holds when the server starts to listen.                                *)
LEMMA IInvInit == Init => IInv
<1> SUFFICES ASSUME Init PROVE IInv
  OBVIOUS
<1>1. Shape(<< >>, plugins) /\ << >> \in Seq(Key) /\ << >> \in Seq(Statuses)
  BY DEF Shape
<1>2. QED
  BY <1>1 DEF Init, InterfaceInit, IInv, InterfaceOK, Statuses

(* A client that is not connected is one of fewer than Cardinality(Client)   *)
(* others: its key is one of ApiKey.                                         *)
LEMMA FreshKey ==
  ASSUME NEW c \in Client, c \notin Clients
  PROVE  Cardinality(Clients) \in ApiKey
<1>1. Clients \in SUBSET (Client \ {c})
  BY DEF Clients
<1>2. IsFiniteSet(Client \ {c}) /\ Cardinality(Client \ {c}) = Cardinality(Client) - 1
  BY ApiServerAssumption, FS_RemoveElement
<1>3. Cardinality(Clients) \in Nat /\ Cardinality(Clients) <= Cardinality(Client) - 1
  BY <1>1, <1>2, FS_Subset, FS_CardinalityType
<1>4. Cardinality(Client) \in Nat
  BY ApiServerAssumption, FS_CardinalityType
<1>5. QED
  BY <1>3, <1>4, ApiServerAssumption

(* A connected client has a key that Lock and UnLock accept.                 *)
LEMMA SessionKeyIsKey ==
  ASSUME IInv, NEW c \in Clients
  PROVE  c \in Client /\ sessionKey[c] \in Key
BY DEF IInv, Clients

(* A step that leaves the interface alone keeps its state.                   *)
LEMMA SameInterface ==
  ASSUME InterfaceOK, UNCHANGED interfaceVars
  PROVE  InterfaceOK'
BY DEF interfaceVars, InterfaceOK

(* Dropping a client, by itself or in the loop of stopListening, keeps the   *)
(* state.                                                                    *)
LEMMA DropKeeps ==
  ASSUME IInv, NEW c \in Client, Drop(c)
  PROVE  InterfaceOK' /\ sessionKey' \in [Client -> Key \cup {NoKey}]
<1>1. UnLock(sessionKey[c]) \/ UNCHANGED interfaceVars
  BY DEF Drop
<1>2. InterfaceOK'
  BY <1>1, UnLockKeeps, SameInterface DEF IInv
<1>3. QED
  BY <1>2 DEF Drop, IInv

(* Every step of the two threads keeps the inductive invariant.              *)
LEMMA IInvNext == IInv /\ [Next]_vars => IInv'
<1> SUFFICES ASSUME IInv, [Next]_vars PROVE IInv'
  OBVIOUS
<1>1. ASSUME NEW c \in Client, IncomingConnection(c) PROVE IInv'
  <2>1. Cardinality(Clients) \in Key
    BY <1>1, FreshKey DEF IncomingConnection, Key
  <2>2. InterfaceOK'
    BY <1>1, SameInterface DEF IncomingConnection, IInv
  <2>3. QED
    BY <1>1, <2>1, <2>2 DEF IncomingConnection, IInv
<1>2. ASSUME NEW c \in Client, ClientDisconnected(c) PROVE IInv'
  BY <1>2, DropKeeps DEF ClientDisconnected, IInv
<1>3. ASSUME NEW c \in Client, StopListening(c) PROVE IInv'
  BY <1>3, DropKeeps DEF StopListening, IInv
<1>4. ASSUME NEW c \in Client, NEW g \in Guid, CmdGuid(c, g) PROVE IInv'
  <2>1. InterfaceOK'
    BY <1>4, SameInterface DEF CmdGuid, IInv
  <2>2. QED
    BY <1>4, <2>1 DEF CmdGuid, Command, IInv, Key
<1>5. ASSUME NEW c \in Client, CmdLock(c) PROVE IInv'
  <2>1. InterfaceOK'
    BY <1>5, SessionKeyIsKey, LockKeeps DEF CmdLock, Command, IInv
  <2>2. QED
    BY <1>5, <2>1 DEF CmdLock, Command, IInv
<1>6. ASSUME NEW c \in Client, CmdUnlock(c) PROVE IInv'
  <2>1. InterfaceOK'
    BY <1>6, UnLockKeeps DEF CmdUnlock, IInv
  <2>2. QED
    BY <1>6, <2>1 DEF CmdUnlock, Command, IInv
<1>7. ASSUME NEW c \in Client, CmdSetColor(c) PROVE IInv'
  BY <1>7 DEF CmdSetColor, Command, SetLockAlive, IInv, InterfaceOK
<1>8. ASSUME MainThread, UNCHANGED <<sessionKey, stopping>> PROVE IInv'
  BY <1>8, MainThreadKeeps DEF IInv
<1>9. CASE UNCHANGED vars
  BY <1>9, SameInterface DEF vars, IInv
<1>10. QED
  BY <1>1, <1>2, <1>3, <1>4, <1>5, <1>6, <1>7, <1>8, <1>9 DEF Next, ApiThread, GivesBack, GoesOn

(* The inductive invariant holds in every reachable state.                   *)
LEMMA Invariance == Spec => []IInv
BY IInvInit, IInvNext, PTL DEF Spec

(* Every variable keeps its type: the key of a session is that of a plugin   *)
(* or one counted from the clients, and no key but these is ever in the list *)
(* of LightpackPluginInterface.                                              *)
THEOREM TypeCorrect == Spec => []TypeOK
BY Invariance, IInvIs, PTL

(* The key of an API client holds the lock or is not in the list, and every  *)
(* plugin in the list is loaded (LightpackPluginInterface::Lock, UnLock,     *)
(* timeoutLock and updatePlugin).                                            *)
THEOREM LockListCorrect == Spec => []LockListInv
BY Invariance, IInvIs, PTL

-----------------------------------------------------------------------------
(* Who takes the lock from an API client                                     *)

(* What holds the lock is the first key of the list.                         *)
LEMMA HolderIsFirst ==
  ASSUME NEW X, lockSessionKeys \in Seq(X), NEW k
  PROVE  CheckLock(k) = 1 <=> lockSessionKeys # << >> /\ lockSessionKeys[1] = k
BY DEF CheckLock

(* After a step, as before it, CheckLock answers 1 for the first key of the  *)
(* list.                                                                     *)
LEMMA HolderIsFirstNext ==
  ASSUME NEW X, lockSessionKeys' \in Seq(X), NEW k
  PROVE  CheckLock(k)' = 1 <=> lockSessionKeys' # << >> /\ lockSessionKeys'[1] = k
BY DEF CheckLock

(* No step of the main thread but a reload of the plugins touches the list   *)
(* while an API client holds the lock.                                       *)
LEMMA MainThreadSparesClients ==
  ASSUME NEW k \in ApiKey, CheckLock(k) = 1,
         TimeoutLock \/ SavePriorityPlugin \/ SetDeviceLockViaAPI
  PROVE  CheckLock(k)' = 1
<1>1. ~Expires
  BY DEF CheckLock, Expires
<1>2. lockSessionKeys' = lockSessionKeys
  BY <1>1 DEF SetDeviceLockViaAPI, TimeoutLock, SavePriorityPlugin
<1>3. QED
  BY <1>2 DEF CheckLock

(* Another key that leaves the list leaves the first one in its place.       *)
LEMMA UnLockOfAnother ==
  ASSUME IInv, NEW k, CheckLock(k) = 1, NEW other, other # k, UnLock(other)
  PROVE  CheckLock(k)' = 1
<1> DEFINE L == lockSessionKeys
           s == RemoveFirst(L, other)
<1>0. L \in Seq(Key) /\ Len(L) \in Nat /\ L # << >> /\ L[1] = k
  BY LenProperties, HolderIsFirst DEF IInv, InterfaceOK
<1>1. CASE Contains(L, other)
  <2>1. Place(L, other) \in 1..Len(L) /\ Place(L, other) # 1
    BY <1>0, <1>1, PlaceOf
  <2>2. /\ s \in Seq(Key) /\ Len(s) = Len(L) - 1
        /\ \A j \in 1..(Len(L) - 1) : s[j] = IF j < Place(L, other) THEN L[j] ELSE L[j + 1]
    BY <1>0, <1>1, Removed
  <2> HIDE DEF s
  <2>3. Len(s) # 0 /\ s[1] = L[1]
    BY <1>0, <2>1, <2>2
  <2>4. s # << >> /\ s[1] = k
    BY <1>0, <2>2, <2>3, EmptySeq
  <2>5. L' = s
    BY <1>1 DEF UnLock, KeysWithout, s
  <2>6. QED
    BY <2>2, <2>4, <2>5, HolderIsFirstNext
<1>2. CASE ~Contains(L, other)
  BY <1>2 DEF UnLock, interfaceVars, CheckLock
<1>3. QED
  BY <1>1, <1>2

(* Whoever locks after an API client goes behind it.                         *)
LEMMA LockBehindClient ==
  ASSUME IInv, NEW k \in ApiKey, CheckLock(k) = 1, NEW other \in Key, Lock(other)
  PROVE  CheckLock(k)' = 1
<1> DEFINE L == lockSessionKeys
<1>0. L \in Seq(Key) /\ Len(L) \in Nat /\ L # << >> /\ L[1] = k
  BY LenProperties, HolderIsFirst DEF IInv, InterfaceOK
<1>1. CASE CanLock(other) /\ ~Contains(L, other)
  <2>1. other \notin ApiKey
    BY <1>0, <1>1, PluginInterfaceAssumption DEF CanLock
  <2>2. L' = Append(L, other)
    BY <1>0, <1>1, <2>1, KeysWithType DEF Lock
  <2>3. Append(L, other) \in Seq(Key) /\ Append(L, other)[1] = k /\ Len(Append(L, other)) # 0
    <3>1. 1 \in 1..Len(L)
      BY <1>0, EmptySeq
    <3>2. QED
      BY <1>0, <3>1, AppendProperties
  <2>4. Append(L, other) # << >>
    BY <2>3, EmptySeq
  <2>5. QED
    BY <2>2, <2>3, <2>4, HolderIsFirstNext
<1>2. CASE ~(CanLock(other) /\ ~Contains(L, other))
  BY <1>2 DEF Lock, interfaceVars, CheckLock
<1>3. QED
  BY <1>1, <1>2

(* A step that leaves the interface alone leaves the lock to its holder.     *)
LEMMA SameHolder ==
  ASSUME NEW k, UNCHANGED interfaceVars
  PROVE  CheckLock(k)' = CheckLock(k)
BY DEF interfaceVars, CheckLock

(* A client with another key that leaves takes nothing from the holder.      *)
LEMMA DropOfAnother ==
  ASSUME IInv, NEW k, CheckLock(k) = 1, NEW c \in Client, sessionKey[c] # k, Drop(c)
  PROVE  CheckLock(k)' = 1
<1>1. CASE CheckLock(sessionKey[c]) = 1
  BY <1>1, UnLockOfAnother DEF Drop
<1>2. CASE CheckLock(sessionKey[c]) # 1
  BY <1>2, SameHolder DEF Drop
<1>3. QED
  BY <1>1, <1>2

(* No step of anybody else takes the lock from an API client.                *)
LEMMA OthersSpareClients ==
  ASSUME IInv, NEW k \in ApiKey, CheckLock(k) = 1, OthersStep(k)
  PROVE  CheckLock(k)' = 1
<1>1. CASE TimeoutLock \/ SavePriorityPlugin \/ SetDeviceLockViaAPI
  BY <1>1, MainThreadSparesClients
<1>2. ASSUME NEW c \in Client, IncomingConnection(c) PROVE CheckLock(k)' = 1
  BY <1>2, SameHolder DEF IncomingConnection
<1>3. ASSUME NEW c \in Client, NEW g \in Guid, CmdGuid(c, g) PROVE CheckLock(k)' = 1
  BY <1>3, SameHolder DEF CmdGuid
<1>4. ASSUME NEW c \in Client, CmdLock(c) PROVE CheckLock(k)' = 1
  BY <1>4, SessionKeyIsKey, LockBehindClient DEF CmdLock, Command
<1>5. ASSUME NEW c \in Client, CmdSetColor(c) PROVE CheckLock(k)' = 1
  BY <1>5 DEF CmdSetColor, SetLockAlive, CheckLock
<1>6. ASSUME NEW c \in Client, sessionKey[c] # k, CmdUnlock(c) PROVE CheckLock(k)' = 1
  BY <1>6, UnLockOfAnother DEF CmdUnlock
<1>7. ASSUME NEW c \in Client, sessionKey[c] # k, ClientDisconnected(c) \/ StopListening(c)
      PROVE  CheckLock(k)' = 1
  BY <1>7, DropOfAnother DEF ClientDisconnected, StopListening
<1>8. QED
  BY <1>1, <1>2, <1>3, <1>4, <1>5, <1>6, <1>7 DEF OthersStep, GoesOn, GivesBack

(* An API client that holds the lock loses it to nobody else, with any       *)
(* number of clients and plugins and any keys behind it in the list: not to  *)
(* timeoutLock, not to a Lock of a plugin of whatever priority, and not to a *)
(* client with another key that unlocks, disconnects or is dropped.          *)
THEOREM NobodyPreemptsClients == Spec => NotPreempted
<1>1. IInv /\ [Next]_vars => [\A k \in ApiKey :
         CheckLock(k) = 1 /\ OthersStep(k) => CheckLock(k)' = 1]_vars
  BY OthersSpareClients
<1>2. QED
  BY <1>1, Invariance, PTL DEF Spec, NotPreempted

-----------------------------------------------------------------------------
(* The status the API thread tells                                           *)

(* What TellFromApiThread queues is the last the application will hear.      *)
LEMMA ToldLast ==
  ASSUME IInv, NEW st \in Statuses, TellFromApiThread(<<st>>)
  PROVE  Told' = st
<1>1. statusEvents \in Seq(Statuses) /\ <<st>> \in Seq(Statuses) /\ Len(statusEvents) \in Nat
  BY LenProperties DEF IInv, InterfaceOK
<1> DEFINE e == statusEvents \o <<st>>
<1>2. e \in Seq(Statuses) /\ Len(e) = Len(statusEvents) + 1 /\ e[Len(statusEvents) + 1] = st
  <2>1. /\ e \in Seq(Statuses)
        /\ Len(e) = Len(statusEvents) + Len(<<st>>)
        /\ \A j \in 1..(Len(statusEvents) + Len(<<st>>)) :
             e[j] = IF j <= Len(statusEvents) THEN statusEvents[j] ELSE <<st>>[j - Len(statusEvents)]
    BY <1>1, ConcatProperties
  <2>2. Len(<<st>>) = 1 /\ <<st>>[1] = st
    OBVIOUS
  <2>3. QED
    BY <1>1, <2>1, <2>2
<1> HIDE DEF e
<1>3. e # << >> /\ Last(e) = st
  <2>1. Last(e) = st
    BY <1>2 DEF Last
  <2>2. e # << >>
    BY <1>1, <1>2, EmptySeq
  <2>3. QED
    BY <2>1, <2>2
<1>4. statusEvents' = e
  BY DEF TellFromApiThread, e
<1>5. QED
  BY <1>3, <1>4 DEF Told

(* The list and what is told of it agree                                     *)
Agrees == Told = StatusOf(lockSessionKeys)

(* What the application is told last stays true while list and statuses      *)
(* stay.                                                                     *)
LEMMA AgreesUnchanged ==
  ASSUME Agrees, UNCHANGED <<lockSessionKeys, statusEvents, lockStatus>>
  PROVE  Agrees'
BY DEF Agrees, Told, StatusOf

(* It is true after the status of the new list has been queued.              *)
LEMMA AgreesTold ==
  ASSUME IInv, TellFromApiThread(<<StatusOf(lockSessionKeys')>>)
  PROVE  Agrees'
<1>1. StatusOf(lockSessionKeys') = StatusOf(lockSessionKeys)'
  BY DEF StatusOf
<1>2. QED
  BY <1>1, ToldLast, StatusOfType DEF Agrees

(* It is true after UnLock, which tells the status when the list changes.    *)
LEMMA AgreesUnLock ==
  ASSUME IInv, Agrees, NEW k, UnLock(k)
  PROVE  Agrees'
<1>1. UNCHANGED interfaceVars \/ TellFromApiThread(<<StatusOf(lockSessionKeys')>>)
  BY DEF UnLock
<1>2. QED
  BY <1>1, AgreesUnchanged, AgreesTold DEF interfaceVars

(* It is true after every step of the API thread.                            *)
LEMMA AgreesNext ==
  ASSUME IInv, [Next]_vars, Agrees, ~MainThread
  PROVE  Agrees'
<1>1. ASSUME UNCHANGED interfaceVars PROVE Agrees'
  BY <1>1, AgreesUnchanged DEF interfaceVars
<1>2. ASSUME NEW c \in Client, Drop(c) PROVE Agrees'
  BY <1>1, <1>2, AgreesUnLock DEF Drop
<1>3. ASSUME NEW c \in Client, CmdLock(c) PROVE Agrees'
  <2>1. UNCHANGED interfaceVars \/ TellFromApiThread(<<StatusOf(lockSessionKeys')>>)
    BY <1>3 DEF CmdLock, Lock
  <2>2. QED
    BY <1>1, <2>1, AgreesTold
<1>4. ASSUME NEW c \in Client, CmdUnlock(c) PROVE Agrees'
  BY <1>4, AgreesUnLock DEF CmdUnlock
<1>5. ASSUME NEW c \in Client, CmdSetColor(c) PROVE Agrees'
  BY <1>5, AgreesUnchanged DEF CmdSetColor, SetLockAlive
<1>6. QED
  BY <1>1, <1>2, <1>3, <1>4, <1>5
     DEF Next, ApiThread, GivesBack, GoesOn, vars, IncomingConnection, ClientDisconnected, StopListening, CmdGuid

(* If the last status told is that of the list, it still is after any step   *)
(* of the API thread: a session that opens, locks, unlocks, leaves or is     *)
(* dropped with others.                                                      *)
THEOREM ApiThreadTellsTheTruth == Spec => ApiThreadTellsStatus
<1>1. IInv /\ [Next]_vars => [Told = StatusOf(lockSessionKeys) /\ ~MainThread
                               => Told' = StatusOf(lockSessionKeys')]_vars
  <2>1. StatusOf(lockSessionKeys') = StatusOf(lockSessionKeys)'
    BY DEF StatusOf
  <2>2. QED
    BY <2>1, AgreesNext DEF Agrees
<1>2. QED
  BY <1>1, Invariance, PTL DEF Spec, ApiThreadTellsStatus
=============================================================================
