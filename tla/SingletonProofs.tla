-------------------------- MODULE SingletonProofs --------------------------
(***************************************************************************)
(* Singleton, ThreadLocal and ThreadLocalSingleton for any threads and     *)
(* programs: every thread uses live objects of its own, and the keys'      *)
(* destructors delete each of them once, when its thread ends.             *)
(***************************************************************************)
EXTENDS Singleton, SequenceTheorems, FiniteSetTheorems, TLAPS

StlKey == 2
KeyOf(kind) == IF kind = "stl" THEN StlKey ELSE TlsKey

Steps == {"run", "init", "ending", "ended", "returned"}
Things == [kind : Kinds, thread : Threads, deleted : Nat]
Uses == [thread : Threads, kind : Kinds \cup {"none"}, object : Nat]
Slots == [Threads -> [1 .. MaxKeys -> Nat]]

ObjectsType == [heap : Seq(Things), slot : Slots, tValue : [Threads -> Nat],
                failed : BOOLEAN, use : Uses]

----------------------------------------------------------------------------
(* The objects: those that are not deleted are exactly the ones a slot     *)
(* holds, but for those a destructor has just been called for.             *)

Held(o, t, kind) == o.slot[t][KeyOf(kind)]

Holds(o, pending) ==
    /\ pending \subseteq 1 .. Len(o.heap)
    /\ \A t \in Threads, kind \in Kinds :
           Held(o, t, kind) # 0 => /\ Held(o, t, kind) \in (1 .. Len(o.heap)) \ pending
                                   /\ o.heap[Held(o, t, kind)].thread = t
                                   /\ o.heap[Held(o, t, kind)].kind = kind
    /\ \A i \in 1 .. Len(o.heap) :
           /\ o.heap[i].deleted \in {0, 1}
           /\ o.heap[i].deleted = 0
                  <=> i \in pending \/ i = Held(o, o.heap[i].thread, o.heap[i].kind)

\* Nothing happens to the objects there were, and the others are new.
Grows(o, r) ==
    /\ Len(o.heap) <= Len(r.heap)
    /\ \A i \in 1 .. Len(r.heap) : IF i <= Len(o.heap) THEN r.heap[i] = o.heap[i]
                                                       ELSE r.heap[i].deleted = 0

\* Only the slot of t for key k may differ.
Apart(o, r, t, k) ==
    \A u \in Threads, j \in 1 .. MaxKeys : u # t \/ j # k => r.slot[u][j] = o.slot[u][j]

LEMMA KeyRange == /\ MaxKeys \in Nat /\ StlKey \in 1 .. MaxKeys /\ TlsKey \in 1 .. MaxKeys
                  /\ TlsKey # StlKey
<1>1. Cardinality(Threads) \in Nat /\ Cardinality(Threads) # 0
  BY ProgramAssumption, FS_CardinalityType, FS_EmptySet
<1> QED
  BY <1>1 DEF MaxKeys, StlKey, TlsKey

\* The value that t has for key k is set.
SetSlot(s, t, k, v) == [s EXCEPT ![t][k] = v]

SlotIs(w, s, t, k, v) ==
    /\ w \in Slots /\ w[t][k] = v
    /\ \A u \in Threads, j \in 1 .. MaxKeys : u # t \/ j # k => w[u][j] = s[u][j]

LEMMA SlotPut ==
    ASSUME NEW s \in Slots, NEW t \in Threads, NEW k \in 1 .. MaxKeys, NEW v \in Nat
    PROVE  SlotIs(SetSlot(s, t, k, v), s, t, k, v)
<1>1. PICK row \in [1 .. MaxKeys -> Nat] : row = s[t]
  BY DEF Slots
<1>2. PICK put \in [1 .. MaxKeys -> Nat] : put = [row EXCEPT ![k] = v]
  OBVIOUS
<1>3. put[k] = v /\ \A j \in 1 .. MaxKeys : j # k => put[j] = row[j]
  BY <1>2
<1>4. PICK w : w = SetSlot(s, t, k, v)
  OBVIOUS
<1>5. w = [s EXCEPT ![t] = put]
  BY <1>1, <1>2, <1>4 DEF SetSlot
<1>6. w \in Slots /\ w[t] = put /\ \A u \in Threads : u # t => w[u] = s[u]
  BY <1>5 DEF Slots
<1>7. ASSUME NEW u \in Threads, NEW j \in 1 .. MaxKeys, u # t \/ j # k
      PROVE  w[u][j] = s[u][j]
  <2>1. CASE u = t
    BY <1>1, <1>3, <1>6, <1>7, <2>1
  <2>2. CASE u # t
    BY <1>6, <2>2
  <2> QED
    BY <2>1, <2>2
<1>8. w[t][k] = v
  BY <1>3, <1>6
<1> QED
  BY <1>4, <1>6, <1>7, <1>8 DEF SlotIs

\* Whatever holds of the objects says nothing of t_value_, failures and uses.
LEMMA SameHolds ==
    ASSUME NEW o, NEW r, r.heap = o.heap, r.slot = o.slot
    PROVE  /\ \A u, c : Held(r, u, c) = Held(o, u, c)
           /\ \A pending : Holds(o, pending) => Holds(r, pending)
           /\ \A q : Grows(q, o) => Grows(q, r)
           /\ \A q, t, k : Apart(q, o, t, k) => Apart(q, r, t, k)
<1> DEFINE HeldIn(slots, t, kind) == slots[t][KeyOf(kind)]
           HoldsIn(things, slots, pending) ==
               /\ pending \subseteq 1 .. Len(things)
               /\ \A t \in Threads, kind \in Kinds : HeldIn(slots, t, kind) # 0 =>
                      /\ HeldIn(slots, t, kind) \in (1 .. Len(things)) \ pending
                      /\ things[HeldIn(slots, t, kind)].thread = t
                      /\ things[HeldIn(slots, t, kind)].kind = kind
               /\ \A i \in 1 .. Len(things) :
                      /\ things[i].deleted \in {0, 1}
                      /\ things[i].deleted = 0
                             <=> i \in pending \/ i = HeldIn(slots, things[i].thread, things[i].kind)
           GrowsIn(q, things) ==
               /\ Len(q.heap) <= Len(things)
               /\ \A i \in 1 .. Len(things) : IF i <= Len(q.heap) THEN things[i] = q.heap[i]
                                                                  ELSE things[i].deleted = 0
           ApartIn(q, slots, t, k) ==
               \A u \in Threads, j \in 1 .. MaxKeys : u # t \/ j # k => slots[u][j] = q.slot[u][j]
<1>1. \A x, u, c : Held(x, u, c) = HeldIn(x.slot, u, c)
  BY DEF Held
<1>2. \A x, pending : Holds(x, pending) = HoldsIn(x.heap, x.slot, pending)
  BY DEF Holds, Held
<1>3. \A x, q : Grows(q, x) = GrowsIn(q, x.heap)
  BY DEF Grows
<1>4. \A x, q, t, k : Apart(q, x, t, k) = ApartIn(q, x.slot, t, k)
  BY DEF Apart
<1> HIDE DEF HeldIn, HoldsIn, GrowsIn, ApartIn
<1>5. \A u, c : Held(r, u, c) = Held(o, u, c)
  BY <1>1
<1>6. \A pending : Holds(o, pending) => Holds(r, pending)
  BY <1>2
<1>7. \A q : Grows(q, o) => Grows(q, r)
  BY <1>3
<1>8. \A q, t, k : Apart(q, o, t, k) => Apart(q, r, t, k)
  BY <1>4
<1> QED
  BY <1>5, <1>6, <1>7, <1>8

\* A new object in an empty slot.
LEMMA Making ==
    ASSUME NEW o \in ObjectsType, NEW r \in ObjectsType, NEW pending, Holds(o, pending),
           NEW t \in Threads, NEW kind \in Kinds, Held(o, t, kind) = 0,
           r.heap = Append(o.heap, [kind |-> kind, thread |-> t, deleted |-> 0]),
           r.slot = [o.slot EXCEPT ![t][KeyOf(kind)] = Len(o.heap) + 1]
    PROVE  /\ Holds(r, pending) /\ Grows(o, r) /\ Apart(o, r, t, KeyOf(kind))
           /\ Held(r, t, kind) = Len(o.heap) + 1
<1> DEFINE new == [kind |-> kind, thread |-> t, deleted |-> 0]
           n == Len(o.heap)
<1>1. /\ o.heap \in Seq(Things) /\ o.slot \in Slots /\ n \in Nat /\ new \in Things
      /\ KeyOf(kind) \in 1 .. MaxKeys
  BY KeyRange, LenProperties DEF ObjectsType, Things, KeyOf
<1>2. /\ Len(r.heap) = n + 1 /\ r.heap[n + 1] = new
      /\ \A i \in 1 .. n : r.heap[i] = o.heap[i]
  BY <1>1, AppendProperties
<1>3. /\ r.slot[t][KeyOf(kind)] = n + 1
      /\ Apart(o, r, t, KeyOf(kind))
  <2>1. PICK k \in 1 .. MaxKeys : k = KeyOf(kind)
    BY <1>1
  <2>2. PICK v \in Nat : v = n + 1
    BY <1>1
  <2>3. r.slot = SetSlot(o.slot, t, k, v)
    BY <2>1, <2>2 DEF SetSlot
  <2>4. /\ r.slot[t][k] = v
        /\ \A u \in Threads, j \in 1 .. MaxKeys : u # t \/ j # k => r.slot[u][j] = o.slot[u][j]
    <3>1. PICK s \in Slots : s = o.slot
      BY <1>1
    <3>2. SlotIs(SetSlot(s, t, k, v), s, t, k, v)
      BY SlotPut
    <3>3. SlotIs(r.slot, o.slot, t, k, v)
      BY <2>3, <3>1, <3>2
    <3> QED
      BY <3>3 DEF SlotIs
  <2>5. Apart(o, r, t, k)
    BY <2>4 DEF Apart
  <2> QED
    BY <2>1, <2>2, <2>4, <2>5
<1>4. /\ Held(r, t, kind) = n + 1
      /\ \A u \in Threads, c \in Kinds : u # t \/ c # kind => Held(r, u, c) = Held(o, u, c)
  BY <1>3, KeyRange DEF Held, KeyOf, Kinds, Apart
<1> HIDE DEF new, n
<1>5. Grows(o, r)
  <2>1. \A i \in 1 .. n + 1 : i <= n \/ i = n + 1
    BY <1>1
  <2>2. r.heap[n + 1].deleted = 0
    BY <1>2 DEF new
  <2>3. n = Len(o.heap)
    BY DEF n
  <2> QED
    BY <1>1, <1>2, <2>1, <2>2, <2>3 DEF Grows
<1>6. \A i \in 1 .. n : o.heap[i] \in Things
  BY <1>1, ElementOfSeq DEF n
<1>7. Holds(r, pending)
  <2>1. pending \subseteq 1 .. n /\ pending \subseteq 1 .. n + 1 /\ n + 1 \notin pending
    BY <1>1 DEF Holds, n
  <2>2. ASSUME NEW u \in Threads, NEW c \in Kinds, Held(r, u, c) # 0
        PROVE  /\ Held(r, u, c) \in (1 .. n + 1) \ pending
               /\ r.heap[Held(r, u, c)].thread = u
               /\ r.heap[Held(r, u, c)].kind = c
    <3>1. CASE u = t /\ c = kind
      BY <1>1, <1>2, <1>4, <2>1, <3>1 DEF new
    <3>2. CASE u # t \/ c # kind
      <4>1. Held(r, u, c) = Held(o, u, c) /\ Held(o, u, c) # 0
        BY <1>4, <2>2, <3>2
      <4>2. /\ Held(o, u, c) \in (1 .. n) \ pending
            /\ o.heap[Held(o, u, c)].thread = u /\ o.heap[Held(o, u, c)].kind = c
        BY <4>1 DEF Holds, n
      <4> QED
        BY <1>1, <1>2, <4>1, <4>2
    <3> QED
      BY <3>1, <3>2
  <2>3. ASSUME NEW i \in 1 .. n + 1
        PROVE  /\ r.heap[i].deleted \in {0, 1}
               /\ r.heap[i].deleted = 0
                      <=> i \in pending \/ i = Held(r, r.heap[i].thread, r.heap[i].kind)
    <3>1. CASE i = n + 1
      BY <1>2, <1>4, <3>1 DEF new
    <3>2. CASE i # n + 1
      <4>1. i \in 1 .. n /\ r.heap[i] = o.heap[i] /\ o.heap[i] \in Things
        BY <1>1, <1>2, <1>6, <3>2
      <4>2. PICK u \in Threads, c \in Kinds : u = o.heap[i].thread /\ c = o.heap[i].kind
        BY <4>1 DEF Things
      <4>3. /\ o.heap[i].deleted \in {0, 1}
            /\ o.heap[i].deleted = 0 <=> i \in pending \/ i = Held(o, u, c)
        BY <4>1, <4>2 DEF Holds, n
      <4>4. i = Held(o, u, c) <=> i = Held(r, u, c)
        <5>1. CASE u = t /\ c = kind
          BY <1>1, <1>4, <3>2, <4>1, <5>1
        <5>2. CASE u # t \/ c # kind
          BY <1>4, <5>2
        <5> QED
          BY <5>1, <5>2
      <4> QED
        BY <4>1, <4>2, <4>3, <4>4
    <3> QED
      BY <3>1, <3>2
  <2> QED
    BY <1>2, <2>1, <2>2, <2>3 DEF Holds
<1> QED
  BY <1>3, <1>4, <1>5, <1>7 DEF n

LEMMA GrowsSelf == \A o \in ObjectsType : \A t, k : Grows(o, o) /\ Apart(o, o, t, k)
<1> SUFFICES ASSUME NEW o \in ObjectsType PROVE Grows(o, o)
  BY DEF Apart
<1>1. Len(o.heap) \in Nat
  BY LenProperties DEF ObjectsType
<1> QED
  BY <1>1 DEF Grows

\* ThreadLocal::value() of the singleton hands out what the slot holds.
LEMMA ValueKeeps ==
    ASSUME NEW o \in ObjectsType, NEW pending, Holds(o, pending), NEW t \in Threads,
           NEW r, r = Value(o, t, StlKey)
    PROVE  /\ r \in ObjectsType /\ Holds(r, pending) /\ Grows(o, r) /\ Apart(o, r, t, StlKey)
           /\ r.tValue = o.tValue /\ r.failed = o.failed
           /\ r.use = [thread |-> t, kind |-> "stl", object |-> Held(r, t, "stl")]
           /\ Held(r, t, "stl") # 0
<1> DEFINE made == IF o.slot[t][StlKey] = 0
                   THEN [New(o, t, "stl") EXCEPT !.slot[t][StlKey] = Len(o.heap) + 1]
                   ELSE o
<1>1. r = Used(made, t, "stl", made.slot[t][StlKey])
  BY DEF Value
<1>2. /\ KeyOf("stl") = StlKey /\ "stl" \in Kinds /\ StlKey \in 1 .. MaxKeys
      /\ o.heap \in Seq(Things) /\ Len(o.heap) \in Nat /\ o.slot \in Slots
  BY KeyRange, LenProperties DEF KeyOf, Kinds, ObjectsType
<1>3. /\ made \in ObjectsType /\ Holds(made, pending) /\ Grows(o, made)
      /\ Apart(o, made, t, StlKey) /\ made.tValue = o.tValue /\ made.failed = o.failed
      /\ Held(made, t, "stl") # 0
  <2>1. CASE o.slot[t][StlKey] = 0
    <3>1. /\ made.heap = Append(o.heap, [kind |-> "stl", thread |-> t, deleted |-> 0])
          /\ made.slot = [o.slot EXCEPT ![t][StlKey] = Len(o.heap) + 1]
          /\ made.tValue = o.tValue /\ made.failed = o.failed
      BY <2>1 DEF New, ObjectsType
    <3>2. made \in ObjectsType
      <4>1. /\ Append(o.heap, [kind |-> "stl", thread |-> t, deleted |-> 0]) \in Seq(Things)
            /\ [o.slot EXCEPT ![t][StlKey] = Len(o.heap) + 1] \in Slots
        BY <1>2, AppendProperties DEF Things, Slots
      <4> QED
        BY <2>1, <4>1 DEF New, ObjectsType
    <3>3. Held(o, t, "stl") = 0
      BY <1>2, <2>1 DEF Held
    <3> HIDE DEF made
    <3> QED
      BY <1>2, <3>1, <3>2, <3>3, Making
  <2>2. CASE o.slot[t][StlKey] # 0
    BY <1>2, <2>2, GrowsSelf DEF Held
  <2> QED
    BY <2>1, <2>2
<1> HIDE DEF made
<1>4. made.slot[t][StlKey] \in Nat /\ made.slot[t][StlKey] = Held(made, t, "stl")
  BY <1>2, <1>3 DEF ObjectsType, Slots, Held
<1>5. /\ r \in ObjectsType /\ r.heap = made.heap /\ r.slot = made.slot
      /\ r.tValue = made.tValue /\ r.failed = made.failed
      /\ r.use = [thread |-> t, kind |-> "stl", object |-> made.slot[t][StlKey]]
  <2>1. PICK w \in Uses : w = [thread |-> t, kind |-> "stl", object |-> made.slot[t][StlKey]]
    BY <1>4 DEF Uses, Kinds
  <2>2. r = [made EXCEPT !.use = w]
    BY <1>1, <2>1 DEF Used
  <2> QED
    BY <1>3, <2>1, <2>2 DEF ObjectsType
<1>6. Holds(r, pending) /\ Grows(o, r) /\ Apart(o, r, t, StlKey) /\ Held(r, t, "stl") = Held(made, t, "stl")
  BY <1>3, <1>5, SameHolds
<1> QED
  BY <1>3, <1>4, <1>5, <1>6

\* ThreadLocalSingleton::instance(), where the key agrees with t_value_: the
\* assertion of Deleter::set() holds.
LEMMA InstanceKeeps ==
    ASSUME NEW o \in ObjectsType, NEW pending, Holds(o, pending), NEW t \in Threads,
           o.tValue[t] = o.slot[t][TlsKey], NEW r, r = Instance(o, t)
    PROVE  /\ r \in ObjectsType /\ Holds(r, pending) /\ Grows(o, r) /\ Apart(o, r, t, TlsKey)
           /\ r.failed = o.failed
           /\ r.tValue[t] = r.slot[t][TlsKey]
           /\ \A u \in Threads \ {t} : r.tValue[u] = o.tValue[u]
           /\ r.use = [thread |-> t, kind |-> "tls", object |-> Held(r, t, "tls")]
           /\ Held(r, t, "tls") # 0
<1> DEFINE n == Len(o.heap) + 1
           new == [New(o, t, "tls") EXCEPT !.tValue[t] = n]
           made == IF o.tValue[t] = 0 THEN DeleterSet(new, t, n) ELSE o
<1>1. r = Used(made, t, "tls", made.tValue[t])
  BY DEF Instance
<1>2. /\ KeyOf("tls") = TlsKey /\ "tls" \in Kinds /\ TlsKey \in 1 .. MaxKeys
      /\ o.heap \in Seq(Things) /\ n \in Nat /\ o.slot \in Slots
      /\ o.tValue \in [Threads -> Nat] /\ o.failed \in BOOLEAN
  BY KeyRange, LenProperties DEF KeyOf, Kinds, ObjectsType
<1>3. /\ made \in ObjectsType /\ Holds(made, pending) /\ Grows(o, made)
      /\ Apart(o, made, t, TlsKey) /\ made.failed = o.failed
      /\ made.tValue[t] = made.slot[t][TlsKey]
      /\ \A u \in Threads \ {t} : made.tValue[u] = o.tValue[u]
      /\ Held(made, t, "tls") # 0
  <2>1. CASE o.tValue[t] = 0
    <3>1. PICK h \in Seq(Things) :
              h = Append(o.heap, [kind |-> "tls", thread |-> t, deleted |-> 0])
      BY <1>2, AppendProperties DEF Things
    <3>2. PICK v \in [Threads -> Nat] : v = [o.tValue EXCEPT ![t] = n]
      BY <1>2
    <3>3. PICK w \in Slots : w = [o.slot EXCEPT ![t][TlsKey] = n]
      BY <1>2 DEF Slots
    <3>4. New(o, t, "tls") = [o EXCEPT !.heap = h]
      BY <3>1 DEF New
    <3>5. new = [o EXCEPT !.heap = h, !.tValue = v]
      BY <3>2, <3>4 DEF ObjectsType
    <3>6. new.slot = o.slot /\ new.failed = o.failed
      BY <3>5 DEF ObjectsType
    <3>7. made = [o EXCEPT !.heap = h, !.tValue = v, !.slot = w]
      <4>1. (o.failed \/ o.slot[t][TlsKey] # 0) = o.failed
        BY <1>2, <2>1
      <4>2. made = [new EXCEPT !.failed = o.failed, !.slot = w]
        BY <2>1, <3>3, <3>6, <4>1 DEF DeleterSet
      <4> QED
        BY <3>5, <4>2 DEF ObjectsType
    <3>8. /\ made \in ObjectsType /\ made.heap = h /\ made.slot = w /\ made.tValue = v
          /\ made.failed = o.failed
      BY <3>7 DEF ObjectsType
    <3>9. Held(o, t, "tls") = 0
      BY <1>2, <2>1 DEF Held
    <3> HIDE DEF made, new
    <3>10. /\ Holds(made, pending) /\ Grows(o, made) /\ Apart(o, made, t, TlsKey)
           /\ Held(made, t, "tls") = n
      <4>1. /\ made.heap = Append(o.heap, [kind |-> "tls", thread |-> t, deleted |-> 0])
            /\ made.slot = [o.slot EXCEPT ![t][KeyOf("tls")] = Len(o.heap) + 1]
        BY <1>2, <3>1, <3>3, <3>8
      <4>2. made \in ObjectsType /\ "tls" \in Kinds
        BY <1>2, <3>8
      <4> HIDE DEF n
      <4>3. /\ Holds(made, pending) /\ Grows(o, made) /\ Apart(o, made, t, KeyOf("tls"))
            /\ Held(made, t, "tls") = Len(o.heap) + 1
        BY <3>9, <4>1, <4>2, Making
      <4> QED
        BY <1>2, <4>3 DEF n
    <3>11. made.slot[t][TlsKey] = n
      BY <1>2, <3>10 DEF Held
    <3>12. made.tValue[t] = n /\ \A u \in Threads \ {t} : made.tValue[u] = o.tValue[u]
      BY <1>2, <3>2, <3>8
    <3> QED
      BY <1>2, <3>8, <3>10, <3>11, <3>12
  <2>2. CASE o.tValue[t] # 0
    BY <1>2, <2>2, GrowsSelf DEF Held
  <2> QED
    BY <2>1, <2>2
<1> HIDE DEF made
<1>4. made.tValue[t] \in Nat /\ made.tValue[t] = Held(made, t, "tls")
  BY <1>2, <1>3 DEF ObjectsType, Held
<1>5. /\ r \in ObjectsType /\ r.heap = made.heap /\ r.slot = made.slot
      /\ r.tValue = made.tValue /\ r.failed = made.failed
      /\ r.use = [thread |-> t, kind |-> "tls", object |-> made.tValue[t]]
  <2>1. PICK w \in Uses : w = [thread |-> t, kind |-> "tls", object |-> made.tValue[t]]
    BY <1>4 DEF Uses, Kinds
  <2>2. r = [made EXCEPT !.use = w]
    BY <1>1, <2>1 DEF Used
  <2> QED
    BY <1>3, <2>1, <2>2 DEF ObjectsType
<1>6. Holds(r, pending) /\ Grows(o, r) /\ Apart(o, r, t, TlsKey) /\ Held(r, t, "tls") = Held(made, t, "tls")
  BY <1>3, <1>5, SameHolds
<1> QED
  BY <1>3, <1>4, <1>5, <1>6

\* A destructor is called with the object whose slot has just been emptied.
EmptiedIn(o, r, t, kind) ==
    /\ r \in ObjectsType /\ Holds(r, {Held(o, t, kind)}) /\ Apart(o, r, t, KeyOf(kind))
    /\ r.slot[t][KeyOf(kind)] = 0
    /\ r.heap = o.heap /\ r.tValue = o.tValue /\ r.failed = o.failed /\ r.use = o.use
    /\ Held(o, t, kind) \in 1 .. Len(o.heap)
    /\ o.heap[Held(o, t, kind)].thread = t

LEMMA EmptiedKeeps ==
    ASSUME NEW o \in ObjectsType, Holds(o, {}), NEW t \in Threads, NEW kind \in Kinds,
           Held(o, t, kind) # 0, NEW r, r = Emptied(o, t, KeyOf(kind))
    PROVE  EmptiedIn(o, r, t, kind)
<1>1. PICK k \in 1 .. MaxKeys : k = KeyOf(kind)
  BY KeyRange DEF KeyOf
<1>2. o.slot \in Slots /\ o.heap \in Seq(Things)
  BY DEF ObjectsType
<1>3. PICK w \in Slots : w = [o.slot EXCEPT ![t][k] = 0]
  BY <1>1, <1>2 DEF Slots
<1>4. r = [o EXCEPT !.slot = w]
  BY <1>1, <1>3 DEF Emptied
<1>5. /\ r \in ObjectsType /\ r.slot = w
      /\ r.heap = o.heap /\ r.tValue = o.tValue /\ r.failed = o.failed /\ r.use = o.use
  BY <1>4 DEF ObjectsType
<1>6. r.slot[t][k] = 0 /\ Apart(o, r, t, k)
  <2>1. /\ w[t][k] = 0
        /\ \A u \in Threads, j \in 1 .. MaxKeys : u # t \/ j # k => w[u][j] = o.slot[u][j]
    <3>1. SlotIs(SetSlot(o.slot, t, k, 0), o.slot, t, k, 0)
      BY <1>2, SlotPut
    <3> QED
      BY <1>3, <3>1 DEF SlotIs, SetSlot
  <2> QED
    BY <1>5, <2>1 DEF Apart
<1>7. PICK i : i = Held(o, t, kind)
  OBVIOUS
<1>8. i \in 1 .. Len(o.heap) /\ o.heap[i].thread = t /\ o.heap[i].kind = kind
  BY <1>7 DEF Holds
<1>9. /\ Held(r, t, kind) = 0
      /\ \A u \in Threads, c \in Kinds : u # t \/ c # kind => Held(r, u, c) = Held(o, u, c)
  BY <1>1, <1>6, KeyRange DEF Held, KeyOf, Kinds, Apart
<1>10. \A j \in 1 .. Len(o.heap) : o.heap[j].thread \in Threads /\ o.heap[j].kind \in Kinds
  <2> TAKE j \in 1 .. Len(o.heap)
  <2>1. o.heap[j] \in Things
    BY <1>2, ElementOfSeq
  <2> QED
    BY <2>1 DEF Things
<1>11. Holds(r, {i})
  <2>1. ASSUME NEW u \in Threads, NEW c \in Kinds, Held(r, u, c) # 0
        PROVE  /\ Held(r, u, c) \in (1 .. Len(r.heap)) \ {i}
               /\ r.heap[Held(r, u, c)].thread = u
               /\ r.heap[Held(r, u, c)].kind = c
    <3>1. (u # t \/ c # kind) /\ Held(r, u, c) = Held(o, u, c) /\ Held(o, u, c) # 0
      BY <1>9, <2>1
    <3>2. /\ Held(o, u, c) \in 1 .. Len(o.heap)
          /\ o.heap[Held(o, u, c)].thread = u /\ o.heap[Held(o, u, c)].kind = c
      BY <3>1 DEF Holds
    <3> QED
      BY <1>5, <1>8, <3>1, <3>2
  <2>2. ASSUME NEW j \in 1 .. Len(r.heap)
        PROVE  /\ r.heap[j].deleted \in {0, 1}
               /\ r.heap[j].deleted = 0
                      <=> j \in {i} \/ j = Held(r, r.heap[j].thread, r.heap[j].kind)
    <3>1. PICK u \in Threads, c \in Kinds : u = o.heap[j].thread /\ c = o.heap[j].kind
      BY <1>5, <1>10, <2>2
    <3>2. /\ o.heap[j].deleted \in {0, 1}
          /\ o.heap[j].deleted = 0 <=> j = Held(o, u, c)
      BY <1>5, <2>2, <3>1 DEF Holds
    <3>3. CASE u = t /\ c = kind
      <4>1. j # 0
        BY <1>2, <1>5, <2>2, LenProperties
      <4> QED
        BY <1>5, <1>7, <1>9, <3>1, <3>2, <3>3, <4>1
    <3>4. CASE u # t \/ c # kind
      BY <1>5, <1>8, <1>9, <3>1, <3>2, <3>4
    <3> QED
      BY <3>3, <3>4
  <2> QED
    BY <1>5, <1>8, <2>1, <2>2 DEF Holds
<1> QED
  BY <1>1, <1>5, <1>6, <1>7, <1>8, <1>11 DEF EmptiedIn

\* delete.
DeletedIn(o, r, i) ==
    /\ r \in ObjectsType /\ Holds(r, {})
    /\ r.slot = o.slot /\ r.tValue = o.tValue /\ r.failed = o.failed /\ r.use = o.use
    /\ Len(r.heap) = Len(o.heap)
    /\ \A j \in 1 .. Len(o.heap) : j # i => r.heap[j] = o.heap[j]
    /\ r.heap[i].thread = o.heap[i].thread

LEMMA DeleteKeeps ==
    ASSUME NEW o \in ObjectsType, NEW i \in 1 .. Len(o.heap), Holds(o, {i}),
           NEW r, r = Delete(o, i)
    PROVE  DeletedIn(o, r, i)
<1>1. o.heap \in Seq(Things) /\ Len(o.heap) \in Nat
  BY LenProperties DEF ObjectsType
<1>2. \A j \in 1 .. Len(o.heap) : o.heap[j] \in Things
  BY <1>1, ElementOfSeq
<1>3. o.heap[i].deleted = 0
  BY DEF Holds
<1>4. PICK gone \in Things : gone = [o.heap[i] EXCEPT !.deleted = 1]
  BY <1>2 DEF Things
<1>5. PICK h : h = [o.heap EXCEPT ![i] = gone]
  OBVIOUS
<1>6. /\ h \in Seq(Things) /\ Len(h) = Len(o.heap) /\ h[i] = gone
      /\ \A j \in 1 .. Len(o.heap) : j # i => h[j] = o.heap[j]
  BY <1>1, <1>5, ExceptSeq
<1>7. r = [o EXCEPT !.heap = h]
  <2>1. [o.heap[i] EXCEPT !.deleted = @ + 1] = gone
    BY <1>3, <1>4
  <2> QED
    BY <1>5, <2>1 DEF Delete
<1>8. /\ r \in ObjectsType /\ r.heap = h
      /\ r.slot = o.slot /\ r.tValue = o.tValue /\ r.failed = o.failed /\ r.use = o.use
  BY <1>6, <1>7 DEF ObjectsType
<1>9. /\ gone.deleted = 1 /\ gone.thread = o.heap[i].thread /\ gone.kind = o.heap[i].kind
      /\ gone.thread \in Threads /\ gone.kind \in Kinds
  BY <1>2, <1>4 DEF Things
<1>10. \A u, c : Held(r, u, c) = Held(o, u, c)
  BY <1>8 DEF Held
<1>11. Holds(r, {})
  <2>1. ASSUME NEW u \in Threads, NEW c \in Kinds, Held(r, u, c) # 0
        PROVE  /\ Held(r, u, c) \in 1 .. Len(r.heap)
               /\ r.heap[Held(r, u, c)].thread = u
               /\ r.heap[Held(r, u, c)].kind = c
    <3>1. /\ Held(o, u, c) \in (1 .. Len(o.heap)) \ {i}
          /\ o.heap[Held(o, u, c)].thread = u /\ o.heap[Held(o, u, c)].kind = c
      BY <1>10, <2>1 DEF Holds
    <3> QED
      BY <1>6, <1>8, <1>10, <3>1
  <2>2. ASSUME NEW j \in 1 .. Len(r.heap)
        PROVE  /\ r.heap[j].deleted \in {0, 1}
               /\ r.heap[j].deleted = 0 <=> j = Held(r, r.heap[j].thread, r.heap[j].kind)
    <3>1. CASE j = i
      <4>1. i # 0
        BY <1>1
      <4>2. i # Held(o, gone.thread, gone.kind)
        BY <1>9, <4>1 DEF Holds
      <4> QED
        BY <1>6, <1>8, <1>9, <1>10, <3>1, <4>2
    <3>2. CASE j # i
      <4>1. j \in 1 .. Len(o.heap) /\ r.heap[j] = o.heap[j]
        BY <1>6, <1>8, <2>2, <3>2
      <4>2. /\ o.heap[j].deleted \in {0, 1}
            /\ o.heap[j].deleted = 0 <=> j = Held(o, o.heap[j].thread, o.heap[j].kind)
        BY <3>2, <4>1 DEF Holds
      <4> QED
        BY <1>10, <4>1, <4>2
    <3> QED
      BY <3>1, <3>2
  <2> QED
    BY <1>6, <1>8, <2>1, <2>2 DEF Holds
<1> QED
  BY <1>6, <1>8, <1>9, <1>11 DEF DeletedIn

----------------------------------------------------------------------------
(* The two destructors of keys *)

Agree(o) == \A t \in Threads : o.tValue[t] = o.slot[t][TlsKey]

\* Only objects of t are deleted.
DeletesOf(o, r, t) ==
    \A i \in 1 .. Len(r.heap) :
        r.heap[i].deleted = 0 \/ r.heap[i].thread = t \/ (i <= Len(o.heap) /\ r.heap[i] = o.heap[i])

\* The use that was noted is of what t's slot now holds.
UseOf(r, t) == /\ r.use.thread = t /\ r.use.kind \in Kinds /\ r.use.object # 0
               /\ r.use.object = Held(r, t, r.use.kind)

After(o, r, t, kind) ==
    /\ r \in ObjectsType /\ Holds(r, {}) /\ Agree(r) /\ r.failed = o.failed
    /\ r.slot[t][KeyOf(kind)] = 0
    /\ \A u \in Threads \ {t}, j \in 1 .. MaxKeys : r.slot[u][j] = o.slot[u][j]
    /\ asking # {kind} \/ o.slot[t][KeyOf(kind)] = 0 =>
           \A j \in (1 .. MaxKeys) \ {KeyOf(kind)} : r.slot[t][j] = o.slot[t][j]
    /\ value_ = 0 => r.slot[t][StlKey] \in {0, o.slot[t][StlKey]}
    /\ DeletesOf(o, r, t)
    /\ r.use = o.use \/ UseOf(r, t)

LEMMA StlReap ==
    ASSUME NEW o \in ObjectsType, Holds(o, {}), Agree(o), NEW t \in Threads,
           NEW object, object = o.slot[t][StlKey], object # 0,
           NEW r, r = StlDestructor(Emptied(o, t, StlKey), t, object)
    PROVE  After(o, r, t, "stl")
<1>1. /\ KeyOf("stl") = StlKey /\ "stl" \in Kinds /\ StlKey \in 1 .. MaxKeys
      /\ TlsKey \in 1 .. MaxKeys /\ TlsKey # StlKey /\ KeyOf("tls") = TlsKey /\ "tls" \in Kinds
  BY KeyRange DEF KeyOf, Kinds
<1>2. Held(o, t, "stl") = object
  BY <1>1 DEF Held
<1>3. PICK e : e = Emptied(o, t, StlKey)
  OBVIOUS
<1>4. /\ e \in ObjectsType /\ Holds(e, {object}) /\ Apart(o, e, t, StlKey)
      /\ e.slot[t][StlKey] = 0
      /\ e.heap = o.heap /\ e.tValue = o.tValue /\ e.failed = o.failed /\ e.use = o.use
      /\ object \in 1 .. Len(o.heap) /\ o.heap[object].thread = t
  <2>1. PICK kind \in Kinds : kind = "stl"
    BY <1>1
  <2>2. Held(o, t, kind) = object /\ KeyOf(kind) = StlKey /\ e = Emptied(o, t, KeyOf(kind))
    BY <1>1, <1>2, <1>3, <2>1
  <2>3. EmptiedIn(o, e, t, kind)
    BY <2>2, EmptiedKeeps
  <2> QED
    BY <2>2, <2>3 DEF EmptiedIn
<1>5. PICK a : a = IF asking = {"stl"} THEN Instance(e, t) ELSE e
  OBVIOUS
<1>6. r = Delete(a, object)
  BY <1>3, <1>5 DEF StlDestructor
<1>7. e.tValue[t] = e.slot[t][TlsKey]
  BY <1>1, <1>4 DEF Agree, Apart
<1>8. /\ a \in ObjectsType /\ Holds(a, {object}) /\ Grows(e, a) /\ Apart(e, a, t, TlsKey)
      /\ a.failed = e.failed
      /\ a.tValue[t] = a.slot[t][TlsKey]
      /\ \A u \in Threads \ {t} : a.tValue[u] = e.tValue[u]
      /\ a.use = o.use \/ UseOf(a, t)
      /\ asking # {"stl"} => a = e
  <2>1. CASE asking = {"stl"}
    <3>1. a = Instance(e, t)
      BY <1>5, <2>1
    <3>2. /\ a \in ObjectsType /\ Holds(a, {object}) /\ Grows(e, a) /\ Apart(e, a, t, TlsKey)
          /\ a.failed = e.failed /\ a.tValue[t] = a.slot[t][TlsKey]
          /\ \A u \in Threads \ {t} : a.tValue[u] = e.tValue[u]
          /\ a.use = [thread |-> t, kind |-> "tls", object |-> Held(a, t, "tls")]
          /\ Held(a, t, "tls") # 0
      BY <1>4, <1>7, <3>1, InstanceKeeps
    <3>3. UseOf(a, t)
      BY <1>1, <3>2 DEF UseOf
    <3> QED
      BY <2>1, <3>2, <3>3
  <2>2. CASE asking # {"stl"}
    BY <1>4, <1>5, <1>7, <2>2, GrowsSelf
  <2> QED
    BY <2>1, <2>2
<1>9. Len(o.heap) \in Nat /\ Len(a.heap) \in Nat
  BY <1>8, LenProperties DEF ObjectsType
<1>10. object \in 1 .. Len(a.heap) /\ a.heap[object] = o.heap[object]
  BY <1>4, <1>8, <1>9 DEF Grows
<1>11. /\ r \in ObjectsType /\ Holds(r, {})
       /\ r.slot = a.slot /\ r.tValue = a.tValue /\ r.failed = a.failed /\ r.use = a.use
       /\ Len(r.heap) = Len(a.heap)
       /\ \A j \in 1 .. Len(a.heap) : j # object => r.heap[j] = a.heap[j]
       /\ r.heap[object].thread = t
  <2>1. PICK i \in 1 .. Len(a.heap) : i = object
    BY <1>10
  <2>2. Holds(a, {i}) /\ r = Delete(a, i)
    BY <1>6, <1>8, <2>1
  <2>3. DeletedIn(a, r, i)
    BY <1>8, <2>1, <2>2, DeleteKeeps
  <2>4. a.heap[object].thread = t
    BY <1>4, <1>10
  <2> QED
    BY <2>1, <2>3, <2>4 DEF DeletedIn
<1>12. Agree(r)
  <2>1. ASSUME NEW u \in Threads \ {t} PROVE r.tValue[u] = r.slot[u][TlsKey]
    <3>1. r.tValue[u] = o.tValue[u]
      BY <1>4, <1>8, <1>11
    <3>2. o.tValue[u] = o.slot[u][TlsKey]
      BY DEF Agree
    <3>3. e.slot[u][TlsKey] = o.slot[u][TlsKey]
      BY <1>1, <1>4 DEF Apart
    <3>4. a.slot[u][TlsKey] = e.slot[u][TlsKey]
      BY <1>1, <1>8 DEF Apart
    <3> QED
      BY <1>11, <3>1, <3>2, <3>3, <3>4
  <2> QED
    BY <1>8, <1>11, <2>1 DEF Agree
<1>13. /\ r.slot[t][StlKey] = 0
       /\ \A u \in Threads \ {t}, j \in 1 .. MaxKeys : r.slot[u][j] = o.slot[u][j]
       /\ asking # {"stl"} =>
              \A j \in (1 .. MaxKeys) \ {StlKey} : r.slot[t][j] = o.slot[t][j]
  <2>1. ASSUME NEW u \in Threads, NEW j \in 1 .. MaxKeys
        PROVE  /\ u # t \/ j # StlKey => e.slot[u][j] = o.slot[u][j]
               /\ u # t \/ j # TlsKey => a.slot[u][j] = e.slot[u][j]
    <3>1. u # t \/ j # StlKey => e.slot[u][j] = o.slot[u][j]
      BY <1>4 DEF Apart
    <3>2. u # t \/ j # TlsKey => a.slot[u][j] = e.slot[u][j]
      BY <1>8 DEF Apart
    <3> QED
      BY <3>1, <3>2
  <2>2. r.slot[t][StlKey] = 0
    BY <1>1, <1>4, <1>11, <2>1
  <2>3. \A u \in Threads \ {t}, j \in 1 .. MaxKeys : r.slot[u][j] = o.slot[u][j]
    BY <1>11, <2>1
  <2>4. asking # {"stl"} =>
            \A j \in (1 .. MaxKeys) \ {StlKey} : r.slot[t][j] = o.slot[t][j]
    BY <1>8, <1>11, <2>1
  <2> QED
    BY <2>2, <2>3, <2>4
<1>14. DeletesOf(o, r, t)
  <2> SUFFICES ASSUME NEW j \in 1 .. Len(r.heap), r.heap[j].deleted # 0, r.heap[j].thread # t
               PROVE  j <= Len(o.heap) /\ r.heap[j] = o.heap[j]
    BY DEF DeletesOf
  <2>1. j \in 1 .. Len(a.heap) /\ r.heap[j] = a.heap[j]
    BY <1>11
  <2>2. IF j <= Len(e.heap) THEN a.heap[j] = e.heap[j] ELSE a.heap[j].deleted = 0
    BY <1>8, <2>1 DEF Grows
  <2> QED
    BY <1>4, <2>1, <2>2
<1>15. r.use = o.use \/ UseOf(r, t)
  BY <1>8, <1>11 DEF UseOf, Held
<1> QED
  BY <1>1, <1>4, <1>8, <1>11, <1>12, <1>13, <1>14, <1>15 DEF After

LEMMA TlsReap ==
    ASSUME NEW o \in ObjectsType, Holds(o, {}), Agree(o), NEW t \in Threads,
           value_ \in {0, StlKey},
           NEW object, object = o.slot[t][TlsKey], object # 0,
           NEW r, r = TlsDestructor(Emptied(o, t, TlsKey), t, object)
    PROVE  After(o, r, t, "tls")
<1>1. /\ KeyOf("stl") = StlKey /\ "stl" \in Kinds /\ StlKey \in 1 .. MaxKeys
      /\ TlsKey \in 1 .. MaxKeys /\ TlsKey # StlKey /\ KeyOf("tls") = TlsKey /\ "tls" \in Kinds
  BY KeyRange DEF KeyOf, Kinds
<1>2. Held(o, t, "tls") = object
  BY <1>1 DEF Held
<1>3. PICK e : e = Emptied(o, t, TlsKey)
  OBVIOUS
<1>4. /\ e \in ObjectsType /\ Holds(e, {object}) /\ Apart(o, e, t, TlsKey)
      /\ e.slot[t][TlsKey] = 0
      /\ e.heap = o.heap /\ e.tValue = o.tValue /\ e.failed = o.failed /\ e.use = o.use
      /\ object \in 1 .. Len(o.heap) /\ o.heap[object].thread = t
  <2>1. PICK kind \in Kinds : kind = "tls"
    BY <1>1
  <2>2. Held(o, t, kind) = object /\ KeyOf(kind) = TlsKey /\ e = Emptied(o, t, KeyOf(kind))
    BY <1>1, <1>2, <1>3, <2>1
  <2>3. EmptiedIn(o, e, t, kind)
    BY <2>2, EmptiedKeeps
  <2> QED
    BY <2>2, <2>3 DEF EmptiedIn
<1>5. PICK a : a = IF asking = {"tls"} /\ value_ # 0 THEN Value(e, t, value_) ELSE e
  OBVIOUS
<1>6. e.tValue[t] = object
  BY <1>4 DEF Agree
<1>7. /\ a \in ObjectsType /\ Holds(a, {object}) /\ Grows(e, a) /\ Apart(e, a, t, StlKey)
      /\ a.failed = e.failed /\ a.tValue = e.tValue
      /\ a.use = o.use \/ UseOf(a, t)
      /\ asking # {"tls"} \/ value_ = 0 => a = e
  <2>1. CASE asking = {"tls"} /\ value_ # 0
    <3>1. a = Value(e, t, StlKey)
      BY <1>5, <2>1
    <3>2. /\ a \in ObjectsType /\ Holds(a, {object}) /\ Grows(e, a) /\ Apart(e, a, t, StlKey)
          /\ a.failed = e.failed /\ a.tValue = e.tValue
          /\ a.use = [thread |-> t, kind |-> "stl", object |-> Held(a, t, "stl")]
          /\ Held(a, t, "stl") # 0
      BY <1>4, <3>1, ValueKeeps
    <3>3. UseOf(a, t)
      BY <1>1, <3>2 DEF UseOf
    <3> QED
      BY <2>1, <3>2, <3>3
  <2>2. CASE ~(asking = {"tls"} /\ value_ # 0)
    BY <1>4, <1>5, <2>2, GrowsSelf
  <2> QED
    BY <2>1, <2>2
<1>8. [a EXCEPT !.failed = @ \/ object # e.tValue[t]] = a
  <2>1. a.failed \in BOOLEAN /\ (a.failed \/ object # e.tValue[t]) = a.failed
    BY <1>6, <1>7 DEF ObjectsType
  <2> QED
    BY <1>7, <2>1 DEF ObjectsType
<1>9. PICK d : d = Delete(a, object)
  OBVIOUS
<1>10. r = [d EXCEPT !.tValue[t] = 0]
  <2>1. r = [Delete([a EXCEPT !.failed = @ \/ object # e.tValue[t]], e.tValue[t])
                 EXCEPT !.tValue[t] = 0]
    BY <1>3, <1>5 DEF TlsDestructor
  <2> QED
    BY <1>6, <1>8, <1>9, <2>1
<1>11. Len(o.heap) \in Nat /\ Len(a.heap) \in Nat
  BY <1>7, LenProperties DEF ObjectsType
<1>12. object \in 1 .. Len(a.heap) /\ a.heap[object] = o.heap[object]
  BY <1>4, <1>7, <1>11 DEF Grows
<1>13. /\ d \in ObjectsType /\ Holds(d, {})
       /\ d.slot = a.slot /\ d.tValue = a.tValue /\ d.failed = a.failed /\ d.use = a.use
       /\ Len(d.heap) = Len(a.heap)
       /\ \A j \in 1 .. Len(a.heap) : j # object => d.heap[j] = a.heap[j]
       /\ d.heap[object].thread = t
  <2>1. PICK i \in 1 .. Len(a.heap) : i = object
    BY <1>12
  <2>2. Holds(a, {i}) /\ d = Delete(a, i)
    BY <1>7, <1>9, <2>1
  <2>3. DeletedIn(a, d, i)
    BY <1>7, <2>1, <2>2, DeleteKeeps
  <2>4. a.heap[object].thread = t
    BY <1>4, <1>12
  <2> QED
    BY <2>1, <2>3, <2>4 DEF DeletedIn
<1>14. PICK v \in [Threads -> Nat] : v = [d.tValue EXCEPT ![t] = 0]
  BY <1>13 DEF ObjectsType
<1>15. r = [d EXCEPT !.tValue = v]
  BY <1>10, <1>14
<1>16. /\ r \in ObjectsType /\ r.tValue = v
       /\ r.heap = d.heap /\ r.slot = d.slot /\ r.failed = d.failed /\ r.use = d.use
  <2>1. d \in [heap : Seq(Things), slot : Slots, tValue : [Threads -> Nat],
               failed : BOOLEAN, use : Uses]
    BY <1>13 DEF ObjectsType
  <2>2. PICK w \in [Threads -> Nat] : w = v
    BY <1>14
  <2>3. r = [d EXCEPT !.tValue = w]
    BY <1>15, <2>2
  <2>4. /\ r \in ObjectsType /\ r.tValue = w
        /\ r.heap = d.heap /\ r.slot = d.slot /\ r.failed = d.failed /\ r.use = d.use
    BY <2>1, <2>3 DEF ObjectsType
  <2> QED
    BY <2>2, <2>4
<1>17. Holds(r, {})
  BY <1>13, <1>16, SameHolds
<1>18. v[t] = 0 /\ \A u \in Threads \ {t} : v[u] = d.tValue[u]
  BY <1>13, <1>14 DEF ObjectsType
<1>19. r.slot[t][TlsKey] = 0
  BY <1>1, <1>4, <1>7, <1>13, <1>16 DEF Apart
<1>20. \A u \in Threads \ {t}, j \in 1 .. MaxKeys : r.slot[u][j] = o.slot[u][j]
  BY <1>4, <1>7, <1>13, <1>16 DEF Apart
<1>21. Agree(r)
  <2>1. \A u \in Threads \ {t} : r.tValue[u] = r.slot[u][TlsKey]
    BY <1>1, <1>4, <1>7, <1>13, <1>16, <1>18, <1>20 DEF Agree
  <2> QED
    BY <1>16, <1>18, <1>19, <2>1 DEF Agree
<1>22. /\ asking # {"tls"} =>
              \A j \in (1 .. MaxKeys) \ {TlsKey} : r.slot[t][j] = o.slot[t][j]
       /\ value_ = 0 => r.slot[t][StlKey] = o.slot[t][StlKey]
  BY <1>1, <1>4, <1>7, <1>13, <1>16 DEF Apart
<1>23. DeletesOf(o, r, t)
  <2> SUFFICES ASSUME NEW j \in 1 .. Len(r.heap), r.heap[j].deleted # 0, r.heap[j].thread # t
               PROVE  j <= Len(o.heap) /\ r.heap[j] = o.heap[j]
    BY DEF DeletesOf
  <2>1. j \in 1 .. Len(a.heap) /\ r.heap[j] = a.heap[j]
    BY <1>13, <1>16
  <2>2. IF j <= Len(e.heap) THEN a.heap[j] = e.heap[j] ELSE a.heap[j].deleted = 0
    BY <1>7, <2>1 DEF Grows
  <2> QED
    BY <1>4, <2>1, <2>2
<1>24. r.use = o.use \/ UseOf(r, t)
  BY <1>7, <1>13, <1>16 DEF UseOf, Held
<1>25. r.failed = o.failed
  BY <1>4, <1>7, <1>13, <1>16
<1> QED
  BY <1>1, <1>16, <1>17, <1>19, <1>20, <1>21, <1>22, <1>23, <1>24, <1>25 DEF After

\* A key without an object is passed over.
LEMMA NoReap ==
    ASSUME NEW o \in ObjectsType, Holds(o, {}), Agree(o), NEW t \in Threads, NEW kind \in Kinds,
           o.slot[t][KeyOf(kind)] = 0, NEW r, r = Emptied(o, t, KeyOf(kind))
    PROVE  After(o, r, t, kind)
<1>1. PICK k \in 1 .. MaxKeys : k = KeyOf(kind)
  BY KeyRange DEF KeyOf
<1>2. o.slot \in Slots
  BY DEF ObjectsType
<1>3. [o.slot EXCEPT ![t][k] = 0] = o.slot
  BY <1>1, <1>2 DEF Slots
<1>4. r = o
  BY <1>1, <1>3 DEF Emptied, ObjectsType
<1>5. Len(o.heap) \in Nat
  BY LenProperties DEF ObjectsType
<1>6. DeletesOf(o, o, t)
  BY <1>5 DEF DeletesOf
<1> QED
  BY <1>4, <1>6 DEF After

----------------------------------------------------------------------------
(* The inductive invariant *)

TypeOK == /\ heap \in Seq(Things) /\ slot \in Slots /\ t_value_ \in [Threads -> Nat]
          /\ use \in Uses /\ failed \in BOOLEAN
          /\ ponce_ \in {"new", "running", "done"}
          /\ keys \subseteq {TlsKey, StlKey}
          /\ pc \in [Threads -> Steps] /\ next \in [Threads -> Nat]
          /\ todo \in [Threads -> SUBSET {TlsKey, StlKey}] /\ passes \in [Threads -> Nat]

\* Between two steps no destructor is under way.
Owned == Holds(Objects, {}) /\ Agree(Objects) /\ ~failed

\* pthread_once() makes one ThreadLocal, with one key, before anyone uses it;
\* the keys go when no thread is left.
OneKey ==
    /\ value_ = IF ponce_ = "done" THEN StlKey ELSE 0
    /\ \/ keys = {} /\ \A t \in Threads : pc[t] \in {"ended", "returned"}
       \/ keys = IF ponce_ = "done" THEN {TlsKey, StlKey} ELSE {TlsKey}
    /\ \A t \in Threads : pc[t] = "init" => /\ ponce_ = "running"
                                            /\ \A u \in Threads \ {t} : pc[u] # "init"
    /\ \A t \in Threads : ponce_ # "done" => slot[t][StlKey] = 0

Uncollected == {"run", "init", "returned"}

\* Where the destructor of one kind asks for the other, the first pass may
\* leave an object of the other behind, and the second leaves none.
SweptIn(t) ==
    /\ passes[t] <= 2
    /\ pc[t] \in Uncollected => passes[t] = 0
    /\ pc[t] = "ended" => \A kind \in Kinds : slot[t][KeyOf(kind)] = 0
    /\ passes[t] = 2 => \A kind \in Kinds : asking = {kind} => slot[t][KeyOf(kind)] = 0
    /\ \A kind \in Kinds :
           passes[t] >= 1 /\ slot[t][KeyOf(kind)] # 0 /\ KeyOf(kind) \notin todo[t]
               => passes[t] = 1 /\ \E c \in Kinds \ {kind} : asking = {c}

Swept == \A t \in Threads : SweptIn(t)

UseHeld == use # NoUse => /\ use.kind \in Kinds /\ use.object # 0
                          /\ use.object = Held(Objects, use.thread, use.kind)

NoneEarly == \A i \in 1 .. Len(heap) : pc[heap[i].thread] \in Uncollected => heap[i].deleted = 0

IInv == TypeOK /\ Owned /\ OneKey /\ Swept /\ UseHeld /\ NoneEarly

LEMMA ObjectsAre ==
    ASSUME TypeOK
    PROVE  /\ Objects \in ObjectsType /\ Objects.heap = heap /\ Objects.slot = slot
           /\ Objects.tValue = t_value_ /\ Objects.failed = failed /\ Objects.use = NoUse
<1>1. NoUse \in Uses
  BY ProgramAssumption DEF NoUse, Uses
<1> QED
  BY <1>1 DEF TypeOK, Objects, ObjectsType

\* The state a record of objects describes.
LEMMA Becoming ==
    ASSUME NEW t \in Threads, NEW r \in ObjectsType, Holds(r, {}), Agree(r), r.failed = FALSE,
           r.use = NoUse \/ UseOf(r, t), BecomeObjects(r)
    PROVE  /\ heap' \in Seq(Things) /\ slot' \in Slots /\ t_value_' \in [Threads -> Nat]
           /\ use' \in Uses /\ failed' \in BOOLEAN
           /\ Owned' /\ UseHeld'
<1>1. /\ heap' = r.heap /\ slot' = r.slot /\ t_value_' = r.tValue /\ failed' = r.failed
      /\ use' = r.use
  BY DEF BecomeObjects
<1>2. /\ Objects'.heap = r.heap /\ Objects'.slot = r.slot /\ Objects'.tValue = r.tValue
  BY <1>1 DEF Objects
<1>3. Holds(Objects', {}) /\ Agree(Objects') /\ \A u, c : Held(Objects', u, c) = Held(r, u, c)
  <2>1. PICK x : x = Objects'
    OBVIOUS
  <2>2. x.heap = r.heap /\ x.slot = r.slot /\ x.tValue = r.tValue
    BY <1>2, <2>1
  <2>3. Holds(x, {}) /\ \A u, c : Held(x, u, c) = Held(r, u, c)
    BY <2>2, SameHolds
  <2>4. Agree(x)
    BY <2>2 DEF Agree
  <2> QED
    BY <2>1, <2>3, <2>4
<1>4. Owned'
  BY <1>1, <1>3 DEF Owned
<1>5. UseHeld'
  BY <1>1, <1>3 DEF UseHeld, UseOf
<1> QED
  BY <1>1, <1>4, <1>5 DEF ObjectsType

LEMMA InitIInv == Init => IInv
<1> SUFFICES ASSUME Init PROVE IInv
  OBVIOUS
<1>1. MaxKeys \in Nat /\ TlsKey \in 1 .. MaxKeys /\ StlKey \in 1 .. MaxKeys /\ TlsKey # StlKey
  BY KeyRange
<1>2. heap = <<>> /\ heap \in Seq(Things) /\ Len(heap) = 0
  BY EmptySeq DEF Init
<1>3. slot \in Slots /\ \A t \in Threads, k \in 1 .. MaxKeys : slot[t][k] = 0
  BY <1>1 DEF Init, Slots
<1>4. NoUse \in Uses
  BY ProgramAssumption DEF NoUse, Uses
<1>5. TypeOK
  BY <1>2, <1>3, <1>4 DEF Init, TypeOK, Steps
<1>6. \A t \in Threads, kind \in Kinds : slot[t][KeyOf(kind)] = 0
  BY <1>1, <1>3 DEF KeyOf
<1>7. Owned
  <2>1. Holds(Objects, {})
    BY <1>2, <1>6 DEF Objects, Holds, Held
  <2>2. Agree(Objects)
    BY <1>1, <1>3 DEF Init, Objects, Agree
  <2> QED
    BY <2>1, <2>2 DEF Init, Owned
<1>8. OneKey
  BY <1>1, <1>3 DEF Init, OneKey
<1>9. Swept
  BY <1>6 DEF Init, Swept, SweptIn
<1>10. UseHeld /\ NoneEarly
  BY <1>2 DEF Init, UseHeld, NoneEarly
<1> QED
  BY <1>5, <1>7, <1>8, <1>9, <1>10 DEF IInv

----------------------------------------------------------------------------
(* Steps.  Those that use or delete objects become what a record r         *)
(* describes; the others leave the objects alone.                          *)

Does(r, t) ==
    /\ r \in ObjectsType /\ Holds(r, {}) /\ Agree(r) /\ r.failed = FALSE
    /\ r.use = NoUse \/ UseOf(r, t)
    /\ \A u \in Threads \ {t}, j \in 1 .. MaxKeys : r.slot[u][j] = slot[u][j]
    /\ value_ = 0 => r.slot[t][StlKey] \in {0, slot[t][StlKey]}
    /\ \A i \in 1 .. Len(r.heap) : \/ r.heap[i].deleted = 0
                                   \/ i <= Len(heap) /\ r.heap[i] = heap[i]
                                   \/ r.heap[i].thread = t /\ pc[t] = "ending"

Quiet == UNCHANGED <<heap, slot, t_value_, failed>> /\ use' = NoUse

LEMMA UseStlDoes ==
    ASSUME IInv, NEW t \in Threads, UseStl(t)
    PROVE  /\ pc[t] = "run" /\ ponce_ = "done" /\ next' = [next EXCEPT ![t] = @ + 1]
           /\ UNCHANGED <<onceVars, pc, todo, passes, asking>>
           /\ \E r : Does(r, t) /\ BecomeObjects(r)
<1>1. /\ pc[t] = "run" /\ ponce_ = "done" /\ next' = [next EXCEPT ![t] = @ + 1]
      /\ UNCHANGED <<onceVars, pc, todo, passes, asking>>
      /\ value_ = StlKey
  BY DEF UseStl, Asks, IInv, OneKey
<1>2. PICK r : r = Value(Objects, t, StlKey)
  OBVIOUS
<1>3. BecomeObjects(r)
  BY <1>1, <1>2 DEF UseStl
<1>4. PICK o \in ObjectsType : /\ o = Objects /\ Holds(o, {}) /\ Agree(o) /\ o.failed = FALSE
                               /\ o.heap = heap /\ o.slot = slot
  BY ObjectsAre DEF IInv, Owned
<1>5. /\ r \in ObjectsType /\ Holds(r, {}) /\ Grows(o, r) /\ Apart(o, r, t, StlKey)
      /\ r.tValue = o.tValue /\ r.failed = o.failed
      /\ r.use = [thread |-> t, kind |-> "stl", object |-> Held(r, t, "stl")]
      /\ Held(r, t, "stl") # 0
  BY <1>2, <1>4, ValueKeeps
<1>6. Agree(r)
  BY <1>4, <1>5, KeyRange DEF Agree, Apart
<1>7. UseOf(r, t)
  BY <1>5 DEF UseOf, Kinds
<1>8. StlKey # 0
  BY DEF StlKey
<1> QED
  BY <1>1, <1>3, <1>4, <1>5, <1>6, <1>7, <1>8 DEF Does, Grows, Apart

LEMMA UseTlsDoes ==
    ASSUME IInv, NEW t \in Threads, UseTls(t)
    PROVE  /\ pc[t] = "run" /\ next' = [next EXCEPT ![t] = @ + 1]
           /\ UNCHANGED <<onceVars, pc, todo, passes, asking>>
           /\ \E r : Does(r, t) /\ BecomeObjects(r)
<1>1. /\ pc[t] = "run" /\ next' = [next EXCEPT ![t] = @ + 1]
      /\ UNCHANGED <<onceVars, pc, todo, passes, asking>>
  BY DEF UseTls, Asks
<1>2. PICK r : r = Instance(Objects, t)
  OBVIOUS
<1>3. BecomeObjects(r)
  BY <1>2 DEF UseTls
<1>4. PICK o \in ObjectsType : /\ o = Objects /\ Holds(o, {}) /\ Agree(o) /\ o.failed = FALSE
                               /\ o.heap = heap /\ o.slot = slot
  BY ObjectsAre DEF IInv, Owned
<1>5. o.tValue[t] = o.slot[t][TlsKey]
  BY <1>4 DEF Agree
<1>6. /\ r \in ObjectsType /\ Holds(r, {}) /\ Grows(o, r) /\ Apart(o, r, t, TlsKey)
      /\ r.failed = o.failed
      /\ r.tValue[t] = r.slot[t][TlsKey]
      /\ \A u \in Threads \ {t} : r.tValue[u] = o.tValue[u]
      /\ r.use = [thread |-> t, kind |-> "tls", object |-> Held(r, t, "tls")]
      /\ Held(r, t, "tls") # 0
  BY <1>2, <1>4, <1>5, InstanceKeeps
<1>7. Agree(r)
  BY <1>4, <1>6, KeyRange DEF Agree, Apart
<1>8. UseOf(r, t)
  BY <1>6 DEF UseOf, Kinds
<1> QED
  BY <1>1, <1>3, <1>4, <1>6, <1>7, <1>8, KeyRange DEF Does, Grows, Apart

LEMMA ReapDoes ==
    ASSUME IInv, NEW t \in Threads, Reap(t)
    PROVE  /\ pc[t] = "ending" /\ UNCHANGED <<onceVars, pc, next, passes, asking>>
           /\ \E kind \in Kinds :
                  /\ KeyOf(kind) \in todo[t]
                  /\ todo' = [todo EXCEPT ![t] = @ \ {KeyOf(kind)}]
                  /\ \E r : Does(r, t) /\ BecomeObjects(r) /\ After(Objects, r, t, kind)
<1>1. pc[t] = "ending" /\ UNCHANGED <<onceVars, pc, next, passes, asking>>
  BY DEF Reap
<1>2. PICK k \in todo[t] :
          /\ todo' = [todo EXCEPT ![t] = @ \ {k}]
          /\ LET object == slot[t][k]
                 o == Emptied(Objects, t, k)
             IN  CASE object = 0 -> BecomeObjects(o)
                   [] object # 0 /\ k = TlsKey -> BecomeObjects(TlsDestructor(o, t, object))
                   [] object # 0 /\ k # TlsKey -> BecomeObjects(StlDestructor(o, t, object))
  BY DEF Reap
<1>3. PICK o \in ObjectsType : /\ o = Objects /\ Holds(o, {}) /\ Agree(o) /\ o.failed = FALSE
                               /\ o.heap = heap /\ o.slot = slot /\ o.use = NoUse
  BY ObjectsAre DEF IInv, Owned
<1>4. PICK kind \in Kinds : k = KeyOf(kind) /\ kind = IF k = TlsKey THEN "tls" ELSE "stl"
  <2>1. k \in {TlsKey, StlKey}
    BY DEF IInv, TypeOK
  <2> QED
    BY <2>1, KeyRange DEF KeyOf, Kinds
<1>5. PICK r : BecomeObjects(r) /\ After(o, r, t, kind)
  <2>1. CASE slot[t][k] = 0
    <3>1. PICK r : r = Emptied(o, t, KeyOf(kind))
      OBVIOUS
    <3>2. BecomeObjects(r)
      BY <1>2, <1>3, <1>4, <2>1, <3>1
    <3>3. After(o, r, t, kind)
      BY <1>3, <1>4, <2>1, <3>1, NoReap
    <3> QED
      BY <3>2, <3>3
  <2>2. CASE slot[t][k] # 0 /\ k = TlsKey
    <3>1. PICK r : r = TlsDestructor(Emptied(o, t, TlsKey), t, slot[t][TlsKey])
      OBVIOUS
    <3>2. BecomeObjects(r)
      BY <1>2, <1>3, <2>2, <3>1
    <3>3. value_ \in {0, StlKey}
      BY DEF IInv, OneKey
    <3>4. After(o, r, t, "tls")
      BY <1>3, <2>2, <3>1, <3>3, TlsReap
    <3> QED
      BY <1>4, <2>2, <3>2, <3>4
  <2>3. CASE slot[t][k] # 0 /\ k # TlsKey
    <3>1. k = StlKey
      BY <2>3 DEF IInv, TypeOK
    <3>2. PICK r : r = StlDestructor(Emptied(o, t, StlKey), t, slot[t][StlKey])
      OBVIOUS
    <3>3. BecomeObjects(r)
      BY <1>2, <1>3, <2>3, <3>1, <3>2
    <3>4. After(o, r, t, "stl")
      BY <1>3, <2>3, <3>1, <3>2, StlReap
    <3> QED
      BY <1>4, <2>3, <3>3, <3>4
  <2> QED
    BY <2>1, <2>2, <2>3
<1>6. Does(r, t)
  BY <1>1, <1>3, <1>5 DEF After, Does, DeletesOf
<1> QED
  BY <1>1, <1>2, <1>3, <1>4, <1>5, <1>6

\* A step that changes objects is one of these three, of one thread.
LEMMA DoesStep ==
    ASSUME IInv, NEW t \in Threads, UseStl(t) \/ UseTls(t) \/ Reap(t)
    PROVE  /\ pc[t] \in {"run", "ending"} /\ pc' = pc /\ UNCHANGED <<onceVars, passes, asking>>
           /\ next' \in [Threads -> Nat]
           /\ todo' \in [Threads -> SUBSET {TlsKey, StlKey}]
           /\ \E r : Does(r, t) /\ BecomeObjects(r)
<1>1. next \in [Threads -> Nat] /\ todo \in [Threads -> SUBSET {TlsKey, StlKey}]
  BY DEF IInv, TypeOK
<1>2. CASE UseStl(t)
  BY <1>1, <1>2, UseStlDoes
<1>3. CASE UseTls(t)
  BY <1>1, <1>3, UseTlsDoes
<1>4. CASE Reap(t)
  <2>1. /\ pc[t] = "ending" /\ UNCHANGED <<onceVars, pc, next, passes, asking>>
        /\ \E r : Does(r, t) /\ BecomeObjects(r)
    BY <1>4, ReapDoes
  <2>2. \E k : todo' = [todo EXCEPT ![t] = @ \ {k}]
    BY <1>4, ReapDoes
  <2>3. todo' \in [Threads -> SUBSET {TlsKey, StlKey}]
    BY <1>1, <2>2
  <2> QED
    BY <1>1, <2>1, <2>3
<1> QED
  BY <1>2, <1>3, <1>4

LEMMA QuietObjects ==
    ASSUME Quiet, IInv
    PROVE  /\ heap' \in Seq(Things) /\ slot' \in Slots /\ t_value_' \in [Threads -> Nat]
           /\ use' \in Uses /\ failed' \in BOOLEAN
           /\ Owned' /\ UseHeld'
<1>1. NoUse \in Uses
  BY ProgramAssumption DEF NoUse, Uses
<1>2. Objects' = Objects
  BY DEF Quiet, Objects
<1> QED
  BY <1>1, <1>2 DEF Quiet, IInv, TypeOK, Owned, UseHeld

\* The quiet steps of one thread.
LEMMA QuietStep ==
    ASSUME IInv, NEW t \in Threads,
           \/ CallInit(t) \/ InitSingleton(t) \/ Leave(t) \/ Pass(t) \/ End(t)
           \/ Return /\ t = Main
    PROVE  Quiet /\ keys # {}
<1>1. keys # {}
  BY DEF IInv, OneKey, CallInit, Asks, InitSingleton, Leave, Pass, End, Return
<1> QED
  BY <1>1 DEF Quiet, Steps, CallInit, Asks, InitSingleton, Leave, Pass, End, Return, onceVars

LEMMA NextObjects == IInv /\ [Next]_vars => TypeOK' /\ Owned' /\ UseHeld'
<1> SUFFICES ASSUME IInv, [Next]_vars PROVE TypeOK' /\ Owned' /\ UseHeld'
  OBVIOUS
<1> USE DEF Goto
<1>a. /\ ponce_ \in {"new", "running", "done"} /\ keys \subseteq {TlsKey, StlKey}
      /\ pc \in [Threads -> Steps] /\ next \in [Threads -> Nat]
      /\ todo \in [Threads -> SUBSET {TlsKey, StlKey}] /\ passes \in [Threads -> Nat]
  BY DEF IInv, TypeOK
<1> DEFINE Rest == /\ ponce_' \in {"new", "running", "done"} /\ keys' \subseteq {TlsKey, StlKey}
                   /\ pc' \in [Threads -> Steps] /\ next' \in [Threads -> Nat]
                   /\ todo' \in [Threads -> SUBSET {TlsKey, StlKey}]
                   /\ passes' \in [Threads -> Nat]
<1>1. ASSUME Quiet, Rest PROVE TypeOK' /\ Owned' /\ UseHeld'
  BY <1>1, QuietObjects DEF TypeOK
<1>2. ASSUME NEW t \in Threads, UseStl(t) \/ UseTls(t) \/ Reap(t)
      PROVE  TypeOK' /\ Owned' /\ UseHeld'
  <2>1. PICK r : Does(r, t) /\ BecomeObjects(r)
    BY <1>2, DoesStep
  <2>2. /\ heap' \in Seq(Things) /\ slot' \in Slots /\ t_value_' \in [Threads -> Nat]
        /\ use' \in Uses /\ failed' \in BOOLEAN
        /\ Owned' /\ UseHeld'
    BY <2>1, Becoming DEF Does
  <2>3. Rest
    BY <1>a, <1>2, DoesStep DEF onceVars
  <2> QED
    BY <2>2, <2>3 DEF TypeOK
<1>3. ASSUME NEW t \in Threads, CallInit(t) \/ Leave(t) \/ End(t) \/ (Return /\ t = Main)
      PROVE  TypeOK' /\ Owned' /\ UseHeld'
  <2>1. Quiet
    BY <1>3, QuietStep
  <2>2. Rest
    BY <1>a, <1>3, ProgramAssumption DEF CallInit, Leave, End, Return, onceVars, Steps
  <2> QED
    BY <1>1, <2>1, <2>2
<1>4. ASSUME NEW t \in Threads, InitSingleton(t) PROVE TypeOK' /\ Owned' /\ UseHeld'
  <2>1. Quiet
    BY <1>4, QuietStep
  <2>2. keys = {TlsKey}
    BY <1>4 DEF InitSingleton, IInv, OneKey
  <2>3. KeyCreate = StlKey
    BY <2>2, FS_Singleton DEF KeyCreate, StlKey
  <2>4. Rest
    BY <1>a, <1>4, <2>2, <2>3 DEF InitSingleton, Steps
  <2> QED
    BY <1>1, <2>1, <2>4
<1>5. ASSUME NEW t \in Threads, Pass(t) PROVE TypeOK' /\ Owned' /\ UseHeld'
  <2>1. Quiet
    BY <1>5, QuietStep
  <2>2. Rest
    BY <1>a, <1>5 DEF Pass, onceVars
  <2> QED
    BY <1>1, <2>1, <2>2
<1>6. ASSUME Exit PROVE TypeOK' /\ Owned' /\ UseHeld'
  <2>1. Quiet
    BY <1>6 DEF Exit, Quiet
  <2>2. Rest
    BY <1>a, <1>6 DEF Exit, KeyDelete, threadVars
  <2> QED
    BY <1>1, <2>1, <2>2
<1>7. ASSUME UNCHANGED vars PROVE TypeOK' /\ Owned' /\ UseHeld'
  <2>1. Objects' = Objects
    BY <1>7 DEF vars, objectVars, Objects
  <2> QED
    BY <1>a, <1>7, <2>1
       DEF vars, objectVars, onceVars, threadVars, IInv, TypeOK, Owned, UseHeld
<1> QED
  <2>1. Main \in Threads
    BY ProgramAssumption
  <2> QED
    BY <1>2, <1>3, <1>4, <1>5, <1>6, <1>7, <2>1 DEF Next, Finished

LEMMA NextOneKey == IInv /\ [Next]_vars => OneKey'
<1> SUFFICES ASSUME IInv, [Next]_vars PROVE OneKey'
  OBVIOUS
<1> USE DEF Goto
<1>a. /\ OneKey /\ pc \in [Threads -> Steps] /\ keys \subseteq {TlsKey, StlKey}
      /\ TlsKey # StlKey /\ StlKey \in 1 .. MaxKeys /\ StlKey # 0
  BY KeyRange DEF IInv, TypeOK, StlKey
<1>1. ASSUME NEW t \in Threads, UseStl(t) \/ UseTls(t) \/ Reap(t) PROVE OneKey'
  <2>1. pc' = pc /\ UNCHANGED onceVars
    BY <1>1, DoesStep
  <2>2. PICK r : Does(r, t) /\ BecomeObjects(r)
    BY <1>1, DoesStep
  <2>3. ponce_ # "done" => \A u \in Threads : slot'[u][StlKey] = 0
    <3> SUFFICES ASSUME ponce_ # "done", NEW u \in Threads PROVE slot'[u][StlKey] = 0
      OBVIOUS
    <3>1. value_ = 0 /\ slot[u][StlKey] = 0 /\ slot[t][StlKey] = 0 /\ slot' = r.slot
      BY <1>a, <2>2 DEF OneKey, BecomeObjects
    <3> QED
      BY <1>a, <2>2, <3>1 DEF Does
  <2> QED
    BY <1>a, <2>1, <2>3 DEF OneKey, onceVars
<1>2. ASSUME NEW t \in Threads, CallInit(t) PROVE OneKey'
  <2>1. \A u \in Threads : pc[u] # "init"
    BY <1>a, <1>2 DEF CallInit, OneKey
  <2>2. /\ ponce_ = "new" /\ ponce_' = "running" /\ pc[t] = "run"
        /\ pc' = [pc EXCEPT ![t] = "init"] /\ UNCHANGED <<slot, value_, keys>>
    BY <1>2 DEF CallInit, Asks
  <2>3. keys = {TlsKey}
    BY <1>a, <2>2 DEF OneKey
  <2> QED
    BY <1>a, <2>1, <2>2, <2>3 DEF OneKey
<1>3. ASSUME NEW t \in Threads, InitSingleton(t) PROVE OneKey'
  <2>1. /\ pc[t] = "init" /\ keys' = keys \cup {KeyCreate} /\ value_' = KeyCreate
        /\ ponce_' = "done" /\ pc' = [pc EXCEPT ![t] = "run"] /\ slot' = slot
    BY <1>3 DEF InitSingleton
  <2>2. keys = {TlsKey} /\ \A u \in Threads \ {t} : pc[u] # "init"
    BY <1>a, <2>1 DEF OneKey
  <2>3. KeyCreate = StlKey
    BY <2>2, FS_Singleton DEF KeyCreate, StlKey
  <2> QED
    BY <1>a, <2>1, <2>2, <2>3 DEF OneKey
<1>4. ASSUME NEW t \in Threads, Leave(t) \/ Pass(t) \/ End(t) \/ (Return /\ t = Main)
      PROVE  OneKey'
  <2>1. keys # {}
    BY <1>4, QuietStep
  <2>2. /\ UNCHANGED <<slot, ponce_, value_, keys>>
        /\ \A u \in Threads : pc'[u] = "init" => pc[u] = "init"
    BY <1>a, <1>4, ProgramAssumption DEF Leave, Pass, End, Return, onceVars
  <2> QED
    BY <1>a, <2>1, <2>2 DEF OneKey
<1>5. ASSUME Exit PROVE OneKey'
  <2>1. keys' = {}
    BY <1>a, <1>5 DEF Exit, KeyDelete, OneKey
  <2> QED
    BY <1>a, <1>5, <2>1 DEF Exit, OneKey, threadVars
<1>6. ASSUME UNCHANGED vars PROVE OneKey'
  BY <1>a, <1>6 DEF vars, objectVars, onceVars, threadVars, OneKey
<1> QED
  <2>1. Main \in Threads
    BY ProgramAssumption
  <2> QED
    BY <1>1, <1>2, <1>3, <1>4, <1>5, <1>6, <2>1 DEF Next, Finished

LEMMA NextNoneEarly == IInv /\ [Next]_vars => NoneEarly'
<1> SUFFICES ASSUME IInv, [Next]_vars PROVE NoneEarly'
  OBVIOUS
<1> USE DEF Goto
<1>a. NoneEarly /\ pc \in [Threads -> Steps] /\ heap \in Seq(Things)
  BY DEF IInv, TypeOK
<1>b. Len(heap) \in Nat /\ \A i \in 1 .. Len(heap) : heap[i].thread \in Threads
  <2>1. \A i \in 1 .. Len(heap) : heap[i] \in Things
    BY <1>a, ElementOfSeq
  <2> QED
    BY <1>a, <2>1, LenProperties DEF Things
<1>1. ASSUME NEW t \in Threads, UseStl(t) \/ UseTls(t) \/ Reap(t) PROVE NoneEarly'
  <2>1. pc' = pc
    BY <1>1, DoesStep
  <2>2. PICK r : Does(r, t) /\ BecomeObjects(r)
    BY <1>1, DoesStep
  <2>3. heap' = r.heap
    BY <2>2 DEF BecomeObjects
  <2>4. ASSUME NEW i \in 1 .. Len(heap'), pc'[heap'[i].thread] \in Uncollected
        PROVE  heap'[i].deleted = 0
    <3>1. \/ r.heap[i].deleted = 0
          \/ i <= Len(heap) /\ r.heap[i] = heap[i]
          \/ r.heap[i].thread = t /\ pc[t] = "ending"
      BY <2>2, <2>3, <2>4 DEF Does
    <3>2. Len(heap') \in Nat
      BY <2>2, <2>3, LenProperties DEF Does, ObjectsType
    <3>3. i <= Len(heap) => i \in 1 .. Len(heap)
      BY <1>b, <2>4, <3>2
    <3> QED
      BY <1>a, <2>1, <2>3, <2>4, <3>1, <3>3 DEF NoneEarly, Uncollected
  <2> QED
    BY <2>4 DEF NoneEarly
<1>2. ASSUME heap' = heap, \A t \in Threads : pc'[t] \in Uncollected => pc[t] \in Uncollected
      PROVE  NoneEarly'
  BY <1>a, <1>b, <1>2 DEF NoneEarly
<1>3. ASSUME NEW t \in Threads,
             \/ CallInit(t) \/ InitSingleton(t) \/ Leave(t) \/ Pass(t) \/ End(t)
             \/ Return /\ t = Main
      PROVE  NoneEarly'
  <2>1. heap' = heap
    BY <1>3, QuietStep DEF Quiet
  <2>2. \A u \in Threads : pc'[u] \in Uncollected => pc[u] \in Uncollected
    BY <1>a, <1>3 DEF CallInit, Asks, InitSingleton, Leave, Pass, End, Return, Uncollected
  <2> QED
    BY <1>2, <2>1, <2>2
<1>4. ASSUME Exit \/ UNCHANGED vars PROVE NoneEarly'
  BY <1>2, <1>4 DEF Exit, vars, objectVars, threadVars
<1> QED
  <2>1. Main \in Threads
    BY ProgramAssumption
  <2> QED
    BY <1>1, <1>3, <1>4, <2>1 DEF Next, Finished

\* A thread that an action of another one leaves alone.
LEMMA SweptElse ==
    ASSUME IInv, NEW u \in Threads, SweptIn(u),
           passes'[u] = passes[u], pc'[u] = pc[u], todo'[u] = todo[u], asking' = asking,
           \A j \in 1 .. MaxKeys : slot'[u][j] = slot[u][j]
    PROVE  SweptIn(u)'
<1>1. \A kind \in Kinds : KeyOf(kind) \in 1 .. MaxKeys
  BY KeyRange DEF KeyOf
<1>2. \A kind \in Kinds : slot'[u][KeyOf(kind)] = slot[u][KeyOf(kind)]
  BY <1>1
<1> QED
  BY <1>2 DEF SweptIn

LEMMA NextSwept == IInv /\ [Next]_vars => Swept'
<1> SUFFICES ASSUME IInv, [Next]_vars PROVE Swept'
  OBVIOUS
<1> USE DEF Goto
<1>a. /\ pc \in [Threads -> Steps] /\ passes \in [Threads -> Nat]
      /\ todo \in [Threads -> SUBSET {TlsKey, StlKey}] /\ slot \in Slots
      /\ OneKey /\ \A u \in Threads : SweptIn(u)
  BY DEF IInv, TypeOK, Swept
<1> SUFFICES \A u \in Threads : SweptIn(u)'
  BY DEF Swept
<1>b. \A kind \in Kinds : KeyOf(kind) \in 1 .. MaxKeys /\ KeyOf(kind) \in {TlsKey, StlKey}
  BY KeyRange DEF KeyOf
<1>1. ASSUME NEW t \in Threads, UseStl(t) \/ UseTls(t) PROVE \A u \in Threads : SweptIn(u)'
  <2>1. /\ pc[t] = "run" /\ pc' = pc /\ UNCHANGED <<todo, passes, asking>>
    BY <1>1, UseStlDoes, UseTlsDoes
  <2>2. PICK r : Does(r, t) /\ BecomeObjects(r)
    BY <1>1, DoesStep
  <2>3. \A u \in Threads \ {t}, j \in 1 .. MaxKeys : slot'[u][j] = slot[u][j]
    BY <2>2 DEF Does, BecomeObjects
  <2>4. passes[t] = 0
    BY <1>a, <2>1 DEF SweptIn, Uncollected
  <2>5. SweptIn(t)'
    BY <2>1, <2>4 DEF SweptIn
  <2>6. ASSUME NEW u \in Threads \ {t} PROVE SweptIn(u)'
    BY <1>a, <2>1, <2>3, SweptElse
  <2> QED
    BY <2>5, <2>6
<1>2. ASSUME NEW t \in Threads, Reap(t) PROVE \A u \in Threads : SweptIn(u)'
  <2>1. pc[t] = "ending" /\ UNCHANGED <<pc, passes, asking>>
    BY <1>2, ReapDoes
  <2>2. PICK kind \in Kinds : /\ KeyOf(kind) \in todo[t]
                              /\ todo' = [todo EXCEPT ![t] = @ \ {KeyOf(kind)}]
                              /\ \E r : BecomeObjects(r) /\ After(Objects, r, t, kind)
    BY <1>2, ReapDoes
  <2>3. PICK r : BecomeObjects(r) /\ After(Objects, r, t, kind)
    BY <2>2
  <2>4. Objects.slot = slot /\ slot' = r.slot
    BY <2>3 DEF Objects, BecomeObjects
  <2>5. /\ slot'[t][KeyOf(kind)] = 0
        /\ \A u \in Threads \ {t}, j \in 1 .. MaxKeys : slot'[u][j] = slot[u][j]
        /\ asking # {kind} \/ slot[t][KeyOf(kind)] = 0 =>
               \A j \in (1 .. MaxKeys) \ {KeyOf(kind)} : slot'[t][j] = slot[t][j]
    BY <2>3, <2>4 DEF After
  <2>6. ASSUME NEW u \in Threads \ {t} PROVE SweptIn(u)'
    BY <1>a, <2>1, <2>2, <2>5, SweptElse
  <2>7. SweptIn(t)'
    <3>1. passes'[t] = passes[t] /\ pc'[t] = "ending" /\ passes[t] \in Nat
      BY <1>a, <2>1
    <3>2. passes'[t] <= 2 /\ ~(pc'[t] \in Uncollected) /\ pc'[t] # "ended"
      BY <1>a, <3>1 DEF SweptIn, Uncollected
    <3>3. \A c \in Kinds : c # kind => KeyOf(c) # KeyOf(kind)
      BY KeyRange DEF Kinds, KeyOf
    <3>4. todo'[t] = todo[t] \ {KeyOf(kind)}
      BY <1>a, <2>2
    <3>5. ASSUME NEW c \in Kinds, c # kind, slot'[t][KeyOf(c)] = slot[t][KeyOf(c)]
          PROVE  /\ passes'[t] = 2 /\ asking' = {c} => slot'[t][KeyOf(c)] = 0
                 /\ passes'[t] >= 1 /\ slot'[t][KeyOf(c)] # 0 /\ KeyOf(c) \notin todo'[t]
                        => passes'[t] = 1 /\ \E d \in Kinds \ {c} : asking' = {d}
      BY <1>a, <2>1, <3>1, <3>3, <3>4, <3>5 DEF SweptIn
    <3>6. ASSUME NEW c \in Kinds, c # kind, slot'[t][KeyOf(c)] # slot[t][KeyOf(c)]
          PROVE  /\ passes'[t] = 2 /\ asking' = {c} => slot'[t][KeyOf(c)] = 0
                 /\ passes'[t] >= 1 /\ slot'[t][KeyOf(c)] # 0 /\ KeyOf(c) \notin todo'[t]
                        => passes'[t] = 1 /\ \E d \in Kinds \ {c} : asking' = {d}
      <4>1. asking = {kind} /\ slot[t][KeyOf(kind)] # 0
        BY <1>b, <2>5, <3>3, <3>6
      <4>2. passes[t] # 2
        BY <1>a, <4>1 DEF SweptIn
      <4>3. passes[t] <= 2
        BY <1>a DEF SweptIn
      <4> QED
        BY <2>1, <3>1, <3>6, <4>1, <4>2, <4>3
    <3>7. /\ passes'[t] = 2 => \A c \in Kinds : asking' = {c} => slot'[t][KeyOf(c)] = 0
          /\ \A c \in Kinds :
                 passes'[t] >= 1 /\ slot'[t][KeyOf(c)] # 0 /\ KeyOf(c) \notin todo'[t]
                     => passes'[t] = 1 /\ \E d \in Kinds \ {c} : asking' = {d}
      BY <2>5, <3>5, <3>6
    <3> QED
      BY <3>2, <3>7 DEF SweptIn
  <2> QED
    BY <2>6, <2>7
<1>3. ASSUME NEW t \in Threads, CallInit(t) \/ InitSingleton(t) \/ Leave(t) \/ (Return /\ t = Main)
      PROVE  \A u \in Threads : SweptIn(u)'
  <2>1. /\ pc[t] \in {"run", "init"} /\ UNCHANGED <<slot, todo, passes, asking>>
        /\ \E s \in {"run", "init", "ending", "returned"} : pc' = [pc EXCEPT ![t] = s]
    BY <1>3 DEF CallInit, Asks, InitSingleton, Leave, Return
  <2>2. passes[t] = 0
    BY <1>a, <2>1 DEF SweptIn, Uncollected
  <2>3. SweptIn(t)'
    BY <1>a, <2>1, <2>2 DEF SweptIn
  <2>4. ASSUME NEW u \in Threads \ {t} PROVE SweptIn(u)'
    BY <1>a, <2>1, SweptElse
  <2> QED
    BY <2>3, <2>4
<1>4. ASSUME NEW t \in Threads, pc[t] = "ending"
      PROVE  \A kind \in Kinds : slot[t][KeyOf(kind)] # 0 => KeyOf(kind) \in keys
  <2>1. keys = IF ponce_ = "done" THEN {TlsKey, StlKey} ELSE {TlsKey}
    BY <1>a, <1>4 DEF OneKey
  <2> QED
    BY <1>a, <1>b, <2>1 DEF OneKey
<1>5. ASSUME NEW t \in Threads, Pass(t) PROVE \A u \in Threads : SweptIn(u)'
  <2>1. /\ pc[t] = "ending" /\ todo[t] = {} /\ UNCHANGED <<slot, pc, asking>>
        /\ todo' = [todo EXCEPT ![t] = keys] /\ passes' = [passes EXCEPT ![t] = @ + 1]
        /\ \E k \in keys : slot[t][k] # 0
    BY <1>5 DEF Pass
  <2>2. passes[t] \in Nat /\ passes'[t] = passes[t] + 1 /\ todo'[t] = keys
    BY <1>a, <2>1
  <2>3. PICK kind \in Kinds : slot[t][KeyOf(kind)] # 0
    <3>1. \A k \in {TlsKey, StlKey} : \E kind \in Kinds : KeyOf(kind) = k
      BY KeyRange DEF Kinds, KeyOf
    <3> QED
      BY <2>1, <3>1 DEF IInv, TypeOK
  <2>4. passes[t] # 2 /\ passes[t] <= 2
    BY <1>a, <2>1, <2>2, <2>3 DEF SweptIn
  <2>5. passes[t] = 1 => \A c \in Kinds : asking = {c} => slot[t][KeyOf(c)] = 0
    <3> SUFFICES ASSUME passes[t] = 1, NEW c \in Kinds, asking = {c}, slot[t][KeyOf(c)] # 0
                 PROVE  FALSE
      OBVIOUS
    <3>1. \E d \in Kinds \ {c} : asking = {d}
      BY <1>a, <2>1 DEF SweptIn
    <3> QED
      BY <3>1
  <2>6. SweptIn(t)'
    <3>1. \A c \in Kinds : slot'[t][KeyOf(c)] # 0 => KeyOf(c) \in todo'[t]
      BY <1>4, <2>1, <2>2
    <3>2. passes'[t] <= 2 /\ (passes'[t] = 2 => passes[t] = 1)
      BY <2>2, <2>4
    <3> QED
      BY <2>1, <2>5, <3>1, <3>2 DEF SweptIn, Uncollected
  <2>7. ASSUME NEW u \in Threads \ {t} PROVE SweptIn(u)'
    BY <1>a, <2>1, SweptElse
  <2> QED
    BY <2>6, <2>7
<1>6. ASSUME NEW t \in Threads, End(t) PROVE \A u \in Threads : SweptIn(u)'
  <2>1. /\ pc[t] = "ending" /\ todo[t] = {} /\ UNCHANGED <<slot, todo, passes, asking>>
        /\ pc' = [pc EXCEPT ![t] = "ended"]
        /\ passes[t] = Iterations \/ \A k \in keys : slot[t][k] = 0
    BY <1>6 DEF End
  <2>2. \A kind \in Kinds : slot[t][KeyOf(kind)] = 0
    <3>1. CASE passes[t] = Iterations
      <4>1. passes[t] \in Nat /\ passes[t] >= 2
        BY <1>a, <3>1, DtorAssumption
      <4> QED
        BY <1>a, <2>1, <4>1 DEF SweptIn
    <3>2. CASE \A k \in keys : slot[t][k] = 0
      BY <1>4, <2>1, <3>2
    <3> QED
      BY <2>1, <3>1, <3>2
  <2>3. SweptIn(t)'
    BY <1>a, <2>1, <2>2 DEF SweptIn, Uncollected
  <2>4. ASSUME NEW u \in Threads \ {t} PROVE SweptIn(u)'
    BY <1>a, <2>1, SweptElse
  <2> QED
    BY <2>3, <2>4
<1>7. ASSUME Exit \/ UNCHANGED vars PROVE \A u \in Threads : SweptIn(u)'
  <2>1. UNCHANGED <<slot, pc, todo, passes, asking>>
    BY <1>7 DEF Exit, vars, objectVars, threadVars
  <2> QED
    BY <1>a, <2>1, SweptElse
<1> QED
  <2>1. Main \in Threads
    BY ProgramAssumption
  <2> QED
    BY <1>1, <1>2, <1>3, <1>5, <1>6, <1>7, <2>1 DEF Next, Finished

LEMMA Invariance == Spec => []IInv
<1>1. IInv /\ [Next]_vars => IInv'
  BY NextObjects, NextOneKey, NextNoneEarly, NextSwept DEF IInv
<1> QED
  BY InitIInv, <1>1, PTL DEF Spec

----------------------------------------------------------------------------
(* The theorems *)

\* What a thread gets is a live object of its own and the only one of its
\* kind it has, there is one singleton, and the assertions of
\* ThreadLocalSingleton hold.
THEOREM EachUsesItsOwn == Spec => []UsesItsOwn
<1>1. IInv => UsesItsOwn
  <2> SUFFICES ASSUME IInv PROVE UsesItsOwn
    OBVIOUS
  <2>1. Cardinality(keys) <= 2
    <3>1. keys \in {{}, {TlsKey}, {TlsKey, StlKey}}
      <4>1. OneKey /\ keys \subseteq {TlsKey, StlKey}
        BY DEF IInv, TypeOK
      <4> QED
        BY <4>1 DEF OneKey
    <3>2. Cardinality({TlsKey}) = 1 /\ IsFiniteSet({TlsKey}) /\ Cardinality({}) = 0
      BY FS_EmptySet, FS_Singleton
    <3>3. Cardinality({TlsKey} \cup {StlKey}) = 2
      BY <3>2, KeyRange, FS_AddElement
    <3>4. {TlsKey} \cup {StlKey} = {TlsKey, StlKey}
      OBVIOUS
    <3> QED
      BY <3>1, <3>2, <3>3, <3>4
  <2>2. ASSUME use # NoUse
        PROVE  LET got == heap[use.object]
               IN  /\ got.thread = use.thread /\ got.kind = use.kind /\ got.deleted = 0
                   /\ \A i \in DOMAIN heap \ {use.object} :
                         heap[i].thread = got.thread /\ heap[i].kind = got.kind
                             => heap[i].deleted # 0
    <3>1. /\ use.thread \in Threads /\ use.kind \in Kinds /\ use.object # 0
          /\ use.object = Held(Objects, use.thread, use.kind)
      BY <2>2 DEF IInv, TypeOK, UseHeld, Uses
    <3>2. DOMAIN heap = 1 .. Len(heap) /\ Objects.heap = heap
      BY LenProperties DEF IInv, TypeOK, Objects
    <3>3. /\ use.object \in 1 .. Len(heap)
          /\ heap[use.object].thread = use.thread /\ heap[use.object].kind = use.kind
      BY <3>1, <3>2 DEF IInv, Owned, Holds
    <3>4. \A i \in 1 .. Len(heap) :
              heap[i].deleted = 0 <=> i = Held(Objects, heap[i].thread, heap[i].kind)
      BY <3>2 DEF IInv, Owned, Holds
    <3> QED
      BY <3>1, <3>2, <3>3, <3>4
  <2> QED
    BY <2>1, <2>2 DEF IInv, Owned, UsesItsOwn
<1> QED
  BY <1>1, Invariance, PTL

\* No object is deleted twice or before its thread ends, and none outlives a
\* thread that has ended.
THEOREM AllReaped == Spec => []Reaped
<1>1. IInv => Reaped
  <2> SUFFICES ASSUME IInv, NEW i \in DOMAIN heap
               PROVE  /\ heap[i].deleted <= 1
                      /\ pc[heap[i].thread] \in {"run", "init", "returned"}
                             => heap[i].deleted = 0
                      /\ pc[heap[i].thread] = "ended" => heap[i].deleted = 1
    BY DEF Reaped
  <2>1. i \in 1 .. Len(heap) /\ i # 0 /\ Objects.heap = heap /\ heap[i] \in Things
    <3>1. i \in 1 .. Len(heap) /\ Len(heap) \in Nat /\ heap \in Seq(Things)
      BY LenProperties DEF IInv, TypeOK
    <3> QED
      BY <3>1, ElementOfSeq DEF Objects
  <2>2. /\ heap[i].deleted \in {0, 1}
        /\ heap[i].deleted = 0 <=> i = Held(Objects, heap[i].thread, heap[i].kind)
    BY <2>1 DEF IInv, Owned, Holds
  <2>3. heap[i].thread \in Threads /\ heap[i].kind \in Kinds
    BY <2>1 DEF Things
  <2>4. pc[heap[i].thread] = "ended" => Held(Objects, heap[i].thread, heap[i].kind) = 0
    BY <2>3 DEF IInv, Swept, SweptIn, Held, Objects
  <2>5. pc[heap[i].thread] \in {"run", "init", "returned"} => heap[i].deleted = 0
    BY <2>1 DEF IInv, NoneEarly, Uncollected
  <2> QED
    BY <2>1, <2>2, <2>4, <2>5
<1> QED
  BY <1>1, Invariance, PTL

=============================================================================
