--------------------------- MODULE LogFileProofs ---------------------------
(***************************************************************************)
(* LogFile for any threads, programs, sizes, intervals and clocks, with    *)
(* and without failures of the disk: no byte is lost, repeated or moved,   *)
(* and no file name is used twice.                                         *)
(***************************************************************************)
EXTENDS LogFile, SequenceTheorems, FiniteSetTheorems, TLAPS

----------------------------------------------------------------------------
(* Sequences cut and joined *)

LEMMA SplitAt ==
    ASSUME NEW S, NEW q \in Seq(S), NEW k \in 0 .. Len(q)
    PROVE  /\ SubSeq(q, 1, k) \in Seq(S) /\ SubSeq(q, k + 1, Len(q)) \in Seq(S)
           /\ Len(SubSeq(q, k + 1, Len(q))) = Len(q) - k
           /\ SubSeq(q, 1, k) \o SubSeq(q, k + 1, Len(q)) = q
<1>1. Len(q) \in Nat /\ \A i \in 1 .. Len(q) : q[i] \in S
  BY LenProperties, ElementOfSeq
<1>2. SubSeq(q, 1, k) \in Seq(S)
  BY <1>1, SubSeqProperties
<1>3. /\ SubSeq(q, k + 1, Len(q)) \in Seq(S)
      /\ Len(SubSeq(q, k + 1, Len(q))) = Len(q) - k
  BY <1>1, SubSeqProperties
<1>4. SubSeq(q, 1, k) \o SubSeq(q, k + 1, Len(q)) = SubSeq(q, 1, Len(q))
  <2>1. 1 \in 1 .. Len(q) + 1 /\ k \in 1 - 1 .. Len(q) /\ Len(q) \in k .. Len(q)
    BY <1>1
  <2> QED
    BY <2>1, ConcatAdjacentSubSeq
<1> QED
  BY <1>2, <1>3, <1>4, SubSeqFull

LEMMA CutEnd ==
    ASSUME NEW S, NEW p \in Seq(S), NEW q \in Seq(S)
    PROVE  SubSeq(p \o q, 1, Len(p \o q) - Len(q)) = p
<1>1. /\ Len(p) \in Nat /\ Len(q) \in Nat /\ p \o q \in Seq(S)
      /\ Len(p \o q) - Len(q) = Len(p)
  BY LenProperties, ConcatProperties
<1>2. CASE Len(p) = 0
  BY <1>1, <1>2, SubSeqEmpty, EmptySeq
<1>3. CASE Len(p) > 0
  <2>1. SubSeq(p \o q, 1, Len(p)) = SubSeq(p, 1, Len(p))
    BY <1>1, <1>3, SubSeqOfConcat1
  <2> QED
    BY <1>1, <2>1, SubSeqFull
<1> QED
  BY <1>1, <1>2, <1>3

----------------------------------------------------------------------------
(* A write(): the first bytes of the line go behind the buffer, and the    *)
(* first of these behind the file.                                         *)

LEMMA BytesConcat ==
    \A p, q \in Seq(Bytes) : p \o q \in Seq(Bytes)
BY ConcatProperties

LEMMA BytesAssoc ==
    \A p, q, r \in Seq(Bytes) : (p \o q) \o r = p \o (q \o r)
BY ConcatAssociative

LEMMA FileRegroup ==
    ASSUME TypeOK
    PROVE  \A l \in Seq(Bytes) :
               archive \o (disk \o (buffer \o l)) = (archive \o (disk \o buffer)) \o l
<1> TAKE l \in Seq(Bytes)
<1>1. PICK d : d \in Seq(Bytes) /\ d = disk \o buffer
  BY BytesConcat DEF TypeOK
<1>2. disk \o (buffer \o l) = d \o l
  <2>1. disk \in Seq(Bytes) /\ buffer \in Seq(Bytes)
    BY DEF TypeOK
  <2>2. disk \o (buffer \o l) = (disk \o buffer) \o l
    BY <2>1, BytesAssoc
  <2> QED
    BY <1>1, <2>2
<1>3. archive \o (d \o l) = (archive \o d) \o l
  <2>1. archive \in Seq(Bytes) /\ d \in Seq(Bytes)
    BY <1>1 DEF TypeOK
  <2> QED
    BY <2>1, BytesAssoc
<1> QED
  BY <1>1, <1>2, <1>3

LEMMA BytesSplit ==
    \A q \in Seq(Bytes) : \A k \in 0 .. Len(q) :
        /\ SubSeq(q, 1, k) \in Seq(Bytes) /\ SubSeq(q, k + 1, Len(q)) \in Seq(Bytes)
        /\ Len(SubSeq(q, k + 1, Len(q))) = Len(q) - k
        /\ SubSeq(q, 1, k) \o SubSeq(q, k + 1, Len(q)) = q
BY SplitAt

Left(t, x) == SubSeq(rest[t], x + 1, Len(rest[t]))

LEMMA TakesMoves ==
    ASSUME TypeOK, NEW t \in Threads, NEW x \in 0 .. Len(rest[t]), Takes(t, x)
    PROVE  /\ disk' \in Seq(Bytes) /\ buffer' \in Seq(Bytes) /\ Left(t, x) \in Seq(Bytes)
           /\ disk' \o (buffer' \o Left(t, x)) = disk \o (buffer \o rest[t])
           /\ x = Len(rest[t]) => Left(t, x) = <<>>
           /\ x = 0 => disk' \o buffer' = disk \o buffer
<1>1. disk \in Seq(Bytes) /\ buffer \in Seq(Bytes) /\ rest[t] \in Seq(Bytes)
  BY DEF TypeOK
<1>2. PICK f : f \in Seq(Bytes) /\ f = SubSeq(rest[t], 1, x) /\ f \o Left(t, x) = rest[t]
  BY <1>1, BytesSplit DEF Left
<1>3. PICK l : l \in Seq(Bytes) /\ l = Left(t, x) /\ Len(l) = Len(rest[t]) - x
  BY <1>1, BytesSplit DEF Left
<1>4. PICK q : q \in Seq(Bytes) /\ q = buffer \o f
  BY <1>1, <1>2, BytesConcat
<1>5. PICK k \in 0 .. Len(q) : /\ disk' = disk \o SubSeq(q, 1, k)
                              /\ buffer' = SubSeq(q, k + 1, Len(q))
  BY <1>2, <1>4 DEF Takes
<1>6. PICK o : o \in Seq(Bytes) /\ disk' = disk \o o /\ o \o buffer' = q
  <2>1. /\ SubSeq(q, 1, k) \in Seq(Bytes)
        /\ SubSeq(q, 1, k) \o SubSeq(q, k + 1, Len(q)) = q
    BY <1>4, BytesSplit
  <2> QED
    BY <1>5, <2>1
<1>7. buffer' \in Seq(Bytes) /\ disk' \in Seq(Bytes)
  <2>1. SubSeq(q, k + 1, Len(q)) \in Seq(Bytes)
    BY <1>4, BytesSplit
  <2>2. disk \o o \in Seq(Bytes)
    BY <1>1, <1>6, BytesConcat
  <2> QED
    BY <1>5, <1>6, <2>1, <2>2
<1>8. disk' \o (buffer' \o l) = disk \o (buffer \o (f \o l))
  <2>1. buffer' \o l \in Seq(Bytes)
    BY <1>3, <1>7, BytesConcat
  <2>2. (disk \o o) \o (buffer' \o l) = disk \o (o \o (buffer' \o l))
    <3>1. disk \in Seq(Bytes) /\ o \in Seq(Bytes)
      BY <1>1, <1>6
    <3> QED
      BY <2>1, <3>1, BytesAssoc
  <2>3. (o \o buffer') \o l = o \o (buffer' \o l)
    <3>1. o \in Seq(Bytes) /\ buffer' \in Seq(Bytes) /\ l \in Seq(Bytes)
      BY <1>3, <1>6, <1>7
    <3> QED
      BY <3>1, BytesAssoc
  <2>4. (buffer \o f) \o l = buffer \o (f \o l)
    <3>1. buffer \in Seq(Bytes) /\ f \in Seq(Bytes) /\ l \in Seq(Bytes)
      BY <1>1, <1>2, <1>3
    <3> QED
      BY <3>1, BytesAssoc
  <2>5. disk' = disk \o o /\ o \o buffer' = buffer \o f
    BY <1>4, <1>6
  <2> QED
    BY <2>2, <2>3, <2>4, <2>5
<1>9. x = Len(rest[t]) => l = <<>>
  BY <1>1, <1>3, EmptySeq, LenProperties
<1>10. x = 0 => disk' \o buffer' = disk \o buffer
  <2>1. x = 0 => buffer \o f = buffer
    BY <1>1, <1>2, SubSeqEmpty, ConcatEmptySeq
  <2>2. (disk \o o) \o buffer' = disk \o (o \o buffer')
    <3>1. disk \in Seq(Bytes) /\ o \in Seq(Bytes) /\ buffer' \in Seq(Bytes)
      BY <1>1, <1>6, <1>7
    <3> QED
      BY <3>1, BytesAssoc
  <2>3. disk' = disk \o o /\ o \o buffer' = buffer \o f
    BY <1>4, <1>6
  <2> QED
    BY <2>1, <2>2, <2>3
<1> QED
  BY <1>2, <1>3, <1>7, <1>8, <1>9, <1>10

----------------------------------------------------------------------------
(* What writes the buffer out, in whole or in part: fflush() and the close *)
(* of a file.                                                              *)

LEMMA DrainMoves ==
    ASSUME TypeOK, NEW k \in Drained
    PROVE  /\ k \in 0 .. Len(buffer)
           /\ disk \o SubSeq(buffer, 1, k) \in Seq(Bytes)
           /\ SubSeq(buffer, k + 1, Len(buffer)) \in Seq(Bytes)
           /\ Len(SubSeq(buffer, k + 1, Len(buffer))) = Len(buffer) - k
           /\ (disk \o SubSeq(buffer, 1, k)) \o SubSeq(buffer, k + 1, Len(buffer))
                  = disk \o buffer
<1>1. disk \in Seq(Bytes) /\ buffer \in Seq(Bytes) /\ Len(buffer) \in Nat
  BY LenProperties DEF TypeOK
<1>2. k \in 0 .. Len(buffer)
  BY <1>1 DEF Drained
<1>3. PICK f : f \in Seq(Bytes) /\ f = SubSeq(buffer, 1, k)
  BY <1>1, <1>2, BytesSplit
<1>4. PICK l : /\ l \in Seq(Bytes) /\ l = SubSeq(buffer, k + 1, Len(buffer))
               /\ Len(l) = Len(buffer) - k
  BY <1>1, <1>2, BytesSplit
<1>5. f \o l = buffer
  BY <1>1, <1>2, <1>3, <1>4, BytesSplit
<1>6. disk \o f \in Seq(Bytes)
  BY <1>1, <1>3, BytesConcat
<1>7. (disk \o f) \o l = disk \o (f \o l)
  <2>1. disk \in Seq(Bytes) /\ f \in Seq(Bytes) /\ l \in Seq(Bytes)
    BY <1>1, <1>3, <1>4
  <2> QED
    BY <2>1, BytesAssoc
<1> QED
  BY <1>2, <1>3, <1>4, <1>5, <1>6, <1>7

LEMMA NewFileMoves ==
    ASSUME TypeOK, NewFile, logged = archive \o (disk \o buffer)
    PROVE  /\ archive' \in Seq(Bytes) /\ disk' \in Seq(Bytes) /\ buffer' \in Seq(Bytes)
           /\ logged' \in Seq(Bytes)
           /\ logged' = archive' \o (disk' \o buffer')
<1>1. PICK k \in Drained : /\ archive' = archive \o (disk \o SubSeq(buffer, 1, k))
                           /\ logged' = SubSeq(logged, 1, Len(logged) - (Len(buffer) - k))
  BY DEF NewFile
<1>2. PICK d : d \in Seq(Bytes) /\ d = disk \o SubSeq(buffer, 1, k)
  BY DrainMoves
<1>3. PICK l : /\ l \in Seq(Bytes) /\ l = SubSeq(buffer, k + 1, Len(buffer))
               /\ Len(l) = Len(buffer) - k
  BY DrainMoves
<1>4. d \o l = disk \o buffer
  BY <1>2, <1>3, DrainMoves
<1>5. archive \o d \in Seq(Bytes)
  BY <1>2, BytesConcat DEF TypeOK
<1>6. (archive \o d) \o l = archive \o (d \o l)
  <2>1. archive \in Seq(Bytes) /\ d \in Seq(Bytes) /\ l \in Seq(Bytes)
    BY <1>2, <1>3 DEF TypeOK
  <2> QED
    BY <2>1, BytesAssoc
<1>7. logged = (archive \o d) \o l
  BY <1>4, <1>6
<1>8. SubSeq((archive \o d) \o l, 1, Len((archive \o d) \o l) - Len(l)) = archive \o d
  BY <1>3, <1>5, CutEnd
<1>9. logged' = archive' /\ archive' \in Seq(Bytes)
  BY <1>1, <1>2, <1>3, <1>5, <1>7, <1>8
<1>10. disk' = <<>> /\ buffer' = <<>>
  BY DEF NewFile
<1>11. <<>> \in Seq(Bytes) /\ <<>> \o <<>> = <<>> /\ archive' \o <<>> = archive'
  BY <1>9, EmptySeq, ConcatEmptySeq
<1> QED
  BY <1>9, <1>10, <1>11

----------------------------------------------------------------------------
(* The inductive invariant: Intact, and that calls exclude each other, by  *)
(* the mutex or because there is a single thread.                          *)

Exclusive == ThreadSafe => \A t \in Threads : owner = t <=> pc[t] # "idle"

Safe == TypeOK /\ Exclusive

IInv == Safe /\ Intact

LEMMA OneAtATime ==
    ASSUME Safe, NEW t \in Threads, NEW u \in Threads, pc[t] # "idle", pc[u] # "idle"
    PROVE  t = u
<1>1. CASE ThreadSafe
  BY <1>1 DEF Safe, Exclusive
<1>2. CASE ~ThreadSafe
  <2>1. Cardinality(Threads) = 1 /\ IsFiniteSet(Threads)
    BY <1>2, ContractAssumption, ThreadsAssumption
  <2> QED
    BY <2>1, FS_Singleton
<1> QED
  BY <1>1, <1>2

\* Whoever is inside is the only one.
LEMMA NobodyElseWrites ==
    ASSUME Safe, NEW t \in Threads, pc[t] # "idle"
    PROVE  /\ Writers = IF pc[t] \in {"write", "writeMore"} THEN {t} ELSE {}
           /\ \A u \in Threads \ {t} : pc[u] = "idle"
BY OneAtATime DEF Writers

----------------------------------------------------------------------------
(* Small facts about the data *)

LEMMA LineBytes ==
    ASSUME TypeOK, NEW t \in Threads, next[t] \in DOMAIN Program[t]
    PROVE  /\ Line(t, next[t]) \in Seq(Bytes)
           /\ Len(Line(t, next[t])) = Program[t][next[t]]
           /\ Program[t][next[t]] \in Nat
<1>1. Program[t][next[t]] \in Nat
  BY ProgramAssumption, ElementOfSeq, LenProperties
<1>2. \A k \in 1 .. Program[t][next[t]] :
          [line |-> <<t, next[t]>>, nth |-> k, at |-> clock] \in Bytes
  BY <1>1 DEF TypeOK, Bytes
<1>3. Line(t, next[t]) \in [1 .. Program[t][next[t]] -> Bytes]
  BY <1>2 DEF Line
<1>4. /\ Line(t, next[t]) \in Seq(Bytes)
      /\ DOMAIN Line(t, next[t]) = 1 .. Program[t][next[t]]
  BY <1>1, <1>3, IsASeq
<1> QED
  BY <1>1, <1>4, LenProperties

LEMMA PeriodType == \A s \in Nat : Period(s) \in Nat
<1> SUFFICES ASSUME NEW s \in Nat PROVE Period(s) \in Nat
  OBVIOUS
<1>1. s \div RollPerSeconds \in Nat
  BY SizesAssumption
<1> QED
  BY <1>1, SizesAssumption DEF Period

LEMMA InitIInv == Init => IInv
<1> SUFFICES ASSUME Init PROVE IInv
  OBVIOUS
<1>1. <<>> \in Seq(Bytes) /\ <<>> \o <<>> = <<>>
  BY EmptySeq, ConcatEmptySeq
<1>2. MonitorTypeOK
  BY DEF Init, MonitorInit, MonitorTypeOK
<1>3. Period(StartTime) \in Nat
  BY PeriodType, SizesAssumption
<1>4. TypeOK
  BY <1>1, <1>2, <1>3, SizesAssumption DEF Init, TypeOK, Steps
<1>5. Exclusive
  BY ThreadsAssumption DEF Init, MonitorInit, Exclusive
<1>6. Intact
  BY <1>1 DEF Init, Intact, Writers
<1> QED
  BY <1>4, <1>5, <1>6 DEF IInv, Safe

----------------------------------------------------------------------------
(* Types and exclusion *)

LEMMA NextSafe == IInv /\ [Next]_vars => Safe'
<1> SUFFICES ASSUME IInv, [Next]_vars PROVE Safe'
  OBVIOUS
<1> USE DEF Goto, Steps, MonitorTypeOK
<1>a. TypeOK /\ Exclusive
  BY DEF IInv, Safe
<1>b. ThreadSafe \in BOOLEAN /\ NoThread \notin Threads
  BY ContractAssumption, ThreadsAssumption
<1>1. ASSUME NEW t \in Threads, Enter(t) PROVE Safe'
  <2>1. /\ next[t] \in DOMAIN Program[t] /\ pc[t] = "idle"
        /\ logged' = logged \o Line(t, next[t])
        /\ rest' = [rest EXCEPT ![t] = Line(t, next[t])]
        /\ look' = [look EXCEPT ![t] = 0]
        /\ \E s \in {"flush", "write"} : pc' = [pc EXCEPT ![t] = s]
        /\ UNCHANGED <<waiters, clock, fileVars, count_, timeVars, next, alive>>
    BY <1>1 DEF Enter
  <2>2. /\ ThreadSafe => owner = NoThread /\ owner' = t /\ holder_' = t
        /\ ~ThreadSafe => UNCHANGED <<owner, holder_>>
    BY <1>1 DEF Enter, Lock
  <2>3. Line(t, next[t]) \in Seq(Bytes) /\ logged \o Line(t, next[t]) \in Seq(Bytes)
    BY <1>a, <2>1, LineBytes, BytesConcat DEF TypeOK
  <2>4. MonitorTypeOK'
    BY <1>a, <1>b, <2>1, <2>2 DEF TypeOK
  <2>5. TypeOK'
    <3> HIDE DEF MonitorTypeOK
    <3> QED
      BY <1>a, <2>1, <2>3, <2>4 DEF TypeOK, fileVars, timeVars
  <2>6. Exclusive'
    BY <1>a, <1>b, <2>1, <2>2, SMTT(30) DEF TypeOK, Exclusive
  <2> QED
    BY <2>5, <2>6 DEF Safe
<1>2. ASSUME NEW t \in Threads, Leave(t) PROVE Safe'
  <2>1. /\ pc[t] = "leave" /\ pc' = [pc EXCEPT ![t] = "idle"]
        /\ next' = [next EXCEPT ![t] = @ + 1]
        /\ UNCHANGED <<waiters, clock, fileVars, count_, timeVars, rest, look, alive, logged>>
    BY <1>2 DEF Leave
  <2>2. /\ ThreadSafe => owner' = NoThread /\ holder_' = NoThread
        /\ ~ThreadSafe => UNCHANGED <<owner, holder_>>
    BY <1>2 DEF Leave, Unlock
  <2>3. MonitorTypeOK'
    BY <1>a, <1>b, <2>1, <2>2 DEF TypeOK
  <2>4. TypeOK'
    <3> HIDE DEF MonitorTypeOK
    <3>1. next' \in [Threads -> Nat \ {0}] /\ pc' \in [Threads -> Steps]
      BY <1>a, <2>1 DEF TypeOK
    <3>2. \A u \in Threads : pc'[u] # "idle" => next'[u] \in DOMAIN Program[u]
      BY <1>a, <2>1 DEF TypeOK
    <3>3. UNCHANGED <<clock, fileVars, count_, timeVars, rest, look, alive, logged>>
      BY <2>1
    <3> QED
      BY <1>a, <2>3, <3>1, <3>2, <3>3 DEF TypeOK, fileVars, timeVars
  <2>5. Exclusive'
    <3>1. \A u \in Threads \ {t} : pc[u] = "idle"
      BY <1>a, <2>1, NobodyElseWrites DEF Safe
    <3> QED
      BY <1>a, <1>b, <2>1, <2>2, <3>1 DEF TypeOK, Exclusive
  <2> QED
    BY <2>4, <2>5 DEF Safe
<1>3. ASSUME NEW t \in Threads, Write(t) PROVE Safe'
  <2>1. PICK x \in 0 .. Len(rest[t]) :
            /\ Takes(t, x)
            /\ rest' = [rest EXCEPT ![t] = Left(t, x)]
            /\ pc' = [pc EXCEPT ![t] = IF x = Len(rest[t]) THEN "counted" ELSE "writeMore"]
    <3>1. PICK x \in Accepted(t) :
              /\ Takes(t, x)
              /\ rest' = [rest EXCEPT ![t] = SubSeq(@, x + 1, Len(@))]
              /\ Goto(t, IF x = Len(rest[t]) THEN "counted" ELSE "writeMore")
      BY <1>3 DEF Write
    <3>2. x \in 0 .. Len(rest[t])
      BY <1>a, LenProperties DEF Accepted, TypeOK
    <3> QED
      BY <3>1, <3>2 DEF Left
  <2>2. disk' \in Seq(Bytes) /\ buffer' \in Seq(Bytes) /\ Left(t, x) \in Seq(Bytes)
    BY <1>a, <2>1, TakesMoves
  <2>a. UNCHANGED <<monitorVars, clock, count_, timeVars, next, look, alive, logged, fileName,
                    writtenBytes_, raw, closed, archive>>
    BY <1>3, <2>1 DEF Write, Takes
  <2>b. pc[t] = "write"
    BY <1>3 DEF Write
  <2>3. TypeOK'
    BY <1>a, <2>1, <2>2, <2>a, <2>b DEF TypeOK, timeVars, monitorVars
  <2>4. Exclusive'
    BY <1>a, <1>3, <2>1 DEF Write, monitorVars, TypeOK, Exclusive
  <2> QED
    BY <2>3, <2>4 DEF Safe
<1>4. ASSUME NEW t \in Threads, WriteMore(t) PROVE Safe'
  <2>1. PICK x \in 0 .. Len(rest[t]) :
            /\ Takes(t, x)
            /\ \/ /\ rest' = [rest EXCEPT ![t] = <<>>]
                  /\ logged' = SubSeq(logged, 1, Len(logged) - Len(rest[t]))
               \/ /\ rest' = [rest EXCEPT ![t] = Left(t, x)]
                  /\ logged' = logged
            /\ \E s \in {"counted", "writeMore"} : pc' = [pc EXCEPT ![t] = s]
    <3>1. PICK x \in Accepted(t) :
              /\ Takes(t, x)
              /\ IF x = 0
                 THEN /\ rest' = [rest EXCEPT ![t] = <<>>]
                      /\ logged' = SubSeq(logged, 1, Len(logged) - Len(rest[t]))
                      /\ Goto(t, "counted")
                 ELSE /\ rest' = [rest EXCEPT ![t] = SubSeq(@, x + 1, Len(@))]
                      /\ Goto(t, IF x = Len(rest[t]) THEN "counted" ELSE "writeMore")
                      /\ UNCHANGED logged
      BY <1>4 DEF WriteMore
    <3>2. x \in 0 .. Len(rest[t])
      BY <1>a, LenProperties DEF Accepted, TypeOK
    <3>3. CASE x = 0
      BY <3>1, <3>2, <3>3
    <3>4. CASE x # 0
      BY <3>1, <3>2, <3>4 DEF Left
    <3> QED
      BY <3>3, <3>4
  <2>2. /\ disk' \in Seq(Bytes) /\ buffer' \in Seq(Bytes) /\ Left(t, x) \in Seq(Bytes)
        /\ <<>> \in Seq(Bytes)
    BY <1>a, <2>1, TakesMoves, EmptySeq
  <2>3. logged' \in Seq(Bytes)
    <3>1. Len(logged) \in Nat /\ Len(rest[t]) \in Nat /\ \A i \in 1 .. Len(logged) : logged[i] \in Bytes
      BY <1>a, LenProperties, ElementOfSeq DEF TypeOK
    <3>2. SubSeq(logged, 1, Len(logged) - Len(rest[t])) \in Seq(Bytes)
      BY <3>1, SubSeqProperties
    <3> QED
      BY <1>a, <2>1, <3>2 DEF TypeOK
  <2>a. UNCHANGED <<monitorVars, clock, count_, timeVars, next, look, alive, fileName,
                    writtenBytes_, raw, closed, archive>>
    BY <1>4, <2>1 DEF WriteMore, Takes
  <2>b. pc[t] = "writeMore"
    BY <1>4 DEF WriteMore
  <2>c. rest' \in [Threads -> Seq(Bytes)]
    <3>1. rest' = [rest EXCEPT ![t] = <<>>] \/ rest' = [rest EXCEPT ![t] = Left(t, x)]
      BY <2>1
    <3> QED
      BY <1>a, <2>2, <3>1 DEF TypeOK
  <2>d. /\ pc' \in [Threads -> Steps]
        /\ \A u \in Threads : pc'[u] # "idle" => pc[u] # "idle"
    <3>1. \E s \in {"counted", "writeMore"} : pc' = [pc EXCEPT ![t] = s]
      BY <2>1
    <3> QED
      BY <1>a, <2>b, <3>1 DEF TypeOK
  <2>4. TypeOK'
    BY <1>a, <2>2, <2>3, <2>a, <2>c, <2>d DEF TypeOK, timeVars, monitorVars
  <2>5. Exclusive'
    BY <1>a, <1>4, <2>1 DEF WriteMore, monitorVars, TypeOK, Exclusive
  <2> QED
    BY <2>4, <2>5 DEF Safe
<1>5. ASSUME NEW t \in Threads, Counted(t) PROVE Safe'
  <2>1. writtenBytes_' \in 0 .. SizeRange - 1
    <3>1. Program[t][next[t]] \in Nat /\ writtenBytes_ \in Nat
      BY <1>a, <1>5, LineBytes, SizesAssumption DEF Counted, TypeOK
    <3>2. writtenBytes_' = (writtenBytes_ + Program[t][next[t]]) % SizeRange
      BY <1>5 DEF Counted
    <3> QED
      BY <3>1, <3>2, SizesAssumption
  <2>2. /\ count_' \in Int
        /\ \E s \in {"roll", "look", "leave"} : pc' = [pc EXCEPT ![t] = s]
    <3>1. count_ \in Int
      BY <1>a DEF TypeOK
    <3>2. \/ Goto(t, "roll") /\ UNCHANGED count_
          \/ Goto(t, "look") /\ UNCHANGED count_
          \/ Goto(t, "leave") /\ count_' = count_ + 1
      BY <1>5 DEF Counted
    <3> QED
      BY <3>1, <3>2
  <2>3. /\ UNCHANGED <<monitorVars, clock, fileName, disk, buffer, raw, closed, archive, timeVars,
                       next, rest, look, alive, logged>>
        /\ pc[t] = "counted"
    BY <1>5 DEF Counted
  <2>4. TypeOK'
    BY <1>a, <2>1, <2>2, <2>3 DEF TypeOK, timeVars, monitorVars
  <2>5. Exclusive'
    BY <1>a, <2>2, <2>3 DEF monitorVars, TypeOK, Exclusive
  <2> QED
    BY <2>4, <2>5 DEF Safe
<1>6. ASSUME NEW t \in Threads, Look(t) PROVE Safe'
  <2>1. /\ pc[t] = "look" /\ count_' = 0 /\ look' = [look EXCEPT ![t] = clock]
        /\ UNCHANGED <<monitorVars, clock, fileVars, startOfPeriod_, lastRoll_, next, rest,
                       alive, logged>>
    BY <1>6 DEF Look
  <2>2. /\ lastFlush_' \in {lastFlush_, clock}
        /\ \E s \in {"roll", "flush", "leave"} : pc' = [pc EXCEPT ![t] = s]
    BY <1>6 DEF Look
  <2>3. TypeOK'
    BY SMTT(30), <1>a, <2>1, <2>2 DEF TypeOK, fileVars, monitorVars
  <2>4. Exclusive'
    BY <1>a, <2>1, <2>2 DEF monitorVars, TypeOK, Exclusive
  <2> QED
    BY <2>3, <2>4 DEF Safe
<1>7. ASSUME NEW t \in Threads, Flush(t) PROVE Safe'
  <2>1. disk' \in Seq(Bytes) /\ buffer' \in Seq(Bytes)
    BY <1>a, <1>7, DrainMoves DEF Flush
  <2>2. TypeOK'
    BY <1>a, <1>7, <2>1 DEF Flush, TypeOK, timeVars, monitorVars
  <2>3. Exclusive'
    BY <1>a, <1>7 DEF Flush, monitorVars, TypeOK, Exclusive
  <2> QED
    BY <2>2, <2>3 DEF Safe
<1>8. ASSUME NEW t \in Threads, RollFile(t) PROVE Safe'
  <2>1. CASE clock > lastRoll_
    <3>1. Writers = {}
      BY <1>8, NobodyElseWrites DEF RollFile, IInv
    <3>2. NewFile /\ logged = archive \o (disk \o buffer)
      BY <1>8, <2>1, <3>1 DEF RollFile, IInv, Intact
    <3>3. /\ archive' \in Seq(Bytes) /\ disk' \in Seq(Bytes) /\ buffer' \in Seq(Bytes)
          /\ logged' \in Seq(Bytes)
      BY <1>a, <3>2, NewFileMoves
    <3>4. Period(clock) \in Nat /\ RawBytes \subseteq 0 .. SizeRange - 1
      BY <1>a, PeriodType, SizesAssumption DEF TypeOK
    <3>5. TypeOK'
      BY <1>a, <1>8, <3>2, <3>3, <3>4 DEF RollFile, NewFile, TypeOK, monitorVars
    <3>6. Exclusive'
      BY <1>a, <1>8 DEF RollFile, monitorVars, TypeOK, Exclusive
    <3> QED
      BY <3>5, <3>6 DEF Safe
  <2>2. CASE ~(clock > lastRoll_)
    BY <1>a, <1>8, <2>2 DEF RollFile, Safe, TypeOK, Exclusive, fileVars, timeVars, monitorVars
  <2> QED
    BY <2>1, <2>2
<1>9. ASSUME NEW t \in Threads, OpenFails(t) PROVE Safe'
  BY <1>a, <1>9 DEF OpenFails, Safe, TypeOK, Exclusive, fileVars, timeVars, monitorVars
<1>10. ASSUME Tick PROVE Safe'
  BY <1>a, <1>10, SizesAssumption
     DEF Tick, Safe, TypeOK, Exclusive, fileVars, timeVars, monitorVars
<1>11. ASSUME UNCHANGED vars PROVE Safe'
  BY <1>a, <1>11 DEF vars, Safe, TypeOK, Exclusive, fileVars, timeVars, monitorVars
<1> QED
  BY <1>1, <1>2, <1>3, <1>4, <1>5, <1>6, <1>7, <1>8, <1>9, <1>10, <1>11
     DEF Next, Step, Finished

----------------------------------------------------------------------------
(* Nothing is lost *)

\* A step of one thread that leaves the bytes alone, outside write().
LEMMA IntactCalm ==
    ASSUME Safe, Intact, NEW t \in Threads, pc[t] \notin {"idle", "write", "writeMore"},
           UNCHANGED <<archive, disk, buffer, logged>>,
           \E s \in {"idle", "look", "roll", "flush", "leave"} : pc' = [pc EXCEPT ![t] = s]
    PROVE  Intact'
<1>1. Writers = {} /\ \A u \in Threads \ {t} : pc[u] = "idle"
  BY NobodyElseWrites
<1>2. Writers' = {}
  BY <1>1 DEF Writers, Safe, TypeOK
<1> QED
  BY <1>1, <1>2 DEF Intact

LEMMA NextIntact == IInv /\ [Next]_vars => Intact'
<1> SUFFICES ASSUME IInv, [Next]_vars PROVE Intact'
  OBVIOUS
<1> USE DEF Goto
<1>a. /\ Safe /\ TypeOK /\ Exclusive /\ Intact /\ pc \in [Threads -> Steps]
      /\ rest \in [Threads -> Seq(Bytes)]
  BY DEF IInv, Safe, TypeOK
<1>b. archive \in Seq(Bytes) /\ disk \in Seq(Bytes) /\ buffer \in Seq(Bytes)
  BY <1>a DEF TypeOK
<1>1. ASSUME NEW t \in Threads, Enter(t) PROVE Intact'
  <2>1. \A u \in Threads : pc[u] = "idle"
    <3>1. CASE ThreadSafe
      BY <1>a, <1>1, <3>1, ThreadsAssumption DEF Enter, Lock, Exclusive
    <3>2. CASE ~ThreadSafe
      <4>1. Cardinality(Threads) = 1 /\ IsFiniteSet(Threads)
        BY <3>2, ContractAssumption, ThreadsAssumption
      <4>2. pc[t] = "idle"
        BY <1>1 DEF Enter
      <4> QED
        BY <4>1, <4>2, FS_Singleton
    <3> QED
      BY <3>1, <3>2
  <2>2. archive \o (disk \o buffer) = logged
    BY <1>a, <2>1 DEF Intact, Writers
  <2>3. /\ Line(t, next[t]) \in Seq(Bytes)
        /\ Program[t][next[t]] = FlushCall => Line(t, next[t]) = <<>>
    <3>1. next[t] \in DOMAIN Program[t]
      BY <1>1 DEF Enter
    <3>2. /\ Line(t, next[t]) \in Seq(Bytes)
          /\ Len(Line(t, next[t])) = Program[t][next[t]]
      BY <1>a, <3>1, LineBytes
    <3> QED
      BY <3>2, EmptySeq DEF FlushCall
  <2>4. /\ UNCHANGED <<archive, disk, buffer>>
        /\ logged' = logged \o Line(t, next[t])
        /\ rest'[t] = Line(t, next[t])
    BY <1>a, <1>1 DEF Enter, fileVars
  <2>5. CASE Program[t][next[t]] = FlushCall
    <3>1. Writers' = {}
      BY <1>a, <1>1, <2>1, <2>5 DEF Enter, Writers
    <3>2. logged \in Seq(Bytes) /\ logged' = logged \o <<>>
      BY <1>a, <2>3, <2>4, <2>5 DEF TypeOK
    <3>3. logged' = logged
      BY <3>2, ConcatEmptySeq
    <3> QED
      BY <2>2, <2>4, <3>1, <3>3 DEF Intact
  <2>6. CASE Program[t][next[t]] # FlushCall
    <3>1. Writers' = {t}
      BY <1>a, <1>1, <2>1, <2>6 DEF Enter, Writers
    <3>2. PICK l \in Seq(Bytes) : l = Line(t, next[t])
      BY <2>3
    <3>3. archive \o (disk \o (buffer \o l)) = (archive \o (disk \o buffer)) \o l
      BY <1>a, FileRegroup
    <3> QED
      BY <2>2, <2>4, <3>1, <3>2, <3>3 DEF Intact
  <2> QED
    BY <2>5, <2>6
<1>2. ASSUME NEW t \in Threads, NEW x \in 0 .. Len(rest[t]), Takes(t, x), t \in Writers
      PROVE  /\ archive' \o (disk' \o (buffer' \o Left(t, x))) = logged
             /\ x = Len(rest[t]) => archive' \o (disk' \o buffer') = logged
  <2>1. archive \o (disk \o (buffer \o rest[t])) = logged /\ archive' = archive
    BY <1>a, <1>2 DEF Intact, Takes
  <2>2. /\ disk' \o (buffer' \o Left(t, x)) = disk \o (buffer \o rest[t])
        /\ x = Len(rest[t]) => Left(t, x) = <<>>
        /\ buffer' \in Seq(Bytes)
    BY <1>a, <1>2, TakesMoves
  <2>3. x = Len(rest[t]) => buffer' \o Left(t, x) = buffer'
    BY <2>2, ConcatEmptySeq
  <2> QED
    BY <2>1, <2>2, <2>3
<1>3. ASSUME NEW t \in Threads, Write(t) PROVE Intact'
  <2>1. PICK x \in Accepted(t) :
            /\ Takes(t, x)
            /\ rest' = [rest EXCEPT ![t] = SubSeq(@, x + 1, Len(@))]
            /\ Goto(t, IF x = Len(rest[t]) THEN "counted" ELSE "writeMore")
    BY <1>3 DEF Write
  <2>2. x \in 0 .. Len(rest[t]) /\ rest'[t] = Left(t, x) /\ logged' = logged /\ pc[t] = "write"
    <3>1. x \in 0 .. Len(rest[t])
      BY <1>a, LenProperties DEF Accepted
    <3>2. rest'[t] = Left(t, x)
      BY <1>a, <2>1 DEF Left
    <3> QED
      BY <1>3, <3>1, <3>2 DEF Write
  <2>3. t \in Writers /\ \A u \in Threads \ {t} : pc[u] = "idle"
    BY <1>a, <2>2, NobodyElseWrites DEF Writers
  <2>4. Writers' = IF x = Len(rest[t]) THEN {} ELSE {t}
    BY <1>a, <2>1, <2>2, <2>3 DEF Writers
  <2>5. /\ archive' \o (disk' \o (buffer' \o Left(t, x))) = logged
        /\ x = Len(rest[t]) => archive' \o (disk' \o buffer') = logged
    BY <1>2, <2>1, <2>2, <2>3
  <2> QED
    BY <2>2, <2>4, <2>5 DEF Intact
<1>4. ASSUME NEW t \in Threads, WriteMore(t) PROVE Intact'
  <2>1. PICK x \in Accepted(t) :
            /\ Takes(t, x)
            /\ IF x = 0
               THEN /\ rest' = [rest EXCEPT ![t] = <<>>]
                    /\ logged' = SubSeq(logged, 1, Len(logged) - Len(rest[t]))
                    /\ Goto(t, "counted")
               ELSE /\ rest' = [rest EXCEPT ![t] = SubSeq(@, x + 1, Len(@))]
                    /\ Goto(t, IF x = Len(rest[t]) THEN "counted" ELSE "writeMore")
                    /\ UNCHANGED logged
    BY <1>4 DEF WriteMore
  <2>2. x \in 0 .. Len(rest[t]) /\ pc[t] = "writeMore"
    BY <1>a, <1>4, LenProperties DEF Accepted, WriteMore
  <2>3. t \in Writers /\ \A u \in Threads \ {t} : pc[u] = "idle"
    BY <1>a, <2>2, NobodyElseWrites DEF Writers
  <2>4. CASE x # 0
    <3>1. Writers' = IF x = Len(rest[t]) THEN {} ELSE {t}
      BY <1>a, <2>1, <2>2, <2>3, <2>4 DEF Writers
    <3>2. /\ archive' \o (disk' \o (buffer' \o Left(t, x))) = logged
          /\ x = Len(rest[t]) => archive' \o (disk' \o buffer') = logged
      BY <1>2, <2>1, <2>2, <2>3
    <3>3. rest'[t] = Left(t, x) /\ logged' = logged
      BY <1>a, <2>1, <2>4 DEF Left
    <3> QED
      BY <3>1, <3>2, <3>3 DEF Intact
  <2>5. CASE x = 0
    <3>1. Writers' = {}
      BY <1>a, <2>1, <2>3, <2>5 DEF Writers
    <3>2. disk' \o buffer' = disk \o buffer /\ archive' = archive
      BY <1>a, <2>1, <2>2, <2>5, TakesMoves DEF Takes
    <3>3. PICK r \in Seq(Bytes) : r = rest[t]
      BY <1>a
    <3>4. PICK p \in Seq(Bytes) : p = archive \o (disk \o buffer)
      BY <1>b, BytesConcat
    <3>5. logged = p \o r
      <4>1. archive \o (disk \o (buffer \o r)) = logged
        BY <1>a, <2>3, <3>3 DEF Intact
      <4>2. archive \o (disk \o (buffer \o r)) = (archive \o (disk \o buffer)) \o r
        BY <1>a, FileRegroup
      <4> QED
        BY <3>4, <4>1, <4>2
    <3>6. SubSeq(p \o r, 1, Len(p \o r) - Len(r)) = p
      BY CutEnd
    <3>7. logged' = p
      BY <2>1, <2>5, <3>3, <3>5, <3>6
    <3> QED
      BY <3>1, <3>2, <3>4, <3>7 DEF Intact
  <2> QED
    BY <2>4, <2>5
<1>5. ASSUME NEW t \in Threads, Leave(t) \/ Counted(t) \/ Look(t) PROVE Intact'
  <2>1. /\ UNCHANGED <<archive, disk, buffer, logged>>
        /\ pc[t] \in {"leave", "counted", "look"}
        /\ \E s \in {"idle", "look", "roll", "flush", "leave"} : pc' = [pc EXCEPT ![t] = s]
    BY <1>5 DEF Leave, Counted, Look, fileVars
  <2> QED
    BY <1>a, <2>1, IntactCalm
<1>6. ASSUME NEW t \in Threads, Flush(t) PROVE Intact'
  <2>1. Writers = {} /\ Writers' = {}
    BY <1>a, <1>6, NobodyElseWrites DEF Flush, Writers
  <2>2. disk' \o buffer' = disk \o buffer
    <3>1. PICK k \in Drained : /\ disk' = disk \o SubSeq(buffer, 1, k)
                               /\ buffer' = SubSeq(buffer, k + 1, Len(buffer))
      BY <1>6 DEF Flush
    <3> QED
      BY <1>a, <3>1, DrainMoves
  <2> QED
    BY <1>a, <1>6, <2>1, <2>2 DEF Flush, Intact
<1>7. ASSUME NEW t \in Threads, RollFile(t) PROVE Intact'
  <2>1. Writers = {} /\ Writers' = {}
    BY <1>a, <1>7, NobodyElseWrites DEF RollFile, Writers
  <2>2. CASE clock > lastRoll_
    <3>1. NewFile /\ logged = archive \o (disk \o buffer)
      BY <1>a, <1>7, <2>1, <2>2 DEF RollFile, Intact
    <3> QED
      BY <1>a, <2>1, <3>1, NewFileMoves DEF Intact
  <2>3. CASE ~(clock > lastRoll_)
    BY <1>a, <1>7, <2>1, <2>3 DEF RollFile, Intact, fileVars
  <2> QED
    BY <2>2, <2>3
<1>8. ASSUME UNCHANGED <<archive, disk, buffer, rest, logged, pc>> PROVE Intact'
  BY <1>a, <1>8 DEF Intact, Writers
<1> QED
  BY <1>1, <1>3, <1>4, <1>5, <1>6, <1>7, <1>8
     DEF Next, Step, OpenFails, Tick, Finished, vars, fileVars

----------------------------------------------------------------------------
(* The names of the files *)

Names == FreshNames /\ lastRoll_ = fileName

LEMMA NextNames == TypeOK /\ Names /\ [Next]_vars => Names'
<1> SUFFICES ASSUME TypeOK, Names, [Next]_vars PROVE Names'
  OBVIOUS
<1>1. ASSUME NewFile, clock > lastRoll_ PROVE Names'
  BY <1>1 DEF NewFile, Names, FreshNames, TypeOK
<1>2. ASSUME UNCHANGED <<fileName, closed, lastRoll_>> PROVE Names'
  BY <1>2 DEF Names, FreshNames
<1>3. ASSUME NEW t \in Threads, RollFile(t) PROVE Names'
  BY <1>1, <1>2, <1>3 DEF RollFile, fileVars, timeVars
<1> QED
  BY SMTT(30), <1>2, <1>3
     DEF Next, Step, Enter, Leave, Write, WriteMore, Takes, Counted, Look, Flush, OpenFails,
         Tick, Finished, vars, fileVars, timeVars

----------------------------------------------------------------------------
(* What a look at the clock achieves, where the clock only goes forward    *)
(* and the disk does not fail: the bytes of the buffer are no older than   *)
(* the last flush.                                                         *)

Since(q, m) == \A i \in 1 .. Len(q) : q[i].at >= m

Stamped == /\ lastRoll_ = fileName /\ startOfPeriod_ = Period(fileName)
           /\ fileName <= lastFlush_ /\ lastFlush_ <= clock
           /\ \A t \in Threads : look[t] <= clock

\* A line notes the time of a flush before it flushes.
Buffered == /\ (\A t \in Threads : pc[t] # "flush") => Since(buffer, lastFlush_)
            /\ \A t \in Writers : Since(rest[t], lastFlush_)

Looked == \A t \in Threads :
              /\ pc[t] \in {"write", "writeMore", "counted", "look"} => look[t] = 0
              /\ pc[t] = "flush" /\ look[t] # 0 => Period(look[t]) = startOfPeriod_

Recent == Stamped /\ Buffered /\ Looked /\ LookHelps

LEMMA PeriodMonotone == \A r, s \in Nat : r <= s => Period(r) <= Period(s)
<1> SUFFICES ASSUME NEW r \in Nat, NEW s \in Nat, r <= s PROVE Period(r) <= Period(s)
  OBVIOUS
<1>1. PICK p \in Nat : p = r \div RollPerSeconds /\ RollPerSeconds * p <= r
  BY SizesAssumption
<1>2. PICK q \in Nat : q = s \div RollPerSeconds /\ s < RollPerSeconds * q + RollPerSeconds
  BY SizesAssumption
<1>3. RollPerSeconds * p < RollPerSeconds * q + RollPerSeconds
  BY <1>1, <1>2, SizesAssumption
<1>4. p <= q
  BY <1>3, SizesAssumption
<1> QED
  BY <1>1, <1>2, <1>4, SizesAssumption DEF Period

LEMMA SinceEmpty == \A m \in Int : Since(<<>>, m)
BY EmptySeq DEF Since

LEMMA SinceType == \A q \in Seq(Bytes) : \A i \in 1 .. Len(q) : q[i].at \in Int
<1> TAKE q \in Seq(Bytes)
<1> TAKE i \in 1 .. Len(q)
<1>1. q[i] \in Bytes
  BY ElementOfSeq
<1> QED
  BY <1>1 DEF Bytes

LEMMA SinceParts ==
    ASSUME NEW m \in Int, NEW q \in Seq(Bytes), NEW k \in 0 .. Len(q), Since(q, m)
    PROVE  Since(SubSeq(q, 1, k), m) /\ Since(SubSeq(q, k + 1, Len(q)), m)
<1>1. Len(q) \in Nat
  BY LenProperties
<1>2. /\ Len(SubSeq(q, 1, k)) = k
      /\ \A i \in 1 .. k : SubSeq(q, 1, k)[i] = q[i]
  BY <1>1
<1>3. /\ Len(SubSeq(q, k + 1, Len(q))) = Len(q) - k
      /\ \A i \in 1 .. Len(q) - k : SubSeq(q, k + 1, Len(q))[i] = q[k + i]
  BY <1>1
<1>4. Since(SubSeq(q, 1, k), m)
  BY <1>1, <1>2 DEF Since
<1>5. Since(SubSeq(q, k + 1, Len(q)), m)
  BY <1>1, <1>3 DEF Since
<1> QED
  BY <1>4, <1>5

LEMMA SinceJoin ==
    ASSUME NEW m \in Int, NEW p \in Seq(Bytes), NEW q \in Seq(Bytes), Since(p, m), Since(q, m)
    PROVE  Since(p \o q, m)
<1>1. Len(p) \in Nat /\ Len(q) \in Nat
  BY LenProperties
<1>2. Len(p \o q) = Len(p) + Len(q)
  BY ConcatProperties
<1>3. \A i \in 1 .. Len(p) + Len(q) : (p \o q)[i] = IF i <= Len(p) THEN p[i] ELSE q[i - Len(p)]
  BY ConcatProperties
<1> SUFFICES ASSUME NEW i \in 1 .. Len(p) + Len(q) PROVE (p \o q)[i].at >= m
  BY <1>2 DEF Since
<1>4. CASE i <= Len(p)
  BY <1>1, <1>3, <1>4 DEF Since
<1>5. CASE i > Len(p)
  <2>1. i - Len(p) \in 1 .. Len(q)
    BY <1>1, <1>5
  <2> QED
    BY <1>1, <1>3, <1>5, <2>1 DEF Since
<1> QED
  BY <1>1, <1>4, <1>5

\* A write() lets no older byte into the buffer than there is in the line.
LEMMA TakesSince ==
    ASSUME TypeOK, NEW t \in Threads, NEW x \in 0 .. Len(rest[t]), Takes(t, x),
           NEW m \in Int, Since(buffer, m), Since(rest[t], m)
    PROVE  Since(buffer', m) /\ Since(Left(t, x), m)
<1>1. buffer \in Seq(Bytes) /\ rest[t] \in Seq(Bytes)
  BY DEF TypeOK
<1>2. Since(SubSeq(rest[t], 1, x), m) /\ Since(Left(t, x), m)
  BY <1>1, SinceParts DEF Left
<1>3. PICK f \in Seq(Bytes) : f = SubSeq(rest[t], 1, x)
  BY <1>1, BytesSplit
<1>4. PICK q \in Seq(Bytes) : q = buffer \o f
  BY <1>1, BytesConcat
<1>5. Since(q, m)
  BY <1>1, <1>2, <1>3, <1>4, SinceJoin
<1>6. PICK k \in 0 .. Len(q) : buffer' = SubSeq(q, k + 1, Len(q))
  BY <1>3, <1>4 DEF Takes
<1>7. Since(buffer', m)
  BY <1>5, <1>6, SinceParts
<1> QED
  BY <1>2, <1>7

\* What the disk does not refuse empties the buffer.
LEMMA DrainEmpties ==
    ASSUME TypeOK, ~DiskFails, NEW k \in Drained
    PROVE  SubSeq(buffer, k + 1, Len(buffer)) = <<>> /\ k = Len(buffer)
<1>1. k = Len(buffer) /\ Len(buffer) \in Nat
  BY LenProperties DEF Drained, TypeOK
<1>2. /\ SubSeq(buffer, k + 1, Len(buffer)) \in Seq(Bytes)
      /\ Len(SubSeq(buffer, k + 1, Len(buffer))) = 0
  BY <1>1, DrainMoves
<1> QED
  BY <1>1, <1>2, EmptySeq

LEMMA AllOutside ==
    ASSUME Safe, NEW t \in Threads, Enter(t)
    PROVE  \A u \in Threads : pc[u] = "idle"
<1>1. CASE ThreadSafe
  BY <1>1, ThreadsAssumption DEF Enter, Lock, Safe, Exclusive
<1>2. CASE ~ThreadSafe
  <2>1. Cardinality(Threads) = 1 /\ IsFiniteSet(Threads)
    BY <1>2, ContractAssumption, ThreadsAssumption
  <2>2. pc[t] = "idle"
    BY DEF Enter
  <2> QED
    BY <2>1, <2>2, FS_Singleton
<1> QED
  BY <1>1, <1>2

\* A write() leaves the thread in write() or after it.
LEMMA WriteCases ==
    ASSUME TypeOK, NEW t \in Threads, Write(t) \/ WriteMore(t)
    PROVE  /\ pc[t] \in {"write", "writeMore"}
           /\ \E x \in 0 .. Len(rest[t]) :
                  /\ Takes(t, x)
                  /\ \/ rest' = [rest EXCEPT ![t] = Left(t, x)]
                     \/ rest' = [rest EXCEPT ![t] = <<>>]
                  /\ \E s \in {"counted", "writeMore"} : pc' = [pc EXCEPT ![t] = s]
           /\ UNCHANGED <<clock, fileName, writtenBytes_, timeVars, next, look>>
<1>1. \A x \in Accepted(t) : x \in 0 .. Len(rest[t])
  BY LenProperties DEF Accepted, TypeOK
<1>2. CASE Write(t)
  <2>1. PICK x \in Accepted(t) :
            /\ Takes(t, x)
            /\ rest' = [rest EXCEPT ![t] = SubSeq(@, x + 1, Len(@))]
            /\ Goto(t, IF x = Len(rest[t]) THEN "counted" ELSE "writeMore")
            /\ pc[t] = "write"
            /\ UNCHANGED <<clock, timeVars, next, look>>
    BY <1>2 DEF Write
  <2>2. \E s \in {"counted", "writeMore"} : pc' = [pc EXCEPT ![t] = s]
    BY <2>1 DEF Goto
  <2> QED
    BY <1>1, <2>1, <2>2 DEF Left, Takes
<1>3. CASE WriteMore(t)
  <2>1. PICK x \in Accepted(t) :
            /\ Takes(t, x)
            /\ IF x = 0
               THEN rest' = [rest EXCEPT ![t] = <<>>] /\ Goto(t, "counted")
               ELSE /\ rest' = [rest EXCEPT ![t] = SubSeq(@, x + 1, Len(@))]
                    /\ Goto(t, IF x = Len(rest[t]) THEN "counted" ELSE "writeMore")
            /\ pc[t] = "writeMore"
            /\ UNCHANGED <<clock, timeVars, next, look>>
    BY <1>3 DEF WriteMore
  <2>2. \E s \in {"counted", "writeMore"} : pc' = [pc EXCEPT ![t] = s]
    BY <2>1 DEF Goto
  <2>3. \/ rest' = [rest EXCEPT ![t] = Left(t, x)]
        \/ rest' = [rest EXCEPT ![t] = <<>>]
    BY <2>1 DEF Left
  <2> QED
    BY <1>1, <2>1, <2>2, <2>3 DEF Takes
<1> QED
  BY <1>2, <1>3

LEMMA NextRecent ==
    ASSUME ~DiskFails, ClockSteps \subseteq Nat, Safe, Recent, [Next]_vars
    PROVE  Recent'
<1> USE DEF Goto
<1>a. /\ TypeOK /\ Stamped /\ Buffered /\ Looked /\ LookHelps
      /\ pc \in [Threads -> Steps] /\ look \in [Threads -> Nat]
      /\ rest \in [Threads -> Seq(Bytes)] /\ buffer \in Seq(Bytes)
      /\ clock \in Nat /\ fileName \in Nat /\ lastFlush_ \in Nat
      /\ FlushInterval \in Nat
  BY SizesAssumption DEF Safe, TypeOK, Recent
<1>1. ASSUME NEW t \in Threads, Enter(t) PROVE Recent'
  <2>1. /\ \A u \in Threads : pc[u] = "idle"
        /\ rest' = [rest EXCEPT ![t] = Line(t, next[t])] /\ look' = [look EXCEPT ![t] = 0]
        /\ \E s \in {"flush", "write"} : pc' = [pc EXCEPT ![t] = s]
        /\ UNCHANGED <<clock, fileVars, timeVars>>
    BY <1>1, AllOutside DEF Enter
  <2>2. Since(Line(t, next[t]), lastFlush_)
    <3>1. Len(Line(t, next[t])) = Program[t][next[t]]
      BY <1>a, <1>1, LineBytes DEF Enter
    <3> QED
      BY <1>a, <3>1 DEF Line, Since, Stamped
  <2>3. Since(buffer, lastFlush_)
    BY <1>a, <2>1 DEF Buffered
  <2>4. Stamped'
    BY <1>a, <2>1 DEF Stamped, fileVars, timeVars
  <2>5. Buffered'
    <3>1. buffer' = buffer /\ lastFlush_' = lastFlush_
      BY <2>1 DEF fileVars, timeVars
    <3>2. \A u \in Writers' : u = t
      BY <1>a, <2>1 DEF Writers
    <3>3. rest'[t] = Line(t, next[t])
      BY <1>a, <2>1
    <3> QED
      BY <2>2, <2>3, <3>1, <3>2, <3>3 DEF Buffered, Since
  <2>6. Looked' /\ LookHelps'
    BY <1>a, <2>1 DEF Looked, LookHelps
  <2> QED
    BY <2>4, <2>5, <2>6 DEF Recent
<1>2. ASSUME NEW t \in Threads, Leave(t) PROVE Recent'
  <2>1. /\ pc[t] = "leave" /\ pc' = [pc EXCEPT ![t] = "idle"]
        /\ UNCHANGED <<clock, fileVars, timeVars, rest, look>>
    BY <1>2 DEF Leave
  <2>2. \A u \in Threads \ {t} : pc[u] = "idle"
    BY <2>1, NobodyElseWrites
  <2>3. Since(buffer, lastFlush_)
    BY <1>a, <2>1, <2>2 DEF Buffered
  <2> QED
    BY <1>a, <2>1, <2>2, <2>3
       DEF Recent, Stamped, Buffered, Since, Looked, LookHelps, Writers, fileVars, timeVars
<1>3. ASSUME NEW t \in Threads, Write(t) \/ WriteMore(t) PROVE Recent'
  <2>1. PICK x \in 0 .. Len(rest[t]) :
            /\ Takes(t, x)
            /\ \/ rest' = [rest EXCEPT ![t] = Left(t, x)]
               \/ rest' = [rest EXCEPT ![t] = <<>>]
            /\ \E s \in {"counted", "writeMore"} : pc' = [pc EXCEPT ![t] = s]
    BY <1>a, <1>3, WriteCases
  <2>2. /\ pc[t] \in {"write", "writeMore"}
        /\ UNCHANGED <<clock, fileName, timeVars, look>>
    BY <1>a, <1>3, WriteCases
  <2>3. \A u \in Threads \ {t} : pc[u] = "idle"
    BY <2>2, NobodyElseWrites
  <2>4. Since(buffer, lastFlush_) /\ Since(rest[t], lastFlush_)
    BY <1>a, <2>2, <2>3 DEF Buffered, Writers
  <2>5. Since(buffer', lastFlush_) /\ Since(Left(t, x), lastFlush_)
    BY <1>a, <2>1, <2>4, TakesSince
  <2>6. Since(rest'[t], lastFlush_)
    BY <1>a, <2>1, <2>5, SinceEmpty
  <2>7. Stamped'
    BY <1>a, <2>2 DEF Stamped, timeVars
  <2>8. Buffered'
    <3>1. \A u \in Writers' : u = t
      BY <1>a, <2>1, <2>3 DEF Writers
    <3>2. lastFlush_' = lastFlush_
      BY <2>2 DEF timeVars
    <3> QED
      BY <2>5, <2>6, <3>1, <3>2 DEF Buffered, Since
  <2>9. Looked' /\ LookHelps'
    BY <1>a, <2>1, <2>2, <2>3 DEF Looked, LookHelps
  <2> QED
    BY <2>7, <2>8, <2>9 DEF Recent
<1>4. ASSUME NEW t \in Threads, Counted(t) PROVE Recent'
  <2>1. /\ pc[t] = "counted"
        /\ \E s \in {"roll", "look", "leave"} : pc' = [pc EXCEPT ![t] = s]
        /\ UNCHANGED <<clock, fileName, buffer, timeVars, rest, look>>
    BY <1>4 DEF Counted
  <2>2. \A u \in Threads \ {t} : pc[u] = "idle"
    BY <2>1, NobodyElseWrites
  <2>3. Since(buffer, lastFlush_) /\ look[t] = 0
    BY <1>a, <2>1, <2>2 DEF Buffered, Looked
  <2> QED
    BY <1>a, <2>1, <2>2, <2>3
       DEF Recent, Stamped, Buffered, Since, Looked, LookHelps, Writers, timeVars
<1>5. ASSUME NEW t \in Threads, Look(t) PROVE Recent'
  <2>1. /\ pc[t] = "look" /\ look' = [look EXCEPT ![t] = clock]
        /\ UNCHANGED <<clock, fileName, buffer, startOfPeriod_, lastRoll_, rest>>
    BY <1>5 DEF Look, fileVars
  <2>2. \A u \in Threads \ {t} : pc[u] = "idle"
    BY <2>1, NobodyElseWrites
  <2>3. Since(buffer, lastFlush_)
    BY <1>a, <2>1, <2>2 DEF Buffered
  <2>4. \/ /\ pc' = [pc EXCEPT ![t] = "roll"] /\ lastFlush_' = lastFlush_
        \/ /\ pc' = [pc EXCEPT ![t] = "flush"] /\ lastFlush_' = clock
           /\ Period(clock) = startOfPeriod_
        \/ /\ pc' = [pc EXCEPT ![t] = "leave"] /\ lastFlush_' = lastFlush_
           /\ Period(clock) = startOfPeriod_ /\ ~(clock - lastFlush_ > FlushInterval)
    BY <1>5 DEF Look
  <2>5. look' \in [Threads -> Nat] /\ look'[t] = clock
    BY <1>a, <2>1
  <2>6. Stamped'
    BY <1>a, <2>1, <2>4 DEF Stamped
  <2>7. Writers' = {}
    BY <1>a, <2>2, <2>4 DEF Writers
  <2>8. Looked'
    BY <1>a, <2>2, <2>4, <2>1, <2>5 DEF Looked
  <2>9. Buffered'
    <3>1. CASE pc'[t] = "flush"
      BY <2>7, <3>1 DEF Buffered
    <3>2. CASE pc'[t] # "flush"
      <4>1. lastFlush_' = lastFlush_
        BY <1>a, <2>4, <3>2
      <4> QED
        BY <2>1, <2>3, <2>7, <4>1 DEF Buffered, Since
    <3> QED
      BY <3>1, <3>2
  <2>10. LookHelps'
    <3> SUFFICES ASSUME pc'[t] = "leave"
                 PROVE  /\ \A i \in 1 .. Len(buffer) : buffer[i].at >= clock - FlushInterval
                        /\ Period(fileName) >= Period(clock)
      BY <1>a, <2>1, <2>2, <2>4, <2>5 DEF LookHelps
    <3>1. Period(clock) = startOfPeriod_ /\ ~(clock - lastFlush_ > FlushInterval)
      BY <1>a, <2>4
    <3>2. lastFlush_ >= clock - FlushInterval
      BY <1>a, <3>1
    <3>3. \A i \in 1 .. Len(buffer) : buffer[i].at >= clock - FlushInterval
      <4> TAKE i \in 1 .. Len(buffer)
      <4>1. buffer[i].at \in Int
        BY <1>a, SinceType
      <4>2. buffer[i].at >= lastFlush_
        BY <2>3 DEF Since
      <4> QED
        BY <1>a, <3>2, <4>1, <4>2
    <3>4. Period(clock) \in Nat /\ Period(fileName) = Period(clock)
      BY <1>a, <3>1, PeriodType DEF Stamped
    <3> QED
      BY <3>3, <3>4
  <2> QED
    BY <2>6, <2>8, <2>9, <2>10 DEF Recent
<1>6. ASSUME NEW t \in Threads, Flush(t) PROVE Recent'
  <2>1. /\ pc[t] = "flush" /\ pc' = [pc EXCEPT ![t] = "leave"]
        /\ UNCHANGED <<clock, fileName, timeVars, rest, look>>
        /\ \E k \in Drained : buffer' = SubSeq(buffer, k + 1, Len(buffer))
    BY <1>6 DEF Flush
  <2>2. \A u \in Threads \ {t} : pc[u] = "idle"
    BY <2>1, NobodyElseWrites
  <2>3. buffer' = <<>>
    BY <1>a, <2>1, DrainEmpties
  <2>4. Since(buffer', lastFlush_) /\ Len(buffer') = 0
    BY <1>a, <2>3, SinceEmpty
  <2>5. look[t] # 0 => Period(fileName) >= Period(look[t])
    <3>1. Period(fileName) \in Nat
      BY <1>a, PeriodType
    <3> QED
      BY <1>a, <2>1, <3>1 DEF Looked, Stamped
  <2>6. Stamped' /\ Looked'
    BY <1>a, <2>1, <2>2 DEF Stamped, Looked, timeVars
  <2>7. Buffered'
    <3>1. Writers' = {} /\ lastFlush_' = lastFlush_
      BY <1>a, <2>1, <2>2 DEF Writers, timeVars
    <3> QED
      BY <2>4, <3>1 DEF Buffered, Since
  <2>8. LookHelps'
    <3>1. \A i \in 1 .. Len(buffer') : FALSE
      BY <2>4
    <3>2. \A u \in Threads : pc'[u] = "leave" => u = t
      BY <1>a, <2>1, <2>2
    <3> QED
      BY <2>1, <2>5, <3>1, <3>2 DEF LookHelps
  <2> QED
    BY <2>6, <2>7, <2>8 DEF Recent
<1>7. ASSUME NEW t \in Threads, RollFile(t) PROVE Recent'
  <2>1. /\ pc[t] = "roll" /\ pc' = [pc EXCEPT ![t] = "leave"]
        /\ UNCHANGED <<clock, rest, look>>
        /\ IF clock > lastRoll_ THEN NewFile ELSE UNCHANGED <<fileVars, timeVars, logged>>
    BY <1>7 DEF RollFile
  <2>2. \A u \in Threads \ {t} : pc[u] = "idle"
    BY <2>1, NobodyElseWrites
  <2>3. Writers' = {} /\ Looked'
    BY <1>a, <2>1, <2>2 DEF Writers, Looked
  <2>4. Since(buffer, lastFlush_)
    BY <1>a, <2>1, <2>2 DEF Buffered
  <2>5. look[t] \in Nat /\ look[t] <= clock
    BY <1>a DEF Stamped
  <2>6. Period(clock) \in Nat /\ Period(look[t]) \in Nat /\ Period(look[t]) <= Period(clock)
    BY <1>a, <2>5, PeriodType, PeriodMonotone
  <2>7. CASE clock > lastRoll_
    <3>1. /\ buffer' = <<>> /\ fileName' = clock /\ lastRoll_' = clock /\ lastFlush_' = clock
          /\ startOfPeriod_' = Period(clock)
      BY <2>1, <2>7 DEF NewFile
    <3>2. Since(buffer', clock) /\ Len(buffer') = 0
      BY <1>a, <3>1, SinceEmpty
    <3>3. Stamped'
      BY <1>a, <2>1, <3>1 DEF Stamped
    <3>4. Buffered'
      BY <2>3, <3>1, <3>2 DEF Buffered, Since
    <3>5. LookHelps'
      BY <1>a, <2>1, <2>2, <2>6, <3>1, <3>2 DEF LookHelps
    <3> QED
      BY <2>3, <3>3, <3>4, <3>5 DEF Recent
  <2>8. CASE ~(clock > lastRoll_)
    <3>1. UNCHANGED <<fileName, buffer, startOfPeriod_, lastRoll_, lastFlush_>>
      BY <2>1, <2>8 DEF fileVars, timeVars
    <3>2. fileName = clock /\ lastFlush_ = clock
      BY <1>a, <2>8 DEF Stamped
    <3>3. Stamped'
      BY <1>a, <2>1, <3>1 DEF Stamped
    <3>4. Buffered'
      BY <2>3, <2>4, <3>1 DEF Buffered, Since
    <3>5. \A i \in 1 .. Len(buffer) : buffer[i].at >= look[t] - FlushInterval
      <4> TAKE i \in 1 .. Len(buffer)
      <4>1. buffer[i].at \in Int
        BY <1>a, SinceType
      <4>2. buffer[i].at >= clock
        BY <2>4, <3>2 DEF Since
      <4> QED
        BY <1>a, <2>5, <4>1, <4>2
    <3>6. Period(fileName) >= Period(look[t])
      BY <2>6, <3>2
    <3>7. LookHelps'
      BY <1>a, <2>1, <2>2, <3>1, <3>5, <3>6 DEF LookHelps
    <3> QED
      BY <2>3, <3>3, <3>4, <3>7 DEF Recent
  <2> QED
    BY <2>7, <2>8
<1>8. ASSUME UNCHANGED <<fileVars, timeVars, pc, rest, look>>, clock' \in Nat, clock' >= clock
      PROVE  Recent'
  BY <1>a, <1>8
     DEF Recent, Stamped, Buffered, Since, Looked, LookHelps, Writers, fileVars, timeVars
<1>9. ASSUME NEW t \in Threads, OpenFails(t) PROVE Recent'
  BY <1>a, <1>8, <1>9 DEF OpenFails
<1>10. ASSUME Tick PROVE Recent'
  BY <1>a, <1>8, <1>10 DEF Tick
<1>11. ASSUME UNCHANGED vars PROVE Recent'
  BY <1>a, <1>8, <1>11 DEF vars
<1> QED
  BY <1>1, <1>2, <1>3, <1>4, <1>5, <1>6, <1>7, <1>9, <1>10, <1>11 DEF Next, Step, Finished

----------------------------------------------------------------------------
(* writtenBytes_, where the disk does not fail: whenever nobody writes it  *)
(* is the size of the file, counted on from whatever the memory held and   *)
(* modulo size_t.                                                          *)

Reading(from, size) == (from + size) % SizeRange

Sized == /\ \A t \in Threads :
                /\ pc[t] = "counted" =>
                      \E b \in Nat : /\ writtenBytes_ = Reading(raw, b)
                                     /\ b + Program[t][next[t]] = Size
                /\ t \in Writers =>
                      \E b \in Nat : /\ writtenBytes_ = Reading(raw, b)
                                     /\ b + Program[t][next[t]] = Size + Len(rest[t])
                /\ pc[t] = "look" => Reading(raw, Size) <= RollSize
         /\ (\A t \in Threads : pc[t] \notin {"write", "writeMore", "counted"})
                => writtenBytes_ = Reading(raw, Size)

LEMMA SmallModulo == \A z \in Nat : \A n \in Nat \ {0} : z < n => z % n = z
<1> SUFFICES ASSUME NEW z \in Nat, NEW n \in Nat \ {0}, z < n PROVE z % n = z
  OBVIOUS
<1>1. PICK q \in Int, r \in Int : q = z \div n /\ r = z % n
  OBVIOUS
<1>2. z = n * q + r /\ 0 <= r /\ r < n
  BY <1>1
<1>3. q = 0
  BY <1>2
<1> QED
  BY <1>1, <1>2, <1>3

\* A file that has just been made is empty.
LEMMA ReadsRaw == \A m \in RawBytes : m = Reading(m, 0)
<1> SUFFICES ASSUME NEW m \in RawBytes PROVE m = Reading(m, 0)
  OBVIOUS
<1>1. m \in Nat /\ m < SizeRange /\ m + 0 = m /\ SizeRange \in Nat \ {0}
  BY SizesAssumption
<1> QED
  BY <1>1, SmallModulo DEF Reading

LEMMA NoMultipleBetween ==
    ASSUME NEW n \in Nat \ {0}, NEW k \in Int, -n < n * k, n * k < n
    PROVE  k = 0
<1>1. k >= 1 => n * k >= n
  OBVIOUS
<1>2. k <= -1 => n * k <= -n
  OBVIOUS
<1> QED
  BY <1>1, <1>2

LEMMA Divides ==
    \A z \in Nat : \A n \in Nat \ {0} :
        \E q \in Int, r \in 0 .. n - 1 : r = z % n /\ z = n * q + r
<1> SUFFICES ASSUME NEW z \in Nat, NEW n \in Nat \ {0}
             PROVE  \E q \in Int, r \in 0 .. n - 1 : r = z % n /\ z = n * q + r
  OBVIOUS
<1>1. PICK q \in Int, r \in Int : q = z \div n /\ r = z % n
  OBVIOUS
<1>2. z = n * q + r /\ 0 <= r /\ r < n
  BY <1>1
<1>3. r \in 0 .. n - 1
  BY <1>2
<1> QED
  BY <1>1, <1>2, <1>3

\* Counting on from a remainder is counting on from the whole.
LEMMA CountsOn == \A a, b \in Nat : \A n \in Nat \ {0} : ((a % n) + b) % n = (a + b) % n
<1> SUFFICES ASSUME NEW a \in Nat, NEW b \in Nat, NEW n \in Nat \ {0}
             PROVE  ((a % n) + b) % n = (a + b) % n
  OBVIOUS
<1>1. PICK q \in Int, r \in 0 .. n - 1 : r = a % n /\ a = n * q + r
  BY Divides
<1>2. PICK p \in Int, x \in 0 .. n - 1 : x = (r + b) % n /\ r + b = n * p + x
  <2>1. r + b \in Nat
    OBVIOUS
  <2> QED
    BY <2>1, Divides
<1>3. PICK o \in Int, y \in 0 .. n - 1 : y = (a + b) % n /\ a + b = n * o + y
  <2>1. a + b \in Nat
    OBVIOUS
  <2> QED
    BY <2>1, Divides
<1>4. n * (o - p - q) = x - y
  <2>1. n * (o - p - q) = n * o - n * p - n * q
    OBVIOUS
  <2>2. PICK u \in Int, v \in Int, w \in Int : u = n * o /\ v = n * p /\ w = n * q
    OBVIOUS
  <2>3. a = w + r /\ r + b = v + x /\ a + b = u + y
    BY <1>1, <1>2, <1>3, <2>2
  <2> HIDE <2>2
  <2>4. u - v - w = x - y
    BY <2>3
  <2> QED
    BY <2>1, <2>2, <2>4
<1>5. o - p - q = 0
  BY <1>4, NoMultipleBetween
<1>6. x = y
  BY <1>4, <1>5
<1> QED
  BY <1>1, <1>2, <1>3, <1>6

LEMMA TakesLength ==
    ASSUME TypeOK, NEW t \in Threads, NEW x \in 0 .. Len(rest[t]), Takes(t, x)
    PROVE  Size' = Size + x
<1>1. disk \in Seq(Bytes) /\ buffer \in Seq(Bytes) /\ rest[t] \in Seq(Bytes)
  BY DEF TypeOK
<1>2. Len(disk) \in Nat /\ Len(buffer) \in Nat /\ Len(rest[t]) \in Nat
  BY <1>1, LenProperties
<1>3. PICK f \in Seq(Bytes) : f = SubSeq(rest[t], 1, x) /\ Len(f) = x
  <2>1. Len(SubSeq(rest[t], 1, x)) = x
    BY <1>1, <1>2
  <2> QED
    BY <1>1, <2>1, BytesSplit
<1>4. PICK q \in Seq(Bytes) : q = buffer \o f /\ Len(q) = Len(buffer) + x
  <2>1. Len(buffer \o f) = Len(buffer) + Len(f)
    BY <1>1, ConcatProperties
  <2> QED
    BY <1>1, <1>3, <2>1, BytesConcat
<1>5. PICK k \in 0 .. Len(q) : /\ disk' = disk \o SubSeq(q, 1, k)
                              /\ buffer' = SubSeq(q, k + 1, Len(q))
  BY <1>3, <1>4 DEF Takes
<1>6. PICK o \in Seq(Bytes) : o = SubSeq(q, 1, k) /\ Len(o) = k
  <2>1. Len(SubSeq(q, 1, k)) = k
    BY <1>2, <1>4, <1>5
  <2> QED
    BY <2>1, BytesSplit
<1>7. Len(disk') = Len(disk) + k
  BY <1>1, <1>5, <1>6, ConcatProperties
<1>8. Len(buffer') = Len(q) - k
  BY <1>5, BytesSplit
<1> QED
  BY <1>2, <1>4, <1>7, <1>8 DEF Size

\* A disk that takes everything takes it in one write().
LEMMA WriteEnds ==
    ASSUME TypeOK, ~DiskFails, NEW t \in Threads, Write(t) \/ WriteMore(t)
    PROVE  /\ t \in Writers /\ pc' = [pc EXCEPT ![t] = "counted"]
           /\ Size' = Size + Len(rest[t])
           /\ UNCHANGED <<clock, fileName, lastRoll_, writtenBytes_, raw, next>>
<1>1. /\ Accepted(t) = {Len(rest[t])} /\ Len(rest[t]) \in 0 .. Len(rest[t])
      /\ Len(rest[t]) \in Nat
  BY LenProperties DEF Accepted, TypeOK
<1>2. /\ Takes(t, Len(rest[t])) /\ Goto(t, "counted")
      /\ pc[t] \in {"write", "writeMore"}
      /\ UNCHANGED <<clock, timeVars, next>>
  BY <1>1 DEF Write, WriteMore
<1>3. Size' = Size + Len(rest[t])
  BY <1>1, <1>2, TakesLength
<1> QED
  BY <1>2, <1>3 DEF Goto, Takes, timeVars, Writers

LEMMA FlushLength ==
    ASSUME TypeOK, NEW t \in Threads, Flush(t)
    PROVE  Size' = Size
<1>1. disk \in Seq(Bytes) /\ buffer \in Seq(Bytes)
  BY DEF TypeOK
<1>2. Len(disk) \in Nat /\ Len(buffer) \in Nat
  BY <1>1, LenProperties
<1>3. PICK k \in Drained : /\ disk' = disk \o SubSeq(buffer, 1, k)
                           /\ buffer' = SubSeq(buffer, k + 1, Len(buffer))
  BY DEF Flush
<1>4. k \in 0 .. Len(buffer) /\ Len(buffer') = Len(buffer) - k
  BY <1>3, DrainMoves
<1>5. PICK f \in Seq(Bytes) : f = SubSeq(buffer, 1, k) /\ Len(f) = k
  <2>1. Len(SubSeq(buffer, 1, k)) = k
    BY <1>1, <1>2, <1>4
  <2> QED
    BY <1>1, <1>4, <2>1, BytesSplit
<1>6. Len(disk') = Len(disk) + k
  BY <1>1, <1>3, <1>5, ConcatProperties
<1> QED
  BY <1>2, <1>4, <1>6 DEF Size

\* A step that leaves the bytes and their count alone, by a thread that is
\* past write().
LEMMA SizedCalm ==
    ASSUME Safe, Sized, NEW t \in Threads, pc[t] \notin {"idle", "write", "writeMore", "counted"},
           Size' = Size, UNCHANGED <<writtenBytes_, raw>>,
           \E s \in {"idle", "roll", "flush", "leave"} : pc' = [pc EXCEPT ![t] = s]
    PROVE  Sized' /\ \A u \in Threads \ {t} : pc[u] = "idle" /\ pc'[u] = "idle"
<1>1. \A u \in Threads \ {t} : pc[u] = "idle"
  BY NobodyElseWrites
<1>2. pc \in [Threads -> Steps]
  BY DEF Safe, TypeOK
<1> QED
  BY <1>1, <1>2 DEF Sized, Writers

RolledBy(t) == Appended(t) => Reading(raw', Size') <= RollSize \/ fileName' >= clock

LEMMA NextSized ==
    ASSUME ~DiskFails, Safe, lastRoll_ = fileName, Sized, [Next]_vars
    PROVE  Sized' /\ \A t \in Threads : RolledBy(t)
<1> USE DEF Goto
<1>a. /\ TypeOK /\ pc \in [Threads -> Steps] /\ rest \in [Threads -> Seq(Bytes)]
      /\ Len(disk) \in Nat /\ Len(buffer) \in Nat /\ Size \in Nat
      /\ clock \in Nat /\ fileName \in Nat /\ writtenBytes_ \in Nat /\ raw \in Nat
      /\ RollSize \in Nat /\ SizeRange \in Nat \ {0}
  <2>1. Len(disk) \in Nat /\ Len(buffer) \in Nat
    BY LenProperties DEF Safe, TypeOK
  <2> QED
    BY SMTT(30), <2>1, SizesAssumption DEF Safe, TypeOK, Size
<1>b. Size' = Len(disk') + Len(buffer')
  BY DEF Size
<1>1. ASSUME NEW t \in Threads, Enter(t) PROVE Sized' /\ \A u \in Threads : RolledBy(u)
  <2>1. /\ \A u \in Threads : pc[u] = "idle"
        /\ rest'[t] = Line(t, next[t])
        /\ pc' = [pc EXCEPT ![t] = IF Program[t][next[t]] = FlushCall THEN "flush" ELSE "write"]
        /\ UNCHANGED <<disk, buffer, writtenBytes_, raw, next>>
    BY <1>a, <1>1, AllOutside DEF Enter, fileVars
  <2>2. Len(rest'[t]) = Program[t][next[t]] /\ Program[t][next[t]] \in Nat
    BY <1>a, <1>1, <2>1, LineBytes DEF Enter
  <2>3. Size' = Size /\ writtenBytes_ = Reading(raw, Size)
    BY <2>1 DEF Size, Sized
  <2>4. \A u \in Threads : pc'[u] # "idle" => u = t /\ pc'[u] \in {"flush", "write"}
    BY <1>a, <2>1
  <2>5. Sized'
    <3>3. \A u \in Threads : pc'[u] \notin {"counted", "look"}
      BY <2>4
    <3>4. \A u \in Threads : u \in Writers' => u = t
      BY <2>4 DEF Writers
    <3>5. writtenBytes_' = Reading(raw', Size') /\ next'[t] = next[t]
      BY <2>1, <2>3
    <3>6. Size' + Program[t][next'[t]] = Size' + Len(rest'[t]) /\ Size' \in Nat
      BY <1>a, <2>2, <2>3, <3>5
    <3> QED
      BY <3>3, <3>4, <3>5, <3>6 DEF Sized
  <2> QED
    BY <2>1, <2>5 DEF RolledBy, Appended
<1>2. ASSUME NEW t \in Threads, Leave(t) PROVE Sized' /\ \A u \in Threads : RolledBy(u)
  <2>1. /\ pc[t] = "leave" /\ pc' = [pc EXCEPT ![t] = "idle"]
        /\ UNCHANGED <<disk, buffer, writtenBytes_, raw>>
    BY <1>2 DEF Leave, fileVars
  <2>2. Size' = Size
    BY <2>1 DEF Size
  <2>3. Sized' /\ \A u \in Threads \ {t} : pc[u] = "idle" /\ pc'[u] = "idle"
    BY <2>1, <2>2, SizedCalm
  <2> QED
    BY <2>1, <2>3 DEF RolledBy, Appended
<1>3. ASSUME NEW t \in Threads, Write(t) \/ WriteMore(t)
      PROVE  Sized' /\ \A u \in Threads : RolledBy(u)
  <2>1. /\ t \in Writers /\ pc' = [pc EXCEPT ![t] = "counted"]
        /\ Size' = Size + Len(rest[t])
        /\ UNCHANGED <<writtenBytes_, raw, next>>
    BY <1>a, <1>3, WriteEnds
  <2>2. \A u \in Threads \ {t} : pc[u] = "idle"
    BY <2>1, NobodyElseWrites DEF Writers
  <2>3. \E b \in Nat : /\ writtenBytes_' = Reading(raw', b)
                       /\ b + Program[t][next'[t]] = Size'
    BY <2>1 DEF Sized
  <2>4. Sized'
    BY <1>a, <2>1, <2>2, <2>3 DEF Sized, Writers
  <2>5. \A u \in Threads : pc'[u] # "leave"
    BY <1>a, <2>1, <2>2
  <2> QED
    BY <2>4, <2>5 DEF RolledBy, Appended
<1>4. ASSUME NEW t \in Threads, Counted(t) PROVE Sized' /\ \A u \in Threads : RolledBy(u)
  <2>1. /\ pc[t] = "counted" /\ UNCHANGED <<disk, buffer, raw>>
        /\ writtenBytes_' = (writtenBytes_ + Program[t][next[t]]) % SizeRange
        /\ \/ pc' = [pc EXCEPT ![t] = "roll"]
           \/ /\ pc' = [pc EXCEPT ![t] = "look"] \/ pc' = [pc EXCEPT ![t] = "leave"]
              /\ ~(writtenBytes_' > RollSize)
    BY <1>4 DEF Counted
  <2>2. \A u \in Threads \ {t} : pc[u] = "idle"
    BY <2>1, NobodyElseWrites
  <2>3. Size' = Size
    BY <2>1 DEF Size
  <2>4. writtenBytes_' = Reading(raw, Size)
    <3>1. PICK n \in Nat : n = Program[t][next[t]]
      BY <1>a, <2>1, LineBytes DEF TypeOK
    <3>2. PICK b \in Nat : writtenBytes_ = Reading(raw, b) /\ b + n = Size
      BY <2>1, <3>1 DEF Sized
    <3>3. (raw + b) \in Nat /\ raw + b + n = raw + Size
      BY <1>a, <3>2
    <3>4. (((raw + b) % SizeRange) + n) % SizeRange = (raw + b + n) % SizeRange
      BY <1>a, <3>3, CountsOn
    <3>5. writtenBytes_' = (writtenBytes_ + n) % SizeRange
      BY <2>1, <3>1
    <3> QED
      BY <3>2, <3>3, <3>4, <3>5 DEF Reading
  <2>5. pc'[t] = "roll" \/ Reading(raw, Size) <= RollSize
    <3>1. Reading(raw, Size) \in Nat
      BY <1>a DEF Reading
    <3> QED
      BY <1>a, <2>1, <2>4, <3>1
  <2>6. pc'[t] \in {"roll", "look", "leave"} /\ \A u \in Threads \ {t} : pc'[u] = "idle"
    BY <1>a, <2>1, <2>2
  <2>7. Sized'
    <3>1. \A u \in Threads : pc'[u] # "idle" => u = t /\ pc'[u] \in {"roll", "look", "leave"}
      BY <2>6
    <3>2. Writers' = {} /\ \A u \in Threads : pc'[u] # "counted"
      BY <3>1 DEF Writers
    <3>3. writtenBytes_' = Reading(raw', Size') /\ (pc'[t] # "roll" => Reading(raw', Size') <= RollSize)
      BY <2>1, <2>3, <2>4, <2>5
    <3> QED
      BY <3>1, <3>2, <3>3 DEF Sized
  <2> QED
    BY <2>1, <2>3, <2>5, <2>6, <2>7 DEF RolledBy, Appended
<1>5. ASSUME NEW t \in Threads, Look(t) PROVE Sized' /\ \A u \in Threads : RolledBy(u)
  <2>1. /\ pc[t] = "look" /\ UNCHANGED <<disk, buffer, writtenBytes_, raw>>
        /\ \E s \in {"idle", "roll", "flush", "leave"} : pc' = [pc EXCEPT ![t] = s]
    BY <1>5 DEF Look, fileVars
  <2>2. Size' = Size /\ Reading(raw, Size) <= RollSize
    BY <2>1 DEF Size, Sized
  <2>3. Sized' /\ \A u \in Threads \ {t} : pc[u] = "idle" /\ pc'[u] = "idle"
    BY <2>1, <2>2, SizedCalm
  <2> QED
    BY <2>1, <2>2, <2>3 DEF RolledBy, Appended
<1>6. ASSUME NEW t \in Threads, Flush(t) PROVE Sized' /\ \A u \in Threads : RolledBy(u)
  <2>1. /\ pc[t] = "flush" /\ UNCHANGED <<writtenBytes_, raw>>
        /\ \E s \in {"idle", "roll", "flush", "leave"} : pc' = [pc EXCEPT ![t] = s]
    BY <1>6 DEF Flush
  <2>2. Size' = Size
    BY <1>a, <1>6, FlushLength
  <2>3. Sized' /\ \A u \in Threads \ {t} : pc[u] = "idle" /\ pc'[u] = "idle"
    BY <2>1, <2>2, SizedCalm
  <2> QED
    BY <2>1, <2>3 DEF RolledBy, Appended
<1>7. ASSUME NEW t \in Threads, RollFile(t) PROVE Sized' /\ \A u \in Threads : RolledBy(u)
  <2>1. /\ pc[t] = "roll" /\ pc' = [pc EXCEPT ![t] = "leave"] /\ clock' = clock
        /\ IF clock > lastRoll_ THEN NewFile ELSE UNCHANGED <<fileVars, timeVars, logged>>
    BY <1>7 DEF RollFile
  <2>2. \A u \in Threads \ {t} : pc[u] = "idle" /\ pc'[u] = "idle"
    BY <1>a, <2>1, NobodyElseWrites
  <2>3. CASE clock > lastRoll_
    <3>1. disk' = <<>> /\ buffer' = <<>> /\ writtenBytes_' = raw' /\ fileName' = clock
      BY <2>1, <2>3 DEF NewFile
    <3>2. Size' = 0
      BY <1>b, <3>1, EmptySeq
    <3>3. raw' = Reading(raw', Size')
      <4>1. raw' \in RawBytes
        BY <2>1, <2>3 DEF NewFile
      <4> QED
        BY <3>2, <4>1, ReadsRaw
    <3>4. \A u \in Threads : pc'[u] \in {"idle", "leave"}
      BY <1>a, <2>1, <2>2
    <3>5. Sized'
      BY <3>1, <3>3, <3>4 DEF Sized, Writers
    <3> QED
      BY <1>a, <2>2, <3>1, <3>5 DEF RolledBy, Appended
  <2>4. CASE ~(clock > lastRoll_)
    <3>1. UNCHANGED <<disk, buffer, writtenBytes_, raw, fileName>>
      BY <2>1, <2>4 DEF fileVars
    <3>2. Size' = Size
      BY <3>1 DEF Size
    <3>3. \E s \in {"idle", "roll", "flush", "leave"} : pc' = [pc EXCEPT ![t] = s]
      BY <2>1
    <3>4. Sized'
      BY <2>1, <3>1, <3>2, <3>3, SizedCalm
    <3>5. fileName' >= clock
      BY <1>a, <2>4, <3>1
    <3> QED
      BY <2>2, <3>4, <3>5 DEF RolledBy, Appended
  <2> QED
    BY <2>3, <2>4
<1>8. ASSUME UNCHANGED <<disk, buffer, writtenBytes_, raw, pc, next, rest>>
      PROVE  Sized' /\ \A u \in Threads : RolledBy(u)
  BY <1>8 DEF Sized, Size, Writers, RolledBy, Appended
<1> QED
  BY <1>1, <1>2, <1>3, <1>4, <1>5, <1>6, <1>7, <1>8
     DEF Next, Step, OpenFails, Tick, Finished, vars, fileVars

----------------------------------------------------------------------------
(* The theorems *)

LEMMA Invariance == Spec => []IInv
<1>1. IInv /\ [Next]_vars => IInv'
  BY NextSafe, NextIntact DEF IInv
<1> QED
  BY InitIInv, <1>1, PTL DEF Spec

\* The types of the class.
THEOREM TypeCorrect == Spec => []TypeOK
BY Invariance, PTL DEF IInv, Safe

\* Whatever is handed to append() and accepted by the disk is in the files,
\* once and in order, however they are rolled and flushed and whatever the
\* clock does.
THEOREM NothingLost == Spec => []Intact
BY Invariance, PTL DEF IInv

\* Every file has a name of its own, later than those before.
THEOREM NamesAreFresh == Spec => []FreshNames
<1>1. Init => Names
  BY DEF Init, Names, FreshNames
<1>2. Names => FreshNames
  BY DEF Names
<1> QED
  BY <1>1, <1>2, NextNames, TypeCorrect, PTL DEF Spec

\* Where the clock only goes forward and the disk does not fail, a line that
\* looked at the clock leaves no byte in the buffer that is older than
\* flushInterval_, and a file of its day or a later one.
THEOREM LooksHelp ==
    ASSUME ~DiskFails, ClockSteps \subseteq Nat
    PROVE  Spec => []LookHelps
<1>1. Init => Recent
  <2> SUFFICES ASSUME Init PROVE Recent
    OBVIOUS
  <2>1. StartTime \in Nat \ {0} /\ Since(<<>>, StartTime)
    BY SizesAssumption, SinceEmpty
  <2> QED
    BY <2>1 DEF Init, Recent, Stamped, Buffered, Looked, LookHelps, Writers
<1>2. Safe /\ Recent /\ [Next]_vars => Recent'
  BY NextRecent
<1>3. IInv => Safe
  BY DEF IInv
<1>4. Recent => LookHelps
  BY DEF Recent
<1> QED
  BY Invariance, <1>1, <1>2, <1>3, <1>4, PTL DEF Spec

\* Where the disk does not fail, and whatever writtenBytes_ held when a file was
\* made, a call of append() leaves behind a file that is within rollSize_ when
\* counted on from there, modulo size_t, or that carries the present second, or
\* a later one, in its name.
THEOREM RollsBySize ==
    ASSUME ~DiskFails
    PROVE  Spec => SizeRolls
<1>1. Init => Sized
  <2> SUFFICES ASSUME Init PROVE Sized
    OBVIOUS
  <2>1. Len(disk) = 0 /\ Len(buffer) = 0 /\ writtenBytes_ = raw
    BY EmptySeq DEF Init
  <2>2. Size = 0 /\ writtenBytes_ = Reading(raw, 0)
    BY <2>1, ReadsRaw DEF Init, Size
  <2> QED
    BY <2>2 DEF Init, Sized, Writers
<1>2. Safe /\ Names /\ Sized /\ [Next]_vars => Sized' /\ \A t \in Threads : RolledBy(t)
  BY NextSized DEF Names
<1>3. IInv => Safe
  BY DEF IInv
<1>4. Spec => []Names
  <2>1. Init => Names
    BY DEF Init, Names, FreshNames
  <2> QED
    BY <2>1, NextNames, TypeCorrect, PTL DEF Spec
<1>5. (\A t \in Threads : RolledBy(t))
          => [\A t \in Threads : Appended(t)
                  => (raw' + Size') % SizeRange <= RollSize \/ fileName' >= clock]_vars
  BY DEF RolledBy, Reading
<1> QED
  BY Invariance, <1>1, <1>2, <1>3, <1>4, <1>5, PTL DEF Spec, SizeRolls

=============================================================================
