---------------------- MODULE FileUtilAndLoggerProofs ----------------------
(***************************************************************************)
(* What is read and what is written, character by character.               *)
(*                                                                         *)
(* FileUtil, for any memory, any files and any calls: what a SmallFile     *)
(* reads is what the file holds, and pieces are ordered as the strings     *)
(* they stand for.  Logger, for any threads, programs, clocks, hooks and   *)
(* sizes of the buffer: every line says what was put into it, within the   *)
(* bounds of its buffer, and none is lost.                                 *)
(*                                                                         *)
(* The two share no variable; nothing said of one speaks of the variables  *)
(* or the constants of the other.                                          *)
(***************************************************************************)
EXTENDS FileUtil, Logger, SequenceTheorems, WellFoundedInduction, TLAPS

----------------------------------------------------------------------------
(* Least elements                                                          *)

LEMMA LeastNatural ==
    ASSUME NEW S \in SUBSET Nat, S # {}
    PROVE  \E x \in S : \A y \in S : x <= y
<1> DEFINE below == {ss \in Nat \X Nat : ss[1] < ss[2]}
<1>1. IsWellFoundedOn(below, Nat)
  BY NatLessThanWellFounded DEF OpToRel
<1>2. PICK x \in S : \A y \in S : ~(<<y, x>> \in below)
  <2> HIDE DEF below
  <2> QED
    BY <1>1, WFMin
<1>3. ASSUME NEW y \in S PROVE x <= y
  <2>1. <<y, x>> \in Nat \X Nat /\ (y < x => <<y, x>>[1] < <<y, x>>[2])
    OBVIOUS
  <2>2. y < x => <<y, x>> \in below
    BY <2>1
  <2> QED
    BY <1>2, <2>2
<1> QED
  BY <1>3

----------------------------------------------------------------------------
(* FileUtil: what Min chooses, and sequences by their elements              *)

\* The least element of a set of naturals is the one that Min chooses.
LEMMA MinIsLeast ==
    ASSUME NEW S \in SUBSET Nat, S # {}
    PROVE  Min(S) \in S /\ \A y \in S : Min(S) <= y
<1>1. \E x \in S : \A y \in S : x <= y
  BY LeastNatural
<1> QED
  BY <1>1 DEF Min

\* Of two numbers Min chooses the smaller one.
LEMMA MinOfTwo ==
    ASSUME NEW a \in Int, NEW b \in Int
    PROVE  Min({a, b}) = IF a <= b THEN a ELSE b
<1> DEFINE m == IF a <= b THEN a ELSE b
<1>1. m \in {a, b} /\ \A y \in {a, b} : m <= y
  OBVIOUS
<1>2. Min({a, b}) \in {a, b} /\ \A y \in {a, b} : Min({a, b}) <= y
  BY <1>1 DEF Min
<1> QED
  BY <1>1, <1>2

\* n elements of s, from the one at offset o.
LEMMA Chunk ==
    ASSUME NEW s \in Seq(Nat), NEW o \in Nat, NEW n \in Nat, o + n <= Len(s)
    PROVE  /\ SubSeq(s, o + 1, o + n) \in Seq(Nat)
           /\ Len(SubSeq(s, o + 1, o + n)) = n
           /\ \A i \in 1 .. n : SubSeq(s, o + 1, o + n)[i] = s[o + i]
<1>1. Len(s) \in Nat
  BY LenProperties
<1>2. \A i \in o + 1 .. o + n : s[i] \in Nat
  BY <1>1, ElementOfSeq
<1>3. /\ SubSeq(s, o + 1, o + n) \in Seq(Nat)
      /\ Len(SubSeq(s, o + 1, o + n)) = IF o + 1 <= o + n THEN (o + n) - (o + 1) + 1 ELSE 0
      /\ \A i \in 1 .. (o + n) - (o + 1) + 1 :
            SubSeq(s, o + 1, o + n)[i] = s[(o + 1) + i - 1]
  <2>1. o + 1 \in Int /\ o + n \in Int
    OBVIOUS
  <2> QED
    BY <1>2, <2>1, SubSeqProperties
<1> QED
  BY <1>3

\* strlen() stays inside Memory, which ends with a NUL.
LEMMA StrlenInMemory ==
    ASSUME NEW p \in 1 .. Len(Memory)
    PROVE  Strlen(p) \in Nat /\ p + Strlen(p) <= Len(Memory)
<1> DEFINE ends == {k \in p .. Len(Memory) : Memory[k] = NUL}
<1>1. Len(Memory) \in Nat
  BY MemoryAssumption, LenProperties
<1>2. ends \in SUBSET Nat /\ Len(Memory) \in ends
  BY <1>1, MemoryAssumption
<1>3. Min(ends) \in ends
  BY <1>2, MinIsLeast
<1> QED
  BY <1>1, <1>3 DEF Strlen

----------------------------------------------------------------------------
(* StringPiece: pieces that lie in Memory                                  *)

\* A piece stands for characters of Memory; one without a length may point
\* anywhere.
InMemory(x) == /\ x \in [ptr : Nat, len : Nat]
               /\ x.len > 0 => x.ptr >= 1 /\ x.ptr + x.len - 1 <= Len(Memory)

\* The string of a piece, character by character.
LEMMA StringOf ==
    ASSUME NEW x, InMemory(x)
    PROVE  /\ AsString(x) \in Seq(Nat)
           /\ Len(AsString(x)) = x.len
           /\ \A i \in 1 .. x.len : AsString(x)[i] = Memory[x.ptr + i - 1]
<1>1. /\ x.ptr \in Nat /\ x.len \in Nat /\ Len(Memory) \in Nat
      /\ x.len > 0 => x.ptr >= 1 /\ x.ptr + x.len - 1 <= Len(Memory)
  BY MemoryAssumption, LenProperties DEF InMemory
<1>2. \A i \in x.ptr .. x.ptr + x.len - 1 : Memory[i] \in Nat
  BY <1>1, MemoryAssumption, ElementOfSeq, SMTT(40)
<1>3. /\ SubSeq(Memory, x.ptr, x.ptr + x.len - 1) \in Seq(Nat)
      /\ Len(SubSeq(Memory, x.ptr, x.ptr + x.len - 1)) = x.len
      /\ \A i \in 1 .. x.len :
            SubSeq(Memory, x.ptr, x.ptr + x.len - 1)[i] = Memory[x.ptr + i - 1]
  <2> DEFINE m == x.ptr
             n == x.ptr + x.len - 1
  <2>1. /\ m \in Nat /\ n \in Int /\ x.len = n - m + 1
        /\ m <= n => m >= 1 /\ n <= Len(Memory)
        /\ \A i \in m .. n : Memory[i] \in Nat
    BY <1>1, <1>2
  <2> HIDE DEF m, n
  <2>2. /\ m <= n + 1 /\ x.len \in Nat
        /\ SubSeq(Memory, m, n) \in Seq(Nat)
        /\ Len(SubSeq(Memory, m, n)) = n - m + 1
        /\ \A i \in 1 .. n - m + 1 : SubSeq(Memory, m, n)[i] = Memory[m + i - 1]
    BY <1>1, <2>1, SubSeqProperties
  <2> QED
    BY <2>1, <2>2 DEF m, n
<1> QED
  BY <1>3 DEF AsString

\* s and t agree on their first n characters; they differ first behind them,
\* and s has the smaller character there.
Agree(s, t, n) == \A j \in 1 .. n : s[j] = t[j]
Lower(s, t, n) == \E k \in 1 .. n : s[k] < t[k] /\ Agree(s, t, k - 1)

\* memcmp() compares the first n characters of the two strings.
LEMMA MemcmpCompares ==
    ASSUME NEW x, NEW y, InMemory(x), InMemory(y), NEW n \in Nat, n <= x.len, n <= y.len
    PROVE  LET s == AsString(x)
               t == AsString(y)
           IN  /\ Memcmp(x, y, n) \in Int
               /\ Memcmp(x, y, n) = 0 <=> Agree(s, t, n)
               /\ Memcmp(x, y, n) < 0 <=> Lower(s, t, n)
               /\ Memcmp(x, y, n) > 0 <=> Lower(t, s, n)
<1> DEFINE s == AsString(x)
           t == AsString(y)
           differ == {k \in 0 .. n - 1 : Memory[x.ptr + k] # Memory[y.ptr + k]}
<1>1. /\ x.ptr \in Nat /\ x.len \in Nat /\ y.ptr \in Nat /\ y.len \in Nat
      /\ \A i \in 1 .. n : s[i] \in Nat /\ t[i] \in Nat
  <2>1. x.ptr \in Nat /\ x.len \in Nat /\ y.ptr \in Nat /\ y.len \in Nat
    BY DEF InMemory
  <2>2. s \in Seq(Nat) /\ Len(s) = x.len /\ t \in Seq(Nat) /\ Len(t) = y.len
    BY StringOf
  <2> HIDE DEF s, t
  <2>3. \A i \in 1 .. n : i \in 1 .. Len(s) /\ i \in 1 .. Len(t)
    BY <2>1, <2>2
  <2>4. \A i \in 1 .. n : s[i] \in Nat /\ t[i] \in Nat
    BY <2>2, <2>3, ElementOfSeq
  <2> QED
    BY <2>1, <2>4
<1>2. \A k \in 0 .. n - 1 : Memory[x.ptr + k] = s[k + 1] /\ Memory[y.ptr + k] = t[k + 1]
  <2>1. ASSUME NEW k \in 0 .. n - 1
        PROVE  Memory[x.ptr + k] = s[k + 1] /\ Memory[y.ptr + k] = t[k + 1]
    <3>1. /\ k + 1 \in 1 .. x.len /\ k + 1 \in 1 .. y.len
          /\ x.ptr + (k + 1) - 1 = x.ptr + k /\ y.ptr + (k + 1) - 1 = y.ptr + k
      BY <1>1
    <3> HIDE DEF s, t
    <3>2. /\ s[k + 1] = Memory[x.ptr + (k + 1) - 1]
          /\ t[k + 1] = Memory[y.ptr + (k + 1) - 1]
      BY <3>1, StringOf DEF s, t
    <3> QED
      BY <3>1, <3>2
  <2> QED
    BY <2>1
<1>3. CASE differ = {}
  <2>1. \A j \in 1 .. n : s[j] = t[j]
    <3>1. ASSUME NEW j \in 1 .. n PROVE s[j] = t[j]
      <4>1. j - 1 \in 0 .. n - 1 /\ (j - 1) + 1 = j
        OBVIOUS
      <4> HIDE DEF s, t
      <4> QED
        BY <4>1, <1>2, <1>3
    <3> QED
      BY <3>1
  <2>2. Memcmp(x, y, n) = 0
    BY <1>3 DEF Memcmp
  <2> HIDE DEF s, t
  <2>3. ~Lower(s, t, n) /\ ~Lower(t, s, n)
    BY <1>1, <2>1 DEF Lower
  <2> QED
    BY <2>1, <2>2, <2>3 DEF Agree, s, t
<1>4. CASE differ # {}
  <2> DEFINE m == Min(differ)
  <2>0. differ \in SUBSET Nat
    OBVIOUS
  <2>1. m \in differ /\ \A k \in differ : m <= k
    <3> HIDE DEF differ
    <3> QED
      BY <1>4, <2>0, MinIsLeast
  <2>2. Memcmp(x, y, n) = Memory[x.ptr + m] - Memory[y.ptr + m]
    BY <1>4 DEF Memcmp
  <2> HIDE DEF s, t, m
  <2>3. /\ m + 1 \in 1 .. n /\ s[m + 1] # t[m + 1]
        /\ Memcmp(x, y, n) = s[m + 1] - t[m + 1]
    BY <1>2, <2>1, <2>2
  <2>4. \A j \in 1 .. m : s[j] = t[j]
    <3>1. ASSUME NEW j \in 1 .. m PROVE s[j] = t[j]
      <4>1. j - 1 \in 0 .. n - 1 /\ (j - 1) + 1 = j /\ ~(m <= j - 1)
        BY <2>1
      <4> QED
        BY <4>1, <2>1, <1>2
    <3> QED
      BY <3>1
  <2>5. \A k \in 1 .. n : Agree(s, t, k - 1) => k <= m + 1
    BY <2>1, <2>3 DEF Agree
  <2>6. \A k \in 1 .. n : Agree(t, s, k - 1) => k <= m + 1
    BY <2>1, <2>3 DEF Agree
  <2>7. ~Agree(s, t, n)
    BY <2>3 DEF Agree
  <2>8. Agree(s, t, (m + 1) - 1) /\ Agree(t, s, (m + 1) - 1)
    BY <2>1, <2>4 DEF Agree
  <2>9. Lower(s, t, n) <=> s[m + 1] < t[m + 1]
    BY <1>1, <2>1, <2>3, <2>4, <2>5, <2>8 DEF Lower
  <2>10. Lower(t, s, n) <=> t[m + 1] < s[m + 1]
    BY <1>1, <2>1, <2>3, <2>4, <2>6, <2>8 DEF Lower
  <2> QED
    BY <1>1, <2>3, <2>7, <2>9, <2>10 DEF s, t
<1> QED
  BY <1>3, <1>4

\* Before() is the order that memcmp() and the lengths decide.
LEMMA BeforeMeans ==
    ASSUME NEW s \in Seq(Nat), NEW t \in Seq(Nat), NEW n \in Nat,
           n = IF Len(s) <= Len(t) THEN Len(s) ELSE Len(t)
    PROVE  /\ IsPrefix(s, t) <=> Len(s) <= Len(t) /\ Agree(s, t, Len(s))
           /\ s = t <=> Len(s) = Len(t) /\ Agree(s, t, Len(s))
           /\ Before(s, t) <=> Lower(s, t, n) \/ (Agree(s, t, n) /\ Len(s) < Len(t))
<1>1. Len(s) \in Nat /\ Len(t) \in Nat /\ n \in Nat
  BY LenProperties
<1>2. s = t <=> Len(s) = Len(t) /\ Agree(s, t, Len(s))
  BY SeqEqual DEF Agree
<1>3. Len(s) <= Len(t) =>
        (SubSeq(s, 1, Len(s)) = SubSeq(t, 1, Len(s)) <=> Agree(s, t, Len(s)))
  <2> SUFFICES ASSUME Len(s) <= Len(t)
               PROVE  SubSeq(s, 1, Len(s)) = SubSeq(t, 1, Len(s)) <=> Agree(s, t, Len(s))
    OBVIOUS
  <2> DEFINE u == SubSeq(t, 1, Len(s))
  <2>1. \A i \in 1 .. Len(s) : t[i] \in Nat
    BY <1>1, ElementOfSeq
  <2>2. /\ u \in Seq(Nat) /\ Len(u) = Len(s)
        /\ \A i \in 1 .. Len(s) : u[i] = t[i]
    BY <1>1, <2>1, SubSeqProperties
  <2>3. SubSeq(s, 1, Len(s)) = s
    BY SubSeqFull
  <2> HIDE DEF u
  <2>4. s = u <=> \A i \in 1 .. Len(s) : s[i] = u[i]
    BY <2>2, SeqEqual
  <2> QED
    BY <2>2, <2>3, <2>4 DEF Agree, u
<1>4. IsPrefix(s, t) <=> Len(s) <= Len(t) /\ Agree(s, t, Len(s))
  BY <1>3 DEF IsPrefix
<1>5. (\E k \in 1 .. Min({Len(s), Len(t)}) : s[k] < t[k] /\ \A j \in 1 .. k - 1 : s[j] = t[j])
        <=> Lower(s, t, n)
  <2>1. Min({Len(s), Len(t)}) = n
    <3>1. Len(s) \in Int /\ Len(t) \in Int
      BY <1>1
    <3>2. Min({Len(s), Len(t)}) = IF Len(s) <= Len(t) THEN Len(s) ELSE Len(t)
      BY <3>1, MinOfTwo, Zenon
    <3> QED
      BY <3>2
  <2> QED
    BY <2>1 DEF Lower, Agree
<1>6. IsStrictPrefix(s, t) <=> Agree(s, t, n) /\ Len(s) < Len(t)
  <2>1. CASE Len(s) < Len(t)
    <3>1. n = Len(s) /\ s # t
      BY <1>1, <2>1
    <3> QED
      BY <1>1, <1>4, <2>1, <3>1 DEF IsStrictPrefix
  <2>2. CASE ~(Len(s) < Len(t))
    <3>1. Len(s) <= Len(t) => Len(s) = Len(t)
      BY <1>1, <2>2
    <3> QED
      BY <1>2, <1>4, <2>2, <3>1 DEF IsStrictPrefix
  <2> QED
    BY <2>1, <2>2
<1> QED
  BY <1>2, <1>4, <1>5, <1>6 DEF Before

\* The comparisons of two pieces that lie in Memory.
LEMMA PiecesOrdered ==
    InMemory(name) /\ InMemory(other) => OrderRight
<1> SUFFICES ASSUME InMemory(name), InMemory(other) PROVE OrderRight
  OBVIOUS
<1> DEFINE s == AsString(name)
           t == AsString(other)
           c == Common(name, other)
           n == Shorter(name, other)
<1>1. /\ s \in Seq(Nat) /\ Len(s) = name.len /\ name.len \in Nat
      /\ t \in Seq(Nat) /\ Len(t) = other.len /\ other.len \in Nat
  BY StringOf DEF InMemory
<1>2. n \in Nat /\ n <= name.len /\ n <= other.len /\ (n = name.len \/ n = other.len)
  BY <1>1 DEF Shorter
<1>3. /\ c \in Int
      /\ c = 0 <=> Agree(s, t, n)
      /\ c < 0 <=> Lower(s, t, n)
      /\ c > 0 <=> Lower(t, s, n)
  BY <1>2, MemcmpCompares DEF Common
<1>4. /\ s = t <=> name.len = other.len /\ Agree(s, t, name.len)
      /\ Before(s, t) <=> Lower(s, t, n) \/ (Agree(s, t, n) /\ name.len < other.len)
      /\ Before(t, s) <=> Lower(t, s, n) \/ (Agree(t, s, n) /\ other.len < name.len)
      /\ IsPrefix(t, s) <=> other.len <= name.len /\ Agree(t, s, other.len)
  <2>1. /\ n = IF Len(s) <= Len(t) THEN Len(s) ELSE Len(t)
        /\ n = IF Len(t) <= Len(s) THEN Len(t) ELSE Len(s)
    BY <1>1 DEF Shorter
  <2> HIDE DEF s, t, n
  <2> QED
    BY <1>1, <2>1, BeforeMeans
<1>5. /\ Agree(s, t, n) <=> Agree(t, s, n)
      /\ Agree(s, t, other.len) <=> Agree(t, s, other.len)
  BY DEF Agree
<1>6. Equal(name, other) <=> s = t
  <2>1. name.len = other.len => (Memcmp(name, other, name.len) = 0 <=> Agree(s, t, name.len))
    BY <1>1, MemcmpCompares, SMTT(40)
  <2> QED
    BY <2>1, <1>4 DEF Equal
<1>7. StartsWith(name, other) <=> IsPrefix(t, s)
  <2>1. other.len <= name.len =>
          (Memcmp(name, other, other.len) = 0 <=> Agree(s, t, other.len))
    BY <1>1, MemcmpCompares
  <2> QED
    BY <1>1, <2>1, <1>4, <1>5 DEF StartsWith
<1>8. /\ Less(name, other) <=> Before(s, t)
      /\ Greater(name, other) <=> Before(t, s)
      /\ LessEqual(name, other) <=> ~Before(t, s)
      /\ GreaterEqual(name, other) <=> ~Before(s, t)
  <2> HIDE DEF s, t, c, n
  <2> QED
    BY <1>1, <1>3, <1>4, <1>5 DEF Less, Greater, LessEqual, GreaterEqual, c
<1>9. s = t <=> c = 0 /\ name.len = other.len
  BY <1>1, <1>3, <1>4 DEF Shorter
<1>10. /\ Compare(name, other) < 0 <=> Before(s, t)
       /\ Compare(name, other) = 0 <=> s = t
  <2> HIDE DEF s, t, c, n
  <2> QED
    BY <1>1, <1>3, <1>4, <1>5, <1>9 DEF Compare, c
<1> QED
  BY <1>6, <1>7, <1>8, <1>10 DEF OrderRight

----------------------------------------------------------------------------
(* The inductive invariant: the types; that the descriptor is of the file  *)
(* named; what err says of the calls that failed; and, until the file is   *)
(* cut off, that the content is the part of the file between the offset at *)
(* the start of the call and the one now.                                  *)

Steps == {"naming", "idle", "stat", "loop", "returned", "thrown", "closed"}
Ops == {"none", "string", "buffer"}

Byte == Nat

FileTypeOK ==
    /\ InMemory(name) /\ InMemory(other)
    /\ file \in [Names -> File]
    /\ fd_ \in [name : Names \cup {NoFile}, offset : Nat]
    /\ err_ \in Nat /\ buf_ \in [1 .. BufferSize -> Byte]
    /\ content \in Seq(Byte) /\ fileSize \in Int /\ err \in Nat
    /\ args \in [op : Ops, maxSize : Int, sized : BOOLEAN]
    /\ start \in [offset : Nat, size : Nat]
    /\ change \in {"none", "grown", "shrunk"} /\ refused \in BOOLEAN
    /\ pc \in Steps /\ calls \in Nat

\* The descriptor is of the file the name's C string names, and while there is
\* one the constructor has not failed.
Named ==
    /\ fd_.name = NoFile => fd_ = NoFd
    /\ fd_ # NoFd => fd_.name = PathOf(name) /\ name.ptr # 0 /\ err_ = 0
    /\ pc \in {"naming", "closed"} => fd_ = NoFd
    /\ pc \in {"stat", "loop", "thrown"} => fd_ # NoFd

\* The call is one of readToString() that reads, and it has come that far.
Reading == /\ fd_ # NoFd /\ pc \in {"stat", "loop", "returned"}
           /\ args.op = "string" /\ args.sized

InString == pc \in {"stat", "loop"} => args.op = "string" /\ args.sized

\* No byte is read before the loop, and no error met.
Untouched == pc = "stat" => content = <<>> /\ err = 0 /\ ~refused /\ fileSize = -1

\* Everything read so far is in the content, within the limit.
Offsets == Reading => fd_.offset = start.offset + Len(content) /\ Len(content) <= Limit

\* It is what the file holds there.
Contents ==
    Reading /\ change # "shrunk" =>
        /\ content # <<>> => start.offset + Len(content) <= Len(Opened.bytes)
        /\ content = SubSeq(Opened.bytes, start.offset + 1, start.offset + Len(content))

\* The file has not become shorter, or not changed.
SizesSeen == Reading => /\ change # "shrunk" => start.size <= Len(Opened.bytes)
                        /\ change = "none" => start.size = Len(Opened.bytes)

\* err is zero as long as no call failed and the file is not a directory.
Errors == Reading /\ pc # "stat" => (err = 0 <=> ~refused /\ Opened.kind # "directory")

StatRight == Reading /\ pc # "stat" /\ err = 0 /\ change = "none" =>
                 fileSize = IF Opened.kind = "regular" THEN start.size ELSE -1

\* Without an error the loop ends at the limit or at the end of the file.
Complete == Reading /\ pc = "returned" /\ err = 0 =>
                Len(content) >= Limit \/ fd_.offset >= Len(Opened.bytes)

BufferRight ==
    Done /\ args.op = "buffer" =>
        IF refused THEN err # 0
        ELSE /\ err = 0 /\ buf_[fileSize + 1] = NUL
             /\ SubSeq(buf_, 1, fileSize) = Bytes(0, fileSize)

CallRight == /\ InString /\ Untouched /\ Offsets /\ Contents /\ SizesSeen
             /\ Errors /\ StatRight /\ Complete

FileInv == FileTypeOK /\ Named /\ CallRight /\ BufferRight

----------------------------------------------------------------------------
(* The initial state, and the steps of the client                          *)

LEMMA CutInMemory ==
    ASSUME NEW x, InMemory(x), NEW y \in Cut(x)
    PROVE  InMemory(y)
BY DEF Cut, InMemory, NullPiece, RemovePrefix, RemoveSuffix

LEMMA StringInMemory ==
    ASSUME NEW p \in Starts
    PROVE  /\ InMemory(OfCString(p))
           /\ \A n \in 0 .. 2 : InMemory(OfBuffer(p, n))
<1>1. p \in 1 .. Len(Memory) - 1 /\ Len(Memory) \in Nat
  BY StartsAssumption, MemoryAssumption, LenProperties
<1>2. Strlen(p) \in Nat /\ p + Strlen(p) <= Len(Memory)
  BY <1>1, StrlenInMemory
<1> QED
  BY <1>1, <1>2 DEF InMemory, OfCString, OfBuffer

LEMMA InitFileInv == Init => FileInv
<1> SUFFICES ASSUME Init PROVE FileInv
  OBVIOUS
<1>1. InMemory(name) /\ InMemory(other)
  BY StringInMemory DEF Init
<1>2. FileTypeOK
  <2>1. NoFd \in [name : Names \cup {NoFile}, offset : Nat]
    BY DEF NoFd
  <2>2. buf_ \in [1 .. BufferSize -> Byte]
    BY DEF Init, Byte, Raw
  <2>3. content \in Seq(Byte)
    BY DEF Init
  <2>4. /\ args \in [op : Ops, maxSize : Int, sized : BOOLEAN]
        /\ start \in [offset : Nat, size : Nat]
    BY DEF Init, Ops
  <2>5. /\ calls \in Nat /\ err \in Nat /\ err_ \in Nat /\ fileSize \in Int
        /\ pc \in Steps /\ change \in {"none", "grown", "shrunk"}
    <3>1. calls = 0 /\ err = 0 /\ err_ = 0 /\ fileSize = -1
      BY DEF Init
    <3>2. pc = "naming" /\ change = "none"
      BY DEF Init
    <3> QED
      BY <3>1, <3>2 DEF Steps
  <2>7. refused \in BOOLEAN
    BY Zenon DEF Init
  <2>6. file \in [Names -> File] /\ fd_ = NoFd
    BY FilesAssumption DEF Init
  <2> QED
    BY <1>1, <2>1, <2>2, <2>3, <2>4, <2>5, <2>6, <2>7 DEF FileTypeOK
<1> QED
  BY <1>2 DEF Init, FileInv, Named, NoFd, CallRight, InString, Untouched, Reading, Offsets,
              Contents, SizesSeen, Errors, StatRight, Complete, BufferRight, Done

\* The state of a call is right after a step that leaves it alone and does not
\* go into a call.
LEMMA CallKept ==
    ASSUME FileInv, UNCHANGED <<file, objectVars, callVars, name>>,
           pc' # pc => pc' \in {"idle", "naming"}, pc' \in Steps
    PROVE  CallRight' /\ BufferRight'
<1>1. Opened' = Opened /\ Limit' = Limit
  BY DEF Opened, Limit, objectVars, callVars
<1>2. (Reading' => Reading) /\ (Done' => Done)
  BY DEF Reading, Done, objectVars, callVars
<1>3. /\ buf_' = buf_ /\ fileSize' = fileSize /\ err' = err /\ refused' = refused
      /\ args' = args
  BY DEF objectVars, callVars
<1>4. BufferRight'
  <2>1. \A m, n : Bytes(m, n)' = Bytes(m, n)
    BY <1>1 DEF Bytes
  <2>2. Bytes(0, fileSize)' = Bytes(0, fileSize)
    BY <1>3, <2>1
  <2> QED
    BY <1>2, <1>3, <2>2 DEF FileInv, BufferRight
<1>5. /\ Reading' => pc' = pc
      /\ pc' \in {"stat", "loop"} => pc' = pc
  BY DEF Reading
<1>6. /\ fd_' = fd_ /\ content' = content /\ start' = start /\ change' = change
  BY DEF objectVars, callVars
<1>7. InString' /\ Untouched'
  BY <1>3, <1>5, <1>6 DEF FileInv, CallRight, InString, Untouched
<1>8. Offsets' /\ Contents' /\ SizesSeen'
  BY <1>1, <1>2, <1>6 DEF FileInv, CallRight, Offsets, Contents, SizesSeen
<1>9. Errors' /\ StatRight' /\ Complete'
  BY <1>1, <1>2, <1>3, <1>5, <1>6 DEF FileInv, CallRight, Errors, StatRight, Complete
<1> QED
  BY <1>4, <1>7, <1>8, <1>9 DEF CallRight

LEMMA NamingFileInv ==
    ASSUME FileInv, EditName \/ EditOther \/ Open
    PROVE  FileInv'
<1>1. CASE EditName
  <2>1. InMemory(name')
    BY <1>1, CutInMemory DEF EditName, FileInv, FileTypeOK
  <2>2. FileTypeOK' /\ Named'
    BY <1>1, <2>1 DEF EditName, FileInv, FileTypeOK, Named, objectVars, callVars
  <2> QED
    BY <1>1, <2>2 DEF EditName, FileInv, CallRight, InString, Untouched, Reading, Offsets, Contents,
              SizesSeen, Errors, StatRight, Complete, BufferRight, Done
<1>2. CASE EditOther
  <2>1. InMemory(other')
    BY <1>2, CutInMemory, StringInMemory DEF EditOther, FileInv, FileTypeOK
  <2>2. FileTypeOK' /\ Named'
    BY <1>2, <2>1 DEF EditOther, FileInv, FileTypeOK, Named, objectVars, callVars, PathOf
  <2> QED
    BY <1>2, <2>2 DEF EditOther, FileInv, CallRight, InString, Untouched, Reading, Offsets, Contents,
              SizesSeen, Errors, StatRight, Complete, BufferRight, Done
<1>3. CASE Open
  <2>1. InMemory(other')
    BY <1>3 DEF Open, InMemory, NullPiece
  <2>2. buf_' \in [1 .. BufferSize -> Byte]
    BY <1>3 DEF Open, FileInv, FileTypeOK, Byte, NUL
  <2>3. /\ fd_' \in [name : Names \cup {NoFile}, offset : Nat] /\ err_' \in Nat
        /\ pc' = "idle" /\ UNCHANGED <<name, file, callVars, calls>>
    BY <1>3 DEF Open, NoFd, EFAULT, EIO, ENOENT
  <2>4. FileTypeOK'
    BY <2>1, <2>2, <2>3 DEF FileInv, FileTypeOK, callVars, Steps
  <2>5. Named'
    BY <1>3, FilesAssumption DEF Open, NoFd, Named, PathOf
  <2> QED
    BY <2>3, <2>4, <2>5 DEF FileInv, CallRight, InString, Untouched, Reading, Offsets, Contents,
              SizesSeen, Errors, StatRight, Complete, BufferRight, Done
<1> QED
  BY <1>1, <1>2, <1>3

LEMMA EnterFileInv ==
    ASSUME FileInv, Enter
    PROVE  FileInv'
<1>1. PICK maxSize \in MaxSizes, sized \in WantSizes :
         /\ args' = [op |-> "string", maxSize |-> maxSize, sized |-> sized]
         /\ IF fd_ = NoFd \/ ~sized THEN pc' = "returned" /\ content' = content
                                    ELSE pc' = "stat" /\ content' = <<>>
  BY DEF Enter
<1>2. /\ pc = "idle" /\ calls' = calls + 1 /\ err' = err_ /\ fileSize' = -1
      /\ start' = [offset |-> fd_.offset,
                   size |-> IF fd_ = NoFd THEN 0 ELSE Len(Opened.bytes)]
      /\ change' = "none" /\ refused' = FALSE
      /\ UNCHANGED <<name, other, file, fd_, err_, buf_>>
  BY DEF Enter, pieceVars, objectVars
<1>3. maxSize \in Int /\ sized \in BOOLEAN
  BY CallsAssumption
<1>4. fd_ # NoFd => Opened \in File /\ Len(Opened.bytes) \in Nat
  BY LenProperties DEF FileInv, FileTypeOK, Named, Opened, File
<1>5. <<>> \in Seq(Byte)
  OBVIOUS
<1>6. FileTypeOK'
  <2>1. args' \in [op : Ops, maxSize : Int, sized : BOOLEAN]
    BY <1>1, <1>3 DEF Ops
  <2>2. start' \in [offset : Nat, size : Nat]
    BY <1>2, <1>4 DEF FileInv, FileTypeOK
  <2>3. /\ pc' \in Steps /\ calls' \in Nat /\ content' \in Seq(Byte)
        /\ err' \in Nat /\ fileSize' \in Int
    <3>1. content' = content \/ content' = <<>>
      BY <1>1
    <3>2. content' \in Seq(Byte)
      BY <1>5, <3>1 DEF FileInv, FileTypeOK
    <3>3. pc' \in Steps
      BY <1>1 DEF Steps
    <3> QED
      BY <1>2, <3>2, <3>3 DEF FileInv, FileTypeOK
  <2> QED
    BY <1>2, <2>1, <2>2, <2>3 DEF FileInv, FileTypeOK
<1>7. Named'
  BY <1>1, <1>2 DEF FileInv, Named, PathOf
<1>8. Opened' = Opened
  BY <1>2 DEF Opened
<1>9. Limit' \in Nat
  BY <1>1, <1>3, FilesAssumption DEF Limit
<1>10. Reading' => pc' = "stat" /\ content' = <<>>
  BY <1>1, <1>2 DEF Reading
<1>11. fd_ # NoFd => SubSeq(Opened.bytes, fd_.offset + 1, fd_.offset + 0) = <<>>
  BY SubSeqEmpty DEF FileInv, FileTypeOK
<1>12. Len(<<>>) = 0
  OBVIOUS
<1>13. CallRight'
  <2>1. InString'
    BY <1>1 DEF InString
  <2>2. Untouched'
    BY <1>1, <1>2 DEF FileInv, Named, Untouched
  <2>3. Offsets'
    BY <1>2, <1>9, <1>10, <1>12 DEF FileInv, FileTypeOK, Offsets
  <2>4. Contents'
    BY <1>2, <1>8, <1>10, <1>11, <1>12 DEF Contents, Reading
  <2>5. SizesSeen'
    BY <1>2, <1>4, <1>8, <1>10 DEF SizesSeen, Reading
  <2>6. Errors' /\ StatRight' /\ Complete'
    BY <1>10 DEF Errors, StatRight, Complete
  <2> QED
    BY <2>1, <2>2, <2>3, <2>4, <2>5, <2>6 DEF CallRight
<1>14. BufferRight'
  BY <1>1 DEF BufferRight
<1> QED
  BY <1>6, <1>7, <1>13, <1>14 DEF FileInv

----------------------------------------------------------------------------
(* The steps inside a call of readToString()                               *)

\* A call that reads is about a file that exists.
LEMMA OpenedFile ==
    ASSUME FileInv, fd_ # NoFd
    PROVE  /\ Opened \in File /\ Opened.bytes \in Seq(Nat) /\ Len(Opened.bytes) \in Nat
           /\ fd_.name \in Names /\ fd_.offset \in Nat
<1>1. fd_.name \in Names /\ fd_.offset \in Nat
  BY DEF FileInv, FileTypeOK, Named
<1>2. Opened \in File
  BY <1>1 DEF FileInv, FileTypeOK, Opened
<1>3. Opened.bytes \in Seq(Nat)
  BY <1>2 DEF File
<1> QED
  BY <1>1, <1>2, <1>3, LenProperties

LEMMA InCall ==
    ASSUME FileInv, pc \in {"stat", "loop"}
    PROVE  /\ Reading /\ fd_ # NoFd /\ args.op = "string" /\ args.sized
           /\ Limit \in Nat /\ Len(content) \in Nat /\ start.offset \in Nat
<1>1. fd_ # NoFd /\ args.op = "string" /\ args.sized
  BY DEF FileInv, Named, CallRight, InString
<1>2. args.maxSize \in Int /\ start.offset \in Nat /\ content \in Seq(Byte)
  BY DEF FileInv, FileTypeOK
<1>3. Limit \in Nat
  BY <1>2, FilesAssumption DEF Limit
<1> QED
  BY <1>1, <1>2, <1>3, LenProperties DEF Reading

LEMMA StatFileInv ==
    ASSUME FileInv, Stat \/ StatFails
    PROVE  FileInv'
<1>1. pc = "stat" /\ Reading /\ fd_ # NoFd /\ args.op = "string" /\ args.sized
  BY InCall DEF Stat, StatFails
<1>2. /\ UNCHANGED <<name, other, file, fd_, err_, buf_, content, args, start, change, calls>>
      /\ pc' \in {"loop", "thrown"}
  BY DEF Stat, StatFails, pieceVars, objectVars
<1>3. content = <<>> /\ err = 0 /\ ~refused /\ fileSize = -1
  BY <1>1 DEF FileInv, CallRight, Untouched
<1>4. Opened' = Opened /\ Limit' = Limit
  BY <1>2 DEF Opened, Limit
<1>5. Opened \in File /\ Len(Opened.bytes) \in Nat
  BY <1>1, OpenedFile
<1>6. err' \in Nat /\ fileSize' \in Int
  BY <1>3, <1>5 DEF Stat, StatFails, EISDIR, EIO
<1>7. refused' \in BOOLEAN
  <2>1. CASE Stat
    BY <2>1 DEF Stat, FileInv, FileTypeOK
  <2>2. CASE StatFails
    <3>1. refused' = TRUE
      BY <2>2 DEF StatFails
    <3> QED
      BY <3>1, Zenon
  <2> QED
    BY <2>1, <2>2
<1>8. FileTypeOK'
  BY <1>2, <1>6, <1>7 DEF FileInv, FileTypeOK, Steps
<1>9. Named'
  BY <1>1, <1>2 DEF FileInv, Named, PathOf
<1>10. Reading' => pc' = "loop"
  BY <1>2 DEF Reading
<1>11. InString' /\ Untouched'
  BY <1>1, <1>2 DEF InString, Untouched
<1>12. Offsets' /\ Contents' /\ SizesSeen'
  BY <1>1, <1>2, <1>4 DEF FileInv, CallRight, Offsets, Contents, SizesSeen
<1>13. err' = 0 <=> ~refused' /\ Opened.kind # "directory"
  <2>1. CASE Stat
    BY <1>3, <2>1 DEF Stat, EISDIR
  <2>2. CASE StatFails
    BY <2>2 DEF StatFails, EIO
  <2> QED
    BY <2>1, <2>2
<1>14. err' = 0 /\ change = "none" =>
         fileSize' = IF Opened.kind = "regular" THEN start.size ELSE -1
  <2>1. CASE Stat
    <3>1. change = "none" => start.size = Len(Opened.bytes)
      BY <1>1 DEF FileInv, CallRight, SizesSeen
    <3>2. fileSize' = IF Opened.kind = "regular" THEN Len(Opened.bytes) ELSE fileSize
      BY <2>1 DEF Stat
    <3> QED
      BY <1>3, <3>1, <3>2
  <2>2. CASE StatFails
    BY <2>2 DEF StatFails, EIO
  <2> QED
    BY <2>1, <2>2
<1>15. Errors' /\ StatRight' /\ Complete'
  BY <1>2, <1>4, <1>10, <1>13, <1>14 DEF Errors, StatRight, Complete
<1>16. BufferRight'
  BY <1>1, <1>2 DEF BufferRight
<1> QED
  BY <1>8, <1>9, <1>11, <1>12, <1>15, <1>16 DEF FileInv, CallRight

LEMMA ReadFileInv ==
    ASSUME FileInv, Read
    PROVE  FileInv'
<1>1. /\ pc = "loop" /\ Reading /\ fd_ # NoFd /\ args.op = "string" /\ args.sized
      /\ Limit \in Nat /\ Len(content) \in Nat /\ start.offset \in Nat
  BY InCall DEF Read
<1>2. PICK n \in 1 .. Min({ToRead, Len(Opened.bytes) - fd_.offset}) :
         /\ content' = content \o Bytes(fd_.offset, n)
         /\ buf_' = Filled(Bytes(fd_.offset, n))
         /\ fd_' = [fd_ EXCEPT !.offset = @ + n]
  BY DEF Read
<1>3. /\ UNCHANGED <<name, other, file, err_, fileSize, err, args, start, change, refused, pc, calls>>
      /\ Len(content) < Limit /\ Opened.kind # "directory"
  BY DEF Read, pieceVars
<1>4. /\ Opened \in File /\ Opened.bytes \in Seq(Nat) /\ Len(Opened.bytes) \in Nat
      /\ fd_.name \in Names /\ fd_.offset \in Nat
  BY <1>1, OpenedFile
<1>5. /\ n \in Nat /\ n >= 1 /\ fd_.offset + n <= Len(Opened.bytes)
      /\ Len(content) + n <= Limit /\ n <= BufferSize
  <2>1. BufferSize \in Nat
    BY CallsAssumption
  <2>2. ToRead = IF Limit - Len(content) <= BufferSize THEN Limit - Len(content) ELSE BufferSize
    BY <1>1, <2>1, MinOfTwo DEF ToRead
  <2>3. ToRead \in Int
    BY <1>1, <2>1, <2>2
  <2>4. n <= ToRead /\ n <= Len(Opened.bytes) - fd_.offset
    <3> DEFINE a == ToRead
               b == Len(Opened.bytes) - fd_.offset
    <3>1. a \in Int /\ b \in Int
      BY <1>4, <2>3
    <3>2. n \in 1 .. Min({a, b})
      OBVIOUS
    <3> HIDE DEF a, b
    <3>3. Min({a, b}) = IF a <= b THEN a ELSE b
      BY <3>1, MinOfTwo
    <3>4. n <= a /\ n <= b
      BY <3>1, <3>2, <3>3
    <3> QED
      BY <3>4 DEF a, b
  <2> QED
    BY <1>1, <1>4, <2>1, <2>2, <2>4
<1>6. /\ fd_' \in [name : Names \cup {NoFile}, offset : Nat]
      /\ fd_'.name = fd_.name /\ fd_'.offset = fd_.offset + n /\ fd_' # NoFd
  <2>1. fd_ \in [name : Names \cup {NoFile}, offset : Nat]
    BY DEF FileInv, FileTypeOK
  <2>2. /\ fd_'.name = fd_.name /\ fd_'.offset = fd_.offset + n
        /\ fd_' = [name |-> fd_.name, offset |-> fd_.offset + n]
    BY <1>2, <2>1
  <2>3. fd_.offset + n \in Nat
    BY <1>4, <1>5
  <2>4. fd_' \in [name : Names \cup {NoFile}, offset : Nat]
    BY <1>4, <2>2, <2>3
  <2>5. fd_.name # NoFile
    BY <1>4, FilesAssumption
  <2> QED
    BY <2>2, <2>4, <2>5 DEF NoFd
<1>7. Opened' = Opened /\ Limit' = Limit
  BY <1>3, <1>6 DEF Opened, Limit
<1> DEFINE new == Bytes(fd_.offset, n)
<1>8. new \in Seq(Nat) /\ Len(new) = n /\ \A i \in 1 .. n : new[i] = Opened.bytes[fd_.offset + i]
  BY <1>4, <1>5, Chunk DEF Bytes
<1>9. content' \in Seq(Byte) /\ Len(content') = Len(content) + n
  BY <1>2, <1>8, ConcatProperties DEF FileInv, FileTypeOK, Byte
<1>10. buf_' \in [1 .. BufferSize -> Byte]
  <2> HIDE DEF new
  <2>1. ASSUME NEW k \in 1 .. BufferSize
        PROVE  (IF k <= Len(new) THEN new[k] ELSE buf_[k]) \in Nat
    <3>1. CASE k <= Len(new)
      <4>1. k \in 1 .. Len(new)
        BY <1>5, <1>8, <3>1
      <4> QED
        BY <1>8, <3>1, <4>1, ElementOfSeq
    <3>2. CASE ~(k <= Len(new))
      BY <3>2 DEF FileInv, FileTypeOK, Byte
    <3> QED
      BY <3>1, <3>2
  <2> QED
    BY <1>2, <2>1 DEF Filled, Byte, new
<1>11. FileTypeOK'
  BY <1>3, <1>6, <1>9, <1>10 DEF FileInv, FileTypeOK
<1>12. Named'
  BY <1>1, <1>3, <1>4, <1>6, FilesAssumption DEF FileInv, Named, PathOf
<1>13. Reading' /\ InString' /\ Untouched'
  BY <1>1, <1>3, <1>6 DEF Reading, InString, Untouched
<1>14. Offsets'
  BY <1>1, <1>3, <1>5, <1>6, <1>7, <1>9 DEF FileInv, CallRight, Offsets
<1>15. Contents'
  <2> SUFFICES ASSUME change # "shrunk"
               PROVE  /\ start.offset + Len(content') <= Len(Opened.bytes)
                      /\ content' = SubSeq(Opened.bytes, start.offset + 1,
                                          start.offset + Len(content'))
    BY <1>3, <1>7 DEF Contents
  <2>1. fd_.offset = start.offset + Len(content)
    BY <1>1 DEF FileInv, CallRight, Offsets
  <2>2. content = SubSeq(Opened.bytes, start.offset + 1, start.offset + Len(content))
    BY <1>1 DEF FileInv, CallRight, Contents
  <2>3. SubSeq(Opened.bytes, start.offset + 1, fd_.offset)
          \o SubSeq(Opened.bytes, fd_.offset + 1, fd_.offset + n)
        = SubSeq(Opened.bytes, start.offset + 1, fd_.offset + n)
    <3>1. /\ start.offset + 1 \in 1 .. Len(Opened.bytes) + 1
          /\ fd_.offset \in (start.offset + 1) - 1 .. Len(Opened.bytes)
          /\ fd_.offset + n \in fd_.offset .. Len(Opened.bytes)
      <4>1. /\ fd_.offset \in Nat /\ start.offset \in Nat /\ Len(content) \in Nat
            /\ Len(Opened.bytes) \in Nat /\ n \in Nat
        BY <1>1, <1>4, <1>5
      <4>2. start.offset <= fd_.offset
        BY <2>1, <4>1
      <4> DEFINE o == fd_.offset
                 a == start.offset
                 m == Len(Opened.bytes)
      <4>3. o \in Nat /\ a \in Nat /\ m \in Nat /\ n \in Nat /\ a <= o /\ o + n <= m
        BY <1>5, <4>1, <4>2
      <4> HIDE DEF o, a, m
      <4>4. a + 1 \in 1 .. m + 1 /\ o \in (a + 1) - 1 .. m /\ o + n \in o .. m
        BY <4>3
      <4> QED
        BY <4>4 DEF o, a, m
    <3> DEFINE b == Opened.bytes
               i == start.offset + 1
               j == fd_.offset
               k == fd_.offset + n
    <3>2. b \in Seq(Nat) /\ i \in 1 .. Len(b) + 1 /\ j \in i - 1 .. Len(b) /\ k \in j .. Len(b)
      BY <1>4, <3>1
    <3> HIDE DEF b, i, j, k
    <3>3. SubSeq(b, i, j) \o SubSeq(b, j + 1, k) = SubSeq(b, i, k)
      BY <3>2, ConcatAdjacentSubSeq
    <3> QED
      BY <3>3 DEF b, i, j, k
  <2>4. content' = SubSeq(Opened.bytes, start.offset + 1, fd_.offset + n)
    BY <1>2, <2>1, <2>2, <2>3 DEF Bytes
  <2>5. start.offset + Len(content') = fd_.offset + n
    BY <1>1, <1>4, <1>5, <1>9, <2>1
  <2> QED
    BY <1>5, <2>4, <2>5
<1>16. SizesSeen' /\ Errors' /\ StatRight' /\ Complete'
  BY <1>1, <1>3, <1>7 DEF FileInv, CallRight, SizesSeen, Errors, StatRight, Complete
<1>17. BufferRight'
  BY <1>1, <1>3 DEF BufferRight
<1> QED
  BY <1>11, <1>12, <1>13, <1>14, <1>15, <1>16, <1>17 DEF FileInv, CallRight

\* The call ends: by a read that gives nothing, or at the limit.
LEMMA EndFileInv ==
    ASSUME FileInv, ReadNothing \/ LoopEnds
    PROVE  FileInv'
<1>1. /\ pc = "loop" /\ Reading /\ fd_ # NoFd /\ args.op = "string" /\ args.sized
      /\ Limit \in Nat
  BY InCall DEF ReadNothing, LoopEnds
<1>2. /\ UNCHANGED <<name, other, file, fd_, err_, buf_, content, fileSize, args, start, change, calls>>
      /\ pc' = "returned"
  BY DEF ReadNothing, LoopEnds, pieceVars, objectVars, callVars
<1>3. Opened' = Opened /\ Limit' = Limit
  BY <1>2 DEF Opened, Limit
<1>4. Opened \in File /\ Len(Opened.bytes) \in Nat /\ fd_.offset \in Nat
  BY <1>1, OpenedFile
<1>5. \/ /\ UNCHANGED <<err, refused>>
         /\ Len(content) >= Limit \/ fd_.offset >= Len(Opened.bytes)
      \/ err' \in Nat \ {0} /\ refused' = TRUE
  BY DEF ReadNothing, LoopEnds, callVars, EISDIR, EIO
<1>6. err = 0 <=> ~refused /\ Opened.kind # "directory"
  BY <1>1 DEF FileInv, CallRight, Errors
<1>7. FileTypeOK'
  <2>1. refused' \in BOOLEAN
    <3>1. refused' = refused \/ refused' = TRUE
      BY <1>5
    <3>2. refused \in BOOLEAN
      BY DEF FileInv, FileTypeOK
    <3> QED
      BY <3>1, <3>2, Zenon
  <2>2. err' \in Nat
    BY <1>5 DEF FileInv, FileTypeOK
  <2> QED
    BY <1>2, <2>1, <2>2 DEF FileInv, FileTypeOK, Steps
<1>8. Named'
  BY <1>1, <1>2 DEF FileInv, Named, PathOf
<1>9. InString' /\ Untouched'
  BY <1>2 DEF InString, Untouched
<1>10. Offsets' /\ Contents' /\ SizesSeen'
  BY <1>1, <1>2, <1>3 DEF FileInv, CallRight, Offsets, Contents, SizesSeen
<1>11. err' = 0 <=> ~refused' /\ Opened.kind # "directory"
  BY <1>5, <1>6
<1>12. err' = 0 => err = 0
  BY <1>5
<1>13. Errors'
  BY <1>2, <1>3, <1>11 DEF Errors
<1>14. StatRight'
  BY <1>1, <1>2, <1>3, <1>12 DEF FileInv, CallRight, StatRight
<1>15. Complete'
  BY <1>2, <1>3, <1>5 DEF Complete
<1>16. BufferRight'
  BY <1>1, <1>2 DEF BufferRight
<1> QED
  BY <1>7, <1>8, <1>9, <1>10, <1>13, <1>14, <1>15, <1>16 DEF FileInv, CallRight

----------------------------------------------------------------------------
(* readToBuffer(), and what the client does between two calls              *)

LEMMA BufferFileInv ==
    ASSUME FileInv, ReadToBuffer
    PROVE  FileInv'
<1>1. /\ UNCHANGED <<name, other, file, fd_, err_, content, start, change>>
      /\ calls' = calls + 1 /\ pc = "idle" /\ pc' = "returned"
      /\ args' = [op |-> "buffer", maxSize |-> BufferSize - 1, sized |-> TRUE]
  BY DEF ReadToBuffer, pieceVars
<1>2. BufferSize \in Nat \ {0, 1}
  BY CallsAssumption
<1>3. args' \in [op : Ops, maxSize : Int, sized : BOOLEAN] /\ args'.op = "buffer"
  BY <1>1, <1>2 DEF Ops
<1>4. ~Reading' /\ InString' /\ Untouched'
  BY <1>1, <1>3 DEF Reading, InString, Untouched
<1>5. CallRight'
  BY <1>4 DEF CallRight, Offsets, Contents, SizesSeen, Errors, StatRight, Complete
<1>6. Named'
  BY <1>1 DEF FileInv, Named, PathOf
<1>7. CASE /\ err' = IF fd_ = NoFd THEN err_ ELSE IF Opened.kind = "directory" THEN EISDIR ELSE EIO
           /\ refused' = TRUE
           /\ buf_' = buf_ /\ fileSize' = -1
  <2>1. refused' \in BOOLEAN
    BY <1>7, Zenon
  <2>2. err' \in Nat /\ fileSize' \in Int
    BY <1>7 DEF FileInv, FileTypeOK, EISDIR, EIO
  <2>3. FileTypeOK'
    BY <1>1, <1>3, <1>7, <2>1, <2>2 DEF FileInv, FileTypeOK, Steps
  <2>4. fd_ # NoFd => err' # 0
    BY <1>7 DEF EISDIR, EIO
  <2>5. BufferRight'
    BY <1>1, <1>7, <2>4 DEF BufferRight, Done
  <2> QED
    BY <1>5, <1>6, <2>3, <2>5 DEF FileInv
<1>8. ASSUME fd_ # NoFd, Opened.kind # "directory",
             NEW n \in 0 .. Min({BufferSize - 1, Len(Opened.bytes)}),
             buf_' = Filled(Append(Bytes(0, n), NUL)), fileSize' = n,
             err' = err_, refused' = FALSE
      PROVE  FileInv'
  <2>1. Opened.bytes \in Seq(Nat) /\ Len(Opened.bytes) \in Nat
    BY <1>8, OpenedFile
  <2>2. n \in Nat /\ n <= BufferSize - 1 /\ n <= Len(Opened.bytes)
    <3> DEFINE a == BufferSize - 1
               b == Len(Opened.bytes)
    <3>1. a \in Int /\ b \in Int
      BY <1>2, <2>1
    <3>2. n \in 0 .. Min({a, b})
      OBVIOUS
    <3> HIDE DEF a, b
    <3>3. Min({a, b}) = IF a <= b THEN a ELSE b
      BY <3>1, MinOfTwo
    <3>4. n \in Nat /\ n <= a /\ n <= b
      BY <3>1, <3>2, <3>3
    <3> QED
      BY <3>4 DEF a, b
  <2> DEFINE new == Bytes(0, n)
             put == Append(new, NUL)
  <2>3. new \in Seq(Nat) /\ Len(new) = n
    BY <2>1, <2>2, Chunk DEF Bytes
  <2>4. /\ put \in Seq(Nat) /\ Len(put) = n + 1 /\ put[n + 1] = NUL
        /\ \A i \in 1 .. n : put[i] = new[i]
    <3> HIDE DEF new
    <3> QED
      BY <2>3, AppendProperties DEF NUL
  <2>5. buf_' = [k \in 1 .. BufferSize |-> IF k <= Len(put) THEN put[k] ELSE buf_[k]]
    BY <1>8 DEF Filled
  <2> HIDE DEF new, put
  <2>6. ASSUME NEW k \in 1 .. BufferSize
        PROVE  (IF k <= Len(put) THEN put[k] ELSE buf_[k]) \in Nat
    <3>1. CASE k <= Len(put)
      <4>1. k \in 1 .. Len(put)
        BY <2>2, <2>4, <3>1
      <4> QED
        BY <2>4, <3>1, <4>1, ElementOfSeq
    <3>2. CASE ~(k <= Len(put))
      BY <3>2 DEF FileInv, FileTypeOK, Byte
    <3> QED
      BY <3>1, <3>2
  <2>7. buf_' \in [1 .. BufferSize -> Byte]
    BY <2>5, <2>6 DEF Byte
  <2>8. /\ buf_'[n + 1] = NUL
        /\ \A i \in 1 .. n : buf_'[i] = new[i]
    <3>1. n + 1 \in 1 .. BufferSize /\ \A i \in 1 .. n : i \in 1 .. BufferSize /\ i <= n + 1
      BY <1>2, <2>2
    <3> QED
      BY <2>4, <2>5, <3>1
  <2>9. SubSeq(buf_', 1, n) = new
    <3> DEFINE got == SubSeq(buf_', 1, n)
    <3>1. \A i \in 1 .. n : buf_'[i] \in Nat
      BY <2>2, <2>7, <1>2 DEF Byte
    <3>2. /\ got \in Seq(Nat)
          /\ Len(got) = IF 1 <= n THEN n - 1 + 1 ELSE 0
          /\ \A i \in 1 .. n - 1 + 1 : got[i] = buf_'[1 + i - 1]
      BY <2>2, <3>1, SubSeqProperties
    <3> HIDE DEF got
    <3>3. Len(got) = n /\ \A i \in 1 .. n : got[i] = new[i]
      BY <2>2, <2>8, <3>2
    <3>4. got = new
      BY <2>3, <3>2, <3>3, SeqEqual
    <3> QED
      BY <3>4 DEF got
  <2>10. Bytes(0, fileSize)' = new
    <3>1. Opened' = Opened
      BY <1>1 DEF Opened
    <3> QED
      BY <1>8, <3>1 DEF Bytes, new
  <2>11. refused' \in BOOLEAN
    BY <1>8, Zenon
  <2>12. FileTypeOK'
    BY <1>1, <1>3, <1>8, <2>2, <2>7, <2>11 DEF FileInv, FileTypeOK, Steps
  <2>13. err' = 0
    BY <1>8 DEF FileInv, Named
  <2>14. BufferRight'
    BY <1>8, <2>8, <2>9, <2>10, <2>13 DEF BufferRight
  <2> QED
    BY <1>5, <1>6, <2>12, <2>14 DEF FileInv
<1> QED
  BY <1>7, <1>8 DEF ReadToBuffer

LEMMA AgainFileInv ==
    ASSUME FileInv, Again
    PROVE  FileInv'
<1>1. /\ UNCHANGED <<name, other, file, objectVars, callVars, calls>>
      /\ pc = "returned" /\ pc' = "idle"
  BY DEF Again, pieceVars
<1>2. FileTypeOK' /\ Named'
  BY <1>1 DEF FileInv, FileTypeOK, Named, Steps, objectVars, callVars, PathOf
<1>3. CallRight' /\ BufferRight'
  BY <1>1, CallKept DEF Steps
<1> QED
  BY <1>2, <1>3 DEF FileInv

LEMMA CloseFileInv ==
    ASSUME FileInv, Close
    PROVE  FileInv'
<1>1. /\ UNCHANGED <<name, other, file, err_, buf_, callVars, calls>>
      /\ fd_' = NoFd /\ pc' = "closed"
  BY DEF Close, pieceVars
<1>2. ~Reading' /\ ~Done' /\ InString' /\ Untouched'
  BY <1>1 DEF Reading, Done, InString, Untouched
<1>3. FileTypeOK' /\ Named'
  BY <1>1 DEF FileInv, FileTypeOK, Named, Steps, callVars, NoFd
<1> QED
  BY <1>2, <1>3 DEF FileInv, CallRight, Offsets, Contents, SizesSeen, Errors, StatRight, Complete,
                    BufferRight

----------------------------------------------------------------------------
(* Other programs                                                          *)

\* What a step that changes the bytes of the file leaves alone.
LEMMA FileChanged ==
    ASSUME FileInv, InUse, NEW b \in Seq(Nat), file' = [file EXCEPT ![fd_.name].bytes = b],
           UNCHANGED <<pieceVars, objectVars, content, fileSize, err, args, start, refused, pc, calls>>,
           change' \in {"grown", "shrunk"}
    PROVE  /\ FileTypeOK' /\ Named' /\ InString' /\ Untouched' /\ Offsets' /\ BufferRight'
           /\ Errors' /\ StatRight' /\ Complete'
           /\ Opened'.bytes = b /\ Reading
<1>1. /\ Reading /\ fd_ # NoFd /\ args.op = "string" /\ args.sized /\ pc \in {"stat", "loop"}
  BY InCall DEF InUse
<1>2. /\ UNCHANGED <<name, other, fd_, err_, buf_, content, fileSize, err, args, start, refused,
                     pc, calls>>
  BY DEF pieceVars, objectVars
<1>3. Opened \in File /\ fd_.name \in Names
  BY <1>1, OpenedFile
<1>4. Opened' = [Opened EXCEPT !.bytes = b]
  BY <1>2, <1>3 DEF Opened, FileInv, FileTypeOK
<1>5. Opened' \in File /\ Opened'.bytes = b /\ Opened'.kind = Opened.kind
  BY <1>3, <1>4 DEF File
<1>6. file' \in [Names -> File]
  BY <1>2, <1>3, <1>5 DEF FileInv, FileTypeOK, Opened
<1>7. FileTypeOK'
  BY <1>2, <1>6 DEF FileInv, FileTypeOK
<1>8. Named'
  BY <1>2 DEF FileInv, Named, PathOf
<1>9. Limit' = Limit
  BY <1>2 DEF Limit
<1>10. InString' /\ Untouched' /\ Offsets'
  BY <1>1, <1>2, <1>9 DEF FileInv, CallRight, InString, Untouched, Offsets
<1>11. Errors'
  BY <1>1, <1>2, <1>5 DEF FileInv, CallRight, Errors
<1>12. StatRight' /\ Complete' /\ BufferRight'
  BY <1>1, <1>2 DEF StatRight, Complete, BufferRight
<1> QED
  BY <1>1, <1>5, <1>7, <1>8, <1>10, <1>11, <1>12

LEMMA GrowFileInv ==
    ASSUME FileInv, Grow
    PROVE  FileInv'
<1> DEFINE b == Append(Opened.bytes, Len(Opened.bytes) + 1)
<1>1. /\ InUse /\ fd_ # NoFd /\ Reading
  BY InCall DEF Grow, InUse
<1>2. /\ fd_.name \in Names /\ Opened.bytes \in Seq(Nat) /\ Len(Opened.bytes) \in Nat
      /\ fd_.offset \in Nat /\ start.offset \in Nat /\ start.size \in Nat
  BY <1>1, OpenedFile DEF FileInv, FileTypeOK
<1>3. /\ b \in Seq(Nat) /\ Len(b) = Len(Opened.bytes) + 1
      /\ \A i \in 1 .. Len(Opened.bytes) : b[i] = Opened.bytes[i]
  BY <1>2, AppendProperties
<1>4. file' = [file EXCEPT ![fd_.name].bytes = b]
  BY <1>2 DEF Grow, Opened, FileInv, FileTypeOK
<1>5. /\ UNCHANGED <<pieceVars, objectVars, content, fileSize, err, args, start, refused, pc, calls>>
      /\ change' = IF change = "none" THEN "grown" ELSE change
      /\ change' \in {"grown", "shrunk"}
  BY DEF Grow, FileInv, FileTypeOK
<1>6. /\ FileTypeOK' /\ Named' /\ InString' /\ Untouched' /\ Offsets' /\ BufferRight'
      /\ Errors' /\ StatRight' /\ Complete'
      /\ Opened'.bytes = b
  <2> HIDE DEF b
  <2> QED
    BY <1>1, <1>3, <1>4, <1>5, FileChanged
<1> HIDE DEF b
<1>7. SizesSeen'
  BY <1>1, <1>2, <1>3, <1>5, <1>6 DEF FileInv, CallRight, SizesSeen
<1>8. Contents'
  <2> SUFFICES ASSUME change # "shrunk", content' = content, start' = start
               PROVE  /\ content # <<>> => start.offset + Len(content) <= Len(b)
                      /\ content = SubSeq(b, start.offset + 1, start.offset + Len(content))
    BY <1>5, <1>6 DEF Contents
  <2>1. /\ content # <<>> => start.offset + Len(content) <= Len(Opened.bytes)
        /\ content = SubSeq(Opened.bytes, start.offset + 1, start.offset + Len(content))
    BY <1>1 DEF FileInv, CallRight, Contents
  <2>2. Len(content) \in Nat /\ content \in Seq(Nat)
    BY LenProperties DEF FileInv, FileTypeOK, Byte
  <2>3. CASE content = <<>>
    BY <1>2, <2>2, <2>3, SubSeqEmpty
  <2>4. CASE content # <<>>
    <3> DEFINE n == Len(content)
               c == SubSeq(b, start.offset + 1, start.offset + n)
    <3>1. start.offset + n <= Len(Opened.bytes) /\ start.offset + n <= Len(b)
      BY <1>2, <1>3, <2>1, <2>2, <2>4
    <3>2. c \in Seq(Nat) /\ Len(c) = n /\ \A i \in 1 .. n : c[i] = b[start.offset + i]
      <4>1. start.offset \in Nat /\ n \in Nat /\ b \in Seq(Nat) /\ start.offset + n <= Len(b)
        BY <1>2, <1>3, <2>2, <3>1
      <4> HIDE DEF n
      <4> QED
        BY <4>1, Chunk
    <3>3. \A i \in 1 .. n : content[i] = Opened.bytes[start.offset + i]
      <4>1. \A i \in 1 .. n : SubSeq(Opened.bytes, start.offset + 1, start.offset + n)[i]
                                = Opened.bytes[start.offset + i]
        BY <1>2, <2>2, <3>1, Chunk
      <4> QED
        BY <2>1, <4>1
    <3>4. \A i \in 1 .. n : start.offset + i \in 1 .. Len(Opened.bytes)
      <4> DEFINE o == start.offset
                 m == Len(Opened.bytes)
      <4>1. o \in Nat /\ m \in Nat /\ n \in Nat /\ o + n <= m
        BY <1>2, <2>2, <3>1
      <4> HIDE DEF o, m, n
      <4>2. \A i \in 1 .. n : o + i \in 1 .. m
        BY <4>1
      <4> QED
        BY <4>2 DEF o, m
    <3>5. \A i \in 1 .. n : b[start.offset + i] = Opened.bytes[start.offset + i]
      BY <1>3, <3>4
    <3> HIDE DEF c
    <3>6. \A i \in 1 .. n : content[i] = c[i]
      BY <3>2, <3>3, <3>5
    <3>7. content = c
      BY <2>2, <3>2, <3>6, SeqEqual
    <3> QED
      BY <3>1, <3>7 DEF c
  <2> QED
    BY <2>3, <2>4
<1> QED
  BY <1>6, <1>7, <1>8 DEF FileInv, CallRight

LEMMA ShrinkFileInv ==
    ASSUME FileInv, Shrink
    PROVE  FileInv'
<1> DEFINE b == Front(Opened.bytes)
<1>1. InUse /\ fd_ # NoFd
  BY InCall DEF Shrink, InUse
<1>2. fd_.name \in Names /\ Opened.bytes \in Seq(Nat) /\ Len(Opened.bytes) \in Nat
  BY <1>1, OpenedFile
<1>3. b \in Seq(Nat)
  <2>1. \A i \in 1 .. Len(Opened.bytes) - 1 : Opened.bytes[i] \in Nat
    BY <1>2, ElementOfSeq
  <2> QED
    BY <1>2, <2>1, SubSeqProperties DEF Front
<1>4. file' = [file EXCEPT ![fd_.name].bytes = b]
  BY <1>2 DEF Shrink, Opened, FileInv, FileTypeOK
<1>5. /\ UNCHANGED <<pieceVars, objectVars, content, fileSize, err, args, start, refused, pc, calls>>
      /\ change' = "shrunk"
  BY DEF Shrink
<1>6. /\ FileTypeOK' /\ Named' /\ InString' /\ Untouched' /\ Offsets' /\ BufferRight'
      /\ Errors' /\ StatRight' /\ Complete'
  <2> HIDE DEF b
  <2> QED
    BY <1>1, <1>3, <1>4, <1>5, FileChanged
<1>7. SizesSeen' /\ Contents'
  BY <1>5 DEF SizesSeen, Contents
<1> QED
  BY <1>6, <1>7 DEF FileInv, CallRight

LEMMA NextFileInv == FileInv /\ [Next]_vars => FileInv'
<1> SUFFICES ASSUME FileInv, [Next]_vars PROVE FileInv'
  OBVIOUS
<1>1. ASSUME UNCHANGED vars PROVE FileInv'
  <2>1. /\ UNCHANGED <<file, objectVars, callVars, name, other, calls>>
        /\ pc' = pc
    BY <1>1 DEF vars, pieceVars
  <2>2. FileTypeOK' /\ Named'
    BY <2>1 DEF FileInv, FileTypeOK, Named, objectVars, callVars, PathOf
  <2>3. pc' \in Steps
    BY <2>1 DEF FileInv, FileTypeOK
  <2>4. CallRight' /\ BufferRight'
    BY <2>1, <2>3, CallKept
  <2> QED
    BY <2>2, <2>4 DEF FileInv
<1> QED
  BY <1>1, NamingFileInv, EnterFileInv, StatFileInv, ReadFileInv, EndFileInv, BufferFileInv, AgainFileInv, CloseFileInv,
     GrowFileInv, ShrinkFileInv DEF Next, Finished

LEMMA FileInvariance == Spec => []FileInv
BY InitFileInv, NextFileInv, PTL DEF Spec

----------------------------------------------------------------------------
(* The theorems                                                            *)

\* Of two numbers Max chooses the larger one.
LEMMA MaxOfTwo ==
    ASSUME NEW a \in Int, NEW b \in Int
    PROVE  Max({a, b}) = IF a <= b THEN b ELSE a
<1> DEFINE m == IF a <= b THEN b ELSE a
<1>1. m \in {a, b} /\ \A y \in {a, b} : m >= y
  OBVIOUS
<1>2. Max({a, b}) \in {a, b} /\ \A y \in {a, b} : Max({a, b}) >= y
  BY <1>1 DEF Max
<1> QED
  BY <1>1, <1>2

\* How much of the file a call should read.
LEMMA AskedIs ==
    ASSUME Limit \in Nat, start.size \in Nat, start.offset \in Nat
    PROVE  LET rest == start.size - start.offset
           IN  Asked = IF rest <= 0 THEN 0 ELSE IF Limit <= rest THEN Limit ELSE rest
<1> DEFINE rest == start.size - start.offset
           left == IF 0 <= rest THEN rest ELSE 0
<1>1. rest \in Int /\ left \in Nat
  OBVIOUS
<1>2. Max({0, rest}) = left
  <2> HIDE DEF rest
  <2> QED
    BY <1>1, MaxOfTwo
<1>3. Min({Limit, left}) = IF Limit <= left THEN Limit ELSE left
  <2> HIDE DEF left
  <2> QED
    BY <1>1, MinOfTwo
<1> QED
  BY <1>2, <1>3 DEF Asked

LEMMA FileInvContentRight == FileInv => ContentRight
<1> SUFFICES ASSUME FileInv PROVE ContentRight
  OBVIOUS
<1>1. ASSUME fd_ # NoFd, Strlen(name.ptr) = name.len
      PROVE  fd_.name = AsString(name)
  <2>1. fd_.name = PathOf(name)
    BY <1>1 DEF FileInv, Named
  <2>2. name \in [ptr : Nat, len : Nat]
    BY DEF FileInv, FileTypeOK, InMemory
  <2>3. OfCString(name.ptr) = name
    BY <1>1, <2>2 DEF OfCString
  <2> QED
    BY <2>1, <2>3 DEF PathOf
<1>2. ASSUME Done, args.op = "string", args.sized
      PROVE  /\ Len(content) <= Limit
             /\ err = 0 <=> ~refused /\ Opened.kind # "directory"
             /\ change # "shrunk" =>
                   content = SubSeq(Opened.bytes, start.offset + 1, start.offset + Len(content))
             /\ err = 0 /\ change # "shrunk" => Len(content) >= Asked
             /\ err = 0 /\ change = "none" =>
                   /\ Len(content) = Asked
                   /\ fileSize = IF Opened.kind = "regular" THEN start.size ELSE -1
  <2>1. Reading /\ fd_ # NoFd /\ pc = "returned"
    BY <1>2 DEF Done, Reading
  <2>2. /\ fd_.offset = start.offset + Len(content) /\ Len(content) <= Limit
        /\ change # "shrunk" =>
              /\ content # <<>> => start.offset + Len(content) <= Len(Opened.bytes)
              /\ content = SubSeq(Opened.bytes, start.offset + 1, start.offset + Len(content))
        /\ change # "shrunk" => start.size <= Len(Opened.bytes)
        /\ change = "none" => start.size = Len(Opened.bytes)
    BY <2>1 DEF FileInv, CallRight, Offsets, Contents, SizesSeen
  <2>3. /\ err = 0 <=> ~refused /\ Opened.kind # "directory"
        /\ err = 0 /\ change = "none" =>
              fileSize = IF Opened.kind = "regular" THEN start.size ELSE -1
        /\ err = 0 => Len(content) >= Limit \/ fd_.offset >= Len(Opened.bytes)
    BY <2>1 DEF FileInv, CallRight, Errors, StatRight, Complete
  <2>4. /\ start.size \in Nat /\ start.offset \in Nat /\ args.maxSize \in Int
        /\ content \in Seq(Nat)
    BY DEF FileInv, FileTypeOK, Byte
  <2>5. Limit \in Nat /\ Len(content) \in Nat /\ (content = <<>> => Len(content) = 0)
    BY <2>4, FilesAssumption, LenProperties DEF Limit
  <2>6. Len(Opened.bytes) \in Nat
    BY <2>1, OpenedFile
  <2>7. Asked = IF start.size - start.offset <= 0 THEN 0
                ELSE IF Limit <= start.size - start.offset THEN Limit
                ELSE start.size - start.offset
    BY <2>4, <2>5, AskedIs
  <2>8. err = 0 /\ change # "shrunk" => Len(content) >= Asked
    BY <2>2, <2>3, <2>4, <2>5, <2>6, <2>7, SMTT(40)
  <2>9. err = 0 /\ change = "none" => Len(content) = Asked
    <3> SUFFICES ASSUME err = 0, change = "none" PROVE Len(content) <= Asked
      BY <2>4, <2>5, <2>7, <2>8
    <3>1. CASE content = <<>>
      BY <2>4, <2>5, <2>7, <3>1
    <3>2. CASE content # <<>>
      BY <2>2, <2>4, <2>5, <2>6, <2>7, <3>2, SMTT(40)
    <3> QED
      BY <3>1, <3>2
  <2> QED
    BY <2>2, <2>3, <2>8, <2>9
<1>3. BufferRight
  BY DEF FileInv
<1> QED
  BY <1>1, <1>2, <1>3 DEF ContentRight, BufferRight

\* The variables of the client, of SmallFile and of the files keep their types,
\* and the pieces a client makes stay inside the memory they were made of.
THEOREM FileTypeCorrect == Spec => []FileTypeOK
BY FileInvariance, PTL DEF FileInv

\* readToString() and readToBuffer() give what the file holds, and report every
\* failure, whatever other programs do to the file meanwhile.
THEOREM ReadsWhatIsThere == Spec => []ContentRight
BY FileInvariance, FileInvContentRight, PTL

\* The comparisons of StringPiece agree with each other and with the order of
\* the strings.
THEOREM PiecesAreOrdered == Spec => []OrderRight
<1>1. FileInv => OrderRight
  BY PiecesOrdered DEF FileInv, FileTypeOK
<1> QED
  BY <1>1, FileInvariance, PTL

----------------------------------------------------------------------------
(* Logger: induction, and the recursive functions of the model             *)

\* Induction on the numbers up to m, for the set T of those a statement is true of.
LEMMA UpTo ==
    ASSUME NEW m \in Nat, NEW T, 0 \in T, \A n \in 1 .. m : n - 1 \in T => n \in T
    PROVE  \A n \in 0 .. m : n \in T
<1> DEFINE S == {n \in 0 .. m : n \notin T}
<1>1. SUFFICES ASSUME S # {} PROVE FALSE
  OBVIOUS
<1>2. S \in SUBSET Nat
  OBVIOUS
<1>3. PICK x \in S : \A y \in S : x <= y
  <2> HIDE DEF S
  <2> QED
    BY <1>1, <1>2, LeastNatural
<1>4. x \in 1 .. m
  BY <1>3
<1>5. x - 1 \notin S
  BY <1>3, <1>4
<1> QED
  BY <1>3, <1>4, <1>5

\* A function on 0 .. m, by its first value and the step to the next.
Unfolds(f, n, a, step) == /\ f[0] = a
                          /\ \A k \in 1 .. n : f[k] = step[k][f[k - 1]]

LEMMA Primitive ==
    ASSUME NEW m \in Nat, NEW X, NEW a \in X, NEW step \in [1 .. m -> [X -> X]]
    PROVE  \E f \in [0 .. m -> X] : Unfolds(f, m, a, step)
<1> DEFINE T == {n \in 0 .. m : \E f \in [0 .. n -> X] : Unfolds(f, n, a, step)}
<1>1. 0 \in T
  <2> DEFINE g == [k \in 0 .. 0 |-> a]
  <2>1. g \in [0 .. 0 -> X] /\ Unfolds(g, 0, a, step)
    BY DEF Unfolds
  <2> HIDE DEF g
  <2> QED
    BY <2>1
<1>2. ASSUME NEW n \in 1 .. m, n - 1 \in T PROVE n \in T
  <2>1. PICK f \in [0 .. n - 1 -> X] : Unfolds(f, n - 1, a, step)
    BY <1>2
  <2> DEFINE g == [k \in 0 .. n |-> IF k < n THEN f[k] ELSE step[n][f[n - 1]]]
  <2>2. \A k \in 0 .. n - 1 : f[k] \in X /\ g[k] = f[k]
    OBVIOUS
  <2>3. step[n] \in [X -> X] /\ f[n - 1] \in X
    BY <2>2
  <2>4. step[n][f[n - 1]] \in X
    BY <2>3
  <2>5. g[n] = step[n][g[n - 1]]
    BY <2>2
  <2>6. g \in [0 .. n -> X]
    BY <2>2, <2>4
  <2>7. g[0] = a
    BY <2>1, <2>2 DEF Unfolds
  <2>8. \A k \in 1 .. n - 1 : g[k] = step[k][g[k - 1]]
    BY <2>1, <2>2 DEF Unfolds
  <2>9. Unfolds(g, n, a, step)
    <3> HIDE DEF g
    <3>1. ASSUME NEW k \in 1 .. n PROVE g[k] = step[k][g[k - 1]]
      <4>1. CASE k = n
        BY <4>1, <2>5
      <4>2. CASE k # n
        <5>1. k \in 1 .. n - 1
          BY <4>2
        <5> QED
          BY <5>1, <2>8
      <4> QED
        BY <4>1, <4>2
    <3> QED
      BY <2>7, <3>1 DEF Unfolds
  <2> HIDE DEF g
  <2> QED
    BY <2>6, <2>9
<1>3. m \in T
  <2>1. \A n \in 0 .. m : n \in T
    <3> HIDE DEF T
    <3> QED
      BY <1>1, <1>2, UpTo
  <2> QED
    BY <2>1
<1> QED
  BY <1>3

\* Power(b) for the two bases.
LEMMA Powers ==
    ASSUME NEW b \in {10, 16}
    PROVE  /\ Power(b) \in [0 .. MaxNumericSize -> Nat]
           /\ Power(b)[0] = 1
           /\ \A k \in 1 .. MaxNumericSize : Power(b)[k] = b * Power(b)[k - 1]
<1> DEFINE step == [k \in 1 .. MaxNumericSize |-> [x \in Nat |-> b * x]]
           m == MaxNumericSize
           one == 1
<1>1. m \in Nat /\ step \in [1 .. m -> [Nat -> Nat]] /\ one \in Nat
  BY SizesAssumption
<1>2. PICK f \in [0 .. m -> Nat] : Unfolds(f, m, one, step)
  <2> HIDE DEF step, m, one
  <2> QED
    BY <1>1, Primitive
<1>3. \A k \in 1 .. m : f[k - 1] \in Nat /\ step[k][f[k - 1]] = b * f[k - 1]
  <2>1. ASSUME NEW k \in 1 .. m PROVE f[k - 1] \in Nat
    BY <1>1
  <2> QED
    BY <2>1
<1>4. Power(b) = [k \in 0 .. m |-> IF k = 0 THEN 1 ELSE b * Power(b)[k - 1]]
  <2>1. f = [k \in 0 .. m |-> IF k = 0 THEN 1 ELSE b * f[k - 1]]
    <3> HIDE DEF step
    <3>1. \A k \in 0 .. m : k # 0 => k \in 1 .. m
      BY <1>1
    <3> QED
      BY <1>2, <1>3, <3>1 DEF Unfolds
  <2> QED
    BY <2>1, Zenon DEF Power
<1>5. Power(b) \in [0 .. m -> Nat]
  <2> DEFINE T == {n \in 0 .. m : Power(b)[n] \in Nat}
  <2>1. 0 \in T /\ \A n \in 1 .. m : n - 1 \in T => n \in T
    BY <1>4, <1>1
  <2>2. \A n \in 0 .. m : n \in T
    <3> HIDE DEF T, m
    <3> QED
      BY <1>1, <2>1, UpTo
  <2> QED
    BY <1>4, <2>2
<1>6. \A k \in 0 .. m : Power(b)[k] = IF k = 0 THEN 1 ELSE b * Power(b)[k - 1]
  BY <1>4
<1>7. Power(b)[0] = 1 /\ \A k \in 1 .. m : Power(b)[k] = b * Power(b)[k - 1]
  <2> HIDE DEF m
  <2>1. 0 \in 0 .. m /\ \A k \in 1 .. m : k \in 0 .. m /\ k # 0
    BY <1>1
  <2> QED
    BY <1>6, <2>1
<1> QED
  BY <1>5, <1>7

\* f gives the digits of i to the base b, the last one first, where size[i] is
\* the magnitude of i and quot[i] its quotient.
Spells(f, D, size, quot, b) ==
    \A i \in D : f[i] = <<DigitsHex[size[i] % b]>>
                        \o IF size[i] \div b = 0 THEN <<>> ELSE f[quot[i]]

Divides(D, size, quot, b) ==
    quot \in [D -> D] /\ \A i \in D : size[quot[i]] = size[i] \div b

LEMMA GlyphType == DigitsHex \in [0 .. 15 -> Nat]
BY DEF DigitsHex, Zero

LEMMA LastDigit ==
    ASSUME NEW b \in {10, 16}, NEW a \in Nat
    PROVE  /\ DigitsHex[a % b] \in Nat
           /\ <<DigitsHex[a % b]>> \in Seq(Nat) /\ Len(<<DigitsHex[a % b]>>) = 1
<1>1. a % b \in 0 .. 15
  OBVIOUS
<1>2. DigitsHex[a % b] \in Nat
  BY <1>1, GlyphType
<1> QED
  BY <1>2

\* The quotient of a number that is not zero is smaller.
LEMMA Smaller ==
    ASSUME NEW b \in {10, 16}, NEW a \in Nat
    PROVE  /\ a % b \in 0 .. 15 /\ a \div b \in Nat
           /\ a \div b = 0 \/ a \div b < a
OBVIOUS

\* There is such an f, if the magnitudes are bounded.
LEMMA Unwinds ==
    ASSUME NEW b \in {10, 16}, NEW m \in Nat, NEW D, NEW size \in [D -> 0 .. m], NEW quot,
           Divides(D, size, quot, b)
    PROVE  \E f \in [D -> Seq(Nat)] : Spells(f, D, size, quot, b)
<1> DEFINE Row(f, i) == <<DigitsHex[size[i] % b]>>
                        \o IF size[i] \div b = 0 THEN <<>> ELSE f[quot[i]]
           Upto(f, n) == \A i \in D : size[i] < n => f[i] = Row(f, i)
           T == {n \in 0 .. m + 1 : \E f \in [D -> Seq(Nat)] : Upto(f, n)}
<1>1. \A i \in D : /\ size[i] \in Nat /\ size[i] <= m /\ size[i] % b \in 0 .. 15 /\ size[i] \div b \in Nat
                   /\ size[i] \div b = 0 \/ size[i] \div b < size[i]
                   /\ quot[i] \in D /\ size[quot[i]] = size[i] \div b
  <2>1. \A i \in D : size[i] \in Nat /\ size[i] <= m
    OBVIOUS
  <2> QED
    BY <2>1, Smaller DEF Divides
<1>2. ASSUME NEW f \in [D -> Seq(Nat)], NEW i \in D PROVE Row(f, i) \in Seq(Nat)
  <2>2. <<DigitsHex[size[i] % b]>> \in Seq(Nat)
    BY <1>1, LastDigit
  <2>3. (IF size[i] \div b = 0 THEN <<>> ELSE f[quot[i]]) \in Seq(Nat)
    BY <1>1
  <2> QED
    BY <2>2, <2>3, ConcatProperties
<1>3. 0 \in T
  <2> DEFINE g == [i \in D |-> <<>>]
  <2>1. g \in [D -> Seq(Nat)] /\ Upto(g, 0)
    BY <1>1
  <2> HIDE DEF g
  <2> QED
    BY <2>1
<1>4. ASSUME NEW n \in 1 .. m + 1, n - 1 \in T PROVE n \in T
  <2>1. PICK f \in [D -> Seq(Nat)] : Upto(f, n - 1)
    BY <1>4
  <2> DEFINE g == [i \in D |-> IF size[i] < n THEN Row(f, i) ELSE <<>>]
  <2>2. g \in [D -> Seq(Nat)]
    <3>1. \A i \in D : Row(f, i) \in Seq(Nat)
      BY <1>2
    <3>2. \A i \in D : (IF size[i] < n THEN Row(f, i) ELSE <<>>) \in Seq(Nat)
      <4> HIDE DEF Row
      <4> QED
        BY <3>1
    <3> HIDE DEF Row
    <3> QED
      BY <3>2
  <2>3. ASSUME NEW i \in D, size[i] < n PROVE g[i] = Row(g, i)
    <3>1. g[i] = Row(f, i)
      BY <2>3
    <3>2. CASE size[i] \div b = 0
      BY <3>1, <3>2
    <3>3. CASE size[i] \div b # 0
      <4>1. quot[i] \in D /\ size[quot[i]] < n - 1 /\ size[quot[i]] < n
        BY <1>1, <2>3, <3>3
      <4>2. f[quot[i]] = Row(f, quot[i]) /\ g[quot[i]] = Row(f, quot[i])
        BY <4>1, <2>1
      <4>3. f[quot[i]] = g[quot[i]]
        BY <4>2
      <4> HIDE DEF g
      <4> QED
        BY <4>3, <3>1
    <3> QED
      BY <3>2, <3>3
  <2> HIDE DEF g, Row
  <2> QED
    BY <2>2, <2>3
<1>5. m + 1 \in T
  <2> DEFINE z == m + 1
  <2>1. z \in Nat /\ z \in 0 .. z
    OBVIOUS
  <2>2. 0 \in T /\ \A n \in 1 .. z : n - 1 \in T => n \in T
    BY <1>3, <1>4
  <2>3. z \in T
    <3> HIDE DEF T, z
    <3> QED
      BY <2>1, <2>2, UpTo
  <2> QED
    BY <2>3
<1>6. PICK f \in [D -> Seq(Nat)] : Upto(f, m + 1)
  BY <1>5
<1>7. \A i \in D : size[i] < m + 1
  BY <1>1
<1>8. \A i \in D : f[i] = Row(f, i)
  BY <1>6, <1>7
<1> QED
  BY <1>8 DEF Spells

----------------------------------------------------------------------------
(* Division                                                                *)

LEMMA DivMod ==
    ASSUME NEW a \in Int, NEW p \in Int, p > 0
    PROVE  \E x \in Int, y \in Int : x = a \div p /\ y = a % p /\ 0 <= y /\ y < p /\ a = p * x + y
OBVIOUS

LEMMA DivUnique ==
    ASSUME NEW a \in Int, NEW p \in Int, p > 0, NEW q \in Int, NEW r \in Int,
           0 <= r, r < p, a = p * q + r
    PROVE  a \div p = q
<1>1. PICK x \in Int, y \in Int : x = a \div p /\ 0 <= y /\ y < p /\ a = p * x + y
  BY DivMod
<1>2. \A m, n \in Int, u, v \in Int :
         p * m + u = p * n + v /\ 0 <= u /\ u < p /\ 0 <= v /\ v < p => ~(m < n)
  <2>1. ASSUME NEW m \in Int, NEW n \in Int, NEW u \in Int, NEW v \in Int,
               p * m + u = p * n + v, 0 <= u, u < p, 0 <= v, v < p, m < n
        PROVE  FALSE
    <3>1. PICK d \in Int : d >= 1 /\ n = m + d
      <4>1. n - m \in Int /\ n - m >= 1 /\ n = m + (n - m)
        BY <2>1
      <4> QED
        BY <4>1
    <3>2. p * n = p * m + p * d
      BY <3>1
    <3>3. p * d >= p
      BY <3>1
    <3> QED
      BY <2>1, <3>2, <3>3
  <2> QED
    BY <2>1
<1>3. ~(x < q) /\ ~(q < x)
  BY <1>1, <1>2
<1> QED
  BY <1>1, <1>3

\* Dividing by a base and then by p is dividing by their product.
LEMMA DivDiv ==
    ASSUME NEW b \in {10, 16}, NEW a \in Nat, NEW p \in Nat, p > 0
    PROVE  (a \div b) \div p = a \div (b * p)
<1>1. PICK x \in Int, s \in Int : x = a \div b /\ 0 <= s /\ s < b /\ a = b * x + s
  BY DivMod
<1>2. PICK q \in Int, r \in Int : q = x \div p /\ 0 <= r /\ r < p /\ x = p * q + r
  BY DivMod
<1> DEFINE z == b * p
           w == b * r + s
<1>3. z \in Int /\ z > 0 /\ w \in Int /\ 0 <= w /\ w < z
  BY <1>1, <1>2
<1>4. a = z * q + w
  <2>1. (10 * p) * q = 10 * (p * q) /\ (16 * p) * q = 16 * (p * q)
    <3>1. (10 * p) * q = 10 * (p * q)
      OBVIOUS
    <3>2. (16 * p) * q = 16 * (p * q)
      OBVIOUS
    <3> QED
      BY <3>1, <3>2
  <2>2. b * x = b * (p * q) + b * r
    BY <1>2
  <2> QED
    BY <1>1, <2>1, <2>2
<1>5. a \div z = q
  <2> HIDE DEF z, w
  <2> QED
    BY <1>3, <1>4, DivUnique
<1> QED
  BY <1>1, <1>2, <1>5

----------------------------------------------------------------------------
(* The digits of a number                                                  *)

LEMMA PowersGrow ==
    ASSUME NEW b \in {10, 16}
    PROVE  /\ \A k \in 0 .. MaxNumericSize : Power(b)[k] > 0
           /\ \A k \in 0 .. MaxNumericSize : \A j \in 0 .. k : Power(b)[j] <= Power(b)[k]
<1> DEFINE P == Power(b)
           m == MaxNumericSize
           T == {n \in 0 .. m : P[n] > 0 /\ \A j \in 0 .. n : P[j] <= P[n]}
<1>1. m \in Nat /\ P \in [0 .. m -> Nat] /\ P[0] = 1 /\ \A k \in 1 .. m : P[k] = b * P[k - 1]
  BY Powers, SizesAssumption
<1> HIDE DEF P, m
<1>2. 0 \in T
  BY <1>1
<1>3. ASSUME NEW n \in 1 .. m, n - 1 \in T PROVE n \in T
  <2>1. P[n - 1] \in Nat /\ P[n - 1] > 0 /\ P[n] = b * P[n - 1]
    BY <1>1, <1>3
  <2>2. P[n] > P[n - 1]
    BY <2>1
  <2>3. ASSUME NEW j \in 0 .. n PROVE P[j] <= P[n]
    <3>1. CASE j = n
      BY <3>1, <1>1
    <3>2. CASE j # n
      <4>1. j \in 0 .. n - 1 /\ P[j] \in Nat
        BY <3>2, <1>1
      <4> QED
        BY <4>1, <1>3, <2>1, <2>2
    <3> QED
      BY <3>1, <3>2
  <2> QED
    BY <2>1, <2>2, <2>3
<1>4. \A n \in 0 .. m : n \in T
  <2> HIDE DEF T
  <2> QED
    BY <1>1, <1>2, <1>3, UpTo
<1> QED
  BY <1>4 DEF P, m

\* s is the numeral of a to the base b, the last digit first and no zero at its
\* end, except that of 0.
IsNumeral(s, a, b) ==
    /\ Len(s) \in 1 .. MaxNumericSize
    /\ a < Power(b)[Len(s)]
    /\ Len(s) = 1 \/ Power(b)[Len(s) - 1] <= a
    /\ \A j \in 1 .. Len(s) : s[j] = DigitsHex[(a \div Power(b)[j - 1]) % b]

\* A last digit before the numeral of the quotient.
LEMMA OneDigitMore ==
    ASSUME NEW b \in {10, 16}, NEW a \in Nat, NEW g \in Seq(Nat), Len(g) < MaxNumericSize,
           a \div b # 0, IsNumeral(g, a \div b, b)
    PROVE  IsNumeral(<<DigitsHex[a % b]>> \o g, a, b)
<1> DEFINE P == Power(b)
           m == MaxNumericSize
           l == Len(g)
           s == <<DigitsHex[a % b]>> \o g
<1>1. /\ m \in Nat /\ P \in [0 .. m -> Nat] /\ P[0] = 1
      /\ \A k \in 1 .. m : P[k] = b * P[k - 1]
      /\ \A k \in 0 .. m : P[k] > 0
  BY Powers, PowersGrow, SizesAssumption
<1>2. PICK q \in Int, r \in Int : q = a \div b /\ r = a % b /\ 0 <= r /\ r < b /\ a = b * q + r
  BY DivMod
<1>3. q \in Nat /\ q # 0 /\ r \in 0 .. 15
  BY <1>2
<1>4. /\ l \in 1 .. m - 1
      /\ q < P[l] /\ (l = 1 \/ P[l - 1] <= q)
      /\ \A j \in 1 .. l : g[j] = DigitsHex[(q \div P[j - 1]) % b]
  <2>1. IsNumeral(g, q, b)
    BY <1>2
  <2>2. l \in 1 .. m /\ l < m
    BY <2>1 DEF IsNumeral
  <2> QED
    BY <2>1, <2>2, <1>1 DEF IsNumeral
<1>5. /\ Len(s) = l + 1 /\ s[1] = DigitsHex[r]
      /\ \A j \in 2 .. l + 1 : s[j] = g[j - 1]
  <2> DEFINE e == <<DigitsHex[a % b]>>
  <2>1. e \in Seq(Nat) /\ Len(e) = 1 /\ e[1] = DigitsHex[r]
    BY <1>2, LastDigit
  <2>2. l \in Nat
    BY <1>4
  <2>3. /\ Len(e \o g) = Len(e) + l
        /\ \A j \in 1 .. Len(e) + l : (e \o g)[j] = IF j <= Len(e) THEN e[j] ELSE g[j - Len(e)]
    <3> HIDE DEF e
    <3> QED
      BY <2>1, ConcatProperties
  <2> HIDE DEF e
  <2>4. \A j \in 2 .. l + 1 : (e \o g)[j] = g[j - 1]
    BY <2>1, <2>2, <2>3
  <2>5. s = e \o g
    BY DEF e
  <2> QED
    BY <2>1, <2>2, <2>3, <2>4, <2>5
<1> HIDE DEF P, m, l, s
<1>6. P[l + 1] = b * P[l] /\ P[l] \in Nat /\ P[l] = b * P[l - 1] /\ P[l - 1] \in Nat
  <2>1. l + 1 \in 1 .. m /\ l \in 1 .. m /\ (l + 1) - 1 = l /\ l \in 0 .. m /\ l - 1 \in 0 .. m
    BY <1>1, <1>4
  <2> QED
    BY <2>1, <1>1
<1>7. a < P[l + 1]
  <2> DEFINE x == P[l]
             y == P[l + 1]
  <2>1. x \in Nat /\ y = b * x /\ q < x
    BY <1>4, <1>6
  <2> HIDE DEF x, y
  <2>2. a < y
    BY <1>2, <1>3, <2>1
  <2> QED
    BY <2>2 DEF y
<1>8. P[l] <= a
  <2>1. P[l - 1] <= q
    <3>1. l = 1 => P[l - 1] = 1
      BY <1>1
    <3> QED
      BY <3>1, <1>3, <1>4
  <2> DEFINE p == P[l - 1]
  <2>2. p \in Nat /\ p <= q /\ P[l] = b * p
    BY <2>1, <1>6
  <2> HIDE DEF p
  <2>3. b * p <= b * q
    BY <2>2, <1>3
  <2> QED
    BY <2>2, <2>3, <1>2, <1>3
<1>9. ASSUME NEW j \in 1 .. l + 1 PROVE s[j] = DigitsHex[(a \div P[j - 1]) % b]
  <2>1. CASE j = 1
    <3>1. a \div P[j - 1] = a
      BY <2>1, <1>1
    <3> QED
      BY <3>1, <2>1, <1>2, <1>5
  <2>2. CASE j # 1
    <3>1. /\ j \in 2 .. l + 1 /\ j - 1 \in 1 .. l /\ j - 1 \in 1 .. m
          /\ (j - 1) - 1 \in 0 .. m
      <4>1. m \in Nat /\ l \in 1 .. m - 1
        BY <1>1, <1>4
      <4> QED
        BY <4>1, <2>2
    <3> DEFINE p == P[(j - 1) - 1]
    <3>2. p \in Nat /\ p > 0 /\ P[j - 1] = b * p
      BY <3>1, <1>1
    <3>3. q \div p = a \div P[j - 1]
      <4> HIDE DEF p
      <4>1. (a \div b) \div p = a \div (b * p)
        BY <3>2, DivDiv
      <4> QED
        BY <4>1, <3>2, <1>2
    <3> QED
      BY <3>1, <3>3, <1>4, <1>5
  <2> QED
    BY <2>1, <2>2
<1>10. Len(s) \in 1 .. m /\ Len(s) - 1 = l
  BY <1>1, <1>4, <1>5
<1> QED
  BY <1>5, <1>7, <1>8, <1>9, <1>10 DEF IsNumeral, P, m, s

LEMMA OneDigit ==
    ASSUME NEW b \in {10, 16}, NEW a \in Nat, a \div b = 0
    PROVE  IsNumeral(<<DigitsHex[a % b]>>, a, b) /\ a % b = a
<1> DEFINE P == Power(b)
           m == MaxNumericSize
           s == <<DigitsHex[a % b]>>
<1>1. m \in Nat /\ m > 3 /\ P[0] = 1 /\ P[1] = b
  <2>1. m \in Nat /\ m > 3 /\ P[0] = 1 /\ \A k \in 1 .. m : P[k] = b * P[k - 1]
    BY Powers, SizesAssumption
  <2>2. 1 \in 1 .. m /\ 1 - 1 = 0
    BY <2>1
  <2>3. P[1] = b * P[1 - 1]
    BY <2>1, <2>2
  <2> QED
    BY <2>1, <2>2, <2>3
<1>2. a % b = a /\ a < b /\ a \div 1 = a
  BY DivMod
<1>3. Len(s) = 1 /\ s[1] = DigitsHex[a % b]
  OBVIOUS
<1> HIDE DEF P, m, s
<1> QED
  BY <1>1, <1>2, <1>3 DEF IsNumeral, P, m, s

\* f spells numbers below a power of the base by as many digits at most.
LEMMA DigitsRight ==
    ASSUME NEW b \in {10, 16}, NEW D, NEW size \in [D -> Nat], NEW quot,
           Divides(D, size, quot, b), NEW f \in [D -> Seq(Nat)], Spells(f, D, size, quot, b),
           NEW k \in 0 .. MaxNumericSize, NEW i \in D, size[i] < Power(b)[k]
    PROVE  IsNumeral(f[i], size[i], b) /\ (k > 0 => Len(f[i]) <= k)
<1> DEFINE P == Power(b)
           m == MaxNumericSize
           T == {n \in 0 .. m : \A d \in D : size[d] < P[n] =>
                    IsNumeral(f[d], size[d], b) /\ (n > 0 => Len(f[d]) <= n)}
<1>1. /\ m \in Nat /\ m > 3 /\ P \in [0 .. m -> Nat] /\ P[0] = 1
      /\ \A n \in 1 .. m : P[n] = b * P[n - 1]
  BY Powers, SizesAssumption
<1>2. ASSUME NEW d \in D, size[d] \div b = 0
      PROVE  IsNumeral(f[d], size[d], b) /\ Len(f[d]) = 1
  <2>1. size[d] \in Nat
    OBVIOUS
  <2>2. f[d] = <<DigitsHex[size[d] % b]>>
    <3>1. f[d] = <<DigitsHex[size[d] % b]>> \o <<>>
      BY <1>2 DEF Spells
    <3>2. <<DigitsHex[size[d] % b]>> \in Seq(Nat)
      BY <2>1, LastDigit
    <3> QED
      BY <3>1, <3>2
  <2> QED
    BY <1>2, <2>1, <2>2, OneDigit
<1> HIDE DEF P, m
<1>3. 0 \in T
  <2>1. ASSUME NEW d \in D, size[d] < P[0] PROVE size[d] \div b = 0
    <3>1. size[d] \in Nat /\ size[d] < 1
      BY <2>1, <1>1
    <3>2. size[d] = 0 /\ 0 \div b = 0
      BY <3>1
    <3> QED
      BY <3>2
  <2> QED
    BY <2>1, <1>1, <1>2
<1>4. ASSUME NEW n \in 1 .. m, n - 1 \in T PROVE n \in T
  <2>1. ASSUME NEW d \in D, size[d] < P[n]
        PROVE  IsNumeral(f[d], size[d], b) /\ Len(f[d]) <= n
    <3> DEFINE a == size[d]
    <3>1. a \in Nat /\ P[n - 1] \in Nat /\ P[n] = b * P[n - 1] /\ n \in Nat /\ n >= 1
      <4>1. n - 1 \in 0 .. m /\ a \in Nat /\ n \in Nat /\ n >= 1
        BY <1>1
      <4> QED
        BY <4>1, <1>1
    <3>2. CASE a \div b = 0
      BY <3>1, <3>2, <1>2
    <3>3. CASE a \div b # 0
      <4>1. quot[d] \in D /\ size[quot[d]] = a \div b /\ a \div b \in Nat
        BY <3>1, Smaller DEF Divides
      <4>2. a \div b < P[n - 1]
        <5> HIDE DEF a
        <5> QED
          BY <2>1, <3>1 DEF a
      <4>3. n # 1
        <5>1. n = 1 => P[n - 1] = 1
          BY <1>1
        <5> QED
          BY <5>1, <4>1, <4>2, <3>3
      <4>4. IsNumeral(f[quot[d]], a \div b, b) /\ Len(f[quot[d]]) <= n - 1
        BY <4>1, <4>2, <4>3, <1>4
      <4>5. f[d] = <<DigitsHex[a % b]>> \o f[quot[d]]
        BY <3>3 DEF Spells
      <4>6. f[quot[d]] \in Seq(Nat) /\ Len(f[quot[d]]) \in Nat
        BY <4>1, LenProperties
      <4>7. IsNumeral(f[d], a, b)
        <5>1. Len(f[quot[d]]) < MaxNumericSize
          <6>1. Len(f[quot[d]]) <= n - 1 /\ Len(f[quot[d]]) \in Nat
            BY <4>4, <4>6
          <6>2. n \in Nat /\ n <= MaxNumericSize /\ MaxNumericSize \in Nat
            BY <1>1 DEF m
          <6> HIDE DEF a, T
          <6> QED
            BY <6>1, <6>2
        <5> HIDE DEF a
        <5> QED
          BY <5>1, <4>4, <4>5, <4>6, <3>1, <3>3, OneDigitMore
      <4>8. Len(f[d]) = 1 + Len(f[quot[d]])
        <5>1. <<DigitsHex[a % b]>> \in Seq(Nat) /\ Len(<<DigitsHex[a % b]>>) = 1
          BY <3>1, LastDigit
        <5> QED
          BY <5>1, <4>5, <4>6, ConcatProperties
      <4> QED
        BY <4>4, <4>6, <4>7, <4>8, <3>1
    <3> QED
      BY <3>2, <3>3
  <2> QED
    BY <2>1
<1>5. k \in T
  <2>1. k \in 0 .. m /\ \A n \in 1 .. m : n - 1 \in T => n \in T
    BY <1>4 DEF m
  <2> HIDE DEF T
  <2> QED
    BY <2>1, <1>1, <1>3, UpTo
<1> QED
  BY <1>5 DEF P

\* Any such f gives sequences.
LEMMA Unwound ==
    ASSUME NEW b \in {10, 16}, NEW m \in Nat, NEW D, NEW size \in [D -> 0 .. m], NEW quot,
           Divides(D, size, quot, b), NEW f, f = [i \in D |-> f[i]], Spells(f, D, size, quot, b)
    PROVE  f \in [D -> Seq(Nat)]
<1> DEFINE T == {n \in 0 .. m + 1 : \A i \in D : size[i] < n => f[i] \in Seq(Nat)}
           z == m + 1
<1>1. \A i \in D : /\ size[i] \in Nat /\ size[i] <= m /\ size[i] \div b \in Nat
                   /\ size[i] \div b = 0 \/ size[i] \div b < size[i]
                   /\ quot[i] \in D /\ size[quot[i]] = size[i] \div b
  <2>1. \A i \in D : size[i] \in Nat /\ size[i] <= m
    OBVIOUS
  <2> QED
    BY <2>1, Smaller DEF Divides
<1>2. 0 \in T
  BY <1>1
<1>3. ASSUME NEW n \in 1 .. z, n - 1 \in T PROVE n \in T
  <2>1. ASSUME NEW i \in D, size[i] < n PROVE f[i] \in Seq(Nat)
    <3> DEFINE rest == IF size[i] \div b = 0 THEN <<>> ELSE f[quot[i]]
    <3>1. rest \in Seq(Nat)
      <4>1. CASE size[i] \div b = 0
        BY <4>1
      <4>2. CASE size[i] \div b # 0
        <5>1. quot[i] \in D /\ size[quot[i]] < n - 1
          BY <1>1, <2>1, <4>2
        <5>2. f[quot[i]] \in Seq(Nat)
          BY <5>1, <1>3
        <5> QED
          BY <5>2
      <4> QED
        BY <4>1, <4>2
    <3>2. f[i] = <<DigitsHex[size[i] % b]>> \o rest
      BY DEF Spells
    <3>3. <<DigitsHex[size[i] % b]>> \in Seq(Nat)
      BY <1>1, LastDigit
    <3> HIDE DEF rest
    <3> QED
      BY <3>1, <3>2, <3>3, ConcatProperties
  <2> QED
    BY <2>1
<1>4. z \in Nat /\ z \in 0 .. z
  OBVIOUS
<1>5. z \in T
  <2> HIDE DEF T, z
  <2> QED
    BY <1>2, <1>3, <1>4, UpTo
<1>6. \A i \in D : f[i] \in Seq(Nat)
  BY <1>5, <1>1
<1> QED
  BY <1>6

Magnitude(i) == IF i < 0 THEN -i ELSE i

\* C's remainder and quotient are those of the magnitude, with a sign.
LEMMA CDivision ==
    ASSUME NEW i \in Ints
    PROVE  /\ Magnitude(i) \in 0 .. IntMax + 1 /\ i \in Int
           /\ Digits[CRem(i, 10)] = DigitsHex[Magnitude(i) % 10]
           /\ CQuot(i, 10) \in Ints
           /\ Magnitude(CQuot(i, 10)) = Magnitude(i) \div 10
           /\ CQuot(i, 10) = 0 <=> Magnitude(i) \div 10 = 0
<1> DEFINE a == Magnitude(i)
<1>1. IntMax \in Nat /\ i \in Int /\ -IntMax - 1 <= i /\ i <= IntMax
  BY SizesAssumption DEF Ints
<1>2. a \in Nat /\ a <= IntMax + 1 /\ a = (IF i < 0 THEN -i ELSE i)
  BY <1>1 DEF Magnitude
<1>3. PICK q \in Int, r \in Int : q = a \div 10 /\ r = a % 10 /\ 0 <= r /\ r < 10 /\ a = 10 * q + r
  BY <1>2, DivMod
<1> HIDE DEF a
<1>4. CRem(i, 10) = IF i < 0 THEN -r ELSE r
  BY <1>1, <1>2, <1>3 DEF CRem
<1>5. CQuot(i, 10) = IF i < 0 THEN -q ELSE q
  BY <1>1, <1>2, <1>3 DEF CQuot
<1>6. Digits[CRem(i, 10)] = Zero + r /\ DigitsHex[r] = Zero + r
  <2> DEFINE c == CRem(i, 10)
             w == IF c < 0 THEN -c ELSE c
  <2>1. c \in -9 .. 9 /\ r \in 0 .. 15 /\ w = r
    BY <1>3, <1>4
  <2>2. Digits[c] = Zero + w
    <3> HIDE DEF c
    <3> QED
      BY <2>1 DEF Digits
  <2>3. DigitsHex[r] = Zero + r
    BY <2>1, <1>3 DEF DigitsHex
  <2>4. Digits[c] = Zero + r
    <3> HIDE DEF w, c
    <3> QED
      BY <2>1, <2>2
  <2> QED
    BY <2>3, <2>4
<1>7. 0 <= q /\ q <= a
  <2>1. a \in Int /\ a >= 0
    BY <1>2
  <2> QED
    BY <2>1, <1>3
<1>8. CQuot(i, 10) \in Ints /\ Magnitude(CQuot(i, 10)) = q /\ (CQuot(i, 10) = 0 <=> q = 0)
  BY <1>1, <1>2, <1>3, <1>5, <1>7 DEF Ints, Magnitude
<1> QED
  BY <1>1, <1>2, <1>3, <1>6, <1>8 DEF a

\* convert(): the loop gives the digits of the magnitude.
LEMMA IntegerDigits ==
    /\ LastFirst \in [Ints -> Seq(Nat)]
    /\ \A i \in Ints : /\ IsNumeral(LastFirst[i], Magnitude(i), 10)
                       /\ Len(LastFirst[i]) <= MaxNumericSize - 2
<1> DEFINE D == Ints
           size == [i \in D |-> Magnitude(i)]
           quot == [i \in D |-> CQuot(i, 10)]
           b == 10
           m == IntMax + 1
<1>1. m \in Nat /\ size \in [D -> 0 .. m] /\ Divides(D, size, quot, b) /\ b \in {10, 16}
  <2>1. ASSUME NEW i \in D
        PROVE  size[i] \in 0 .. m /\ quot[i] \in D /\ size[quot[i]] = size[i] \div b
    <3>1. quot[i] = CQuot(i, 10) /\ size[i] = Magnitude(i) /\ CQuot(i, 10) \in D
      BY CDivision
    <3>2. size[CQuot(i, 10)] = Magnitude(CQuot(i, 10))
      BY <3>1
    <3> HIDE DEF quot, size
    <3> QED
      BY <3>1, <3>2, CDivision
  <2>2. size = [i \in D |-> size[i]] /\ quot = [i \in D |-> quot[i]]
    OBVIOUS
  <2>3. m \in Nat
    BY SizesAssumption
  <2> HIDE DEF D, size, quot, m
  <2> QED
    BY <2>1, <2>2, <2>3 DEF Divides
<1>2. PICK f \in [D -> Seq(Nat)] : Spells(f, D, size, quot, b)
  <2> HIDE DEF D, size, quot, b, m
  <2> QED
    BY <1>1, Unwinds
<1>3. \A i \in D : /\ Digits[CRem(i, 10)] = DigitsHex[size[i] % b]
                   /\ CQuot(i, 10) = 0 <=> size[i] \div b = 0
                   /\ quot[i] = CQuot(i, 10)
  BY CDivision
<1>4. f = [i \in D |-> <<Digits[CRem(i, 10)]>> \o IF CQuot(i, 10) = 0 THEN <<>> ELSE f[CQuot(i, 10)]]
  <2> HIDE DEF size, quot, b
  <2>1. \A i \in D : f[i] = <<Digits[CRem(i, 10)]>> \o IF CQuot(i, 10) = 0 THEN <<>> ELSE f[CQuot(i, 10)]
    BY <1>2, <1>3 DEF Spells
  <2> QED
    BY <2>1
<1>5. LastFirst = [i \in D |-> <<Digits[CRem(i, 10)]>>
                               \o IF CQuot(i, 10) = 0 THEN <<>> ELSE LastFirst[CQuot(i, 10)]]
  BY <1>4, Zenon DEF LastFirst
<1>6. LastFirst = [i \in D |-> LastFirst[i]] /\ Spells(LastFirst, D, size, quot, b)
  <2> HIDE DEF D, size, quot, b
  <2>1. \A i \in D : LastFirst[i] = <<Digits[CRem(i, 10)]>>
                               \o IF CQuot(i, 10) = 0 THEN <<>> ELSE LastFirst[CQuot(i, 10)]
    BY <1>5
  <2>2. LastFirst = [i \in D |-> LastFirst[i]]
    BY <1>5
  <2>3. Spells(LastFirst, D, size, quot, b)
    BY <2>1, <1>3 DEF Spells
  <2> QED
    BY <2>2, <2>3
<1>7. LastFirst \in [D -> Seq(Nat)]
  <2> HIDE DEF D, size, quot, b, m
  <2> QED
    BY <1>1, <1>6, Unwound
<1> DEFINE k == MaxNumericSize - 2
<1>8. /\ k \in 0 .. MaxNumericSize /\ k > 0
      /\ \A i \in D : size[i] < Power(b)[k]
  <2>1. Power(10)[k] \in Nat /\ m < Power(10)[k] /\ k \in 0 .. MaxNumericSize /\ k > 0
    BY Powers, SizesAssumption
  <2>2. \A i \in D : size[i] \in Int /\ size[i] <= m /\ m \in Int
    BY <1>1
  <2> HIDE DEF size, k, m
  <2> QED
    BY <2>1, <2>2
<1>9. \A i \in D : IsNumeral(LastFirst[i], size[i], b) /\ Len(LastFirst[i]) <= k
  <2> HIDE DEF D, size, quot, b, k
  <2>1. size \in [D -> Nat]
    BY <1>1
  <2> QED
    BY <2>1, <1>1, <1>6, <1>7, <1>8, DigitsRight
<1> QED
  BY <1>7, <1>9

\* convertHex(): the same for addresses.
LEMMA AddressDigits ==
    /\ HexLastFirst \in [Addresses -> Seq(Nat)]
    /\ \A i \in Addresses : /\ i \in Nat
                            /\ IsNumeral(HexLastFirst[i], i, 16)
                            /\ Len(HexLastFirst[i]) <= MaxNumericSize - 3
<1> DEFINE D == Addresses
           size == [i \in D |-> i]
           quot == [i \in D |-> i \div 16]
           b == 16
           m == 2 * IntMax + 1
<1>1. m \in Nat /\ size \in [D -> 0 .. m] /\ Divides(D, size, quot, b) /\ b \in {10, 16}
  <2>1. ASSUME NEW i \in D
        PROVE  size[i] \in 0 .. m /\ quot[i] \in D /\ size[quot[i]] = size[i] \div b
    <3>1. i \in 0 .. m /\ m \in Nat
      BY SizesAssumption DEF Addresses
    <3>2. i \div 16 \in 0 .. m
      <4> HIDE DEF m
      <4> QED
        BY <3>1
    <3>3. i \div 16 \in D
      BY <3>2 DEF Addresses
    <3> QED
      BY <3>1, <3>3
  <2>2. size = [i \in D |-> size[i]] /\ quot = [i \in D |-> quot[i]]
    OBVIOUS
  <2>3. m \in Nat
    BY SizesAssumption
  <2> HIDE DEF D, size, quot, m
  <2> QED
    BY <2>1, <2>2, <2>3 DEF Divides
<1>2. PICK f \in [D -> Seq(Nat)] : Spells(f, D, size, quot, b)
  <2> HIDE DEF D, size, quot, b, m
  <2> QED
    BY <1>1, Unwinds
<1>3. \A i \in D : size[i] = i /\ quot[i] = i \div 16
  OBVIOUS
<1>4. f = [i \in D |-> <<DigitsHex[i % 16]>> \o IF i \div 16 = 0 THEN <<>> ELSE f[i \div 16]]
  <2> HIDE DEF D, size, quot
  <2>1. ASSUME NEW i \in D
        PROVE  f[i] = <<DigitsHex[i % 16]>> \o IF i \div 16 = 0 THEN <<>> ELSE f[i \div 16]
    <3>1. f[i] = <<DigitsHex[size[i] % b]>> \o IF size[i] \div b = 0 THEN <<>> ELSE f[quot[i]]
      BY <1>2 DEF Spells
    <3> QED
      BY <1>3, <3>1
  <2>2. f = [i \in D |-> f[i]]
    BY <1>2
  <2> QED
    BY <2>1, <2>2
<1>5. HexLastFirst = [i \in D |-> <<DigitsHex[i % 16]>>
                               \o IF i \div 16 = 0 THEN <<>> ELSE HexLastFirst[i \div 16]]
  BY <1>4, Zenon DEF HexLastFirst
<1>6. HexLastFirst = [i \in D |-> HexLastFirst[i]] /\ Spells(HexLastFirst, D, size, quot, b)
  <2> HIDE DEF D, size, quot
  <2>1. \A i \in D : HexLastFirst[i] = <<DigitsHex[i % 16]>>
                               \o IF i \div 16 = 0 THEN <<>> ELSE HexLastFirst[i \div 16]
    BY <1>5
  <2>2. HexLastFirst = [i \in D |-> HexLastFirst[i]]
    BY <1>5
  <2>3. Spells(HexLastFirst, D, size, quot, b)
    BY <2>1, <1>3 DEF Spells
  <2> QED
    BY <2>2, <2>3
<1>7. HexLastFirst \in [D -> Seq(Nat)]
  <2> HIDE DEF D, size, quot, b, m
  <2> QED
    BY <1>1, <1>6, Unwound
<1> DEFINE k == MaxNumericSize - 3
<1>8. /\ k \in 0 .. MaxNumericSize /\ k > 0
      /\ \A i \in D : size[i] < Power(b)[k]
  <2>1. Power(16)[k] \in Nat /\ m < Power(16)[k] /\ k \in 0 .. MaxNumericSize /\ k > 0
    BY Powers, SizesAssumption
  <2>2. \A i \in D : size[i] \in Int /\ size[i] <= m /\ m \in Int
    BY <1>1
  <2> HIDE DEF size, k, m
  <2> QED
    BY <2>1, <2>2
<1>9. \A i \in D : IsNumeral(HexLastFirst[i], size[i], b) /\ Len(HexLastFirst[i]) <= k
  <2> HIDE DEF D, size, quot, b, k
  <2>1. size \in [D -> Nat]
    BY <1>1
  <2> QED
    BY <2>1, <1>1, <1>6, <1>7, <1>8, DigitsRight
<1>10. \A i \in D : i \in Nat
  BY <1>1, <1>3
<1> QED
  BY <1>3, <1>7, <1>9, <1>10

\* Read backwards, a numeral is what Numeral makes of the number.
LEMMA NumeralOf ==
    ASSUME NEW b \in {10, 16}, NEW a \in Nat, NEW s \in Seq(Nat), IsNumeral(s, a, b)
    PROVE  /\ Reverse(s) \in Seq(Nat) /\ Len(Reverse(s)) = Len(s)
           /\ Weighed(a, b) = Reverse(s)
<1> DEFINE P == Power(b)
           m == MaxNumericSize
           l == Len(s)
           Fit(k) == P[k] > a /\ (k = 1 \/ P[k - 1] <= a)
<1>1. m \in Nat /\ P \in [0 .. m -> Nat]
  BY Powers, SizesAssumption
<1>2. l \in 1 .. m /\ Fit(l)
  BY <1>1 DEF IsNumeral
<1>3. \A j \in 0 .. m, k \in 0 .. m : j <= k => P[j] <= P[k]
  BY PowersGrow
<1>4. ASSUME NEW j \in 1 .. m, NEW k \in 1 .. m, Fit(j), Fit(k), j < k PROVE FALSE
  <2>1. j \in 0 .. m /\ k - 1 \in 0 .. m /\ j <= k - 1 /\ k # 1
    BY <1>1, <1>4
  <2>2. P[j] <= P[k - 1] /\ P[j] \in Nat /\ P[k - 1] \in Nat
    <3> HIDE DEF P
    <3> QED
      BY <2>1, <1>1, <1>3
  <2> HIDE DEF P
  <2> QED
    BY <2>1, <2>2, <1>4
<1>5. (CHOOSE k \in 1 .. m : Fit(k)) = l
  <2> DEFINE d == CHOOSE k \in 1 .. m : Fit(k)
  <2>1. d \in 1 .. m /\ Fit(d)
    <3> HIDE DEF Fit
    <3> QED
      BY <1>2
  <2>2. ~(d < l) /\ ~(l < d)
    <3> HIDE DEF d, Fit
    <3> QED
      BY <1>2, <1>4, <2>1
  <2>3. d \in Int /\ l \in Int
    BY <2>1, <1>2
  <2>4. d = l
    <3> HIDE DEF d
    <3> QED
      BY <2>2, <2>3
  <2> QED
    BY <2>4
<1>6. Reverse(s) \in Seq(Nat) /\ Len(Reverse(s)) = l
  <2>1. \A i \in 1 .. l : s[(l - i) + 1] \in Nat
    <3>1. \A i \in 1 .. l : (l - i) + 1 \in 1 .. l
      BY <1>2
    <3> QED
      BY <3>1, ElementOfSeq
  <2> QED
    BY <2>1, <1>2 DEF Reverse
<1>7. Reverse(s) = [k \in 1 .. l |-> DigitsHex[(a \div P[l - k]) % b]]
  <2>1. ASSUME NEW k \in 1 .. l
        PROVE  s[(l - k) + 1] = DigitsHex[(a \div P[l - k]) % b]
    <3>1. (l - k) + 1 \in 1 .. l /\ ((l - k) + 1) - 1 = l - k
      BY <1>2
    <3> QED
      BY <3>1 DEF IsNumeral
  <2> QED
    BY <2>1 DEF Reverse
<1>8. Weighed(a, b) = Reverse(s)
  BY <1>5, <1>7 DEF Weighed
<1> QED
  BY <1>6, <1>8

LEMMA ReverseWithSign ==
    ASSUME NEW s \in Seq(Nat), NEW e \in Nat
    PROVE  Reverse(s \o <<e>>) = <<e>> \o Reverse(s)
<1> DEFINE l == Len(s)
           u == s \o <<e>>
           r == Reverse(s)
           v == <<e>> \o r
<1>1. l \in Nat /\ \A i \in 1 .. l : s[i] \in Nat
  BY LenProperties, ElementOfSeq
<1>2. /\ u \in Seq(Nat) /\ Len(u) = l + 1
      /\ \A i \in 1 .. l + 1 : u[i] = IF i <= l THEN s[i] ELSE e
  <2>1. <<e>> \in Seq(Nat) /\ Len(<<e>>) = 1 /\ <<e>>[1] = e
    OBVIOUS
  <2>2. /\ u \in Seq(Nat) /\ Len(u) = l + Len(<<e>>)
        /\ \A i \in 1 .. l + Len(<<e>>) : u[i] = IF i <= l THEN s[i] ELSE <<e>>[i - l]
    BY <2>1, ConcatProperties
  <2>3. ASSUME NEW i \in 1 .. l + 1 PROVE u[i] = IF i <= l THEN s[i] ELSE e
    <3>1. i <= l \/ i - l = 1
      BY <1>1
    <3> HIDE DEF u, l
    <3> QED
      BY <3>1, <2>1, <2>2
  <2> QED
    BY <2>1, <2>2, <2>3
<1>3. r \in Seq(Nat) /\ Len(r) = l /\ \A i \in 1 .. l : r[i] = s[(l - i) + 1]
  <2>1. \A i \in 1 .. l : (l - i) + 1 \in 1 .. l
    BY <1>1
  <2>2. \A i \in 1 .. l : s[(l - i) + 1] \in Nat
    BY <1>1, <2>1
  <2> QED
    BY <1>1, <2>2 DEF Reverse
<1>4. /\ v \in Seq(Nat) /\ Len(v) = l + 1
      /\ \A i \in 1 .. l + 1 : v[i] = IF i = 1 THEN e ELSE r[i - 1]
  <2>1. <<e>> \in Seq(Nat) /\ Len(<<e>>) = 1 /\ <<e>>[1] = e
    OBVIOUS
  <2>2. /\ v \in Seq(Nat) /\ Len(v) = Len(<<e>>) + l
        /\ \A i \in 1 .. Len(<<e>>) + l : v[i] = IF i <= Len(<<e>>) THEN <<e>>[i] ELSE r[i - Len(<<e>>)]
    <3> HIDE DEF r
    <3> QED
      BY <2>1, <1>3, ConcatProperties
  <2>3. ASSUME NEW i \in 1 .. l + 1 PROVE v[i] = IF i = 1 THEN e ELSE r[i - 1]
    <3>1. (i <= 1 <=> i = 1) /\ i \in 1 .. 1 + l
      BY <1>1
    <3> HIDE DEF v, l, r
    <3> QED
      BY <3>1, <2>1, <2>2
  <2> QED
    BY <1>1, <2>1, <2>2, <2>3
<1>5. Reverse(u) = [i \in 1 .. l + 1 |-> u[((l + 1) - i) + 1]]
  BY <1>2 DEF Reverse
<1>6. ASSUME NEW i \in 1 .. l + 1 PROVE u[((l + 1) - i) + 1] = v[i]
  <2>1. CASE i = 1
    <3>1. ((l + 1) - i) + 1 \in 1 .. l + 1 /\ ~(((l + 1) - i) + 1 <= l)
      BY <1>1, <2>1
    <3> HIDE DEF u, v
    <3> QED
      BY <3>1, <2>1, <1>2, <1>4
  <2>2. CASE i # 1
    <3>1. /\ ((l + 1) - i) + 1 \in 1 .. l + 1 /\ ((l + 1) - i) + 1 <= l
          /\ i - 1 \in 1 .. l /\ ((l + 1) - i) + 1 = (l - (i - 1)) + 1
      BY <1>1, <2>2
    <3> HIDE DEF u, v, r
    <3> QED
      BY <3>1, <2>2, <1>2, <1>3, <1>4
  <2> QED
    BY <2>1, <2>2
<1>7. v = [i \in 1 .. l + 1 |-> v[i]]
  <2> HIDE DEF v
  <2> QED
    BY <1>4
<1> HIDE DEF u, v
<1>8. Reverse(u) = v
  BY <1>5, <1>6, <1>7
<1> QED
  BY <1>8 DEF u, v

\* convert() and convertHex() write the numeral of any value, within the space
\* that staticCheck() demands, the final NUL included.
LEMMA ConvertRight ==
    ASSUME NEW v \in Ints
    PROVE  /\ Convert(v) = Numeral(v, 10) /\ Convert(v) \in Seq(Nat)
           /\ Len(Convert(v)) < MaxNumericSize
<1> DEFINE s == LastFirst[v]
           a == Magnitude(v)
<1>1. a \in Nat /\ v \in Int /\ a = IF v < 0 THEN -v ELSE v
  <2>1. v \in Int
    BY CDivision
  <2> QED
    BY <2>1 DEF Magnitude
<1>2. s \in Seq(Nat) /\ IsNumeral(s, a, 10) /\ Len(s) \in Nat /\ Len(s) <= MaxNumericSize - 2
  BY IntegerDigits, LenProperties
<1> HIDE DEF s, a
<1>3. Reverse(s) \in Seq(Nat) /\ Len(Reverse(s)) = Len(s) /\ Weighed(a, 10) = Reverse(s)
  BY <1>1, <1>2, NumeralOf
<1>4. MaxNumericSize \in Nat
  BY SizesAssumption
<1>5. CASE v < 0
  <2>1. Minus \in Nat /\ <<Minus>> \in Seq(Nat) /\ Len(<<Minus>>) = 1
    BY DEF Minus
  <2>2. Convert(v) = <<Minus>> \o Reverse(s)
    BY <1>2, <1>5, <2>1, ReverseWithSign DEF Convert, s
  <2>3. /\ <<Minus>> \o Reverse(s) \in Seq(Nat)
        /\ Len(<<Minus>> \o Reverse(s)) = Len(<<Minus>>) + Len(Reverse(s))
    BY <1>3, <2>1, ConcatProperties
  <2>4. Numeral(v, 10) = <<Minus>> \o Weighed(a, 10)
    BY <1>1, <1>5 DEF Numeral
  <2>5. Len(<<Minus>> \o Reverse(s)) < MaxNumericSize
    <3> DEFINE k == Len(<<Minus>> \o Reverse(s))
               n == Len(s)
    <3>1. k = 1 + n /\ n \in Nat /\ n <= MaxNumericSize - 2
      BY <1>2, <1>3, <2>1, <2>3
    <3> HIDE DEF k, n
    <3>2. k < MaxNumericSize
      BY <1>4, <3>1
    <3> QED
      BY <3>2 DEF k
  <2> QED
    BY <1>3, <2>2, <2>3, <2>4, <2>5
<1>6. CASE ~(v < 0)
  <2>1. Convert(v) = Reverse(s)
    <3>1. Convert(v) = Reverse(s \o <<>>)
      BY <1>6 DEF Convert, s
    <3>2. s \o <<>> = s
      BY <1>2, ConcatEmptySeq
    <3> QED
      BY <3>1, <3>2
  <2>2. Numeral(v, 10) = Weighed(a, 10)
    BY <1>1, <1>6 DEF Numeral
  <2> QED
    BY <1>2, <1>3, <1>4, <2>1, <2>2
<1> QED
  BY <1>5, <1>6

LEMMA ConvertHexRight ==
    ASSUME NEW v \in Addresses
    PROVE  LET chars == <<Zero, SmallX>> \o ConvertHex(v)
           IN  /\ chars = <<Zero, SmallX>> \o Numeral(v, 16) /\ chars \in Seq(Nat)
               /\ Len(chars) < MaxNumericSize
<1> DEFINE s == HexLastFirst[v]
           x == <<Zero, SmallX>>
<1>1. v \in Nat /\ s \in Seq(Nat) /\ IsNumeral(s, v, 16) /\ Len(s) \in Nat
      /\ Len(s) <= MaxNumericSize - 3
  BY AddressDigits, LenProperties
<1> HIDE DEF s
<1>2. Reverse(s) \in Seq(Nat) /\ Len(Reverse(s)) = Len(s) /\ Weighed(v, 16) = Reverse(s)
  BY <1>1, NumeralOf
<1>3. ConvertHex(v) = Reverse(s) /\ Numeral(v, 16) = Reverse(s)
  BY <1>1, <1>2 DEF ConvertHex, Numeral, s
<1>4. x \in Seq(Nat) /\ Len(x) = 2
  BY DEF Zero, SmallX
<1>5. x \o Reverse(s) \in Seq(Nat) /\ Len(x \o Reverse(s)) = Len(x) + Len(Reverse(s))
  <2> HIDE DEF x
  <2> QED
    BY <1>2, <1>4, ConcatProperties
<1>6. MaxNumericSize \in Nat
  BY SizesAssumption
<1> QED
  BY <1>1, <1>2, <1>3, <1>4, <1>5, <1>6

----------------------------------------------------------------------------
(* The buffer of a line                                                    *)

\* A buffer with room for a NUL behind its text, and nothing written past its end.
Fits(b) == /\ b \in [text : Seq(Nat), top : Nat]
           /\ Len(b.text) < SmallBuffer /\ b.top <= SmallBuffer

\* An item is dropped when there is not more room than this.
Needs(item) == IF item.kind = "text" THEN Len(item.val) ELSE MaxNumericSize - 1

LEMMA StoreFits ==
    ASSUME NEW b, Fits(b), NEW chars \in Seq(Nat), NEW beyond \in {0, 1},
           Len(b.text) + Len(chars) < SmallBuffer
    PROVE  Fits(Store(b, chars, beyond)) /\ Store(b, chars, beyond).text = b.text \o chars
<1> DEFINE u == b.text \o chars
           end == Len(b.text) + Len(chars)
           high == IF end + beyond > b.top THEN end + beyond ELSE b.top
<1>1. b.text \in Seq(Nat) /\ b.top \in Nat /\ b.top <= SmallBuffer
  BY DEF Fits
<1>2. u \in Seq(Nat) /\ Len(u) = end
  BY <1>1, ConcatProperties
<1>3. end \in Nat /\ end < SmallBuffer /\ SmallBuffer \in Nat
  BY <1>1, SizesAssumption, LenProperties
<1>4. high \in Nat /\ high <= SmallBuffer
  <2> HIDE DEF end
  <2> QED
    BY <1>1, <1>3
<1>5. Store(b, chars, beyond) = [text |-> u, top |-> high]
  BY DEF Store
<1>6. u = b.text \o chars
  OBVIOUS
<1> HIDE DEF u, end, high
<1>7. [text |-> u, top |-> high] \in [text : Seq(Nat), top : Nat]
  BY <1>2, <1>4
<1>8. Len(u) < SmallBuffer
  BY <1>2, <1>3
<1>9. Fits([text |-> u, top |-> high])
  BY <1>4, <1>7, <1>8 DEF Fits
<1> QED
  BY <1>5, <1>6, <1>9

\* A number, a pointer or a double: the room looked for is enough.
LEMMA NumberFits ==
    ASSUME NEW b, Fits(b), NEW chars \in Seq(Nat), Len(chars) < MaxNumericSize
    PROVE  LET r == IF Avail(b) >= MaxNumericSize THEN Store(b, chars, 1) ELSE b
           IN  /\ Fits(r)
               /\ \/ r.text = b.text \o chars
                  \/ r.text = b.text /\ SmallBuffer - Len(b.text) <= MaxNumericSize - 1
<1>1. /\ Len(b.text) \in Nat /\ Len(chars) \in Nat /\ MaxNumericSize \in Nat
      /\ SmallBuffer \in Nat /\ Avail(b) = SmallBuffer - Len(b.text)
  BY SizesAssumption, LenProperties DEF Fits, Avail
<1>2. CASE Avail(b) >= MaxNumericSize
  <2>1. Len(b.text) + Len(chars) < SmallBuffer
    BY <1>1, <1>2
  <2> QED
    BY <1>2, <2>1, StoreFits
<1>3. CASE ~(Avail(b) >= MaxNumericSize)
  BY <1>1, <1>3
<1> QED
  BY <1>2, <1>3

LEMMA CharsFit ==
    ASSUME NEW b, Fits(b), NEW chars \in Seq(Nat)
    PROVE  /\ Fits(AppendChars(b, chars))
           /\ \/ AppendChars(b, chars).text = b.text \o chars
              \/ AppendChars(b, chars).text = b.text /\ SmallBuffer - Len(b.text) <= Len(chars)
<1>1. /\ Len(b.text) \in Nat /\ Len(chars) \in Nat
      /\ SmallBuffer \in Nat /\ Avail(b) = SmallBuffer - Len(b.text)
  BY SizesAssumption, LenProperties DEF Fits, Avail
<1>2. CASE Avail(b) > Len(chars)
  <2>1. Len(b.text) + Len(chars) < SmallBuffer
    BY <1>1, <1>2
  <2> QED
    BY <1>2, <2>1, StoreFits DEF AppendChars
<1>3. CASE ~(Avail(b) > Len(chars))
  BY <1>1, <1>3 DEF AppendChars
<1> QED
  BY <1>2, <1>3

\* What Put does to a buffer with any item: the item's text is added to it as a
\* whole, or nothing is and there was no room.
LEMMA PutRight ==
    ASSUME NEW b, Fits(b), NEW item \in Item
    PROVE  /\ Reads(item) \in Seq(Nat)
           /\ Fits(Put(b, item))
           /\ \/ Put(b, item).text = b.text \o Reads(item)
              \/ Put(b, item).text = b.text /\ SmallBuffer - Len(b.text) <= Needs(item)
<1> DEFINE v == item.val
<1>1. CASE item.kind = "int"
  <2>1. v \in Ints
    BY <1>1 DEF Item
  <2>2. Put(b, item) = IF Avail(b) >= MaxNumericSize THEN Store(b, Convert(v), 1) ELSE b
    BY <1>1 DEF Put, FormatInteger
  <2>3. Reads(item) = Numeral(v, 10) /\ Needs(item) = MaxNumericSize - 1
    BY <1>1 DEF Reads, Needs
  <2>4. Convert(v) = Numeral(v, 10) /\ Convert(v) \in Seq(Nat) /\ Len(Convert(v)) < MaxNumericSize
    BY <2>1, ConvertRight
  <2> DEFINE chars == Convert(v)
  <2> HIDE DEF v, chars
  <2>5. chars = Numeral(v, 10) /\ chars \in Seq(Nat) /\ Len(chars) < MaxNumericSize
    BY <2>4 DEF chars
  <2>6. Put(b, item) = IF Avail(b) >= MaxNumericSize THEN Store(b, chars, 1) ELSE b
    BY <2>2 DEF chars
  <2> QED
    BY <2>3, <2>5, <2>6, NumberFits
<1>2. CASE item.kind = "pointer"
  <2> DEFINE chars == <<Zero, SmallX>> \o ConvertHex(v)
  <2>1. v \in Addresses
    BY <1>2 DEF Item
  <2>2. Put(b, item) = IF Avail(b) >= MaxNumericSize THEN Store(b, chars, 1) ELSE b
    BY <1>2 DEF Put, FormatPointer
  <2>3. Reads(item) = <<Zero, SmallX>> \o Numeral(v, 16) /\ Needs(item) = MaxNumericSize - 1
    BY <1>2 DEF Reads, Needs
  <2>4. chars = <<Zero, SmallX>> \o Numeral(v, 16) /\ chars \in Seq(Nat) /\ Len(chars) < MaxNumericSize
    BY <2>1, ConvertHexRight
  <2> HIDE DEF v, chars
  <2> QED
    BY <2>2, <2>3, <2>4, NumberFits
<1>3. CASE item.kind = "double"
  <2>1. v \in DOMAIN DoubleText
    BY <1>3 DEF Item
  <2>2. Put(b, item) = IF Avail(b) >= MaxNumericSize THEN Store(b, DoubleText[v], 1) ELSE b
    BY <1>3 DEF Put, FormatDouble
  <2>3. Reads(item) = DoubleText[v] /\ Needs(item) = MaxNumericSize - 1
    BY <1>3 DEF Reads, Needs
  <2>4. DoubleText[v] \in Seq(Nat) /\ Len(DoubleText[v]) < MaxNumericSize
    BY <2>1, DoublesAssumption
  <2> HIDE DEF v
  <2> QED
    BY <2>2, <2>3, <2>4, NumberFits
<1>4. CASE item.kind = "bool"
  <2> DEFINE chars == <<IF v THEN Zero + 1 ELSE Zero>>
  <2>1. chars \in Seq(Nat) /\ Len(chars) = 1
    BY DEF Zero
  <2>2. Put(b, item) = AppendChars(b, chars)
    BY <1>4 DEF Put, PutBool
  <2>3. Reads(item) = chars /\ Needs(item) = MaxNumericSize - 1
    BY <1>4 DEF Reads, Needs
  <2>4. Len(b.text) \in Nat /\ SmallBuffer \in Nat /\ MaxNumericSize \in Nat /\ MaxNumericSize > 3
    BY SizesAssumption, LenProperties DEF Fits
  <2>5. SmallBuffer - Len(b.text) <= Len(chars) => SmallBuffer - Len(b.text) <= Needs(item)
    BY <2>1, <2>3, <2>4
  <2> HIDE DEF v, chars
  <2> QED
    BY <2>1, <2>2, <2>3, <2>5, CharsFit
<1>5. CASE item.kind = "text"
  <2>1. v \in Seq(Nat)
    BY <1>5 DEF Item
  <2>2. Put(b, item) = AppendChars(b, v)
    BY <1>5 DEF Put, PutText
  <2>3. Reads(item) = v /\ Needs(item) = Len(v)
    BY <1>5 DEF Reads, Needs
  <2> HIDE DEF v
  <2> QED
    BY <2>1, <2>2, <2>3, CharsFit
<1>6. item.kind \in {"int", "pointer", "double", "bool", "text"}
  BY DEF Item
<1> QED
  BY <1>1, <1>2, <1>3, <1>4, <1>5, <1>6

----------------------------------------------------------------------------
(* The items of a line                                                     *)

\* The text of the first n items.
LEMMA KeptIs ==
    ASSUME NEW items \in Seq(Item), NEW D
    PROVE  /\ Kept(items, D) \in [0 .. Len(items) -> Seq(Nat)]
           /\ Kept(items, D)[0] = <<>>
           /\ \A n \in 1 .. Len(items) :
                 Kept(items, D)[n] = Kept(items, D)[n - 1]
                                     \o IF n \in D THEN <<>> ELSE Reads(items[n])
<1> DEFINE m == Len(items)
           add(k) == IF k \in D THEN <<>> ELSE Reads(items[k])
           step == [k \in 1 .. m |-> [x \in Seq(Nat) |-> x \o add(k)]]
           none == <<>>
           kept == Kept(items, D)
<1>1. m \in Nat /\ none \in Seq(Nat) /\ \A k \in 1 .. m : add(k) \in Seq(Nat)
  <2>1. ASSUME NEW k \in 1 .. m PROVE add(k) \in Seq(Nat)
    <3>1. items[k] \in Item
      BY ElementOfSeq
    <3>2. Fits(EmptyBuffer)
      BY SizesAssumption DEF Fits, EmptyBuffer
    <3>3. Reads(items[k]) \in Seq(Nat)
      BY <3>1, <3>2, PutRight
    <3> QED
      BY <3>3
  <2> QED
    BY <2>1, LenProperties
<1> HIDE DEF m, add, none
<1>2. step \in [1 .. m -> [Seq(Nat) -> Seq(Nat)]]
  <2>1. ASSUME NEW k \in 1 .. m, NEW x \in Seq(Nat) PROVE x \o add(k) \in Seq(Nat)
    BY <1>1, ConcatProperties
  <2> QED
    BY <2>1
<1>3. PICK f \in [0 .. m -> Seq(Nat)] : Unfolds(f, m, none, step)
  <2> HIDE DEF step
  <2> QED
    BY <1>1, <1>2, Primitive
<1>4. \A k \in 1 .. m : f[k - 1] \in Seq(Nat) /\ step[k][f[k - 1]] = f[k - 1] \o add(k)
  <2>1. ASSUME NEW k \in 1 .. m PROVE f[k - 1] \in Seq(Nat)
    BY <1>1
  <2> QED
    BY <2>1
<1>5. kept = [n \in 0 .. m |-> IF n = 0 THEN none ELSE kept[n - 1] \o add(n)]
  <2>1. f = [n \in 0 .. m |-> IF n = 0 THEN none ELSE f[n - 1] \o add(n)]
    <3> HIDE DEF step
    <3>1. \A k \in 0 .. m : k # 0 => k \in 1 .. m
      BY <1>1
    <3> QED
      BY <1>3, <1>4, <3>1 DEF Unfolds
  <2> QED
    BY <2>1, Zenon DEF Kept, m, add, none
<1> HIDE DEF kept
<1>6. \A n \in 0 .. m : kept[n] = IF n = 0 THEN none ELSE kept[n - 1] \o add(n)
  BY <1>5
<1>7. kept[0] = none /\ \A n \in 1 .. m : kept[n] = kept[n - 1] \o add(n)
  <2>1. 0 \in 0 .. m /\ \A k \in 1 .. m : k \in 0 .. m /\ k # 0
    BY <1>1
  <2> QED
    BY <1>6, <2>1
<1>8. kept \in [0 .. m -> Seq(Nat)]
  <2> DEFINE T == {n \in 0 .. m : kept[n] \in Seq(Nat)}
  <2>1. 0 \in T
    BY <1>1, <1>7
  <2>2. ASSUME NEW n \in 1 .. m, n - 1 \in T PROVE n \in T
    <3>1. kept[n - 1] \o add(n) \in Seq(Nat)
      BY <1>1, <2>2, ConcatProperties
    <3>2. kept[n] = kept[n - 1] \o add(n)
      BY <1>7
    <3>3. kept[n] \in Seq(Nat) /\ n \in 0 .. m
      BY <1>1, <3>1, <3>2
    <3> QED
      BY <3>3
  <2>3. \A n \in 0 .. m : n \in T
    <3> HIDE DEF T
    <3> QED
      BY <1>1, <2>1, <2>2, UpTo
  <2> QED
    BY <1>5, <2>3
<1> QED
  BY <1>7, <1>8 DEF kept, m, add, none

\* It does not depend on what is dropped later.
LEMMA KeptSame ==
    ASSUME NEW items \in Seq(Item), NEW D, NEW E, NEW m \in 0 .. Len(items),
           \A k \in 1 .. m : k \in D <=> k \in E
    PROVE  \A n \in 0 .. m : Kept(items, D)[n] = Kept(items, E)[n]
<1> DEFINE T == {n \in 0 .. m : Kept(items, D)[n] = Kept(items, E)[n]}
<1>1. Len(items) \in Nat /\ m \in Nat /\ m <= Len(items)
  BY LenProperties
<1>2. 0 \in T
  <2>1. Kept(items, D)[0] = <<>>
    BY KeptIs
  <2>2. Kept(items, E)[0] = <<>>
    BY KeptIs
  <2> QED
    BY <1>1, <2>1, <2>2
<1>3. ASSUME NEW n \in 1 .. m, n - 1 \in T PROVE n \in T
  <2>1. n \in 1 .. Len(items)
    BY <1>1
  <2>2. Kept(items, D)[n] = Kept(items, D)[n - 1] \o IF n \in D THEN <<>> ELSE Reads(items[n])
    BY <2>1, KeptIs
  <2>3. Kept(items, E)[n] = Kept(items, E)[n - 1] \o IF n \in E THEN <<>> ELSE Reads(items[n])
    BY <2>1, KeptIs
  <2>4. Kept(items, D)[n - 1] = Kept(items, E)[n - 1] /\ (n \in D <=> n \in E)
    BY <1>3
  <2>5. (IF n \in D THEN <<>> ELSE Reads(items[n])) = IF n \in E THEN <<>> ELSE Reads(items[n])
    BY <2>4
  <2>6. Kept(items, D)[n] = Kept(items, E)[n]
    BY <2>2, <2>3, <2>4, <2>5, Zenon
  <2>7. n \in 0 .. m
    BY <1>1
  <2> QED
    BY <2>6, <2>7
<1>4. \A n \in 0 .. m : n \in T
  <2> HIDE DEF T
  <2> QED
    BY <1>1, <1>2, <1>3, UpTo
<1> QED
  BY <1>4

\* A line being written; the first n of its items are in it or were dropped.
LogLine == [time : Nat, stream : [text : Seq(Nat), top : Nat], items : Nat, dropped : SUBSET Nat]

NoRoom(items, D, k) ==
    Reads(items[k]) # <<>> => SmallBuffer - Len(Kept(items, D)[k - 1]) <= Needs(items[k])

Holds(l, items, n) ==
    /\ l \in LogLine /\ Fits(l.stream)
    /\ l.items = n /\ n \in 0 .. Len(items)
    /\ l.dropped \subseteq 1 .. n
    /\ l.stream.text = Kept(items, l.dropped)[n]
    /\ \A k \in l.dropped : NoRoom(items, l.dropped, k)

LEMMA WriteType ==
    ASSUME NEW l \in LogLine, Fits(l.stream), NEW item \in Item
    PROVE  /\ Write(l, item) \in LogLine /\ Fits(Write(l, item).stream)
           /\ Write(l, item).time = l.time
           /\ Write(l, item).stream = Put(l.stream, item)
           /\ Write(l, item).items = l.items + 1
           /\ Write(l, item).dropped = IF Put(l.stream, item).text = l.stream.text
                                       THEN l.dropped \cup {l.items + 1} ELSE l.dropped
<1> DEFINE s == Put(l.stream, item)
<1>1. Fits(s)
  BY PutRight
<1>2. s \in [text : Seq(Nat), top : Nat]
  BY <1>1 DEF Fits
<1> DEFINE E == IF s.text = l.stream.text THEN l.dropped \cup {l.items + 1} ELSE l.dropped
<1>3. Write(l, item) = [l EXCEPT !.stream = s, !.items = @ + 1, !.dropped = E]
  BY DEF Write
<1>4. E \in SUBSET Nat
  BY DEF LogLine
<1> HIDE DEF s, E
<1>5. Write(l, item) = [time |-> l.time, stream |-> s, items |-> l.items + 1, dropped |-> E]
  BY <1>3 DEF LogLine
<1>6. l.time \in Nat /\ l.items \in Nat
  BY DEF LogLine
<1>7. /\ Write(l, item).time = l.time
      /\ Write(l, item).stream = s
      /\ Write(l, item).items = l.items + 1
      /\ Write(l, item).dropped = E
      /\ Write(l, item) \in LogLine
  BY <1>2, <1>4, <1>5, <1>6 DEF LogLine
<1> QED
  BY <1>1, <1>7 DEF s, E

LEMMA WriteKeeps ==
    ASSUME NEW items \in Seq(Item), NEW n \in Nat, n < Len(items), NEW l, Holds(l, items, n)
    PROVE  Holds(Write(l, items[n + 1]), items, n + 1)
<1> DEFINE item == items[n + 1]
           b == l.stream
           z == Write(l, item)
           D == l.dropped
           E == z.dropped
<1>1. Len(items) \in Nat /\ n + 1 \in 1 .. Len(items) /\ n \in 0 .. Len(items)
  BY LenProperties
<1>2. item \in Item
  BY <1>1, ElementOfSeq
<1>3. l \in LogLine /\ Fits(b) /\ l.items = n /\ D \subseteq 1 .. n /\ b.text = Kept(items, D)[n]
      /\ \A k \in D : NoRoom(items, D, k)
  BY DEF Holds
<1>4. /\ z \in LogLine /\ Fits(z.stream) /\ z.stream = Put(b, item) /\ z.items = n + 1
      /\ E = IF Put(b, item).text = b.text THEN D \cup {n + 1} ELSE D
  BY <1>2, <1>3, WriteType
<1>5. /\ Reads(item) \in Seq(Nat)
      /\ \/ Put(b, item).text = b.text \o Reads(item)
         \/ Put(b, item).text = b.text /\ SmallBuffer - Len(b.text) <= Needs(item)
  BY <1>2, <1>3, PutRight
<1>6. b.text \in Seq(Nat)
  BY <1>3 DEF Fits
<1> HIDE DEF item, b, z, D, E
<1>7. E \subseteq 1 .. n + 1 /\ \A k \in 1 .. n : k \in D <=> k \in E
  BY <1>3, <1>4
<1>8. \A k \in 0 .. n : Kept(items, D)[k] = Kept(items, E)[k]
  BY <1>1, <1>7, KeptSame
<1>9. Kept(items, E)[n] = b.text
  BY <1>1, <1>3, <1>8
<1>10. Kept(items, E)[n + 1] = b.text \o IF n + 1 \in E THEN <<>> ELSE Reads(item)
  <2>1. (n + 1) - 1 = n
    OBVIOUS
  <2>3. \A k \in 1 .. Len(items) : Kept(items, E)[k] = Kept(items, E)[k - 1]
                                \o IF k \in E THEN <<>> ELSE Reads(items[k])
    BY KeptIs
  <2>2. Kept(items, E)[n + 1] = Kept(items, E)[(n + 1) - 1]
                                \o IF n + 1 \in E THEN <<>> ELSE Reads(items[n + 1])
    BY <1>1, <2>3
  <2> QED
    BY <1>9, <2>1, <2>2 DEF item
<1>11. b.text \o <<>> = b.text
  BY <1>6, ConcatEmptySeq
<1>12. z.stream.text = Kept(items, E)[n + 1]
  <2>1. n + 1 \notin D
    BY <1>3
  <2>2. CASE Put(b, item).text = b.text
    BY <1>4, <1>10, <1>11, <2>2
  <2>3. CASE Put(b, item).text # b.text
    BY <1>4, <1>5, <1>10, <2>1, <2>3
  <2> QED
    BY <2>2, <2>3
<1>13. ASSUME NEW k \in E PROVE NoRoom(items, E, k)
  <2>1. CASE k \in D
    <3>1. k - 1 \in 0 .. n
      BY <1>3, <2>1
    <3>2. Kept(items, D)[k - 1] = Kept(items, E)[k - 1]
      BY <1>8, <3>1
    <3>3. NoRoom(items, D, k)
      BY <1>3, <2>1
    <3> QED
      BY <3>2, <3>3 DEF NoRoom
  <2>2. CASE k \notin D
    <3>1. k = n + 1 /\ Put(b, item).text = b.text
      BY <1>4, <1>13, <2>2
    <3>2. Reads(item) # <<>> => b.text \o Reads(item) # b.text
      BY <1>5, <1>6, ConcatEqualIffEmpty
    <3>3. Reads(item) # <<>> => SmallBuffer - Len(b.text) <= Needs(item)
      BY <1>5, <3>1, <3>2
    <3>4. (n + 1) - 1 = n
      OBVIOUS
    <3> QED
      BY <1>9, <3>1, <3>3, <3>4 DEF NoRoom, item
  <2> QED
    BY <2>1, <2>2
<1>14. n + 1 \in 0 .. Len(items)
  BY <1>1
<1>15. Holds(z, items, n + 1)
  BY <1>4, <1>7, <1>12, <1>13, <1>14 DEF Holds, E
<1> QED
  BY <1>15 DEF z, item

\* The constructors put the first items into the line, the destructor the last.
LEMMA WriteAllKeeps ==
    ASSUME NEW items \in Seq(Item), NEW n \in Nat, NEW l, Holds(l, items, n),
           NEW more \in Seq(Item), n + Len(more) <= Len(items),
           \A k \in 1 .. Len(more) : more[k] = items[n + k]
    PROVE  /\ Holds(WriteAll(l, more), items, n + Len(more))
           /\ WriteAll(l, more).time = l.time
<1> DEFINE m == Len(more)
           X == {z \in LogLine : Fits(z.stream)}
           step == [k \in 1 .. m |-> [z \in X |-> Write(z, more[k])]]
<1>1. m \in Nat /\ l \in X /\ \A k \in 1 .. m : more[k] \in Item
  BY LenProperties, ElementOfSeq DEF Holds
<1> HIDE DEF m
<1>2. step \in [1 .. m -> [X -> X]]
  <2>1. ASSUME NEW k \in 1 .. m, NEW z \in X PROVE Write(z, more[k]) \in X
    <3>1. more[k] \in Item
      BY <1>1
    <3>2. Write(z, more[k]) \in LogLine /\ Fits(Write(z, more[k]).stream)
      BY <3>1, WriteType
    <3> QED
      BY <3>2
  <2> HIDE DEF X
  <2> QED
    BY <2>1
<1>3. PICK f \in [0 .. m -> X] : Unfolds(f, m, l, step)
  <2> HIDE DEF step, X
  <2> QED
    BY <1>1, <1>2, Primitive
<1>4. \A k \in 1 .. m : f[k - 1] \in X /\ f[k] = Write(f[k - 1], more[k])
  <2> HIDE DEF X
  <2>1. ASSUME NEW k \in 1 .. m PROVE f[k - 1] \in X
    BY <1>1
  <2>2. ASSUME NEW k \in 1 .. m PROVE f[k] = step[k][f[k - 1]]
    BY <1>3 DEF Unfolds
  <2> QED
    BY <2>1, <2>2
<1>5. f[0] = l
  BY <1>3 DEF Unfolds
<1> DEFINE g == CHOOSE h : h = [k \in 0 .. m |-> IF k = 0 THEN l ELSE Write(h[k - 1], more[k])]
<1>6. g = [k \in 0 .. m |-> IF k = 0 THEN l ELSE Write(g[k - 1], more[k])]
  <2>1. f = [k \in 0 .. m |-> IF k = 0 THEN l ELSE Write(f[k - 1], more[k])]
    <3> HIDE DEF step, X
    <3>1. \A k \in 0 .. m : k # 0 => k \in 1 .. m
      BY <1>1
    <3> QED
      BY <1>4, <1>5, <3>1
  <2> QED
    BY <2>1, Zenon
<1>7. WriteAll(l, more) = g[m]
  BY DEF WriteAll, m
<1> HIDE DEF g
<1>8. g[0] = l /\ \A k \in 1 .. m : g[k] = Write(g[k - 1], more[k])
  <2>1. \A k \in 0 .. m : g[k] = IF k = 0 THEN l ELSE Write(g[k - 1], more[k])
    BY <1>6
  <2>2. 0 \in 0 .. m /\ \A k \in 1 .. m : k \in 0 .. m /\ k # 0
    BY <1>1
  <2> QED
    BY <2>1, <2>2
<1> DEFINE T == {k \in 0 .. m : Holds(g[k], items, n + k) /\ g[k].time = l.time}
<1>9. 0 \in T
  <2>1. n + 0 = n
    OBVIOUS
  <2> QED
    BY <1>1, <1>8, <2>1
<1>10. ASSUME NEW k \in 1 .. m, k - 1 \in T PROVE k \in T
  <2> DEFINE z == g[k - 1]
             w == n + (k - 1)
  <2>1. Holds(z, items, w) /\ z.time = l.time
    BY <1>10
  <2>2. w \in Nat /\ w < Len(items) /\ w + 1 = n + k /\ Len(items) \in Nat
    BY <1>1, LenProperties DEF m
  <2>3. more[k] = items[w + 1] /\ more[k] \in Item
    BY <1>1, <2>2 DEF m
  <2>4. g[k] = Write(z, items[w + 1])
    BY <1>8, <2>3
  <2> HIDE DEF z, w
  <2>5. Holds(Write(z, items[w + 1]), items, w + 1)
    BY <2>1, <2>2, WriteKeeps
  <2>6. Write(z, items[w + 1]).time = z.time
    <3>1. z \in LogLine /\ Fits(z.stream)
      BY <2>1 DEF Holds
    <3> QED
      BY <2>3, <3>1, WriteType
  <2>7. Holds(g[k], items, n + k) /\ g[k].time = l.time
    BY <2>1, <2>2, <2>4, <2>5, <2>6
  <2>8. k \in 0 .. m
    BY <1>1
  <2> QED
    BY <2>7, <2>8
<1>11. m \in T
  <2>1. \A k \in 0 .. m : k \in T
    <3> HIDE DEF T
    <3> QED
      BY <1>1, <1>9, <1>10, UpTo
  <2> QED
    BY <1>1, <2>1
<1> QED
  BY <1>7, <1>11 DEF m

----------------------------------------------------------------------------
(* What a line is made of                                                  *)

\* A set of naturals up to q that is not empty has a greatest element.
LEMMA Greatest ==
    ASSUME NEW q \in Nat, NEW S \in SUBSET (1 .. q), S # {}
    PROVE  Max(S) \in S /\ \A y \in S : y <= Max(S)
<1> DEFINE R == {q - i : i \in S}
<1>1. \A y \in S : y \in 1 .. q
  OBVIOUS
<1>2. \A y \in S : y \in Int /\ q - y \in Nat
  BY <1>1
<1>3. R \in SUBSET Nat /\ R # {}
  BY <1>2
<1>4. PICK r \in R : \A y \in R : r <= y
  <2> HIDE DEF R
  <2> QED
    BY <1>3, LeastNatural
<1>5. PICK x \in S : r = q - x
  BY <1>4
<1>6. ASSUME NEW y \in S PROVE x >= y
  <2>1. r <= q - y
    BY <1>4
  <2> QED
    BY <1>5, <1>2, <2>1
<1>7. \E z \in S : \A y \in S : z >= y
  BY <1>6
<1>8. Max(S) \in S /\ \A y \in S : Max(S) >= y
  BY <1>7, Zenon DEF Max
<1>9. Max(S) \in Int /\ \A y \in S : y \in Int
  BY <1>2, <1>8
<1> QED
  BY <1>8, <1>9

\* The name of a source file is the last component of its path.
LEMMA BaseNameRight ==
    ASSUME NEW path \in Seq(Nat)
    PROVE  BaseName(path) \in Seq(Nat) /\ IsBaseName(BaseName(path), path)
<1> DEFINE q == Len(path)
           I == {i \in 1 .. q : path[i] = Slash}
           slash == IF I # {} THEN Max(I) ELSE 0
           base == BaseName(path)
<1>1. q \in Nat /\ Slash \in Nat /\ \A i \in 1 .. q : path[i] \in Nat
  BY LenProperties, ElementOfSeq DEF Slash
<1>2. base = SubSeq(path, slash + 1, q)
  BY DEF BaseName, SelectLastInSeq
<1>3. /\ slash \in 0 .. q
      /\ slash > 0 => path[slash] = Slash
      /\ \A i \in slash + 1 .. q : path[i] # Slash
  <2>1. CASE I # {}
    <3>1. slash \in I /\ \A y \in I : y <= slash
      <4>1. I \in SUBSET (1 .. q)
        OBVIOUS
      <4>2. slash = Max(I)
        BY <2>1
      <4> HIDE DEF I, slash, q
      <4> QED
        BY <1>1, <2>1, <4>1, <4>2, Greatest
    <3> HIDE DEF slash, q
    <3>2. slash \in 1 .. q /\ path[slash] = Slash
      BY <3>1
    <3>3. ASSUME NEW i \in slash + 1 .. q, path[i] = Slash PROVE FALSE
      <4>1. i \in I
        BY <1>1, <3>2, <3>3
      <4>2. i <= slash
        BY <3>1, <4>1
      <4> QED
        BY <3>2, <4>2
    <3> QED
      BY <3>2, <3>3
  <2>2. CASE I = {}
    BY <1>1, <2>2
  <2> QED
    BY <2>1, <2>2
<1> HIDE DEF q, slash, base
<1>4. /\ base \in Seq(Nat) /\ Len(base) = q - slash
      /\ \A i \in 1 .. q - slash : base[i] = path[slash + i]
  <2>1. slash + 1 \in Int /\ q \in Int /\ \A i \in slash + 1 .. q : path[i] \in Nat
    BY <1>1, <1>3
  <2>2. /\ SubSeq(path, slash + 1, q) \in Seq(Nat)
        /\ Len(SubSeq(path, slash + 1, q)) = IF slash + 1 <= q THEN q - (slash + 1) + 1 ELSE 0
        /\ \A i \in 1 .. q - (slash + 1) + 1 :
              SubSeq(path, slash + 1, q)[i] = path[(slash + 1) + i - 1]
    BY <2>1, SubSeqProperties
  <2>3. Len(base) = q - slash
    BY <1>1, <1>2, <1>3, <2>2
  <2>4. ASSUME NEW i \in 1 .. q - slash PROVE base[i] = path[slash + i]
    <3>1. i \in 1 .. q - (slash + 1) + 1 /\ (slash + 1) + i - 1 = slash + i
      BY <1>1, <1>3
    <3> QED
      BY <1>2, <2>2, <3>1
  <2> QED
    BY <1>2, <2>2, <2>3, <2>4
<1>5. ~Contains(base, Slash)
  <2>1. ASSUME NEW i \in 1 .. Len(base), base[i] = Slash PROVE FALSE
    <3>1. i \in 1 .. q - slash /\ slash + i \in slash + 1 .. q
      BY <1>1, <1>3, <1>4
    <3> QED
      BY <1>3, <1>4, <2>1, <3>1
  <2> QED
    BY <2>1 DEF Contains
<1>6. CASE slash = 0
  <2>1. base = path
    BY <1>2, <1>6, SubSeqFull DEF q
  <2> QED
    BY <1>4, <1>5, <2>1 DEF IsBaseName, base
<1>7. CASE slash > 0
  <2> DEFINE u == <<Slash>> \o base
             n == q - slash + 1
             r == Reverse(u)
             p == Reverse(path)
  <2>1. <<Slash>> \in Seq(Nat) /\ Len(<<Slash>>) = 1 /\ <<Slash>>[1] = Slash
    BY <1>1
  <2>2. /\ u \in Seq(Nat) /\ Len(u) = Len(<<Slash>>) + Len(base)
        /\ \A i \in 1 .. Len(<<Slash>>) + Len(base) :
              u[i] = IF i <= Len(<<Slash>>) THEN <<Slash>>[i] ELSE base[i - Len(<<Slash>>)]
    BY <1>4, <2>1, ConcatProperties
  <2>3. n \in Nat /\ n <= q /\ Len(u) = n
    BY <1>1, <1>3, <1>4, <1>7, <2>1, <2>2
  <2>4. ASSUME NEW i \in 1 .. n PROVE u[i] = path[slash - 1 + i]
    <3>1. CASE i = 1
      <4>1. slash - 1 + i = slash /\ i \in 1 .. Len(<<Slash>>) + Len(base)
        BY <1>3, <2>1, <2>2, <2>3, <3>1
      <4>2. u[i] = <<Slash>>[1]
        <5> HIDE DEF u, n
        <5> QED
          BY <2>1, <2>2, <3>1, <4>1
      <4> QED
        BY <1>3, <1>7, <2>1, <4>1, <4>2
    <3>2. CASE i # 1
      <4>1. /\ i - 1 \in 1 .. q - slash /\ slash + (i - 1) = slash - 1 + i
            /\ i \in 1 .. Len(<<Slash>>) + Len(base) /\ ~(i <= Len(<<Slash>>))
            /\ i - Len(<<Slash>>) = i - 1
        BY <1>1, <1>3, <2>1, <2>2, <2>3, <3>2
      <4>2. u[i] = base[i - 1]
        <5> HIDE DEF u, n
        <5> QED
          BY <2>2, <4>1
      <4> QED
        BY <1>4, <4>1, <4>2
    <3> QED
      BY <3>1, <3>2
  <2> HIDE DEF u, n
  <2>5. /\ r = [i \in 1 .. n |-> u[(n - i) + 1]]
        /\ p = [i \in 1 .. q |-> path[(q - i) + 1]]
    BY <2>3 DEF Reverse, q
  <2>6. r \in Seq(Nat) /\ Len(r) = n
    <3>1. \A i \in 1 .. n : u[(n - i) + 1] \in Nat
      <4>1. \A i \in 1 .. n : (n - i) + 1 \in 1 .. Len(u)
        BY <2>3
      <4> QED
        BY <2>2, <4>1, ElementOfSeq
    <3> QED
      BY <2>3, <2>5, <3>1
  <2>7. p \in Seq(Nat) /\ Len(p) = q
    <3>1. \A i \in 1 .. q : path[(q - i) + 1] \in Nat
      <4>1. \A i \in 1 .. q : (q - i) + 1 \in 1 .. q
        BY <1>1
      <4> QED
        BY <1>1, <4>1
    <3> QED
      BY <1>1, <2>5, <3>1
  <2>8. ASSUME NEW i \in 1 .. n PROVE r[i] = p[i]
    <3>1. /\ i \in 1 .. q /\ (n - i) + 1 \in 1 .. n
          /\ slash - 1 + ((n - i) + 1) = (q - i) + 1
      BY <1>1, <1>3, <2>3 DEF n
    <3>2. r[i] = u[(n - i) + 1] /\ p[i] = path[(q - i) + 1]
      BY <2>5, <3>1
    <3> QED
      BY <2>4, <3>1, <3>2
  <2> HIDE DEF r, p
  <2>9. SubSeq(r, 1, n) = r
    BY <2>6, SubSeqFull
  <2>10. SubSeq(p, 1, n) = r
    <3>1. \A i \in 1 .. n : p[i] \in Nat
      BY <2>3, <2>7, ElementOfSeq
    <3>2. /\ SubSeq(p, 1, n) \in Seq(Nat)
          /\ Len(SubSeq(p, 1, n)) = IF 1 <= n THEN n - 1 + 1 ELSE 0
          /\ \A i \in 1 .. n - 1 + 1 : SubSeq(p, 1, n)[i] = p[1 + i - 1]
      BY <2>3, <3>1, SubSeqProperties
    <3>3. Len(SubSeq(p, 1, n)) = n
      BY <2>3, <3>2
    <3>4. ASSUME NEW i \in 1 .. n PROVE SubSeq(p, 1, n)[i] = r[i]
      <4>1. i \in 1 .. n - 1 + 1 /\ 1 + i - 1 = i
        BY <2>3
      <4> QED
        BY <2>8, <3>2, <4>1
    <3> QED
      BY <2>6, <3>2, <3>3, <3>4, SeqEqual
  <2>11. IsPrefix(r, p)
    BY <2>3, <2>6, <2>7, <2>9, <2>10 DEF IsPrefix
  <2>12. IsSuffix(<<Slash>> \o base, path)
    BY <2>11 DEF IsSuffix, r, p, u
  <2> QED
    BY <1>4, <1>5, <2>12 DEF IsBaseName, base
<1> QED
  BY <1>1, <1>3, <1>6, <1>7

----------------------------------------------------------------------------
(* The invariant                                                           *)

\* The items of a statement that t executes at u.
Full(t, st, u) == HeadItems(t, st, DateText[Seconds(u)], Micros(u)) \o st.items \o TailItems(st)

\* A line that was written: it is of a statement that logs, and every item is in
\* it or was dropped for want of room, as far as fwrite() took the line.
GoodLine ==
    {l \in [thread : Threads, nth : Nat, time : Times, text : Seq(Nat), dropped : SUBSET Nat,
            to : Sinks, cut : BOOLEAN] :
        /\ l.nth \in DOMAIN Program[l.thread] /\ Program[l.thread][l.nth] \in Statement
        /\ LET whole == Kept(ItemsOf(l), l.dropped)[Len(ItemsOf(l))]
           IN  l.text = IF l.cut THEN SubSeq(whole, 1, Len(l.text)) ELSE whole
        /\ l.cut => l.to \in FailingSinks
        /\ l.dropped \subseteq 1 .. Len(ItemsOf(l))
        /\ \A k \in l.dropped : NoRoom(ItemsOf(l), l.dropped, k)}

Stages == {"idle", "construct", "destroy", "output", "flush", "abort"}

LogTypeOK == /\ clock \in Times
             /\ g_logLevel \in TRACE .. FATAL /\ g_output \in Sinks /\ g_flush \in Sinks
             /\ t_lastSecond \in [Threads -> Nat] /\ t_time \in [Threads -> Seq(Nat)]
             /\ stage \in [Threads -> Stages] /\ next \in [Threads -> Nat \ {0}]
             /\ impl \in [Threads -> LogLine] /\ target \in [Threads -> Sinks]
             /\ disk \in [Sinks -> Seq(GoodLine)] /\ buffer \in [Sinks -> Seq(GoodLine)]
             /\ stuck \subseteq FailingSinks
             /\ ended \in {"no", "exit", "abort"}

\* The text kept for a thread is that of the second it was made for.
CacheRight == \A t \in Threads : t_lastSecond[t] # 0 => t_time[t] = DateText[t_lastSecond[t]]

\* A thread that is in a macro is at a statement that logs.
InStatement(t) == next[t] \in DOMAIN Program[t] /\ Here(t) \in Statement

\* Its line has the first items it should have: all but those of finish(), or all.
StageOf(t) ==
    LET items == Full(t, Here(t), impl[t].time)
    IN  /\ Fits(impl[t].stream)
        /\ stage[t] # "idle" => InStatement(t)
        /\ stage[t] = "destroy" =>
              impl[t].time \in Times /\ Holds(impl[t], items, Len(items) - 5)
        /\ stage[t] \in {"output", "flush", "abort"} =>
              impl[t].time \in Times /\ Holds(impl[t], items, Len(items))

StageRight == \A t \in Threads : StageOf(t)

\* The lines of a thread are those of statements it is past, or of the FATAL one
\* it is in.
Past(l) == \/ l.nth < next[l.thread]
           \/ l.nth = next[l.thread] /\ stage[l.thread] \in {"flush", "abort"}

AllPast == \A s \in Sinks : \A i \in DOMAIN Written(s) : Past(Written(s)[i])

\* No line twice, and those of a thread in their order.
Ordered ==
    \A s, z \in Sinks : \A i \in DOMAIN Written(s), j \in DOMAIN Written(z) :
       Written(s)[i].thread = Written(z)[j].thread =>
           /\ Written(s)[i].nth = Written(z)[j].nth => s = z /\ i = j
           /\ s = z /\ i < j => Written(s)[i].nth < Written(z)[j].nth

DueWritten ==
    \A t \in Threads : \A n \in Due(t) : \E s \in Sinks : \E i \in DOMAIN Written(s) :
        Written(s)[i].thread = t /\ Written(s)[i].nth = n

\* The flush hook left nothing of the FATAL line in its stream, if the system let it.
Flushed ==
    \A t \in Threads : stage[t] = "abort" /\ target[t] \notin stuck =>
        \A i \in DOMAIN buffer[target[t]] :
            ~(buffer[target[t]][i].thread = t /\ buffer[target[t]][i].nth = next[t])

AllOut == ended = "exit" => \A s \in Sinks \ stuck : buffer[s] = <<>>

\* What each line says, and which lines there are.
LineInv == LogTypeOK /\ CacheRight /\ StageRight
KeepInv == AllPast /\ Ordered /\ DueWritten /\ Flushed /\ AllOut

LogInv == LineInv /\ KeepInv
LEMMA ItemTypes ==
    /\ \A chars \in Seq(Nat) : Text(chars) \in Item /\ <<Text(chars)>> \in Seq(Item)
    /\ \A n \in Ints : Integer(n) \in Item /\ <<Integer(n)>> \in Seq(Item)
<1>1. ASSUME NEW chars \in Seq(Nat) PROVE Text(chars) \in Item
  BY DEF Text, Item
<1>2. ASSUME NEW n \in Ints PROVE Integer(n) \in Item
  BY DEF Integer, Item
<1> QED
  BY <1>1, <1>2

\* Every macro has a level and its flags.
LEMMA MacroType ==
    ASSUME NEW op \in DOMAIN Macro
    PROVE  /\ Macro[op].level \in 0 .. 5
           /\ Macro[op].tests \in BOOLEAN /\ Macro[op].func \in BOOLEAN /\ Macro[op].sys \in BOOLEAN
           /\ op \notin Setters
<1>1. op \in {"LOG_TRACE", "LOG_DEBUG", "LOG_INFO", "LOG_WARN", "LOG_ERROR", "LOG_FATAL",
              "LOG_SYSERR", "LOG_SYSFATAL", "CHECK_NOTNULL"}
  BY DEF Macro
<1> DEFINE MacroSet == [level : 0 .. 5, tests : BOOLEAN, func : BOOLEAN, sys : BOOLEAN]
<1>2. ASSUME NEW level \in 0 .. 5, NEW tests \in BOOLEAN, NEW func \in BOOLEAN, NEW sys \in BOOLEAN
      PROVE  M(level, tests, func, sys) \in MacroSet
  BY DEF M
<1>3. /\ TRACE \in 0 .. 5 /\ DEBUG \in 0 .. 5 /\ INFO \in 0 .. 5
      /\ WARN \in 0 .. 5 /\ ERROR \in 0 .. 5 /\ FATAL \in 0 .. 5
  BY DEF TRACE, DEBUG, INFO, WARN, ERROR, FATAL
<1> HIDE DEF MacroSet
<1>4. Macro["LOG_TRACE"] \in MacroSet
  <2>1. Macro["LOG_TRACE"] = M(TRACE, TRUE, TRUE, FALSE)
    BY DEF Macro
  <2> QED
    BY <1>2, <1>3, <2>1
<1>5. Macro["LOG_DEBUG"] \in MacroSet
  <2>1. Macro["LOG_DEBUG"] = M(DEBUG, TRUE, TRUE, FALSE)
    BY DEF Macro
  <2> QED
    BY <1>2, <1>3, <2>1
<1>6. Macro["LOG_INFO"] \in MacroSet
  <2>1. Macro["LOG_INFO"] = M(INFO, TRUE, FALSE, FALSE)
    BY DEF Macro
  <2> QED
    BY <1>2, <1>3, <2>1
<1>7. Macro["LOG_WARN"] \in MacroSet
  <2>1. Macro["LOG_WARN"] = M(WARN, FALSE, FALSE, FALSE)
    BY DEF Macro
  <2> QED
    BY <1>2, <1>3, <2>1
<1>8. Macro["LOG_ERROR"] \in MacroSet
  <2>1. Macro["LOG_ERROR"] = M(ERROR, FALSE, FALSE, FALSE)
    BY DEF Macro
  <2> QED
    BY <1>2, <1>3, <2>1
<1>9. Macro["LOG_FATAL"] \in MacroSet
  <2>1. Macro["LOG_FATAL"] = M(FATAL, FALSE, FALSE, FALSE)
    BY DEF Macro
  <2> QED
    BY <1>2, <1>3, <2>1
<1>10. Macro["LOG_SYSERR"] \in MacroSet
  <2>1. Macro["LOG_SYSERR"] = M(ERROR, FALSE, FALSE, TRUE)
    BY DEF Macro
  <2> QED
    BY <1>2, <1>3, <2>1
<1>11. Macro["LOG_SYSFATAL"] \in MacroSet
  <2>1. Macro["LOG_SYSFATAL"] = M(FATAL, FALSE, FALSE, TRUE)
    BY DEF Macro
  <2> QED
    BY <1>2, <1>3, <2>1
<1>12. Macro["CHECK_NOTNULL"] \in MacroSet
  <2>1. Macro["CHECK_NOTNULL"] = M(FATAL, FALSE, FALSE, FALSE)
    BY DEF Macro
  <2> QED
    BY <1>2, <1>3, <2>1
<1>13. Macro[op] \in MacroSet
  BY <1>1, <1>4, <1>5, <1>6, <1>7, <1>8, <1>9, <1>10, <1>11, <1>12
<1>14. op \notin Setters
  BY <1>1 DEF Setters
<1> QED
  BY <1>13, <1>14 DEF MacroSet

\* What a thread is at is a statement that logs, or one that sets a global.
LEMMA HereType ==
    ASSUME NEW t \in Threads, NEW n \in DOMAIN Program[t]
    PROVE  /\ Program[t] \in Seq(Statement \cup Setting) /\ n \in 1 .. Len(Program[t])
           /\ Program[t][n].op \notin Setters => Program[t][n] \in Statement
           /\ Program[t][n].op = "setLogLevel" => Program[t][n].to \in TRACE .. FATAL
           /\ Program[t][n].op \in {"setOutput", "setFlush"} => Program[t][n].to \in Sinks
<1>1. Program[t] \in Seq(Statement \cup Setting)
  BY ProgramAssumption
<1>2. n \in 1 .. Len(Program[t]) /\ Program[t][n] \in Statement \cup Setting
  BY <1>1, LenProperties, ElementOfSeq
<1>3. CASE Program[t][n] \in Statement
  <2>1. Program[t][n].op \in DOMAIN Macro
    BY <1>3 DEF Statement
  <2>2. Program[t][n].op \notin Setters
    BY <2>1, MacroType
  <2> QED
    BY <1>1, <1>2, <1>3, <2>2 DEF Setters
<1>4. CASE Program[t][n] \in Setting
  <2>1. /\ Program[t][n].op \in Setters
        /\ Program[t][n].op = "setLogLevel" => Program[t][n].to \in TRACE .. FATAL
        /\ Program[t][n].op \in {"setOutput", "setFlush"} => Program[t][n].to \in Sinks
    BY <1>4 DEF Setting, Setters
  <2> QED
    BY <1>1, <1>2, <2>1
<1> QED
  BY <1>2, <1>3, <1>4

\* What the constructors put, for a date and a time that were formatted.
LEMMA HeadType ==
    ASSUME NEW t \in Threads, NEW st \in Statement, NEW date \in Seq(Nat),
           NEW us \in DOMAIN MicroText
    PROVE  HeadItems(t, st, date, us) \in Seq(Item)
<1> DEFINE m == Macro[st.op]
           e == IF m.sys THEN st.errno ELSE 0
           a == TimeItems(date, us)
           b == <<Text(TidText[t]), Text(LevelName(m.level))>>
           c == ErrnoItems(e)
           d == IF m.func THEN <<Text(st.func), Text(<<Space>>)>> ELSE <<>>
<1>1. /\ m.level \in 0 .. 5 /\ m.func \in BOOLEAN /\ m.sys \in BOOLEAN
      /\ st.func \in Seq(Nat) /\ st.errno \in {0} \cup DOMAIN ErrnoText
  BY MacroType DEF Statement
<1> HIDE DEF m
<1>2. a \in Seq(Item)
  <2>1. MicroText[us] \in Seq(Nat)
    BY TextsAssumption
  <2>2. Text(date) \in Item /\ Text(MicroText[us]) \in Item
    BY <2>1, ItemTypes
  <2> QED
    BY <2>2 DEF TimeItems
<1>3. b \in Seq(Item)
  <2>1. TidText[t] \in Seq(Nat) /\ LevelName(m.level) \in Seq(Nat)
    BY <1>1, TextsAssumption DEF LevelName
  <2>2. Text(TidText[t]) \in Item /\ Text(LevelName(m.level)) \in Item
    BY <2>1, ItemTypes
  <2> QED
    BY <2>2
<1>4. c \in Seq(Item)
  <2>1. CASE e = 0
    BY <2>1 DEF ErrnoItems
  <2>2. CASE e # 0
    <3>1. e \in DOMAIN ErrnoText
      BY <1>1, <2>2
    <3> HIDE DEF e
    <3>2. ErrnoText[e] \in Seq(Nat) /\ e \in Ints
      BY <3>1, TextsAssumption
    <3>3. <<LeftParen>> \in Seq(Nat) /\ <<RightParen>> \in Seq(Nat)
      BY DEF LeftParen, RightParen
    <3>4. /\ Text(ErrnoText[e]) \in Item /\ Text(<<LeftParen>>) \in Item
          /\ Integer(e) \in Item /\ Text(<<RightParen>>) \in Item
      BY <3>2, <3>3, ItemTypes
    <3> QED
      BY <2>2, <3>4 DEF ErrnoItems
  <2> QED
    BY <2>1, <2>2
<1>5. d \in Seq(Item)
  <2>1. <<Space>> \in Seq(Nat)
    BY DEF Space
  <2>2. Text(st.func) \in Item /\ Text(<<Space>>) \in Item
    BY <1>1, <2>1, ItemTypes
  <2> QED
    BY <2>2
<1>6. HeadItems(t, st, date, us) = ((a \o b) \o c) \o d
  BY DEF HeadItems, ImplItems, m
<1> HIDE DEF a, b, c, d
<1>7. a \o b \in Seq(Item)
  BY <1>2, <1>3, ConcatProperties
<1>8. (a \o b) \o c \in Seq(Item)
  BY <1>4, <1>7, ConcatProperties
<1>9. ((a \o b) \o c) \o d \in Seq(Item)
  BY <1>5, <1>8, ConcatProperties
<1> QED
  BY <1>6, <1>9

\* What finish() puts.
LEMMA TailType ==
    ASSUME NEW st \in Statement
    PROVE  /\ TailItems(st) \in Seq(Item) /\ Len(TailItems(st)) = 5
           /\ TailItems(st)[2].val = BaseName(st.file)
<1>1. st.file \in Seq(Nat) /\ st.line \in Ints
  BY DEF Statement
<1>2. /\ <<Space, Minus, Space>> \in Seq(Nat) /\ <<Colon>> \in Seq(Nat) /\ <<Newline>> \in Seq(Nat)
  BY DEF Space, Minus, Colon, Newline
<1>3. BaseName(st.file) \in Seq(Nat)
  BY <1>1, BaseNameRight
<1>4. /\ Text(<<Space, Minus, Space>>) \in Item /\ Text(BaseName(st.file)) \in Item
      /\ Text(<<Colon>>) \in Item /\ Integer(st.line) \in Item /\ Text(<<Newline>>) \in Item
  BY <1>1, <1>2, <1>3, ItemTypes
<1>5. Text(BaseName(st.file)).val = BaseName(st.file)
  BY DEF Text
<1> QED
  BY <1>4, <1>5 DEF TailItems

\* All the items of a statement, the constructors' and the statement's own before
\* those of finish().
LEMMA FullType ==
    ASSUME NEW t \in Threads, NEW st \in Statement, NEW u \in Times
    PROVE  LET front == HeadItems(t, st, DateText[Seconds(u)], Micros(u)) \o st.items
               full  == Full(t, st, u)
           IN  /\ front \in Seq(Item) /\ full \in Seq(Item)
               /\ Len(full) = Len(front) + 5
               /\ \A k \in 1 .. Len(front) : full[k] = front[k]
               /\ \A k \in 1 .. 5 : full[Len(front) + k] = TailItems(st)[k]
               /\ full[Len(full) - 3].val = BaseName(st.file)
<1> DEFINE head == HeadItems(t, st, DateText[Seconds(u)], Micros(u))
           front == head \o st.items
           tail == TailItems(st)
           full == front \o tail
<1>1. DateText[Seconds(u)] \in Seq(Nat) /\ Micros(u) \in DOMAIN MicroText
  BY TextsAssumption
<1>2. head \in Seq(Item) /\ st.items \in Seq(Item)
  BY <1>1, HeadType DEF Statement
<1>3. tail \in Seq(Item) /\ Len(tail) = 5 /\ tail[2].val = BaseName(st.file)
  BY TailType
<1>4. Full(t, st, u) = full
  BY DEF Full
<1> HIDE DEF head, tail
<1>5. front \in Seq(Item)
  BY <1>2, ConcatProperties
<1> HIDE DEF front
<1>6. /\ full \in Seq(Item) /\ Len(full) = Len(front) + Len(tail)
      /\ \A k \in 1 .. Len(front) + Len(tail) :
            full[k] = IF k <= Len(front) THEN front[k] ELSE tail[k - Len(front)]
  BY <1>3, <1>5, ConcatProperties
<1>7. Len(front) \in Nat
  BY <1>5, LenProperties
<1> HIDE DEF full
<1>8. \A k \in 1 .. Len(front) : full[k] = front[k]
  BY <1>3, <1>6, <1>7
<1>9. ASSUME NEW k \in 1 .. 5 PROVE full[Len(front) + k] = tail[k]
  <2>1. /\ Len(front) + k \in 1 .. Len(front) + Len(tail) /\ ~(Len(front) + k <= Len(front))
        /\ (Len(front) + k) - Len(front) = k
    BY <1>3, <1>7
  <2> QED
    BY <1>6, <2>1
<1>10. full[Len(full) - 3] = tail[2]
  <2>1. Len(full) - 3 = Len(front) + 2
    BY <1>3, <1>6, <1>7
  <2> QED
    BY <1>9, <2>1
<1> QED
  BY <1>3, <1>4, <1>5, <1>6, <1>8, <1>9, <1>10 DEF front, head, tail

----------------------------------------------------------------------------
(* What each line says: one lemma for each action                          *)

LEMMA StageKept ==
    ASSUME NEW t \in Threads, StageOf(t), stage'[t] = stage[t], next'[t] = next[t],
           impl'[t] = impl[t]
    PROVE  StageOf(t)'
BY DEF StageOf, InStatement, Here

\* A thread between two statements.
LEMMA StageIdle ==
    ASSUME NEW t \in Threads, StageOf(t), stage'[t] = "idle", impl'[t] = impl[t]
    PROVE  StageOf(t)'
BY DEF StageOf

LEMMA EmptyFits ==
    /\ NoLogger \in LogLine /\ Fits(NoLogger.stream)
    /\ Fits(EmptyBuffer) /\ EmptyBuffer.text = <<>>
<1>1. EmptyBuffer \in [text : Seq(Nat), top : Nat] /\ Fits(EmptyBuffer)
  BY SizesAssumption DEF EmptyBuffer, Fits
<1>2. EmptyBuffer.text = <<>>
  BY DEF EmptyBuffer
<1> QED
  BY <1>1, <1>2 DEF NoLogger, LogLine

LEMMA InitLine == LogInit => LineInv
<1> SUFFICES ASSUME LogInit PROVE LineInv
  OBVIOUS
<1>1. LogTypeOK
  <2>1. clock \in Times /\ g_logLevel \in TRACE .. FATAL /\ g_output \in Sinks /\ g_flush \in Sinks
    BY ClockAssumption, HooksAssumption DEF LogInit, TRACE, FATAL
  <2>2. t_lastSecond \in [Threads -> Nat] /\ t_time \in [Threads -> Seq(Nat)]
    BY DEF LogInit
  <2>3. stage \in [Threads -> Stages] /\ next \in [Threads -> Nat \ {0}]
    BY DEF LogInit, Stages
  <2>4. impl \in [Threads -> LogLine] /\ target \in [Threads -> Sinks]
    BY EmptyFits, HooksAssumption DEF LogInit
  <2>5. disk \in [Sinks -> Seq(GoodLine)] /\ buffer \in [Sinks -> Seq(GoodLine)]
    BY DEF LogInit
  <2>6. ended \in {"no", "exit", "abort"} /\ stuck = {}
    BY DEF LogInit
  <2> QED
    BY <2>1, <2>2, <2>3, <2>4, <2>5, <2>6 DEF LogTypeOK
<1>2. CacheRight
  BY DEF LogInit, CacheRight
<1>3. ASSUME NEW t \in Threads PROVE StageOf(t)
  <2>1. stage[t] = "idle" /\ impl[t] = NoLogger
    BY DEF LogInit
  <2>2. Fits(impl[t].stream)
    BY <2>1, EmptyFits
  <2>3. stage[t] # "destroy" /\ stage[t] \notin {"output", "flush", "abort"}
    BY <2>1
  <2> QED
    BY <2>1, <2>2, <2>3, Zenon DEF StageOf
<1> QED
  BY <1>1, <1>2, <1>3 DEF LineInv, StageRight

\* A statement that is skipped, or sets a global.
LEMMA PassLine ==
    ASSUME LineInv, NEW t \in Threads, stage[t] = "idle",
           next' = [next EXCEPT ![t] = @ + 1],
           g_logLevel' \in TRACE .. FATAL, g_output' \in Sinks, g_flush' \in Sinks,
           clock' = clock, t_lastSecond' = t_lastSecond, t_time' = t_time, stage' = stage,
           impl' = impl, target' = target, disk' = disk, buffer' = buffer, stuck' = stuck,
           ended' = ended
    PROVE  LineInv'
<1>1. LogTypeOK /\ CacheRight /\ StageRight
  BY DEF LineInv
<1>2. next' \in [Threads -> Nat \ {0}]
  <2>1. next \in [Threads -> Nat \ {0}]
    BY <1>1 DEF LogTypeOK
  <2>2. next[t] \in Nat \ {0}
    BY <2>1
  <2>3. next[t] + 1 \in Nat \ {0}
    BY <2>2
  <2> QED
    BY <2>1, <2>3
<1>3. LogTypeOK' /\ CacheRight'
  BY <1>1, <1>2 DEF LogTypeOK, CacheRight
<1>4. ASSUME NEW z \in Threads PROVE StageOf(z)'
  <2>1. StageOf(z)
    BY <1>1 DEF StageRight
  <2>2. CASE z = t
    BY <2>1, <2>2, StageIdle
  <2>3. CASE z # t
    <3>1. next'[z] = next[z]
      BY <1>1, <2>3 DEF LogTypeOK
    <3> QED
      BY <2>1, <3>1, StageKept
  <2> QED
    BY <2>2, <2>3
<1> QED
  BY <1>3, <1>4 DEF LineInv, StageRight

\* The statement a thread is at, if it is one that logs.
LEMMA AtStatement ==
    ASSUME LogTypeOK, NEW t \in Threads, Logs(t)
    PROVE  InStatement(t)
BY HereType DEF Logs, Busy, Here, InStatement

LEMMA BeginLine ==
    ASSUME LineInv, NEW t \in Threads, Begin(t) PROVE LineInv'
<1>1. LogTypeOK /\ CacheRight /\ StageRight
  BY DEF LineInv
<1>2. /\ clock' = clock /\ g_logLevel' = g_logLevel /\ g_output' = g_output /\ g_flush' = g_flush
      /\ t_lastSecond' = t_lastSecond /\ t_time' = t_time /\ next' = next /\ impl' = impl
      /\ target' = target /\ disk' = disk /\ buffer' = buffer /\ stuck' = stuck /\ ended' = ended
      /\ stage' = [stage EXCEPT ![t] = "construct"] /\ Logs(t)
  BY DEF Begin, Goto, hookVars, cacheVars, sinkVars
<1>3. stage' \in [Threads -> Stages]
  BY <1>1, <1>2 DEF LogTypeOK, Stages
<1>4. LogTypeOK' /\ CacheRight'
  BY <1>1, <1>2, <1>3 DEF LogTypeOK, CacheRight
<1>5. ASSUME NEW z \in Threads PROVE StageOf(z)'
  <2>1. StageOf(z)
    BY <1>1 DEF StageRight
  <2>2. CASE z = t
    <3>1. InStatement(t)
      BY <1>1, <1>2, AtStatement
    <3>2. stage'[t] = "construct" /\ InStatement(t)'
      BY <1>1, <1>2, <3>1 DEF LogTypeOK, InStatement, Here
    <3> QED
      BY <1>2, <2>1, <2>2, <3>2 DEF StageOf
  <2>3. CASE z # t
    <3>1. stage'[z] = stage[z]
      BY <1>1, <1>2, <2>3 DEF LogTypeOK
    <3> QED
      BY <1>2, <2>1, <3>1, StageKept
  <2> QED
    BY <2>2, <2>3
<1> QED
  BY <1>4, <1>5 DEF LineInv, StageRight

\* formatTime() leaves the text of the second of the clock, whatever was there.
LEMMA FormatTimeRight ==
    ASSUME LogTypeOK, CacheRight, NEW t \in Threads, FormatTime(t)
    PROVE  /\ t_lastSecond' \in [Threads -> Nat] /\ t_time' \in [Threads -> Seq(Nat)]
           /\ CacheRight'
           /\ t_time'[t] = DateText[Seconds(clock)]
<1>1. clock \in Times /\ t_lastSecond \in [Threads -> Nat] /\ t_time \in [Threads -> Seq(Nat)]
  BY DEF LogTypeOK
<1> DEFINE sec == Seconds(clock)
<1>2. sec \in Nat /\ sec # 0
  <2>1. clock \in Int /\ MicroPerSecond \in Int /\ MicroPerSecond > 0 /\ clock >= MicroPerSecond
    BY <1>1, ClockAssumption
  <2>2. PICK x \in Int, y \in Int :
            x = clock \div MicroPerSecond /\ y < MicroPerSecond /\ clock = MicroPerSecond * x + y
    BY <2>1, DivMod
  <2>3. x <= 0 => MicroPerSecond * x <= 0
    BY <2>1
  <2>4. x >= 1
    BY <2>1, <2>2, <2>3
  <2> QED
    BY <2>2, <2>4 DEF Seconds
<1>3. DateText[sec] \in Seq(Nat)
  BY <1>1, TextsAssumption
<1>4. CASE sec # t_lastSecond[t]
  <2>1. /\ t_lastSecond' = [t_lastSecond EXCEPT ![t] = sec]
        /\ t_time' = [t_time EXCEPT ![t] = DateText[sec]]
    BY <1>4 DEF FormatTime
  <2> HIDE DEF sec
  <2> QED
    BY <1>1, <1>2, <1>3, <2>1 DEF CacheRight, sec
<1>5. CASE sec = t_lastSecond[t]
  <2>1. t_lastSecond' = t_lastSecond /\ t_time' = t_time
    BY <1>5 DEF FormatTime, cacheVars
  <2> QED
    BY <1>1, <1>2, <1>5, <2>1 DEF CacheRight
<1> QED
  BY <1>4, <1>5

LEMMA ConstructLine ==
    ASSUME LineInv, NEW t \in Threads, Construct(t) PROVE LineInv'
<1> DEFINE l == [NoLogger EXCEPT !.time = clock]
           front == HeadItems(t, Here(t), t_time'[t], Micros(clock)) \o Here(t).items
           full == Full(t, Here(t), clock)
           w == WriteAll(l, front)
<1>1. LogTypeOK /\ CacheRight /\ StageRight /\ StageOf(t)
  BY DEF LineInv, StageRight
<1>2. /\ clock' = clock /\ g_logLevel' = g_logLevel /\ g_output' = g_output /\ g_flush' = g_flush
      /\ next' = next /\ target' = target /\ disk' = disk /\ buffer' = buffer
      /\ stuck' = stuck /\ ended' = ended
      /\ stage' = [stage EXCEPT ![t] = "destroy"] /\ impl' = [impl EXCEPT ![t] = w]
      /\ stage[t] = "construct" /\ FormatTime(t)
  BY DEF Construct, Running, Goto, hookVars, sinkVars
<1>3. /\ t_lastSecond' \in [Threads -> Nat] /\ t_time' \in [Threads -> Seq(Nat)] /\ CacheRight'
      /\ t_time'[t] = DateText[Seconds(clock)]
  BY <1>1, <1>2, FormatTimeRight
<1>4. clock \in Times /\ clock \in Nat /\ InStatement(t) /\ Here(t) \in Statement
  BY <1>1, <1>2, ClockAssumption DEF StageOf, InStatement, LogTypeOK
<1>5. /\ front \in Seq(Item) /\ full \in Seq(Item) /\ Len(full) = Len(front) + 5
      /\ \A k \in 1 .. Len(front) : full[k] = front[k]
  <2> DEFINE first == HeadItems(t, Here(t), DateText[Seconds(clock)], Micros(clock)) \o Here(t).items
  <2>1. front = first
    BY <1>3
  <2>2. /\ first \in Seq(Item) /\ full \in Seq(Item) /\ Len(full) = Len(first) + 5
        /\ \A k \in 1 .. Len(first) : full[k] = first[k]
    BY <1>4, FullType
  <2> HIDE DEF front, first, full
  <2> QED
    BY <2>1, <2>2
<1>6. l \in LogLine /\ Holds(l, full, 0) /\ l.time = clock
  <2>1. /\ l.time = clock /\ l.stream = EmptyBuffer /\ l.items = 0 /\ l.dropped = {}
        /\ l \in LogLine
    BY <1>4, EmptyFits DEF NoLogger, LogLine
  <2>2. Kept(full, {})[0] = <<>>
    BY <1>5, KeptIs
  <2>3. Fits(EmptyBuffer) /\ EmptyBuffer.text = <<>>
    BY EmptyFits
  <2> HIDE DEF l, front, full
  <2>4. 0 \in 0 .. Len(full)
    <3>1. Len(full) \in Nat
      BY <1>5, LenProperties
    <3> QED
      BY <3>1
  <2> QED
    BY <2>1, <2>2, <2>3, <2>4 DEF Holds
<1> HIDE DEF l, front, full
<1>7. Holds(w, full, Len(full) - 5) /\ w.time = clock
  <2>1. Len(front) \in Nat
    BY <1>5, LenProperties
  <2>2. /\ 0 + Len(front) = Len(full) - 5 /\ 0 + Len(front) <= Len(full)
        /\ \A k \in 1 .. Len(front) : front[k] = full[0 + k]
    <3>1. Len(full) = Len(front) + 5 /\ \A k \in 1 .. Len(front) : front[k] = full[k]
      BY <1>5
    <3>2. \A k \in 1 .. Len(front) : 0 + k = k
      BY <2>1
    <3> QED
      BY <2>1, <3>1, <3>2
  <2>3. Holds(w, full, 0 + Len(front)) /\ w.time = l.time
    BY <1>5, <1>6, <2>2, WriteAllKeeps
  <2> QED
    BY <1>6, <2>2, <2>3
<1>8. w \in LogLine /\ Fits(w.stream)
  BY <1>7 DEF Holds
<1> HIDE DEF w
<1>9. stage' \in [Threads -> Stages] /\ impl' \in [Threads -> LogLine]
  BY <1>1, <1>2, <1>8 DEF LogTypeOK, Stages
<1>10. LogTypeOK'
  BY <1>1, <1>2, <1>3, <1>9 DEF LogTypeOK
<1>11. ASSUME NEW z \in Threads PROVE StageOf(z)'
  <2>1. StageOf(z)
    BY <1>1 DEF StageRight
  <2>2. CASE z = t
    <3>1. stage'[t] = "destroy" /\ impl'[t] = w /\ InStatement(t)' /\ Here(t)' = Here(t)
      BY <1>1, <1>2, <1>4 DEF LogTypeOK, InStatement, Here
    <3>2. Full(t, Here(t), impl[t].time)' = full
      BY <1>7, <3>1 DEF full
    <3> QED
      BY <1>4, <1>7, <1>8, <2>2, <3>1, <3>2 DEF StageOf
  <2>3. CASE z # t
    <3>1. stage'[z] = stage[z] /\ impl'[z] = impl[z] /\ next'[z] = next[z]
      BY <1>1, <1>2, <2>3 DEF LogTypeOK
    <3> QED
      BY <2>1, <3>1, StageKept
  <2> QED
    BY <2>2, <2>3
<1> QED
  BY <1>3, <1>10, <1>11 DEF LineInv, StageRight

LEMMA DestroyLine ==
    ASSUME LineInv, NEW t \in Threads, Destroy(t) PROVE LineInv'
<1> DEFINE l == impl[t]
           tail == TailItems(Here(t))
           full == Full(t, Here(t), l.time)
           w == WriteAll(l, tail)
           n == Len(full) - 5
<1>1. LogTypeOK /\ CacheRight /\ StageRight /\ StageOf(t)
  BY DEF LineInv, StageRight
<1>2. /\ clock' = clock /\ g_logLevel' = g_logLevel /\ g_output' = g_output /\ g_flush' = g_flush
      /\ t_lastSecond' = t_lastSecond /\ t_time' = t_time
      /\ next' = next /\ disk' = disk /\ buffer' = buffer /\ stuck' = stuck /\ ended' = ended
      /\ target' = [target EXCEPT ![t] = g_output]
      /\ stage' = [stage EXCEPT ![t] = "output"] /\ impl' = [impl EXCEPT ![t] = w]
      /\ stage[t] = "destroy"
  BY <1>1 DEF Destroy, Running, Goto, hookVars, cacheVars, sinkVars, LogTypeOK
<1>3. InStatement(t) /\ Here(t) \in Statement /\ l.time \in Times /\ Holds(l, full, n)
  BY <1>1, <1>2 DEF StageOf, InStatement
<1>4. /\ full \in Seq(Item) /\ n \in Nat
      /\ \A k \in 1 .. 5 : full[n + k] = tail[k]
  <2> DEFINE front == HeadItems(t, Here(t), DateText[Seconds(l.time)], Micros(l.time)) \o Here(t).items
  <2>1. /\ front \in Seq(Item) /\ full \in Seq(Item) /\ Len(full) = Len(front) + 5
        /\ \A k \in 1 .. 5 : full[Len(front) + k] = tail[k]
    BY <1>3, FullType
  <2> HIDE DEF full, front, tail
  <2>2. Len(front) \in Nat
    BY <2>1, LenProperties
  <2>3. n = Len(front)
    BY <2>1, <2>2
  <2> QED
    BY <2>1, <2>2, <2>3
<1>5. tail \in Seq(Item) /\ Len(tail) = 5
  BY <1>3, TailType
<1> HIDE DEF l, tail, full
<1>6. Holds(w, full, Len(full)) /\ w.time = l.time
  <2>1. n + Len(tail) = Len(full) /\ Len(full) \in Nat
    BY <1>4, <1>5, LenProperties
  <2>2. n + Len(tail) <= Len(full) /\ \A k \in 1 .. Len(tail) : tail[k] = full[n + k]
    BY <1>4, <1>5, <2>1
  <2> HIDE DEF n
  <2>3. Holds(w, full, n + Len(tail)) /\ w.time = l.time
    BY <1>3, <1>4, <1>5, <2>2, WriteAllKeeps
  <2> QED
    BY <2>1, <2>3
<1>7. w \in LogLine /\ Fits(w.stream)
  BY <1>6 DEF Holds
<1> HIDE DEF w, n
<1>8. /\ stage' \in [Threads -> Stages] /\ impl' \in [Threads -> LogLine]
      /\ target' \in [Threads -> Sinks]
  BY <1>1, <1>2, <1>7 DEF LogTypeOK, Stages
<1>9. LogTypeOK' /\ CacheRight'
  BY <1>1, <1>2, <1>8 DEF LogTypeOK, CacheRight
<1>10. ASSUME NEW z \in Threads PROVE StageOf(z)'
  <2>1. StageOf(z)
    BY <1>1 DEF StageRight
  <2>2. CASE z = t
    <3>1. stage'[t] = "output" /\ impl'[t] = w /\ InStatement(t)' /\ Here(t)' = Here(t)
      BY <1>1, <1>2, <1>3 DEF LogTypeOK, InStatement, Here
    <3>2. Full(t, Here(t), impl[t].time)' = full
      BY <1>6, <3>1 DEF full
    <3> QED
      BY <1>3, <1>6, <1>7, <2>2, <3>1, <3>2 DEF StageOf
  <2>3. CASE z # t
    <3>1. stage'[z] = stage[z] /\ impl'[z] = impl[z] /\ next'[z] = next[z]
      BY <1>1, <1>2, <2>3 DEF LogTypeOK
    <3> QED
      BY <2>1, <3>1, StageKept
  <2> QED
    BY <2>2, <2>3
<1> QED
  BY <1>9, <1>10 DEF LineInv, StageRight

\* What is taken of a text, if not all of it, is its beginning.
LEMMA Beginning ==
    ASSUME NEW text \in Seq(Nat), NEW n \in 0 .. Len(text)
    PROVE  /\ SubSeq(text, 1, n) \in Seq(Nat) /\ Len(SubSeq(text, 1, n)) = n
           /\ n = Len(text) => SubSeq(text, 1, n) = text
<1>1. Len(text) \in Nat
  BY LenProperties
<1>2. SubSeq(text, 1, n) \in Seq(Nat) /\ Len(SubSeq(text, 1, n)) = n
  <2>1. CASE n = 0
    <3>1. SubSeq(text, 1, 0) = <<>>
      BY SubSeqEmpty
    <3> QED
      BY <2>1, <3>1
  <2>2. CASE n # 0
    <3>1. 1 \in 1 .. Len(text) /\ n \in 1 .. Len(text)
      BY <1>1, <2>2
    <3> QED
      BY <1>1, <3>1, SubSeqProperties
  <2> QED
    BY <2>1, <2>2
<1> QED
  BY <1>2, SubSeqFull

\* What fwrite() takes of a line: all of it, or a part if the stream may fail.
LEMMA AcceptedPart ==
    ASSUME NEW line, NEW n \in Accepted(line)
    PROVE  \/ n = Len(line.text)
           \/ n \in Nat /\ n < Len(line.text) /\ line.to \in FailingSinks
<1>1. \/ n = Len(line.text)
      \/ n \in ShortCounts /\ line.to \in FailingSinks /\ n < Len(line.text)
  BY DEF Accepted
<1>2. n \in ShortCounts => n \in Nat
  BY HooksAssumption
<1> QED
  BY <1>1, <1>2

\* The line that is written, as far as it is taken, is as it should be.
LEMMA OutputGood ==
    ASSUME LogTypeOK, NEW t \in Threads, StageOf(t), stage[t] = "output",
           NEW n \in Accepted(LineOf(t))
    PROVE  /\ Taken(LineOf(t), n) \in GoodLine
           /\ Taken(LineOf(t), n).thread = t /\ Taken(LineOf(t), n).nth = next[t]
<1> DEFINE z == impl[t]
           l == Taken(LineOf(t), n)
           text == z.stream.text
           full == Full(t, Here(t), z.time)
<1>1. InStatement(t) /\ Here(t) \in Statement /\ z.time \in Times /\ Holds(z, full, Len(full))
  BY DEF StageOf, InStatement
<1>2. /\ next[t] \in Nat /\ text \in Seq(Nat) /\ z.dropped \in SUBSET Nat
      /\ target[t] \in Sinks
  <2>1. z \in LogLine
    BY DEF LogTypeOK
  <2> QED
    BY <2>1 DEF LogTypeOK, LogLine
<1>3. /\ l = [thread |-> t, nth |-> next[t], time |-> z.time, text |-> SubSeq(text, 1, n),
             dropped |-> z.dropped, to |-> target[t], cut |-> n < Len(text)]
      /\ \/ n = Len(text)
         \/ n \in Nat /\ n < Len(text) /\ target[t] \in FailingSinks
  <2> DEFINE line == LineOf(t)
  <2>1. line = [thread |-> t, nth |-> next[t], time |-> z.time, text |-> text,
                dropped |-> z.dropped, to |-> target[t], cut |-> FALSE]
    BY DEF LineOf
  <2>2. l = [line EXCEPT !.text = SubSeq(line.text, 1, n), !.cut = n < Len(line.text)]
    BY DEF Taken
  <2>3. \/ n = Len(line.text)
        \/ n \in Nat /\ n < Len(line.text) /\ line.to \in FailingSinks
    BY AcceptedPart
  <2> HIDE DEF line, l, z, text
  <2> QED
    BY <2>1, <2>2, <2>3
<1> HIDE DEF l
<1>4. ItemsOf(l) = full
  BY <1>3 DEF ItemsOf, Full, Here
<1>5. l.nth \in DOMAIN Program[l.thread] /\ Program[l.thread][l.nth] \in Statement
  BY <1>1, <1>3 DEF InStatement, Here
<1>6. /\ text = Kept(full, z.dropped)[Len(full)]
      /\ z.dropped \subseteq 1 .. Len(full)
      /\ \A k \in z.dropped : NoRoom(full, z.dropped, k)
  BY <1>1 DEF Holds
<1>7. z.time \in Times /\ l.dropped = z.dropped
  BY <1>1, <1>3
<1> HIDE DEF z, full, text
<1>8. Len(text) \in Nat /\ n \in 0 .. Len(text) /\ (n < Len(text) => target[t] \in FailingSinks)
  <2>1. Len(text) \in Nat
    BY <1>2, LenProperties
  <2> QED
    BY <1>3, <2>1
<1>9. /\ SubSeq(text, 1, n) \in Seq(Nat) /\ Len(SubSeq(text, 1, n)) = n
      /\ n = Len(text) => SubSeq(text, 1, n) = text
  BY <1>2, <1>8, Beginning
<1>10. l \in [thread : Threads, nth : Nat, time : Times, text : Seq(Nat), dropped : SUBSET Nat,
              to : Sinks, cut : BOOLEAN]
  BY <1>2, <1>3, <1>7, <1>9
<1>11. l.text = IF l.cut THEN SubSeq(text, 1, Len(l.text)) ELSE text
  <2>1. l.text = SubSeq(text, 1, n) /\ l.cut = (n < Len(text))
    BY <1>3
  <2>2. ~(n < Len(text)) => n = Len(text)
    BY <1>8
  <2> QED
    BY <1>9, <2>1, <2>2
<1>12. l.cut => l.to \in FailingSinks
  BY <1>3, <1>8
<1>13. l \in GoodLine
  BY <1>4, <1>5, <1>6, <1>7, <1>10, <1>11, <1>12 DEF GoodLine
<1> QED
  BY <1>3, <1>13 DEF l

LEMMA OutputLine ==
    ASSUME LineInv, NEW t \in Threads, Output(t) PROVE LineInv'
<1> DEFINE taken(n) == Taken(LineOf(t), n)
<1>1. LogTypeOK /\ CacheRight /\ StageRight /\ StageOf(t)
  BY DEF LineInv, StageRight
<1>2. /\ clock' = clock /\ g_logLevel' = g_logLevel /\ g_output' = g_output /\ g_flush' = g_flush
      /\ t_lastSecond' = t_lastSecond /\ t_time' = t_time
      /\ target' = target /\ disk' = disk /\ stuck' = stuck /\ ended' = ended
      /\ stage[t] = "output"
  BY DEF Output, Running, hookVars, cacheVars
<1>3. \/ /\ stage' = [stage EXCEPT ![t] = "flush"] /\ next' = next /\ impl' = impl
      \/ /\ stage' = [stage EXCEPT ![t] = "idle"] /\ next' = [next EXCEPT ![t] = @ + 1]
         /\ impl' = [impl EXCEPT ![t] = NoLogger]
  BY DEF Output, Goto, NextStatement
<1>4. PICK l \in GoodLine : buffer' = [buffer EXCEPT ![target[t]] = Append(@, l)]
  <2>1. PICK n \in Accepted(LineOf(t)) : buffer' = [buffer EXCEPT ![target[t]] = Append(@, taken(n))]
    BY DEF Output, Puts
  <2>2. taken(n) \in GoodLine
    BY <1>1, <1>2, OutputGood
  <2> HIDE DEF taken
  <2> QED
    BY <2>1, <2>2
<1>5. buffer' \in [Sinks -> Seq(GoodLine)]
  <2>1. target[t] \in Sinks /\ buffer[target[t]] \in Seq(GoodLine)
    BY <1>1 DEF LogTypeOK
  <2>2. Append(buffer[target[t]], l) \in Seq(GoodLine)
    BY <1>4, <2>1, AppendProperties
  <2> QED
    BY <1>1, <1>4, <2>1, <2>2 DEF LogTypeOK
<1>6. /\ stage' \in [Threads -> Stages] /\ next' \in [Threads -> Nat \ {0}]
      /\ impl' \in [Threads -> LogLine]
  <2>1. CASE stage' = [stage EXCEPT ![t] = "flush"] /\ next' = next /\ impl' = impl
    BY <1>1, <2>1 DEF LogTypeOK, Stages
  <2>2. CASE /\ stage' = [stage EXCEPT ![t] = "idle"] /\ next' = [next EXCEPT ![t] = @ + 1]
             /\ impl' = [impl EXCEPT ![t] = NoLogger]
    <3>1. stage' \in [Threads -> Stages]
      BY <1>1, <2>2 DEF LogTypeOK, Stages
    <3>2. next' \in [Threads -> Nat \ {0}]
      BY <1>1, <2>2 DEF LogTypeOK
    <3>3. impl' \in [Threads -> LogLine]
      BY <1>1, <2>2, EmptyFits DEF LogTypeOK
    <3> QED
      BY <3>1, <3>2, <3>3
  <2> QED
    BY <1>3, <2>1, <2>2
<1>7. LogTypeOK' /\ CacheRight'
  BY <1>1, <1>2, <1>5, <1>6 DEF LogTypeOK, CacheRight
<1>8. ASSUME NEW z \in Threads PROVE StageOf(z)'
  <2>1. StageOf(z)
    BY <1>1 DEF StageRight
  <2>2. CASE z = t
    <3>1. CASE stage' = [stage EXCEPT ![t] = "flush"] /\ next' = next /\ impl' = impl
      <4>1. stage'[t] = "flush" /\ next'[t] = next[t] /\ impl'[t] = impl[t]
        BY <1>1, <3>1 DEF LogTypeOK
      <4> QED
        BY <1>2, <2>1, <2>2, <4>1 DEF StageOf, InStatement, Here
    <3>2. CASE /\ stage' = [stage EXCEPT ![t] = "idle"] /\ impl' = [impl EXCEPT ![t] = NoLogger]
      <4>1. stage'[t] = "idle" /\ impl'[t] = NoLogger
        BY <1>1, <3>2 DEF LogTypeOK
      <4> QED
        BY <2>2, <4>1, EmptyFits DEF StageOf
    <3> QED
      BY <1>3, <3>1, <3>2
  <2>3. CASE z # t
    <3>1. stage'[z] = stage[z] /\ impl'[z] = impl[z] /\ next'[z] = next[z]
      BY <1>1, <1>3, <2>3 DEF LogTypeOK
    <3> QED
      BY <2>1, <3>1, StageKept
  <2> QED
    BY <2>2, <2>3
<1> QED
  BY <1>7, <1>8 DEF LineInv, StageRight

LEMMA FlushLine ==
    ASSUME LineInv, NEW t \in Threads, Flush(t) PROVE LineInv'
<1>1. LogTypeOK /\ CacheRight /\ StageRight /\ StageOf(t)
  BY DEF LineInv, StageRight
<1>2. /\ clock' = clock /\ g_logLevel' = g_logLevel /\ g_output' = g_output /\ g_flush' = g_flush
      /\ t_lastSecond' = t_lastSecond /\ t_time' = t_time /\ next' = next /\ impl' = impl
      /\ ended' = ended /\ target' = [target EXCEPT ![t] = g_flush]
      /\ Flushes(g_flush)
      /\ stage' = [stage EXCEPT ![t] = "abort"] /\ stage[t] = "flush"
  BY DEF Flush, Goto, Running, hookVars, cacheVars
<1>3. /\ disk' \in [Sinks -> Seq(GoodLine)] /\ buffer' \in [Sinks -> Seq(GoodLine)]
      /\ stuck' \subseteq FailingSinks
  <2>1. /\ g_flush \in Sinks /\ disk[g_flush] \in Seq(GoodLine) /\ buffer[g_flush] \in Seq(GoodLine)
        /\ disk \in [Sinks -> Seq(GoodLine)] /\ buffer \in [Sinks -> Seq(GoodLine)]
        /\ stuck \subseteq FailingSinks
    BY <1>1 DEF LogTypeOK
  <2>2. disk[g_flush] \o buffer[g_flush] \in Seq(GoodLine)
    BY <2>1, ConcatProperties
  <2>3. CASE /\ disk' = [disk EXCEPT ![g_flush] = @ \o buffer[g_flush]]
             /\ buffer' = [buffer EXCEPT ![g_flush] = <<>>] /\ stuck' = stuck \ {g_flush}
    <3>1. disk' \in [Sinks -> Seq(GoodLine)] /\ buffer' \in [Sinks -> Seq(GoodLine)]
      BY <2>1, <2>2, <2>3
    <3>2. stuck' \subseteq FailingSinks
      BY <2>1, <2>3
    <3> QED
      BY <3>1, <3>2
  <2>4. CASE g_flush \in FailingSinks /\ stuck' = stuck \cup {g_flush} /\ disk' = disk /\ buffer' = buffer
    BY <2>1, <2>4
  <2> QED
    BY <1>2, <2>3, <2>4 DEF Flushes
<1>4. stage' \in [Threads -> Stages] /\ target' \in [Threads -> Sinks]
  BY <1>1, <1>2 DEF LogTypeOK, Stages
<1>5. LogTypeOK' /\ CacheRight'
  BY <1>1, <1>2, <1>3, <1>4 DEF LogTypeOK, CacheRight
<1>6. ASSUME NEW z \in Threads PROVE StageOf(z)'
  <2>1. StageOf(z)
    BY <1>1 DEF StageRight
  <2>2. CASE z = t
    <3>1. stage'[t] = "abort"
      BY <1>1, <1>2 DEF LogTypeOK
    <3> QED
      BY <1>2, <2>1, <2>2, <3>1 DEF StageOf, InStatement, Here
  <2>3. CASE z # t
    <3>1. stage'[z] = stage[z]
      BY <1>1, <1>2, <2>3 DEF LogTypeOK
    <3> QED
      BY <1>2, <2>1, <3>1, StageKept
  <2> QED
    BY <2>2, <2>3
<1> QED
  BY <1>5, <1>6 DEF LineInv, StageRight

\* A step that only the clock, the streams or the end of the process sees.
LEMMA OutsideLine ==
    ASSUME LineInv,
           clock' \in Times, disk' \in [Sinks -> Seq(GoodLine)],
           buffer' \in [Sinks -> Seq(GoodLine)], ended' \in {"no", "exit", "abort"},
           stuck' \subseteq FailingSinks,
           g_logLevel' = g_logLevel, g_output' = g_output, g_flush' = g_flush,
           t_lastSecond' = t_lastSecond, t_time' = t_time, stage' = stage, next' = next,
           impl' = impl, target' = target
    PROVE  LineInv'
<1>1. LogTypeOK /\ CacheRight /\ StageRight
  BY DEF LineInv
<1>2. LogTypeOK' /\ CacheRight'
  BY <1>1 DEF LogTypeOK, CacheRight
<1>3. ASSUME NEW z \in Threads PROVE StageOf(z)'
  <2>1. StageOf(z)
    BY <1>1 DEF StageRight
  <2> QED
    BY <2>1, StageKept
<1> QED
  BY <1>2, <1>3 DEF LineInv, StageRight

LEMMA AbortLine ==
    ASSUME LineInv, NEW t \in Threads, Abort(t) PROVE LineInv'
<1>1. LogTypeOK
  BY DEF LineInv
<1> QED
  BY <1>1, OutsideLine DEF Abort, hookVars, cacheVars, sinkVars, LogTypeOK

LEMMA TickLine == ASSUME LineInv, Tick PROVE LineInv'
<1>1. LogTypeOK
  BY DEF LineInv
<1> QED
  BY <1>1, OutsideLine DEF Tick, hookVars, cacheVars, sinkVars, LogTypeOK

LEMMA DrainLine == ASSUME LineInv, Drain PROVE LineInv'
<1>1. LogTypeOK
  BY DEF LineInv
<1>2. PICK s \in Sinks : /\ buffer[s] # <<>>
                         /\ disk' = [disk EXCEPT ![s] = Append(@, Head(buffer[s]))]
                         /\ buffer' = [buffer EXCEPT ![s] = Tail(@)]
  BY DEF Drain
<1>3. disk[s] \in Seq(GoodLine) /\ buffer[s] \in Seq(GoodLine)
  BY <1>1 DEF LogTypeOK
<1>4. Head(buffer[s]) \in GoodLine /\ Tail(buffer[s]) \in Seq(GoodLine)
  BY <1>2, <1>3, HeadTailProperties
<1>5. Append(disk[s], Head(buffer[s])) \in Seq(GoodLine)
  BY <1>3, <1>4, AppendProperties
<1>6. disk' \in [Sinks -> Seq(GoodLine)] /\ buffer' \in [Sinks -> Seq(GoodLine)]
  BY <1>1, <1>2, <1>4, <1>5 DEF LogTypeOK
<1> QED
  BY <1>1, <1>6, OutsideLine DEF Drain, hookVars, cacheVars, LogTypeOK

LEMMA ExitLine == ASSUME LineInv, Exit PROVE LineInv'
<1>1. LogTypeOK
  BY DEF LineInv
<1>2. ASSUME NEW s \in Sinks PROVE disk[s] \o buffer[s] \in Seq(GoodLine)
  <2>1. disk[s] \in Seq(GoodLine) /\ buffer[s] \in Seq(GoodLine)
    BY <1>1 DEF LogTypeOK
  <2> QED
    BY <2>1, ConcatProperties
<1>3. /\ disk' = [s \in Sinks |-> IF s \in stuck' THEN disk[s] ELSE disk[s] \o buffer[s]]
      /\ buffer' = [s \in Sinks |-> IF s \in stuck' THEN buffer[s] ELSE <<>>]
      /\ stuck' \subseteq FailingSinks
  BY DEF Exit
<1>4. disk' \in [Sinks -> Seq(GoodLine)] /\ buffer' \in [Sinks -> Seq(GoodLine)]
  BY <1>1, <1>2, <1>3 DEF LogTypeOK
<1> QED
  BY <1>1, <1>3, <1>4, OutsideLine DEF Exit, hookVars, cacheVars, LogTypeOK

----------------------------------------------------------------------------
(* Which lines there are: one lemma for each action                        *)

\* What was written to a sink, whether it has left the process or not.
LEMMA WrittenType ==
    ASSUME LogTypeOK, NEW s \in Sinks
    PROVE  /\ Written(s) \in Seq(GoodLine)
           /\ disk[s] \in Seq(GoodLine) /\ buffer[s] \in Seq(GoodLine)
           /\ Len(Written(s)) = Len(disk[s]) + Len(buffer[s])
           /\ \A i \in DOMAIN Written(s) : /\ i \in 1 .. Len(Written(s))
                                           /\ Written(s)[i] \in GoodLine
                                           /\ Written(s)[i].thread \in Threads
                                           /\ Written(s)[i].nth \in Nat
<1>1. disk[s] \in Seq(GoodLine) /\ buffer[s] \in Seq(GoodLine)
  BY DEF LogTypeOK
<1>2. Written(s) \in Seq(GoodLine) /\ Len(Written(s)) = Len(disk[s]) + Len(buffer[s])
  BY <1>1, ConcatProperties DEF Written
<1>3. ASSUME NEW i \in DOMAIN Written(s)
      PROVE  i \in 1 .. Len(Written(s)) /\ Written(s)[i] \in GoodLine
  <2>1. i \in 1 .. Len(Written(s))
    BY <1>2, <1>3, LenProperties
  <2> QED
    BY <1>2, <2>1, ElementOfSeq
<1>4. \A l \in GoodLine : l.thread \in Threads /\ l.nth \in Nat
  BY DEF GoodLine
<1> QED
  BY <1>1, <1>2, <1>3, <1>4

\* A step that writes no line: threads may go on, if nothing became due.
LEMMA NothingWritten ==
    ASSUME LogTypeOK, LogTypeOK', AllPast, Ordered, DueWritten,
           \A s \in Sinks : Written(s)' = Written(s),
           \A t \in Threads : next[t] <= next'[t],
           \A t \in Threads : stage[t] \in {"flush", "abort"} => stage'[t] \in {"flush", "abort"},
           \A t \in Threads : Due(t)' \subseteq Due(t)
    PROVE  AllPast' /\ Ordered' /\ DueWritten'
<1>1. ASSUME NEW s \in Sinks, NEW i \in DOMAIN Written(s)' PROVE Past(Written(s)[i])'
  <2> DEFINE l == Written(s)[i]
  <2>1. i \in DOMAIN Written(s) /\ l' = l
    BY <1>1
  <2>2. Past(l) /\ l.thread \in Threads /\ l.nth \in Nat
    BY <2>1, WrittenType DEF AllPast
  <2> HIDE DEF l
  <2>3. next[l.thread] \in Nat /\ next'[l.thread] \in Nat /\ next[l.thread] <= next'[l.thread]
    BY <2>2 DEF LogTypeOK
  <2>4. \/ l.nth < next'[l.thread]
        \/ l.nth = next'[l.thread] /\ stage'[l.thread] \in {"flush", "abort"}
    BY <2>2, <2>3 DEF Past
  <2>5. Past(l)'
    BY <2>1, <2>4 DEF Past
  <2> QED
    BY <2>5 DEF l
<1>2. Ordered'
  BY DEF Ordered
<1>3. DueWritten'
  BY DEF DueWritten
<1> QED
  BY <1>1, <1>2, <1>3 DEF AllPast

\* stdio passes lines on, and keeps their order.
LEMMA MoveOne ==
    ASSUME NEW d \in Seq(GoodLine), NEW b \in Seq(GoodLine), b # <<>>
    PROVE  Append(d, Head(b)) \o Tail(b) = d \o b
<1>1. Head(b) \in GoodLine /\ Tail(b) \in Seq(GoodLine)
  BY HeadTailProperties
<1> DEFINE h == Head(b)
           r == Tail(b)
<1>2. b = <<h>> \o r
  <2>1. Len(b) \in Nat /\ Len(b) # 0
    BY LenProperties, EmptySeq
  <2>2. 1 \in 1 .. Len(b) /\ Len(b) \in 1 .. Len(b)
    BY <2>1
  <2>3. SubSeq(b, 1, Len(b)) = <<b[1]>> \o SubSeq(b, 1 + 1, Len(b))
    BY <2>2, SubSeqRecursiveFirst
  <2>4. SubSeq(b, 1, Len(b)) = b
    BY SubSeqFull
  <2>5. r = SubSeq(b, 2, Len(b)) /\ h = b[1] /\ 1 + 1 = 2
    BY TailIsSubSeq
  <2> QED
    BY <2>3, <2>4, <2>5
<1> HIDE DEF h, r
<1>3. h \in GoodLine /\ r \in Seq(GoodLine) /\ <<h>> \in Seq(GoodLine)
  BY <1>1 DEF h, r
<1>4. Append(d, h) = d \o <<h>>
  BY <1>3, AppendIsConcat
<1>5. (d \o <<h>>) \o r = d \o (<<h>> \o r)
  BY <1>3, ConcatAssociative
<1>6. Append(d, h) \o r = d \o b
  BY <1>2, <1>4, <1>5
<1> QED
  BY <1>6 DEF h, r

LEMMA MoveAll ==
    ASSUME NEW d \in Seq(GoodLine), NEW b \in Seq(GoodLine)
    PROVE  (d \o b) \o <<>> = d \o b
<1>1. d \o b \in Seq(GoodLine)
  BY ConcatProperties
<1> QED
  BY <1>1, ConcatEmptySeq

\* A line is put behind those that were written before.
LEMMA PutBehind ==
    ASSUME NEW d \in Seq(GoodLine), NEW b \in Seq(GoodLine), NEW l \in GoodLine
    PROVE  d \o Append(b, l) = Append(d \o b, l)
<1>1. d \o b \in Seq(GoodLine) /\ <<l>> \in Seq(GoodLine)
  BY ConcatProperties
<1>2. Append(b, l) = b \o <<l>>
  BY AppendIsConcat
<1>3. Append(d \o b, l) = (d \o b) \o <<l>>
  BY <1>1, AppendIsConcat
<1>4. (d \o b) \o <<l>> = d \o (b \o <<l>>)
  BY <1>1, ConcatAssociative
<1> QED
  BY <1>2, <1>3, <1>4

LEMMA InitKeep == LogInit => KeepInv
<1> SUFFICES ASSUME LogInit PROVE KeepInv
  OBVIOUS
<1>1. ASSUME NEW s \in Sinks PROVE Written(s) = <<>> /\ buffer[s] = <<>>
  <2>1. disk[s] = <<>> /\ buffer[s] = <<>>
    BY DEF LogInit
  <2>2. <<>> \in Seq(GoodLine)
    OBVIOUS
  <2>3. <<>> \o <<>> = <<>>
    BY <2>2, ConcatEmptySeq
  <2> QED
    BY <2>1, <2>3 DEF Written
<1>2. ASSUME NEW s \in Sinks PROVE DOMAIN Written(s) = {}
  BY <1>1
<1>3. ASSUME NEW t \in Threads PROVE Due(t) = {}
  <2>1. next[t] = 1
    BY DEF LogInit
  <2> QED
    BY <2>1 DEF Due
<1>4. \A t \in Threads : stage[t] # "abort"
  BY DEF LogInit
<1>5. ended # "exit"
  BY DEF LogInit
<1> QED
  BY <1>2, <1>3, <1>4, <1>5 DEF KeepInv, AllPast, Ordered, DueWritten, Flushed, AllOut

\* A step that moves no line.
LEMMA QuietKeep ==
    ASSUME LogTypeOK, LogTypeOK', KeepInv, disk' = disk, buffer' = buffer, stuck' = stuck,
           \A t \in Threads : next[t] <= next'[t],
           \A t \in Threads : stage[t] \in {"flush", "abort"} => stage'[t] \in {"flush", "abort"},
           \A t \in Threads : Due(t)' \subseteq Due(t),
           \A t \in Threads : stage'[t] = "abort" =>
               stage[t] = "abort" /\ target'[t] = target[t] /\ next'[t] = next[t],
           ended' = "exit" => ended = "exit"
    PROVE  KeepInv'
<1>1. \A s \in Sinks : Written(s)' = Written(s)
  BY DEF Written
<1>2. AllPast' /\ Ordered' /\ DueWritten'
  BY <1>1, NothingWritten DEF KeepInv
<1>3. Flushed'
  <2>1. ASSUME NEW t \in Threads, stage'[t] = "abort", target'[t] \notin stuck',
               NEW i \in DOMAIN buffer'[target'[t]]
        PROVE  ~(buffer'[target'[t]][i].thread = t /\ buffer'[target'[t]][i].nth = next'[t])
    <3>1. stage[t] = "abort" /\ target'[t] = target[t] /\ next'[t] = next[t]
      BY <2>1
    <3> QED
      BY <2>1, <3>1 DEF KeepInv, Flushed
  <2> QED
    BY <2>1 DEF Flushed
<1>4. AllOut'
  BY DEF KeepInv, AllOut
<1> QED
  BY <1>2, <1>3, <1>4 DEF KeepInv

LEMMA DueSame ==
    ASSUME NEW t \in Threads, next'[t] = next[t] PROVE Due(t)' \subseteq Due(t)
BY DEF Due

\* A statement that may be skipped, or does not log, is not due.
LEMMA DuePass ==
    ASSUME LogTypeOK, NEW t \in Threads, next'[t] = next[t] + 1,
           \/ Here(t).op \notin DOMAIN Macro
           \/ Macro[Here(t).op].tests
           \/ Here(t).op = "CHECK_NOTNULL"
    PROVE  Due(t)' \subseteq Due(t)
<1>1. next[t] \in Nat
  BY DEF LogTypeOK
<1>2. ASSUME NEW i \in Due(t)' PROVE i \in Due(t)
  <2>1. /\ i \in 1 .. (next[t] + 1) - 1 /\ Program[t][i].op \in DOMAIN Macro
        /\ ~Macro[Program[t][i].op].tests /\ Program[t][i].op # "CHECK_NOTNULL"
    BY <1>2 DEF Due
  <2>2. i # next[t]
    BY <2>1 DEF Here
  <2>3. i \in 1 .. next[t] - 1
    BY <1>1, <2>1, <2>2
  <2> QED
    BY <2>1, <2>3 DEF Due
<1> QED
  BY <1>2

\* A statement that writes no line.
LEMMA PassKeep ==
    ASSUME LogTypeOK, LogTypeOK', KeepInv, NEW t \in Threads, stage[t] = "idle",
           next' = [next EXCEPT ![t] = @ + 1],
           \/ Here(t).op \notin DOMAIN Macro
           \/ Macro[Here(t).op].tests
           \/ Here(t).op = "CHECK_NOTNULL",
           stage' = stage, target' = target, disk' = disk, buffer' = buffer, stuck' = stuck,
           ended' = ended
    PROVE  KeepInv'
<1>1. ASSUME NEW z \in Threads
      PROVE  /\ next[z] <= next'[z] /\ Due(z)' \subseteq Due(z)
             /\ stage'[z] = "abort" => next'[z] = next[z]
  <2>1. next[z] \in Nat
    BY DEF LogTypeOK
  <2>2. CASE z = t
    <3>1. next'[t] = next[t] + 1
      BY DEF LogTypeOK
    <3> QED
      BY <2>1, <2>2, <3>1, DuePass
  <2>3. CASE z # t
    <3>1. next'[z] = next[z]
      BY <2>3 DEF LogTypeOK
    <3> QED
      BY <2>1, <3>1, DueSame
  <2> QED
    BY <2>2, <2>3
<1> QED
  BY <1>1, QuietKeep

\* A step within a statement, before its line is written.
LEMMA WithinKeep ==
    ASSUME LogTypeOK, LogTypeOK', KeepInv, NEW t \in Threads, NEW step \in {"construct", "destroy", "output"},
           stage[t] \in {"idle", "construct", "destroy"},
           stage' = [stage EXCEPT ![t] = step], next' = next,
           \A z \in Threads \ {t} : target'[z] = target[z],
           disk' = disk, buffer' = buffer, stuck' = stuck, ended' = ended
    PROVE  KeepInv'
<1>1. ASSUME NEW z \in Threads
      PROVE  /\ next[z] <= next'[z] /\ Due(z)' \subseteq Due(z)
             /\ stage[z] \in {"flush", "abort"} => stage'[z] \in {"flush", "abort"}
             /\ stage'[z] = "abort" =>
                   stage[z] = "abort" /\ target'[z] = target[z] /\ next'[z] = next[z]
  <2>1. next[z] \in Nat /\ Due(z)' \subseteq Due(z)
    BY DueSame DEF LogTypeOK
  <2>2. CASE z = t
    <3>1. stage'[t] = step
      BY DEF LogTypeOK
    <3> QED
      BY <2>1, <2>2, <3>1
  <2>3. CASE z # t
    <3>1. stage'[z] = stage[z] /\ target'[z] = target[z]
      BY <2>3 DEF LogTypeOK
    <3> QED
      BY <2>1, <3>1
  <2> QED
    BY <2>2, <2>3
<1> QED
  BY <1>1, QuietKeep

\* A flush, or one that failed.
LEMMA FlushKeep ==
    ASSUME LogTypeOK, LogTypeOK', KeepInv, NEW t \in Threads, Flush(t) PROVE KeepInv'
<1>1. /\ next' = next /\ ended' = ended /\ ended = "no"
      /\ target' = [target EXCEPT ![t] = g_flush]
      /\ stage' = [stage EXCEPT ![t] = "abort"] /\ stage[t] = "flush"
  BY DEF Flush, Goto, Running
<1>2. \/ /\ disk' = [disk EXCEPT ![g_flush] = @ \o buffer[g_flush]]
         /\ buffer' = [buffer EXCEPT ![g_flush] = <<>>] /\ stuck' = stuck \ {g_flush}
      \/ disk' = disk /\ buffer' = buffer /\ stuck' = stuck \cup {g_flush}
  BY DEF Flush, Flushes
<1>3. ASSUME NEW s \in Sinks
      PROVE  /\ Written(s)' = Written(s)
             /\ s # g_flush => buffer'[s] = buffer[s]
             /\ s = g_flush => s \in stuck' \/ buffer'[s] = <<>>
  <2>1. disk[s] \in Seq(GoodLine) /\ buffer[s] \in Seq(GoodLine)
    BY WrittenType
  <2>2. CASE disk' = disk /\ buffer' = buffer /\ stuck' = stuck \cup {g_flush}
    BY <2>2 DEF Written
  <2>3. CASE /\ disk' = [disk EXCEPT ![g_flush] = @ \o buffer[g_flush]]
             /\ buffer' = [buffer EXCEPT ![g_flush] = <<>>]
    <3>1. CASE s = g_flush
      <4>1. disk'[s] = disk[s] \o buffer[s] /\ buffer'[s] = <<>>
        BY <2>3, <3>1 DEF LogTypeOK
      <4> QED
        BY <2>1, <3>1, <4>1, MoveAll DEF Written
    <3>2. CASE s # g_flush
      <4>1. disk'[s] = disk[s] /\ buffer'[s] = buffer[s]
        BY <2>3, <3>2 DEF LogTypeOK
      <4> QED
        BY <3>2, <4>1 DEF Written
    <3> QED
      BY <3>1, <3>2
  <2> QED
    BY <1>2, <2>2, <2>3
<1>4. ASSUME NEW z \in Threads
      PROVE  /\ next[z] <= next'[z] /\ Due(z)' \subseteq Due(z)
             /\ stage[z] \in {"flush", "abort"} => stage'[z] \in {"flush", "abort"}
  <2>1. next[z] \in Nat /\ Due(z)' \subseteq Due(z)
    BY <1>1, DueSame DEF LogTypeOK
  <2>2. stage'[z] = IF z = t THEN "abort" ELSE stage[z]
    BY <1>1 DEF LogTypeOK
  <2> QED
    BY <1>1, <2>1, <2>2
<1>5. AllPast' /\ Ordered' /\ DueWritten'
  BY <1>3, <1>4, NothingWritten DEF KeepInv
<1>6. Flushed'
  <2>1. ASSUME NEW z \in Threads, stage'[z] = "abort", target'[z] \notin stuck',
               NEW i \in DOMAIN buffer'[target'[z]]
        PROVE  ~(buffer'[target'[z]][i].thread = z /\ buffer'[target'[z]][i].nth = next'[z])
    <3>1. g_flush \in Sinks /\ target'[z] \in Sinks
      BY DEF LogTypeOK
    <3>2. target'[z] # g_flush
      BY <1>3, <2>1, <3>1
    <3>3. z # t
      BY <1>1, <3>2 DEF LogTypeOK
    <3>4. stage[z] = "abort" /\ target'[z] = target[z]
      BY <1>1, <2>1, <3>3 DEF LogTypeOK
    <3>5. buffer'[target[z]] = buffer[target[z]] /\ target[z] \notin stuck
      BY <1>2, <1>3, <2>1, <3>1, <3>2, <3>4
    <3> QED
      BY <1>1, <2>1, <3>4, <3>5 DEF KeepInv, Flushed
  <2> QED
    BY <2>1 DEF Flushed
<1>7. AllOut'
  BY <1>1 DEF AllOut
<1> QED
  BY <1>5, <1>6, <1>7 DEF KeepInv

LEMMA DrainKeep == ASSUME LogTypeOK, LogTypeOK', KeepInv, Drain PROVE KeepInv'
<1>1. PICK s \in Sinks : /\ buffer[s] # <<>>
                         /\ disk' = [disk EXCEPT ![s] = Append(@, Head(buffer[s]))]
                         /\ buffer' = [buffer EXCEPT ![s] = Tail(@)]
  BY DEF Drain
<1>2. /\ stage' = stage /\ next' = next /\ target' = target /\ ended' = ended /\ ended = "no"
      /\ stuck' = stuck
  BY DEF Drain
<1>3. ASSUME NEW z \in Sinks PROVE Written(z)' = Written(z)
  <2>1. disk[z] \in Seq(GoodLine) /\ buffer[z] \in Seq(GoodLine)
    BY WrittenType
  <2>2. CASE z = s
    <3>1. disk'[z] = Append(disk[z], Head(buffer[z])) /\ buffer'[z] = Tail(buffer[z])
      BY <1>1, <2>2 DEF LogTypeOK
    <3>2. buffer[z] # <<>>
      BY <1>1, <2>2
    <3>3. Append(disk[z], Head(buffer[z])) \o Tail(buffer[z]) = disk[z] \o buffer[z]
      BY <2>1, <3>2, MoveOne
    <3> QED
      BY <3>1, <3>3 DEF Written
  <2>3. CASE z # s
    <3>1. disk'[z] = disk[z] /\ buffer'[z] = buffer[z]
      BY <1>1, <2>3 DEF LogTypeOK
    <3> QED
      BY <3>1 DEF Written
  <2> QED
    BY <2>2, <2>3
<1>4. ASSUME NEW t \in Threads PROVE next[t] <= next'[t] /\ Due(t)' \subseteq Due(t)
  <2>1. next[t] \in Nat /\ next'[t] = next[t]
    BY <1>2 DEF LogTypeOK
  <2> QED
    BY <2>1, DueSame
<1>5. AllPast' /\ Ordered' /\ DueWritten'
  BY <1>2, <1>3, <1>4, NothingWritten DEF KeepInv
<1>6. Flushed'
  <2>1. ASSUME NEW t \in Threads, stage'[t] = "abort", target'[t] \notin stuck',
               NEW i \in DOMAIN buffer'[target'[t]]
        PROVE  ~(buffer'[target'[t]][i].thread = t /\ buffer'[target'[t]][i].nth = next'[t])
    <3>1. target[t] \in Sinks /\ buffer[s] \in Seq(GoodLine)
      BY DEF LogTypeOK
    <3>2. CASE target[t] = s
      <4>1. buffer'[s] = Tail(buffer[s])
        BY <1>1 DEF LogTypeOK
      <4>2. /\ Tail(buffer[s]) \in Seq(GoodLine) /\ Len(Tail(buffer[s])) = Len(buffer[s]) - 1
            /\ \A k \in 1 .. Len(Tail(buffer[s])) : Tail(buffer[s])[k] = buffer[s][k + 1]
        BY <1>1, <3>1, HeadTailProperties
      <4>3. i \in 1 .. Len(Tail(buffer[s]))
        BY <1>2, <2>1, <3>2, <4>1, <4>2, LenProperties
      <4>4. Len(buffer[s]) \in Nat /\ DOMAIN buffer[s] = 1 .. Len(buffer[s])
        BY <3>1, LenProperties
      <4>5. i + 1 \in DOMAIN buffer[s]
        BY <4>2, <4>3, <4>4
      <4>6. buffer'[s][i] = buffer[s][i + 1]
        BY <4>1, <4>2, <4>3
      <4>7. stage[t] = "abort" /\ target[t] \notin stuck
        BY <1>2, <2>1
      <4>8. ~(buffer[s][i + 1].thread = t /\ buffer[s][i + 1].nth = next[t])
        BY <3>2, <4>5, <4>7 DEF KeepInv, Flushed
      <4> QED
        BY <1>2, <3>2, <4>6, <4>8
    <3>3. CASE target[t] # s
      <4>1. buffer'[target[t]] = buffer[target[t]]
        BY <1>1, <3>3 DEF LogTypeOK
      <4> QED
        BY <1>2, <2>1, <4>1 DEF KeepInv, Flushed
    <3> QED
      BY <3>2, <3>3
  <2> QED
    BY <2>1 DEF Flushed
<1>7. AllOut'
  BY <1>2 DEF AllOut
<1> QED
  BY <1>5, <1>6, <1>7 DEF KeepInv

LEMMA ExitKeep == ASSUME LogTypeOK, LogTypeOK', KeepInv, Exit PROVE KeepInv'
<1>1. /\ disk' = [s \in Sinks |-> IF s \in stuck' THEN disk[s] ELSE disk[s] \o buffer[s]]
      /\ buffer' = [s \in Sinks |-> IF s \in stuck' THEN buffer[s] ELSE <<>>]
      /\ stage' = stage /\ next' = next /\ target' = target
      /\ \A t \in Threads : stage[t] = "idle"
  BY DEF Exit
<1>2. ASSUME NEW s \in Sinks
      PROVE  Written(s)' = Written(s) /\ (s \notin stuck' => buffer'[s] = <<>>)
  <2>1. disk[s] \in Seq(GoodLine) /\ buffer[s] \in Seq(GoodLine)
    BY WrittenType
  <2>2. CASE s \in stuck'
    <3>1. disk'[s] = disk[s] /\ buffer'[s] = buffer[s]
      BY <1>1, <2>2
    <3> QED
      BY <2>2, <3>1 DEF Written
  <2>3. CASE s \notin stuck'
    <3>1. disk'[s] = disk[s] \o buffer[s] /\ buffer'[s] = <<>>
      BY <1>1, <2>3
    <3> QED
      BY <2>1, <3>1, MoveAll DEF Written
  <2> QED
    BY <2>2, <2>3
<1>3. ASSUME NEW t \in Threads PROVE next[t] <= next'[t] /\ Due(t)' \subseteq Due(t)
  <2>1. next[t] \in Nat /\ next'[t] = next[t]
    BY <1>1 DEF LogTypeOK
  <2> QED
    BY <2>1, DueSame
<1>4. AllPast' /\ Ordered' /\ DueWritten'
  BY <1>1, <1>2, <1>3, NothingWritten DEF KeepInv
<1>5. Flushed'
  BY <1>1 DEF Flushed
<1>6. AllOut'
  BY <1>2 DEF AllOut
<1> QED
  BY <1>4, <1>5, <1>6 DEF KeepInv

\* The line of a thread is behind those of its earlier statements, and there is
\* none of this one.
LEMMA OutputKeep ==
    ASSUME LogTypeOK, LogTypeOK', NEW t \in Threads, StageOf(t), KeepInv, Output(t)
    PROVE  KeepInv'
<1> DEFINE taken(n) == Taken(LineOf(t), n)
<1>1. PICK l \in GoodLine : /\ buffer' = [buffer EXCEPT ![target[t]] = Append(@, l)]
                            /\ l.thread = t /\ l.nth = next[t]
  <2>1. PICK n \in Accepted(LineOf(t)) : buffer' = [buffer EXCEPT ![target[t]] = Append(@, taken(n))]
    BY DEF Output, Puts
  <2>2. taken(n) \in GoodLine /\ taken(n).thread = t /\ taken(n).nth = next[t]
    <3>1. stage[t] = "output"
      BY DEF Output, Running
    <3> QED
      BY <3>1, OutputGood
  <2> HIDE DEF taken
  <2> QED
    BY <2>1, <2>2
<1>2. PICK sink \in Sinks : sink = target[t]
  BY DEF LogTypeOK
<1>3. Written(sink) \in Seq(GoodLine)
  BY WrittenType
<1>4. PICK last \in Nat : last = Len(Written(sink)) + 1
  <2>1. Len(Written(sink)) \in Nat
    BY <1>3, LenProperties
  <2> QED
    BY <2>1
<1>5. /\ target' = target /\ disk' = disk /\ stuck' = stuck /\ ended' = ended /\ ended = "no"
      /\ buffer' = [buffer EXCEPT ![sink] = Append(@, l)] /\ stage[t] = "output"
  BY <1>1, <1>2 DEF Output, Running
<1>6. \/ stage' = [stage EXCEPT ![t] = "flush"] /\ next' = next
      \/ stage' = [stage EXCEPT ![t] = "idle"] /\ next' = [next EXCEPT ![t] = @ + 1]
  BY DEF Output, Goto, NextStatement
<1>7. l.thread = t /\ l.nth = next[t]
  BY <1>1
<1>8. next[t] \in Nat
  BY DEF LogTypeOK
<1>9. ASSUME NEW z \in Threads, z # t
      PROVE  next'[z] = next[z] /\ stage'[z] = stage[z]
  BY <1>6, <1>9 DEF LogTypeOK
<1>10. \/ stage'[t] = "flush" /\ next'[t] = next[t]
       \/ stage'[t] = "idle" /\ next'[t] = next[t] + 1
  BY <1>6 DEF LogTypeOK
<1>11. Written(sink)' = Append(Written(sink), l)
  <2>1. disk[sink] \in Seq(GoodLine) /\ buffer[sink] \in Seq(GoodLine)
    BY WrittenType
  <2>2. disk'[sink] = disk[sink] /\ buffer'[sink] = Append(buffer[sink], l)
    BY <1>5 DEF LogTypeOK
  <2>3. disk[sink] \o Append(buffer[sink], l) = Append(disk[sink] \o buffer[sink], l)
    BY <2>1, PutBehind
  <2> QED
    BY <2>2, <2>3 DEF Written
<1>12. ASSUME NEW s \in Sinks, s # sink PROVE Written(s)' = Written(s)
  <2>1. disk'[s] = disk[s] /\ buffer'[s] = buffer[s]
    BY <1>5, <1>12 DEF LogTypeOK
  <2> QED
    BY <2>1 DEF Written
<1>13. /\ DOMAIN Written(sink)' = 1 .. last /\ DOMAIN Written(sink) = 1 .. last - 1
       /\ \A i \in 1 .. last - 1 : Written(sink)'[i] = Written(sink)[i]
       /\ Written(sink)'[last] = l
  <2> DEFINE w == Written(sink)
             u == Append(w, l)
  <2>1. /\ u \in Seq(GoodLine) /\ Len(u) = Len(w) + 1
        /\ \A i \in 1 .. Len(w) : u[i] = w[i]
        /\ u[Len(w) + 1] = l
    BY <1>3, AppendProperties
  <2>2. DOMAIN u = 1 .. Len(u) /\ DOMAIN w = 1 .. Len(w) /\ Len(w) \in Nat
    BY <1>3, <2>1, LenProperties
  <2>3. Written(sink)' = u
    BY <1>11
  <2> HIDE DEF u, w
  <2>4. Len(w) = last - 1
    BY <1>4, <2>2 DEF w
  <2> QED
    BY <2>1, <2>2, <2>3, <2>4 DEF w
\* A line was there before, in the same place, or is the new one.
<1>14. ASSUME NEW s \in Sinks, NEW i \in DOMAIN Written(s)'
       PROVE  \/ i \in DOMAIN Written(s) /\ Written(s)'[i] = Written(s)[i]
              \/ s = sink /\ i = last /\ Written(s)'[i] = l
  <2>1. CASE s = sink
    <3>1. i \in 1 .. last
      BY <1>13, <1>14, <2>1
    <3> QED
      BY <1>13, <2>1, <3>1
  <2>2. CASE s # sink
    BY <1>12, <1>14, <2>2
  <2> QED
    BY <2>1, <2>2
<1>15. ASSUME NEW s \in Sinks, NEW i \in DOMAIN Written(s)
       PROVE  /\ Written(s)[i].thread \in Threads /\ Written(s)[i].nth \in Nat
              /\ i \in Int /\ (s = sink => i < last)
              /\ Written(s)[i].thread = t => Written(s)[i].nth < next[t]
              /\ Past(Written(s)[i])
  <2>1. Written(s)[i].thread \in Threads /\ Written(s)[i].nth \in Nat /\ i \in 1 .. Len(Written(s))
    BY <1>15, WrittenType
  <2>2. Past(Written(s)[i])
    BY <1>15 DEF KeepInv, AllPast
  <2>3. Written(s)[i].thread = t => Written(s)[i].nth < next[t]
    BY <1>5, <2>2 DEF Past
  <2>4. s = sink => i < last
    BY <1>13, <1>15, <2>1
  <2> QED
    BY <2>1, <2>2, <2>3, <2>4
<1>16. ASSUME NEW s \in Sinks, NEW i \in DOMAIN Written(s)' PROVE Past(Written(s)[i])'
  <2>1. PICK x : x = Written(s)'[i]
    OBVIOUS
  <2>2. \/ x.nth < next'[x.thread]
        \/ x.nth = next'[x.thread] /\ stage'[x.thread] \in {"flush", "abort"}
    <3>1. CASE i \in DOMAIN Written(s) /\ x = Written(s)[i]
      <4>1. x.thread \in Threads /\ x.nth \in Nat /\ Past(x) /\ (x.thread = t => x.nth < next[t])
        BY <1>15, <3>1
      <4>2. CASE x.thread = t
        BY <1>8, <1>10, <4>1, <4>2
      <4>3. CASE x.thread # t
        BY <1>9, <4>1, <4>3 DEF Past
      <4> QED
        BY <4>2, <4>3
    <3>2. CASE x = l
      BY <1>7, <1>8, <1>10, <3>2
    <3> QED
      BY <1>14, <1>16, <2>1, <3>1, <3>2
  <2> QED
    BY <2>1, <2>2 DEF Past
<1>17. ASSUME NEW s \in Sinks, NEW z \in Sinks, NEW i \in DOMAIN Written(s)',
              NEW j \in DOMAIN Written(z)',
              Written(s)'[i].thread = Written(z)'[j].thread
       PROVE  /\ Written(s)'[i].nth = Written(z)'[j].nth => s = z /\ i = j
              /\ s = z /\ i < j => Written(s)'[i].nth < Written(z)'[j].nth
  <2>1. PICK x : x = Written(s)'[i]
    OBVIOUS
  <2>2. PICK y : y = Written(z)'[j]
    OBVIOUS
  <2>3. \/ i \in DOMAIN Written(s) /\ x = Written(s)[i]
        \/ s = sink /\ i = last /\ x = l
    BY <1>14, <1>17, <2>1
  <2>4. \/ j \in DOMAIN Written(z) /\ y = Written(z)[j]
        \/ z = sink /\ j = last /\ y = l
    BY <1>14, <1>17, <2>2
  <2>5. CASE i \in DOMAIN Written(s) /\ x = Written(s)[i] /\ j \in DOMAIN Written(z) /\ y = Written(z)[j]
    <3>1. Written(s)[i].thread = Written(z)[j].thread
      BY <1>17, <2>1, <2>2, <2>5
    <3>2. /\ Written(s)[i].nth = Written(z)[j].nth => s = z /\ i = j
          /\ s = z /\ i < j => Written(s)[i].nth < Written(z)[j].nth
      BY <2>5, <3>1 DEF KeepInv, Ordered
    <3> QED
      BY <2>1, <2>2, <2>5, <3>2
  <2>6. CASE /\ i \in DOMAIN Written(s) /\ x = Written(s)[i]
             /\ z = sink /\ j = last /\ y = l
    <3>1. x.thread = t
      BY <1>7, <1>17, <2>1, <2>2, <2>6
    <3>2. x.nth < next[t] /\ x.nth \in Nat
      BY <1>15, <2>6, <3>1
    <3>3. x.nth < y.nth /\ x.nth # y.nth
      BY <1>7, <1>8, <2>6, <3>2
    <3> QED
      BY <2>1, <2>2, <3>3
  <2>7. CASE /\ s = sink /\ i = last /\ x = l
             /\ j \in DOMAIN Written(z) /\ y = Written(z)[j]
    <3>1. y.thread = t
      BY <1>7, <1>17, <2>1, <2>2, <2>7
    <3>2. y.nth < next[t] /\ y.nth \in Nat /\ j \in Int /\ (z = sink => j < last)
      BY <1>15, <2>7, <3>1
    <3>3. x.nth # y.nth /\ ~(s = z /\ i < j)
      BY <1>7, <1>8, <2>7, <3>2
    <3> QED
      BY <2>1, <2>2, <3>3
  <2>8. CASE s = sink /\ i = last /\ x = l /\ z = sink /\ j = last /\ y = l
    <3>1. s = z /\ i = j /\ ~(i < j)
      BY <2>8
    <3> QED
      BY <3>1
  <2> QED
    BY <2>3, <2>4, <2>5, <2>6, <2>7, <2>8
<1>18. ASSUME NEW z \in Threads, NEW n \in Due(z)'
       PROVE  \E s \in Sinks : \E i \in DOMAIN Written(s)' :
                  Written(s)'[i].thread = z /\ Written(s)'[i].nth = n
  <2>1. CASE n \in Due(z)
    <3>3. PICK s \in Sinks : \E i \in DOMAIN Written(s) :
              Written(s)[i].thread = z /\ Written(s)[i].nth = n
      BY <2>1 DEF KeepInv, DueWritten
    <3>1. PICK i \in DOMAIN Written(s) : Written(s)[i].thread = z /\ Written(s)[i].nth = n
      BY <3>3
    <3>2. i \in DOMAIN Written(s)' /\ Written(s)'[i] = Written(s)[i]
      <4>1. CASE s = sink
        BY <1>13, <3>1, <4>1
      <4>2. CASE s # sink
        BY <1>12, <3>1, <4>2
      <4> QED
        BY <4>1, <4>2
    <3> QED
      BY <3>1, <3>2
  <2>2. CASE n \notin Due(z)
    <3>1. next'[z] # next[z]
      BY <1>18, <2>2, DueSame
    <3>2. z = t /\ next'[t] = next[t] + 1
      BY <1>9, <1>10, <3>1
    <3>3. n = next[t]
      BY <1>8, <1>18, <2>2, <3>2 DEF Due
    <3>4. last \in DOMAIN Written(sink)' /\ Written(sink)'[last] = l
      BY <1>4, <1>13
    <3> QED
      BY <1>7, <3>2, <3>3, <3>4
  <2> QED
    BY <2>1, <2>2
<1>19. ASSUME NEW z \in Threads, stage'[z] = "abort", target'[z] \notin stuck',
              NEW i \in DOMAIN buffer'[target'[z]]
       PROVE  ~(buffer'[target'[z]][i].thread = z /\ buffer'[target'[z]][i].nth = next'[z])
  <2>1. z # t
    BY <1>10, <1>19
  <2>2. /\ stage[z] = "abort" /\ next'[z] = next[z] /\ target'[z] = target[z] /\ target[z] \in Sinks
        /\ target[z] \notin stuck
    BY <1>5, <1>9, <1>19, <2>1 DEF LogTypeOK
  <2>3. CASE target[z] # sink
    <3>1. buffer'[target[z]] = buffer[target[z]]
      BY <1>5, <2>3 DEF LogTypeOK
    <3> QED
      BY <1>19, <2>2, <3>1 DEF KeepInv, Flushed
  <2>4. CASE target[z] = sink
    <3> DEFINE b == buffer[sink]
               u == Append(b, l)
    <3>1. buffer'[sink] = u /\ b \in Seq(GoodLine)
      BY <1>5 DEF LogTypeOK
    <3>2. /\ u \in Seq(GoodLine) /\ Len(u) = Len(b) + 1
          /\ \A k \in 1 .. Len(b) : u[k] = b[k]
          /\ u[Len(b) + 1] = l
      BY <3>1, AppendProperties
    <3>3. DOMAIN u = 1 .. Len(u) /\ DOMAIN b = 1 .. Len(b) /\ Len(b) \in Nat
      BY <3>1, <3>2, LenProperties
    <3> HIDE DEF u
    <3>4. i \in 1 .. Len(b) + 1
      BY <1>19, <2>2, <2>4, <3>1, <3>2, <3>3
    <3>5. CASE i = Len(b) + 1
      BY <1>7, <2>1, <2>2, <2>4, <3>1, <3>2, <3>5
    <3>6. CASE i # Len(b) + 1
      <4>1. i \in 1 .. Len(b)
        BY <3>3, <3>4, <3>6
      <4>2. ~(b[i].thread = z /\ b[i].nth = next[z])
        BY <2>2, <2>4, <3>3, <4>1 DEF KeepInv, Flushed
      <4> QED
        BY <2>2, <2>4, <3>1, <3>2, <4>1, <4>2
    <3> QED
      BY <3>5, <3>6
  <2> QED
    BY <2>3, <2>4
<1>20. AllOut'
  BY <1>5 DEF AllOut
<1>21. AllPast'
  BY <1>16 DEF AllPast
<1>22. Ordered'
  BY <1>17 DEF Ordered
<1>23. DueWritten'
  BY <1>18 DEF DueWritten
<1>24. Flushed'
  BY <1>19 DEF Flushed
<1> QED
  BY <1>20, <1>21, <1>22, <1>23, <1>24 DEF KeepInv

----------------------------------------------------------------------------
(* The invariant is one                                                    *)

LEMMA InitLogInv == LogInit => LogInv
BY InitLine, InitKeep DEF LogInv

\* The steps of a thread.
LEMMA StepLogInv ==
    ASSUME LogInv, NEW t \in Threads, Step(t) PROVE LogInv'
<1>1. LineInv /\ KeepInv /\ LogTypeOK /\ StageOf(t)
  BY DEF LogInv, LineInv, StageRight
<1>2. CASE Skip(t)
  <2>1. /\ stage[t] = "idle" /\ next' = [next EXCEPT ![t] = @ + 1]
        /\ g_logLevel' = g_logLevel /\ g_output' = g_output /\ g_flush' = g_flush
        /\ clock' = clock /\ t_lastSecond' = t_lastSecond /\ t_time' = t_time /\ stage' = stage
        /\ impl' = impl /\ target' = target /\ disk' = disk /\ buffer' = buffer
        /\ stuck' = stuck /\ ended' = ended
    BY <1>2 DEF Skip, Running, NextStatement, hookVars, cacheVars, sinkVars
  <2>2. \/ Macro[Here(t).op].tests \/ Here(t).op = "CHECK_NOTNULL"
    BY <1>2 DEF Skip, Low
  <2>3. g_logLevel' \in TRACE .. FATAL /\ g_output' \in Sinks /\ g_flush' \in Sinks
    BY <1>1, <2>1 DEF LogTypeOK
  <2>4. LineInv'
    BY <1>1, <2>1, <2>3, PassLine
  <2> QED
    BY <1>1, <2>1, <2>2, <2>4, PassKeep DEF LogInv, LineInv
<1>3. CASE Begin(t)
  <2>1. LineInv'
    BY <1>1, <1>3, BeginLine
  <2>2. /\ stage[t] = "idle" /\ stage' = [stage EXCEPT ![t] = "construct"]
        /\ next' = next /\ target' = target /\ disk' = disk /\ buffer' = buffer
        /\ stuck' = stuck /\ ended' = ended
    BY <1>3 DEF Begin, Running, Goto, sinkVars
  <2> QED
    BY <1>1, <2>1, <2>2, WithinKeep DEF LogInv, LineInv
<1>4. CASE Construct(t)
  <2>1. LineInv'
    BY <1>1, <1>4, ConstructLine
  <2>2. /\ stage[t] = "construct" /\ stage' = [stage EXCEPT ![t] = "destroy"]
        /\ next' = next /\ target' = target /\ disk' = disk /\ buffer' = buffer
        /\ stuck' = stuck /\ ended' = ended
    BY <1>4 DEF Construct, Running, Goto, sinkVars
  <2> QED
    BY <1>1, <2>1, <2>2, WithinKeep DEF LogInv, LineInv
<1>5. CASE Destroy(t)
  <2>1. LineInv'
    BY <1>1, <1>5, DestroyLine
  <2>2. /\ stage[t] = "destroy" /\ stage' = [stage EXCEPT ![t] = "output"]
        /\ next' = next /\ target' = [target EXCEPT ![t] = g_output]
        /\ disk' = disk /\ buffer' = buffer /\ stuck' = stuck /\ ended' = ended
    BY <1>5 DEF Destroy, Running, Goto, sinkVars
  <2>3. \A z \in Threads \ {t} : target'[z] = target[z]
    BY <1>1, <2>2 DEF LogTypeOK
  <2> QED
    BY <1>1, <2>1, <2>2, <2>3, WithinKeep DEF LogInv, LineInv
<1>6. CASE Output(t)
  <2>1. LineInv'
    BY <1>1, <1>6, OutputLine
  <2> QED
    BY <1>1, <1>6, <2>1, OutputKeep DEF LogInv, LineInv
<1>7. CASE Flush(t)
  <2>1. LineInv'
    BY <1>1, <1>7, FlushLine
  <2> QED
    BY <1>1, <1>7, <2>1, FlushKeep DEF LogInv, LineInv
<1>8. CASE Abort(t)
  <2>1. LineInv'
    BY <1>1, <1>8, AbortLine
  <2>2. /\ stage' = stage /\ next' = next /\ target' = target /\ disk' = disk /\ buffer' = buffer
        /\ stuck' = stuck /\ ended' = "abort"
    BY <1>8 DEF Abort, sinkVars
  <2>3. ASSUME NEW z \in Threads PROVE next[z] <= next'[z] /\ Due(z)' \subseteq Due(z)
    <3>1. next[z] \in Nat /\ next'[z] = next[z]
      BY <1>1, <2>2 DEF LogTypeOK
    <3> QED
      BY <3>1, DueSame
  <2>4. KeepInv'
    BY <1>1, <2>1, <2>2, <2>3, QuietKeep DEF LineInv
  <2> QED
    BY <2>1, <2>4 DEF LogInv
\* The three that set a global.
<1>9. CASE SetLogLevel(t) \/ SetOutput(t) \/ SetFlush(t)
  <2>1. /\ stage[t] = "idle" /\ next' = [next EXCEPT ![t] = @ + 1]
        /\ clock' = clock /\ t_lastSecond' = t_lastSecond /\ t_time' = t_time /\ stage' = stage
        /\ impl' = impl /\ target' = target /\ disk' = disk /\ buffer' = buffer
        /\ stuck' = stuck /\ ended' = ended
        /\ next[t] \in DOMAIN Program[t] /\ Here(t).op \in Setters
    BY <1>9 DEF SetLogLevel, SetOutput, SetFlush, Sets, Running, Busy, NextStatement, cacheVars,
                sinkVars, Setters
  <2>2. Here(t).op \notin DOMAIN Macro
    BY <2>1, MacroType
  <2>3. g_logLevel' \in TRACE .. FATAL /\ g_output' \in Sinks /\ g_flush' \in Sinks
    <3>1. /\ Here(t).op = "setLogLevel" => Here(t).to \in TRACE .. FATAL
          /\ Here(t).op \in {"setOutput", "setFlush"} => Here(t).to \in Sinks
      BY <2>1, HereType DEF Here
    <3>2. g_logLevel \in TRACE .. FATAL /\ g_output \in Sinks /\ g_flush \in Sinks
      BY <1>1 DEF LogTypeOK
    <3> QED
      BY <1>9, <3>1, <3>2 DEF SetLogLevel, SetOutput, SetFlush, Sets
  <2>4. LineInv'
    BY <1>1, <2>1, <2>3, PassLine
  <2> QED
    BY <1>1, <2>1, <2>2, <2>4, PassKeep DEF LogInv, LineInv
<1> QED
  BY <1>2, <1>3, <1>4, <1>5, <1>6, <1>7, <1>8, <1>9 DEF Step

LEMMA StutterLogInv == ASSUME LogInv, UNCHANGED logVars PROVE LogInv'
<1>1. /\ clock' = clock /\ g_logLevel' = g_logLevel /\ g_output' = g_output /\ g_flush' = g_flush
      /\ t_lastSecond' = t_lastSecond /\ t_time' = t_time /\ stage' = stage /\ next' = next
      /\ impl' = impl /\ target' = target /\ disk' = disk /\ buffer' = buffer
      /\ stuck' = stuck /\ ended' = ended
  BY DEF logVars, hookVars, cacheVars, sinkVars
<1>2. LineInv /\ KeepInv /\ LogTypeOK
  BY DEF LogInv, LineInv
<1>3. LineInv'
  BY <1>1, <1>2, OutsideLine DEF LogTypeOK
<1>4. ASSUME NEW z \in Threads PROVE next[z] <= next'[z] /\ Due(z)' \subseteq Due(z)
  <2>1. next[z] \in Nat /\ next'[z] = next[z]
    BY <1>1, <1>2 DEF LogTypeOK
  <2> QED
    BY <2>1, DueSame
<1>5. KeepInv'
  BY <1>1, <1>2, <1>3, <1>4, QuietKeep DEF LineInv
<1> QED
  BY <1>3, <1>5 DEF LogInv

LEMMA NextLogInv == LogInv /\ [LogNext]_logVars => LogInv'
<1> SUFFICES ASSUME LogInv, [LogNext]_logVars PROVE LogInv'
  OBVIOUS
<1>1. LineInv /\ KeepInv /\ LogTypeOK
  BY DEF LogInv, LineInv
<1>2. CASE \E t \in Threads : Step(t)
  BY <1>2, StepLogInv
<1>3. CASE Tick
  <2>1. LineInv'
    BY <1>1, <1>3, TickLine
  <2>2. /\ stage' = stage /\ next' = next /\ target' = target /\ disk' = disk /\ buffer' = buffer
        /\ stuck' = stuck /\ ended' = ended
    BY <1>3 DEF Tick, sinkVars
  <2>3. ASSUME NEW z \in Threads PROVE next[z] <= next'[z] /\ Due(z)' \subseteq Due(z)
    <3>1. next[z] \in Nat /\ next'[z] = next[z]
      BY <1>1, <2>2 DEF LogTypeOK
    <3> QED
      BY <3>1, DueSame
  <2>4. KeepInv'
    BY <1>1, <2>1, <2>2, <2>3, QuietKeep DEF LineInv
  <2> QED
    BY <2>1, <2>4 DEF LogInv
<1>4. CASE Drain
  <2>1. LineInv'
    BY <1>1, <1>4, DrainLine
  <2> QED
    BY <1>1, <1>4, <2>1, DrainKeep DEF LogInv, LineInv
<1>5. CASE Exit
  <2>1. LineInv'
    BY <1>1, <1>5, ExitLine
  <2> QED
    BY <1>1, <1>5, <2>1, ExitKeep DEF LogInv, LineInv
<1>6. CASE LogFinished
  BY <1>6, StutterLogInv DEF LogFinished
<1>7. CASE UNCHANGED logVars
  BY <1>7, StutterLogInv
<1> QED
  BY <1>2, <1>3, <1>4, <1>5, <1>6, <1>7 DEF LogNext

LEMMA LogInvariance == LogSpec => []LogInv
BY InitLogInv, NextLogInv, PTL DEF LogSpec

\* A line that was written is a good one.
LEMMA LinesGood == ASSUME LogInv, NEW l \in Lines PROVE l \in GoodLine
<1>1. PICK s \in Sinks : l \in ToSet(Written(s))
  BY DEF Lines
<1>2. PICK i \in DOMAIN Written(s) : l = Written(s)[i]
  BY <1>1 DEF ToSet
<1> QED
  BY <1>2, WrittenType DEF LogInv, LineInv

LEMMA LogInvLineRight == LogInv => LineRight
<1> SUFFICES ASSUME LogInv, NEW l \in Lines
             PROVE  LET items   == ItemsOf(l)
                        kept    == Kept(items, l.dropped)
                        room(k) == SmallBuffer - Len(kept[k - 1])
                        base    == items[Len(items) - 3].val
                        whole   == kept[Len(items)]
                    IN  /\ l.text = IF l.cut THEN SubSeq(whole, 1, Len(l.text)) ELSE whole
                        /\ \A k \in l.dropped : Reads(items[k]) # <<>> =>
                              room(k) <= IF items[k].kind = "text" THEN Len(items[k].val)
                                         ELSE MaxNumericSize - 1
                        /\ IsBaseName(base, Program[l.thread][l.nth].file)
  BY DEF LineRight
<1> DEFINE items == ItemsOf(l)
           st == Program[l.thread][l.nth]
           all == Kept(items, l.dropped)[Len(items)]
<1>1. /\ l.thread \in Threads /\ l.time \in Times /\ st \in Statement
      /\ l.text = IF l.cut THEN SubSeq(all, 1, Len(l.text)) ELSE all
      /\ \A k \in l.dropped : NoRoom(items, l.dropped, k)
  BY LinesGood DEF GoodLine
<1>2. items = Full(l.thread, st, l.time)
  BY DEF ItemsOf, Full
<1>3. items[Len(items) - 3].val = BaseName(st.file)
  <2> HIDE DEF st, items
  <2> QED
    BY <1>1, <1>2, FullType
<1>4. IsBaseName(BaseName(st.file), st.file)
  BY <1>1, BaseNameRight DEF Statement
<1> HIDE DEF items
<1>5. \A k \in l.dropped : Reads(items[k]) # <<>> =>
          SmallBuffer - Len(Kept(items, l.dropped)[k - 1])
              <= IF items[k].kind = "text" THEN Len(items[k].val) ELSE MaxNumericSize - 1
  BY <1>1 DEF NoRoom, Needs
<1>6. IsBaseName(items[Len(items) - 3].val, st.file)
  BY <1>3, <1>4
<1> QED
  BY <1>1, <1>5, <1>6 DEF items

LEMMA LogInvInBounds == LogInv => InBounds
<1> SUFFICES ASSUME LogInv, NEW t \in Threads
             PROVE  /\ impl[t].stream.top <= SmallBuffer
                    /\ DebugString(impl[t].stream).top <= SmallBuffer
  BY DEF InBounds
<1> DEFINE b == impl[t].stream
<1>1. Fits(b)
  BY DEF LogInv, LineInv, StageRight, StageOf
<1>2. Len(b.text) \in Nat /\ Len(<<>>) = 0 /\ SmallBuffer \in Nat /\ <<>> \in Seq(Nat)
  <2>1. b.text \in Seq(Nat)
    BY <1>1 DEF Fits
  <2> HIDE DEF b
  <2> QED
    BY <2>1, SizesAssumption, LenProperties
<1> HIDE DEF b
<1>3. Fits(Store(b, <<>>, 1))
  <2>1. Len(b.text) + Len(<<>>) < SmallBuffer
    BY <1>1, <1>2 DEF Fits
  <2> QED
    BY <1>1, <1>2, <2>1, StoreFits
<1>4. b.top <= SmallBuffer /\ DebugString(b).top <= SmallBuffer
  BY <1>1, <1>3 DEF Fits, DebugString
<1> QED
  BY <1>4 DEF b

LEMMA LogInvLinesKept == LogInv => LinesKept
<1> SUFFICES ASSUME LogInv PROVE LinesKept
  OBVIOUS
<1>1. LogTypeOK /\ Ordered /\ DueWritten /\ Flushed /\ AllOut
  BY DEF LogInv, LineInv, KeepInv
<1>2. ASSUME NEW t \in Threads, NEW n \in Due(t) PROVE n \in {l.nth : l \in LinesOf(t)}
  <2>1. PICK s \in Sinks : \E i \in DOMAIN Written(s) :
            Written(s)[i].thread = t /\ Written(s)[i].nth = n
    BY <1>1 DEF DueWritten
  <2>2. PICK i \in DOMAIN Written(s) : Written(s)[i].thread = t /\ Written(s)[i].nth = n
    BY <2>1
  <2>3. Written(s)[i] \in LinesOf(t)
    BY <2>2 DEF LinesOf, Lines, ToSet
  <2> QED
    BY <2>2, <2>3
<1>3. ASSUME NEW t \in Threads, stage[t] = "abort", target[t] \notin stuck,
             NEW l \in ToSet(buffer[target[t]])
      PROVE  ~(l.thread = t /\ l.nth = next[t])
  <2>1. PICK i \in DOMAIN buffer[target[t]] : l = buffer[target[t]][i]
    BY <1>3 DEF ToSet
  <2> QED
    BY <1>1, <1>3, <2>1 DEF Flushed
<1>4. stuck \subseteq FailingSinks /\ \A l \in Lines : l.cut => l.to \in FailingSinks
  <2>1. stuck \subseteq FailingSinks
    BY <1>1 DEF LogTypeOK
  <2>2. \A l \in Lines : l.cut => l.to \in FailingSinks
    BY LinesGood DEF GoodLine
  <2> QED
    BY <2>1, <2>2
<1> QED
  BY <1>1, <1>2, <1>3, <1>4 DEF LinesKept, Ordered, AllOut

----------------------------------------------------------------------------
(* Theorems                                                                *)

\* Type correctness of Logging.cc's globals, each thread's line and the streams.
THEOREM LogTypeCorrect == LogSpec => []LogTypeOK
<1>1. LogInv => LogTypeOK
  BY DEF LogInv, LineInv
<1> QED
  BY <1>1, LogInvariance, PTL

\* Every line that was written, by operator<< and the constructors and the
\* destructor of Logger, has each of its items as a whole and in its place, or
\* without those that FixedBuffer had no room for; its date, its time, its
\* numbers and its file's name are right.  Of a line that fwrite() did not take
\* as a whole, which defaultOutput() ignores, that is so of the part it took.
THEOREM LinesAreRight == LogSpec => []LineRight
BY LogInvariance, LogInvLineRight, PTL

\* Neither the `<<' of LogStream nor debugString() writes past the end of a
\* FixedBuffer, whatever is put into it.
THEOREM StaysInBounds == LogSpec => []InBounds
BY LogInvariance, LogInvInBounds, PTL

\* Every line of a LOG_ macro that is due is handed to its stream once and not
\* overtaken by a later one of its thread; exit(), and the flush hook before a
\* FATAL line's abort(), leave none in a stream, but in those whose fflush()
\* failed, which defaultFlush() ignores.  In the streams of which the system takes
\* all it is given (those not in FailingSinks) all lines are whole, none is lost.
THEOREM LinesAreKept == LogSpec => []LinesKept
BY LogInvariance, LogInvLinesKept, PTL

=============================================================================
