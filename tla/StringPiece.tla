---------------------------- MODULE StringPiece ----------------------------
(***************************************************************************)
(* StringPiece.h: a pointer and a length into memory it does not own, as   *)
(* operators on pieces.  Memory is a sequence of character codes, each     *)
(* string ended by a NUL; a pointer is an index, 0 for NULL.               *)
(***************************************************************************)
EXTENDS Integers, Sequences, SequencesExt, FiniteSetsExt

CONSTANT Memory

NUL == 0

ASSUME MemoryAssumption == /\ Memory \in Seq(Nat) /\ Memory # <<>>
                           /\ Memory[Len(Memory)] = NUL

\* strlen() of what p points at.
Strlen(p) == Min({k \in p .. Len(Memory) : Memory[k] = NUL}) - p

\* The constructors, clear() and set(): nothing, a C string, a buffer.
NullPiece == [ptr |-> 0, len |-> 0]
OfCString(str) == [ptr |-> str, len |-> Strlen(str)]
OfBuffer(buffer, len) == [ptr |-> buffer, len |-> len]

RemovePrefix(x, n) == [ptr |-> x.ptr + n, len |-> x.len - n]
RemoveSuffix(x, n) == [x EXCEPT !.len = @ - n]

\* as_string(), CopyToString().
AsString(x) == SubSeq(Memory, x.ptr, x.ptr + x.len - 1)

\* memcmp(): the sign of the first difference within n characters.
Memcmp(x, y, n) ==
    LET differ == {k \in 0 .. n - 1 : Memory[x.ptr + k] # Memory[y.ptr + k]}
    IN  IF differ = {} THEN 0
        ELSE Memory[x.ptr + Min(differ)] - Memory[y.ptr + Min(differ)]

Shorter(x, y) == IF x.len < y.len THEN x.len ELSE y.len

\* operator==.
Equal(x, y) == x.len = y.len /\ Memcmp(x, y, x.len) = 0

\* STRINGPIECE_BINARY_PREDICATE(cmp, auxcmp): auxcmp decides where the pieces
\* differ, cmp on their lengths where the shorter one is a prefix.
Common(x, y) == Memcmp(x, y, Shorter(x, y))

Less(x, y) == Common(x, y) < 0 \/ (Common(x, y) = 0 /\ x.len < y.len)
LessEqual(x, y) == Common(x, y) < 0 \/ (Common(x, y) = 0 /\ x.len <= y.len)
GreaterEqual(x, y) == Common(x, y) > 0 \/ (Common(x, y) = 0 /\ x.len >= y.len)
Greater(x, y) == Common(x, y) > 0 \/ (Common(x, y) = 0 /\ x.len > y.len)

\* Faulty: a piece and a longer one that starts with it compare equal.
CompareShorter(x, y) == Common(x, y)

Compare(x, y) ==
    CASE Common(x, y) # 0                 -> Common(x, y)
      [] Common(x, y) = 0 /\ x.len < y.len -> -1
      [] Common(x, y) = 0 /\ x.len > y.len -> 1
      [] Common(x, y) = 0 /\ x.len = y.len -> 0

StartsWith(x, y) == x.len >= y.len /\ Memcmp(x, y, y.len) = 0

=============================================================================
