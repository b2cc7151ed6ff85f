------------------------------ MODULE FileUtil ------------------------------
(***************************************************************************)
(* FileUtil.h and FileUtil.cc: a client names a file by a StringPiece and  *)
(* reads it through a SmallFile while other programs change the file and   *)
(* system calls fail or return less than they were asked for.              *)
(***************************************************************************)
EXTENDS StringPiece, FiniteSets

CONSTANTS Starts,       \* the C strings in Memory the client starts from
          Files,        \* Files[n]: the file of name n at the start, [kind, bytes]
          MaxSizes,     \* the values of maxSize
          WantSizes,    \* whether a fileSize pointer is passed
          BufferSize,   \* kBufferSize
          MaxBytes,     \* bound: a file has at most this many bytes
          MaxCalls      \* bound: calls made of one SmallFile

Names == DOMAIN Files
NoFile == <<>>

\* The errors a call may give; open() fails with ENOENT or EFAULT besides.
ENOENT == 2
EIO == 5        \* EINTR, EMFILE and all others
EFAULT == 14
EISDIR == 21
Raw == 300      \* a byte of buf_ that was never written

\* What is at a name: stat() tells the kind, read() and pread() the bytes.
File == [kind : {"regular", "directory", "other"}, bytes : Seq(Nat)]

ASSUME FilesAssumption == /\ Files \in [Names -> File] /\ NoFile \notin Names
                          /\ MaxBytes \in Nat

ASSUME CallsAssumption == /\ MaxSizes \subseteq Int /\ WantSizes \subseteq BOOLEAN
                          /\ BufferSize \in Nat \ {0, 1}

\* The C strings, and the buffers of up to two characters that start there,
\* lie in Memory.
ASSUME StartsAssumption == Starts \subseteq 1 .. Len(Memory) - 1

VARIABLES name,         \* the StringPiece the client has made
          other,        \* another one, for comparisons
          file,         \* file[n]: what the file of name n is now
          fd_, err_, buf_,  \* of the SmallFile: fd_ is [name, offset], NoFd when < 0
          content,      \* *content
          fileSize,     \* *fileSize, or *size; -1 while it is not set
          err,          \* the local err, in the end the result
          pc, calls,
          args,         \* of the call: op, maxSize, fileSize # NULL
          start,        \* history: offset and size of the file when the call began
          change,       \* history: "none", "grown" or "shrunk" since then
          refused       \* history: whether a system call has failed in this call

objectVars == <<fd_, err_, buf_>>
callVars == <<content, fileSize, err, args, start, change, refused>>
pieceVars == <<name, other>>
vars == <<pieceVars, file, objectVars, callVars, pc, calls>>

NoFd == [name |-> NoFile, offset |-> 0]
Opened == file[fd_.name]

Init == /\ name \in {OfCString(s) : s \in Starts} /\ other = name
        /\ file = Files
        /\ fd_ = NoFd /\ err_ = 0 /\ buf_ = [k \in 1 .. BufferSize |-> Raw]
        /\ content = <<>> /\ fileSize = -1 /\ err = 0
        /\ args = [op |-> "none", maxSize |-> 0, sized |-> FALSE]
        /\ start = [offset |-> 0, size |-> 0] /\ change = "none" /\ refused = FALSE
        /\ pc = "naming" /\ calls = 0

----------------------------------------------------------------------------
(* The client makes a name *)

\* clear(), remove_prefix() and remove_suffix().
Cut(x) == {NullPiece} \cup {RemovePrefix(x, n) : n \in 1 .. x.len}
                      \cup {RemoveSuffix(x, n) : n \in 1 .. x.len}

EditName == /\ pc = "naming"
            /\ name' \in Cut(name)
            /\ UNCHANGED <<other, file, objectVars, callVars, pc, calls>>

EditOther == /\ pc = "naming"
             /\ other' \in Cut(other) \cup {OfBuffer(s, n) : s \in Starts, n \in 0 .. 2}
             /\ UNCHANGED <<name, file, objectVars, callVars, pc, calls>>

----------------------------------------------------------------------------
(* The SmallFile *)

\* What open() takes from data(): it reads to the next NUL, whatever length_ is.
PathOf(x) == AsString(OfCString(x.ptr))

\* SmallFile's constructor.
Open == /\ pc = "naming"
        /\ \/ /\ name.ptr # 0 /\ PathOf(name) \in Names
              /\ fd_' = [name |-> PathOf(name), offset |-> 0] /\ err_' = 0
           \/ /\ fd_' = NoFd
              /\ err_' = IF name.ptr = 0 THEN EFAULT
                         ELSE IF PathOf(name) \in Names THEN EIO ELSE ENOENT
        /\ buf_' = [buf_ EXCEPT ![1] = NUL]
        /\ other' = NullPiece       \* of no use any more
        /\ pc' = "idle"
        /\ UNCHANGED <<name, file, callVars, calls>>

\* readToString() up to the early returns, which leave *content alone.
Enter == /\ pc = "idle" /\ calls < MaxCalls
         /\ calls' = calls + 1
         /\ \E maxSize \in MaxSizes, sized \in WantSizes :
               /\ args' = [op |-> "string", maxSize |-> maxSize, sized |-> sized]
               /\ IF fd_ = NoFd \/ ~sized
                  THEN pc' = "returned" /\ content' = content
                  ELSE pc' = "stat" /\ content' = <<>>
         /\ err' = err_
         /\ fileSize' = -1
         /\ start' = [offset |-> fd_.offset, size |-> IF fd_ = NoFd THEN 0 ELSE Len(Opened.bytes)]
         /\ change' = "none" /\ refused' = FALSE
         /\ UNCHANGED <<pieceVars, file, objectVars>>

\* fstat(): only of a regular file is the size taken; reserve() throws
\* length_error when maxSize is negative.
Stat == /\ pc = "stat"
        /\ IF Opened.kind = "regular"
           THEN /\ fileSize' = Len(Opened.bytes)
                /\ pc' = IF args.maxSize < 0 THEN "thrown" ELSE "loop"
           ELSE fileSize' = fileSize /\ pc' = "loop"
        /\ err' = IF Opened.kind = "directory" THEN EISDIR ELSE err
        /\ UNCHANGED <<pieceVars, file, objectVars, content, args, start, change, refused, calls>>

StatFails == /\ pc = "stat"
             /\ err' = EIO /\ refused' = TRUE
             /\ pc' = "loop"
             /\ UNCHANGED <<pieceVars, file, objectVars, content, fileSize, args, start, change, calls>>

\* implicit_cast<size_t>(maxSize): a negative one is a huge one.
Limit == IF args.maxSize < 0 THEN 2 * MaxBytes ELSE args.maxSize

\* A chunk, of which the last one is as long as what is missing.
ToRead == Min({Limit - Len(content), BufferSize})

Bytes(offset, n) == SubSeq(Opened.bytes, offset + 1, offset + n)
Filled(bytes) == [k \in 1 .. BufferSize |-> IF k <= Len(bytes) THEN bytes[k] ELSE buf_[k]]

\* Faulty: a read that returns less than it was asked for ends the loop.
ReadOnce == /\ pc = "loop" /\ Len(content) < Limit
            /\ Opened.kind # "directory"
            /\ \E n \in 1 .. Min({ToRead, Len(Opened.bytes) - fd_.offset}) :
                  /\ content' = content \o Bytes(fd_.offset, n)
                  /\ buf_' = Filled(Bytes(fd_.offset, n))
                  /\ fd_' = [fd_ EXCEPT !.offset = @ + n]
                  /\ pc' = IF n < ToRead THEN "returned" ELSE "loop"
            /\ UNCHANGED <<pieceVars, file, err_, fileSize, err, args, start, change, refused, calls>>

\* read() gives up to what is left, at least one byte.
Read == /\ pc = "loop" /\ Len(content) < Limit
        /\ Opened.kind # "directory"
        /\ \E n \in 1 .. Min({ToRead, Len(Opened.bytes) - fd_.offset}) :
              /\ content' = content \o Bytes(fd_.offset, n)
              /\ buf_' = Filled(Bytes(fd_.offset, n))
              /\ fd_' = [fd_ EXCEPT !.offset = @ + n]
        /\ UNCHANGED <<pieceVars, file, err_, fileSize, err, args, start, change, refused, pc, calls>>

\* read() of the end of the file, or an error.
ReadNothing == /\ pc = "loop" /\ Len(content) < Limit
               /\ \/ Opened.kind # "directory" /\ fd_.offset >= Len(Opened.bytes)
                     /\ UNCHANGED <<err, refused>>
                  \/ /\ err' = IF Opened.kind = "directory" THEN EISDIR ELSE EIO
                     /\ refused' = TRUE
               /\ pc' = "returned"
               /\ UNCHANGED <<pieceVars, file, objectVars, content, fileSize, args, start, change, calls>>

LoopEnds == /\ pc = "loop" /\ Len(content) >= Limit
            /\ pc' = "returned"
            /\ UNCHANGED <<pieceVars, file, objectVars, callVars, calls>>

\* readToBuffer(): pread() from the start of the file, and a NUL after it.
ReadToBuffer ==
    /\ pc = "idle" /\ calls < MaxCalls
    /\ calls' = calls + 1
    /\ args' = [op |-> "buffer", maxSize |-> BufferSize - 1, sized |-> TRUE]
    /\ \/ /\ fd_ # NoFd /\ Opened.kind # "directory"
          /\ \E n \in 0 .. Min({BufferSize - 1, Len(Opened.bytes)}) :
                /\ n = 0 => Opened.bytes = <<>>
                /\ buf_' = Filled(Append(Bytes(0, n), NUL))
                /\ fileSize' = n
          /\ err' = err_ /\ refused' = FALSE
       \/ /\ err' = IF fd_ = NoFd THEN err_ ELSE IF Opened.kind = "directory" THEN EISDIR ELSE EIO
          /\ refused' = TRUE
          /\ buf_' = buf_ /\ fileSize' = -1
    /\ pc' = "returned"
    /\ UNCHANGED <<pieceVars, file, fd_, err_, content, start, change>>

\* The client looks at the result and may call again, on the same object.
Again == /\ pc = "returned"
         /\ pc' = "idle"
         /\ UNCHANGED <<pieceVars, file, objectVars, callVars, calls>>

\* The destructor, by an exception too; readFile() comes here after one call.
Close == /\ pc \in {"idle", "returned", "thrown"}
         /\ fd_' = NoFd
         /\ pc' = "closed"
         /\ UNCHANGED <<pieceVars, file, err_, buf_, callVars, calls>>

----------------------------------------------------------------------------
(* Other programs *)

InUse == pc \in {"stat", "loop"} /\ Opened.kind # "directory"

\* They write at the end of the file, or cut its end off.
Grow == /\ InUse /\ Len(Opened.bytes) < MaxBytes
        /\ file' = [file EXCEPT ![fd_.name].bytes = Append(@, Len(@) + 1)]
        /\ change' = IF change = "none" THEN "grown" ELSE change
        /\ UNCHANGED <<pieceVars, objectVars, content, fileSize, err, args, start, refused, pc, calls>>

Shrink == /\ InUse /\ Opened.bytes # <<>>
          /\ file' = [file EXCEPT ![fd_.name].bytes = Front(@)]
          /\ change' = "shrunk"
          /\ UNCHANGED <<pieceVars, objectVars, content, fileSize, err, args, start, refused, pc, calls>>

Finished == pc = "closed" /\ UNCHANGED vars

Next == \/ EditName \/ EditOther \/ Open \/ Enter \/ Stat \/ StatFails \/ Read \/ ReadNothing
        \/ LoopEnds \/ ReadToBuffer \/ Again \/ Close \/ Grow \/ Shrink \/ Finished

Spec == Init /\ [][Next]_vars

----------------------------------------------------------------------------
(* Properties *)

Done == pc = "returned" /\ fd_ # NoFd
Asked == Min({Limit, Max({0, start.size - start.offset})})

\* A result of zero means that nothing failed and that the content is the file
\* from where it was read: all of it up to maxSize, unless it was cut off
\* meanwhile, and not more.  A failure is always reported, an error in the
\* middle leaves the bytes read before it, and the file is the one named, if
\* the name ends where its C string does.  What readToBuffer() leaves in the
\* buffer is the beginning of the file with a NUL after it.
ContentRight ==
    /\ fd_ # NoFd /\ Strlen(name.ptr) = name.len => fd_.name = AsString(name)
    /\ Done /\ args.op = "string" /\ args.sized =>
          /\ Len(content) <= Limit
          /\ err = 0 <=> ~refused /\ Opened.kind # "directory"
          /\ change # "shrunk" =>
                content = SubSeq(Opened.bytes, start.offset + 1, start.offset + Len(content))
          /\ err = 0 /\ change # "shrunk" => Len(content) >= Asked
          /\ err = 0 /\ change = "none" =>
                Len(content) = Asked /\ fileSize = IF Opened.kind = "regular" THEN start.size ELSE -1
    /\ Done /\ args.op = "buffer" =>
          IF refused THEN err # 0
          ELSE /\ err = 0 /\ buf_[fileSize + 1] = NUL
               /\ SubSeq(buf_, 1, fileSize) = Bytes(0, fileSize)

\* readFile() that returns zero has read the file: at least a byte of it, if
\* there is one and maxSize allows it (FileUtil.h:55, ProcessInfo.cc:116).
ReadsTheFile ==
    Done /\ args.op = "string" /\ err = 0 /\ change = "none" /\ Asked > 0 => content # <<>>

\* The order of two strings, by the first character in which they differ.
Before(s, t) ==
    \/ IsStrictPrefix(s, t)
    \/ \E k \in 1 .. Min({Len(s), Len(t)}) :
          s[k] < t[k] /\ \A j \in 1 .. k - 1 : s[j] = t[j]

\* The comparisons of pieces are those of the strings they stand for: exactly
\* one of <, == and > holds, and compare(), <=, >= and starts_with() agree.
OrderRight ==
    LET s == AsString(name)
        t == AsString(other)
    IN  /\ Equal(name, other) <=> s = t
        /\ Less(name, other) <=> Before(s, t)
        /\ Greater(name, other) <=> Before(t, s)
        /\ LessEqual(name, other) <=> ~Before(t, s)
        /\ GreaterEqual(name, other) <=> ~Before(s, t)
        /\ Compare(name, other) < 0 <=> Before(s, t)
        /\ Compare(name, other) = 0 <=> s = t
        /\ StartsWith(name, other) <=> IsPrefix(t, s)

=============================================================================
