------------------------------- MODULE RecordFile -------------------------------
(***************************************************************************)
(* SysOpy/lab2/src/zad1/zad1.c: a tool that generates, sorts and copies    *)
(* files of records of a fixed size.  Sorting is an insertion sort in the  *)
(* file itself, on the first byte of a record; its buffers hold two        *)
(* records.  The modes lib and sys make the same calls in the same order,  *)
(* and are one here, because reads and writes of an open file are taken    *)
(* not to fail.  Nobody checks: where a read failed, copy would stop in    *)
(* the mode lib (a count of 0), and in the mode sys take the -1 for bytes  *)
(* and go on for ever (zad1.c:257).                                        *)
(*                                                                         *)
(* Files and records are sequences of bytes; a record may be cut by the    *)
(* end of the file, when the numbers given do not fit it.                  *)
(***************************************************************************)
EXTENDS Integers, Sequences, FiniteSets, FiniteSetsExt

CONSTANTS Bytes,        \* bytes a record may hold, out of 0 .. 255
          RecordSizes, BufferSizes,
          MaxBytes,     \* bound: bytes of a file
          MaxCommands   \* bound: commands run one after the other

RecordFileAssumption ==
    /\ Bytes \subseteq 0 .. 255 /\ MaxBytes \in Nat /\ MaxCommands \in Nat
    /\ RecordSizes \subseteq Nat \ {0} /\ BufferSizes \subseteq Nat \ {0}

VARIABLES
    source, destination,    \* the files
    cmd,                    \* the command: op, n records of size bytes, buffer of buf bytes
    at,                     \* "shell", or where the loops of the command are
    i, j, buffer1, buffer2, \* locals of sort
    recNum, offset,         \* locals of copy, and where both files are read and written
    old, commands           \* history: source as the command found it, commands run

sortVars == <<i, j, buffer1, buffer2>>
copyVars == <<recNum, offset, destination>>
history == <<old, commands>>
vars == <<source, cmd, at, sortVars, copyVars, history>>

None == [op |-> "none", n |-> 0, size |-> 1, buf |-> 1]

Init ==
    /\ source = <<>> /\ destination = <<>> /\ cmd = None /\ at = "shell"
    /\ i = 0 /\ j = 0 /\ buffer1 = <<>> /\ buffer2 = <<>>
    /\ recNum = 0 /\ offset = 0 /\ old = <<>> /\ commands = 0

\* fseek and fread: bytes beyond the end of the file leave the buffer as it was.
Read(buffer, r) ==
    [k \in 1 .. cmd.size |-> IF cmd.size * r + k <= Len(source) THEN source[cmd.size * r + k] ELSE buffer[k]]

\* fseek and fwrite: the file grows when it must.
Written(buffer, r) ==
    [k \in 1 .. Max({Len(source), cmd.size * (r + 1)}) |->
        IF k \in cmd.size * r + 1 .. cmd.size * (r + 1) THEN buffer[k - cmd.size * r]
        ELSE IF k <= Len(source) THEN source[k] ELSE 0]

-----------------------------------------------------------------------------
(* Commands                                                                *)

\* A run of the program with numbers that fit the bound.
Called(n, size) == at = "shell" /\ n * size <= MaxBytes /\ commands < MaxCommands /\ commands' = commands + 1

\* What is random in a generated record is any choice of its bytes.
Generate(n, size) ==
    /\ Called(n, size)
    /\ source' \in [1 .. n * size -> Bytes] /\ old' = source'
    /\ cmd' = [None EXCEPT !.op = "generate", !.n = n, !.size = size]
    /\ UNCHANGED <<at, sortVars, copyVars>>

StartSort(n, size) ==
    /\ Called(n, size) /\ at' = "sorts" /\ old' = source
    /\ cmd' = [None EXCEPT !.op = "sort", !.n = n, !.size = size]
    /\ i' = 1 /\ j' = 0 /\ buffer1' = [k \in 1 .. size |-> 0] /\ buffer2' = buffer1'
    /\ UNCHANGED <<source, copyVars>>

StartCopy(n, size, buf) ==
    /\ Called(n, size) /\ at' = "copies" /\ old' = source
    /\ cmd' = [op |-> "copy", n |-> n, size |-> size, buf |-> buf]
    /\ recNum' = n * size /\ offset' = 0 /\ destination' = <<>>
    /\ UNCHANGED <<source, sortVars>>

-----------------------------------------------------------------------------
(* sort                                                                    *)

\* Mutant: the bytes are compared as signed ones.
SmallerSigned(a, b) == LET value(c) == IF c > 127 THEN c - 256 ELSE c IN value(a[1]) < value(b[1])

Smaller(a, b) == a[1] < b[1]

TakeRecord ==
    /\ at = "sorts" /\ i < cmd.n /\ at' = "shifts"
    /\ buffer1' = Read(buffer1, i) /\ j' = i - 1
    /\ UNCHANGED <<source, cmd, i, buffer2, copyVars, history>>

Shift ==
    LET b == Read(buffer2, j) IN
    /\ at = "shifts" /\ buffer2' = b /\ j' = j - 1
    /\ source' = IF Smaller(buffer1, b) THEN Written(b, j + 1) ELSE source
    /\ at' = IF Smaller(buffer1, b) /\ j' >= 0 THEN at ELSE "places"
    /\ UNCHANGED <<cmd, i, buffer1, copyVars, history>>

Gap == IF Smaller(buffer1, buffer2) THEN j + 1 ELSE j + 2

Place ==
    /\ at = "places" /\ at' = "sorts"
    /\ source' = Written(buffer1, Gap) /\ i' = i + 1
    /\ UNCHANGED <<cmd, j, buffer1, buffer2, copyVars, history>>

EndSort ==
    /\ at = "sorts" /\ i >= cmd.n /\ at' = "shell"
    /\ i' = 0 /\ j' = 0 /\ buffer1' = <<>> /\ buffer2' = <<>>
    /\ UNCHANGED <<source, cmd, copyVars, history>>

SortStep == TakeRecord \/ Shift \/ Place \/ EndSort

-----------------------------------------------------------------------------
(* copy                                                                    *)

\* Another buffer of source is read, and written as far as it is asked for.
CopyBuffer ==
    LET got == Min({cmd.buf, Len(source) - offset})
        put == IF recNum - got > 0 THEN got ELSE recNum
    IN  /\ at = "copies" /\ got > 0 /\ recNum > 0
        /\ destination' = destination \o SubSeq(source, offset + 1, offset + put)
        /\ recNum' = recNum - got /\ offset' = offset + got
        /\ UNCHANGED <<source, cmd, at, sortVars, history>>

EndCopy ==
    /\ at = "copies" /\ (offset = Len(source) \/ recNum <= 0) /\ at' = "shell"
    /\ recNum' = 0 /\ offset' = 0 /\ UNCHANGED <<source, destination, cmd, sortVars, history>>

CopyStep == CopyBuffer \/ EndCopy

Next ==
    \/ \E n \in 0 .. MaxBytes, size \in RecordSizes :
          \/ Generate(n, size) \/ StartSort(n, size)
          \/ \E buf \in BufferSizes : StartCopy(n, size, buf)
    \/ SortStep \/ CopyStep

Spec == Init /\ [][Next]_vars

-----------------------------------------------------------------------------
(* Properties                                                              *)

TypeOK ==
    /\ source \in Seq(0 .. 255) /\ destination \in Seq(0 .. 255) /\ old \in Seq(0 .. 255)
    /\ cmd \in [op : {"none", "generate", "sort", "copy"}, n : Nat, size : Nat \ {0}, buf : Nat \ {0}]
    /\ at \in {"shell", "sorts", "shifts", "places", "copies"}
    /\ commands \in 0 .. MaxCommands /\ i \in Nat /\ j \in -1 .. MaxBytes /\ recNum \in Int /\ offset \in Nat
    /\ buffer1 \in Seq(0 .. 255) /\ buffer2 \in Seq(0 .. 255)

Record(f, r) == SubSeq(f, cmd.size * r + 1, cmd.size * (r + 1))

\* Where the records of f go that are stably sorted up to record m.
Rank(f, m, r) ==
    IF r >= m THEN r
    ELSE Cardinality({k \in 0 .. m - 1 : \/ Record(f, k)[1] < Record(f, r)[1]
                                         \/ Record(f, k)[1] = Record(f, r)[1] /\ k < r})

IsSorted(f, from, m) == \A r \in 0 .. cmd.n - 1 : Record(f, Rank(from, m, r)) = Record(from, r)

\* zad1.c:141-163: between any two calls of the sort, the record in buffer1 and the
\* file without its copy at the gap are the records there were: what a sort loses
\* when it is killed is at most that one record.
OneRecordInHand ==
    cmd.op = "sort" /\ at \in {"shifts", "places"} /\ cmd.n * cmd.size <= Len(old) =>
        LET gap == IF at = "shifts" THEN j + 1 ELSE Gap
            f == Written(buffer1, gap)
            recs(g, r) == Cardinality({k \in 0 .. cmd.n - 1 : Record(g, k) = r})
        IN  /\ gap \in 0 .. i
            /\ \A k \in 0 .. cmd.n - 1 : recs(f, Record(old, k)) = recs(old, Record(old, k))
            /\ at = "places" => IsSorted(f, old, i + 1)

\* What a command has done when it ends.  A sort of no more records than the file
\* has orders them by their first byte, leaves equal ones in their order, and
\* leaves what follows them alone; one byte more than asked for is never copied
\* (zad1.c:229-237), whatever the size of the buffer.
CommandDone ==
    at = "shell" =>
        /\ cmd.op = "sort" /\ cmd.n * cmd.size <= Len(old) =>
              /\ IsSorted(source, old, cmd.n) /\ Len(source) = Len(old)
              /\ SubSeq(source, cmd.n * cmd.size + 1, Len(old)) = SubSeq(old, cmd.n * cmd.size + 1, Len(old))
        /\ cmd.op = "copy" => /\ destination = SubSeq(old, 1, Min({cmd.n * cmd.size, Len(old)}))
                              /\ source = old

\* All of it, at every step of a command.
RecordsKept == TypeOK /\ OneRecordInHand /\ CommandDone
=================================================================================
