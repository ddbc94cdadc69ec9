------------------------------- MODULE Streams -------------------------------
(***************************************************************************)
(* Streams and readers: a MemoryStream or FileStream (bcl/system_io.go),   *)
(* the StringReader or StreamReader made of one (system_io_stringreader.go, *)
(* system_io_streamreader.go), and how a StreamReader empties a Stream of  *)
(* the plugin's own (Machine.readAllBytesFromStream).                      *)
(*                                                                         *)
(* A FileStream is a MemoryStream whose bytes are written to the file when *)
(* it is closed.  The plugin's stream is any implementation of Read: it    *)
(* gives as many bytes as it likes, at most what is asked, none at its end. *)
(* "plain" is a Go error.                                                  *)
(***************************************************************************)
EXTENDS Integers, Sequences, SequencesExt, FiniteSets

CONSTANTS Contents,   \* what a stream may be made with
          Pieces,     \* what may be written to it
          Size,       \* how much the plugin's stream has
          Chunk,      \* how many bytes a StreamReader asks it for
          MaxLength,  \* bounds of the model: a stream's length,
          MaxChanges  \* and the calls that change it

CR == 13
LF == 10
Mark == 239   \* the UTF-8 byte order mark
NotMade == <<-9>> \* no file, no reader yet
Text == [i \in 1..Size |-> i]

VARIABLES buf, pos, closed, \* nativeMemoryStream
          disk,             \* the file's content
          log,              \* history: what was written and cut, and where
          last,             \* history: the last call that read
          runes, at,        \* nativeStringReader
          heard,            \* history: what its caller was given
          left, all, reading \* the plugin's stream, what it gave, and whether one is read at all

stream == <<buf, pos, closed, disk, log, last>>
reader == <<runes, at, heard>>
plugin == <<left, all, reading>>
svars == <<stream, reader, plugin>>

Least(a, b) == IF a < b THEN a ELSE b
Greatest(a, b) == IF a > b THEN a ELSE b
Part(s, start, end) == SubSeq(s, start + 1, end)
Did(op, from, got) == [op |-> op, from |-> from, got |-> got]
Quiet == Did("none", 0, <<>>)

Init ==
    /\ buf \in Contents \cup {<<>>} /\ pos = 0 /\ closed = FALSE /\ disk = NotMade
    /\ log = <<[op |-> "write", at |-> 0, bytes |-> buf]>> /\ last = Quiet
    /\ runes = NotMade /\ at = 0 /\ heard = <<>>
    /\ left = Text /\ all = <<>> /\ reading \in {"no", "yes"} /\ (reading = "yes" => buf = <<>>)

-----------------------------------------------------------------------------
\* MemoryStream and FileStream.

writeAt(b, p, s) ==
    [i \in 1..Greatest(Len(b), p + Len(s)) |->
        IF i - p \in DOMAIN s THEN s[i - p] ELSE IF i <= Len(b) THEN b[i] ELSE 0]
\* What Read gives and where it leaves the position.
Available(count) == Least(count, Greatest(Len(buf) - pos, 0))

Changes == Len(log) <= MaxChanges /\ UNCHANGED <<reader, plugin>>
Asks == UNCHANGED <<reader, plugin, buf, closed, disk, log>>
Fails == last' = Did("failed", pos, <<>>) /\ UNCHANGED pos

\* Mutant: what is written goes behind the end.
msWriteAppends(s) ==
    /\ Changes /\ pos \in 0..MaxLength /\ Len(buf) + Len(s) <= MaxLength
    /\ buf' = buf \o s /\ pos' = pos + Len(s)
    /\ log' = Append(log, [op |-> "write", at |-> pos, bytes |-> s])
    /\ last' = Quiet /\ UNCHANGED <<closed, disk>>
\* Writing is not refused after Close.
msWrite(s) ==
    /\ Changes /\ pos \in 0..MaxLength /\ pos + Len(s) <= MaxLength
    /\ buf' = writeAt(buf, pos, s) /\ pos' = pos + Len(s)
    /\ log' = Append(log, [op |-> "write", at |-> pos, bytes |-> s])
    /\ last' = Quiet /\ UNCHANGED <<closed, disk>>
\* A position before the start is found out by the slice.
msWriteBefore == pos < 0 /\ Asks /\ Fails

msRead(count) ==
    /\ pos >= 0 /\ Asks
    /\ last' = Did("read", pos, Part(buf, pos, pos + Available(count)))
    /\ pos' = pos + Available(count)
msReadBefore(count) ==
    /\ pos < 0 /\ Asks
    /\ IF Available(count) > 0 THEN Fails ELSE last' = Quiet /\ UNCHANGED pos
\* -1 at the end.
msReadByte ==
    /\ Asks
    /\ IF pos < 0 THEN Fails
       ELSE IF pos >= Len(buf) THEN last' = Did("byte", pos, <<-1>>) /\ UNCHANGED pos
       ELSE last' = Did("byte", pos, <<buf[pos + 1]>>) /\ pos' = pos + 1

\* An origin is the beginning, the position or the end.
msSeek(origin, offset) ==
    LET base == CASE origin = 1 -> pos [] origin = 2 -> Len(buf) [] OTHER -> 0
    IN /\ Asks /\ base + offset <= MaxLength
       /\ IF base + offset < 0 THEN Fails
          ELSE last' = Quiet /\ pos' = base + offset
msSetPosition(p) == Asks /\ pos' = p /\ last' = Quiet
\* A negative length is none.
msSetLength(n) ==
    LET size == Greatest(n, 0)
    IN /\ Changes
       /\ buf' = [i \in 1..size |-> IF i <= Len(buf) THEN buf[i] ELSE 0]
       /\ pos' = Least(pos, size)
       /\ log' = Append(log, [op |-> "length", at |-> size, bytes |-> <<>>])
       /\ last' = Quiet /\ UNCHANGED <<closed, disk>>
\* To another stream, which has then got the rest.
msCopyTo ==
    /\ Asks
    /\ IF pos \in 0..Len(buf) THEN last' = Did("read", pos, Part(buf, pos, Len(buf))) /\ pos' = Len(buf)
       ELSE Fails
msToArray == Asks /\ last' = Did("copy", 0, buf) /\ UNCHANGED pos
\* The first Close of a FileStream that the file system lets through writes it.
msClose(works) ==
    /\ UNCHANGED <<buf, pos, log, last, reader, plugin>>
    /\ IF ~closed /\ ~works THEN UNCHANGED <<closed, disk>>
       ELSE closed' = TRUE /\ disk' = (IF closed THEN disk ELSE buf)

-----------------------------------------------------------------------------
\* StringReader, and StreamReader over a stream of the library.

\* From the position on; from the start if the position is not in the stream.
MemoryStreamBytesFromCurrentPosition == IF pos > 0 /\ pos <= Len(buf) THEN Part(buf, pos, Len(buf)) ELSE buf
NewStreamReaderFromBytes(bytes) ==
    /\ runes' = (IF bytes # <<>> /\ bytes[1] = Mark THEN Tail(bytes) ELSE bytes)
    /\ at' = 0 /\ heard' = <<>>
\* The stream keeps its position.
NewStreamReader ==
    NewStreamReaderFromBytes(MemoryStreamBytesFromCurrentPosition) /\ UNCHANGED <<stream, plugin>>

Heard(is, s) == heard' = Append(heard, [is |-> is, s |-> s])
Reads == runes # NotMade /\ UNCHANGED <<stream, plugin, runes>>
More == at < Len(runes)
stringReaderRead == Reads /\ More /\ Heard("char", <<runes[at + 1]>>) /\ at' = at + 1
stringReaderReadBlock(count) ==
    LET n == Least(count, Len(runes) - at)
    IN Reads /\ More /\ Heard("rest", Part(runes, at, at + n)) /\ at' = at + n
\* Up to CR, LF or CR LF.
stringReaderReadLine ==
    LET ends == {i \in (at + 1)..Len(runes) : runes[i] \in {CR, LF}}
        end == CHOOSE i \in ends : \A j \in ends : i <= j
    IN /\ Reads /\ More
       /\ IF ends = {} THEN Heard("line", Part(runes, at, Len(runes))) /\ at' = Len(runes)
          ELSE /\ Heard("line", Part(runes, at, end - 1))
               /\ at' = IF runes[end] = CR /\ end < Len(runes) /\ runes[end + 1] = LF THEN end + 1 ELSE end
stringReaderReadToEnd == Reads /\ More /\ Heard("rest", Part(runes, at, Len(runes))) /\ at' = Len(runes)

-----------------------------------------------------------------------------
\* StreamReader over the plugin's stream: Read is called until it gives nothing,
\* or less than it was asked for.

readAllBytesFromStream ==
    /\ reading = "yes" /\ UNCHANGED <<stream, reader>>
    /\ \E n \in 0..Least(Chunk, Len(left)) :
          /\ n = 0 => left = <<>>
          /\ all' = all \o SubSeq(left, 1, n) /\ left' = SubSeq(left, n + 1, Len(left))
          /\ reading' = IF n < Chunk THEN "done" ELSE "yes"

-----------------------------------------------------------------------------
\* A reader has bytes of its own, so a stream is not followed any further once one
\* is made of it.
OnStream ==
    \/ \E s \in Pieces : msWrite(s)
    \/ msWriteBefore \/ msReadByte \/ msCopyTo \/ msToArray
    \/ \E n \in 0..MaxLength : msRead(n) \/ msReadBefore(n) \/ msSetPosition(n)
    \/ msSetPosition(-1)
    \/ \E origin \in 0..2, offset \in -2..1 : msSeek(origin, offset)
    \/ \E n \in -1..MaxLength : msSetLength(n)
    \/ \E works \in BOOLEAN : msClose(works)
    \/ NewStreamReader
Next ==
    \/ reading = "no" /\ runes = NotMade /\ OnStream
    \/ stringReaderRead \/ stringReaderReadBlock(2) \/ stringReaderReadLine \/ stringReaderReadToEnd
    \/ readAllBytesFromStream
Spec == Init /\ [][Next]_svars

-----------------------------------------------------------------------------
\* The byte in a place, by what was last done to it; and the length.
ByteAt(i) ==
    LET done == {k \in DOMAIN log : IF log[k].op = "write" THEN i - log[k].at \in DOMAIN log[k].bytes
                                                           ELSE i > log[k].at}
        latest == log[Max(done)]
    IN IF done = {} \/ latest.op = "length" THEN 0 ELSE latest.bytes[i - latest.at]
\* The furthest that was written since the last cut, or the cut.
LengthNow ==
    LET cuts == {k \in DOMAIN log : log[k].op = "length"}
        since == {k \in DOMAIN log : \A c \in cuts : c <= k}
    IN Max({log[k].at + Len(log[k].bytes) : k \in since})

\* A stream has in every place the byte last written there, and zero where
\* nothing was written since the place was last cut off; a read gives these, each
\* once, for the next read begins behind them.
BytesAreTheLastWritten ==
    /\ Len(buf) = LengthNow /\ \A i \in DOMAIN buf : buf[i] = ByteAt(i)
    /\ last.op \in {"read", "copy"} => \A i \in DOMAIN last.got : last.got[i] = ByteAt(last.from + i)
    /\ last.op = "read" => pos = last.from + Len(last.got)
    /\ last.op = "byte" => IF last.from < LengthNow THEN last.got = <<ByteAt(pos)>> /\ pos = last.from + 1
                          ELSE last.got = <<-1>> /\ pos = last.from

\* What a call that went from one place to another gave its caller is what lies
\* between them, but for the ending of a line; a line has no ending inside and no
\* half of one is left.
Gave(h, from, to) ==
    LET end == from + Len(h.s)
        ending == SubSeq(runes, end + 1, to)
    IN /\ end <= to /\ h.s = SubSeq(runes, from + 1, end)
       /\ IF h.is # "line" THEN end = to
          ELSE /\ \A i \in DOMAIN h.s : h.s[i] \notin {CR, LF}
               /\ ending \in {<<>>, <<LF>>, <<CR>>, <<CR, LF>>}
               /\ ending = <<>> => to = Len(runes)
               /\ ending = <<CR>> /\ to < Len(runes) => runes[to + 1] # LF
\* A reader has what its stream had left, but for a mark in front.  Its caller was
\* given, one call after another, what the reader has passed.
ReadersLoseNothing ==
    runes # NotMade =>
        /\ pos \in 0..Len(buf) =>
              \E mark \in {<<>>, <<Mark>>} :
                  /\ mark \o runes = Part(buf, pos, Len(buf))
                  /\ mark = <<>> /\ runes # <<>> => runes[1] # Mark
        /\ \E stops \in [0..Len(heard) -> 0..at] :
              /\ stops[0] = 0 /\ stops[Len(heard)] = at
              /\ \A k \in DOMAIN heard : Gave(heard[k], stops[k - 1], stops[k])

\* Of a plugin's stream that answers in full as long as it can, nothing is lost.
OnlyShortReadsEnd == all \o left = Text /\ (reading = "done" /\ left # <<>> => Len(all) % Chunk # 0)

\* A StreamReader has read its stream when the stream has nothing more to give.
ReadsToTheEnd == reading = "done" => left = <<>>
=============================================================================
