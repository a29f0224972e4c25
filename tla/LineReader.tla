----------------------------- MODULE LineReader -----------------------------
(***************************************************************************)
(* The LineReader of parser.h: it returns the lines of a range of a file   *)
(* one by one, reading the file into a buffer of ReadSize bytes.  Bytes    *)
(* are their offsets in the file, and a line is a pair <<from, to>>: the   *)
(* bytes from from, up to but not including to.  The buffer holds the      *)
(* bytes before upto, and those before at have been looked at.             *)
(***************************************************************************)
EXTENDS Integers, Sequences

CONSTANTS File,       \* the files and ranges to read
          ReadSize,   \* sizeof(_buf)
          NoLine      \* nullptr

(* The end of the range may be past the end of the file, its start not.    *)
ASSUME FileAssumption ==
  \A f \in File : /\ f.size \in Nat /\ f.start \in 0 .. f.size
                  /\ f.end \in Nat /\ f.start <= f.end
                  /\ f.newlines \subseteq 0 .. f.size - 1
ASSUME ReadSizeAssumption == ReadSize \in Nat \ {0}
ASSUME NoLineAssumption == NoLine \notin Nat \X Nat

VARIABLES file,
          at,      \* the offset of _buf[_pos]
          upto,    \* _file_start + _read_size
          eof,     \* feof(_file)
          cur,     \* _current_line
          skip,    \* skip_line
          lines,   \* the lines that were returned since the last reset
          over     \* readLine has returned nullptr

readerVars == <<file, at, upto, eof, cur, skip, lines, over>>

ReaderInit ==
  /\ file \in File
  /\ at = file.start
  /\ upto = file.start
  /\ eof = FALSE
  /\ cur = NoLine
  /\ skip = (file.start # 0)
  /\ lines = <<>>
  /\ over = FALSE

-----------------------------------------------------------------------------
(* The range, or the file, has been read.                                  *)
RangeExhausted == upto - file.start >= file.end - file.start

(* A mistake: a rest that is shorter than the buffer is not read.          *)
ExhaustedEarly == upto - file.start + ReadSize > file.end - file.start \/ eof

Exhausted == RangeExhausted \/ eof

(* to_read                                                                 *)
ToRead == IF file.start + ReadSize > file.end THEN file.end - file.start ELSE ReadSize

(* A mistake: what was read before the buffer was filled again is lost.    *)
Restarted(to) == <<at, to>>

(* _append_current_line with the bytes of the buffer up to to              *)
Extended(to) == IF cur = NoLine THEN <<at, to>> ELSE <<cur[1], to>>

(* A mistake: the buffer is taken to be filled as it was asked for.        *)
BytesAsked == ToRead

(* What fread returns.                                                     *)
BytesRead == IF ToRead <= file.size - upto THEN ToRead ELSE file.size - upto

(* A newline in the buffer, and no other before it.                        *)
NextNewline(p) ==
  /\ p \in file.newlines /\ at <= p /\ p < upto
  /\ \A q \in file.newlines : at <= q => p <= q

(* The buffer is filled; fread meets the end of the file when it returns   *)
(* less than it is asked for.                                              *)
Fill ==
  /\ ~over
  /\ at = upto
  /\ ~Exhausted
  /\ upto' = upto + BytesRead
  /\ eof' = (BytesRead < ToRead)
  /\ UNCHANGED <<file, at, cur, skip, lines, over>>

(* The first line of a range that starts inside the file.  When its        *)
(* newline is the last byte of the buffer, an empty line is begun.         *)
SkipLine ==
  /\ ~over
  /\ skip
  /\ skip' = FALSE
  /\ \E p \in file.newlines :
       /\ NextNewline(p)
       /\ at' = p + 1
       /\ cur' = IF p + 1 = upto THEN <<upto, upto>> ELSE NoLine
  /\ UNCHANGED <<file, upto, eof, lines, over>>

(* A line that ends in the buffer is returned.                             *)
ReturnLine ==
  /\ ~over
  /\ ~skip
  /\ \E p \in file.newlines :
       /\ NextNewline(p)
       /\ at' = p + 1
       /\ lines' = Append(lines, Extended(p))
  /\ cur' = NoLine
  /\ UNCHANGED <<file, upto, eof, skip, over>>

(* The rest of the buffer is the beginning of a line.                      *)
Keep ==
  /\ ~over
  /\ at < upto
  /\ \A p \in file.newlines : ~(at <= p /\ p < upto)
  /\ cur' = Extended(upto)
  /\ at' = upto
  /\ UNCHANGED <<file, upto, eof, skip, lines, over>>

(* The last line of the file, without a newline.                           *)
ReturnLast ==
  /\ ~over
  /\ at = upto /\ Exhausted
  /\ file.end = file.size /\ cur # NoLine
  /\ lines' = Append(lines, cur)
  /\ cur' = NoLine
  /\ UNCHANGED <<file, at, upto, eof, skip, over>>

(* There are no more lines; the last line of a range that ends elsewhere   *)
(* than the file is dropped.                                               *)
ReturnNothing ==
  /\ ~over
  /\ at = upto /\ Exhausted
  /\ file.end # file.size \/ cur = NoLine
  /\ over' = TRUE
  /\ cur' = NoLine
  /\ UNCHANGED <<file, at, upto, eof, skip, lines>>

ReadOn == Fill \/ SkipLine \/ Keep
Returns == ReturnLine \/ ReturnLast

(* reset                                                                   *)
Reset ==
  /\ at' = file.start
  /\ upto' = file.start
  /\ eof' = FALSE
  /\ cur' = NoLine
  /\ skip' = (file.start # 0)
  /\ lines' = <<>>
  /\ over' = FALSE
  /\ UNCHANGED file

ReaderNext == ReadOn \/ Returns \/ ReturnNothing \/ Reset

ReaderSpec == ReaderInit /\ [][ReaderNext]_readerVars

-----------------------------------------------------------------------------
ReaderTypeOK ==
  /\ file \in File
  /\ at \in Nat /\ upto \in Nat /\ at <= upto /\ upto <= file.size
  /\ cur \in (Nat \X Nat) \cup {NoLine}
  /\ lines \in Seq(Nat \X Nat)
  /\ eof \in BOOLEAN /\ skip \in BOOLEAN /\ over \in BOOLEAN

(* A newline, the beginning of the file, ...                               *)
BeginsLine(x) == x = 0 \/ x - 1 \in file.newlines
NoNewlineIn(x, y) == \A p \in file.newlines : ~(x <= p /\ p < y)

(* The offset of the line after the last one that was returned.            *)
NextStart == IF lines = <<>> THEN file.start ELSE lines[Len(lines)][2] + 1

(* However the buffers cut it, every line that is returned is a line of    *)
(* the file, from after a newline to the next or to the end of the file,   *)
(* and no line is left out between two of them (parser.h:298-358).  Only a *)
(* range that starts in the last line of the file gets a part of it.       *)
WholeLines ==
  ~skip => \A i \in 1 .. Len(lines) :
    LET from == lines[i][1]
        to == lines[i][2]
    IN /\ BeginsLine(from) /\ from <= to
       /\ NoNewlineIn(from, to)
       /\ to \in file.newlines \cup {file.size}
       /\ i > 1 => from = lines[i - 1][2] + 1

(* When there are no more lines, the range was read, unless the file ends  *)
(* in it, and no line that ends in what was read has been left out, but    *)
(* for the first of a range that starts inside the file; if the range ends *)
(* with the file, nothing has been (parser.h:306-316).                     *)
NoLineLeftOut ==
  over => /\ RangeExhausted \/ upto = file.size
          /\ lines # <<>> => NoNewlineIn(NextStart, upto)
          /\ lines = <<>> => \A p, q \in file.newlines :
                p \in file.start .. upto - 1 /\ q \in file.start .. upto - 1
                  => p = q /\ file.start # 0
          /\ lines # <<>> /\ file.end = file.size => NextStart >= file.size

(* Only what is in the range is returned; a line that goes on after it is  *)
(* discarded as "possibly partial" (parser.h:204-205, 326).                *)
LinesInRange == \A i \in 1 .. Len(lines) : lines[i][2] <= file.end
=============================================================================
