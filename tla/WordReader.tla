----------------------------- MODULE WordReader -----------------------------
(***************************************************************************)
(* The FileReader of word_count.cpp: it makes a row of each word of a text *)
(* file, through a buffer of BufLen bytes and one more.  Bytes are their   *)
(* offsets in the file; Zero is the byte 0, which is not white space.      *)
(* What happens once the reader has used bytes past its buffer is not      *)
(* defined, and not followed any further.                                  *)
(***************************************************************************)
EXTENDS Integers, Sequences

CONSTANTS TextFile,   \* the files to read: their size and white space
          BufLen,     \* BUFSIZE
          Zero

ASSUME TextFileAssumption ==
  \A f \in TextFile : f.size \in Nat /\ f.spaces \subseteq 0 .. f.size - 1
ASSUME BufLenAssumption == BufLen \in Nat \ {0}
ASSUME ZeroAssumption == Zero \notin Nat

VARIABLES text,     \* the file
          rest,     \* the offset in the file of what is read next
          hitEnd,   \* feof(file_)
          buf,      \* buf_
          end,      \* end_
          i,        \* i_
          wStart,
          words,    \* the rows
          step      \* the next step of the reader

wordVars == <<text, rest, hitEnd, buf, end, i, wStart, words, step>>

WordInit ==
  /\ text \in TextFile
  /\ rest = 0
  /\ hitEnd = FALSE
  /\ buf = [j \in 0 .. BufLen |-> Zero]
  /\ end = 0
  /\ i = 0
  /\ wStart = 0
  /\ words = <<>>
  /\ step = "open"

-----------------------------------------------------------------------------
(* A mistake: what is in the buffer already is not kept.                   *)
FillOver(from) ==
  LET asked == BufLen
      n == IF asked <= text.size - rest THEN asked ELSE text.size - rest
  IN /\ buf' = [j \in 0 .. BufLen |-> IF j < n THEN rest + j ELSE buf[j]]
     /\ end' = n
     /\ i' = 0
     /\ rest' = rest + n
     /\ hitEnd' = (n < asked)

(* A mistake: as much is read as into an empty buffer.                     *)
FillBehind(from) ==
  LET start == end - from
      n == IF BufLen <= text.size - rest THEN BufLen ELSE text.size - rest
  IN /\ buf' = [j \in 0 .. BufLen |-> IF j < start THEN buf[from + j]
                                      ELSE IF j < start + n THEN rest + j - start ELSE buf[j]]
     /\ end' = start + n
     /\ i' = start
     /\ rest' = rest + n
     /\ hitEnd' = (n < BufLen)

(* fillBuffer_, where i_ is from: the bytes from there on are moved to the *)
(* front.  memcpy is undefined where they overlap what they are moved to.  *)
FillBuffer(from) ==
  LET start == end - from
      asked == BufLen - start
      n == IF asked <= text.size - rest THEN asked ELSE text.size - rest
  IN /\ buf' = [j \in 0 .. BufLen |-> IF j < start THEN buf[from + j]
                                      ELSE IF j < start + n THEN rest + j - start ELSE buf[j]]
     /\ end' = start + n
     /\ i' = start
     /\ rest' = rest + n
     /\ hitEnd' = (n < asked)

Overlaps(from) == from < end - from

IsSpace(b) == b \in text.spaces

(* The constructor.                                                        *)
Open ==
  /\ step = "open"
  /\ FillBuffer(0)
  /\ step' = "space"
  /\ UNCHANGED <<text, wStart, words>>

(* skipWhitespace_                                                         *)
FillAfterSpace ==
  /\ step = "space"
  /\ i = end /\ ~hitEnd
  /\ FillBuffer(i)
  /\ step' = "test space"
  /\ UNCHANGED <<text, wStart, words>>

(* The byte after the last that was read is looked at, too.                *)
TestSpace ==
  /\ step = "test space" \/ (step = "space" /\ i # end)
  /\ IF i > BufLen THEN step' = "overrun" /\ UNCHANGED i
     ELSE IF IsSpace(buf[i]) THEN i' = i + 1 /\ step' = "space"
     ELSE UNCHANGED i /\ step' = "row"
  /\ UNCHANGED <<text, rest, hitEnd, buf, end, wStart, words>>

NothingAfterSpace ==
  /\ step = "space"
  /\ i = end /\ hitEnd
  /\ step' = "row"
  /\ UNCHANGED <<text, rest, hitEnd, buf, end, i, wStart, words>>

(* A mistake: the reader does not get past the end.                        *)
AtEnd == i = end /\ hitEnd

(* done                                                                    *)
Done == i >= end /\ hitEnd

(* The loop of fromVisitor, and the beginning of visit with its            *)
(* assertions.                                                             *)
NextRow ==
  /\ step = "row"
  /\ IF Done THEN step' = "done" /\ UNCHANGED wStart
     ELSE IF i < end /\ ~IsSpace(buf[i]) THEN step' = "word" /\ wStart' = i
     ELSE step' = "aborted" /\ UNCHANGED wStart
  /\ UNCHANGED <<text, rest, hitEnd, buf, end, i, words>>

(* The rest of visit.                                                      *)
FillInWord ==
  /\ step = "word"
  /\ i = end /\ ~hitEnd
  /\ FillBuffer(wStart)
  /\ wStart' = 0
  /\ step' = IF Overlaps(wStart) /\ wStart # 0 THEN "overrun" ELSE "test word"
  /\ UNCHANGED <<text, words>>

TestWord ==
  /\ step = "test word" \/ (step = "word" /\ i # end)
  /\ IF i > BufLen THEN step' = "overrun" /\ UNCHANGED i
     ELSE IF IsSpace(buf[i]) THEN UNCHANGED i /\ step' = "cut"
     ELSE i' = i + 1 /\ step' = "word"
  /\ UNCHANGED <<text, rest, hitEnd, buf, end, wStart, words>>

(* The end of the file ends a word one byte late.                          *)
LastWord ==
  /\ step = "word"
  /\ i = end /\ hitEnd
  /\ i' = i + 1
  /\ step' = "cut"
  /\ UNCHANGED <<text, rest, hitEnd, buf, end, wStart, words>>

Cut ==
  /\ step = "cut"
  /\ buf' = [buf EXCEPT ![i] = Zero]
  /\ words' = Append(words, [j \in 1 .. i - wStart |-> buf[wStart + j - 1]])
  /\ i' = i + 1
  /\ step' = "space"
  /\ UNCHANGED <<text, rest, hitEnd, end, wStart>>

WordNext == \/ Open \/ FillAfterSpace \/ TestSpace \/ NothingAfterSpace \/ NextRow
            \/ FillInWord \/ TestWord \/ LastWord \/ Cut

WordSpec == WordInit /\ [][WordNext]_wordVars /\ WF_wordVars(WordNext)

-----------------------------------------------------------------------------
WordTypeOK ==
  /\ rest \in 0 .. text.size
  /\ end \in 0 .. BufLen
  /\ i \in 0 .. BufLen + 1
  /\ wStart \in 0 .. BufLen
  /\ buf \in [0 .. BufLen -> (0 .. text.size - 1) \cup {Zero}]
  /\ hitEnd \in BOOLEAN

(* The words of a file: between white space, of at most half a buffer, and *)
(* with white space at its end.                                            *)
IsWord(a, b) ==
  /\ a = 0 \/ a - 1 \in text.spaces
  /\ \A x \in a .. b : ~IsSpace(x)
  /\ b + 1 \in text.spaces

Wellformed ==
  /\ text.size = 0 \/ text.size - 1 \in text.spaces
  /\ \A a, b \in 0 .. text.size - 1 : a <= b /\ IsWord(a, b) => 2 * (b - a + 1) <= BufLen

(* Of a file that ends in white space, and has no words of more than half  *)
(* a buffer, every word becomes a row, once and in order, wherever the     *)
(* buffers cut it (word_count.cpp:8-25, 48-73).                            *)
RowsAreWords ==
  Wellformed =>
    /\ step \notin {"overrun", "aborted"}
    /\ \A x \in 1 .. Len(words) :
         LET w == words[x] IN
         /\ w # <<>> /\ \A y \in 1 .. Len(w) : w[y] # Zero /\ w[y] = w[1] + y - 1
         /\ IsWord(w[1], w[Len(w)])
         /\ \A z \in (IF x = 1 THEN 0 ELSE words[x - 1][Len(words[x - 1])] + 1) .. w[1] - 1 :
              IsSpace(z)
    /\ step = "done" =>
         \A z \in (IF words = <<>> THEN 0
                   ELSE words[Len(words)][Len(words[Len(words)])] + 1) .. text.size - 1 :
           IsSpace(z)
=============================================================================
