-------------------------- MODULE WordReaderProofs --------------------------
(***************************************************************************)
(* Proofs about WordReader.  The bytes of the buffer that still matter are *)
(* consecutive bytes of the file, the last of them the last that was read; *)
(* a buffer that is not full has met the end of the file.  In a file that  *)
(* is well-formed a word that is cut by the end of a full buffer lies in   *)
(* its second half, so that it can be moved to the front.                  *)
(***************************************************************************)
EXTENDS WordReader, WellFoundedInduction, TLAPS

-----------------------------------------------------------------------------
(* Type correctness, for all files.                                        *)
IndexInv ==
  /\ WordTypeOK
  /\ text \in TextFile
  /\ hitEnd => end < BufLen
  /\ step = "cut" => i <= BufLen
  /\ step \in {"word", "test word"} => wStart <= i
  /\ step = "open" => end = 0 /\ i = 0
  /\ buf[BufLen] = Zero

LEMMA TextTypes ==
  ASSUME text \in TextFile
  PROVE  text.size \in Nat /\ text.spaces \subseteq 0 .. text.size - 1 /\ text.spaces \subseteq Nat
<1>1. text.size \in Nat /\ text.spaces \subseteq 0 .. text.size - 1
  BY TextFileAssumption
<1>2. 0 .. text.size - 1 \subseteq Nat
  BY <1>1
<1> QED  BY <1>1, <1>2

LEMMA Indices ==
  ASSUME IndexInv
  PROVE  /\ BufLen \in Nat \ {0} /\ text.size \in Nat
         /\ end \in Nat /\ end <= BufLen
         /\ rest \in Nat /\ rest <= text.size
         /\ i \in Nat /\ i <= BufLen + 1
         /\ wStart \in Nat /\ wStart <= BufLen
<1>1. /\ rest \in 0 .. text.size /\ end \in 0 .. BufLen /\ i \in 0 .. BufLen + 1
      /\ wStart \in 0 .. BufLen
  BY DEF IndexInv, WordTypeOK
<1>2. text.size \in Nat
  BY TextTypes DEF IndexInv
<1> QED  BY <1>1, <1>2, BufLenAssumption

LEMMA WordInitInv == WordInit => IndexInv
BY TextTypes, BufLenAssumption DEF WordInit, IndexInv, WordTypeOK

(* What FillBuffer does, when the bytes from from on are kept.             *)
LEMMA FillEffect ==
  ASSUME IndexInv, NEW from \in 0 .. end, FillBuffer(from)
  PROVE  \E n \in Nat :
           /\ n <= text.size - rest /\ n <= BufLen - (end - from)
           /\ n = BufLen - (end - from) \/ n = text.size - rest
           /\ \A j \in 0 .. BufLen :
                buf'[j] = IF j < end - from THEN buf[from + j]
                          ELSE IF j < end - from + n THEN rest + j - (end - from) ELSE buf[j]
           /\ buf' \in [0 .. BufLen -> (0 .. text.size - 1) \cup {Zero}]
           /\ end' = end - from + n /\ i' = end - from /\ rest' = rest + n
           /\ hitEnd' \in BOOLEAN
           /\ hitEnd' => n < BufLen - (end - from)
           /\ ~hitEnd' => n = BufLen - (end - from)
           /\ buf'[BufLen] = Zero
<1> DEFINE start == end - from
           asked == BufLen - start
           n == IF asked <= text.size - rest THEN asked ELSE text.size - rest
<1>1. /\ end \in Nat /\ from \in Nat /\ end <= BufLen /\ BufLen \in Nat /\ rest \in Nat
      /\ text.size \in Nat /\ rest <= text.size /\ from <= end
  BY Indices
<1>2. start \in Nat /\ asked \in Nat /\ n \in Nat /\ start + n <= BufLen /\ rest + n <= text.size
  BY <1>1
<1>3. /\ buf' = [j \in 0 .. BufLen |-> IF j < start THEN buf[from + j]
                                      ELSE IF j < start + n THEN rest + j - start ELSE buf[j]]
      /\ end' = start + n /\ i' = start /\ rest' = rest + n /\ hitEnd' = (n < asked)
  BY DEF FillBuffer
<1>4. n <= asked /\ n <= text.size - rest /\ (n = asked \/ n = text.size - rest)
  BY <1>1
<1> HIDE DEF n
<1>5. \A j \in 0 .. BufLen :
        (IF j < start THEN buf[from + j] ELSE IF j < start + n THEN rest + j - start ELSE buf[j])
          \in (0 .. text.size - 1) \cup {Zero}
  <2> SUFFICES ASSUME NEW j \in 0 .. BufLen
               PROVE (IF j < start THEN buf[from + j]
                      ELSE IF j < start + n THEN rest + j - start ELSE buf[j])
                       \in (0 .. text.size - 1) \cup {Zero}
    OBVIOUS
  <2>1. CASE j < start
    <3>1. from + j \in 0 .. BufLen
      BY <1>1, <2>1
    <3> QED  BY <2>1, <3>1 DEF IndexInv, WordTypeOK
  <2>2. CASE ~(j < start) /\ j < start + n
    <3>1. rest + j - start \in 0 .. text.size - 1
      BY <1>1, <1>2, <2>2
    <3> QED  BY <2>2, <3>1
  <2>3. CASE ~(j < start) /\ ~(j < start + n)
    BY <2>3 DEF IndexInv, WordTypeOK
  <2> QED  BY <2>1, <2>2, <2>3
<1>6. buf' \in [0 .. BufLen -> (0 .. text.size - 1) \cup {Zero}]
  BY <1>3, <1>5
<1>7. \A j \in 0 .. BufLen :
        buf'[j] = IF j < start THEN buf[from + j]
                  ELSE IF j < start + n THEN rest + j - start ELSE buf[j]
  BY <1>3
<1>8. buf'[BufLen] = Zero
  <2>1. ~(BufLen < start) /\ ~(BufLen < start + n) /\ BufLen \in 0 .. BufLen
    BY <1>1, <1>2
  <2> QED  BY <1>7, <2>1 DEF IndexInv
<1>9. hitEnd' \in BOOLEAN /\ (hitEnd' => n < asked) /\ (~hitEnd' => ~(n < asked))
  <2>1. (n < asked) \in BOOLEAN
    OBVIOUS
  <2>2. hitEnd' = (n < asked)
    BY <1>3
  <2> QED  BY <2>1, <2>2, Zenon
<1>10. ~(n < asked) => n = asked
  BY <1>2, <1>4
<1> QED  BY <1>2, <1>3, <1>4, <1>6, <1>7, <1>8, <1>9, <1>10

LEMMA FillTypes ==
  ASSUME IndexInv, NEW from \in 0 .. end, FillBuffer(from)
  PROVE  /\ rest' \in 0 .. text.size /\ end' \in 0 .. BufLen /\ i' \in 0 .. BufLen + 1
         /\ i' = end - from /\ hitEnd' \in BOOLEAN /\ (hitEnd' => end' < BufLen)
         /\ buf' \in [0 .. BufLen -> (0 .. text.size - 1) \cup {Zero}]
         /\ buf'[BufLen] = Zero
<1>1. PICK n \in Nat :
           /\ n <= text.size - rest /\ n <= BufLen - (end - from)
           /\ buf' \in [0 .. BufLen -> (0 .. text.size - 1) \cup {Zero}]
           /\ end' = end - from + n /\ i' = end - from /\ rest' = rest + n
           /\ hitEnd' \in BOOLEAN
           /\ hitEnd' => n < BufLen - (end - from)
           /\ buf'[BufLen] = Zero
  BY FillEffect
<1>2. /\ n <= text.size - rest /\ n <= BufLen - (end - from)
      /\ end' = end - from + n /\ i' = end - from /\ rest' = rest + n
  BY <1>1
<1>3. rest' \in 0 .. text.size /\ end' \in 0 .. BufLen /\ i' \in 0 .. BufLen + 1
  BY <1>2, Indices
<1>4. hitEnd' \in BOOLEAN /\ (hitEnd' => end' < BufLen)
  <2>1. hitEnd' \in BOOLEAN /\ (hitEnd' => n < BufLen - (end - from))
    BY <1>1
  <2>2. n < BufLen - (end - from) => end' < BufLen
    BY <1>2, Indices
  <2> QED  BY <2>1, <2>2
<1> QED  BY <1>1, <1>3, <1>4

(* The invariant of the types, from its parts.                             *)
LEMMA IndexParts ==
  ASSUME IndexInv, text' = text,
         rest' \in 0 .. text.size, end' \in 0 .. BufLen, i' \in 0 .. BufLen + 1,
         wStart' \in 0 .. BufLen, hitEnd' \in BOOLEAN,
         buf' \in [0 .. BufLen -> (0 .. text.size - 1) \cup {Zero}], buf'[BufLen] = Zero,
         hitEnd' => end' < BufLen, step' = "cut" => i' <= BufLen,
         step' \in {"word", "test word"} => wStart' <= i', step' # "open"
  PROVE  IndexInv'
BY DEF IndexInv, WordTypeOK

(* The steps that read nothing.                                            *)
LEMMA IndexSame ==
  ASSUME IndexInv, UNCHANGED <<text, rest, hitEnd, buf, end>>,
         i' \in 0 .. BufLen + 1, wStart' \in 0 .. BufLen,
         step' = "cut" => i' <= BufLen,
         step' \in {"word", "test word"} => wStart' <= i', step' # "open"
  PROVE  IndexInv'
BY DEF IndexInv, WordTypeOK

LEMMA WordStepTypes == IndexInv /\ [WordNext]_wordVars => IndexInv'
<1> SUFFICES ASSUME IndexInv, [WordNext]_wordVars PROVE IndexInv'
  OBVIOUS
<1>0. /\ BufLen \in Nat \ {0} /\ end \in Nat /\ end <= BufLen /\ i \in Nat /\ i <= BufLen + 1
      /\ wStart \in Nat /\ wStart <= BufLen
  BY Indices
<1>a. i \in 0 .. BufLen + 1 /\ wStart \in 0 .. BufLen /\ 0 \in 0 .. end
  BY <1>0
<1>1. CASE Open
  <2>1. FillBuffer(0) /\ text' = text /\ wStart' = wStart /\ step' = "space"
    BY <1>1 DEF Open
  <2>2. step' \notin {"cut", "open", "word", "test word"}
    BY <2>1
  <2> QED  BY <1>a, <2>1, <2>2, FillTypes, IndexParts
<1>2. CASE FillAfterSpace
  <2>1. FillBuffer(i) /\ text' = text /\ wStart' = wStart /\ step' = "test space"
    BY <1>2 DEF FillAfterSpace
  <2>2. i = end
    BY <1>2 DEF FillAfterSpace
  <2>3. i \in 0 .. end
    BY <1>0, <2>2
  <2>4. step' \notin {"cut", "open", "word", "test word"}
    BY <2>1
  <2> QED  BY <1>a, <2>1, <2>3, <2>4, FillTypes, IndexParts
<1>3. CASE TestSpace
  <2>1. /\ i' = i \/ (i' = i + 1 /\ ~(i > BufLen))
        /\ step' \in {"overrun", "space", "row"}
        /\ wStart' = wStart /\ UNCHANGED <<text, rest, hitEnd, buf, end>>
    BY <1>3 DEF TestSpace
  <2>2. i' \in 0 .. BufLen + 1
    <3>1. i' = i \/ (i' = i + 1 /\ ~(i > BufLen))
      BY <2>1
    <3> QED  BY <1>0, <3>1
  <2> QED  BY <1>a, <2>1, <2>2, IndexSame
<1>4. CASE NothingAfterSpace
  BY <1>4, <1>a, IndexSame DEF NothingAfterSpace
<1>5. CASE NextRow
  <2>1. /\ step' \in {"done", "word", "aborted"}
        /\ wStart' = wStart \/ (i < end /\ wStart' = i)
        /\ step' = "word" => wStart' = i
        /\ UNCHANGED <<text, rest, hitEnd, buf, end, i>>
    BY <1>5 DEF NextRow
  <2>2. wStart' \in 0 .. BufLen
    <3>1. wStart' = wStart \/ (i < end /\ wStart' = i)
      BY <2>1
    <3> QED  BY <1>0, <3>1
  <2>3. step' \in {"word", "test word"} => wStart' <= i'
    <3>1. CASE step' = "word"
      <4>1. wStart' = i /\ i' = i
        BY <2>1, <3>1
      <4>2. i <= i
        BY <1>0
      <4> QED  BY <4>1, <4>2
    <3>2. CASE step' # "word"
      BY <2>1, <3>2
    <3> QED  BY <3>1, <3>2
  <2> QED  BY <1>a, <2>1, <2>2, <2>3, IndexSame
<1>6. CASE FillInWord
  <2>1. /\ FillBuffer(wStart) /\ text' = text /\ wStart' = 0
        /\ step' \in {"overrun", "test word"}
    BY <1>6 DEF FillInWord
  <2>2. i = end /\ step = "word"
    BY <1>6 DEF FillInWord
  <2>3. wStart <= i
    BY <2>2 DEF IndexInv
  <2>4. wStart \in 0 .. end
    BY <1>0, <2>2, <2>3
  <2>5. i' \in 0 .. BufLen + 1
    BY <2>1, <2>4, FillTypes
  <2>6. wStart' \in 0 .. BufLen /\ wStart' <= i'
    <3>1. wStart' = 0
      BY <2>1
    <3> QED  BY <1>0, <2>5, <3>1
  <2> QED  BY <2>1, <2>4, <2>6, FillTypes, IndexParts
<1>7. CASE TestWord
  <2>1. /\ i' = i \/ (i' = i + 1 /\ ~(i > BufLen))
        /\ step' = "cut" => ~(i > BufLen) /\ i' = i
        /\ step' \in {"overrun", "cut", "word"}
        /\ wStart' = wStart /\ UNCHANGED <<text, rest, hitEnd, buf, end>>
    BY <1>7 DEF TestWord
  <2>2. i' \in 0 .. BufLen + 1 /\ i <= i'
    <3>1. i' = i \/ (i' = i + 1 /\ ~(i > BufLen))
      BY <2>1
    <3> QED  BY <1>0, <3>1
  <2>3. wStart <= i
    BY <1>7 DEF TestWord, IndexInv
  <2>4. wStart' <= i'
    <3>1. wStart' = wStart
      BY <2>1
    <3> QED  BY <1>0, <2>2, <2>3, <3>1
  <2>5. ASSUME step' = "cut" PROVE i' <= BufLen
    <3>1. ~(i > BufLen) /\ i' = i
      BY <2>1, <2>5
    <3> QED  BY <1>0, <3>1
  <2> QED  BY <1>a, <2>1, <2>2, <2>4, <2>5, IndexSame
<1>8. CASE LastWord
  <2>1. /\ i' = i + 1 /\ i = end /\ hitEnd /\ step' = "cut" /\ wStart' = wStart
        /\ UNCHANGED <<text, rest, hitEnd, buf, end>>
    BY <1>8 DEF LastWord
  <2>2. end < BufLen
    BY <2>1 DEF IndexInv
  <2>3. i' <= BufLen /\ i' \in 0 .. BufLen + 1
    <3>1. i' = i + 1 /\ i = end
      BY <2>1
    <3> QED  BY <1>0, <2>2, <3>1
  <2> QED  BY <1>a, <2>1, <2>3, IndexSame
<1>9. CASE Cut
  <2>1. i \in 0 .. BufLen
    <3>1. i <= BufLen
      BY <1>9 DEF Cut, IndexInv
    <3> QED  BY <1>0, <3>1
  <2>2. /\ buf' = [buf EXCEPT ![i] = Zero] /\ step' = "space"
        /\ UNCHANGED <<text, rest, hitEnd, end, wStart>>
    BY <1>9 DEF Cut
  <2>3. /\ buf' \in [0 .. BufLen -> (0 .. text.size - 1) \cup {Zero}]
        /\ buf'[BufLen] = Zero
    <3>1. buf \in [0 .. BufLen -> (0 .. text.size - 1) \cup {Zero}] /\ buf[BufLen] = Zero
      BY DEF IndexInv, WordTypeOK
    <3>2. buf' = [buf EXCEPT ![i] = Zero]
      BY <2>2
    <3>3. BufLen \in 0 .. BufLen
      BY <1>0
    <3> QED  BY <2>1, <3>1, <3>2, <3>3
  <2>4. i' \in 0 .. BufLen + 1
    <3>1. i' = i + 1
      BY <1>9 DEF Cut
    <3> QED  BY <1>0, <2>1, <3>1
  <2>5. /\ rest' \in 0 .. text.size /\ end' \in 0 .. BufLen /\ wStart' \in 0 .. BufLen
        /\ hitEnd' \in BOOLEAN /\ (hitEnd' => end' < BufLen)
    BY <2>2 DEF IndexInv, WordTypeOK
  <2> QED  BY <2>2, <2>3, <2>4, <2>5, IndexParts
<1>10. CASE UNCHANGED wordVars
  BY <1>10 DEF wordVars, IndexInv, WordTypeOK
<1> QED  BY <1>1, <1>2, <1>3, <1>4, <1>5, <1>6, <1>7, <1>8, <1>9, <1>10 DEF WordNext

(* Type correctness, for all files: whatever is in it, the reader keeps    *)
(* its indices in the buffer and the byte after it (word_count.cpp:8-73).  *)
THEOREM WordTypeCorrect == WordSpec => []WordTypeOK
<1>1. WordSpec => []IndexInv
  BY WordInitInv, WordStepTypes, PTL DEF WordSpec
<1>2. IndexInv => WordTypeOK
  BY DEF IndexInv
<1> QED  BY <1>1, <1>2, PTL

-----------------------------------------------------------------------------
(* The invariant for a file that is well-formed.                           *)
AllSpace(a, b) == \A z \in a .. b : IsSpace(z)

(* Where the row after the first n rows of ws may begin.                   *)
After(ws, n) == IF n = 0 THEN 0 ELSE ws[n][Len(ws[n])] + 1

GoodRow(w) ==
  /\ w \in Seq(Nat) /\ w # <<>>
  /\ \A y \in 1 .. Len(w) : w[y] = w[1] + y - 1
  /\ IsWord(w[1], w[Len(w)])

GoodRows(ws) ==
  /\ ws \in Seq(Seq(Nat))
  /\ \A x \in 1 .. Len(ws) : GoodRow(ws[x]) /\ AllSpace(After(ws, x - 1), ws[x][1] - 1)

NextStart == After(words, Len(words))

(* The place in the file of the byte at j in the buffer.                   *)
Offset(j) == rest - end + j

Holds(from) == \A j \in from .. end - 1 : buf[j] = Offset(j)

(* The reader looks for the next word, ...                                 *)
Searching ==
  /\ i <= end /\ Holds(i)
  /\ NextStart <= Offset(i) /\ AllSpace(NextStart, Offset(i) - 1)
  /\ step = "test space" => i < end
  /\ step = "row" => (i < end /\ ~IsSpace(Offset(i))) \/ (i = end /\ hitEnd)

(* ... is past the last one, in bytes that are left from before, ...       *)
PastEnd ==
  /\ hitEnd /\ end <= i /\ i <= BufLen
  /\ AllSpace(NextStart, text.size - 1)

(* ... or is in a word, that begins at wStart.                             *)
InWord ==
  /\ wStart <= i /\ wStart < end /\ i <= end /\ Holds(wStart)
  /\ AllSpace(NextStart, Offset(wStart) - 1)
  /\ Offset(wStart) = 0 \/ Offset(wStart) - 1 \in text.spaces
  /\ \A z \in Offset(wStart) .. Offset(i) - 1 : ~IsSpace(z)
  /\ ~IsSpace(Offset(wStart))
  /\ step = "test word" => i < end
  /\ step = "cut" => i < end /\ IsSpace(Offset(i))

ReadInv ==
  /\ GoodRows(words)
  /\ end <= rest
  /\ step = "open" => words = <<>> /\ rest = 0
  /\ step # "open" /\ ~hitEnd => end = BufLen
  /\ step # "open" /\ hitEnd => rest = text.size
  /\ step \in {"space", "test space", "row"} => Searching \/ PastEnd
  /\ step \in {"word", "test word", "cut"} => InWord
  /\ step = "done" => AllSpace(NextStart, text.size - 1)
  /\ step \in {"open", "space", "test space", "row", "word", "test word", "cut", "done"}

(* A set of numbers has a least element.                                   *)
LEMMA LeastElement ==
  ASSUME NEW T \in SUBSET Nat, T # {}
  PROVE  \E n \in T : \A m \in T : n <= m
<1> DEFINE R == OpToRel(<, Nat)
<1>1. IsWellFoundedOn(R, Nat)
  BY NatLessThanWellFounded
<1>2. \A x, y \in Nat : x < y => <<x, y>> \in R
  BY DEF OpToRel
<1> HIDE DEF R
<1>3. PICK x \in T : \A y \in T : <<y, x>> \notin R
  BY <1>1, WFMin
<1>4. ASSUME NEW y \in T PROVE x <= y
  <2>1. x \in Nat /\ y \in Nat
    OBVIOUS
  <2>2. ~(y < x)
    BY <1>2, <1>3, <2>1
  <2> QED  BY <2>1, <2>2
<1> QED  BY <1>4

(* The k bytes of a word that have been read are at most half a buffer,    *)
(* and are followed by another byte.                                       *)
LEMMA WordIsShort ==
  ASSUME text \in TextFile, Wellformed, NEW a \in Nat, NEW k \in Nat \ {0}, a + k <= text.size,
         a = 0 \/ a - 1 \in text.spaces, \A z \in a .. a + k - 1 : ~IsSpace(z)
  PROVE  a + k < text.size /\ 2 * k <= BufLen
<1>1. text.size \in Nat /\ text.spaces \subseteq Nat /\ text.spaces \subseteq 0 .. text.size - 1
  BY TextTypes
<1>2. text.size - 1 \in text.spaces
  <2>1. text.size # 0
    BY <1>1
  <2> QED  BY <2>1 DEF Wellformed
<1>3. a + k - 1 \notin text.spaces
  BY DEF IsSpace
<1>4. a + k < text.size
  BY <1>1, <1>2, <1>3
<1> DEFINE T == {z \in text.spaces : a <= z}
<1>5. PICK s \in T : \A z \in T : s <= z
  <2>1. text.size - 1 \in T
    BY <1>1, <1>2, <1>4
  <2>2. T \in SUBSET Nat
    BY <1>1
  <2> HIDE DEF T
  <2> QED  BY <2>1, <2>2, LeastElement
<1>6. s \in Nat /\ s \in text.spaces /\ a <= s /\ s <= text.size - 1
  BY <1>1, <1>5
<1>7. a + k <= s
  <2>1. ~IsSpace(s) => a + k <= s
    BY <1>6 DEF IsSpace
  <2>2. s \notin a .. a + k - 1
    BY <1>6 DEF IsSpace
  <2> QED  BY <1>6, <2>2
<1>8. IsWord(a, s - 1)
  <2>1. \A x \in a .. s - 1 : ~IsSpace(x)
    <3> SUFFICES ASSUME NEW x \in a .. s - 1, IsSpace(x) PROVE FALSE
      OBVIOUS
    <3>1. x \in T
      BY <1>6 DEF IsSpace
    <3> QED  BY <1>5, <1>6, <3>1
  <2>2. s - 1 + 1 = s
    BY <1>6
  <2> QED  BY <1>6, <2>1, <2>2 DEF IsWord
<1>9. 2 * (s - 1 - a + 1) <= BufLen
  <2>1. a \in 0 .. text.size - 1 /\ s - 1 \in 0 .. text.size - 1 /\ a <= s - 1
    BY <1>1, <1>6, <1>7
  <2> QED  BY <1>8, <2>1 DEF Wellformed
<1>10. k <= s - a
  BY <1>6, <1>7
<1>11. 2 * k <= BufLen
  <2>1. 2 * k <= 2 * (s - a) /\ s - 1 - a + 1 = s - a
    BY <1>6, <1>10
  <2>2. BufLen \in Nat
    BY BufLenAssumption
  <2> QED  BY <1>6, <1>9, <2>1, <2>2
<1> QED  BY <1>4, <1>11

LEMMA ReadInit == WordInit => ReadInv
<1> SUFFICES ASSUME WordInit PROVE ReadInv
  OBVIOUS
<1>1. GoodRows(<<>>)
  BY DEF GoodRows
<1> QED  BY <1>1 DEF WordInit, ReadInv

(* The numbers of a state.                                                 *)
LEMMA Numbers ==
  ASSUME IndexInv, ReadInv
  PROVE  /\ BufLen \in Nat \ {0} /\ text.size \in Nat /\ text.spaces \subseteq Nat
         /\ end \in Nat /\ end <= BufLen /\ end <= rest
         /\ rest \in Nat /\ rest <= text.size
         /\ i \in Nat /\ i <= BufLen + 1
         /\ wStart \in Nat /\ wStart <= BufLen
         /\ NextStart \in Nat
<1>1. NextStart \in Nat
  <2>1. CASE Len(words) = 0
    BY <2>1 DEF NextStart, After
  <2>2. CASE Len(words) # 0
    <3>0. words \in Seq(Seq(Nat))
      BY DEF ReadInv, GoodRows
    <3>1. Len(words) \in 1 .. Len(words)
      BY <2>2, <3>0
    <3>2. GoodRow(words[Len(words)])
      BY <3>1 DEF ReadInv, GoodRows
    <3>3. /\ words[Len(words)] \in Seq(Nat)
          /\ Len(words[Len(words)]) \in 1 .. Len(words[Len(words)])
      BY <3>2 DEF GoodRow
    <3>4. words[Len(words)][Len(words[Len(words)])] \in Nat
      BY <3>3
    <3> QED  BY <2>2, <3>4 DEF NextStart, After
  <2> QED  BY <2>1, <2>2
<1>2. end <= rest
  BY DEF ReadInv
<1>3. text.spaces \subseteq Nat
  BY TextTypes DEF IndexInv
<1> QED  BY <1>1, <1>2, <1>3, Indices

(* The rows stay what they are.                                            *)
LEMMA RowsKept ==
  ASSUME text' = text
  PROVE  /\ \A b : IsSpace(b)' = IsSpace(b)
         /\ \A a, b : AllSpace(a, b)' = AllSpace(a, b)
         /\ \A w : GoodRow(w)' = GoodRow(w)
         /\ \A ws : GoodRows(ws)' = GoodRows(ws)
<1>1. \A b : IsSpace(b)' = IsSpace(b)
  BY DEF IsSpace
<1>2. \A a, b : AllSpace(a, b)' = AllSpace(a, b)
  BY DEF AllSpace, IsSpace
<1>3. \A w : GoodRow(w)' = GoodRow(w)
  BY DEF GoodRow, IsWord, IsSpace
<1>4. \A ws : GoodRows(ws)' = GoodRows(ws)
  BY <1>3 DEF GoodRows, GoodRow, IsWord, AllSpace, IsSpace
<1> QED  BY <1>1, <1>2, <1>3, <1>4

LEMMA ReadOpen == IndexInv /\ ReadInv /\ Open => ReadInv'
<1> SUFFICES ASSUME IndexInv, ReadInv, Open PROVE ReadInv'
  OBVIOUS
<1>1. end = 0 /\ rest = 0 /\ i = 0 /\ words = <<>>
  BY DEF Open, IndexInv, ReadInv
<1>2. /\ FillBuffer(0) /\ step' = "space" /\ words' = words /\ text' = text
  BY DEF Open
<1>3. 0 \in 0 .. end
  BY <1>1
<1>4. PICK n \in Nat :
           /\ n <= text.size - rest /\ n <= BufLen - (end - 0)
           /\ n = BufLen - (end - 0) \/ n = text.size - rest
           /\ \A j \in 0 .. BufLen :
                buf'[j] = IF j < end - 0 THEN buf[0 + j]
                          ELSE IF j < end - 0 + n THEN rest + j - (end - 0) ELSE buf[j]
           /\ buf' \in [0 .. BufLen -> (0 .. text.size - 1) \cup {Zero}]
           /\ end' = end - 0 + n /\ i' = end - 0 /\ rest' = rest + n
           /\ hitEnd' => n < BufLen - (end - 0)
           /\ ~hitEnd' => n = BufLen - (end - 0)
           /\ buf'[BufLen] = Zero
  BY <1>2, <1>3, FillEffect
<1>5. /\ n <= text.size /\ n <= BufLen /\ (n = BufLen \/ n = text.size)
      /\ end' = n /\ i' = 0 /\ rest' = n
  BY <1>1, <1>4, Numbers
<1>6. (hitEnd' => n < BufLen) /\ (~hitEnd' => n = BufLen)
  BY <1>1, <1>4, Numbers
<1>7. \A j \in 0 .. n - 1 : buf'[j] = j
  <2> SUFFICES ASSUME NEW j \in 0 .. n - 1 PROVE buf'[j] = j
    OBVIOUS
  <2>1. j \in 0 .. BufLen /\ ~(j < end - 0) /\ j < end - 0 + n /\ rest + j - (end - 0) = j
    BY <1>1, <1>5, Numbers
  <2> QED  BY <1>4, <2>1
<1>8. Searching'
  <2>1. \A j \in Nat : Offset(j)' = j
    BY <1>5 DEF Offset
  <2>2. i' <= end'
    BY <1>5
  <2>3. Holds(i)'
    BY <1>5, <1>7, <2>1 DEF Holds
  <2>4. NextStart' = 0
    BY <1>1, <1>2 DEF NextStart, After
  <2>5. Offset(i)' = 0
    BY <1>5 DEF Offset
  <2>6. NextStart' <= Offset(i)' /\ AllSpace(NextStart, Offset(i) - 1)'
    BY <2>4, <2>5 DEF AllSpace
  <2> QED  BY <1>2, <2>2, <2>3, <2>6 DEF Searching
<1>9. GoodRows(words)'
  BY <1>2, RowsKept DEF ReadInv
<1>10. end' <= rest' /\ (~hitEnd' => end' = BufLen) /\ (hitEnd' => rest' = text'.size)
  <2>1. ~hitEnd' => end' = BufLen
    BY <1>5, <1>6, Numbers
  <2>2. hitEnd' => rest' = text'.size
    BY <1>2, <1>5, <1>6, Numbers
  <2>3. end' <= rest'
    BY <1>5
  <2> QED  BY <2>1, <2>2, <2>3
<1> QED  BY <1>2, <1>8, <1>9, <1>10 DEF ReadInv

LEMMA ReadFillAfterSpace == IndexInv /\ ReadInv /\ FillAfterSpace => ReadInv'
<1> SUFFICES ASSUME IndexInv, ReadInv, FillAfterSpace PROVE ReadInv'
  OBVIOUS
<1>1. i = end /\ step = "space"
  BY DEF FillAfterSpace
<1>2. /\ FillBuffer(i) /\ step' = "test space" /\ words' = words /\ text' = text
  BY DEF FillAfterSpace
<1>3. i \in 0 .. end /\ end - i = 0
  BY <1>1, Numbers
<1>4. PICK n \in Nat :
           /\ n <= text.size - rest /\ n <= BufLen - (end - i)
           /\ n = BufLen - (end - i) \/ n = text.size - rest
           /\ \A j \in 0 .. BufLen :
                buf'[j] = IF j < end - i THEN buf[i + j]
                          ELSE IF j < end - i + n THEN rest + j - (end - i) ELSE buf[j]
           /\ buf' \in [0 .. BufLen -> (0 .. text.size - 1) \cup {Zero}]
           /\ end' = end - i + n /\ i' = end - i /\ rest' = rest + n
           /\ hitEnd' \in BOOLEAN
           /\ hitEnd' => n < BufLen - (end - i)
           /\ ~hitEnd' => n = BufLen - (end - i)
           /\ buf'[BufLen] = Zero
  BY <1>2, <1>3, FillEffect
<1>5. /\ n <= text.size - rest /\ n <= BufLen /\ (n = BufLen \/ n = text.size - rest)
      /\ end' = n /\ i' = 0 /\ rest' = rest + n
  BY <1>3, <1>4, Numbers
<1>6. (hitEnd' => n < BufLen) /\ (~hitEnd' => n = BufLen)
  <2>1. BufLen - (end - i) = BufLen
    BY <1>3, Numbers
  <2>2. (hitEnd' => n < BufLen - (end - i)) /\ (~hitEnd' => n = BufLen - (end - i))
    BY <1>4
  <2> QED  BY <2>1, <2>2
<1>7. \A j \in 0 .. n - 1 : buf'[j] = rest + j
  <2> SUFFICES ASSUME NEW j \in 0 .. n - 1 PROVE buf'[j] = rest + j
    OBVIOUS
  <2>1. j \in 0 .. BufLen /\ ~(j < end - i) /\ j < end - i + n /\ rest + j - (end - i) = rest + j
    BY <1>3, <1>5, Numbers
  <2> QED  BY <1>4, <2>1
<1>8. Searching
  <2>1. ~PastEnd
    BY DEF PastEnd, FillAfterSpace
  <2> QED  BY <1>1, <2>1 DEF ReadInv
<1>9. NextStart' = NextStart /\ NextStart <= rest /\ AllSpace(NextStart, rest - 1)
  <2>1. NextStart' = NextStart
    BY <1>2 DEF NextStart, After
  <2>2. Offset(i) = rest
    BY <1>1, Numbers DEF Offset
  <2> QED  BY <1>8, <2>1, <2>2 DEF Searching
<1>10. CASE n = 0
  <2>1. rest = text.size /\ hitEnd' /\ end' <= i' /\ i' <= BufLen
    BY <1>5, <1>6, <1>10, Numbers
  <2>2. PastEnd'
    BY <1>2, <1>9, <2>1, RowsKept DEF PastEnd
  <2>3. rest' = text.size /\ end' <= rest'
    BY <1>5, <1>10, <2>1, Numbers
  <2>4. GoodRows(words)'
    BY <1>2, RowsKept DEF ReadInv
  <2> QED  BY <1>2, <2>1, <2>2, <2>3, <2>4 DEF ReadInv
<1>11. CASE n # 0
  <2>1. \A j \in Nat : Offset(j)' = rest + j
    BY <1>5, Numbers DEF Offset
  <2>2. i' <= end' /\ i' < end'
    BY <1>5, <1>11
  <2>3. Holds(i)'
    BY <1>5, <1>7, <2>1 DEF Holds
  <2>4. Offset(i)' = rest
    BY <1>5, Numbers DEF Offset
  <2>5. NextStart' <= Offset(i)' /\ AllSpace(NextStart, Offset(i) - 1)'
    BY <1>2, <1>9, <2>4, RowsKept
  <2>6. Searching'
    BY <1>2, <2>2, <2>3, <2>5 DEF Searching
  <2>7. ~hitEnd' => end' = BufLen
    BY <1>5, <1>6, Numbers
  <2>8. ASSUME hitEnd' PROVE rest' = text'.size
    <3>1. n < BufLen
      BY <1>6, <2>8
    <3>2. rest' = text.size
      BY <1>5, <3>1, Numbers
    <3> QED  BY <1>2, <3>2
  <2>9. end' <= rest'
    BY <1>5, Numbers
  <2>10. GoodRows(words)'
    BY <1>2, RowsKept DEF ReadInv
  <2> QED  BY <1>2, <2>6, <2>7, <2>8, <2>9, <2>10 DEF ReadInv
<1> QED  BY <1>10, <1>11

(* The steps that neither read nor add a row, but for the place where the  *)
(* reader is.                                                              *)
LEMMA ReadSame ==
  ASSUME IndexInv, ReadInv, UNCHANGED <<text, rest, hitEnd, buf, end, words>>, step # "open",
         step' \in {"space", "row", "word", "cut", "done"},
         step' \in {"space", "row"} => Searching' \/ PastEnd',
         step' \in {"word", "cut"} => InWord',
         step' = "done" => AllSpace(NextStart, text.size - 1)'
  PROVE  ReadInv'
<1>1. GoodRows(words)'
  BY RowsKept DEF ReadInv
<1> QED  BY <1>1 DEF ReadInv

LEMMA PlacesSame ==
  ASSUME UNCHANGED <<text, rest, buf, end, words>>
  PROVE  /\ \A j : Offset(j)' = Offset(j)
         /\ \A j : Holds(j)' = Holds(j)
         /\ NextStart' = NextStart
BY DEF Offset, Holds, NextStart, After

LEMMA ReadTestSpace == IndexInv /\ ReadInv /\ TestSpace => ReadInv'
<1> SUFFICES ASSUME IndexInv, ReadInv, TestSpace PROVE ReadInv'
  OBVIOUS
<1>1. /\ UNCHANGED <<text, rest, hitEnd, buf, end, words>>
      /\ step \in {"space", "test space"} /\ (step = "test space" \/ i # end)
  BY DEF TestSpace
<1>2. /\ i > BufLen => step' = "overrun"
      /\ ~(i > BufLen) /\ IsSpace(buf[i]) => i' = i + 1 /\ step' = "space"
      /\ ~(i > BufLen) /\ ~IsSpace(buf[i]) => i' = i /\ step' = "row"
  BY DEF TestSpace
<1>3. /\ \A j : Offset(j)' = Offset(j) /\ Holds(j)' = Holds(j)
      /\ NextStart' = NextStart
      /\ \A a, b : AllSpace(a, b)' = AllSpace(a, b)
      /\ \A b : IsSpace(b)' = IsSpace(b)
  BY <1>1, PlacesSame, RowsKept
<1>4. CASE Searching
  <2>1. i < end
    <3>1. i <= end /\ (step = "test space" => i < end)
      BY <1>4 DEF Searching
    <3>2. CASE i # end
      <4>1. i <= end
        BY <3>1
      <4> QED  BY <3>2, <4>1, Numbers
    <3> QED  BY <1>1, <3>1, <3>2
  <2>2. i \in i .. end - 1 /\ ~(i > BufLen)
    BY <2>1, Numbers
  <2>3. buf[i] = Offset(i)
    BY <1>4, <2>2 DEF Searching, Holds
  <2>4. NextStart <= Offset(i) /\ AllSpace(NextStart, Offset(i) - 1) /\ Holds(i)
    BY <1>4 DEF Searching
  <2>5. Offset(i) \in Nat /\ Offset(i + 1) = Offset(i) + 1
    BY Numbers DEF Offset
  <2>6. CASE IsSpace(buf[i])
    <3>1. i' = i + 1 /\ step' = "space"
      BY <1>2, <2>2, <2>6
    <3>2. i + 1 <= end
      BY <2>1, Numbers
    <3>3. Holds(i + 1)
      BY <2>4, Numbers DEF Holds
    <3>4. NextStart <= Offset(i) + 1
      BY <2>4, <2>5, Numbers
    <3>5. AllSpace(NextStart, Offset(i) + 1 - 1)
      <4> SUFFICES ASSUME NEW z \in NextStart .. Offset(i) + 1 - 1 PROVE IsSpace(z)
        BY DEF AllSpace
      <4>1. z = Offset(i) \/ z \in NextStart .. Offset(i) - 1
        BY <2>5, Numbers
      <4> QED  BY <2>3, <2>4, <2>6, <4>1 DEF AllSpace
    <3>6. Searching'
      <4>1. Offset(i)' = Offset(i) + 1
        BY <1>3, <2>5, <3>1
      <4>2. i' <= end' /\ Holds(i)'
        BY <1>1, <1>3, <3>1, <3>2, <3>3
      <4>4. NextStart' <= Offset(i)'
        BY <1>3, <3>4, <4>1
      <4>5. Offset(i)' - 1 = Offset(i) + 1 - 1
        BY <2>5, <4>1
      <4>3. AllSpace(NextStart, Offset(i) - 1)'
        BY <1>3, <3>5, <4>5
      <4> QED  BY <3>1, <4>2, <4>3, <4>4 DEF Searching
    <3> QED  BY <1>1, <3>1, <3>6, ReadSame
  <2>7. CASE ~IsSpace(buf[i])
    <3>1. i' = i /\ step' = "row"
      BY <1>2, <2>2, <2>7
    <3>2. i' < end' /\ i' <= end'
      <4>1. i < end /\ i <= end
        BY <2>1, Numbers
      <4> QED  BY <1>1, <3>1, <4>1
    <3>3. ~IsSpace(Offset(i))'
      BY <1>3, <2>3, <2>7, <3>1
    <3>4. Searching'
      BY <1>3, <2>4, <3>1, <3>2, <3>3 DEF Searching
    <3> QED  BY <1>1, <3>1, <3>4, ReadSame
  <2> QED  BY <2>6, <2>7
<1>5. CASE PastEnd
  <2>1. hitEnd /\ end <= i /\ i <= BufLen /\ AllSpace(NextStart, text.size - 1)
    BY <1>5 DEF PastEnd
  <2>2. ~(i > BufLen)
    BY <2>1, Numbers
  <2>3. CASE IsSpace(buf[i])
    <3>1. i' = i + 1 /\ step' = "space"
      BY <1>2, <2>2, <2>3
    <3>2. i # BufLen
      <4>1. ~IsSpace(Zero)
        BY Numbers, ZeroAssumption DEF IsSpace
      <4> QED  BY <2>3, <4>1 DEF IndexInv
    <3>3. end <= i + 1 /\ i + 1 <= BufLen
      BY <2>1, <3>2, Numbers
    <3>4. PastEnd'
      BY <1>1, <1>3, <2>1, <3>1, <3>3 DEF PastEnd
    <3> QED  BY <1>1, <3>1, <3>4, ReadSame
  <2>4. CASE ~IsSpace(buf[i])
    <3>1. i' = i /\ step' = "row"
      BY <1>2, <2>2, <2>4
    <3>2. PastEnd'
      BY <1>1, <1>3, <2>1, <3>1 DEF PastEnd
    <3> QED  BY <1>1, <3>1, <3>2, ReadSame
  <2> QED  BY <2>3, <2>4
<1> QED  BY <1>1, <1>4, <1>5 DEF ReadInv

LEMMA ReadNothingAfterSpace == IndexInv /\ ReadInv /\ NothingAfterSpace => ReadInv'
<1> SUFFICES ASSUME IndexInv, ReadInv, NothingAfterSpace PROVE ReadInv'
  OBVIOUS
<1>1. /\ UNCHANGED <<text, rest, hitEnd, buf, end, i, words>>
      /\ step = "space" /\ i = end /\ hitEnd /\ step' = "row"
  BY DEF NothingAfterSpace
<1>2. /\ \A j : Offset(j)' = Offset(j) /\ Holds(j)' = Holds(j)
      /\ NextStart' = NextStart
      /\ \A a, b : AllSpace(a, b)' = AllSpace(a, b)
  BY <1>1, PlacesSame, RowsKept
<1>3. CASE Searching
  <2>1. Searching'
    BY <1>1, <1>2, <1>3 DEF Searching
  <2> QED  BY <1>1, <2>1, ReadSame
<1>4. CASE PastEnd
  <2>1. PastEnd'
    BY <1>1, <1>2, <1>4 DEF PastEnd
  <2> QED  BY <1>1, <2>1, ReadSame
<1> QED  BY <1>1, <1>3, <1>4 DEF ReadInv

LEMMA ReadNextRow == IndexInv /\ ReadInv /\ NextRow => ReadInv'
<1> SUFFICES ASSUME IndexInv, ReadInv, NextRow PROVE ReadInv'
  OBVIOUS
<1>1. /\ UNCHANGED <<text, rest, hitEnd, buf, end, i, words>> /\ step = "row"
  BY DEF NextRow
<1>2. /\ \A j : Offset(j)' = Offset(j) /\ Holds(j)' = Holds(j)
      /\ NextStart' = NextStart
      /\ \A a, b : AllSpace(a, b)' = AllSpace(a, b)
      /\ \A b : IsSpace(b)' = IsSpace(b)
  BY <1>1, PlacesSame, RowsKept
<1>3. CASE i >= end /\ hitEnd
  <2>1. step' = "done"
    BY <1>3 DEF NextRow, Done
  <2>2. AllSpace(NextStart, text.size - 1)
    <3>1. CASE Searching
      <4>1. i = end /\ AllSpace(NextStart, Offset(i) - 1)
        <5>1. i <= end /\ AllSpace(NextStart, Offset(i) - 1)
          BY <3>1 DEF Searching
        <5> QED  BY <1>3, <5>1, Numbers
      <4>2. rest = text.size
        BY <1>1, <1>3 DEF ReadInv
      <4>3. Offset(i) = text.size
        BY <4>1, <4>2, Numbers DEF Offset
      <4> QED  BY <4>1, <4>3
    <3>2. CASE PastEnd
      BY <3>2 DEF PastEnd
    <3> QED  BY <1>1, <3>1, <3>2 DEF ReadInv
  <2>3. AllSpace(NextStart, text.size - 1)'
    BY <1>1, <1>2, <2>2
  <2> QED  BY <1>1, <2>1, <2>3, ReadSame
<1>4. CASE ~(i >= end /\ hitEnd)
  <2>1. Searching
    <3>1. ~PastEnd
      BY <1>4, Numbers DEF PastEnd
    <3> QED  BY <1>1, <3>1 DEF ReadInv
  <2>2. i < end /\ ~IsSpace(Offset(i))
    <3>1. (i < end /\ ~IsSpace(Offset(i))) \/ (i = end /\ hitEnd)
      BY <1>1, <2>1 DEF Searching
    <3>2. i = end => i >= end
      BY Numbers
    <3> QED  BY <1>4, <3>1, <3>2
  <2>3. /\ Holds(i) /\ NextStart <= Offset(i) /\ AllSpace(NextStart, Offset(i) - 1)
    BY <2>1 DEF Searching
  <2>4. buf[i] = Offset(i)
    <3>1. i \in i .. end - 1
      BY <2>2, Numbers
    <3> QED  BY <2>3, <3>1 DEF Holds
  <2>5. step' = "word" /\ wStart' = i
    BY <1>4, <2>2, <2>4 DEF NextRow, Done
  <2>6. Offset(i) = 0 \/ Offset(i) - 1 \in text.spaces
    <3>1. CASE NextStart = Offset(i)
      <4>1. CASE Len(words) = 0
        BY <3>1, <4>1 DEF NextStart, After
      <4>2. CASE Len(words) # 0
        <5>0. words \in Seq(Seq(Nat))
          BY DEF ReadInv, GoodRows
        <5>1. Len(words) \in 1 .. Len(words)
          BY <4>2, <5>0
        <5>2. GoodRow(words[Len(words)])
          BY <5>1 DEF ReadInv, GoodRows
        <5>3. NextStart = words[Len(words)][Len(words[Len(words)])] + 1
          BY <4>2 DEF NextStart, After
        <5>4. IsSpace(NextStart)
          BY <5>2, <5>3 DEF GoodRow, IsWord, IsSpace
        <5> QED  BY <2>2, <3>1, <5>4
      <4> QED  BY <4>1, <4>2
    <3>2. CASE NextStart # Offset(i)
      <4>0. Offset(i) \in Nat
        BY Numbers DEF Offset
      <4>1. Offset(i) - 1 \in NextStart .. Offset(i) - 1
        BY <2>3, <3>2, <4>0, Numbers
      <4> QED  BY <2>3, <4>1 DEF AllSpace, IsSpace
    <3> QED  BY <3>1, <3>2
  <2>7. InWord'
    <3>1. i <= i /\ i <= end /\ i < end
      BY <2>2, Numbers
    <3>2. \A z \in Offset(i) .. Offset(i) - 1 : ~IsSpace(z)
      <4>1. Offset(i) \in Nat
        BY Numbers DEF Offset
      <4> QED  BY <4>1
    <3> QED  BY <1>1, <1>2, <2>2, <2>3, <2>5, <2>6, <3>1, <3>2 DEF InWord
  <2> QED  BY <1>1, <2>5, <2>7, ReadSame
<1> QED  BY <1>3, <1>4

(* The word that the reader is in has another byte, ...                    *)
LEMMA WordGoesOn ==
  ASSUME IndexInv, ReadInv, Wellformed, InWord, wStart < i
  PROVE  Offset(i) < text.size /\ 2 * (i - wStart) <= BufLen
<1>1. Offset(wStart) \in Nat /\ i - wStart \in Nat \ {0}
      /\ Offset(wStart) + (i - wStart) = Offset(i) /\ Offset(i) <= text.size
  <2>1. i <= end
    BY DEF InWord
  <2> QED  BY <2>1, Numbers DEF Offset
<1>2. Offset(wStart) = 0 \/ Offset(wStart) - 1 \in text.spaces
  BY DEF InWord
<1>3. \A z \in Offset(wStart) .. Offset(wStart) + (i - wStart) - 1 : ~IsSpace(z)
  <2>1. \A z \in Offset(wStart) .. Offset(i) - 1 : ~IsSpace(z)
    BY DEF InWord
  <2>2. Offset(wStart) + (i - wStart) - 1 = Offset(i) - 1
    BY <1>1
  <2> QED  BY <2>1, <2>2
<1>4. text \in TextFile
  BY DEF IndexInv
<1>5. PICK a \in Nat : a = Offset(wStart)
  BY <1>1
<1>6. PICK k \in Nat \ {0} : k = i - wStart
  BY <1>1
<1>7. a + k <= text.size /\ a + k = Offset(i)
  BY <1>1, <1>5, <1>6
<1>8. a + k < text.size /\ 2 * k <= BufLen
  <2>1. a = 0 \/ a - 1 \in text.spaces
    BY <1>2, <1>5
  <2>2. \A z \in a .. a + k - 1 : ~IsSpace(z)
    BY <1>3, <1>5, <1>6
  <2> QED  BY <1>4, <1>7, <2>1, <2>2, WordIsShort
<1> QED  BY <1>6, <1>7, <1>8

(* ... so that it is moved to the front before it fills the buffer.        *)
LEMMA ReadFillInWord == IndexInv /\ ReadInv /\ Wellformed /\ FillInWord => ReadInv'
<1> SUFFICES ASSUME IndexInv, ReadInv, Wellformed, FillInWord PROVE ReadInv'
  OBVIOUS
<1>1. i = end /\ step = "word" /\ ~hitEnd
  BY DEF FillInWord
<1>2. FillBuffer(wStart) /\ words' = words /\ text' = text /\ wStart' = 0
  BY DEF FillInWord
<1>3. InWord
  BY <1>1 DEF ReadInv
<1>4. wStart < end /\ Holds(wStart)
  BY <1>3 DEF InWord
<1>5. wStart \in 0 .. end /\ wStart < i
  BY <1>1, <1>4, Numbers
<1>6. end = BufLen
  BY <1>1 DEF ReadInv
<1>7. PICK k \in Nat \ {0} : k = end - wStart
  BY <1>4, Numbers
<1>8. rest < text.size /\ 2 * k <= BufLen
  <2>1. Offset(i) < text.size /\ 2 * (i - wStart) <= BufLen
    BY <1>3, <1>5, WordGoesOn
  <2>2. Offset(i) = rest
    BY <1>1, Numbers DEF Offset
  <2> QED  BY <1>1, <1>7, <2>1, <2>2
<1>9. step' = "test word"
  <2>1. ~(wStart < end - wStart)
    BY <1>6, <1>7, <1>8, Numbers
  <2> QED  BY <2>1 DEF FillInWord, Overlaps
<1>10. PICK n \in Nat :
           /\ n <= text.size - rest /\ n <= BufLen - (end - wStart)
           /\ n = BufLen - (end - wStart) \/ n = text.size - rest
           /\ \A j \in 0 .. BufLen :
                buf'[j] = IF j < end - wStart THEN buf[wStart + j]
                          ELSE IF j < end - wStart + n THEN rest + j - (end - wStart) ELSE buf[j]
           /\ end' = end - wStart + n /\ i' = end - wStart /\ rest' = rest + n
           /\ hitEnd' \in BOOLEAN
           /\ hitEnd' => n < BufLen - (end - wStart)
           /\ ~hitEnd' => n = BufLen - (end - wStart)
  BY <1>2, <1>5, FillEffect
<1>11. /\ n <= text.size - rest /\ n <= BufLen - k /\ (n = BufLen - k \/ n = text.size - rest)
       /\ end' = k + n /\ i' = k /\ rest' = rest + n
  BY <1>7, <1>10
<1>12. (hitEnd' => n < BufLen - k) /\ (~hitEnd' => n = BufLen - k)
  <2>1. BufLen - k = BufLen - (end - wStart)
    BY <1>7
  <2>2. (hitEnd' => n < BufLen - (end - wStart)) /\ (~hitEnd' => n = BufLen - (end - wStart))
    BY <1>10
  <2> QED  BY <2>1, <2>2
<1>13. n > 0
  BY <1>8, <1>11, Numbers
<1>14. \A j \in Int : Offset(j)' = Offset(wStart + j)
  BY <1>7, <1>11, Numbers DEF Offset
<1>15. Holds(0)'
  <2> SUFFICES ASSUME NEW j \in 0 .. end' - 1 PROVE buf'[j] = Offset(j)'
    BY DEF Holds
  <2>1. j \in 0 .. BufLen /\ j \in Int /\ j < k + n
    BY <1>11, Numbers
  <2>2. buf'[j] = IF j < k THEN buf[wStart + j]
                  ELSE IF j < k + n THEN rest + j - k ELSE buf[j]
    BY <1>7, <1>10, <2>1
  <2>3. Offset(j)' = Offset(wStart + j)
    BY <1>14, <2>1
  <2>4. CASE j < k
    <3>1. wStart + j \in wStart .. end - 1
      BY <1>7, <2>1, <2>4, Numbers
    <3> QED  BY <1>4, <2>2, <2>3, <2>4, <3>1 DEF Holds
  <2>5. CASE ~(j < k)
    <3>1. rest + j - k = Offset(wStart + j)
      BY <1>7, <2>1, Numbers DEF Offset
    <3> QED  BY <2>1, <2>2, <2>3, <2>5, <3>1
  <2> QED  BY <2>4, <2>5
<1>16. NextStart' = NextStart /\ Offset(0)' = Offset(wStart) /\ Offset(k)' = Offset(i)
  <2>1. NextStart' = NextStart
    BY <1>2 DEF NextStart, After
  <2>2. wStart + 0 = wStart /\ wStart + k = i /\ 0 \in Int /\ k \in Int
    BY <1>1, <1>7, Numbers
  <2> QED  BY <1>14, <2>1, <2>2
<1>17. InWord'
  <2>1. wStart' <= i' /\ wStart' < end' /\ i' <= end' /\ i' < end'
    BY <1>2, <1>11, <1>13
  <2>2. Offset(wStart)' = Offset(wStart) /\ Offset(i)' = Offset(i)
    BY <1>2, <1>11, <1>16
  <2>3. Holds(wStart)'
    BY <1>2, <1>15
  <2>4. /\ AllSpace(NextStart, Offset(wStart) - 1)
        /\ Offset(wStart) = 0 \/ Offset(wStart) - 1 \in text.spaces
        /\ \A z \in Offset(wStart) .. Offset(i) - 1 : ~IsSpace(z)
        /\ ~IsSpace(Offset(wStart))
    BY <1>3 DEF InWord
  <2>5. AllSpace(NextStart, Offset(wStart) - 1)'
    BY <1>2, <1>16, <2>2, <2>4, RowsKept
  <2>6. \A z \in Offset(wStart)' .. Offset(i)' - 1 : ~IsSpace(z)'
    BY <1>2, <2>2, <2>4, RowsKept
  <2>7. ~IsSpace(Offset(wStart))'
    BY <1>2, <2>2, <2>4, RowsKept
  <2> QED  BY <1>2, <1>9, <2>1, <2>2, <2>3, <2>4, <2>5, <2>6, <2>7 DEF InWord
<1>18. end' <= rest'
  BY <1>7, <1>11, Numbers
<1>19. ~hitEnd' => end' = BufLen
  BY <1>11, <1>12, Numbers
<1>20. ASSUME hitEnd' PROVE rest' = text'.size
  <2>1. n < BufLen - k
    BY <1>12, <1>20
  <2>2. rest' = text.size
    BY <1>11, <2>1, Numbers
  <2> QED  BY <1>2, <2>2
<1>21. GoodRows(words)'
  BY <1>2, RowsKept DEF ReadInv
<1> QED  BY <1>9, <1>17, <1>18, <1>19, <1>20, <1>21 DEF ReadInv

LEMMA ReadTestWord == IndexInv /\ ReadInv /\ TestWord => ReadInv'
<1> SUFFICES ASSUME IndexInv, ReadInv, TestWord PROVE ReadInv'
  OBVIOUS
<1>1. /\ UNCHANGED <<text, rest, hitEnd, buf, end, words>> /\ wStart' = wStart
      /\ step \in {"word", "test word"} /\ (step = "test word" \/ i # end)
  BY DEF TestWord
<1>2. /\ ~(i > BufLen) /\ IsSpace(buf[i]) => i' = i /\ step' = "cut"
      /\ ~(i > BufLen) /\ ~IsSpace(buf[i]) => i' = i + 1 /\ step' = "word"
  BY DEF TestWord
<1>3. /\ \A j : Offset(j)' = Offset(j) /\ Holds(j)' = Holds(j)
      /\ NextStart' = NextStart
      /\ \A a, b : AllSpace(a, b)' = AllSpace(a, b)
      /\ \A b : IsSpace(b)' = IsSpace(b)
  BY <1>1, PlacesSame, RowsKept
<1>4. InWord
  BY <1>1 DEF ReadInv
<1>5. /\ wStart <= i /\ wStart < end /\ i <= end /\ Holds(wStart)
      /\ AllSpace(NextStart, Offset(wStart) - 1)
      /\ Offset(wStart) = 0 \/ Offset(wStart) - 1 \in text.spaces
      /\ \A z \in Offset(wStart) .. Offset(i) - 1 : ~IsSpace(z)
      /\ ~IsSpace(Offset(wStart))
  BY <1>4 DEF InWord
<1>6. i < end
  <2>1. CASE i # end
    <3>1. i <= end
      BY <1>5
    <3> QED  BY <2>1, <3>1, Numbers
  <2>2. CASE step = "test word"
    BY <1>4, <2>2 DEF InWord
  <2> QED  BY <1>1, <2>1, <2>2
<1>7. buf[i] = Offset(i) /\ ~(i > BufLen)
  <2>1. i \in wStart .. end - 1 /\ ~(i > BufLen)
    <3>1. wStart <= i
      BY <1>5
    <3> QED  BY <1>6, <3>1, Numbers
  <2> QED  BY <1>5, <2>1 DEF Holds
<1>8. CASE IsSpace(buf[i])
  <2>1. i' = i /\ step' = "cut"
    BY <1>2, <1>7, <1>8
  <2>2. IsSpace(Offset(i))' /\ i' < end'
    BY <1>1, <1>3, <1>6, <1>7, <1>8, <2>1
  <2>3. /\ Offset(wStart)' = Offset(wStart) /\ Offset(i)' = Offset(i)
        /\ wStart' <= i' /\ wStart' < end' /\ i' <= end'
    BY <1>1, <1>3, <1>5, <2>1
  <2>4. InWord'
    BY <1>1, <1>3, <1>5, <2>1, <2>2, <2>3 DEF InWord
  <2> QED  BY <1>1, <2>1, <2>4, ReadSame
<1>9. CASE ~IsSpace(buf[i])
  <2>1. i' = i + 1 /\ step' = "word"
    BY <1>2, <1>7, <1>9
  <2>2. Offset(i) \in Nat /\ Offset(i + 1) = Offset(i) + 1
    BY Numbers DEF Offset
  <2>3. Offset(wStart)' = Offset(wStart) /\ Offset(i)' = Offset(i) + 1
    BY <1>1, <1>3, <2>1, <2>2
  <2>4. wStart <= i + 1 /\ i + 1 <= end
    <3>1. wStart <= i
      BY <1>5
    <3> QED  BY <1>6, <3>1, Numbers
  <2>5. wStart' <= i' /\ wStart' < end' /\ i' <= end'
    BY <1>1, <1>5, <2>1, <2>4
  <2>6. \A z \in Offset(wStart) .. Offset(i) + 1 - 1 : ~IsSpace(z)
    <3> SUFFICES ASSUME NEW z \in Offset(wStart) .. Offset(i) + 1 - 1 PROVE ~IsSpace(z)
      OBVIOUS
    <3>1. Offset(wStart) \in Nat
      BY <1>5, Numbers DEF Offset
    <3>2. z = Offset(i) \/ z \in Offset(wStart) .. Offset(i) - 1
      BY <2>2, <3>1
    <3> QED  BY <1>5, <1>7, <1>9, <3>2
  <2>7. Offset(i)' - 1 = Offset(i) + 1 - 1
    BY <2>2, <2>3
  <2>8. \A z \in Offset(wStart)' .. Offset(i)' - 1 : ~IsSpace(z)'
    BY <1>3, <2>3, <2>6, <2>7
  <2>9. InWord'
    BY <1>1, <1>3, <1>5, <2>1, <2>3, <2>5, <2>8 DEF InWord
  <2> QED  BY <1>1, <2>1, <2>9, ReadSame
<1> QED  BY <1>8, <1>9

LEMMA NoLastWord == IndexInv /\ ReadInv /\ Wellformed => ~LastWord
<1> SUFFICES ASSUME IndexInv, ReadInv, Wellformed, LastWord PROVE FALSE
  OBVIOUS
<1>1. i = end /\ hitEnd /\ step = "word"
  BY DEF LastWord
<1>2. InWord /\ rest = text.size
  BY <1>1 DEF ReadInv
<1>3. wStart < i
  BY <1>1, <1>2 DEF InWord
<1>4. Offset(i) < text.size
  BY <1>2, <1>3, WordGoesOn
<1>5. Offset(i) = text.size
  BY <1>1, <1>2, Numbers DEF Offset
<1> QED  BY <1>4, <1>5, Numbers

(* The row that is cut is a word, after the rows that were there.          *)
LEMMA CutRow ==
  ASSUME IndexInv, ReadInv, InWord, step = "cut"
  PROVE  LET w == [j \in 1 .. i - wStart |-> buf[wStart + j - 1]]
         IN /\ GoodRow(w)
            /\ AllSpace(NextStart, w[1] - 1)
            /\ w[Len(w)] + 1 = Offset(i)
<1> DEFINE w == [j \in 1 .. i - wStart |-> buf[wStart + j - 1]]
<1>1. /\ wStart <= i /\ wStart < end /\ i <= end /\ Holds(wStart)
      /\ AllSpace(NextStart, Offset(wStart) - 1)
      /\ Offset(wStart) = 0 \/ Offset(wStart) - 1 \in text.spaces
      /\ \A z \in Offset(wStart) .. Offset(i) - 1 : ~IsSpace(z)
      /\ ~IsSpace(Offset(wStart)) /\ i < end /\ IsSpace(Offset(i))
  BY DEF InWord
<1>2. wStart < i
  <2>1. i # wStart /\ wStart <= i
    BY <1>1
  <2> QED  BY <2>1, Numbers
<1>3. PICK k \in Nat \ {0} : k = i - wStart
  BY <1>2, Numbers
<1>4. /\ Offset(wStart) \in Nat /\ Offset(i) = Offset(wStart) + k
      /\ \A j \in 1 .. k : Offset(wStart + j - 1) = Offset(wStart) + j - 1
      /\ \A j \in 1 .. k : wStart + j - 1 \in wStart .. end - 1
  BY <1>1, <1>3, Numbers DEF Offset
<1>5. w \in [1 .. k -> Nat] /\ \A j \in 1 .. k : w[j] = Offset(wStart) + j - 1
  <2>1. ASSUME NEW j \in 1 .. k PROVE buf[wStart + j - 1] = Offset(wStart) + j - 1
    BY <1>1, <1>4, <2>1 DEF Holds
  <2>2. ASSUME NEW j \in 1 .. k PROVE Offset(wStart) + j - 1 \in Nat
    BY <1>4
  <2> QED  BY <1>3, <2>1, <2>2
<1> HIDE DEF w
<1>6. w \in Seq(Nat) /\ Len(w) = k /\ w # <<>>
  BY <1>5
<1>7. w[1] = Offset(wStart) /\ w[Len(w)] = Offset(wStart) + k - 1
  BY <1>4, <1>5, <1>6
<1>8. \A y \in 1 .. Len(w) : w[y] = w[1] + y - 1
  BY <1>5, <1>6, <1>7
<1>9. w[Len(w)] + 1 = Offset(i) /\ w[Len(w)] = Offset(i) - 1
  BY <1>4, <1>7
<1>10. IsWord(w[1], w[Len(w)])
  <2>1. w[1] = 0 \/ w[1] - 1 \in text.spaces
    BY <1>1, <1>7
  <2>2. \A x \in w[1] .. w[Len(w)] : ~IsSpace(x)
    BY <1>1, <1>7, <1>9
  <2>3. w[Len(w)] + 1 \in text.spaces
    BY <1>1, <1>9 DEF IsSpace
  <2> QED  BY <2>1, <2>2, <2>3 DEF IsWord
<1>11. GoodRow(w) /\ AllSpace(NextStart, w[1] - 1)
  BY <1>1, <1>6, <1>7, <1>8, <1>10 DEF GoodRow
<1> QED  BY <1>9, <1>11 DEF w

LEMMA ReadCut == IndexInv /\ ReadInv /\ Cut => ReadInv'
<1> SUFFICES ASSUME IndexInv, ReadInv, Cut PROVE ReadInv'
  OBVIOUS
<1>1. /\ step = "cut" /\ step' = "space" /\ buf' = [buf EXCEPT ![i] = Zero] /\ i' = i + 1
      /\ words' = Append(words, [j \in 1 .. i - wStart |-> buf[wStart + j - 1]])
      /\ UNCHANGED <<text, rest, hitEnd, end, wStart>>
  BY DEF Cut
<1>2. InWord
  BY <1>1 DEF ReadInv
<1>3. PICK w : /\ words' = Append(words, w) /\ GoodRow(w) /\ AllSpace(NextStart, w[1] - 1)
               /\ w[Len(w)] + 1 = Offset(i)
  BY <1>1, <1>2, CutRow
<1>4. words \in Seq(Seq(Nat)) /\ w \in Seq(Nat) /\ w # <<>>
  BY <1>3 DEF ReadInv, GoodRows, GoodRow
<1>5. GoodRows(words')
  <2>1. words' \in Seq(Seq(Nat)) /\ Len(words') = Len(words) + 1
    BY <1>3, <1>4
  <2>2. ASSUME NEW x \in 1 .. Len(words')
        PROVE  GoodRow(words'[x]) /\ AllSpace(After(words', x - 1), words'[x][1] - 1)
    <3>1. CASE x \in 1 .. Len(words)
      <4>1. words'[x] = words[x]
        BY <1>3, <1>4, <3>1
      <4>2. After(words', x - 1) = After(words, x - 1)
        <5>1. x - 1 = 0 \/ words'[x - 1] = words[x - 1]
          BY <1>3, <1>4, <3>1
        <5> QED  BY <5>1 DEF After
      <4> QED  BY <3>1, <4>1, <4>2 DEF ReadInv, GoodRows
    <3>2. CASE x = Len(words) + 1
      <4>1. words'[x] = w /\ x - 1 = Len(words)
        BY <1>3, <1>4, <3>2
      <4>2. After(words', x - 1) = NextStart
        <5>1. x - 1 = 0 \/ words'[x - 1] = words[x - 1]
          BY <1>3, <1>4, <3>2
        <5> QED  BY <4>1, <5>1 DEF After, NextStart
      <4> QED  BY <1>3, <4>1, <4>2
    <3> QED  BY <1>4, <2>1, <3>1, <3>2
  <2> QED  BY <2>1, <2>2 DEF GoodRows
<1>6. NextStart' = Offset(i)
  <2>1. Len(words') # 0 /\ words'[Len(words')] = w
    BY <1>3, <1>4
  <2> QED  BY <1>3, <2>1 DEF NextStart, After
<1>7. i < end /\ IsSpace(Offset(i)) /\ Holds(wStart) /\ wStart <= i
  BY <1>1, <1>2 DEF InWord
<1>8. Searching'
  <2>1. \A j : Offset(j)' = Offset(j)
    BY <1>1 DEF Offset
  <2>2. i + 1 <= end /\ Offset(i) \in Nat /\ Offset(i + 1) = Offset(i) + 1
    BY <1>7, Numbers DEF Offset
  <2>3. Offset(i)' = Offset(i) + 1 /\ Offset(i)' - 1 = Offset(i)
    BY <1>1, <2>1, <2>2
  <2>4. Holds(i)'
    <3> SUFFICES ASSUME NEW j \in i' .. end' - 1 PROVE buf'[j] = Offset(j)'
      BY DEF Holds
    <3>1. j \in wStart .. end - 1 /\ j # i /\ j \in 0 .. BufLen
      BY <1>1, <1>7, Numbers
    <3>2. buf'[j] = buf[j]
      BY <1>1, <3>1 DEF IndexInv, WordTypeOK
    <3> QED  BY <1>7, <2>1, <3>1, <3>2 DEF Holds
  <2>5. NextStart' <= Offset(i)'
    BY <1>6, <2>2, <2>3
  <2>6. AllSpace(NextStart, Offset(i) - 1)'
    <3>1. AllSpace(Offset(i), Offset(i))
      BY <1>7, <2>2 DEF AllSpace
    <3> QED  BY <1>1, <1>6, <2>3, <3>1, RowsKept
  <2>7. i' <= end'
    BY <1>1, <2>2
  <2> QED  BY <1>1, <2>4, <2>5, <2>6, <2>7 DEF Searching
<1>9. GoodRows(words)'
  BY <1>1, <1>5, RowsKept
<1> QED  BY <1>1, <1>8, <1>9 DEF ReadInv

LEMMA ReadStep == IndexInv /\ (Wellformed => ReadInv) /\ [WordNext]_wordVars => (Wellformed => ReadInv)'
<1> SUFFICES ASSUME IndexInv, Wellformed => ReadInv, [WordNext]_wordVars, Wellformed'
             PROVE  ReadInv'
  OBVIOUS
<1>1. text' = text
  BY DEF WordNext, Open, FillAfterSpace, TestSpace, NothingAfterSpace, NextRow, FillInWord,
         TestWord, LastWord, Cut, wordVars
<1>2. Wellformed
  BY <1>1 DEF Wellformed, IsWord, IsSpace
<1>3. ReadInv
  BY <1>2
<1>4. CASE UNCHANGED wordVars
  <2>1. /\ text' = text /\ rest' = rest /\ hitEnd' = hitEnd /\ buf' = buf /\ end' = end
        /\ i' = i /\ wStart' = wStart /\ words' = words /\ step' = step
    BY <1>4 DEF wordVars
  <2>2. GoodRows(words)'
    BY <1>3, <2>1, RowsKept DEF ReadInv
  <2>3. Searching' = Searching
    BY <2>1 DEF Searching, Holds, Offset, NextStart, AllSpace, After, IsSpace
  <2>4. PastEnd' = PastEnd
    BY <2>1 DEF PastEnd, Holds, Offset, NextStart, AllSpace, After, IsSpace
  <2>5. InWord' = InWord
    BY <2>1 DEF InWord, Holds, Offset, NextStart, AllSpace, After, IsSpace
  <2>6. AllSpace(NextStart, text.size - 1)' = AllSpace(NextStart, text.size - 1)
    BY <2>1 DEF NextStart, AllSpace, After, IsSpace
  <2> QED  BY <1>3, <2>1, <2>2, <2>3, <2>4, <2>5, <2>6 DEF ReadInv
<1>5. CASE WordNext
  BY <1>2, <1>3, <1>5, ReadOpen, ReadFillAfterSpace, ReadTestSpace, ReadNothingAfterSpace,
     ReadNextRow, ReadFillInWord, ReadTestWord, NoLastWord, ReadCut DEF WordNext
<1> QED  BY <1>4, <1>5

LEMMA RowsCorrect == ReadInv => RowsAreWords
<1> SUFFICES ASSUME ReadInv PROVE RowsAreWords
  OBVIOUS
<1>1. step \notin {"overrun", "aborted"} /\ GoodRows(words)
  BY DEF ReadInv
<1>2. words \in Seq(Seq(Nat))
  BY <1>1 DEF GoodRows
<1>3. ASSUME NEW x \in 1 .. Len(words)
      PROVE  LET w == words[x] IN
             /\ w # <<>> /\ \A y \in 1 .. Len(w) : w[y] # Zero /\ w[y] = w[1] + y - 1
             /\ IsWord(w[1], w[Len(w)])
             /\ \A z \in (IF x = 1 THEN 0 ELSE words[x - 1][Len(words[x - 1])] + 1) .. w[1] - 1 :
                  IsSpace(z)
  <2>1. GoodRow(words[x]) /\ AllSpace(After(words, x - 1), words[x][1] - 1)
    BY <1>1 DEF GoodRows
  <2>2. \A y \in 1 .. Len(words[x]) : words[x][y] \in Nat
    BY <2>1 DEF GoodRow
  <2>3. After(words, x - 1) = IF x = 1 THEN 0 ELSE words[x - 1][Len(words[x - 1])] + 1
    BY <1>2 DEF After
  <2> QED  BY <2>1, <2>2, <2>3, ZeroAssumption DEF GoodRow, AllSpace
<1>4. NextStart = IF words = <<>> THEN 0 ELSE words[Len(words)][Len(words[Len(words)])] + 1
  BY <1>2 DEF NextStart, After
<1>5. step = "done" => AllSpace(NextStart, text.size - 1)
  BY DEF ReadInv
<1> QED  BY <1>1, <1>3, <1>4, <1>5 DEF RowsAreWords, AllSpace

(* Of a file that ends in white space, and has no words of more than half  *)
(* a buffer, every word becomes a row, once and in order, wherever the     *)
(* buffers cut it: a word at the end of the buffer is moved to the front   *)
(* without a byte being copied over another, and the reader never looks    *)
(* past the buffer (word_count.cpp:8-25, 48-73).                           *)
THEOREM WordsAreRows == WordSpec => []RowsAreWords
<1>1. WordSpec => []IndexInv
  BY WordInitInv, WordStepTypes, PTL DEF WordSpec
<1>2. WordInit => (Wellformed => ReadInv)
  BY ReadInit
<1>3. WordSpec => [](Wellformed => ReadInv)
  BY <1>1, <1>2, ReadStep, PTL DEF WordSpec
<1>4. (Wellformed => ReadInv) => RowsAreWords
  BY RowsCorrect DEF RowsAreWords
<1> QED  BY <1>3, <1>4, PTL
=============================================================================
