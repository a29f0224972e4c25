----------------------------- MODULE PartsProofs -----------------------------
(***************************************************************************)
(* Proofs about the parts that work by themselves and share no state: the  *)
(* monitor on the bytes of connections, the Map, the LineReader and the    *)
(* SorParser.                                                              *)
(***************************************************************************)
EXTENDS Framing, HashMap, SorParser, FiniteSetTheorems, WellFoundedInduction, TLAPS

-----------------------------------------------------------------------------
(***************************************************************************)
(* Framing.  As long as no pieces of two connections have met in buff, and *)
(* no message has ended with a piece of one byte, buff is empty or holds   *)
(* one piece of one connection, which starts where a message starts and    *)
(* does not end where one ends; every other connection has been read up to *)
(* the end of a message.                                                   *)
(***************************************************************************)

(* What buff holds while it is not empty.                                  *)
HoldsPiece ==
  /\ Len(buff) = 1
  /\ buff[1].from \in Boundary(buff[1].conn)
  /\ buff[1].from < buff[1].to
  /\ buff[1].to = pos[buff[1].conn]
  /\ buff[1].to \notin End(buff[1].conn)
  /\ \A d \in Conn \ {buff[1].conn} : pos[d] \in Boundary(d)

FrameInv == FrameTypeOK /\ (~torn => Quiet \/ HoldsPiece)

PieceSet == [conn : Conn, from : Nat, to : Nat]

-----------------------------------------------------------------------------
(* A set of numbers has a least element.                                   *)
LEMMA LeastElement ==
  ASSUME NEW T \in SUBSET Nat, T # {}
  PROVE  \E n \in T : \A m \in T : n <= m
<1> DEFINE R == OpToRel(<, Nat)
<1>1. IsWellFoundedOn(R, Nat)
  BY NatLessThanWellFounded
<1>2. \A x, y \in Nat : x < y => <<x, y>> \in R
  BY DEF OpToRel
<1> HIDE DEF R
<1>3. PICK x \in T : \A y \in T : <<y, x>> \notin R
  BY <1>1, WFMin
<1>4. ASSUME NEW y \in T PROVE x <= y
  <2>1. x \in Nat /\ y \in Nat
    OBVIOUS
  <2>2. ~(y < x)
    BY <1>2, <1>3, <2>1
  <2> QED  BY <2>1, <2>2
<1> QED  BY <1>4

(* The ends of messages are positions.                                     *)
LEMMA EndTypes ==
  ASSUME traffic \in Traffic
  PROVE  \A c \in Conn : End(c) \subseteq Nat \ {0}
BY TrafficAssumption DEF End

(* FirstNul is the first end of a message in a piece.                      *)
LEMMA FirstNulIsFirst ==
  ASSUME traffic \in Traffic, NEW p \in PieceSet, HasNul(p)
  PROVE  /\ FirstNul(p) \in End(p.conn) /\ FirstNul(p) \in Nat
         /\ p.from < FirstNul(p) /\ FirstNul(p) <= p.to
         /\ \A x \in End(p.conn) : p.from < x => FirstNul(p) <= x
<1> DEFINE T == {e \in End(p.conn) : p.from < e}
<1>1. p.conn \in Conn /\ p.from \in Nat /\ p.to \in Nat
  BY DEF PieceSet
<1>2. End(p.conn) \subseteq Nat
  BY <1>1, EndTypes
<1>3. PICK n \in T : \A m \in T : n <= m
  <2>1. T \in SUBSET Nat /\ T # {}
    BY <1>2 DEF HasNul
  <2> HIDE DEF T
  <2> QED  BY <2>1, LeastElement
<1>4. \E e \in End(p.conn) : p.from < e /\ \A x \in End(p.conn) : p.from < x => e <= x
  BY <1>3
<1>5. /\ FirstNul(p) \in End(p.conn) /\ p.from < FirstNul(p)
      /\ \A x \in End(p.conn) : p.from < x => FirstNul(p) <= x
  BY <1>4 DEF FirstNul
<1>6. FirstNul(p) <= p.to
  <2>1. PICK e \in End(p.conn) : p.from < e /\ e <= p.to
    BY DEF HasNul
  <2> QED  BY <1>1, <1>2, <1>5, <2>1
<1> QED  BY <1>2, <1>5, <1>6

(* Appended adds to the last piece, or a piece.                            *)
LEMMA AppendedTypes ==
  ASSUME NEW b \in Seq(PieceSet), NEW c \in Conn, NEW from \in Nat, NEW to \in Nat
  PROVE  /\ Appended(b, c, from, to) \in Seq(PieceSet)
         /\ Appended(b, c, from, to) # <<>>
<1>1. Piece(c, from, to) \in PieceSet
  BY DEF Piece, PieceSet
<1>2. CASE b # <<>> /\ b[Len(b)].conn = c
  <2>1. Len(b) \in 1 .. Len(b) /\ b[Len(b)] \in PieceSet
    BY <1>2
  <2>2. [b[Len(b)] EXCEPT !.to = to] \in PieceSet
    BY <2>1 DEF PieceSet
  <2>3. Appended(b, c, from, to) = [b EXCEPT ![Len(b)] = [b[Len(b)] EXCEPT !.to = to]]
    BY <1>2 DEF Appended
  <2> QED  BY <1>2, <2>1, <2>2, <2>3
<1>3. CASE ~(b # <<>> /\ b[Len(b)].conn = c)
  <2>1. Appended(b, c, from, to) = Append(b, Piece(c, from, to))
    BY <1>3 DEF Appended
  <2> QED  BY <1>1, <2>1
<1> QED  BY <1>2, <1>3

(* The text that is read is a sequence of pieces again.                    *)
LEMMA TextTypes ==
  ASSUME traffic \in Traffic, NEW b \in Seq(PieceSet), b # <<>>
  PROVE  Text(b) \in Seq(PieceSet) /\ Text(b) # <<>>
<1>1. CASE \E x \in 1 .. Len(b) : HasNul(b[x])
  <2> DEFINE T == {x \in 1 .. Len(b) : HasNul(b[x])}
             Q(x) == HasNul(b[x]) /\ \A y \in 1 .. x - 1 : ~HasNul(b[y])
             i == CHOOSE x \in 1 .. Len(b) : Q(x)
  <2>1. PICK n \in T : \A m \in T : n <= m
    <3>1. T \in SUBSET Nat /\ T # {}
      BY <1>1
    <3> HIDE DEF T
    <3> QED  BY <3>1, LeastElement
  <2>2. \E x \in 1 .. Len(b) : Q(x)
    BY <2>1
  <2>3. i \in 1 .. Len(b) /\ HasNul(b[i])
    BY <2>2
  <2>4. Text(b) = Append(SubSeq(b, 1, i - 1), [b[i] EXCEPT !.to = FirstNul(b[i])])
    BY <1>1 DEF Text
  <2> HIDE DEF i
  <2>5. b[i] \in PieceSet
    BY <2>3
  <2>6. FirstNul(b[i]) \in Nat
    BY <2>3, <2>5, FirstNulIsFirst
  <2>7. [b[i] EXCEPT !.to = FirstNul(b[i])] \in PieceSet
    BY <2>5, <2>6 DEF PieceSet
  <2>8. SubSeq(b, 1, i - 1) \in Seq(PieceSet)
    <3>1. \A j \in 1 .. i - 1 : b[j] \in PieceSet
      BY <2>3
    <3> QED  BY <2>3, <3>1
  <2> QED  BY <2>4, <2>7, <2>8
<1>2. CASE ~\E x \in 1 .. Len(b) : HasNul(b[x])
  BY <1>2 DEF Text
<1> QED  BY <1>1, <1>2

-----------------------------------------------------------------------------
LEMMA FrameInitInv == FrameInit => FrameInv
<1> SUFFICES ASSUME FrameInit PROVE FrameInv
  OBVIOUS
<1>1. pos \in [Conn -> Nat]
  BY DEF FrameInit
<1>2. <<>> \in Seq([conn : Conn, from : Nat, to : Nat])
  OBVIOUS
<1>3. FrameTypeOK
  BY <1>1, <1>2 DEF FrameInit, FrameTypeOK
<1>4. Quiet
  BY DEF FrameInit, Quiet, Boundary
<1> QED  BY <1>3, <1>4 DEF FrameInv

(* Processing a text keeps the types.                                      *)
LEMMA ProcessTypes ==
  ASSUME FrameTypeOK, NEW t \in Seq(PieceSet), t # <<>>, Process(t)
  PROVE  handled' \subseteq Message /\ alive' \in BOOLEAN
<1>1. CASE ~IsWhole(t)
  BY <1>1 DEF Process, FrameTypeOK
<1>2. CASE IsWhole(t)
  <2>1. t[1] \in PieceSet
    OBVIOUS
  <2>2. t[1].conn \in Conn /\ t[1].to \in End(t[1].conn)
    BY <1>2, <2>1 DEF PieceSet, IsWhole
  <2>3. <<t[1].conn, t[1].to>> \in Message
    BY <2>2 DEF Message
  <2> QED  BY <1>2, <2>3 DEF Process, FrameTypeOK
<1> QED  BY <1>1, <1>2

LEMMA RecvTypes ==
  ASSUME FrameTypeOK, NEW c \in Conn, NEW n \in 1 .. BufSize, Recv(c, n)
  PROVE  FrameTypeOK'
<1> DEFINE to == pos[c] + n
           b == Appended(buff, c, pos[c], to)
<1>1. /\ pos[c] \in Nat /\ to \in Nat /\ buff \in Seq(PieceSet) /\ traffic \in Traffic
  BY BufSizeAssumption DEF FrameTypeOK, PieceSet
<1>2. b \in Seq(PieceSet) /\ b # <<>>
  BY <1>1, AppendedTypes
<1>3. Text(b) \in Seq(PieceSet) /\ Text(b) # <<>>
  BY <1>1, <1>2, TextTypes
<1>4. PICK complete \in EndsMessage(c, n, to) :
        /\ torn' = (Tears(c, n, complete) \/ (torn /\ ~Quiet))
        /\ \/ complete /\ buff' = <<>> /\ Process(Text(b))
           \/ ~complete /\ buff' = b /\ UNCHANGED <<handled, alive>>
  BY DEF Recv
<1>5. pos' \in [Conn -> Nat]
  BY <1>1 DEF Recv, FrameTypeOK
<1>6. buff' \in Seq([conn : Conn, from : Nat, to : Nat])
  <2>1. buff' = <<>> \/ buff' = b
    BY <1>4
  <2>2. <<>> \in Seq(PieceSet)
    OBVIOUS
  <2> HIDE DEF b
  <2>3. buff' \in Seq(PieceSet)
    BY <1>2, <2>1, <2>2
  <2> QED  BY <2>3 DEF PieceSet
<1>7. handled' \subseteq Message /\ alive' \in BOOLEAN
  <2>1. CASE complete
    BY <2>1, <1>3, <1>4, ProcessTypes
  <2>2. CASE ~complete
    BY <2>2, <1>4 DEF FrameTypeOK
  <2> QED  BY <2>1, <2>2
<1>8. torn' \in BOOLEAN
  BY <1>4
<1>9. traffic' = traffic
  BY DEF Recv
<1>10. Message' = Message
  BY <1>9 DEF Message, End
<1> QED  BY <1>1, <1>5, <1>6, <1>7, <1>8, <1>9, <1>10 DEF FrameTypeOK

-----------------------------------------------------------------------------
(* What a step does from a state in which buff is empty or holds one       *)
(* piece, when it tears nothing: from is where the piece in buff starts    *)
(* when the bytes have been added.                                         *)
LEMMA OnePiece ==
  ASSUME FrameInv, Intact, NEW c \in Conn, NEW n \in 1 .. BufSize, Recv(c, n), ~torn'
  PROVE  \E from, to \in Nat, complete \in BOOLEAN :
           /\ from = Start(c) /\ from \in Boundary(c) /\ from < to
           /\ to = pos[c] + n
           /\ complete <=> to \in End(c)
           /\ \A d \in Conn \ {c} : pos[d] \in Boundary(d) /\ Start(d) = pos[d]
           /\ pos' = [pos EXCEPT ![c] = to]
           /\ traffic' = traffic
           /\ ~complete => buff' = <<Piece(c, from, to)>> /\ UNCHANGED <<handled, alive>>
           /\ complete => buff' = <<>> /\ Process(Text(<<Piece(c, from, to)>>))
<1> DEFINE to == pos[c] + n
           b == Appended(buff, c, pos[c], to)
<1>1. /\ pos[c] \in Nat /\ to \in Nat /\ buff \in Seq(PieceSet) /\ n \in Nat \ {0}
      /\ pos[c] < to /\ End(c) \subseteq Nat \ {0}
  BY BufSizeAssumption, EndTypes DEF FrameInv, FrameTypeOK, PieceSet
<1>2. PICK complete \in EndsMessage(c, n, to) :
        /\ torn' = (Tears(c, n, complete) \/ (torn /\ ~Quiet))
        /\ \/ complete /\ buff' = <<>> /\ Process(Text(b))
           \/ ~complete /\ buff' = b /\ UNCHANGED <<handled, alive>>
  BY DEF Recv
<1>3. pos' = [pos EXCEPT ![c] = to] /\ traffic' = traffic
  BY DEF Recv
<1>4. ~Tears(c, n, complete)
  BY <1>2
<1>5. complete \in BOOLEAN /\ (complete <=> to \in End(c))
  <2>1. CASE n = 1
    BY <1>2, <1>4, <2>1 DEF Tears, EndsMessage
  <2>2. CASE n # 1
    BY <1>2, <2>2 DEF EndsMessage
  <2> QED  BY <2>1, <2>2
<1>6. PICK from \in Nat :
        /\ from = Start(c) /\ from \in Boundary(c) /\ from < to
        /\ \A d \in Conn \ {c} : pos[d] \in Boundary(d) /\ Start(d) = pos[d]
        /\ b = <<Piece(c, from, to)>>
  <2>1. CASE Quiet
    <3>1. buff = <<>> /\ \A d \in Conn : pos[d] \in Boundary(d) /\ Start(d) = pos[d]
      BY <2>1 DEF Quiet, Start
    <3>2. b = <<Piece(c, pos[c], to)>>
      BY <3>1 DEF Appended
    <3> QED  BY <1>1, <3>1, <3>2
  <2>2. CASE ~Quiet
    <3>1. HoldsPiece /\ buff # <<>>
      BY <2>2 DEF FrameInv, Intact, HoldsPiece
    <3>2. buff[1] \in PieceSet /\ Len(buff) = 1
      BY <1>1, <3>1 DEF HoldsPiece
    <3>3. buff[1].conn = c
      BY <1>4, <3>1, <3>2 DEF Tears
    <3>4. buff[1].from \in Nat /\ buff[1].from = Start(c)
      BY <3>1, <3>2, <3>3 DEF PieceSet, Start
    <3>5. \A d \in Conn \ {c} : pos[d] \in Boundary(d) /\ Start(d) = pos[d]
      BY <3>1, <3>3 DEF HoldsPiece, Start
    <3>6. buff[1].from \in Boundary(c) /\ buff[1].from < to
      BY <1>1, <3>1, <3>3, <3>4 DEF HoldsPiece
    <3>7. b = <<Piece(c, buff[1].from, to)>>
      <4>1. b = [buff EXCEPT ![1] = [buff[1] EXCEPT !.to = to]]
        BY <3>1, <3>2, <3>3 DEF Appended
      <4>2. [buff[1] EXCEPT !.to = to] = Piece(c, buff[1].from, to)
        BY <3>2, <3>3 DEF Piece, PieceSet
      <4> HIDE DEF b
      <4> QED  BY <1>1, <3>2, <4>1, <4>2
    <3> QED  BY <3>4, <3>5, <3>6, <3>7
  <2> QED  BY <2>1, <2>2
<1> HIDE DEF b, to
<1>7. to = pos[c] + n
  BY DEF to
<1>8. ~complete => buff' = <<Piece(c, from, to)>> /\ UNCHANGED <<handled, alive>>
  BY <1>2, <1>5, <1>6
<1>9. complete => buff' = <<>> /\ Process(Text(<<Piece(c, from, to)>>))
  BY <1>2, <1>5, <1>6
<1> QED  BY <1>1, <1>3, <1>5, <1>6, <1>7, <1>8, <1>9

(* The text of one whole piece is the first message in it.                 *)
LEMMA TextOfPiece ==
  ASSUME traffic \in Traffic, NEW c \in Conn, NEW from \in Boundary(c), NEW to \in End(c),
         from \in Nat, from < to
  PROVE  LET p == Piece(c, from, to)
         IN /\ HasNul(p)
            /\ Text(<<p>>) = <<Piece(c, from, FirstNul(p))>>
            /\ IsWhole(Text(<<p>>))
            /\ FirstNul(p) \in End(c) /\ FirstNul(p) \in Nat
            /\ from < FirstNul(p) /\ FirstNul(p) <= to
            /\ \A x \in End(c) : from < x => FirstNul(p) <= x
<1> DEFINE p == Piece(c, from, to)
           b == <<p>>
<1>1. to \in Nat
  BY EndTypes
<1>2. p \in PieceSet /\ p.conn = c /\ p.from = from /\ p.to = to
  BY <1>1 DEF Piece, PieceSet
<1>3. HasNul(p)
  <2>1. to \in End(p.conn) /\ p.from < to /\ to <= p.to
    BY <1>1, <1>2
  <2> QED  BY <2>1 DEF HasNul
<1> HIDE DEF p
<1>4. /\ FirstNul(p) \in End(c) /\ FirstNul(p) \in Nat
      /\ from < FirstNul(p) /\ FirstNul(p) <= to
      /\ \A x \in End(c) : from < x => FirstNul(p) <= x
  BY <1>2, <1>3, FirstNulIsFirst
<1>5. Text(b) = <<Piece(c, from, FirstNul(p))>>
  <2> DEFINE i == CHOOSE x \in 1 .. Len(b) : HasNul(b[x]) /\ \A y \in 1 .. x - 1 : ~HasNul(b[y])
  <2>1. Len(b) = 1 /\ b[1] = p
    OBVIOUS
  <2>2. HasNul(b[1]) /\ \A y \in 1 .. 1 - 1 : ~HasNul(b[y])
    BY <1>3, <2>1
  <2>3. i = 1
    BY <2>1, <2>2
  <2>4. Text(b) = Append(SubSeq(b, 1, i - 1), [b[i] EXCEPT !.to = FirstNul(b[i])])
    BY <2>1, <2>2 DEF Text
  <2> HIDE DEF i
  <2>5. [p EXCEPT !.to = FirstNul(p)] = Piece(c, from, FirstNul(p))
    BY <1>2 DEF Piece, PieceSet
  <2>6. SubSeq(b, 1, 0) = <<>>
    BY <1>2
  <2>7. Text(b) = Append(<<>>, Piece(c, from, FirstNul(p)))
    BY <2>1, <2>3, <2>4, <2>5, <2>6
  <2> QED  BY <2>7
<1>6. IsWhole(Text(b))
  <2>1. Len(<<Piece(c, from, FirstNul(p))>>) = 1
    OBVIOUS
  <2> QED  BY <1>4, <1>5, <2>1 DEF IsWhole, Piece
<1> QED  BY <1>3, <1>4, <1>5, <1>6 DEF p

LEMMA BoundarySame ==
  ASSUME traffic' = traffic
  PROVE  \A c : End(c)' = End(c) /\ Boundary(c)' = Boundary(c)
BY DEF End, Boundary

LEMMA RecvInv ==
  ASSUME FrameInv, NEW c \in Conn, NEW n \in 1 .. BufSize, Recv(c, n)
  PROVE  FrameInv'
<1>1. FrameTypeOK'
  BY RecvTypes DEF FrameInv
<1>2. ASSUME ~torn' PROVE Quiet' \/ HoldsPiece'
  <2>1. Intact
    BY <1>2 DEF Recv, Intact, FrameInv, FrameTypeOK
  <2>2. PICK from \in Nat, to \in Nat, complete \in BOOLEAN :
           /\ from = Start(c) /\ from \in Boundary(c) /\ from < to
           /\ to = pos[c] + n
           /\ complete <=> to \in End(c)
           /\ \A d \in Conn \ {c} : pos[d] \in Boundary(d) /\ Start(d) = pos[d]
           /\ pos' = [pos EXCEPT ![c] = to]
           /\ traffic' = traffic
           /\ ~complete => buff' = <<Piece(c, from, to)>> /\ UNCHANGED <<handled, alive>>
           /\ complete => buff' = <<>> /\ Process(Text(<<Piece(c, from, to)>>))
    BY <1>2, <2>1, OnePiece
  <2>3. /\ \A d \in Conn : pos'[d] = IF d = c THEN to ELSE pos[d]
        /\ \A d : End(d)' = End(d) /\ Boundary(d)' = Boundary(d)
    BY <2>2, BoundarySame DEF FrameInv, FrameTypeOK
  <2>4. CASE complete
    <3>1. buff' = <<>>
      BY <2>2, <2>4
    <3>2. to \in Boundary(c)
      BY <2>2, <2>4 DEF Boundary
    <3>3. \A d \in Conn : pos'[d] \in Boundary(d)'
      BY <2>2, <2>3, <3>2
    <3> QED  BY <3>1, <3>3 DEF Quiet
  <2>5. CASE ~complete
    <3>1. Len(buff') = 1 /\ buff'[1] = Piece(c, from, to)
      BY <2>2, <2>5
    <3>2. buff'[1].conn = c /\ buff'[1].from = from /\ buff'[1].to = to
      BY <3>1 DEF Piece
    <3>3. to \notin End(c)'
      BY <2>2, <2>3, <2>5
    <3>4. to = pos'[c] /\ from \in Boundary(c)'
      BY <2>2, <2>3
    <3>5. \A d \in Conn \ {c} : pos'[d] \in Boundary(d)'
      BY <2>2, <2>3
    <3>6. HoldsPiece'
      BY <2>2, <3>1, <3>2, <3>3, <3>4, <3>5 DEF HoldsPiece
    <3> QED  BY <3>6
  <2> QED  BY <2>4, <2>5
<1> QED  BY <1>1, <1>2 DEF FrameInv

LEMMA FrameStepInv == FrameInv /\ [FrameNext]_frameVars => FrameInv'
<1> SUFFICES ASSUME FrameInv, [FrameNext]_frameVars PROVE FrameInv'
  OBVIOUS
<1>1. CASE FrameNext
  BY <1>1, RecvInv DEF FrameNext
<1>2. CASE UNCHANGED frameVars
  <2>1. Message' = Message /\ \A c : End(c)' = End(c) /\ Boundary(c)' = Boundary(c)
    BY <1>2, BoundarySame DEF frameVars, Message, End
  <2>2. FrameTypeOK'
    BY <1>2, <2>1 DEF FrameInv, FrameTypeOK, frameVars
  <2>3. Quiet' = Quiet /\ HoldsPiece' = HoldsPiece
    BY <1>2 DEF frameVars, Quiet, HoldsPiece, End, Boundary
  <2> QED  BY <1>2, <2>2, <2>3 DEF FrameInv, frameVars
<1> QED  BY <1>1, <1>2

(* The invariant that the two theorems below rest on.                      *)
THEOREM FrameCorrect == FrameSpec => []FrameInv
BY FrameInitInv, FrameStepInv, PTL DEF FrameSpec

(* Type correctness: whatever is in buff, what is taken out of it for a    *)
(* message is a message of a connection (kvstore.h:403-418).               *)
THEOREM FrameTypeCorrect == FrameSpec => []FrameTypeOK
<1>1. FrameInv => FrameTypeOK
  BY DEF FrameInv
<1> QED  BY <1>1, FrameCorrect, PTL

-----------------------------------------------------------------------------
TakesWhole ==
  Intact /\ ~torn' =>
    \/ handled' = handled /\ \A c \in Conn : OnWire(c)' = OnWire(c)
    \/ \E c \in Conn : \E first, last \in OnWire(c) :
         /\ \A x \in OnWire(c) : first <= x
         /\ handled' = handled \cup {<<c, first>>}
         /\ OnWire(c)' = {x \in OnWire(c) : x > last}
         /\ \A d \in Conn \ {c} : OnWire(d)' = OnWire(d)

LEMMA RecvTakesWhole ==
  ASSUME FrameInv, NEW c \in Conn, NEW n \in 1 .. BufSize, Recv(c, n), Intact, ~torn'
  PROVE  TakesWhole
<1>1. PICK from \in Nat, to \in Nat, complete \in BOOLEAN :
         /\ from = Start(c) /\ from \in Boundary(c) /\ from < to
         /\ to = pos[c] + n
         /\ complete <=> to \in End(c)
         /\ \A d \in Conn \ {c} : pos[d] \in Boundary(d) /\ Start(d) = pos[d]
         /\ pos' = [pos EXCEPT ![c] = to]
         /\ traffic' = traffic
         /\ ~complete => buff' = <<Piece(c, from, to)>> /\ UNCHANGED <<handled, alive>>
         /\ complete => buff' = <<>> /\ Process(Text(<<Piece(c, from, to)>>))
  BY OnePiece
<1>2. /\ \A d \in Conn : pos'[d] = IF d = c THEN to ELSE pos[d]
      /\ \A d : End(d)' = End(d)
      /\ \A d \in Conn : End(d) \subseteq Nat
      /\ traffic \in Traffic
  BY <1>1, BoundarySame, EndTypes DEF FrameInv, FrameTypeOK
<1>3. CASE ~complete
  <2>1. buff' # <<>> /\ buff'[1].conn = c /\ buff'[1].from = from
    BY <1>1, <1>3 DEF Piece
  <2>2. ASSUME NEW d \in Conn PROVE Start(d)' = Start(d)
    <3>1. CASE d = c
      BY <1>1, <2>1, <3>1 DEF Start
    <3>2. CASE d # c
      <4>1. Start(d)' = pos'[d]
        BY <2>1, <3>2 DEF Start
      <4> QED  BY <1>1, <1>2, <3>2, <4>1
    <3> QED  BY <3>1, <3>2
  <2>3. \A d \in Conn : OnWire(d)' = OnWire(d)
    BY <1>2, <2>2 DEF OnWire
  <2> QED  BY <1>1, <1>3, <2>3 DEF TakesWhole
<1>4. CASE complete
  <2> DEFINE first == FirstNul(Piece(c, from, to))
  <2>1. to \in End(c) /\ buff' = <<>> /\ Process(Text(<<Piece(c, from, to)>>))
    BY <1>1, <1>4
  <2>2. /\ Text(<<Piece(c, from, to)>>) = <<Piece(c, from, first)>>
        /\ IsWhole(Text(<<Piece(c, from, to)>>))
        /\ first \in End(c) /\ first \in Nat
        /\ from < first /\ first <= to
        /\ \A x \in End(c) : from < x => first <= x
    BY <1>1, <1>2, <2>1, TextOfPiece
  <2> HIDE DEF first
  <2>3. handled' = handled \cup {<<c, first>>}
    <3>1. Process(<<Piece(c, from, first)>>) /\ IsWhole(<<Piece(c, from, first)>>)
      BY <2>1, <2>2
    <3> QED  BY <3>1 DEF Process, Piece
  <2>4. \A d \in Conn : Start(d)' = pos'[d]
    BY <2>1 DEF Start
  <2>5. \A d \in Conn \ {c} : OnWire(d)' = OnWire(d)
    <3> SUFFICES ASSUME NEW d \in Conn \ {c} PROVE OnWire(d)' = OnWire(d)
      OBVIOUS
    <3>1. Start(d)' = Start(d)
      BY <1>1, <1>2, <2>4
    <3> QED  BY <1>2, <3>1 DEF OnWire
  <2>6. OnWire(c) = {x \in End(c) : x > from}
    BY <1>1 DEF OnWire
  <2>7. OnWire(c)' = {x \in End(c) : x > to}
    <3>1. Start(c)' = to
      BY <1>2, <2>4
    <3> QED  BY <1>2, <3>1 DEF OnWire
  <2>8. first \in OnWire(c) /\ to \in OnWire(c) /\ \A x \in OnWire(c) : first <= x
    BY <1>1, <1>2, <2>1, <2>2, <2>6
  <2>9. OnWire(c)' = {x \in OnWire(c) : x > to}
    BY <1>1, <1>2, <2>6, <2>7
  <2> QED  BY <2>3, <2>5, <2>8, <2>9 DEF TakesWhole
<1> QED  BY <1>3, <1>4

LEMMA StepTakesWhole == FrameInv /\ [FrameNext]_frameVars => [TakesWhole]_frameVars
<1> SUFFICES ASSUME FrameInv, FrameNext PROVE TakesWhole
  OBVIOUS
<1>1. PICK c \in Conn, n \in 1 .. BufSize : Recv(c, n)
  BY DEF FrameNext
<1>2. CASE Intact /\ ~torn'
  BY <1>1, <1>2, RecvTakesWhole
<1>3. CASE ~(Intact /\ ~torn')
  BY <1>3 DEF TakesWhole
<1> QED  BY <1>2, <1>3

(* The byte stream is the Receive of KVStore, unless pieces of two         *)
(* connections meet in buff: whatever the sizes of the pieces that recv()  *)
(* returns and wherever messages end in them, a step processes the first   *)
(* message of one connection and drops those it has received with it, or   *)
(* nothing (kvstore.h:405-418).                                            *)
THEOREM MessagesAreWhole == FrameSpec => TakesWholeMessages
<1>1. FrameSpec => [][TakesWhole]_frameVars
  BY FrameCorrect, StepTakesWhole, PTL DEF FrameSpec
<1>2. [][TakesWhole]_frameVars => TakesWholeMessages
  BY PTL DEF TakesWhole, TakesWholeMessages
<1> QED  BY <1>1, <1>2

-----------------------------------------------------------------------------
(***************************************************************************)
(* HashMap.  A Map holds what was put into it, for any keys, values and    *)
(* hash function and however often it grows.                               *)
(***************************************************************************)

(* Every key is in the bucket it is looked for in.                         *)
Placed(m) == \A b \in DOMAIN m.items : \A k \in DOMAIN m.items[b] : Off(m, k) = b

(* The size is the number of keys.                                         *)
Counted(m) == IsFiniteSet(KeysOf(m)) /\ m.size = Cardinality(KeysOf(m))

MapOK(m) == IsMap(m) /\ Placed(m) /\ Counted(m)

(* Two maps hold the same.                                                 *)
SameContents(m, n) ==
  /\ KeysOf(n) = KeysOf(m) /\ n.size = m.size
  /\ \A k \in MapKey : MapGet(n, k) = MapGet(m, k)

(* A bucket is a function from its keys to values.                         *)
LEMMA BucketTypes ==
  ASSUME NEW m, IsMap(m), NEW b \in 0 .. m.capacity - 1
  PROVE  /\ DOMAIN m.items[b] \subseteq MapKey
         /\ \A k \in DOMAIN m.items[b] : m.items[b][k] \in MapValue
         /\ m.items[b] = [k \in DOMAIN m.items[b] |-> m.items[b][k]]
<1>1. m.items[b] \in Bucket
  BY DEF IsMap
<1>2. PICK S \in SUBSET MapKey : m.items[b] \in [S -> MapValue]
  BY <1>1 DEF Bucket
<1> QED  BY <1>2

LEMMA BucketFromKeys ==
  ASSUME NEW S \in SUBSET MapKey, NEW f \in [S -> MapValue]
  PROVE  f \in Bucket
BY DEF Bucket

(* Where a key is looked for.                                              *)
LEMMA OffTypes ==
  ASSUME NEW m, m.capacity \in Nat \ {0}, NEW k \in MapKey
  PROVE  Off(m, k) \in 0 .. m.capacity - 1
<1>1. Hash[k] \in Nat
  BY HashAssumption
<1> QED  BY <1>1 DEF Off

(* The keys of a map are keys, and a key is in the map when it is in the   *)
(* bucket it belongs to.                                                   *)
LEMMA KeysInMap ==
  ASSUME NEW m, IsMap(m)
  PROVE  /\ KeysOf(m) \subseteq MapKey
         /\ Placed(m) => \A k \in MapKey : k \in KeysOf(m) <=> MapContains(m, k)
<1>1. DOMAIN m.items = 0 .. m.capacity - 1 /\ m.capacity \in Nat \ {0}
  BY DEF IsMap
<1>2. KeysOf(m) \subseteq MapKey
  BY <1>1, BucketTypes DEF KeysOf
<1>3. ASSUME Placed(m), NEW k \in MapKey
      PROVE  k \in KeysOf(m) <=> MapContains(m, k)
  <2>1. Off(m, k) \in DOMAIN m.items
    BY <1>1, OffTypes
  <2>2. MapContains(m, k) => k \in KeysOf(m)
    BY <2>1 DEF MapContains, KeysOf
  <2>3. k \in KeysOf(m) => MapContains(m, k)
    BY <1>3 DEF MapContains, KeysOf, Placed
  <2> QED  BY <2>2, <2>3
<1> QED  BY <1>2, <1>3

-----------------------------------------------------------------------------
(* grow moves the keys to their new buckets, and changes nothing else.     *)
LEMMA GrownHoldsTheSame ==
  ASSUME NEW m, MapOK(m)
  PROVE  MapOK(Grown(m)) /\ SameContents(m, Grown(m))
<1> DEFINE cap == 2 * m.capacity
           Home(k) == CHOOSE b \in DOMAIN m.items : k \in DOMAIN m.items[b]
           In(b) == {x \in KeysOf(m) : Hash[x] % cap = b}
           items == [b \in 0 .. cap - 1 |-> [k \in In(b) |-> m.items[Home(k)][k]]]
           g == Grown(m)
<1>1. IsMap(m) /\ Placed(m) /\ Counted(m)
  BY DEF MapOK
<1>2. /\ m = [capacity |-> m.capacity, size |-> m.size, items |-> m.items]
      /\ m.capacity \in Nat \ {0} /\ m.size \in Nat
      /\ DOMAIN m.items = 0 .. m.capacity - 1
  BY <1>1 DEF IsMap
<1>3. cap \in Nat \ {0}
  BY <1>2
<1>4. g = [capacity |-> cap, size |-> m.size, items |-> items]
  BY DEF Grown
<1>5. g.capacity = cap /\ g.size = m.size /\ g.items = items
  BY <1>4
<1>6. KeysOf(m) \subseteq MapKey
  BY <1>1, KeysInMap
<1>7. ASSUME NEW k \in KeysOf(m)
      PROVE  Home(k) = Off(m, k) /\ k \in DOMAIN m.items[Off(m, k)] /\ Off(m, k) \in DOMAIN m.items
  <2>1. PICK b \in DOMAIN m.items : k \in DOMAIN m.items[b]
    BY <1>7 DEF KeysOf
  <2>2. Home(k) \in DOMAIN m.items /\ k \in DOMAIN m.items[Home(k)]
    BY <2>1
  <2> QED  BY <1>1, <2>2 DEF Placed
<1>8. ASSUME NEW b \in 0 .. cap - 1
      PROVE  items[b] \in Bucket /\ DOMAIN items[b] = In(b)
  <2>1. items[b] = [k \in In(b) |-> m.items[Home(k)][k]]
    OBVIOUS
  <2>2. \A k \in In(b) : m.items[Home(k)][k] \in MapValue
    BY <1>1, <1>2, <1>7, BucketTypes
  <2>3. In(b) \in SUBSET MapKey
    BY <1>6
  <2> HIDE DEF items, Home, In
  <2>4. items[b] \in [In(b) -> MapValue]
    BY <2>1, <2>2
  <2> QED  BY <2>1, <2>3, <2>4, BucketFromKeys
<1>9. IsMap(g)
  <2>1. items \in [0 .. cap - 1 -> Bucket]
    BY <1>8
  <2> HIDE DEF items, cap, g
  <2> QED  BY <1>2, <1>3, <1>4, <1>5, <2>1 DEF IsMap
<1>10. ASSUME NEW k \in KeysOf(m)
       PROVE  Off(g, k) \in 0 .. cap - 1 /\ k \in In(Off(g, k)) /\ Off(g, k) = Hash[k] % cap
  <2>1. Off(g, k) = Hash[k] % cap
    BY <1>5 DEF Off
  <2>2. k \in MapKey
    BY <1>6
  <2> HIDE DEF g, cap
  <2>3. Off(g, k) \in 0 .. g.capacity - 1
    BY <1>3, <1>5, <2>2, OffTypes
  <2> QED  BY <1>5, <2>1, <2>3
<1>11. Placed(g)
  <2>1. ASSUME NEW b \in DOMAIN g.items, NEW k \in DOMAIN g.items[b]
        PROVE  Off(g, k) = b
    <3>1. b \in 0 .. cap - 1
      BY <1>5
    <3>2. k \in In(b)
      BY <1>5, <1>8, <3>1
    <3> QED  BY <1>10, <3>2
  <2> QED  BY <2>1 DEF Placed
<1>12. KeysOf(g) = KeysOf(m)
  <2>1. ASSUME NEW k \in KeysOf(g) PROVE k \in KeysOf(m)
    <3>1. PICK b \in DOMAIN g.items : k \in DOMAIN g.items[b]
      BY <2>1 DEF KeysOf
    <3> QED  BY <1>5, <1>8, <3>1
  <2>2. ASSUME NEW k \in KeysOf(m) PROVE k \in KeysOf(g)
    <3>1. Off(g, k) \in DOMAIN g.items /\ k \in DOMAIN g.items[Off(g, k)]
      BY <1>5, <1>8, <1>10
    <3> QED  BY <3>1 DEF KeysOf
  <2> QED  BY <2>1, <2>2
<1>13. ASSUME NEW k \in MapKey PROVE MapGet(g, k) = MapGet(m, k)
  <2>1. k \in KeysOf(m) <=> MapContains(m, k)
    BY <1>1, KeysInMap
  <2>2. k \in KeysOf(m) <=> MapContains(g, k)
    BY <1>9, <1>11, <1>12, KeysInMap
  <2>3. CASE k \in KeysOf(m)
    <3>1. items[Off(g, k)] = [x \in In(Off(g, k)) |-> m.items[Home(x)][x]]
      BY <1>10, <2>3
    <3>2. items[Off(g, k)][k] = m.items[Home(k)][k]
      BY <1>10, <2>3, <3>1
    <3>3. g.items[Off(g, k)][k] = m.items[Off(m, k)][k]
      BY <1>5, <1>7, <2>3, <3>2
    <3> QED  BY <2>1, <2>2, <2>3, <3>3 DEF MapGet
  <2>4. CASE k \notin KeysOf(m)
    BY <2>1, <2>2, <2>4 DEF MapGet
  <2> QED  BY <2>3, <2>4
<1>14. Counted(g)
  BY <1>1, <1>5, <1>12 DEF Counted
<1> QED  BY <1>5, <1>9, <1>11, <1>12, <1>13, <1>14 DEF MapOK, SameContents

-----------------------------------------------------------------------------
(* put in a map that need not grow.                                        *)
SetKey(g, k, v) ==
  [capacity |-> g.capacity,
   size |-> IF MapContains(g, k) THEN g.size ELSE g.size + 1,
   items |-> [g.items EXCEPT ![Off(g, k)] = ItemsPut(@, k, v)]]

LEMMA SetKeyHolds ==
  ASSUME NEW g, MapOK(g), NEW k \in MapKey, NEW v \in MapValue
  PROVE  /\ MapOK(SetKey(g, k, v))
         /\ MapGet(SetKey(g, k, v), k) = v
         /\ \A x \in MapKey \ {k} : MapGet(SetKey(g, k, v), x) = MapGet(g, x)
<1> DEFINE o == Off(g, k)
           bucket == ItemsPut(g.items[o], k, v)
           items == [g.items EXCEPT ![o] = bucket]
           size == IF MapContains(g, k) THEN g.size ELSE g.size + 1
           h == SetKey(g, k, v)
<1>1. IsMap(g) /\ Placed(g) /\ Counted(g)
  BY DEF MapOK
<1>2. /\ g.capacity \in Nat \ {0} /\ g.size \in Nat
      /\ g.items \in [0 .. g.capacity - 1 -> Bucket]
      /\ DOMAIN g.items = 0 .. g.capacity - 1
  BY <1>1 DEF IsMap
<1>3. h.capacity = g.capacity /\ h.size = size /\ h.items = items
      /\ h = [capacity |-> h.capacity, size |-> h.size, items |-> h.items]
  BY DEF SetKey
<1>4. o \in 0 .. g.capacity - 1
  BY <1>2, OffTypes
<1>5. DOMAIN bucket = DOMAIN g.items[o] \cup {k} /\ bucket \in Bucket
      /\ \A x \in DOMAIN bucket : bucket[x] = IF x = k THEN v ELSE g.items[o][x]
  <2>1. /\ bucket = [x \in DOMAIN g.items[o] \cup {k} |-> IF x = k THEN v ELSE g.items[o][x]]
    BY DEF ItemsPut
  <2>2. DOMAIN g.items[o] \subseteq MapKey /\ \A x \in DOMAIN g.items[o] : g.items[o][x] \in MapValue
    BY <1>1, <1>4, BucketTypes
  <2> HIDE DEF bucket, o
  <2>3. bucket \in [DOMAIN g.items[o] \cup {k} -> MapValue]
    BY <2>1, <2>2
  <2>4. bucket \in Bucket
    BY <2>2, <2>3, BucketFromKeys
  <2> QED  BY <2>1, <2>4
<1>6. /\ items \in [0 .. g.capacity - 1 -> Bucket] /\ DOMAIN items = DOMAIN g.items
      /\ items[o] = bucket /\ \A b \in DOMAIN g.items : b # o => items[b] = g.items[b]
  <2> HIDE DEF bucket, o
  <2> QED  BY <1>2, <1>4, <1>5
<1>7. size \in Nat
  BY <1>2
<1>8. IsMap(h)
  <2> HIDE DEF items, size, h
  <2> QED  BY <1>2, <1>3, <1>6, <1>7 DEF IsMap
<1>9. \A x : Off(h, x) = Off(g, x)
  BY <1>3 DEF Off
<1>10. Placed(h)
  <2>1. ASSUME NEW b \in DOMAIN items, NEW x \in DOMAIN items[b]
        PROVE  Off(g, x) = b
    <3>1. CASE b = o
      <4>1. x \in DOMAIN g.items[o] \/ x = k
        BY <1>5, <1>6, <2>1, <3>1
      <4> QED  BY <1>1, <1>4, <1>2, <3>1, <4>1 DEF Placed
    <3>2. CASE b # o
      BY <1>1, <1>6, <2>1, <3>2 DEF Placed
    <3> QED  BY <3>1, <3>2
  <2> QED  BY <1>3, <1>9, <2>1 DEF Placed
<1>11. KeysOf(h) = KeysOf(g) \cup {k}
  <2>1. ASSUME NEW x PROVE x \in KeysOf(h) <=> x \in KeysOf(g) \cup {k}
    <3>1. x \in KeysOf(h) <=> \E b \in DOMAIN items : x \in DOMAIN items[b]
      BY <1>3 DEF KeysOf
    <3>2. x \in KeysOf(g) <=> \E b \in DOMAIN g.items : x \in DOMAIN g.items[b]
      BY DEF KeysOf
    <3>3. \A b \in DOMAIN g.items : x \in DOMAIN items[b]
            <=> x \in DOMAIN g.items[b] \/ (b = o /\ x = k)
      BY <1>5, <1>6
    <3>4. o \in DOMAIN g.items
      BY <1>2, <1>4
    <3> HIDE DEF o, items, h
    <3> QED  BY <1>6, <3>1, <3>2, <3>3, <3>4
  <2> QED  BY <2>1
<1>12. Counted(h)
  <2>1. k \in KeysOf(g) <=> MapContains(g, k)
    BY <1>1, KeysInMap
  <2>2. IsFiniteSet(KeysOf(g)) /\ g.size = Cardinality(KeysOf(g))
    BY <1>1 DEF Counted
  <2>3. /\ IsFiniteSet(KeysOf(g) \cup {k})
        /\ Cardinality(KeysOf(g) \cup {k})
             = IF k \in KeysOf(g) THEN Cardinality(KeysOf(g)) ELSE Cardinality(KeysOf(g)) + 1
    BY <2>2, FS_AddElement
  <2> QED  BY <1>3, <1>11, <2>1, <2>2, <2>3 DEF Counted
<1>13. MapGet(h, k) = v
  <2>1. Off(h, k) = o /\ h.items[Off(h, k)] = bucket
    BY <1>3, <1>6, <1>9
  <2>2. k \in DOMAIN bucket /\ bucket[k] = v
    BY <1>5
  <2> QED  BY <2>1, <2>2 DEF MapGet, MapContains
<1>14. ASSUME NEW x \in MapKey \ {k} PROVE MapGet(h, x) = MapGet(g, x)
  <2>1. Off(h, x) = Off(g, x) /\ Off(g, x) \in DOMAIN g.items
    BY <1>2, <1>9, OffTypes
  <2>2. CASE Off(g, x) = o
    <3>1. h.items[Off(h, x)] = bucket /\ g.items[Off(g, x)] = g.items[o]
      BY <1>3, <1>6, <2>1, <2>2
    <3>2. x \in DOMAIN bucket <=> x \in DOMAIN g.items[o]
      BY <1>5, <1>14
    <3>3. x \in DOMAIN bucket => bucket[x] = g.items[o][x]
      BY <1>5, <1>14
    <3> QED  BY <3>1, <3>2, <3>3 DEF MapGet, MapContains
  <2>3. CASE Off(g, x) # o
    <3>1. h.items[Off(h, x)] = g.items[Off(g, x)]
      BY <1>3, <1>6, <2>1, <2>3
    <3> QED  BY <3>1 DEF MapGet, MapContains
  <2> QED  BY <2>2, <2>3
<1> QED  BY <1>8, <1>10, <1>12, <1>13, <1>14 DEF MapOK

(* put, also in a map that has to grow.                                    *)
LEMMA MapPutHolds ==
  ASSUME NEW m, MapOK(m), NEW k \in MapKey, NEW v \in MapValue
  PROVE  /\ MapOK(MapPut(m, k, v))
         /\ MapGet(MapPut(m, k, v), k) = v
         /\ \A x \in MapKey \ {k} : MapGet(MapPut(m, k, v), x) = MapGet(m, x)
<1>1. CASE m.size >= m.capacity
  <2>1. MapPut(m, k, v) = SetKey(Grown(m), k, v)
    BY <1>1 DEF MapPut, SetKey
  <2>2. MapOK(Grown(m)) /\ \A x \in MapKey : MapGet(Grown(m), x) = MapGet(m, x)
    BY GrownHoldsTheSame DEF SameContents
  <2> QED  BY <2>1, <2>2, SetKeyHolds
<1>2. CASE ~(m.size >= m.capacity)
  <2>1. MapPut(m, k, v) = SetKey(m, k, v)
    BY <1>2 DEF MapPut, SetKey
  <2> QED  BY <2>1, SetKeyHolds
<1> QED  BY <1>1, <1>2

-----------------------------------------------------------------------------
MapInv == MapOK(map) /\ agrees = TRUE

(* A new map has no keys.                                                  *)
LEMMA MapInitInv ==
  ASSUME MapInit
  PROVE  MapInv
<1> DEFINE none == [b \in 0 .. Capacity - 1 |-> <<>>]
<1>1. map = [capacity |-> Capacity, size |-> 0, items |-> none]
  BY DEF MapInit, EmptyMap
<1>2. map.capacity = Capacity /\ map.size = 0 /\ map.items = none
  BY <1>1
<1>3. \A b \in 0 .. Capacity - 1 : none[b] = <<>>
  OBVIOUS
<1>4. DOMAIN <<>> = {} /\ <<>> \in [{} -> MapValue]
  OBVIOUS
<1>5. <<>> \in Bucket
  BY <1>4 DEF Bucket
<1>6. IsMap(map)
  <2>1. none \in [0 .. Capacity - 1 -> Bucket]
    BY <1>5
  <2> HIDE DEF none
  <2> QED  BY <1>1, <1>2, <2>1, CapacityAssumption DEF IsMap
<1>7. KeysOf(map) = {}
  BY <1>2, <1>3, <1>4 DEF KeysOf
<1>8. Placed(map)
  BY <1>2, <1>3, <1>4 DEF Placed
<1>9. Counted(map)
  BY <1>2, <1>7, FS_EmptySet DEF Counted
<1> QED  BY <1>6, <1>8, <1>9 DEF MapInv, MapOK, MapInit

LEMMA MapStepInv ==
  ASSUME MapInv, [MapNext]_mapVars
  PROVE  MapInv'
<1>1. ASSUME NEW k \in MapKey, NEW v \in MapValue, PutKey(k, v)
      PROVE  MapInv'
  <2>1. MapOK(map) /\ map' = MapPut(map, k, v) /\ agrees' = GrowAgrees(map)
    BY <1>1 DEF MapInv, PutKey
  <2>2. MapOK(MapPut(map, k, v))
    BY <2>1, MapPutHolds
  <2>3. GrowAgrees(map) = TRUE
    BY <2>1 DEF MapOK, Counted, GrowAgrees
  <2>4. MapOK(map')
    BY <2>1, <2>2
  <2> QED  BY <2>1, <2>3, <2>4 DEF MapInv
<1>2. CASE UNCHANGED mapVars
  BY <1>2 DEF mapVars, MapInv
<1> QED  BY <1>1, <1>2 DEF MapNext

(* The map is well-formed whatever is put into it.                         *)
THEOREM MapCorrect == MapSpec => []MapInv
<1>1. MapInit => MapInv
  BY MapInitInv
<1>2. MapInv /\ [MapNext]_mapVars => MapInv'
  BY MapStepInv
<1> QED  BY <1>1, <1>2, PTL DEF MapSpec

(* It has the type of a map (map.h:54-72).                                 *)
THEOREM MapTypeCorrect == MapSpec => []MapTypeOK
<1>1. MapInv => MapTypeOK
  BY DEF MapInv, MapOK, MapTypeOK
<1> QED  BY <1>1, MapCorrect, PTL

(* Every key is where it is looked for, and counted once; grow agrees      *)
(* (map.h:77-117).                                                         *)
THEOREM KeysArePlaced == MapSpec => []KeysInPlace
<1>1. MapInv => KeysInPlace
  BY DEF MapInv, MapOK, Placed, Counted, KeysInPlace
<1> QED  BY <1>1, MapCorrect, PTL

(* A put changes what is found at its key, and nothing else, also when the *)
(* map grows (map.h:87-117).                                               *)
THEOREM MapRemembers == MapSpec => MapIsFunction
<1> DEFINE Step == \E k \in MapKey, v \in MapValue :
                     /\ MapGet(map, k)' = v
                     /\ \A x \in MapKey \ {k} : MapGet(map, x)' = MapGet(map, x)
<1>1. MapInv /\ [MapNext]_mapVars => [Step]_mapVars
  <2> SUFFICES ASSUME MapInv, MapNext PROVE Step
    OBVIOUS
  <2>1. PICK k \in MapKey, v \in MapValue : PutKey(k, v)
    BY DEF MapNext
  <2>2. MapOK(map) /\ map' = MapPut(map, k, v)
    BY <2>1 DEF MapInv, PutKey
  <2>3. /\ MapGet(MapPut(map, k, v), k) = v
        /\ \A x \in MapKey \ {k} : MapGet(MapPut(map, k, v), x) = MapGet(map, x)
    BY <2>2, MapPutHolds
  <2>4. \A x : MapGet(map, x)' = MapGet(map', x)
    BY DEF MapGet, MapContains, Off
  <2> QED  BY <2>2, <2>3, <2>4
<1>2. MapSpec => [][Step]_mapVars
  BY <1>1, MapCorrect, PTL DEF MapSpec
<1> QED  BY <1>2 DEF MapIsFunction

-----------------------------------------------------------------------------
(***************************************************************************)
(* LineReader.  What it returns, for every file, range and size of the     *)
(* buffer.  Between two calls it has a pending text: what is in            *)
(* _current_line and what follows it from _pos on.  The invariant is about *)
(* where that text begins (Pending): after the line that was returned      *)
(* last, or where a line of the file begins.                               *)
(***************************************************************************)

(* The offset at which the text begins that has not been returned.         *)
Pending == IF cur = NoLine THEN at ELSE cur[1]

(* The last line of the file has been returned, and it had no newline.     *)
LastReturned ==
  /\ cur = NoLine /\ at = upto /\ Exhausted
  /\ upto = file.size
  /\ lines # <<>> /\ NextStart = upto + 1

CurrentLine ==
  cur # NoLine => cur = <<cur[1], at>> /\ cur[1] <= at /\ NoNewlineIn(cur[1], at)

(* Until the first line has been skipped, nothing is returned.             *)
Skipping ==
  skip => /\ file.start # 0
          /\ ~over => LastReturned \/ (lines = <<>> /\ NoNewlineIn(file.start, at))

Resuming ==
  ~skip /\ ~over => \/ LastReturned
                    \/ /\ BeginsLine(Pending)
                       /\ lines # <<>> => Pending = NextStart
                       /\ lines = <<>> => \A p \in file.newlines :
                            file.start <= p /\ p < Pending => p = Pending - 1 /\ file.start # 0

(* Where the reader is in the range.                                       *)
Reach ==
  /\ file.start <= at
  /\ eof => upto = file.size

ReaderInv ==
  /\ ReaderTypeOK
  /\ CurrentLine
  /\ Skipping
  /\ Resuming
  /\ Reach
  /\ WholeLines
  /\ NoLineLeftOut

-----------------------------------------------------------------------------
(* The file, with what is assumed of it.                                   *)
LEMMA FileTypes ==
  ASSUME ReaderTypeOK
  PROVE  /\ file.size \in Nat /\ file.start \in Nat /\ file.end \in Nat
         /\ file.start <= file.size /\ file.start <= file.end
         /\ \A p \in file.newlines : p \in Nat /\ p < file.size
         /\ ReadSize \in Nat /\ ReadSize > 0
<1>1. file \in File
  BY DEF ReaderTypeOK
<1>2. /\ file.size \in Nat /\ file.start \in 0 .. file.size
      /\ file.end \in Nat /\ file.start <= file.end
      /\ file.newlines \subseteq 0 .. file.size - 1
  BY <1>1, FileAssumption
<1> QED  BY <1>2, ReadSizeAssumption

(* The elements of a sequence of lines that has got one more.              *)
LEMMA OneMoreLine ==
  ASSUME NEW s \in Seq(Nat \X Nat), NEW l \in Nat \X Nat
  PROVE  /\ Append(s, l) \in Seq(Nat \X Nat)
         /\ Append(s, l) # <<>>
         /\ Len(Append(s, l)) = Len(s) + 1
         /\ Len(s) \in Nat
         /\ s # <<>> => Len(s) > 0
         /\ Append(s, l)[Len(s) + 1] = l
         /\ \A i \in 1 .. Len(s) : Append(s, l)[i] = s[i]
  OBVIOUS

(* A reader that starts, for the first time or after reset.                *)
Starting ==
  /\ at = file.start /\ upto = file.start
  /\ eof = FALSE /\ cur = NoLine
  /\ skip = (file.start # 0)
  /\ lines = <<>> /\ over = FALSE

LEMMA StartingInv ==
  ASSUME file \in File, Starting
  PROVE  ReaderInv
<1>1. ReaderTypeOK
  <2>1. file.start \in Nat /\ file.start <= file.size
    BY FileAssumption
  <2>2. (file.start # 0) \in BOOLEAN
    OBVIOUS
  <2>3. skip \in BOOLEAN /\ eof \in BOOLEAN /\ over \in BOOLEAN
    BY <2>2, Zenon DEF Starting
  <2>4. lines \in Seq(Nat \X Nat)
    BY DEF Starting
  <2> QED  BY <2>1, <2>3, <2>4 DEF ReaderTypeOK, Starting
<1>2. CurrentLine /\ WholeLines /\ NoLineLeftOut
  BY DEF CurrentLine, WholeLines, NoLineLeftOut, Starting
<1>t. file.start \in Nat /\ \A p \in file.newlines : p \in Nat
  BY <1>1, FileTypes
<1>3. Skipping /\ Resuming
  <2>1. skip <=> file.start # 0
    BY Zenon DEF Starting
  <2>2. lines = <<>> /\ Pending = file.start /\ at = file.start
    BY DEF Starting, Pending
  <2>3. NoNewlineIn(file.start, file.start)
    BY <1>t DEF NoNewlineIn
  <2>4. Skipping
    BY <2>1, <2>2, <2>3 DEF Skipping
  <2>5. Resuming
    BY <1>t, <2>1, <2>2 DEF Resuming, BeginsLine
  <2> QED  BY <2>4, <2>5
<1>4. Reach
  BY <1>1, FileTypes DEF Reach, Starting
<1> QED  BY <1>1, <1>2, <1>3, <1>4 DEF ReaderInv

(* The same of the state after a step.                                     *)
LEMMA StartingAgain == (file \in File /\ Starting => ReaderInv)'
<1>1. file \in File /\ Starting => ReaderInv
  BY StartingInv
<1> QED  BY <1>1, PTL

LEMMA FillInv ==
  ASSUME ReaderInv, Fill
  PROVE  ReaderInv'
<1> USE DEF Fill
<1>1. ReaderTypeOK
  BY DEF ReaderInv
<1>2. /\ BytesRead \in Nat /\ ToRead \in Nat
      /\ BytesRead <= ToRead /\ BytesRead <= file.size - upto
      /\ BytesRead < ToRead => BytesRead = file.size - upto
      /\ ToRead <= ReadSize
      /\ file.end - file.start < ReadSize => ToRead = file.end - file.start
      /\ file.end - file.start >= ReadSize => ToRead = ReadSize
  BY <1>1, FileTypes DEF BytesRead, ToRead, ReaderTypeOK
<1>3. ReaderTypeOK'
  <2>1. upto' \in Nat /\ at' <= upto' /\ upto' <= file.size
    BY <1>1, <1>2, FileTypes DEF ReaderTypeOK
  <2>2. (BytesRead < ToRead) \in BOOLEAN
    OBVIOUS
  <2>3. eof' \in BOOLEAN
    BY <2>2, Zenon
  <2> QED  BY <1>1, <2>1, <2>3 DEF ReaderTypeOK
<1>4. upto < file.end /\ ~eof
  BY <1>1, FileTypes DEF Exhausted, RangeExhausted, ReaderTypeOK
<1>f. /\ file.size \in Nat /\ file.start \in Nat /\ file.end \in Nat
      /\ ReadSize \in Nat /\ upto \in Nat /\ at \in Nat
      /\ upto' = upto + BytesRead /\ (eof' <=> BytesRead < ToRead)
  BY <1>1, FileTypes, Zenon DEF ReaderTypeOK
<1>5. Reach'
  <2>1. Reach
    BY DEF ReaderInv
  <2> QED  BY <1>2, <1>f, <2>1 DEF Reach
<1>6. CurrentLine' /\ WholeLines' /\ NoLineLeftOut'
  BY DEF ReaderInv, CurrentLine, WholeLines, NoLineLeftOut, NoNewlineIn, BeginsLine
<1>7. Skipping' /\ Resuming'
  BY DEF ReaderInv, Skipping, Resuming, LastReturned, Pending, NextStart, NoNewlineIn, BeginsLine
<1> QED  BY <1>3, <1>5, <1>6, <1>7 DEF ReaderInv

(* The text after the first newline begins a line.                         *)
LEMMA SkipLineInv ==
  ASSUME ReaderInv, SkipLine
  PROVE  ReaderInv'
<1> USE DEF SkipLine
<1>1. ReaderTypeOK
  BY DEF ReaderInv
<1>2. PICK p \in file.newlines :
        /\ NextNewline(p)
        /\ at' = p + 1
        /\ cur' = IF p + 1 = upto THEN <<upto, upto>> ELSE NoLine
  OBVIOUS
<1>3. at <= p /\ p < upto /\ \A q \in file.newlines : at <= q => p <= q
  BY <1>2 DEF NextNewline
<1>f. /\ p \in Nat /\ upto \in Nat /\ at \in Nat /\ file.size \in Nat /\ file.start \in Nat
      /\ \A q \in file.newlines : q \in Nat
  BY <1>1, FileTypes DEF ReaderTypeOK
<1>4. ReaderTypeOK'
  <2>1. cur' \in (Nat \X Nat) \cup {NoLine}
    BY <1>2, <1>f
  <2>2. at' \in Nat /\ at' <= upto'
    BY <1>2, <1>3, <1>f
  <2> QED  BY <1>1, <2>1, <2>2 DEF ReaderTypeOK
<1>5. lines = <<>> /\ NoNewlineIn(file.start, at)
  BY <1>1, <1>3, FileTypes DEF ReaderInv, Skipping, LastReturned, ReaderTypeOK
<1>6. CurrentLine'
  BY <1>1, <1>2, <1>3, FileTypes, NoLineAssumption DEF CurrentLine, NoNewlineIn, ReaderTypeOK
<1>7. WholeLines' /\ NoLineLeftOut' /\ Skipping'
  BY <1>5 DEF WholeLines, NoLineLeftOut, Skipping
<1>8. Resuming'
  <2>1. Pending' = p + 1
    BY <1>1, <1>2, <1>3, FileTypes, NoLineAssumption DEF Pending, ReaderTypeOK
  <2>2. BeginsLine(p + 1)'
    BY <1>1, <1>2, FileTypes DEF BeginsLine
  <2>3. file.start # 0
    BY DEF ReaderInv, Skipping
  <2>4. \A q \in file.newlines : file.start <= q /\ q < p + 1 => q = p
    BY <1>3, <1>5, <1>f DEF NoNewlineIn
  <2> QED  BY <1>5, <1>f, <2>1, <2>2, <2>3, <2>4 DEF Resuming, BeginsLine
<1>9. Reach'
  BY <1>1, <1>2, <1>3, FileTypes DEF ReaderInv, Reach, ReaderTypeOK
<1> QED  BY <1>4, <1>6, <1>7, <1>8, <1>9 DEF ReaderInv

(* The text that is kept has no newline.                                   *)
LEMMA KeepInv ==
  ASSUME ReaderInv, Keep
  PROVE  ReaderInv'
<1> USE DEF Keep
<1>1. ReaderTypeOK
  BY DEF ReaderInv
<1>f. /\ upto \in Nat /\ at \in Nat /\ file.size \in Nat /\ file.start \in Nat
      /\ \A q \in file.newlines : q \in Nat
      /\ cur # NoLine => cur[1] \in Nat
  BY <1>1, FileTypes DEF ReaderTypeOK
<1>2. /\ cur' = <<Pending, upto>> /\ Pending \in Nat /\ Pending <= at
      /\ Pending <= upto /\ NoNewlineIn(Pending, upto)
  <2>1. cur # NoLine => cur[1] <= at /\ NoNewlineIn(cur[1], at)
    BY DEF ReaderInv, CurrentLine
  <2>2. NoNewlineIn(at, upto)
    BY DEF NoNewlineIn
  <2>3. Pending \in Nat /\ Pending <= at /\ NoNewlineIn(Pending, at)
    BY <1>f, <2>1 DEF Pending, NoNewlineIn
  <2>4. NoNewlineIn(Pending, upto)
    BY <1>f, <2>2, <2>3 DEF NoNewlineIn
  <2>5. cur' = <<Pending, upto>>
    BY DEF Extended, Pending
  <2> QED  BY <1>f, <2>3, <2>4, <2>5
<1>3. cur' # NoLine /\ cur' \in Nat \X Nat
  BY <1>2, <1>f, NoLineAssumption
<1>4. ReaderTypeOK'
  BY <1>1, <1>3, <1>f DEF ReaderTypeOK
<1>5. Pending' = Pending
  BY <1>2, <1>3 DEF Pending
<1>6. ~LastReturned
  BY <1>f DEF LastReturned
<1>7. CurrentLine'
  <2>1. NoNewlineIn(Pending, upto)'
    BY <1>2, <1>5 DEF NoNewlineIn
  <2>2. cur'[1] = Pending
    BY <1>2
  <2> QED  BY <1>2, <1>f, <2>2 DEF CurrentLine, NoNewlineIn
<1>8. Skipping'
  BY <1>6, <1>f DEF ReaderInv, Skipping, NoNewlineIn
<1>9. Resuming'
  <2>1. NextStart' = NextStart
    BY DEF NextStart
  <2> QED  BY <1>5, <1>6, <2>1 DEF ReaderInv, Resuming, BeginsLine
<1>10. WholeLines' /\ NoLineLeftOut'
  BY DEF ReaderInv, WholeLines, NoLineLeftOut, BeginsLine, NoNewlineIn
<1>11. Reach'
  BY <1>1, <1>f DEF ReaderInv, Reach
<1> QED  BY <1>4, <1>7, <1>8, <1>9, <1>10, <1>11 DEF ReaderInv

(* What is checked of a line when it is returned.                          *)
GoodLine(l) ==
  /\ l \in Nat \X Nat
  /\ BeginsLine(l[1]) /\ l[1] <= l[2]
  /\ NoNewlineIn(l[1], l[2])
  /\ l[2] \in file.newlines \cup {file.size}
  /\ lines # <<>> => l[1] = NextStart

(* The lines stay whole when a good one is added.                          *)
LEMMA GoodLineKeepsWhole ==
  ASSUME ReaderTypeOK, WholeLines, ~skip, NEW l, GoodLine(l), lines' = Append(lines, l),
         file' = file
  PROVE  WholeLines' /\ lines' \in Seq(Nat \X Nat) /\ lines' # <<>> /\ NextStart' = l[2] + 1
<1>1. lines \in Seq(Nat \X Nat) /\ l \in Nat \X Nat
  BY DEF ReaderTypeOK, GoodLine
<1>2. /\ lines' \in Seq(Nat \X Nat) /\ lines' # <<>>
      /\ Len(lines') = Len(lines) + 1 /\ Len(lines) \in Nat
      /\ lines # <<>> => Len(lines) > 0
      /\ lines'[Len(lines) + 1] = l
      /\ \A x \in 1 .. Len(lines) : lines'[x] = lines[x]
  BY <1>1, OneMoreLine
<1>3. NextStart' = l[2] + 1
  BY <1>2 DEF NextStart
<1>4. ASSUME NEW x \in 1 .. Len(lines')
      PROVE  /\ BeginsLine(lines'[x][1]) /\ lines'[x][1] <= lines'[x][2]
             /\ NoNewlineIn(lines'[x][1], lines'[x][2])
             /\ lines'[x][2] \in file.newlines \cup {file.size}
             /\ x > 1 => lines'[x][1] = lines'[x - 1][2] + 1
  <2>0. x \in 1 .. Len(lines) \/ x = Len(lines) + 1
    BY <1>2
  <2>1. CASE x \in 1 .. Len(lines)
    <3>1. lines'[x] = lines[x] /\ (x > 1 => lines'[x - 1] = lines[x - 1])
      BY <1>2, <2>1
    <3> QED  BY <2>1, <3>1 DEF WholeLines
  <2>2. CASE x = Len(lines) + 1
    <3>1. lines'[x] = l /\ (x > 1 => lines'[x - 1] = lines[Len(lines)] /\ lines # <<>>)
      BY <1>1, <1>2, <2>2
    <3>2. x > 1 => l[1] = lines[Len(lines)][2] + 1
      BY <3>1 DEF GoodLine, NextStart
    <3> QED  BY <3>1, <3>2 DEF GoodLine
  <2> QED  BY <2>0, <2>1, <2>2
<1>5. WholeLines'
  BY <1>4 DEF WholeLines, BeginsLine, NoNewlineIn
<1> QED  BY <1>2, <1>3, <1>5

(* A line that ends in the buffer.                                         *)
LEMMA ReturnLineInv ==
  ASSUME ReaderInv, ReturnLine
  PROVE  ReaderInv'
<1> USE DEF ReturnLine
<1>1. ReaderTypeOK /\ WholeLines
  BY DEF ReaderInv
<1>2. PICK p \in file.newlines : NextNewline(p) /\ at' = p + 1 /\ lines' = Append(lines, Extended(p))
  OBVIOUS
<1>f. /\ p \in Nat /\ upto \in Nat /\ at \in Nat /\ file.size \in Nat /\ file.start \in Nat
      /\ \A q \in file.newlines : q \in Nat
      /\ cur # NoLine => cur[1] \in Nat
  BY <1>1, FileTypes DEF ReaderTypeOK
<1>3. at <= p /\ p < upto /\ \A q \in file.newlines : at <= q => p <= q
  BY <1>2 DEF NextNewline
<1>4. Extended(p) = <<Pending, p>> /\ Pending \in Nat /\ Pending <= at
  BY <1>f DEF ReaderInv, CurrentLine, Extended, Pending
<1>5. NoNewlineIn(Pending, p)
  BY <1>f, <1>3 DEF ReaderInv, CurrentLine, Pending, NoNewlineIn
<1>6. BeginsLine(Pending) /\ (lines # <<>> => Pending = NextStart)
  <2>1. ~LastReturned
    BY <1>3, <1>f DEF LastReturned
  <2> QED  BY <2>1 DEF ReaderInv, Resuming
<1>7. GoodLine(<<Pending, p>>)
  BY <1>3, <1>4, <1>5, <1>6, <1>f DEF GoodLine
<1>8. WholeLines' /\ lines' \in Seq(Nat \X Nat) /\ lines' # <<>> /\ NextStart' = p + 1
  <2>1. PICK l : l = <<Pending, p>>
    OBVIOUS
  <2>2. GoodLine(l) /\ lines' = Append(lines, l) /\ l[2] = p
    BY <1>2, <1>4, <1>7, <2>1
  <2>3. ~skip /\ file' = file
    OBVIOUS
  <2>4. WholeLines' /\ lines' \in Seq(Nat \X Nat) /\ lines' # <<>> /\ NextStart' = l[2] + 1
    BY ONLY <1>1, <2>2, <2>3, GoodLineKeepsWhole
  <2> QED  BY <2>2, <2>4
<1>9. ReaderTypeOK'
  <2>1. at' \in Nat /\ at' <= upto'
    BY <1>2, <1>3, <1>f
  <2> QED  BY <1>1, <1>8, <2>1 DEF ReaderTypeOK
<1>10. Pending' = p + 1 /\ BeginsLine(p + 1)'
  BY <1>2, <1>f DEF Pending, BeginsLine
<1>11. Resuming' /\ Skipping' /\ CurrentLine' /\ NoLineLeftOut'
  BY <1>8, <1>10 DEF Resuming, Skipping, CurrentLine, NoLineLeftOut, BeginsLine
<1>12. Reach'
  BY <1>2, <1>3, <1>f DEF ReaderInv, Reach
<1> QED  BY <1>8, <1>9, <1>11, <1>12 DEF ReaderInv

(* The last line of the file, which has no newline.                        *)
LEMMA ReturnLastInv ==
  ASSUME ReaderInv, ReturnLast
  PROVE  ReaderInv'
<1> USE DEF ReturnLast
<1>1. ReaderTypeOK /\ WholeLines
  BY DEF ReaderInv
<1>f. /\ upto \in Nat /\ at \in Nat /\ file.size \in Nat /\ file.start \in Nat /\ file.end \in Nat
      /\ upto <= file.size /\ cur[1] \in Nat /\ cur \in Nat \X Nat
  BY <1>1, FileTypes DEF ReaderTypeOK
<1>2. cur = <<cur[1], at>> /\ cur[1] <= at /\ NoNewlineIn(cur[1], at) /\ Pending = cur[1]
  BY DEF ReaderInv, CurrentLine, Pending
<1>3. at = file.size
  BY <1>f DEF ReaderInv, Reach, Exhausted, RangeExhausted
<1>4. Exhausted'
  BY DEF Exhausted, RangeExhausted
<1>5. lines' \in Seq(Nat \X Nat) /\ lines' # <<>> /\ NextStart' = at + 1
  <2>1. lines \in Seq(Nat \X Nat)
    BY <1>1 DEF ReaderTypeOK
  <2>2. /\ lines' \in Seq(Nat \X Nat) /\ lines' # <<>>
        /\ lines'[Len(lines')] = cur
    BY <2>1, <1>f, OneMoreLine
  <2>3. cur[2] = at
    BY <1>2
  <2> QED  BY <2>2, <2>3 DEF NextStart
<1>6. WholeLines'
  <2>1. CASE skip
    BY <2>1 DEF WholeLines
  <2>2. CASE ~skip
    <3>1. ~LastReturned
      BY DEF LastReturned
    <3>2. BeginsLine(cur[1]) /\ (lines # <<>> => cur[1] = NextStart)
      BY <1>2, <2>2, <3>1 DEF ReaderInv, Resuming
    <3>3. cur[2] = at
      BY <1>2
    <3>4. GoodLine(cur)
      BY <1>2, <1>3, <1>f, <3>2, <3>3 DEF GoodLine
    <3> QED  BY <1>1, <2>2, <3>4, GoodLineKeepsWhole
  <2> QED  BY <2>1, <2>2
<1>7. ReaderTypeOK'
  BY <1>1, <1>5 DEF ReaderTypeOK
<1>8. LastReturned'
  BY <1>3, <1>4, <1>5 DEF LastReturned
<1>9. skip => file.start # 0
  BY DEF ReaderInv, Skipping
<1>10. CurrentLine' /\ Skipping' /\ Resuming' /\ NoLineLeftOut'
  BY <1>8, <1>9 DEF CurrentLine, Skipping, Resuming, NoLineLeftOut
<1>11. Reach'
  BY DEF ReaderInv, Reach
<1> QED  BY <1>6, <1>7, <1>10, <1>11 DEF ReaderInv

(* No line is left; what is dropped has no newline.                        *)
LEMMA ReturnNothingInv ==
  ASSUME ReaderInv, ReturnNothing
  PROVE  ReaderInv'
<1> USE DEF ReturnNothing
<1>1. ReaderTypeOK
  BY DEF ReaderInv
<1>f. /\ upto \in Nat /\ at \in Nat /\ file.size \in Nat /\ file.start \in Nat /\ file.end \in Nat
      /\ upto <= file.size /\ file.start <= file.size
      /\ \A p \in file.newlines : p \in Nat /\ p < file.size
      /\ cur # NoLine => cur[1] \in Nat
  BY <1>1, FileTypes DEF ReaderTypeOK
<1>2. ReaderTypeOK'
  BY <1>1 DEF ReaderTypeOK
<1>3. RangeExhausted \/ upto = file.size
  BY DEF ReaderInv, Reach, Exhausted
<1>4. NextStart' = NextStart /\ (RangeExhausted' <=> RangeExhausted)
  BY DEF NextStart, RangeExhausted
<1>5. Pending \in Nat /\ Pending <= at /\ NoNewlineIn(Pending, upto)
  BY <1>f DEF ReaderInv, CurrentLine, Pending, NoNewlineIn
<1>6. lines # <<>> => NoNewlineIn(NextStart, upto)
  <2>1. CASE LastReturned
    BY <2>1, <1>f DEF LastReturned, NoNewlineIn
  <2>2. CASE skip /\ ~LastReturned
    BY <2>2 DEF ReaderInv, Skipping
  <2>3. CASE ~skip /\ ~LastReturned
    BY <2>3, <1>5 DEF ReaderInv, Resuming
  <2> QED  BY <2>1, <2>2, <2>3
<1>7. ASSUME lines = <<>>, NEW p \in file.newlines, NEW q \in file.newlines,
             p \in file.start .. upto - 1, q \in file.start .. upto - 1
      PROVE  p = q /\ file.start # 0
  <2>1. ~LastReturned
    BY <1>7 DEF LastReturned
  <2>2. CASE skip
    BY <1>7, <1>f, <2>1, <2>2 DEF ReaderInv, Skipping, NoNewlineIn
  <2>3. CASE ~skip
    <3>1. p < Pending /\ q < Pending
      BY <1>5, <1>7, <1>f DEF NoNewlineIn
    <3>2. \A x \in file.newlines :
            file.start <= x /\ x < Pending => x = Pending - 1 /\ file.start # 0
      BY <1>7, <2>1, <2>3 DEF ReaderInv, Resuming
    <3> QED  BY <1>7, <1>f, <3>1, <3>2
  <2> QED  BY <2>2, <2>3
<1>8. ASSUME lines # <<>>, file.end = file.size
      PROVE  NextStart >= file.size
  <2>1. cur = NoLine /\ Pending = at
    BY <1>8 DEF Pending
  <2>2. at = file.size
    BY <1>3, <1>8, <1>f DEF RangeExhausted
  <2>3. CASE LastReturned
    BY <2>2, <2>3, <1>f DEF LastReturned
  <2>4. CASE ~LastReturned
    BY <1>8, <1>f, <2>1, <2>2, <2>4 DEF ReaderInv, Skipping, Resuming
  <2> QED  BY <2>3, <2>4
<1>9. NoLineLeftOut'
  <2>1. NoNewlineIn(NextStart, upto)' <=> NoNewlineIn(NextStart, upto)
    BY <1>4 DEF NoNewlineIn
  <2>2. (NextStart >= file.size)' <=> NextStart >= file.size
    BY <1>4
  <2> QED  BY <1>3, <1>4, <1>6, <1>7, <1>8, <2>1, <2>2 DEF NoLineLeftOut
<1>10. skip => file.start # 0
  BY DEF ReaderInv, Skipping
<1>11. CurrentLine' /\ Skipping' /\ Resuming'
  BY <1>10 DEF CurrentLine, Skipping, Resuming
<1>12. Reach' /\ WholeLines'
  BY DEF ReaderInv, Reach, WholeLines, BeginsLine, NoNewlineIn
<1> QED  BY <1>2, <1>9, <1>11, <1>12 DEF ReaderInv

(* Between two steps, and after every step, the invariant holds.           *)
LEMMA ReaderStepInv ==
  ASSUME ReaderInv, [ReaderNext]_readerVars
  PROVE  ReaderInv'
<1>1. CASE Fill
  BY <1>1, FillInv
<1>2. CASE SkipLine
  BY <1>2, SkipLineInv
<1>3. CASE Keep
  BY <1>3, KeepInv
<1>4. CASE ReturnLine
  BY <1>4, ReturnLineInv
<1>5. CASE ReturnLast
  BY <1>5, ReturnLastInv
<1>6. CASE ReturnNothing
  BY <1>6, ReturnNothingInv
<1>7. CASE Reset
  <2>1. file' \in File /\ Starting'
    BY <1>7 DEF Reset, Starting, ReaderInv, ReaderTypeOK
  <2> QED  BY <2>1, StartingAgain
<1>8. CASE UNCHANGED readerVars
  BY <1>8 DEF readerVars, ReaderInv, ReaderTypeOK, CurrentLine, Skipping, Resuming, LastReturned,
              Pending, NextStart, Exhausted, RangeExhausted, BeginsLine, NoNewlineIn, Reach,
              WholeLines, NoLineLeftOut
<1> QED  BY <1>1, <1>2, <1>3, <1>4, <1>5, <1>6, <1>7, <1>8 DEF ReaderNext, ReadOn, Returns

(* The inductive invariant holds in every behaviour of the reader, for any *)
(* file, range and buffer (parser.h:207-377).                              *)
THEOREM ReaderCorrect == ReaderSpec => []ReaderInv
<1>1. ReaderInit => ReaderInv
  BY StartingInv DEF ReaderInit, Starting
<1>2. ReaderInv /\ [ReaderNext]_readerVars => ReaderInv'
  BY ReaderStepInv
<1> QED  BY <1>1, <1>2, PTL DEF ReaderSpec

(* The reader stays in the file and in its buffer (parser.h:322-336).      *)
THEOREM ReaderTypeCorrect == ReaderSpec => []ReaderTypeOK
<1>1. ReaderInv => ReaderTypeOK
  BY DEF ReaderInv
<1> QED  BY <1>1, ReaderCorrect, PTL

(* The lines it returns are lines of the file, one after the other         *)
(* (parser.h:298-358).                                                     *)
THEOREM LinesAreWhole == ReaderSpec => []WholeLines
<1>1. ReaderInv => WholeLines
  BY DEF ReaderInv
<1> QED  BY <1>1, ReaderCorrect, PTL

(* When it has no more lines, no line of its range is missing              *)
(* (parser.h:306-316).                                                     *)
THEOREM NoLineMissing == ReaderSpec => []NoLineLeftOut
<1>1. ReaderInv => NoLineLeftOut
  BY DEF ReaderInv
<1> QED  BY <1>1, ReaderCorrect, PTL

-----------------------------------------------------------------------------
(***************************************************************************)
(* SorParser.  It reads the file again for every pass, and relies on the   *)
(* reader to return the same lines.  The reader does one thing after the   *)
(* other, so that two runs over a file are the same as far as both go: the *)
(* lines that the types were guessed from are the first ones that are      *)
(* parsed.                                                                 *)
(***************************************************************************)

LineSet == Nat \X Nat

Bit(b) == IF b THEN 1 ELSE 0

(* A state of the reader.                                                  *)
Snap(a, u, e, c, k, ls, o) ==
  [at |-> a, upto |-> u, eof |-> e, cur |-> c, skip |-> k, lines |-> ls, over |-> o]

Snapshot == Snap(at, upto, Bit(eof), cur, Bit(skip), lines, Bit(over))

First(f) == Snap(f.start, f.start, 0, NoLine, Bit(f.start # 0), <<>>, 0)

NewlinesIn(f, s) == {p \in f.newlines : s.at <= p /\ p < s.upto}
Least(T) == CHOOSE p \in T : \A q \in T : p <= q
Asked(f) == IF f.start + ReadSize > f.end THEN f.end - f.start ELSE ReadSize
Got(f, s) == IF Asked(f) <= f.size - s.upto THEN Asked(f) ELSE f.size - s.upto
AllRead(f, s) == s.upto - f.start >= f.end - f.start \/ s.eof = 1
From(s) == IF s.cur = NoLine THEN s.at ELSE s.cur[1]

(* What comes after s, unless there are no more lines.                     *)
AtNewline(s, p) ==
  IF s.skip = 1
  THEN Snap(p + 1, s.upto, s.eof, IF p + 1 = s.upto THEN <<s.upto, s.upto>> ELSE NoLine, 0, s.lines, 0)
  ELSE Snap(p + 1, s.upto, s.eof, NoLine, 0, Append(s.lines, <<From(s), p>>), 0)

WithoutNewline(f, s) ==
  IF s.at < s.upto
  THEN Snap(s.upto, s.upto, s.eof, <<From(s), s.upto>>, s.skip, s.lines, 0)
  ELSE IF ~AllRead(f, s)
  THEN Snap(s.at, s.upto + Got(f, s), Bit(Got(f, s) < Asked(f)), s.cur, s.skip, s.lines, 0)
  ELSE IF f.end = f.size /\ s.cur # NoLine
  THEN Snap(s.at, s.upto, s.eof, NoLine, s.skip, Append(s.lines, s.cur), 0)
  ELSE Snap(s.at, s.upto, s.eof, NoLine, s.skip, s.lines, 1)

After(f, s) == IF NewlinesIn(f, s) # {} THEN AtNewline(s, Least(NewlinesIn(f, s)))
               ELSE WithoutNewline(f, s)

LEMMA SnapParts ==
  /\ Snapshot.at = at /\ Snapshot.upto = upto /\ Snapshot.cur = cur /\ Snapshot.lines = lines
  /\ Snapshot.eof = Bit(eof) /\ Snapshot.skip = Bit(skip) /\ Snapshot.over = Bit(over)
  BY DEF Snapshot, Snap

LEMMA StepIsNext ==
  ASSUME ReaderTypeOK, ReadOn \/ Returns \/ ReturnNothing
  PROVE  Snapshot' = After(file, Snapshot) /\ Snapshot.over = 0 /\ file' = file
<1>1. PICK s : s = Snapshot
  OBVIOUS
<1>2. /\ s.at = at /\ s.upto = upto /\ s.cur = cur /\ s.lines = lines
      /\ s.eof = Bit(eof) /\ s.skip = Bit(skip) /\ s.over = Bit(over)
  BY <1>1, SnapParts
<1>3. (s.eof = 1 <=> eof) /\ (s.skip = 1 <=> skip) /\ (s.skip = 0 <=> ~skip)
  BY <1>2 DEF Bit
<1>4. /\ at \in Nat /\ upto \in Nat /\ file.size \in Nat /\ file.start \in Nat /\ file.end \in Nat
      /\ ReadSize \in Nat /\ \A p \in file.newlines : p \in Nat
  BY FileTypes DEF ReaderTypeOK
<1>5. Snapshot.over = 0 /\ file' = file /\ ~over
  BY <1>1, <1>2 DEF Bit, ReadOn, Returns, ReturnNothing, Fill, SkipLine, Keep, ReturnLine, ReturnLast
<1>6. ASSUME NEW p \in file.newlines, NextNewline(p)
      PROVE  After(file, s) = AtNewline(s, p)
  <2>1. p \in NewlinesIn(file, s) /\ \A q \in NewlinesIn(file, s) : p <= q
    BY <1>2, <1>6 DEF NewlinesIn, NextNewline
  <2>2. \A q \in NewlinesIn(file, s) : q \in Nat
    BY <1>4 DEF NewlinesIn
  <2>3. \A q \in NewlinesIn(file, s) : (\A r \in NewlinesIn(file, s) : q <= r) => q = p
    BY <2>1, <2>2
  <2>4. Least(NewlinesIn(file, s)) = p
    BY <2>1, <2>3 DEF Least
  <2> QED  BY <2>1, <2>4 DEF After
<1>7. ASSUME \A p \in file.newlines : ~(at <= p /\ p < upto)
      PROVE  After(file, s) = WithoutNewline(file, s)
  <2>1. NewlinesIn(file, s) = {}
    BY <1>2, <1>7 DEF NewlinesIn
  <2> QED  BY <2>1 DEF After
<1>8. AllRead(file, s) <=> Exhausted
  BY <1>2, <1>3 DEF AllRead, Exhausted, RangeExhausted
<1>9. \A x : Extended(x) = <<From(s), x>>
  BY <1>2 DEF Extended, From
<1>10. CASE Fill
  <2>1. After(file, s) = WithoutNewline(file, s)
    BY <1>4, <1>7, <1>10 DEF Fill
  <2>2. Asked(file) = ToRead /\ Got(file, s) = BytesRead
    BY <1>2 DEF Asked, Got, ToRead, BytesRead
  <2>3. Snapshot' = Snap(at, upto + BytesRead, Bit(BytesRead < ToRead), cur, Bit(skip), lines, Bit(over))
    BY <1>10 DEF Fill, Snapshot
  <2>4. Bit(over) = 0
    BY <1>5 DEF Bit
  <2>5. WithoutNewline(file, s) =
          Snap(s.at, s.upto + Got(file, s), Bit(Got(file, s) < Asked(file)), s.cur, s.skip, s.lines, 0)
    BY <1>2, <1>4, <1>8, <1>10 DEF WithoutNewline, Fill
  <2> QED  BY <1>1, <1>2, <1>5, <2>1, <2>2, <2>3, <2>4, <2>5
<1>11. CASE SkipLine
  <2>1. PICK p \in file.newlines : /\ NextNewline(p) /\ at' = p + 1
                                   /\ cur' = IF p + 1 = upto THEN <<upto, upto>> ELSE NoLine
    BY <1>11 DEF SkipLine
  <2>2. /\ upto' = upto /\ eof' = eof /\ lines' = lines /\ skip' = FALSE /\ over' = over /\ skip
    BY <1>11 DEF SkipLine
  <2>3. Bit(eof)' = s.eof /\ Bit(skip)' = 0 /\ Bit(over)' = 0
    BY <1>2, <1>5, <2>2 DEF Bit
  <2>4. Snapshot' = Snap(p + 1, upto, s.eof, IF p + 1 = upto THEN <<upto, upto>> ELSE NoLine, 0, lines, 0)
    BY <2>1, <2>2, <2>3 DEF Snapshot
  <2>5. AtNewline(s, p) = Snapshot'
    BY <1>2, <1>3, <2>2, <2>4 DEF AtNewline
  <2> QED  BY <1>1, <1>5, <1>6, <2>1, <2>5
<1>12. CASE Keep
  <2>1. After(file, s) = WithoutNewline(file, s) /\ s.at < s.upto
    BY <1>2, <1>7, <1>12 DEF Keep
  <2>2. /\ upto' = upto /\ eof' = eof /\ lines' = lines /\ skip' = skip /\ over' = over
        /\ at' = upto /\ cur' = <<From(s), upto>>
    BY <1>9, <1>12 DEF Keep
  <2>3. Bit(eof)' = s.eof /\ Bit(skip)' = s.skip /\ Bit(over)' = 0
    BY <1>2, <1>5, <2>2 DEF Bit
  <2>4. Snapshot' = Snap(upto, upto, s.eof, <<From(s), upto>>, s.skip, lines, 0)
    BY <2>2, <2>3 DEF Snapshot
  <2> QED  BY <1>1, <1>2, <1>5, <2>1, <2>4 DEF WithoutNewline
<1>13. CASE ReturnLine
  <2>1. PICK p \in file.newlines : /\ NextNewline(p) /\ at' = p + 1
                                   /\ lines' = Append(lines, <<From(s), p>>)
    BY <1>9, <1>13 DEF ReturnLine
  <2>2. /\ upto' = upto /\ eof' = eof /\ cur' = NoLine /\ skip' = skip /\ over' = over /\ ~skip
    BY <1>13 DEF ReturnLine
  <2>3. Bit(eof)' = s.eof /\ Bit(skip)' = 0 /\ Bit(over)' = 0
    BY <1>2, <1>5, <2>2 DEF Bit
  <2>4. Snapshot' = Snap(p + 1, upto, s.eof, NoLine, 0, Append(lines, <<From(s), p>>), 0)
    BY <2>1, <2>2, <2>3 DEF Snapshot
  <2>5. AtNewline(s, p) = Snapshot'
    BY <1>2, <1>3, <2>2, <2>4 DEF AtNewline
  <2> QED  BY <1>1, <1>5, <1>6, <2>1, <2>5
<1>14. CASE ReturnLast
  <2>1. After(file, s) = WithoutNewline(file, s) /\ ~(s.at < s.upto) /\ AllRead(file, s)
    BY <1>2, <1>4, <1>7, <1>8, <1>14 DEF ReturnLast
  <2>2. /\ upto' = upto /\ eof' = eof /\ cur' = NoLine /\ skip' = skip /\ over' = over /\ at' = at
        /\ lines' = Append(lines, cur) /\ file.end = file.size /\ cur # NoLine
    BY <1>14 DEF ReturnLast
  <2>3. Bit(eof)' = s.eof /\ Bit(skip)' = s.skip /\ Bit(over)' = 0
    BY <1>2, <1>5, <2>2 DEF Bit
  <2>4. Snapshot' = Snap(at, upto, s.eof, NoLine, s.skip, Append(lines, cur), 0)
    BY <2>2, <2>3 DEF Snapshot
  <2> QED  BY <1>1, <1>2, <1>5, <2>1, <2>2, <2>4 DEF WithoutNewline
<1>15. CASE ReturnNothing
  <2>1. After(file, s) = WithoutNewline(file, s) /\ ~(s.at < s.upto) /\ AllRead(file, s)
    BY <1>2, <1>4, <1>7, <1>8, <1>15 DEF ReturnNothing
  <2>2. /\ upto' = upto /\ eof' = eof /\ cur' = NoLine /\ skip' = skip /\ over' = TRUE /\ at' = at
        /\ lines' = lines /\ ~(file.end = file.size /\ cur # NoLine)
    BY <1>15 DEF ReturnNothing
  <2>3. Bit(eof)' = s.eof /\ Bit(skip)' = s.skip /\ Bit(over)' = 1
    BY <1>2, <2>2 DEF Bit
  <2>4. Snapshot' = Snap(at, upto, s.eof, NoLine, s.skip, lines, 1)
    BY <2>2, <2>3 DEF Snapshot
  <2> QED  BY <1>1, <1>2, <1>5, <2>1, <2>2, <2>4 DEF WithoutNewline
<1> QED  BY <1>10, <1>11, <1>12, <1>13, <1>14, <1>15 DEF ReadOn, Returns

(***************************************************************************)
(* A run over f: the n steps of the reader from the start of its range.    *)
(***************************************************************************)
IsRun(f, p, n) ==
  /\ p[0] = First(f)
  /\ \A i \in 1 .. n : p[i - 1].over = 0 /\ p[i] = After(f, p[i - 1])
  /\ \A i \in 0 .. n : p[i].lines \in Seq(LineSet)

(* The lines ls are the first of the lines ms.                             *)
Begins(ls, ms) == Len(ls) <= Len(ms) /\ \A i \in 1 .. Len(ls) : ls[i] = ms[i]

FieldStep(l, row, f) == IF l[1] <= f.from /\ f.to < l[2] THEN Append(row, f.is) ELSE row

Fielding == INSTANCE FoldProofs WITH Op <- FieldStep

(* Two runs over f are the same as far as both go.                         *)
LEMMA RunsAgree ==
  ASSUME NEW f, NEW p, NEW q, NEW n \in Nat, NEW m \in Nat, IsRun(f, p, n), IsRun(f, q, m)
  PROVE  \A k \in Nat : k <= n /\ k <= m => p[k] = q[k]
<1> DEFINE S == {k \in Nat : k <= n /\ k <= m => p[k] = q[k]}
<1>1. 0 \in S
  BY DEF IsRun
<1>2. ASSUME NEW k \in Nat, k \in S PROVE k + 1 \in S
  <2> SUFFICES ASSUME k + 1 <= n, k + 1 <= m PROVE p[k + 1] = q[k + 1]
    OBVIOUS
  <2>1. p[k] = q[k]
    BY <1>2
  <2>2. k + 1 \in 1 .. n /\ k + 1 \in 1 .. m /\ (k + 1) - 1 = k
    OBVIOUS
  <2>3. p[k + 1] = After(f, p[k]) /\ q[k + 1] = After(f, q[k])
    BY <2>2 DEF IsRun
  <2> QED  BY <2>1, <2>3
<1>3. Nat \subseteq S
  <2> HIDE DEF S
  <2> QED  BY <1>1, <1>2, Fielding!Induction
<1> QED  BY <1>3

LEMMA AfterLines ==
  ASSUME NEW f, NEW s
  PROVE  After(f, s).lines = s.lines \/ \E x : After(f, s).lines = Append(s.lines, x)
<1>1. \A a, u, e, c, k, ls, o : Snap(a, u, e, c, k, ls, o).lines = ls
  BY DEF Snap
<1>2. ASSUME NEW y
      PROVE  AtNewline(s, y).lines = s.lines \/ \E x : AtNewline(s, y).lines = Append(s.lines, x)
  <2>1. PICK c : c = IF y + 1 = s.upto THEN <<s.upto, s.upto>> ELSE NoLine
    OBVIOUS
  <2>2. \/ AtNewline(s, y) = Snap(y + 1, s.upto, s.eof, c, 0, s.lines, 0)
        \/ AtNewline(s, y) = Snap(y + 1, s.upto, s.eof, NoLine, 0, Append(s.lines, <<From(s), y>>), 0)
    BY <2>1, Zenon DEF AtNewline
  <2>3. AtNewline(s, y).lines \in {s.lines, Append(s.lines, <<From(s), y>>)}
    BY <2>2 DEF Snap
  <2> QED  BY <2>3
<1>3. WithoutNewline(f, s).lines = s.lines \/ \E x : WithoutNewline(f, s).lines = Append(s.lines, x)
  <2>1. PICK e : e = Bit(Got(f, s) < Asked(f))
    OBVIOUS
  <2>2. \/ WithoutNewline(f, s) = Snap(s.upto, s.upto, s.eof, <<From(s), s.upto>>, s.skip, s.lines, 0)
        \/ WithoutNewline(f, s) = Snap(s.at, s.upto + Got(f, s), e, s.cur, s.skip, s.lines, 0)
        \/ WithoutNewline(f, s) = Snap(s.at, s.upto, s.eof, NoLine, s.skip, Append(s.lines, s.cur), 0)
        \/ WithoutNewline(f, s) = Snap(s.at, s.upto, s.eof, NoLine, s.skip, s.lines, 1)
    BY <2>1, Zenon DEF WithoutNewline
  <2>3. WithoutNewline(f, s).lines \in {s.lines, Append(s.lines, s.cur)}
    BY <2>2 DEF Snap
  <2> QED  BY <2>3
<1> QED  BY <1>2, <1>3 DEF After

LEMMA AppendBegins ==
  ASSUME NEW S, NEW ls \in Seq(S), NEW x
  PROVE  Begins(ls, ls) /\ Begins(ls, Append(ls, x))
<1>1. ls \in Seq(S \cup {x}) /\ x \in S \cup {x}
  OBVIOUS
<1>2. Len(Append(ls, x)) = Len(ls) + 1 /\ \A i \in 1 .. Len(ls) : Append(ls, x)[i] = ls[i]
  BY <1>1
<1>3. Len(ls) \in Nat
  OBVIOUS
<1>4. Begins(ls, ls)
  BY <1>3 DEF Begins
<1>5. Begins(ls, Append(ls, x))
  BY <1>2, <1>3 DEF Begins
<1> QED  BY <1>4, <1>5

LEMMA BeginsFirst ==
  ASSUME NEW ls, NEW ms, NEW ns, Len(ls) \in Nat, Len(ms) \in Nat, Len(ns) \in Nat,
         Begins(ls, ms), Begins(ms, ns)
  PROVE  Begins(ls, ns)
<1>1. Len(ls) <= Len(ms) /\ Len(ms) <= Len(ns)
  BY DEF Begins
<1>2. ASSUME NEW i \in 1 .. Len(ls) PROVE ls[i] = ns[i]
  <2>1. i \in 1 .. Len(ms)
    BY <1>1
  <2> QED  BY <2>1 DEF Begins
<1> QED  BY <1>1, <1>2 DEF Begins

(* The lines that a run has returned are the first of those it returns.    *)
LEMMA RunGrows ==
  ASSUME NEW f, NEW p, NEW n \in Nat, IsRun(f, p, n), NEW i \in 0 .. n
  PROVE  Begins(p[i].lines, p[n].lines)
<1> DEFINE S == {k \in Nat : i + k <= n => Begins(p[i].lines, p[i + k].lines)}
<1>0. \A k \in 0 .. n : p[k].lines \in Seq(LineSet) /\ Len(p[k].lines) \in Nat
  BY DEF IsRun
<1>1. 0 \in S
  <2>1. i + 0 = i
    OBVIOUS
  <2> QED  BY <1>0, <2>1 DEF Begins
<1>2. ASSUME NEW k \in Nat, k \in S PROVE k + 1 \in S
  <2> SUFFICES ASSUME i + (k + 1) <= n PROVE Begins(p[i].lines, p[i + (k + 1)].lines)
    OBVIOUS
  <2>1. i + k \in 0 .. n /\ i + k <= n /\ i + (k + 1) \in 1 .. n /\ (i + (k + 1)) - 1 = i + k
    OBVIOUS
  <2>2. p[i + (k + 1)] = After(f, p[i + k])
    BY <2>1 DEF IsRun
  <2>3. Begins(p[i + k].lines, p[i + (k + 1)].lines)
    <3>1. p[i + k].lines \in Seq(LineSet)
      BY <1>0, <2>1
    <3>2. Begins(p[i + k].lines, p[i + k].lines) /\ \A x : Begins(p[i + k].lines, Append(p[i + k].lines, x))
      BY <3>1, AppendBegins
    <3>3. \/ After(f, p[i + k]).lines = p[i + k].lines
          \/ \E x : After(f, p[i + k]).lines = Append(p[i + k].lines, x)
      BY AfterLines
    <3> QED  BY <2>2, <3>2, <3>3
  <2>4. Begins(p[i].lines, p[i + k].lines)
    BY <1>2, <2>1
  <2>5. Len(p[i].lines) \in Nat /\ Len(p[i + k].lines) \in Nat /\ Len(p[i + (k + 1)].lines) \in Nat
    BY <1>0, <2>1
  <2> QED  BY <2>3, <2>4, <2>5, BeginsFirst
<1>3. n - i \in S
  <2>1. Nat \subseteq S
    <3> HIDE DEF S
    <3> QED  BY <1>1, <1>2, Fielding!Induction
  <2> QED  BY <2>1
<1>4. i + (n - i) = n
  OBVIOUS
<1> QED  BY <1>3, <1>4

LEMMA RunExtended ==
  ASSUME NEW f, NEW p, NEW n \in Nat, IsRun(f, p, n), p[n].over = 0,
         NEW s, s = After(f, p[n]), s.lines \in Seq(LineSet)
  PROVE  \E q : IsRun(f, q, n + 1) /\ q[n + 1] = s
<1> DEFINE q == [i \in 0 .. n + 1 |-> IF i = n + 1 THEN s ELSE p[i]]
<1>1. q[n + 1] = s /\ \A i \in 0 .. n : q[i] = p[i]
  OBVIOUS
<1> HIDE DEF q
<1>2. q[0] = First(f)
  BY <1>1 DEF IsRun
<1>3. ASSUME NEW i \in 1 .. n + 1 PROVE q[i - 1].over = 0 /\ q[i] = After(f, q[i - 1])
  <2>1. CASE i = n + 1
    <3>1. i - 1 = n /\ n \in 0 .. n
      BY <2>1
    <3> QED  BY <1>1, <2>1, <3>1
  <2>2. CASE i # n + 1
    <3>1. i \in 1 .. n /\ i - 1 \in 0 .. n /\ i \in 0 .. n
      BY <2>2
    <3> QED  BY <1>1, <3>1 DEF IsRun
  <2> QED  BY <2>1, <2>2
<1>4. ASSUME NEW i \in 0 .. n + 1 PROVE q[i].lines \in Seq(LineSet)
  <2>1. CASE i = n + 1
    BY <1>1, <2>1
  <2>2. CASE i # n + 1
    <3>1. i \in 0 .. n
      BY <2>2
    <3> QED  BY <1>1, <3>1 DEF IsRun
  <2> QED  BY <2>1, <2>2
<1>5. IsRun(f, q, n + 1)
  BY <1>2, <1>3, <1>4 DEF IsRun
<1> QED  BY <1>1, <1>5

(* A line that a later run returns, and the one that it stands for in an   *)
(* earlier run that ended because it had no more lines, or enough.         *)
LEMMA SameLines ==
  ASSUME NEW f, NEW p, NEW n \in Nat, NEW q, NEW m \in Nat, IsRun(f, p, n), IsRun(f, q, m),
         NEW g \in Nat, q[m].over = 1 \/ Len(q[m].lines) >= g,
         NEW i \in 1 .. Len(p[n].lines), i <= g
  PROVE  i \in 1 .. Len(q[m].lines) /\ p[n].lines[i] = q[m].lines[i]
<1>1. /\ p[n].lines \in Seq(LineSet) /\ q[m].lines \in Seq(LineSet)
      /\ Len(p[n].lines) \in Nat /\ Len(q[m].lines) \in Nat
  BY DEF IsRun
<1>2. CASE n <= m
  <2>1. p[n] = q[n]
    BY <1>2, RunsAgree
  <2>2. Begins(q[n].lines, q[m].lines)
    BY <1>2, RunGrows
  <2> QED  BY <1>1, <2>1, <2>2 DEF Begins
<1>3. CASE m < n
  <2>1. p[m] = q[m]
    BY <1>3, RunsAgree
  <2>2. p[m].over = 0
    <3>1. m + 1 \in 1 .. n /\ (m + 1) - 1 = m
      BY <1>3
    <3> QED  BY <3>1 DEF IsRun
  <2>3. Begins(p[m].lines, p[n].lines)
    BY <1>3, RunGrows
  <2>4. Len(q[m].lines) >= g
    BY <2>1, <2>2
  <2>5. i \in 1 .. Len(q[m].lines)
    BY <1>1, <2>4
  <2> QED  BY <2>1, <2>3, <2>5 DEF Begins
<1> QED  BY <1>2, <1>3

-----------------------------------------------------------------------------
(* The fields of the line l of f, and what is written in the j-th of them. *)
RowOf(f, l) == Fielding!Folded(l, <<>>, f.fields, Len(f.fields))

Wrote(f, l, j) == IF j <= Len(RowOf(f, l)) THEN RowOf(f, l)[j] ELSE Nothing

LEMMA RowIs ==
  ASSUME file \in File
  PROVE  \A l : FieldsOf(l) = RowOf(file, l)
<1> TAKE l
<1>1. DOMAIN file.fields = 1 .. Len(file.fields)
  <2>1. file.fields \in Seq([from : Nat, to : Nat, is : Written])
    BY FieldsAssumption, Zenon
  <2>2. \A S : \A q \in Seq(S) : DOMAIN q = 1 .. Len(q)
    OBVIOUS
  <2> QED  BY <2>1, <2>2, Zenon
<1> QED  BY <1>1 DEF FieldsOf, RowOf, FoldLeft, MapThenFoldSet, Max, Fielding!Folded, Fielding!Iter,
                     FieldStep

LEMMA RowWritten ==
  ASSUME NEW f \in File, NEW l
  PROVE  RowOf(f, l) \in Seq(Written)
<1> DEFINE n == Len(f.fields)
<1>1. /\ n \in Nat
      /\ \A k \in 1 .. n : f.fields[k].is \in Written
  <2>1. f.fields \in Seq([from : Nat, to : Nat, is : Written])
    BY FieldsAssumption, Zenon
  <2>2. \A S : \A q \in Seq(S) : Len(q) \in Nat /\ \A k \in 1 .. Len(q) : q[k] \in S
    OBVIOUS
  <2>3. n \in Nat /\ \A k \in 1 .. n : f.fields[k] \in [from : Nat, to : Nat, is : Written]
    BY <2>1, <2>2, Zenon
  <2>4. \A r \in [from : Nat, to : Nat, is : Written] : r.is \in Written
    OBVIOUS
  <2> QED  BY <2>3, <2>4, Zenon
<1> HIDE DEF n
<1>2. PICK it : Fielding!Folding(l, it, <<>>, f.fields, n) /\ RowOf(f, l) = it[n]
  BY <1>1, Fielding!FoldGoesThrough DEF RowOf, n
<1>3. it[0] = <<>> /\ \A k \in 1 .. n : it[k] = FieldStep(l, it[k - 1], f.fields[k])
  BY <1>2 DEF Fielding!Folding
<1> DEFINE S == {k \in Nat : k <= n => it[k] \in Seq(Written)}
<1>4. 0 \in S
  <2>1. <<>> \in Seq(Written)
    OBVIOUS
  <2> QED  BY <1>3, <2>1
<1>5. ASSUME NEW k \in Nat, k \in S PROVE k + 1 \in S
  <2> SUFFICES ASSUME k + 1 <= n PROVE it[k + 1] \in Seq(Written)
    OBVIOUS
  <2>1. k + 1 \in 1 .. n /\ (k + 1) - 1 = k /\ it[k] \in Seq(Written)
    BY <1>1, <1>5
  <2>2. it[k + 1] = FieldStep(l, it[k], f.fields[k + 1]) /\ f.fields[k + 1].is \in Written
    BY <1>1, <1>3, <2>1
  <2> QED  BY <2>1, <2>2 DEF FieldStep
<1>6. Nat \subseteq S
  <2> HIDE DEF S
  <2> QED  BY <1>4, <1>5, Fielding!Induction
<1> QED  BY <1>1, <1>2, <1>6

LEMMA WroteWritten ==
  ASSUME NEW f \in File, NEW l, NEW j \in Nat \ {0}
  PROVE  Wrote(f, l, j) \in Written
<1>1. RowOf(f, l) \in Seq(Written)
  BY RowWritten
<1>2. Nothing \in Written
  BY DEF Written, Nothing
<1> QED  BY <1>1, <1>2 DEF Wrote

-----------------------------------------------------------------------------
(* What a column of a type admits: nothing, what it gives back, and a text *)
(* that the guess takes for a number unless the column is one of strings.  *)
Mistaken(w) == w.kind = "text" /\ w.has # {}
Admits(t, w) == w = Nothing \/ (t # "U" /\ (w \in Readable(t) \/ Mistaken(w)))

LEMMA WrittenParts ==
  ASSUME NEW w \in Written
  PROVE  /\ w.kind \in {"nothing", "number", "text"} /\ w.toInt \in {0, 1, 2}
         /\ w.kind = "nothing" => w = Nothing
         /\ w.kind = "number" => w.has # {}
  <1>1. /\ w \in [kind : {"nothing", "number", "text"}, has : SUBSET {"digit", "sign", "dot"},
                  toInt : 0 .. 2, long : BOOLEAN]
        /\ w.kind = "nothing" => w.has = {} /\ ~w.long
        /\ w.kind = "number" => "digit" \in w.has /\ ~w.long
        /\ "digit" \notin w.has => w.toInt = 0
    BY DEF Written
  <1>2. w.kind = "nothing" => w.toInt = 0 /\ w.long = FALSE /\ w.has = {}
    BY <1>1
  <1>3. w.kind = "nothing" => w = Nothing
    BY <1>1, <1>2 DEF Nothing
  <1> QED  BY <1>1, <1>3

(* What a column gives back, type by type.                                 *)
LEMMA ReadableIs ==
  ASSUME NEW w \in Written
  PROVE  /\ w \in Readable("B") <=> w.kind = "number" /\ "dot" \notin w.has /\ w.toInt # 2
         /\ w \in Readable("I") <=> w.kind = "number" /\ "dot" \notin w.has
         /\ w \in Readable("F") <=> w.kind = "number"
         /\ w \in Readable("S")
  BY DEF Readable, WholeNumber

LEMMA GuessAdmits ==
  ASSUME NEW t \in ColumnType, NEW w \in Written
  PROVE  /\ Guess(t, w) \in ColumnType /\ Admits(Guess(t, w), w)
         /\ \A v \in Written : Admits(t, v) => Admits(Guess(t, w), v)
  BY WrittenParts, ReadableIs DEF ColumnType, Guess, Admits, Mistaken

LEMMA FinalAdmits ==
  ASSUME NEW t \in ColumnType
  PROVE  /\ Final(t) \in ColumnType /\ Final(t) # "U"
         /\ \A v \in Written : Admits(t, v) => Admits(Final(t), v)
  BY DEF ColumnType, Final, Admits

(* A text without a digit, a sign or a dot is admitted by strings only.    *)
LEMMA TextsInStrings ==
  ASSUME NEW t \in ColumnType, NEW w \in Written, Admits(t, w), w.kind = "text", w.has = {}
  PROVE  t = "S"
<1>1. w # Nothing
  BY DEF Nothing
<1> QED  BY <1>1, ReadableIs DEF Admits, Mistaken, ColumnType

LEMMA CellKeeps ==
  ASSUME NEW t \in ColumnType, NEW w \in Written
  PROVE  /\ Cell(t, w) \in Written \cup {Lost}
         /\ Cell(t, Nothing) = Nothing
         /\ t = "S" => Cell(t, w) = w
         /\ Cell(t, w) = w \/ (Cell(t, w) = Lost /\ (t # "U" /\ Admits(t, w) => Mistaken(w)))
  BY ReadableIs DEF Cell, Admits

(* The types ts of the columns admit every field of the lines ls.          *)
Fits(f, ls, ts) ==
  \A i \in 1 .. Len(ls) : \A j \in 1 .. Len(ts) : Admits(ts[j], Wrote(f, ls[i], j))

(* The columns cs have, of every line, the field or what it reads as.      *)
Filled(f, ls, ts, cs) ==
  /\ Len(cs) = Len(ts)
  /\ \A j \in 1 .. Len(ts) :
       /\ ts[j] # "U"
       /\ cs[j] \in Seq(Written \cup {Lost}) /\ Len(cs[j]) = Len(ls)
       /\ \A i \in 1 .. Len(ls) : cs[j][i] = Cell(ts[j], Wrote(f, ls[i], j))

(* The types come from a pass over the first lines, or all of them.        *)
Sampled(f, ts) ==
  \E q, m : /\ m \in Nat /\ IsRun(f, q, m)
            /\ q[m].over = 1 \/ Len(q[m].lines) >= GuessLines
            /\ Fits(f, q[m].lines, ts)

LEMMA MoreFit ==
  ASSUME NEW f \in File, NEW ls \in Seq(LineSet), NEW l \in LineSet, NEW ts \in Seq(ColumnType),
         Fits(f, ls, ts), NEW us, us = [j \in 1 .. Len(ts) |-> Guess(ts[j], Wrote(f, l, j))]
  PROVE  us \in Seq(ColumnType) /\ Len(us) = Len(ts) /\ Fits(f, Append(ls, l), us)
<1>1. \A j \in 1 .. Len(ts) : ts[j] \in ColumnType
  OBVIOUS
<1>2. \A j \in 1 .. Len(ts) : j \in Nat \ {0}
  OBVIOUS
<1>3. \A j \in 1 .. Len(ts) : us[j] = Guess(ts[j], Wrote(f, l, j)) /\ us[j] \in ColumnType
  BY <1>1, <1>2, WroteWritten, GuessAdmits
<1>4. us \in Seq(ColumnType) /\ Len(us) = Len(ts)
  BY <1>3
<1>5. /\ Len(Append(ls, l)) = Len(ls) + 1 /\ Append(ls, l)[Len(ls) + 1] = l
      /\ \A i \in 1 .. Len(ls) : Append(ls, l)[i] = ls[i]
      /\ Len(ls) \in Nat
  OBVIOUS
<1>6. ASSUME NEW i \in 1 .. Len(ls) + 1, NEW j \in 1 .. Len(ts)
      PROVE  Admits(us[j], Wrote(f, Append(ls, l)[i], j))
  <2>1. CASE i = Len(ls) + 1
    BY <1>1, <1>2, <1>3, <1>5, <2>1, WroteWritten, GuessAdmits
  <2>2. CASE i # Len(ls) + 1
    <3>1. i \in 1 .. Len(ls)
      BY <1>5, <2>2
    <3>2. Admits(ts[j], Wrote(f, ls[i], j)) /\ Wrote(f, ls[i], j) \in Written
          /\ Wrote(f, l, j) \in Written
      BY <1>2, <3>1, WroteWritten DEF Fits
    <3> QED  BY <1>1, <1>3, <1>5, <3>1, <3>2, GuessAdmits
  <2> QED  BY <2>1, <2>2
<1> QED  BY <1>4, <1>5, <1>6 DEF Fits

LEMMA FinalFit ==
  ASSUME NEW f \in File, NEW ls, NEW ts \in Seq(ColumnType), Fits(f, ls, ts),
         NEW us, us = [j \in 1 .. Len(ts) |-> Final(ts[j])]
  PROVE  /\ us \in Seq(ColumnType) /\ Len(us) = Len(ts) /\ Fits(f, ls, us)
         /\ \A j \in 1 .. Len(us) : us[j] # "U"
<1>1. \A j \in 1 .. Len(ts) : j \in Nat \ {0} /\ ts[j] \in ColumnType /\ us[j] = Final(ts[j])
  OBVIOUS
<1>2. \A j \in 1 .. Len(ts) : us[j] \in ColumnType /\ us[j] # "U"
  BY <1>1, FinalAdmits
<1>3. us \in Seq(ColumnType) /\ Len(us) = Len(ts)
  BY <1>2
<1>4. ASSUME NEW i \in 1 .. Len(ls), NEW j \in 1 .. Len(ts)
      PROVE  Admits(us[j], Wrote(f, ls[i], j))
  BY <1>1, WroteWritten, FinalAdmits DEF Fits
<1> QED  BY <1>2, <1>3, <1>4 DEF Fits

(* The columns cs with the line l as another row.                          *)
OneMoreRow(f, l, ts, cs) == [j \in 1 .. Len(ts) |-> Append(cs[j], Cell(ts[j], Wrote(f, l, j)))]

LEMMA RowFilled ==
  ASSUME NEW f \in File, NEW ls \in Seq(LineSet), NEW l \in LineSet, NEW ts \in Seq(ColumnType),
         NEW cs, Filled(f, ls, ts, cs),
         NEW ds, ds = OneMoreRow(f, l, ts, cs)
  PROVE  Filled(f, Append(ls, l), ts, ds) /\ ds \in Seq(Seq(Written \cup {Lost}))
<1>1. /\ Len(Append(ls, l)) = Len(ls) + 1 /\ Append(ls, l)[Len(ls) + 1] = l
      /\ \A i \in 1 .. Len(ls) : Append(ls, l)[i] = ls[i]
      /\ Len(ls) \in Nat
  OBVIOUS
<1>2. ASSUME NEW j \in 1 .. Len(ts)
      PROVE  /\ ds[j] \in Seq(Written \cup {Lost}) /\ Len(ds[j]) = Len(ls) + 1
             /\ \A i \in 1 .. Len(ls) + 1 : ds[j][i] = Cell(ts[j], Wrote(f, Append(ls, l)[i], j))
  <2>1. PICK c : c = Cell(ts[j], Wrote(f, l, j))
    OBVIOUS
  <2>2. c \in Written \cup {Lost}
    BY <2>1, WroteWritten, CellKeeps
  <2>3. /\ cs[j] \in Seq(Written \cup {Lost}) /\ Len(cs[j]) = Len(ls)
        /\ \A i \in 1 .. Len(ls) : cs[j][i] = Cell(ts[j], Wrote(f, ls[i], j))
    BY DEF Filled
  <2>4. ds[j] = Append(cs[j], c)
    BY <2>1 DEF OneMoreRow
  <2>5. /\ ds[j] \in Seq(Written \cup {Lost}) /\ Len(ds[j]) = Len(ls) + 1
        /\ ds[j][Len(ls) + 1] = c /\ \A i \in 1 .. Len(ls) : ds[j][i] = cs[j][i]
    BY <2>2, <2>3, <2>4
  <2>6. ASSUME NEW i \in 1 .. Len(ls) + 1
        PROVE  ds[j][i] = Cell(ts[j], Wrote(f, Append(ls, l)[i], j))
    <3>1. CASE i = Len(ls) + 1
      BY <1>1, <2>1, <2>5, <3>1
    <3>2. CASE i # Len(ls) + 1
      <4>1. i \in 1 .. Len(ls)
        BY <1>1, <3>2
      <4> QED  BY <1>1, <2>3, <2>5, <4>1
    <3> QED  BY <3>1, <3>2
  <2> QED  BY <2>5, <2>6
<1>3. Len(ds) = Len(ts) /\ ds \in Seq(Seq(Written \cup {Lost}))
  BY <1>2 DEF OneMoreRow
<1> QED  BY <1>1, <1>2, <1>3 DEF Filled

-----------------------------------------------------------------------------
(* The reader is at the end of a run over the file.                        *)
InRun == \E p, n : n \in Nat /\ IsRun(file, p, n) /\ p[n] = Snapshot

(* The inductive invariant: what has been read are the lines of a run, the *)
(* guessed types admit the lines that the guess has seen, and the columns  *)
(* have the lines as rows, with types from a run that went as far as a     *)
(* guess goes.                                                             *)
ParserInv ==
  /\ ReaderInv
  /\ InRun
  /\ pass \in {"count", "guess", "parse", "done", "aborted"}
  /\ types \in Seq(ColumnType)
  /\ columns \in Seq(Seq(Written \cup {Lost}))
  /\ pass = "guess" => Fits(file, lines, types)
  /\ pass \in {"parse", "done"} => Filled(file, lines, types, columns) /\ Sampled(file, types)

LEMMA StartingRun ==
  ASSUME Starting
  PROVE  InRun
<1>1. Snapshot = First(file)
  <2>1. Bit(eof) = 0 /\ Bit(skip) = Bit(file.start # 0) /\ Bit(over) = 0
    BY DEF Starting, Bit
  <2> QED  BY <2>1 DEF Starting, Snapshot, First
<1> DEFINE p == [i \in {0} |-> First(file)]
<1>2. p[0] = First(file)
  OBVIOUS
<1> HIDE DEF p
<1>3. First(file).lines = <<>> /\ <<>> \in Seq(LineSet)
  BY DEF First, Snap
<1>4. \A i \in 0 .. 0 : i = 0
  OBVIOUS
<1>5. 1 .. 0 = {}
  OBVIOUS
<1>6. IsRun(file, p, 0)
  BY <1>2, <1>3, <1>4, <1>5 DEF IsRun
<1> QED  BY <1>1, <1>2, <1>6 DEF InRun

LEMMA StartingRunNext == (Starting => InRun)'
  BY StartingRun, PTL

LEMMA StepInRun ==
  ASSUME ReaderTypeOK, ReaderTypeOK', InRun, ReadOn \/ Returns \/ ReturnNothing
  PROVE  InRun'
<1>1. Snapshot' = After(file, Snapshot) /\ Snapshot.over = 0 /\ file' = file
  BY StepIsNext
<1>2. PICK p, n : n \in Nat /\ IsRun(file, p, n) /\ p[n] = Snapshot
  BY DEF InRun
<1>3. PICK f, s : f = file /\ s = Snapshot'
  OBVIOUS
<1>4. s.lines \in Seq(LineSet)
  BY <1>3 DEF Snapshot, Snap, ReaderTypeOK, LineSet
<1>5. IsRun(f, p, n) /\ p[n].over = 0 /\ s = After(f, p[n]) /\ n \in Nat
  BY <1>1, <1>2, <1>3
<1>6. \E q : IsRun(f, q, n + 1) /\ q[n + 1] = s
  BY ONLY <1>4, <1>5, RunExtended
<1>7. PICK q : IsRun(f, q, n + 1) /\ q[n + 1] = s
  BY <1>6
<1>8. n + 1 \in Nat /\ f = file'
  BY <1>1, <1>2, <1>3
<1> QED  BY <1>3, <1>7, <1>8 DEF InRun

LEMMA StutterInRun ==
  ASSUME InRun, UNCHANGED readerVars
  PROVE  InRun'
<1>1. file' = file /\ Snapshot' = Snapshot
  BY DEF readerVars, Snapshot, Bit
<1> QED  BY <1>1 DEF InRun

LEMMA ReturnedLine ==
  ASSUME ReaderTypeOK, ReaderTypeOK', Returns
  PROVE  \E l \in LineSet : lines' = Append(lines, l) /\ lines'[Len(lines')] = l
<1>1. \E l : lines' = Append(lines, l)
  BY DEF Returns, ReturnLine, ReturnLast
<1>2. PICK l : lines' = Append(lines, l)
  BY <1>1
<1>3. lines \in Seq(LineSet) /\ lines' \in Seq(LineSet)
  BY DEF ReaderTypeOK, LineSet
<1>4. lines \in Seq(LineSet \cup {l}) /\ l \in LineSet \cup {l}
  BY <1>3
<1>5. Len(lines') = Len(lines) + 1 /\ lines'[Len(lines) + 1] = l /\ Len(lines) \in Nat
  BY <1>2, <1>4
<1>6. l \in LineSet
  BY <1>3, <1>5
<1> QED  BY <1>2, <1>5, <1>6

-----------------------------------------------------------------------------
LEMMA ParserReads ==
  ASSUME ParserNext
  PROVE  [ReaderNext]_readerVars
  BY DEF ParserNext, ReadInBuffer, CountFields, GuessTypes, StartGuess, StartParse, ParseLine, Parsed,
         ReaderNext

(* The end of a guess makes a sample of the lines that it has read.        *)
LEMMA EndOfGuess ==
  ASSUME ReaderTypeOK, InRun, over \/ ~(Len(lines) < GuessLines), NEW us, Fits(file, lines, us)
  PROVE  Sampled(file, us)
<1>1. PICK p, n : n \in Nat /\ IsRun(file, p, n) /\ p[n] = Snapshot
  BY DEF InRun
<1>2. p[n].lines = lines /\ (over => p[n].over = 1)
  BY <1>1, SnapParts DEF Bit
<1>3. Len(lines) \in Nat /\ GuessLines \in Nat
  BY GuessLinesAssumption DEF ReaderTypeOK
<1>4. p[n].over = 1 \/ Len(p[n].lines) >= GuessLines
  BY <1>2, <1>3
<1> QED  BY <1>1, <1>2, <1>4 DEF Sampled

LEMMA CountStep ==
  ASSUME ParserInv, ReaderTypeOK', CountFields
  PROVE  types' \in Seq(ColumnType)
<1>1. PICK l \in LineSet : lines' = Append(lines, l) /\ lines'[Len(lines')] = l
  BY ReturnedLine DEF ParserInv, ReaderInv, CountFields
<1>2. file \in File
  BY DEF ParserInv, ReaderInv, ReaderTypeOK
<1>3. Line = RowOf(file, l)
  BY <1>1, <1>2, RowIs DEF Line
<1>4. Len(Line) \in Nat /\ Len(types) \in Nat
  BY <1>2, <1>3, RowWritten DEF ParserInv
<1>5. Max({Len(types), Len(Line)}) \in Nat
  <2>1. \A a, b \in Nat : \E x \in {a, b} : \A y \in {a, b} : x >= y
    <3> TAKE a, b \in Nat
    <3>1. CASE a >= b
      BY <3>1
    <3>2. CASE b >= a
      BY <3>2
    <3> QED  BY <3>1, <3>2
  <2>2. \E x \in {Len(types), Len(Line)} : \A y \in {Len(types), Len(Line)} : x >= y
    BY <1>4, <2>1
  <2>3. Max({Len(types), Len(Line)}) \in {Len(types), Len(Line)}
    BY <2>2 DEF Max
  <2> QED  BY <1>4, <2>3
<1>6. "U" \in ColumnType
  BY DEF ColumnType
<1>7. types' = [j \in 1 .. Max({Len(types), Len(Line)}) |-> "U"]
  BY DEF CountFields
<1>8. \A n \in Nat : [j \in 1 .. n |-> "U"] \in Seq(ColumnType)
  BY <1>6
<1> QED  BY <1>5, <1>7, <1>8

LEMMA GuessStep ==
  ASSUME ParserInv, ReaderTypeOK', GuessTypes
  PROVE  types' \in Seq(ColumnType) /\ Fits(file', lines', types')
<1>1. PICK l \in LineSet : lines' = Append(lines, l) /\ lines'[Len(lines')] = l
  BY ReturnedLine DEF ParserInv, ReaderInv, GuessTypes
<1>2. file \in File /\ lines \in Seq(LineSet) /\ types \in Seq(ColumnType) /\ Fits(file, lines, types)
  BY DEF ParserInv, ReaderInv, ReaderTypeOK, GuessTypes, LineSet
<1>3. file' = file
  BY DEF GuessTypes, Returns, ReturnLine, ReturnLast
<1>4. Line = RowOf(file, l)
  BY <1>1, <1>2, RowIs DEF Line
<1>5. ASSUME NEW j \in 1 .. Len(types)
      PROVE  (IF j > Len(Line) THEN types[j] ELSE Guess(types[j], Line[j]))
               = Guess(types[j], Wrote(file, l, j))
  <2>1. Len(Line) \in Nat
    BY <1>2, <1>4, RowWritten
  <2>2. CASE j > Len(Line)
    <3>1. Wrote(file, l, j) = Nothing
      BY <1>4, <2>1, <2>2 DEF Wrote
    <3> QED  BY <2>2, <3>1 DEF Guess
  <2>3. CASE ~(j > Len(Line))
    <3>1. Wrote(file, l, j) = Line[j]
      BY <1>4, <2>1, <2>3 DEF Wrote
    <3> QED  BY <2>3, <3>1
  <2> QED  BY <2>2, <2>3
<1>6. types' = [j \in 1 .. Len(types) |-> Guess(types[j], Wrote(file, l, j))]
  <2>1. types' = [j \in 1 .. Len(types) |-> IF j > Len(Line) THEN types[j] ELSE Guess(types[j], Line[j])]
    BY DEF GuessTypes
  <2> QED  BY <1>5, <2>1, Zenon
<1>7. PICK f, ls, ts, us : f = file /\ ls = lines /\ ts = types /\ us = types'
  OBVIOUS
<1>8. /\ f \in File /\ ls \in Seq(LineSet) /\ l \in LineSet /\ ts \in Seq(ColumnType) /\ Fits(f, ls, ts)
      /\ us = [j \in 1 .. Len(ts) |-> Guess(ts[j], Wrote(f, l, j))]
  BY <1>2, <1>6, <1>7
<1>9. us \in Seq(ColumnType) /\ Fits(f, Append(ls, l), us)
  BY ONLY <1>8, MoreFit
<1> QED  BY <1>1, <1>3, <1>7, <1>9

LEMMA StartParseStep ==
  ASSUME ParserInv, StartParse
  PROVE  /\ types' \in Seq(ColumnType) /\ columns' \in Seq(Seq(Written \cup {Lost}))
         /\ Filled(file', lines', types', columns') /\ Sampled(file', types')
<1>1. /\ ReaderTypeOK /\ file \in File /\ types \in Seq(ColumnType) /\ Fits(file, lines, types) /\ InRun
      /\ over \/ ~(Len(lines) < GuessLines)
  BY DEF ParserInv, ReaderInv, ReaderTypeOK, StartParse, PassEnds, Reading
<1>2. PICK f, ls, ts, us, cs : f = file /\ ls = lines /\ ts = types /\ us = types' /\ cs = columns'
  OBVIOUS
<1>3. /\ f \in File /\ ts \in Seq(ColumnType) /\ Fits(f, ls, ts)
      /\ us = [j \in 1 .. Len(ts) |-> Final(ts[j])]
  BY <1>1, <1>2 DEF StartParse
<1>4. /\ us \in Seq(ColumnType) /\ Len(us) = Len(ts) /\ Fits(f, ls, us)
      /\ \A j \in 1 .. Len(us) : us[j] # "U"
  BY ONLY <1>3, FinalFit
<1>5. Sampled(f, us)
  <2>1. Fits(file, lines, us)
    BY <1>2, <1>4
  <2>2. Sampled(file, us)
    BY <1>1, <2>1, EndOfGuess
  <2> QED  BY <1>2, <2>2
<1>6. cs = [j \in 1 .. Len(us) |-> <<>>] /\ lines' = <<>> /\ file' = file
  BY <1>2, <1>4 DEF StartParse, Reset
<1>7. Len(us) \in Nat /\ <<>> \in Seq(Written \cup {Lost}) /\ Len(<<>>) = 0
  BY <1>4
<1>8. cs \in Seq(Seq(Written \cup {Lost})) /\ Len(cs) = Len(us) /\ \A j \in 1 .. Len(us) : cs[j] = <<>>
  BY <1>6, <1>7
<1>9. Filled(f, <<>>, us, cs)
  BY <1>4, <1>7, <1>8 DEF Filled
<1> QED  BY <1>2, <1>4, <1>5, <1>6, <1>8, <1>9

LEMMA RowStep ==
  ASSUME ParserInv, ReaderTypeOK', pass = "parse", Returns, ~Rejects(Line), columns' = WithRow(Line),
         types' = types
  PROVE  columns' \in Seq(Seq(Written \cup {Lost})) /\ Filled(file', lines', types', columns')
<1>1. PICK l \in LineSet : lines' = Append(lines, l) /\ lines'[Len(lines')] = l
  BY ReturnedLine DEF ParserInv, ReaderInv
<1>2. /\ file \in File /\ lines \in Seq(LineSet) /\ types \in Seq(ColumnType)
      /\ Filled(file, lines, types, columns)
  BY DEF ParserInv, ReaderInv, ReaderTypeOK, LineSet
<1>3. file' = file
  BY DEF Returns, ReturnLine, ReturnLast
<1>4. Line = RowOf(file, l)
  BY <1>1, <1>2, RowIs DEF Line
<1>5. ASSUME NEW j \in 1 .. Len(types)
      PROVE  (IF j > Len(Line) THEN Nothing ELSE Cell(types[j], Line[j]))
               = Cell(types[j], Wrote(file, l, j))
  <2>1. Len(Line) \in Nat
    BY <1>2, <1>4, RowWritten
  <2>2. CASE j > Len(Line)
    <3>1. Wrote(file, l, j) = Nothing
      BY <1>4, <2>1, <2>2 DEF Wrote
    <3> QED  BY <2>2, <3>1 DEF Cell
  <2>3. CASE ~(j > Len(Line))
    <3>1. Wrote(file, l, j) = Line[j]
      BY <1>4, <2>1, <2>3 DEF Wrote
    <3> QED  BY <2>3, <3>1
  <2> QED  BY <2>2, <2>3
<1>6. columns' = [j \in 1 .. Len(types) |-> Append(columns[j], Cell(types[j], Wrote(file, l, j)))]
  <2>1. columns' = [j \in 1 .. Len(types) |->
                      Append(columns[j], IF j > Len(Line) THEN Nothing ELSE Cell(types[j], Line[j]))]
    BY DEF WithRow
  <2> QED  BY <1>5, <2>1, Zenon
<1>7. PICK f, ls, ts, cs, ds : f = file /\ ls = lines /\ ts = types /\ cs = columns /\ ds = columns'
  OBVIOUS
<1>8. /\ f \in File /\ ls \in Seq(LineSet) /\ l \in LineSet /\ ts \in Seq(ColumnType)
      /\ Filled(f, ls, ts, cs)
      /\ ds = OneMoreRow(f, l, ts, cs)
  BY <1>2, <1>6, <1>7 DEF OneMoreRow
<1>9. Filled(f, Append(ls, l), ts, ds) /\ ds \in Seq(Seq(Written \cup {Lost}))
  BY ONLY <1>8, RowFilled
<1> QED  BY <1>1, <1>3, <1>7, <1>9

LEMMA ParserStepInv ==
  ASSUME ParserInv, [ParserNext]_<<readerVars, parserVars>>
  PROVE  ParserInv'
<1>1. ReaderInv'
  BY ParserReads, ReaderStepInv DEF ParserInv
<1>2. ReaderTypeOK /\ ReaderTypeOK'
  BY <1>1 DEF ParserInv, ReaderInv
<1>3. ASSUME Reset PROVE InRun'
  BY <1>3, StartingRunNext DEF Reset, Starting
<1>4. CASE UNCHANGED <<readerVars, parserVars>>
  <2>1. UNCHANGED readerVars /\ file' = file /\ lines' = lines
    BY <1>4 DEF readerVars
  <2>2. pass' = pass /\ types' = types /\ columns' = columns
    BY <1>4 DEF parserVars
  <2>3. InRun'
    BY <2>1, StutterInRun DEF ParserInv
  <2> QED  BY <1>1, <2>1, <2>2, <2>3 DEF ParserInv
<1>5. CASE ReadInBuffer
  <2>1. ReadOn \/ ReturnNothing
    BY <1>5 DEF ReadInBuffer
  <2>2. file' = file /\ lines' = lines
    BY <2>1 DEF ReadOn, Fill, SkipLine, Keep, ReturnNothing
  <2>3. pass' = pass /\ types' = types /\ columns' = columns
    BY <1>5 DEF ReadInBuffer, parserVars
  <2>4. InRun'
    BY <1>2, <2>1, StepInRun DEF ParserInv
  <2> QED  BY <1>1, <2>2, <2>3, <2>4 DEF ParserInv
<1>6. CASE CountFields
  <2>1. types' \in Seq(ColumnType)
    BY <1>2, <1>6, CountStep
  <2>2. pass = "count" /\ pass' = pass /\ columns' = columns /\ Returns
    BY <1>6 DEF CountFields
  <2>3. InRun'
    BY <1>2, <2>2, StepInRun DEF ParserInv
  <2> QED  BY <1>1, <2>1, <2>2, <2>3 DEF ParserInv
<1>7. CASE GuessTypes
  <2>1. types' \in Seq(ColumnType) /\ Fits(file', lines', types')
    BY <1>2, <1>7, GuessStep
  <2>2. pass = "guess" /\ pass' = pass /\ columns' = columns /\ Returns
    BY <1>7 DEF GuessTypes
  <2>3. InRun'
    BY <1>2, <2>2, StepInRun DEF ParserInv
  <2> QED  BY <1>1, <2>1, <2>2, <2>3 DEF ParserInv
<1>8. CASE StartGuess
  <2>1. /\ pass = "count" /\ pass' \in {"aborted", "guess"}
        /\ types' = types /\ columns' = columns /\ Reset /\ lines' = <<>>
    BY <1>8 DEF StartGuess, Reset
  <2>2. Fits(file', lines', types')
    BY <2>1 DEF Fits
  <2> QED  BY <1>1, <1>3, <2>1, <2>2 DEF ParserInv
<1>9. CASE StartParse
  <2>1. /\ types' \in Seq(ColumnType) /\ columns' \in Seq(Seq(Written \cup {Lost}))
        /\ Filled(file', lines', types', columns') /\ Sampled(file', types')
    BY <1>9, StartParseStep
  <2>2. pass' = "parse" /\ Reset
    BY <1>9 DEF StartParse
  <2> QED  BY <1>1, <1>3, <2>1, <2>2 DEF ParserInv
<1>10. CASE ParseLine
  <2>1. pass = "parse" /\ Returns /\ types' = types
    BY <1>10 DEF ParseLine
  <2>2. InRun'
    BY <1>2, <2>1, StepInRun DEF ParserInv
  <2>3. CASE Rejects(Line)
    <3>1. pass' = "aborted" /\ columns' = columns
      BY <1>10, <2>3 DEF ParseLine
    <3> QED  BY <1>1, <2>1, <2>2, <3>1 DEF ParserInv
  <2>4. CASE ~Rejects(Line)
    <3>1. pass' = pass /\ columns' = WithRow(Line)
      BY <1>10, <2>4 DEF ParseLine
    <3>2. columns' \in Seq(Seq(Written \cup {Lost})) /\ Filled(file', lines', types', columns')
      BY <1>2, <2>1, <2>4, <3>1, RowStep
    <3>3. file' = file
      BY <2>1 DEF Returns, ReturnLine, ReturnLast
    <3>4. Sampled(file', types')
      BY <2>1, <3>3 DEF ParserInv
    <3> QED  BY <1>1, <2>1, <2>2, <3>1, <3>2, <3>4 DEF ParserInv
  <2> QED  BY <2>3, <2>4
<1>11. CASE Parsed
  <2>1. /\ pass = "parse" /\ pass' = "done" /\ types' = types /\ columns' = columns
        /\ UNCHANGED readerVars /\ file' = file /\ lines' = lines
    BY <1>11 DEF Parsed, readerVars
  <2>2. InRun'
    BY <2>1, StutterInRun DEF ParserInv
  <2> QED  BY <1>1, <2>1, <2>2 DEF ParserInv
<1> QED  BY <1>4, <1>5, <1>6, <1>7, <1>8, <1>9, <1>10, <1>11 DEF ParserNext

LEMMA ParserAlways == ParserSpec => []ParserInv
<1>1. ParserInit => ParserInv
  <2> SUFFICES ASSUME ParserInit PROVE ParserInv
    OBVIOUS
  <2>1. file \in File /\ Starting
    BY DEF ParserInit, ReaderInit, Starting
  <2>2. ReaderInv /\ InRun
    BY <2>1, StartingInv, StartingRun
  <2>3. <<>> \in Seq(ColumnType) /\ <<>> \in Seq(Seq(Written \cup {Lost}))
    OBVIOUS
  <2> QED  BY <2>2, <2>3 DEF ParserInit, ParserInv
<1>2. ParserInv /\ [ParserNext]_<<readerVars, parserVars>> => ParserInv'
  BY ParserStepInv
<1> QED  BY <1>1, <1>2, PTL DEF ParserSpec

(* The types and the columns are of one number, and no column is of an     *)
(* unknown type when the data are read (parser.h:574-588, 661-666).        *)
THEOREM ParserTypeCorrect == ParserSpec => []ParserTypeOK
<1>1. ParserInv => ParserTypeOK
  BY DEF ParserInv, ParserTypeOK, Filled
<1> QED  BY <1>1, ParserAlways, PTL

(* The rows of the frame are the lines of the file: a field is read back   *)
(* from its row and column, unless the guess has not seen its line, or it  *)
(* is a text that looks like a number, in a column in which the guess saw  *)
(* no other text (parser.h:412-417, 483-588, 661-666).                     *)
THEOREM RowsMatchLines == ParserSpec => []RowsAreLines
<1>1. ParserInv => RowsAreLines
  <2> DEFINE May(i, j) ==
        LET w == FieldIn(lines[i], j)
        IN \/ columns[j][i] = w
           \/ /\ columns[j][i] = Lost
              /\ \/ i \notin Seen
                 \/ /\ w.kind = "text" /\ w.has # {}
                    /\ \A k \in Seen : LET v == FieldIn(lines[k], j) IN v.kind = "text" => v.has # {}
  <2> SUFFICES ASSUME ParserInv, pass \in {"parse", "done"}, NEW j \in 1 .. Len(types)
               PROVE  Len(columns[j]) = Len(lines) /\ \A i \in 1 .. Len(lines) : May(i, j)
    BY DEF RowsAreLines
  <2>1. /\ file \in File /\ types \in Seq(ColumnType) /\ lines \in Seq(LineSet)
        /\ Filled(file, lines, types, columns) /\ Sampled(file, types) /\ InRun
    BY DEF ParserInv, ReaderInv, ReaderTypeOK, LineSet
  <2>2. PICK p, n : n \in Nat /\ IsRun(file, p, n) /\ p[n].lines = lines
    BY <2>1, SnapParts DEF InRun
  <2>3. PICK q, m : /\ m \in Nat /\ IsRun(file, q, m)
                    /\ q[m].over = 1 \/ Len(q[m].lines) >= GuessLines
                    /\ Fits(file, q[m].lines, types)
    BY <2>1 DEF Sampled
  <2>4. ASSUME NEW k \in 1 .. Len(lines)
        PROVE  /\ FieldIn(lines[k], j) = Wrote(file, lines[k], j)
               /\ FieldIn(lines[k], j) \in Written
               /\ columns[j][k] = Cell(types[j], FieldIn(lines[k], j))
    <3>1. FieldIn(lines[k], j) = Wrote(file, lines[k], j)
      BY <2>1, RowIs DEF Wrote, FieldIn
    <3>2. Wrote(file, lines[k], j) \in Written
      BY <2>1, WroteWritten
    <3>3. columns[j][k] = Cell(types[j], Wrote(file, lines[k], j))
      BY <2>1 DEF Filled
    <3> QED  BY <3>1, <3>2, <3>3
  <2>5. types[j] \in ColumnType /\ types[j] # "U"
    BY <2>1 DEF Filled
  <2>6. ASSUME NEW k \in Seen
        PROVE  Admits(types[j], FieldIn(lines[k], j))
    <3>1. k \in 1 .. Len(lines) /\ k <= GuessLines
      BY GuessLinesAssumption, <2>1 DEF Seen
    <3>2. k \in 1 .. Len(q[m].lines) /\ lines[k] = q[m].lines[k]
      BY <2>2, <2>3, <3>1, GuessLinesAssumption, SameLines
    <3>3. Admits(types[j], Wrote(file, lines[k], j))
      BY <2>3, <3>2 DEF Fits
    <3> QED  BY <2>4, <3>1, <3>3
  <2>7. ASSUME NEW i \in 1 .. Len(lines)
        PROVE  May(i, j)
    <3> SUFFICES ASSUME columns[j][i] # FieldIn(lines[i], j), i \in Seen
                 PROVE  /\ columns[j][i] = Lost /\ Mistaken(FieldIn(lines[i], j))
                        /\ \A k \in Seen : LET v == FieldIn(lines[k], j)
                                            IN v.kind = "text" => v.has # {}
      <4>1. CASE columns[j][i] = FieldIn(lines[i], j)
        BY <4>1
      <4>2. CASE columns[j][i] # FieldIn(lines[i], j) /\ i \notin Seen
        BY <2>4, <2>5, <4>2, CellKeeps
      <4>3. CASE columns[j][i] # FieldIn(lines[i], j) /\ i \in Seen
        BY <4>3 DEF Mistaken
      <4> QED  BY <4>1, <4>2, <4>3
    <3>1. columns[j][i] = Lost /\ Mistaken(FieldIn(lines[i], j)) /\ types[j] # "S"
      BY <2>4, <2>5, <2>6, CellKeeps
    <3>2. ASSUME NEW k \in Seen, FieldIn(lines[k], j).kind = "text"
          PROVE  FieldIn(lines[k], j).has # {}
      <4>1. k \in 1 .. Len(lines)
        BY DEF Seen
      <4> QED  BY <2>4, <2>5, <2>6, <3>1, <3>2, <4>1, TextsInStrings
    <3> QED  BY <3>1, <3>2
  <2> QED  BY <2>1, <2>7 DEF Filled
<1> QED  BY <1>1, ParserAlways, PTL
=============================================================================
