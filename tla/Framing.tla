------------------------------ MODULE Framing ------------------------------
(***************************************************************************)
(* How the monitor of a node cuts messages out of the bytes of its         *)
(* connections (kvstore.h:403-418).  A message is a text that ends with    *)
(* "\n" and is sent with its terminator, so its last two bytes are "\n"    *)
(* and NUL.  recv() returns any number of bytes, up to BUF_SIZE, of one    *)
(* connection; they are added to buff, which is shared by all connections, *)
(* and when the last but one of them is a newline the text in buff is      *)
(* taken for a message.                                                    *)
(*                                                                         *)
(* Bytes are positions in the stream of a connection, counted from 1, and  *)
(* a message is named by its connection and the position of its NUL.  No   *)
(* message has a newline inside.                                           *)
(***************************************************************************)
EXTENDS Integers, Sequences

CONSTANTS Conn,      \* the connections of the node
          BufSize,   \* BUF_SIZE
          Traffic    \* what may be sent: the positions of the NULs, for each
                     \* connection

ASSUME BufSizeAssumption == BufSize \in Nat \ {0}
ASSUME TrafficAssumption ==
  \A t \in Traffic : t = [c \in Conn |-> t[c]] /\ \A c \in Conn : t[c] \subseteq Nat \ {0}

VARIABLES traffic,   \* what is sent in this behaviour
          pos,       \* the bytes of a connection received so far
          buff,      \* the StrBuff, as pieces of connections
          handled,   \* the messages that were processed
          torn,      \* the bytes in buff are not those of one message
          alive      \* FALSE once the process has failed

frameVars == <<traffic, pos, buff, handled, torn, alive>>

End(c) == traffic[c]
Boundary(c) == End(c) \cup {0}

Message == UNION {{<<c, e>> : e \in End(c)} : c \in Conn}

FrameInit ==
  /\ traffic \in Traffic
  /\ pos = [c \in Conn |-> 0]
  /\ buff = <<>>
  /\ handled = {}
  /\ torn = FALSE
  /\ alive = TRUE

-----------------------------------------------------------------------------
(* The bytes after position from, up to position to.                       *)
Piece(c, from, to) == [conn |-> c, from |-> from, to |-> to]

(* buff.c(buffer_, nbytes)                                                 *)
Appended(b, c, from, to) ==
  IF b # <<>> /\ b[Len(b)].conn = c THEN [b EXCEPT ![Len(b)].to = to]
                                    ELSE Append(b, Piece(c, from, to))

(* A mistake: the last byte of a message is taken to be the newline.       *)
EndsAtNewline(c, n, to) == IF n = 0 THEN BOOLEAN ELSE {to + 1 \in End(c)}

(* The outcomes of buffer_[nbytes - 2] == '\n', where n = nbytes and to is *)
(* the position of the last byte.  The index is -1 when n is 1.            *)
EndsMessage(c, n, to) == IF n = 1 THEN BOOLEAN ELSE {to \in End(c)}

HasNul(p) == \E e \in End(p.conn) : p.from < e /\ e <= p.to
FirstNul(p) == CHOOSE e \in End(p.conn) : p.from < e /\ \A x \in End(p.conn) : p.from < x => e <= x

(* A mistake: the text starts where the last message that was added does.  *)
LastText(b) == <<b[Len(b)]>>

(* c_str() of buff, as it is read: up to the first NUL.                    *)
Text(b) ==
  LET i == CHOOSE x \in 1 .. Len(b) : HasNul(b[x]) /\ \A y \in 1 .. x - 1 : ~HasNul(b[y])
  IN IF \E x \in 1 .. Len(b) : HasNul(b[x])
     THEN Append(SubSeq(b, 1, i - 1), [b[i] EXCEPT !.to = FirstNul(b[i])])
     ELSE b

(* A mistake: any piece of one connection is taken for a message.          *)
IsOnePiece(t) == Len(t) = 1

IsWhole(t) == Len(t) = 1 /\ t[1].from \in Boundary(t[1].conn) /\ t[1].to \in End(t[1].conn)

(* Processing the text.  Of a text that is not a message some other        *)
(* message may be made, or an assertion of the Deserializer fails.         *)
Process(t) ==
  \/ /\ IsWhole(t)
     /\ handled' = handled \cup {<<t[1].conn, t[1].to>>}
     /\ alive' = alive
  \/ /\ ~IsWhole(t)
     /\ handled' = handled
     /\ alive' \in BOOLEAN

Quiet == buff = <<>> /\ \A c \in Conn : pos[c] \in Boundary(c)

(* A piece meets what is left in buff of another connection, or one byte   *)
(* that ends a message, or is taken to end one.                            *)
Tears(c, n, complete) ==
  \/ buff # <<>> /\ buff[Len(buff)].conn # c
  \/ n = 1 /\ (complete \/ pos[c] + 1 \in End(c))

(* recv() of n bytes, and the rest of the branch.                          *)
Recv(c, n) ==
  LET to == pos[c] + n
      b == Appended(buff, c, pos[c], to)
  IN /\ alive
     /\ \E e \in End(c) : to <= e
     /\ pos' = [pos EXCEPT ![c] = to]
     /\ \E complete \in EndsMessage(c, n, to) :
          /\ torn' = (Tears(c, n, complete) \/ (torn /\ ~Quiet))
          /\ \/ complete /\ buff' = <<>> /\ Process(Text(b))
             \/ ~complete /\ buff' = b /\ UNCHANGED <<handled, alive>>
     /\ UNCHANGED traffic

FrameNext == \E c \in Conn, n \in 1 .. BufSize : Recv(c, n)

FrameSpec == FrameInit /\ [][FrameNext]_frameVars /\ WF_frameVars(FrameNext)

-----------------------------------------------------------------------------
FrameTypeOK ==
  /\ traffic \in Traffic
  /\ pos \in [Conn -> Nat]
  /\ buff \in Seq([conn : Conn, from : Nat, to : Nat])
  /\ handled \subseteq Message
  /\ torn \in BOOLEAN
  /\ alive \in BOOLEAN

(* The messages of a connection that are not taken off it: those of which  *)
(* a byte has still to come, and those that wait in buff.                  *)
Start(c) == IF buff # <<>> /\ buff[1].conn = c THEN buff[1].from ELSE pos[c]
OnWire(c) == {e \in End(c) : e > Start(c)}

Intact == ~torn \/ Quiet

(* Unless pieces of two connections meet in buff or a piece of one byte    *)
(* ends a message, and again when all of that is over, the monitor takes   *)
(* whole messages off one connection at a time, processes the first of     *)
(* them and drops the others: the Receive of KVStore, in however many      *)
(* pieces they come (kvstore.h:405-418).                                   *)
TakesWholeMessages ==
  [][Intact /\ ~torn' =>
       \/ handled' = handled /\ \A c \in Conn : OnWire(c)' = OnWire(c)
       \/ \E c \in Conn : \E first, last \in OnWire(c) :
            /\ \A x \in OnWire(c) : first <= x
            /\ handled' = handled \cup {<<c, first>>}
            /\ OnWire(c)' = {x \in OnWire(c) : x > last}
            /\ \A d \in Conn \ {c} : OnWire(d)' = OnWire(d)]_frameVars

(* A message that has come is not left in the buffer until the next one    *)
(* comes: its sender waits for the answer (kvstore.h:112, 414).            *)
NothingLeftBehind ==
  <>[](~alive \/ torn \/ (buff = <<>> /\ \A c \in Conn : \A e \in End(c) : e <= pos[c]))
=============================================================================
