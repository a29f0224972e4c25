------------------------ MODULE RegistrationProofs ------------------------
(***************************************************************************)
(* Proofs about Registration, for any set of clients and any interleaving  *)
(* and crashes.  The invariant is RegInv: the order of the directory is    *)
(* the order of registration, a connection between two clients is made by  *)
(* the one that registered later, and every message in flight and every    *)
(* entry still to be processed agrees with that.                           *)
(***************************************************************************)
EXTENDS Registration, TLAPS, SequenceTheorems

Listed(n) == \E i \in 1 .. Len(directory_) : directory_[i] = n

Before(x, y) ==
  \E i, j \in 1 .. Len(directory_) : i < j /\ directory_[i] = x /\ directory_[j] = y

ListedOnce ==
  \A i, j \in 1 .. Len(directory_) : directory_[i] = directory_[j] => i = j

Unregistered(n) ==
  stage[n] = "bound" => ~Listed(n) /\ \A m \in Node : <<n, m>> \notin conn

(* A connection was made by a client, to the server or to a client that    *)
(* registered earlier.                                                     *)
ConnectionOK(x, y) == <<x, y>> \in conn => x \in Client /\ (y = Server \/ Before(y, x))

RegisterOK(c, n, msg) ==
  /\ c \in conn
  /\ n = c[2]
  /\ msg = Register(c[1])
  /\ n = Server => ~Listed(c[1])

DirectoryOK(c, n, msg) ==
  /\ c \in conn
  /\ c = <<n, Server>>
  /\ msg.kind = "Directory"
  /\ \A j \in 1 .. Len(msg.clients) : msg.clients[j] = n \/ Before(msg.clients[j], n)

WireOK(c, n) ==
  \A i \in 1 .. Len(wire[c][n]) :
    RegisterOK(c, n, wire[c][n][i]) \/ DirectoryOK(c, n, wire[c][n][i])

(* A client is registered by one message.                                  *)
OneRegister(n) == Len(wire[<<n, Server>>][Server]) <= 1

TodoOK(n) ==
  \A j \in 1 .. Len(todo[n]) : todo[n][j] = n \/ Before(todo[n][j], n)

SocketOK(x, y) == nodes_[x][y] # None => nodes_[x][y] \in conn \cap {<<x, y>>, <<y, x>>}

RegInv ==
  /\ TypeOK
  /\ ListedOnce
  /\ \A n \in Node : Unregistered(n) /\ OneRegister(n) /\ TodoOK(n)
  /\ \A x, y \in Node : ConnectionOK(x, y) /\ SocketOK(x, y)
  /\ \A c \in Conn, n \in Node : WireOK(c, n)

-----------------------------------------------------------------------------
LEMMA RegInit == Init => RegInv
<1> SUFFICES ASSUME Init PROVE RegInv
  OBVIOUS
<1>1. TypeOK
  BY NodesAssumption DEF Init, TypeOK, Conn
<1>2. ListedOnce
  BY DEF Init, ListedOnce
<1>3. ASSUME NEW n \in Node PROVE Unregistered(n) /\ OneRegister(n) /\ TodoOK(n)
  BY NodesAssumption DEF Init, Unregistered, Listed, OneRegister, TodoOK, Conn
<1>4. ASSUME NEW x \in Node, NEW y \in Node PROVE ConnectionOK(x, y) /\ SocketOK(x, y)
  BY DEF Init, ConnectionOK, SocketOK
<1>5. ASSUME NEW c \in Conn, NEW n \in Node PROVE WireOK(c, n)
  BY DEF Init, WireOK
<1> QED
  BY <1>1, <1>2, <1>3, <1>4, <1>5 DEF RegInv

(* The invariant does not speak of alive, backlog, num_nodes and master_.  *)
LEMMA RegFrame ==
  ASSUME RegInv, TypeOK',
         UNCHANGED <<stage, conn, wire, nodes_, directory_, todo>>
  PROVE  RegInv'
<1>1. ListedOnce'
  BY DEF RegInv, ListedOnce
<1>2. \A n \in Node : Unregistered(n)' /\ OneRegister(n)' /\ TodoOK(n)'
  BY DEF RegInv, Unregistered, Listed, OneRegister, TodoOK, Before
<1>3. ASSUME NEW x \in Node, NEW y \in Node PROVE ConnectionOK(x, y)' /\ SocketOK(x, y)'
  <2>1. ConnectionOK(x, y) /\ SocketOK(x, y)
    BY DEF RegInv
  <2>2. ConnectionOK(x, y)'
    BY <2>1 DEF ConnectionOK, Before
  <2>3. SocketOK(x, y)'
    BY <2>1 DEF SocketOK
  <2> QED
    BY <2>2, <2>3
<1>4. \A c \in Conn, n \in Node : WireOK(c, n)'
  BY DEF RegInv, WireOK, RegisterOK, DirectoryOK, Listed, Before
<1> QED
  BY <1>1, <1>2, <1>3, <1>4 DEF RegInv

LEMMA CloseStep ==
  ASSUME RegInv, NEW n \in Node, Close(n)
  PROVE  RegInv'
<1>1. TypeOK'
  BY DEF RegInv, Close, TypeOK
<1> QED
  BY <1>1, RegFrame DEF Close

LEMMA ListenStep ==
  ASSUME RegInv, NEW n \in Node, Listen(n)
  PROVE  RegInv'
<1>1. TypeOK'
  <2>1. stage' \in [Node -> {"bound", "registered", "listening"}]
    BY DEF RegInv, Listen, TypeOK
  <2>2. master_' \in [Node -> SUBSET Conn]
    BY NodesAssumption DEF RegInv, Listen, TypeOK, Conn
  <2> QED
    BY <2>1, <2>2 DEF RegInv, Listen, TypeOK
<1>2. ListedOnce'
  BY DEF RegInv, ListedOnce, Listen
<1>3. ASSUME NEW m \in Node PROVE Unregistered(m)' /\ OneRegister(m)' /\ TodoOK(m)'
  <2>1. stage'[m] = "bound" => stage[m] = "bound"
    BY DEF RegInv, Listen, TypeOK
  <2> QED
    BY <2>1 DEF RegInv, Unregistered, Listed, OneRegister, TodoOK, Before, Listen
<1>4. ASSUME NEW x \in Node, NEW y \in Node PROVE ConnectionOK(x, y)' /\ SocketOK(x, y)'
  <2>1. ConnectionOK(x, y) /\ SocketOK(x, y)
    BY DEF RegInv
  <2>2. ConnectionOK(x, y)'
    BY <2>1 DEF ConnectionOK, Before, Listen
  <2>3. SocketOK(x, y)'
    BY <2>1 DEF SocketOK, Listen
  <2> QED
    BY <2>2, <2>3
<1>5. \A c \in Conn, m \in Node : WireOK(c, m)'
  BY DEF RegInv, WireOK, RegisterOK, DirectoryOK, Listed, Before, Listen
<1> QED
  BY <1>1, <1>2, <1>3, <1>4, <1>5 DEF RegInv

LEMMA AcceptStep ==
  ASSUME RegInv, NEW n \in Node, Accept(n)
  PROVE  RegInv'
<1>1. TypeOK'
  <2>1. backlog[n] \in Seq(Conn) /\ backlog[n] # <<>>
    BY DEF RegInv, TypeOK, Accept
  <2>2. Head(backlog[n]) \in Conn /\ Tail(backlog[n]) \in Seq(Conn)
    BY <2>1
  <2>3. backlog' \in [Node -> Seq(Conn)]
    BY <2>2 DEF RegInv, TypeOK, Accept
  <2>4. master_' \in [Node -> SUBSET Conn]
    BY <2>2 DEF RegInv, TypeOK, Accept
  <2>5. num_nodes' \in [Node -> Nat]
    BY DEF RegInv, TypeOK, Accept
  <2> QED
    BY <2>3, <2>4, <2>5 DEF RegInv, TypeOK, Accept
<1> QED
  BY <1>1, RegFrame DEF Accept

-----------------------------------------------------------------------------
(* A connection is made.  ConnectTo is the only step that adds to conn.    *)

LEMMA ConnectToTypes ==
  ASSUME RegInv, NEW n \in Client, NEW m \in Node, ConnectTo(n, m)
  PROVE  /\ conn' \subseteq Conn
         /\ backlog' \in [Node -> Seq(Conn)]
         /\ wire' \in [Conn -> [Node -> Seq(Message)]]
         /\ nodes_' \in [Node -> [Node -> Conn \cup {None}]]
<1>1. <<n, m>> \in Conn /\ n \in Node
  BY DEF Conn, Client
<1>2. Register(n) \in Message
  BY DEF Register, Message
<1>3. conn' \subseteq Conn
  BY <1>1 DEF RegInv, TypeOK, ConnectTo
<1>4. backlog' \in [Node -> Seq(Conn)]
  <2>1. Append(backlog[m], <<n, m>>) \in Seq(Conn)
    BY <1>1 DEF RegInv, TypeOK
  <2> QED
    BY <2>1 DEF RegInv, TypeOK, ConnectTo
<1>5. wire' \in [Conn -> [Node -> Seq(Message)]]
  <2>1. Append(wire[<<n, m>>][m], Register(n)) \in Seq(Message)
    BY <1>1, <1>2 DEF RegInv, TypeOK
  <2> QED
    BY <1>1, <2>1 DEF RegInv, TypeOK, ConnectTo
<1>6. nodes_' \in [Node -> [Node -> Conn \cup {None}]]
  BY <1>1 DEF RegInv, TypeOK, ConnectTo
<1> QED
  BY <1>3, <1>4, <1>5, <1>6

LEMMA ConnectToWire ==
  ASSUME RegInv, NEW n \in Client, NEW m \in Node, ConnectTo(n, m),
         UNCHANGED directory_,
         m = Server => ~Listed(n),
         NEW c \in Conn, NEW k \in Node
  PROVE  WireOK(c, k)'
<1>1. WireOK(c, k)
  BY DEF RegInv
<1>2. <<n, m>> \in Conn
  BY DEF Conn, Client
<1>3. ASSUME NEW msg, RegisterOK(c, k, msg) PROVE RegisterOK(c, k, msg)'
  BY <1>3 DEF RegisterOK, Listed, ConnectTo
<1>4. ASSUME NEW msg, DirectoryOK(c, k, msg) PROVE DirectoryOK(c, k, msg)'
  BY <1>4 DEF DirectoryOK, Before, ConnectTo
<1>5. CASE c = <<n, m>> /\ k = m
  <2> DEFINE old == wire[c][k]
  <2>1. old \in Seq(Message)
    BY DEF RegInv, TypeOK
  <2>2. wire'[c][k] = Append(old, Register(n))
    BY <1>2, <1>5 DEF RegInv, TypeOK, ConnectTo
  <2>3. RegisterOK(c, k, Register(n))'
    BY <1>5 DEF RegisterOK, ConnectTo, Listed
  <2>4. ASSUME NEW i \in 1 .. Len(wire'[c][k])
        PROVE  RegisterOK(c, k, wire[c][k][i])' \/ DirectoryOK(c, k, wire[c][k][i])'
    <3>1. CASE i \in 1 .. Len(old)
      <4>1. wire'[c][k][i] = old[i]
        BY <2>1, <2>2, <3>1
      <4> QED
        BY <1>1, <1>3, <1>4, <3>1, <4>1 DEF WireOK
    <3>2. CASE i = Len(old) + 1
      <4>1. wire'[c][k][i] = Register(n)
        BY <2>1, <2>2, <3>2
      <4> QED
        BY <2>3, <4>1
    <3> QED
      BY <2>1, <2>2, <2>4, <3>1, <3>2
  <2> QED
    BY <2>4 DEF WireOK
<1>6. CASE ~(c = <<n, m>> /\ k = m)
  <2>1. wire'[c][k] = wire[c][k]
    BY <1>2, <1>6 DEF RegInv, TypeOK, ConnectTo
  <2> QED
    BY <1>1, <1>3, <1>4, <2>1 DEF WireOK
<1> QED
  BY <1>5, <1>6

LEMMA ConnectToPairs ==
  ASSUME RegInv, NEW n \in Client, NEW m \in Node, ConnectTo(n, m),
         UNCHANGED directory_,
         m = Server \/ Before(m, n),
         NEW x \in Node, NEW y \in Node
  PROVE  ConnectionOK(x, y)' /\ SocketOK(x, y)'
<1>1. ConnectionOK(x, y) /\ SocketOK(x, y)
  BY DEF RegInv
<1>2. ConnectionOK(x, y)'
  <2>1. CASE x = n /\ y = m
    BY <2>1 DEF ConnectionOK, Before
  <2>2. CASE ~(x = n /\ y = m)
    BY <1>1, <2>2 DEF ConnectionOK, Before, ConnectTo
  <2> QED
    BY <2>1, <2>2
<1>3. SocketOK(x, y)'
  <2>1. CASE x = n /\ y = m
    <3>1. nodes_'[x][y] = <<x, y>>
      BY <2>1 DEF RegInv, TypeOK, ConnectTo
    <3> QED
      BY <2>1, <3>1 DEF SocketOK, ConnectTo
  <2>2. CASE ~(x = n /\ y = m)
    <3>1. nodes_'[x][y] = nodes_[x][y]
      BY <2>2 DEF RegInv, TypeOK, ConnectTo
    <3> QED
      BY <1>1, <3>1 DEF SocketOK, ConnectTo
  <2> QED
    BY <2>1, <2>2
<1> QED
  BY <1>2, <1>3

(* A client that is not registered has nothing on its way to the server.   *)
LEMMA NothingSentYet ==
  ASSUME RegInv, NEW n \in Client, stage[n] = "bound"
  PROVE  wire[<<n, Server>>][Server] = <<>> /\ ~Listed(n)
<1>1. <<n, Server>> \in Conn /\ n \in Node /\ Server \in Node
  BY NodesAssumption DEF Conn, Client
<1>2. WireOK(<<n, Server>>, Server) /\ Unregistered(n)
  BY <1>1 DEF RegInv
<1>3. wire[<<n, Server>>][Server] \in Seq(Message)
  BY <1>1 DEF RegInv, TypeOK
<1>4. <<n, Server>> \notin conn
  BY <1>1, <1>2 DEF Unregistered
<1>5. Len(wire[<<n, Server>>][Server]) = 0
  BY <1>2, <1>3, <1>4 DEF WireOK, RegisterOK, DirectoryOK
<1> QED
  BY <1>2, <1>3, <1>5 DEF Unregistered

LEMMA RegisterWithServerStep ==
  ASSUME RegInv, NEW n \in Node, RegisterWithServer(n)
  PROVE  RegInv'
<1>1. n \in Client /\ stage[n] = "bound" /\ ConnectTo(n, Server) /\ UNCHANGED directory_
  BY DEF RegisterWithServer
<1>2. Server \in Node /\ <<n, Server>> \in Conn
  BY NodesAssumption DEF Conn
<1>3. wire[<<n, Server>>][Server] = <<>> /\ ~Listed(n)
  BY <1>1, NothingSentYet
<1>4. TypeOK'
  <2>1. stage' \in [Node -> {"bound", "registered", "listening"}]
    BY DEF RegInv, TypeOK, RegisterWithServer
  <2> QED
    BY <1>1, <1>2, <2>1, ConnectToTypes DEF RegInv, TypeOK, RegisterWithServer
<1>5. ListedOnce'
  BY <1>1 DEF RegInv, ListedOnce
<1>6. ASSUME NEW m \in Node PROVE Unregistered(m)' /\ OneRegister(m)' /\ TodoOK(m)'
  <2>1. Unregistered(m) /\ OneRegister(m) /\ TodoOK(m)
    BY DEF RegInv
  <2>2. Unregistered(m)'
    <3>1. stage'[m] = IF m = n THEN "registered" ELSE stage[m]
      BY DEF RegInv, TypeOK, RegisterWithServer
    <3> QED
      BY <2>1, <3>1 DEF Unregistered, Listed, RegisterWithServer, ConnectTo
  <2>3. OneRegister(m)'
    <3>1. <<m, Server>> \in Conn
      BY <1>2 DEF Conn
    <3>2. CASE m = n
      <4>1. wire'[<<n, Server>>][Server] = Append(<<>>, Register(n))
        BY <1>1, <1>2, <1>3 DEF RegInv, TypeOK, ConnectTo
      <4> QED
        BY <3>2, <4>1 DEF OneRegister
    <3>3. CASE m # n
      <4>1. wire'[<<m, Server>>][Server] = wire[<<m, Server>>][Server]
        BY <1>1, <1>2, <3>1, <3>3 DEF RegInv, TypeOK, ConnectTo
      <4> QED
        BY <2>1, <4>1 DEF OneRegister
    <3> QED
      BY <3>2, <3>3
  <2>4. TodoOK(m)'
    BY <2>1 DEF TodoOK, Before, RegisterWithServer
  <2> QED
    BY <2>2, <2>3, <2>4
<1>7. \A x, y \in Node : ConnectionOK(x, y)' /\ SocketOK(x, y)'
  BY <1>1, <1>2, ConnectToPairs
<1>8. \A c \in Conn, k \in Node : WireOK(c, k)'
  BY <1>1, <1>2, <1>3, ConnectToWire
<1> QED
  BY <1>4, <1>5, <1>6, <1>7, <1>8 DEF RegInv

LEMMA ConnectToClientStep ==
  ASSUME RegInv, NEW n \in Node, ConnectToClient(n)
  PROVE  RegInv'
<1> DEFINE m == Head(todo[n])
<1>1. todo[n] \in Seq(Client) /\ todo[n] # <<>> /\ m # n /\ ConnectTo(n, m)
  BY DEF RegInv, TypeOK, ConnectToClient
<1>2. /\ m = todo[n][1] /\ m \in Client /\ Tail(todo[n]) \in Seq(Client)
      /\ Len(todo[n]) >= 1
  BY <1>1
<1>3. Before(m, n)
  BY <1>1, <1>2 DEF RegInv, TodoOK
<1>4. n \in Client
  BY <1>3 DEF Before, RegInv, TypeOK
<1>5. m \in Node /\ m # Server /\ <<n, m>> \in Conn
  BY <1>2 DEF Client, Conn
<1>6. UNCHANGED directory_ /\ UNCHANGED stage
  BY DEF ConnectToClient
<1>7. TypeOK'
  <2>1. master_' \in [Node -> SUBSET Conn]
    BY <1>5 DEF RegInv, TypeOK, ConnectToClient
  <2>2. todo' \in [Node -> Seq(Client)]
    BY <1>2 DEF RegInv, TypeOK, ConnectToClient
  <2>3. /\ conn' \subseteq Conn
        /\ backlog' \in [Node -> Seq(Conn)]
        /\ wire' \in [Conn -> [Node -> Seq(Message)]]
        /\ nodes_' \in [Node -> [Node -> Conn \cup {None}]]
    BY <1>1, <1>4, <1>5, ConnectToTypes
  <2> QED
    BY <2>1, <2>2, <2>3 DEF RegInv, TypeOK, ConnectToClient
<1>8. ListedOnce'
  BY <1>6 DEF RegInv, ListedOnce
<1>9. ASSUME NEW k \in Node PROVE Unregistered(k)' /\ OneRegister(k)' /\ TodoOK(k)'
  <2>1. Unregistered(k) /\ OneRegister(k) /\ TodoOK(k)
    BY DEF RegInv
  <2>2. Unregistered(k)'
    <3>1. stage[n] = "listening"
      BY DEF ConnectToClient, Accepting
    <3> QED
      BY <1>1, <1>6, <2>1, <3>1 DEF Unregistered, Listed, ConnectTo
  <2>3. OneRegister(k)'
    <3>1. Server \in Node /\ <<k, Server>> \in Conn
      BY NodesAssumption DEF Conn
    <3>2. wire'[<<k, Server>>][Server] = wire[<<k, Server>>][Server]
      BY <1>1, <1>5, <3>1 DEF RegInv, TypeOK, ConnectTo
    <3> QED
      BY <2>1, <3>2 DEF OneRegister
  <2>4. TodoOK(k)'
    <3>1. CASE k = n
      <4>1. todo'[n] = Tail(todo[n])
        BY DEF RegInv, TypeOK, ConnectToClient
      <4>2. \A j \in 1 .. Len(Tail(todo[n])) :
              j + 1 \in 1 .. Len(todo[n]) /\ Tail(todo[n])[j] = todo[n][j + 1]
        BY <1>1
      <4> QED
        BY <1>6, <2>1, <3>1, <4>1, <4>2 DEF TodoOK, Before
    <3>2. CASE k # n
      <4>1. todo'[k] = todo[k]
        BY <3>2 DEF RegInv, TypeOK, ConnectToClient
      <4> QED
        BY <1>6, <2>1, <4>1 DEF TodoOK, Before
    <3> QED
      BY <3>1, <3>2
  <2> QED
    BY <2>2, <2>3, <2>4
<1>10. \A x, y \in Node : ConnectionOK(x, y)' /\ SocketOK(x, y)'
  BY <1>1, <1>3, <1>4, <1>5, <1>6, ConnectToPairs
<1>11. \A c \in Conn, k \in Node : WireOK(c, k)'
  BY <1>1, <1>4, <1>5, <1>6, ConnectToWire
<1> QED
  BY <1>7, <1>8, <1>9, <1>10, <1>11 DEF RegInv

-----------------------------------------------------------------------------
(* A message is received.                                                  *)

LEMMA ReceivedMessage ==
  ASSUME RegInv, NEW n \in Node, NEW c \in Conn, NEW msg, Receives(n, c, msg)
  PROVE  /\ wire[c][n] \in Seq(Message)
         /\ msg \in Message
         /\ Tail(wire[c][n]) \in Seq(Message)
         /\ Len(Tail(wire[c][n])) = Len(wire[c][n]) - 1
         /\ Len(wire[c][n]) >= 1
         /\ \A j \in 1 .. Len(Tail(wire[c][n])) :
              j + 1 \in 1 .. Len(wire[c][n]) /\ Tail(wire[c][n])[j] = wire[c][n][j + 1]
         /\ RegisterOK(c, n, msg) \/ DirectoryOK(c, n, msg)
<1>1. wire[c][n] \in Seq(Message) /\ wire[c][n] # <<>> /\ msg = Head(wire[c][n])
  BY DEF RegInv, TypeOK, Receives
<1>2. /\ msg = wire[c][n][1] /\ 1 \in 1 .. Len(wire[c][n])
      /\ msg \in Message
      /\ Tail(wire[c][n]) \in Seq(Message)
      /\ Len(Tail(wire[c][n])) = Len(wire[c][n]) - 1
      /\ Len(wire[c][n]) >= 1
  BY <1>1
<1>3. \A j \in 1 .. Len(Tail(wire[c][n])) :
        j + 1 \in 1 .. Len(wire[c][n]) /\ Tail(wire[c][n])[j] = wire[c][n][j + 1]
  BY <1>1
<1>4. WireOK(c, n)
  BY DEF RegInv
<1>5. RegisterOK(c, n, msg) \/ DirectoryOK(c, n, msg)
  BY <1>2, <1>4 DEF WireOK
<1> QED
  BY <1>1, <1>2, <1>3, <1>5

(* Taking a message off the wire leaves the rest of it in order.           *)
LEMMA TailWire ==
  ASSUME RegInv, NEW n \in Node, NEW c \in Conn, NEW msg, Receives(n, c, msg),
         wire' = [wire EXCEPT ![c][n] = Tail(@)],
         UNCHANGED <<conn, directory_>>,
         NEW d \in Conn, NEW k \in Node
  PROVE  WireOK(d, k)' /\ Len(wire'[d][k]) <= Len(wire[d][k])
<1>1. WireOK(d, k)
  BY DEF RegInv
<1>2. ASSUME NEW m, RegisterOK(d, k, m) PROVE RegisterOK(d, k, m)'
  BY <1>2 DEF RegisterOK, Listed
<1>3. ASSUME NEW m, DirectoryOK(d, k, m) PROVE DirectoryOK(d, k, m)'
  BY <1>3 DEF DirectoryOK, Before
<1>4. CASE d = c /\ k = n
  <2>1. wire'[d][k] = Tail(wire[d][k])
    BY <1>4 DEF RegInv, TypeOK
  <2>2. /\ wire[d][k] \in Seq(Message)
        /\ Len(Tail(wire[d][k])) = Len(wire[d][k]) - 1
        /\ \A j \in 1 .. Len(Tail(wire[d][k])) :
             j + 1 \in 1 .. Len(wire[d][k]) /\ Tail(wire[d][k])[j] = wire[d][k][j + 1]
    BY <1>4, ReceivedMessage
  <2>3. ASSUME NEW j \in 1 .. Len(wire'[d][k])
        PROVE  RegisterOK(d, k, wire[d][k][j])' \/ DirectoryOK(d, k, wire[d][k][j])'
    <3>1. j + 1 \in 1 .. Len(wire[d][k]) /\ wire'[d][k][j] = wire[d][k][j + 1]
      BY <2>1, <2>2, <2>3
    <3> QED
      BY <1>1, <1>2, <1>3, <3>1 DEF WireOK
  <2>4. Len(wire'[d][k]) <= Len(wire[d][k])
    BY <2>1, <2>2
  <2> QED
    BY <2>3, <2>4 DEF WireOK
<1>5. CASE ~(d = c /\ k = n)
  <2>1. wire'[d][k] = wire[d][k]
    BY <1>5 DEF RegInv, TypeOK
  <2>2. wire[d][k] \in Seq(Message)
    BY DEF RegInv, TypeOK
  <2>3. Len(wire'[d][k]) <= Len(wire[d][k])
    BY <2>1, <2>2
  <2>4. WireOK(d, k)'
    BY <1>1, <1>2, <1>3, <2>1 DEF WireOK
  <2> QED
    BY <2>3, <2>4
<1> QED
  BY <1>4, <1>5

LEMMA TailTypes ==
  ASSUME RegInv, NEW n \in Node, NEW c \in Conn, NEW msg, Receives(n, c, msg),
         wire' = [wire EXCEPT ![c][n] = Tail(@)]
  PROVE  wire' \in [Conn -> [Node -> Seq(Message)]]
<1>1. Tail(wire[c][n]) \in Seq(Message)
  BY ReceivedMessage
<1> QED
  BY <1>1 DEF RegInv, TypeOK

LEMMA ClientReceivesRegisterStep ==
  ASSUME RegInv, NEW n \in Node, NEW c \in Conn, NEW m \in Node,
         ClientReceivesRegister(n, c, m)
  PROVE  RegInv'
<1>1. /\ n \in Client
      /\ Receives(n, c, Register(m))
      /\ wire' = [wire EXCEPT ![c][n] = Tail(@)]
      /\ UNCHANGED <<conn, directory_>>
  BY DEF ClientReceivesRegister
<1>2. RegisterOK(c, n, Register(m)) \/ DirectoryOK(c, n, Register(m))
  BY <1>1, ReceivedMessage
<1>3. c \in conn /\ n = c[2] /\ Register(m) = Register(c[1])
  BY <1>2 DEF RegisterOK, DirectoryOK, Register
<1>4. m = c[1]
  BY <1>3 DEF Register
<1>5. c = <<m, n>>
  BY <1>3, <1>4 DEF Conn
<1>6. TypeOK'
  <2>1. wire' \in [Conn -> [Node -> Seq(Message)]]
    BY <1>1, TailTypes
  <2>2. nodes_' \in [Node -> [Node -> Conn \cup {None}]]
    BY DEF RegInv, TypeOK, ClientReceivesRegister
  <2> QED
    BY <2>1, <2>2 DEF RegInv, TypeOK, ClientReceivesRegister
<1>7. ListedOnce'
  BY <1>1 DEF RegInv, ListedOnce
<1>8. ASSUME NEW k \in Node PROVE Unregistered(k)' /\ OneRegister(k)' /\ TodoOK(k)'
  <2>1. Unregistered(k) /\ OneRegister(k) /\ TodoOK(k)
    BY DEF RegInv
  <2>2. Unregistered(k)'
    BY <2>1 DEF Unregistered, Listed, ClientReceivesRegister
  <2>3. OneRegister(k)'
    <3>1. Server \in Node /\ <<k, Server>> \in Conn
      BY NodesAssumption DEF Conn
    <3>2. Len(wire'[<<k, Server>>][Server]) <= Len(wire[<<k, Server>>][Server])
      BY <1>1, <3>1, TailWire
    <3>4. wire[<<k, Server>>][Server] \in Seq(Message)
      BY <3>1 DEF RegInv, TypeOK
    <3>3. wire'[<<k, Server>>][Server] \in Seq(Message)
      BY <1>6, <3>1 DEF TypeOK
    <3> QED
      BY <2>1, <3>2, <3>3, <3>4 DEF OneRegister
  <2>4. TodoOK(k)'
    BY <2>1 DEF TodoOK, Before, ClientReceivesRegister
  <2> QED
    BY <2>2, <2>3, <2>4
<1>9. ASSUME NEW x \in Node, NEW y \in Node PROVE ConnectionOK(x, y)' /\ SocketOK(x, y)'
  <2>1. ConnectionOK(x, y) /\ SocketOK(x, y)
    BY DEF RegInv
  <2>2. ConnectionOK(x, y)'
    BY <1>1, <2>1 DEF ConnectionOK, Before
  <2>3. SocketOK(x, y)'
    <3>1. CASE x = n /\ y = m
      <4>1. nodes_'[x][y] = <<y, x>>
        BY <1>5, <3>1 DEF RegInv, TypeOK, ClientReceivesRegister
      <4> QED
        BY <1>1, <1>3, <1>5, <3>1, <4>1 DEF SocketOK
    <3>2. CASE ~(x = n /\ y = m)
      <4>1. nodes_'[x][y] = nodes_[x][y]
        BY <3>2 DEF RegInv, TypeOK, ClientReceivesRegister
      <4> QED
        BY <1>1, <2>1, <4>1 DEF SocketOK
    <3> QED
      BY <3>1, <3>2
  <2> QED
    BY <2>2, <2>3
<1>10. \A d \in Conn, k \in Node : WireOK(d, k)'
  BY <1>1, TailWire
<1> QED
  BY <1>6, <1>7, <1>8, <1>9, <1>10 DEF RegInv

LEMMA ReceiveDirectoryStep ==
  ASSUME RegInv, NEW n \in Node, NEW c \in Conn, ReceiveDirectory(n, c)
  PROVE  RegInv'
<1> DEFINE msg == Head(wire[c][n])
<1>1. /\ Receives(n, c, msg)
      /\ msg.kind = "Directory"
      /\ wire' = [wire EXCEPT ![c][n] = Tail(@)]
      /\ todo' = [todo EXCEPT ![n] = msg.clients]
      /\ UNCHANGED <<stage, conn, directory_, nodes_>>
  BY DEF ReceiveDirectory
<1>2. msg \in Message /\ (RegisterOK(c, n, msg) \/ DirectoryOK(c, n, msg))
  BY <1>1, ReceivedMessage
<1>3. msg.clients \in Seq(Client)
  BY <1>1, <1>2 DEF Message
<1>4. DirectoryOK(c, n, msg)
  BY <1>1, <1>2 DEF RegisterOK, Register
<1>5. TypeOK'
  <2>1. wire' \in [Conn -> [Node -> Seq(Message)]]
    BY <1>1, TailTypes
  <2>2. todo' \in [Node -> Seq(Client)]
    BY <1>1, <1>3 DEF RegInv, TypeOK
  <2> QED
    BY <2>1, <2>2 DEF RegInv, TypeOK, ReceiveDirectory
<1>6. ListedOnce'
  BY <1>1 DEF RegInv, ListedOnce
<1>7. ASSUME NEW k \in Node PROVE Unregistered(k)' /\ OneRegister(k)' /\ TodoOK(k)'
  <2>1. Unregistered(k) /\ OneRegister(k) /\ TodoOK(k)
    BY DEF RegInv
  <2>2. Unregistered(k)'
    BY <1>1, <2>1 DEF Unregistered, Listed
  <2>3. OneRegister(k)'
    <3>1. Server \in Node /\ <<k, Server>> \in Conn
      BY NodesAssumption DEF Conn
    <3>2. Len(wire'[<<k, Server>>][Server]) <= Len(wire[<<k, Server>>][Server])
      BY <1>1, <3>1, TailWire
    <3>4. wire[<<k, Server>>][Server] \in Seq(Message)
      BY <3>1 DEF RegInv, TypeOK
    <3>3. wire'[<<k, Server>>][Server] \in Seq(Message)
      BY <1>5, <3>1 DEF TypeOK
    <3> QED
      BY <2>1, <3>2, <3>3, <3>4 DEF OneRegister
  <2>4. TodoOK(k)'
    <3>1. CASE k = n
      <4>1. PICK entries \in Seq(Client) : entries = msg.clients
        BY <1>3
      <4>2. todo'[k] = entries
        BY <1>1, <3>1, <4>1 DEF RegInv, TypeOK
      <4>3. \A j \in 1 .. Len(entries) : entries[j] = n \/ Before(entries[j], n)
        BY <1>4, <4>1 DEF DirectoryOK
      <4>4. ASSUME NEW x, Before(x, n) PROVE Before(x, n)'
        BY <1>1, <4>4 DEF Before
      <4> QED
        BY <3>1, <4>2, <4>3, <4>4 DEF TodoOK
    <3>2. CASE k # n
      <4>1. todo'[k] = todo[k]
        BY <1>1, <3>2 DEF RegInv, TypeOK
      <4> QED
        BY <1>1, <2>1, <4>1 DEF TodoOK, Before
    <3> QED
      BY <3>1, <3>2
  <2> QED
    BY <2>2, <2>3, <2>4
<1>8. ASSUME NEW x \in Node, NEW y \in Node PROVE ConnectionOK(x, y)' /\ SocketOK(x, y)'
  <2>1. ConnectionOK(x, y) /\ SocketOK(x, y)
    BY DEF RegInv
  <2>2. ConnectionOK(x, y)'
    BY <1>1, <2>1 DEF ConnectionOK, Before
  <2>3. SocketOK(x, y)'
    BY <1>1, <2>1 DEF SocketOK
  <2> QED
    BY <2>2, <2>3
<1>9. \A d \in Conn, k \in Node : WireOK(d, k)'
  BY <1>1, TailWire
<1> QED
  BY <1>5, <1>6, <1>7, <1>8, <1>9 DEF RegInv

LEMMA SkipThisNodeStep ==
  ASSUME RegInv, NEW n \in Node, SkipThisNode(n)
  PROVE  RegInv'
<1>1. /\ todo[n] \in Seq(Client) /\ todo[n] # <<>>
      /\ todo' = [todo EXCEPT ![n] = Tail(@)]
      /\ UNCHANGED <<stage, conn, wire, nodes_, directory_>>
  BY DEF RegInv, TypeOK, SkipThisNode
<1>2. /\ Tail(todo[n]) \in Seq(Client)
      /\ \A j \in 1 .. Len(Tail(todo[n])) :
           j + 1 \in 1 .. Len(todo[n]) /\ Tail(todo[n])[j] = todo[n][j + 1]
  BY <1>1
<1>3. TypeOK'
  <2>1. todo' \in [Node -> Seq(Client)]
    BY <1>1, <1>2 DEF RegInv, TypeOK
  <2> QED
    BY <2>1 DEF RegInv, TypeOK, SkipThisNode
<1>4. ListedOnce'
  BY <1>1 DEF RegInv, ListedOnce
<1>5. ASSUME NEW k \in Node PROVE Unregistered(k)' /\ OneRegister(k)' /\ TodoOK(k)'
  <2>1. Unregistered(k) /\ OneRegister(k) /\ TodoOK(k)
    BY DEF RegInv
  <2>2. Unregistered(k)' /\ OneRegister(k)'
    BY <1>1, <2>1 DEF Unregistered, Listed, OneRegister
  <2>3. TodoOK(k)'
    <3>1. CASE k = n
      <4>1. todo'[k] = Tail(todo[n])
        BY <1>1, <3>1 DEF RegInv, TypeOK
      <4> QED
        BY <1>1, <1>2, <2>1, <3>1, <4>1 DEF TodoOK, Before
    <3>2. CASE k # n
      <4>1. todo'[k] = todo[k]
        BY <1>1, <3>2 DEF RegInv, TypeOK
      <4> QED
        BY <1>1, <2>1, <4>1 DEF TodoOK, Before
    <3> QED
      BY <3>1, <3>2
  <2> QED
    BY <2>2, <2>3
<1>6. ASSUME NEW x \in Node, NEW y \in Node PROVE ConnectionOK(x, y)' /\ SocketOK(x, y)'
  <2>1. ConnectionOK(x, y) /\ SocketOK(x, y)
    BY DEF RegInv
  <2>2. ConnectionOK(x, y)'
    BY <1>1, <2>1 DEF ConnectionOK, Before
  <2>3. SocketOK(x, y)'
    BY <1>1, <2>1 DEF SocketOK
  <2> QED
    BY <2>2, <2>3
<1>7. ASSUME NEW d \in Conn, NEW k \in Node PROVE WireOK(d, k)'
  <2>1. WireOK(d, k)
    BY DEF RegInv
  <2> QED
    BY <1>1, <2>1 DEF WireOK, RegisterOK, DirectoryOK, Listed, Before
<1> QED
  BY <1>3, <1>4, <1>5, <1>6, <1>7 DEF RegInv

(* The directory grows at its end, by a client that it does not hold.      *)
LEMMA DirectoryGrows ==
  ASSUME TypeOK, NEW m \in Client, directory_' = Append(directory_, m)
  PROVE  /\ directory_' \in Seq(Client)
         /\ \A x : Listed(x)' <=> Listed(x) \/ x = m
         /\ \A x, y : Before(x, y) => Before(x, y)'
         /\ \A j \in 1 .. Len(directory_') :
              (directory_[j] = m \/ Before(directory_[j], m))'
         /\ ListedOnce /\ ~Listed(m) => ListedOnce'
<1>1. /\ directory_ \in Seq(Client) /\ directory_' \in Seq(Client)
      /\ Len(directory_) \in Nat
      /\ Len(directory_') = Len(directory_) + 1
      /\ directory_'[Len(directory_) + 1] = m
      /\ \A j \in 1 .. Len(directory_) : directory_'[j] = directory_[j]
  BY DEF TypeOK
<1>2. ASSUME NEW x PROVE Listed(x)' <=> Listed(x) \/ x = m
  BY <1>1 DEF Listed
<1>3. ASSUME NEW x, NEW y, Before(x, y) PROVE Before(x, y)'
  BY <1>1, <1>3 DEF Before
<1>4. ASSUME NEW j \in 1 .. Len(directory_')
      PROVE  (directory_[j] = m \/ Before(directory_[j], m))'
  BY <1>1 DEF Before
<1>5. ASSUME ListedOnce, ~Listed(m) PROVE ListedOnce'
  BY <1>1, <1>5 DEF ListedOnce, Listed
<1> QED
  BY <1>1, <1>2, <1>3, <1>4, <1>5

LEMMA ServerReceivesRegisterStep ==
  ASSUME RegInv, NEW c \in Conn, NEW m \in Node, ServerReceivesRegister(c, m)
  PROVE  RegInv'
<1> DEFINE inc == wire[c][Server]
<1>1. /\ Receives(Server, c, Register(m))
      /\ directory_' = Append(directory_, m)
      /\ UNCHANGED <<stage, conn, todo>>
      /\ nodes_' = [nodes_ EXCEPT ![Server][m] = c]
  BY DEF ServerReceivesRegister
<1>2. Server \in Node
  BY NodesAssumption
<1>3. RegisterOK(c, Server, Register(m)) \/ DirectoryOK(c, Server, Register(m))
  BY <1>1, <1>2, ReceivedMessage
<1>4. c \in conn /\ Server = c[2] /\ Register(m) = Register(c[1]) /\ ~Listed(c[1])
  BY <1>3 DEF RegisterOK, DirectoryOK, Register
<1>5. m = c[1] /\ c = <<m, Server>>
  BY <1>4 DEF Register, Conn
<1>6. m \in Client /\ m # Server /\ ~Listed(m)
  BY <1>2, <1>4, <1>5 DEF RegInv, ConnectionOK, Client
<1>7. Peer(c, Server) = m
  BY <1>5, <1>6 DEF Peer
<1>8. wire' = [wire EXCEPT ![c][Server] = Tail(@),
                           ![c][m] = Append(@, Directory(directory_'))]
  BY <1>7 DEF ServerReceivesRegister
<1>9. TypeOK /\ ListedOnce
  BY DEF RegInv
<1>10. /\ directory_' \in Seq(Client)
       /\ \A x : Listed(x)' <=> Listed(x) \/ x = m
       /\ \A x, y : Before(x, y) => Before(x, y)'
       /\ \A j \in 1 .. Len(directory_') :
            (directory_[j] = m \/ Before(directory_[j], m))'
       /\ ListedOnce'
  BY <1>1, <1>6, <1>9, DirectoryGrows
<1>11. Directory(directory_') \in Message
  BY <1>10 DEF Directory, Message
<1>12. /\ inc \in Seq(Message) /\ Tail(inc) \in Seq(Message)
       /\ Len(Tail(inc)) = Len(inc) - 1
  BY <1>1, <1>2, ReceivedMessage
<1>13. Tail(inc) = <<>>
  BY <1>5, <1>12 DEF RegInv, OneRegister
<1>14. PICK dir \in Message : dir = Directory(directory_')
  BY <1>11
<1>15. wire' = [wire EXCEPT ![c][Server] = Tail(@), ![c][m] = Append(@, dir)]
  BY <1>8, <1>14
<1>16. wire \in [Conn -> [Node -> Seq(Message)]] /\ wire[c] \in [Node -> Seq(Message)]
  BY DEF RegInv, TypeOK
<1>17. PICK mid : mid = [wire EXCEPT ![c][Server] = Tail(@)]
  OBVIOUS
<1>18. /\ mid \in [Conn -> [Node -> Seq(Message)]]
       /\ mid[c][Server] = <<>>
       /\ \A k \in Node : k # Server => mid[c][k] = wire[c][k]
       /\ \A d \in Conn : d # c => mid[d] = wire[d]
  BY <1>2, <1>12, <1>13, <1>16, <1>17
<1>19. wire' = [mid EXCEPT ![c][m] = Append(@, dir)]
  BY <1>6, <1>15, <1>16, <1>17
<1>20. Append(mid[c][m], dir) \in Seq(Message)
  BY <1>18
<1>21. /\ wire' \in [Conn -> [Node -> Seq(Message)]]
       /\ wire'[c][Server] = <<>>
       /\ wire'[c][m] = Append(wire[c][m], Directory(directory_'))
       /\ \A k \in Node : k # Server /\ k # m => wire'[c][k] = wire[c][k]
       /\ \A d \in Conn : d # c => wire'[d] = wire[d]
  BY <1>2, <1>6, <1>14, <1>18, <1>19, <1>20
<1>22. TypeOK'
  <2>1. nodes_' \in [Node -> [Node -> Conn \cup {None}]]
    BY <1>1, <1>2 DEF RegInv, TypeOK
  <2> QED
    BY <1>10, <1>21, <2>1 DEF RegInv, TypeOK, ServerReceivesRegister
<1>23. ASSUME NEW k \in Node PROVE Unregistered(k)' /\ OneRegister(k)' /\ TodoOK(k)'
  <2>1. Unregistered(k) /\ OneRegister(k) /\ TodoOK(k)
    BY DEF RegInv
  <2>2. Unregistered(k)'
    <3>1. CASE k = m
      <4>1. stage[m] # "bound"
        BY <1>2, <1>4, <1>5, <2>1, <3>1 DEF Unregistered
      <4> QED
        BY <1>1, <3>1, <4>1 DEF Unregistered
    <3>2. CASE k # m
      BY <1>1, <1>10, <2>1, <3>2 DEF Unregistered
    <3> QED
      BY <3>1, <3>2
  <2>3. OneRegister(k)'
    <3>1. <<k, Server>> \in Conn
      BY <1>2 DEF Conn
    <3>2. CASE <<k, Server>> = c
      <4>1. wire'[<<k, Server>>][Server] = <<>>
        BY <1>21, <3>2
      <4>2. Len(wire'[<<k, Server>>][Server]) = 0
        BY <4>1
      <4> QED
        BY <4>2 DEF OneRegister
    <3>3. CASE <<k, Server>> # c
      BY <1>2, <1>21, <2>1, <3>1, <3>3 DEF OneRegister
    <3> QED
      BY <3>2, <3>3
  <2>4. TodoOK(k)'
    BY <1>1, <1>10, <2>1 DEF TodoOK
  <2> QED
    BY <2>2, <2>3, <2>4
<1>24. ASSUME NEW x \in Node, NEW y \in Node PROVE ConnectionOK(x, y)' /\ SocketOK(x, y)'
  <2>1. ConnectionOK(x, y) /\ SocketOK(x, y)
    BY DEF RegInv
  <2>2. ConnectionOK(x, y)'
    BY <1>1, <1>10, <2>1 DEF ConnectionOK
  <2>3. SocketOK(x, y)'
    <3>1. CASE x = Server /\ y = m
      <4>1. nodes_'[x][y] = c
        BY <1>1, <1>2, <3>1 DEF RegInv, TypeOK
      <4> QED
        BY <1>1, <1>4, <1>5, <3>1, <4>1 DEF SocketOK
    <3>2. CASE ~(x = Server /\ y = m)
      <4>1. nodes_'[x][y] = nodes_[x][y]
        BY <1>1, <3>2 DEF RegInv, TypeOK
      <4> QED
        BY <1>1, <2>1, <4>1 DEF SocketOK
    <3> QED
      BY <3>1, <3>2
  <2> QED
    BY <2>2, <2>3
<1>25. ASSUME NEW d \in Conn, NEW k \in Node PROVE WireOK(d, k)'
  <2>1. WireOK(d, k)
    BY DEF RegInv
  <2>2. ASSUME NEW msg, RegisterOK(d, k, msg), ~(d = c /\ k = Server)
        PROVE  RegisterOK(d, k, msg)'
    <3>1. k = d[2] /\ d \in conn /\ msg = Register(d[1]) /\ (k = Server => ~Listed(d[1]))
      BY <2>2 DEF RegisterOK
    <3>2. k = Server => d[1] # m
      <4>1. d = <<d[1], d[2]>>
        BY DEF Conn
      <4> QED
        BY <1>5, <2>2, <3>1, <4>1
    <3> QED
      BY <1>1, <1>10, <3>1, <3>2 DEF RegisterOK
  <2>3. ASSUME NEW msg, DirectoryOK(d, k, msg) PROVE DirectoryOK(d, k, msg)'
    BY <1>1, <1>10, <2>3 DEF DirectoryOK
  <2>4. CASE d = c /\ k = Server
    BY <1>21, <2>4 DEF WireOK
  <2>5. CASE d = c /\ k = m
    <3> DEFINE old == wire[c][m]
    <3>1. old \in Seq(Message) /\ wire'[d][k] = Append(old, Directory(directory_'))
      BY <1>16, <1>21, <2>5
    <3>2. DirectoryOK(c, m, Directory(directory_))'
      BY <1>1, <1>4, <1>5, <1>10 DEF DirectoryOK, Directory
    <3>3. ASSUME NEW i \in 1 .. Len(wire'[d][k])
          PROVE  RegisterOK(d, k, wire[d][k][i])' \/ DirectoryOK(d, k, wire[d][k][i])'
      <4>1. CASE i \in 1 .. Len(old)
        <5>1. wire'[d][k][i] = wire[d][k][i]
          BY <2>5, <3>1, <4>1
        <5> QED
          BY <1>6, <2>1, <2>2, <2>3, <2>5, <4>1, <5>1 DEF WireOK
      <4>2. CASE i = Len(old) + 1
        <5>1. wire'[d][k][i] = Directory(directory_')
          BY <3>1, <4>2
        <5> QED
          BY <2>5, <3>2, <5>1
      <4> QED
        BY <3>1, <4>1, <4>2
    <3> QED
      BY <3>3 DEF WireOK
  <2>6. CASE ~(d = c /\ k = Server) /\ ~(d = c /\ k = m)
    <3>1. wire'[d][k] = wire[d][k]
      BY <1>21, <2>6
    <3> QED
      BY <2>1, <2>2, <2>3, <2>6, <3>1 DEF WireOK
  <2> QED
    BY <2>4, <2>5, <2>6
<1> QED
  BY <1>10, <1>22, <1>23, <1>24, <1>25 DEF RegInv

-----------------------------------------------------------------------------
LEMMA RegNext == RegInv /\ [Next]_vars => RegInv'
<1> SUFFICES ASSUME RegInv, [Next]_vars PROVE RegInv'
  OBVIOUS
<1>1. \A n \in Node : master_[n] \subseteq Conn
  BY DEF RegInv, TypeOK
<1>2. ASSUME NEW n \in Node, RegisterWithServer(n) PROVE RegInv'
  BY <1>2, RegisterWithServerStep
<1>3. ASSUME NEW n \in Node, Listen(n) PROVE RegInv'
  BY <1>3, ListenStep
<1>4. ASSUME NEW n \in Node, Accept(n) PROVE RegInv'
  BY <1>4, AcceptStep
<1>5. ASSUME NEW n \in Node, NEW c \in master_[n], NEW m \in Node,
             n = Server, ServerReceivesRegister(c, m)
      PROVE  RegInv'
  BY <1>1, <1>5, ServerReceivesRegisterStep
<1>6. ASSUME NEW n \in Node, NEW c \in master_[n], NEW m \in Node,
             n = Server, SendDirectoryFails(c, m)
      PROVE  RegInv'
  BY <1>6, CloseStep DEF SendDirectoryFails
<1>7. ASSUME NEW n \in Node, NEW c \in master_[n], NEW m \in Node,
             ClientReceivesRegister(n, c, m)
      PROVE  RegInv'
  BY <1>1, <1>7, ClientReceivesRegisterStep
<1>8. ASSUME NEW n \in Node, NEW c \in master_[n], ReceiveDirectory(n, c) PROVE RegInv'
  BY <1>1, <1>8, ReceiveDirectoryStep
<1>9. ASSUME NEW n \in Node, NEW c \in master_[n], ReceiveEof(n, c) PROVE RegInv'
  BY <1>9, CloseStep DEF ReceiveEof
<1>10. ASSUME NEW n \in Node, SkipThisNode(n) PROVE RegInv'
  BY <1>10, SkipThisNodeStep
<1>11. ASSUME NEW n \in Node, ConnectToClient(n) PROVE RegInv'
  BY <1>11, ConnectToClientStep
<1>12. ASSUME NEW n \in Node, ConnectionRefused(n) PROVE RegInv'
  BY <1>12, CloseStep DEF ConnectionRefused
<1>13. ASSUME NEW n \in Node, Crash(n) PROVE RegInv'
  BY <1>13, CloseStep DEF Crash
<1>14. CASE UNCHANGED vars
  <2>1. TypeOK'
    BY <1>14 DEF RegInv, TypeOK, vars
  <2> QED
    BY <1>14, <2>1, RegFrame DEF vars
<1> QED
  BY <1>2, <1>3, <1>4, <1>5, <1>6, <1>7, <1>8, <1>9, <1>10, <1>11, <1>12, <1>13, <1>14
  DEF Next, StartStep, MonitorStep

(* The state of a network that registers has its type, the directory lists *)
(* each client once, and everything in flight follows its order.           *)
THEOREM RegCorrect == Spec => []RegInv
BY RegInit, RegNext, PTL DEF Spec

(* If both ends had connected, each would have registered before the other. *)
LEMMA OneMaker ==
  ASSUME RegInv, NEW x \in Node, NEW y \in Node, <<x, y>> \in conn
  PROVE  <<y, x>> \notin conn
<1>1. SUFFICES ASSUME <<y, x>> \in conn PROVE FALSE
  OBVIOUS
<1>2. ConnectionOK(x, y) /\ ConnectionOK(y, x) /\ ListedOnce
  BY DEF RegInv
<1>3. Before(x, y) /\ Before(y, x)
  BY <1>1, <1>2 DEF ConnectionOK, Client
<1>4. PICK i, j \in 1 .. Len(directory_) :
        i < j /\ directory_[i] = x /\ directory_[j] = y
  BY <1>3 DEF Before
<1>5. PICK k, l \in 1 .. Len(directory_) :
        k < l /\ directory_[k] = y /\ directory_[l] = x
  BY <1>3 DEF Before
<1>6. i = l /\ j = k
  BY <1>2, <1>4, <1>5 DEF ListedOnce
<1> QED
  BY <1>4, <1>5, <1>6

(* The state of every node, socket and connection has its type: the        *)
(* directory is a list of nodes, and nobody waits for more of them than    *)
(* there are (kvstore.h:206-295, 437-520).                                 *)
THEOREM RegTypeCorrect == Spec => []TypeOK
<1>1. RegInv => TypeOK
  BY DEF RegInv
<1> QED
  BY <1>1, RegCorrect, PTL

(* A pair of nodes never makes two connections: the order of the directory *)
(* decides which of the two connects (process_directory_, kvstore.h:455).  *)
THEOREM ConnectedOnce == Spec => []OneConnection
<1>1. RegInv => OneConnection
  BY OneMaker DEF OneConnection
<1> QED
  BY <1>1, RegCorrect, PTL

(* The sockets that two nodes keep for each other are the two ends of one  *)
(* connection, which is what KVStore takes for granted.                    *)
THEOREM SocketsCorrect == Spec => []SocketsAgree
<1>1. ASSUME RegInv PROVE SocketsAgree
  <2>1. ASSUME NEW x \in Node, NEW y \in Node, nodes_[x][y] # None
        PROVE  /\ nodes_[x][y] \in conn \cap {<<x, y>>, <<y, x>>}
               /\ nodes_[y][x] # None => nodes_[x][y] = nodes_[y][x]
    <3>1. SocketOK(x, y) /\ SocketOK(y, x)
      BY <1>1 DEF RegInv
    <3>2. nodes_[x][y] \in conn \cap {<<x, y>>, <<y, x>>}
      BY <2>1, <3>1 DEF SocketOK
    <3>3. nodes_[y][x] # None => nodes_[y][x] \in conn \cap {<<x, y>>, <<y, x>>}
      BY <3>1 DEF SocketOK
    <3>4. ~(<<x, y>> \in conn /\ <<y, x>> \in conn)
      BY <1>1, OneMaker
    <3> QED
      BY <3>2, <3>3, <3>4
  <2> QED
    BY <2>1 DEF SocketsAgree
<1> QED
  BY <1>1, RegCorrect, PTL
=============================================================================
