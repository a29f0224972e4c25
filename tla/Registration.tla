---------------------------- MODULE Registration ----------------------------
(***************************************************************************)
(* How the nodes of a KVStore find each other (kvstore.h: startup_, the    *)
(* accepting half of monitor_sockets_, process_register_,                  *)
(* process_directory_, connect_to_client_).                                *)
(*                                                                         *)
(* Clients know the address of the server only.  A client connects to it   *)
(* and sends a Register; the server adds the client to its directory and   *)
(* answers with the directory, and the client connects and sends a         *)
(* Register to every other client in it.  The main thread runs startup_,   *)
(* up to the step that starts the monitor thread; the monitor does the     *)
(* rest, and is the one that calls listen().                               *)
(***************************************************************************)
EXTENDS Naturals, Sequences, FiniteSets

CONSTANTS Node,      \* node indices
          Server,    \* the node of index 0
          Backlog,   \* BACKLOG
          MayCrash,  \* the nodes that may be killed from outside
          None       \* the fd -1

ASSUME NodesAssumption == Server \in Node /\ None \notin Node \X Node
ASSUME BacklogAssumption == IsFiniteSet(Node) /\ Cardinality(Node) <= Backlog
ASSUME MayCrashAssumption == MayCrash \subseteq Node

VARIABLES
  stage,       \* how far startup_ is: "bound", "registered", "listening"
  alive,       \* FALSE once the process has exited or closed its sockets
  conn,        \* the connections made: <<x, y>> was made by x
  backlog,     \* connections that a node has not accepted yet, oldest first
  wire,        \* wire[c][n]: sent to n over connection c and not received
  master_,     \* the connections a node's select() watches
  num_nodes,   \* the counter of monitor_sockets_
  nodes_,      \* nodes_[n][m]: the connection over which n sends to m
  directory_,  \* the server's directory, in the order of registration
  todo         \* entries of a Directory that are not processed yet

vars == <<stage, alive, conn, backlog, wire, master_, num_nodes, nodes_, directory_, todo>>

Client == Node \ {Server}
Conn == Node \X Node
Peer(c, n) == IF c[1] = n THEN c[2] ELSE c[1]

Register(n) == [kind |-> "Register", sender |-> n]

(* A mistake: the server lists itself, as the first node it knows.         *)
DirectoryWithServer(d) == [kind |-> "Directory", clients |-> <<Server>> \o d]

Directory(d) == [kind |-> "Directory", clients |-> d]
Message == [kind : {"Register"}, sender : Client]
             \cup [kind : {"Directory"}, clients : Seq(Client)]

Init ==
  /\ stage = [n \in Node |-> "bound"]
  /\ alive = [n \in Node |-> TRUE]
  /\ conn = {}
  /\ backlog = [n \in Node |-> <<>>]
  /\ wire = [c \in Conn |-> [n \in Node |-> <<>>]]
  /\ master_ = [n \in Node |-> {}]
  /\ num_nodes = [n \in Node |-> 1]
  /\ nodes_ = [n \in Node |-> [m \in Node |-> None]]
  /\ directory_ = <<>>
  /\ todo = [n \in Node |-> <<>>]

-----------------------------------------------------------------------------
(* exit(-1), shutdown() and a kill look alike from other nodes: the        *)
(* sockets are closed.                                                     *)
Close(n) ==
  /\ alive' = [alive EXCEPT ![n] = FALSE]
  /\ UNCHANGED <<stage, conn, backlog, wire, master_, num_nodes, nodes_, directory_, todo>>

Crash(n) == n \in MayCrash /\ alive[n] /\ Close(n)

(* connect() succeeds when the other side has called listen().             *)
Accepting(m) == alive[m] /\ stage[m] = "listening"

(* n connects to m, and the first thing it sends is a Register.            *)
ConnectTo(n, m) ==
  /\ conn' = conn \cup {<<n, m>>}
  /\ backlog' = [backlog EXCEPT ![m] = Append(@, <<n, m>>)]
  /\ wire' = [wire EXCEPT ![<<n, m>>][m] = Append(@, Register(n))]
  /\ nodes_' = [nodes_ EXCEPT ![n][m] = <<n, m>>]

(* startup_ of a client: connect() to the server is tried until it         *)
(* succeeds.                                                               *)
RegisterWithServer(n) ==
  /\ alive[n]
  /\ n \in Client
  /\ stage[n] = "bound"
  /\ Accepting(Server)
  /\ ConnectTo(n, Server)
  /\ stage' = [stage EXCEPT ![n] = "registered"]
  /\ UNCHANGED <<alive, master_, num_nodes, directory_, todo>>

(* The monitor thread starts: listen(), and the first master_.             *)
Listen(n) ==
  /\ alive[n]
  /\ stage[n] = IF n = Server THEN "bound" ELSE "registered"
  /\ stage' = [stage EXCEPT ![n] = "listening"]
  /\ master_' = [master_ EXCEPT ![n] = IF n = Server THEN {} ELSE {<<n, Server>>}]
  /\ UNCHANGED <<alive, conn, backlog, wire, num_nodes, nodes_, directory_, todo>>

(* The monitor is in its loop, not inside process_directory_.              *)
Monitoring(n) == Accepting(n) /\ todo[n] = <<>>

(* A mistake: the network is taken to be full one node too early.          *)
AcceptOneLess(n) ==
  /\ Monitoring(n)
  /\ backlog[n] # <<>>
  /\ num_nodes[n] + 1 < Backlog
  /\ num_nodes' = [num_nodes EXCEPT ![n] = @ + 1]
  /\ master_' = [master_ EXCEPT ![n] = @ \cup {Head(backlog[n])}]
  /\ backlog' = [backlog EXCEPT ![n] = Tail(@)]
  /\ UNCHANGED <<stage, alive, conn, wire, nodes_, directory_, todo>>

(* accept(), unless the network is full.                                   *)
Accept(n) ==
  /\ Monitoring(n)
  /\ backlog[n] # <<>>
  /\ num_nodes[n] + 1 <= Backlog
  /\ num_nodes' = [num_nodes EXCEPT ![n] = @ + 1]
  /\ master_' = [master_ EXCEPT ![n] = @ \cup {Head(backlog[n])}]
  /\ backlog' = [backlog EXCEPT ![n] = Tail(@)]
  /\ UNCHANGED <<stage, alive, conn, wire, nodes_, directory_, todo>>

Receives(n, c, msg) ==
  /\ Monitoring(n)
  /\ c \in master_[n]
  /\ wire[c][n] # <<>>
  /\ msg = Head(wire[c][n])

(* A mistake: every client gets each new version of the directory.         *)
BroadcastDirectory(c, m) ==
  /\ Receives(Server, c, Register(m))
  /\ directory_' = Append(directory_, m)
  /\ nodes_' = [nodes_ EXCEPT ![Server][m] = c]
  /\ wire' = [d \in Conn |-> [n \in Node |->
                IF d = c /\ n = Server THEN Tail(wire[d][n])
                ELSE IF nodes_'[Server][n] = d THEN Append(wire[d][n], Directory(directory_'))
                ELSE wire[d][n]]]
  /\ UNCHANGED <<stage, alive, conn, backlog, master_, num_nodes, todo>>

(* process_register_ at the server: the sender becomes the last entry of   *)
(* the directory, and the whole directory is the answer.                   *)
ServerReceivesRegister(c, m) ==
  /\ Receives(Server, c, Register(m))
  /\ directory_' = Append(directory_, m)
  /\ wire' = [wire EXCEPT ![c][Server] = Tail(@),
                          ![c][Peer(c, Server)] = Append(@, Directory(directory_'))]
  /\ nodes_' = [nodes_ EXCEPT ![Server][m] = c]
  /\ UNCHANGED <<stage, alive, conn, backlog, master_, num_nodes, todo>>

(* A mistake: the socket is kept under the index of this node.             *)
ClientKeepsWrongIndex(n, c, m) ==
  /\ n \in Client
  /\ Receives(n, c, Register(m))
  /\ wire' = [wire EXCEPT ![c][n] = Tail(@)]
  /\ nodes_' = [nodes_ EXCEPT ![n][n] = c]
  /\ UNCHANGED <<stage, alive, conn, backlog, master_, num_nodes, directory_, todo>>

(* process_register_ at a client.                                          *)
ClientReceivesRegister(n, c, m) ==
  /\ n \in Client
  /\ Receives(n, c, Register(m))
  /\ wire' = [wire EXCEPT ![c][n] = Tail(@)]
  /\ nodes_' = [nodes_ EXCEPT ![n][m] = c]
  /\ UNCHANGED <<stage, alive, conn, backlog, master_, num_nodes, directory_, todo>>

(* The send() of the Directory fails: the client is gone.                  *)
SendDirectoryFails(c, m) ==
  /\ Receives(Server, c, Register(m))
  /\ ~alive[Peer(c, Server)]
  /\ Close(Server)

(* process_directory_ starts.                                              *)
ReceiveDirectory(n, c) ==
  /\ wire[c][n] # <<>>
  /\ Head(wire[c][n]).kind = "Directory"
  /\ Receives(n, c, Head(wire[c][n]))
  /\ wire' = [wire EXCEPT ![c][n] = Tail(@)]
  /\ todo' = [todo EXCEPT ![n] = Head(wire[c][n]).clients]
  /\ UNCHANGED <<stage, alive, conn, backlog, master_, num_nodes, nodes_, directory_>>

(* Its loop passes over the entry with this node's own address.            *)
SkipThisNode(n) ==
  /\ Accepting(n)
  /\ todo[n] # <<>>
  /\ Head(todo[n]) = n
  /\ todo' = [todo EXCEPT ![n] = Tail(@)]
  /\ UNCHANGED <<stage, alive, conn, backlog, wire, master_, num_nodes, nodes_, directory_>>

(* connect_to_client_ for the next entry.                                  *)
ConnectToClient(n) ==
  LET m == Head(todo[n]) IN
  /\ Accepting(n)
  /\ todo[n] # <<>>
  /\ m # n
  /\ Accepting(m)
  /\ ConnectTo(n, m)
  /\ master_' = [master_ EXCEPT ![n] = @ \cup {<<n, m>>}]
  /\ todo' = [todo EXCEPT ![n] = Tail(@)]
  /\ UNCHANGED <<stage, alive, num_nodes, directory_>>

(* The other client does not listen, not yet or no more: exit(-1).         *)
ConnectionRefused(n) ==
  /\ Accepting(n)
  /\ todo[n] # <<>>
  /\ ~Accepting(Head(todo[n]))
  /\ Close(n)

(* A mistake: only the connections this node has made are watched for EOF. *)
EofOfOwnOnly(n, c) ==
  /\ Monitoring(n)
  /\ c \in master_[n]
  /\ c[1] = n
  /\ wire[c][n] = <<>>
  /\ ~alive[Peer(c, n)]
  /\ Close(n)

(* recv() finds the connection closed: this node shuts down too.           *)
ReceiveEof(n, c) ==
  /\ Monitoring(n)
  /\ c \in master_[n]
  /\ wire[c][n] = <<>>
  /\ ~alive[Peer(c, n)]
  /\ Close(n)

-----------------------------------------------------------------------------
StartStep(n) == RegisterWithServer(n) \/ Listen(n)

MonitorStep(n) ==
  \/ Accept(n)
  \/ \E c \in master_[n] :
       \/ \E m \in Node :
            \/ n = Server /\ (ServerReceivesRegister(c, m) \/ SendDirectoryFails(c, m))
            \/ ClientReceivesRegister(n, c, m)
       \/ ReceiveDirectory(n, c)
       \/ ReceiveEof(n, c)
  \/ SkipThisNode(n) \/ ConnectToClient(n) \/ ConnectionRefused(n)

Next == \E n \in Node : StartStep(n) \/ MonitorStep(n) \/ Crash(n)

Spec == Init /\ [][Next]_vars

(* Threads that can run do run, and a client tries connect() again and     *)
(* again.  Nothing is asked of Crash.                                      *)
Fairness == \A n \in Node : WF_vars(StartStep(n)) /\ WF_vars(MonitorStep(n))

FairSpec == Spec /\ Fairness

-----------------------------------------------------------------------------
TypeOK ==
  /\ stage \in [Node -> {"bound", "registered", "listening"}]
  /\ alive \in [Node -> BOOLEAN]
  /\ conn \subseteq Conn
  /\ backlog \in [Node -> Seq(Conn)]
  /\ wire \in [Conn -> [Node -> Seq(Message)]]
  /\ master_ \in [Node -> SUBSET Conn]
  /\ num_nodes \in [Node -> Nat]
  /\ nodes_ \in [Node -> [Node -> Conn \cup {None}]]
  /\ directory_ \in Seq(Client)
  /\ todo \in [Node -> Seq(Client)]

(* Two nodes never have two connections, though either may be the one that *)
(* connects: a client connects to those that registered before it, and is  *)
(* connected to by those that register later (kvstore.h:455-464, 469-477). *)
OneConnection == \A x, y \in Node : <<x, y>> \in conn => <<y, x>> \notin conn

(* What a node has in nodes_ for another is a connection between the two,  *)
(* and both use the same one: requests and answers of a pair of nodes      *)
(* share one FIFO in each direction.                                       *)
SocketsAgree ==
  \A x, y \in Node :
    nodes_[x][y] # None =>
      /\ nodes_[x][y] \in conn \cap {<<x, y>>, <<y, x>>}
      /\ nodes_[y][x] # None => nodes_[x][y] = nodes_[y][x]

(* No client that follows the directory is refused: "the client sends      *)
(* Registers to all other clients in the directory, establishing           *)
(* connections with them" (report/doc.md:66-67).                           *)
DirectoryConnects ==
  \A n \in Node : Accepting(n) /\ todo[n] # <<>> => Accepting(Head(todo[n]))

FullMesh == \A x, y \in Node : x # y => nodes_[x][y] # None

(* Registration comes to an end: every node can send to every other, or    *)
(* one of them is closed.  A network of Backlog nodes is not too large.    *)
AllConnect == <>(FullMesh \/ \E n \in Node : ~alive[n])

(* A node that goes down after it has contacted the server takes all       *)
(* others that have done so with it; nobody is left in a network that      *)
(* cannot be completed any more.                                           *)
AllGoDown ==
  (\E n \in Node : ~alive[n] /\ stage[n] # "bound")
    ~> (\A n \in Node : alive[n] => stage[n] = "bound")
=============================================================================
