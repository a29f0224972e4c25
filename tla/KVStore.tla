------------------------------ MODULE KVStore ------------------------------
(***************************************************************************)
(* The distributed key/value store of kvstore.h, from the moment when      *)
(* registration is complete and every node holds a socket to every other.  *)
(*                                                                         *)
(* A node runs three kinds of threads: the main thread, which executes the *)
(* application's calls; the monitor thread, which reads the sockets; and   *)
(* one handler thread for every Put, Get or WaitAndGet message received    *)
(* (threads_).  put, get and wait_and_get are run by the main thread and   *)
(* by handlers alike, so both are members of the sequence thread[n], the   *)
(* main thread first.  They share map_ under mtx_, except that             *)
(* wait_and_get reads the map without the lock and get clones the blob     *)
(* after unlocking.  One pair of nodes shares one connection: wire[m][n]   *)
(* is what m has sent and n has not received, requests and answers alike.  *)
(***************************************************************************)
EXTENDS KVOps

CONSTANTS Programs,      \* what the applications may do: Node -> Seq(Call)
          MaxBatch,      \* how many messages one recv() may return
          InitCapacity   \* capacity of a new Map

ASSUME ProgramsAssumption == Programs \subseteq [Node -> Seq(Call)]
ASSUME MaxBatchAssumption == MaxBatch \in Nat \ {0}
ASSUME InitCapacityAssumption == InitCapacity \in Nat \ {0}

VARIABLES
  prog,             \* the application: the calls of each node's main thread
  ip,               \* index of the main thread's current or next call
  thread,           \* activations of put/get/wait_and_get: main, then threads_
  monitor,          \* the select() loop: its place and the socket it selected
  map_,             \* the node's part of the store
  capacity_,        \* capacity of map_
  mtx_,             \* index of the thread that holds the mutex, 0 if free
  ack_recvd_,
  reply_data_,
  wag_reply_data_,
  has_shutdown,
  wire,             \* bytes in flight, one FIFO per direction of a connection
  status            \* the process: running, finished, failed or crashed

slots == <<ack_recvd_, reply_data_, wag_reply_data_>>
mapVars == <<map_, capacity_, mtx_>>
vars == <<prog, ip, thread, monitor, mapVars, slots, has_shutdown, wire, status>>

Main == 1

(* "ready": between two calls of the application.  "wag" and "poll": the   *)
(* first and the later contains() of wait_and_get.  "ack", "reply" and     *)
(* "wag_reply": the loops that wait for an answer.  "copy": the pointer is *)
(* read, the clone is not made.  "send": a handler about to answer.        *)
Pc == {"ready", "put", "store", "wag", "poll", "get", "copy",
       "ack", "reply", "wag_reply", "send", "done"}
Waiting == {"ack", "reply", "wag_reply"}

Thread == [pc : Pc, op : Call, from : Node, val : Data \cup {None}]

Running(n) == status[n] = "running"
Closed(n) == has_shutdown[n] \/ ~Running(n)

MainThread(n) == thread[n][Main]
CurrentCall(n) == prog[n][ip[n]]
HasCall(n) == Running(n) /\ MainThread(n).pc = "ready" /\ ip[n] <= Len(prog[n])
IsRemote(n, op) == op \in Request /\ Home[op.key] # n

NumKeys(n) == Cardinality({k \in Key : map_[n][k] # None})

Init ==
  /\ prog \in Programs
  /\ ip = [n \in Node |-> 1]
  /\ thread = [n \in Node |-> <<[pc |-> "ready", op |-> Done, from |-> n, val |-> None]>>]
  /\ monitor = [n \in Node |-> [pc |-> "select", from |-> n]]
  /\ map_ = [n \in Node |-> [k \in Key |-> None]]
  /\ capacity_ = [n \in Node |-> InitCapacity]
  /\ mtx_ = [n \in Node |-> 0]
  /\ ack_recvd_ = [n \in Node |-> FALSE]
  /\ reply_data_ = [n \in Node |-> None]
  /\ wag_reply_data_ = [n \in Node |-> None]
  /\ has_shutdown = [n \in Node |-> FALSE]
  /\ wire = [m \in Node |-> [n \in Node |-> <<>>]]
  /\ status = [n \in Node |-> "running"]

-----------------------------------------------------------------------------
(* Steps that several actions share.                                       *)

(* The process of node n ends; its threads end with it.                    *)
Die(n, how) ==
  /\ status' = [status EXCEPT ![n] = how]
  /\ UNCHANGED <<prog, ip, thread, monitor, mapVars, slots, has_shutdown, wire>>

SetThread(n, i, pc, val) ==
  thread' = [thread EXCEPT ![n][i] = [@ EXCEPT !.pc = pc, !.val = val]]

(* The local branch of a call is over: the main thread goes on to its next *)
(* call, a handler has its answer to send.                                 *)
Complete(n, i, val) ==
  /\ SetThread(n, i, IF i = Main THEN "ready" ELSE "send", val)
  /\ ip' = IF i = Main THEN [ip EXCEPT ![n] = @ + 1] ELSE ip

(* Where put, get and wait_and_get start in the branch for a local key.    *)
LocalEntry(op) == CASE op.kind = "Put" -> "put"
                    [] op.kind = "Get" -> "get"
                    [] op.kind = "WaitAndGet" -> "wag"

(* The loop in which they wait for the answer about a remote key.          *)
RemoteEntry(op) == CASE op.kind = "Put" -> "ack"
                     [] op.kind = "Get" -> "reply"
                     [] op.kind = "WaitAndGet" -> "wag_reply"

(* A mistake: every request is answered with a Reply.                      *)
AlwaysReplyTo(t) == Reply(t.op.kind, t.val)

AnswerTo(t) == IF t.op.kind = "Put" THEN Ack ELSE Reply(t.op.kind, t.val)

-----------------------------------------------------------------------------
(* The main thread: the application's calls.                               *)

StartCall(n, pc) ==
  thread' = [thread EXCEPT ![n][Main] = [@ EXCEPT !.pc = pc, !.op = CurrentCall(n)]]

(* put, get or wait_and_get of a key whose home is this node.              *)
BeginLocal(n) ==
  /\ HasCall(n)
  /\ CurrentCall(n) \in Request
  /\ ~IsRemote(n, CurrentCall(n))
  /\ StartCall(n, LocalEntry(CurrentCall(n)))
  /\ UNCHANGED <<prog, ip, monitor, mapVars, slots, has_shutdown, wire, status>>

(* The other branch: send_to_node_, then the loop that waits for the       *)
(* answer.                                                                 *)
BeginRemote(n) ==
  /\ HasCall(n)
  /\ IsRemote(n, CurrentCall(n))
  /\ ~has_shutdown[n]
  /\ StartCall(n, RemoteEntry(CurrentCall(n)))
  /\ wire' = [wire EXCEPT ![n][Home[CurrentCall(n).key]] = Append(@, CurrentCall(n))]
  /\ UNCHANGED <<prog, ip, monitor, mapVars, slots, has_shutdown, status>>

(* A mistake: ack_recvd_ is not reset.                                     *)
ReturnPutKeepingAck(n) ==
  /\ Running(n)
  /\ MainThread(n).pc = "ack"
  /\ ack_recvd_[n]
  /\ Complete(n, Main, None)
  /\ UNCHANGED <<prog, monitor, mapVars, slots, has_shutdown, wire, status>>

(* put returns: the Ack is there, and is taken.                            *)
ReturnPut(n) ==
  /\ Running(n)
  /\ MainThread(n).pc = "ack"
  /\ ack_recvd_[n]
  /\ ack_recvd_' = [ack_recvd_ EXCEPT ![n] = FALSE]
  /\ Complete(n, Main, None)
  /\ UNCHANGED <<prog, monitor, mapVars, reply_data_, wag_reply_data_,
                 has_shutdown, wire, status>>

(* get of a remote key returns the blob of the Reply.                      *)
ReturnGet(n) ==
  /\ Running(n)
  /\ MainThread(n).pc = "reply"
  /\ reply_data_[n] # None
  /\ reply_data_' = [reply_data_ EXCEPT ![n] = None]
  /\ Complete(n, Main, reply_data_[n])
  /\ UNCHANGED <<prog, monitor, mapVars, ack_recvd_, wag_reply_data_,
                 has_shutdown, wire, status>>

(* A mistake: wag_reply_data_ is not reset.                                *)
ReturnWagKeepingReply(n) ==
  /\ Running(n)
  /\ MainThread(n).pc = "wag_reply"
  /\ wag_reply_data_[n] # None
  /\ Complete(n, Main, wag_reply_data_[n])
  /\ UNCHANGED <<prog, monitor, mapVars, slots, has_shutdown, wire, status>>

(* wait_and_get of a remote key returns the blob of the Reply.             *)
ReturnWag(n) ==
  /\ Running(n)
  /\ MainThread(n).pc = "wag_reply"
  /\ wag_reply_data_[n] # None
  /\ wag_reply_data_' = [wag_reply_data_ EXCEPT ![n] = None]
  /\ Complete(n, Main, wag_reply_data_[n])
  /\ UNCHANGED <<prog, monitor, mapVars, ack_recvd_, reply_data_,
                 has_shutdown, wire, status>>

(* done() calls shutdown(), which deletes what it deletes without asking   *)
(* whether that was done before: if the monitor has shut the node down     *)
(* already, the second delete[] may abort the process or go unnoticed.     *)
CallDone(n) ==
  /\ HasCall(n)
  /\ CurrentCall(n) = Done
  /\ \/ /\ has_shutdown' = [has_shutdown EXCEPT ![n] = TRUE]
        /\ ip' = [ip EXCEPT ![n] = @ + 1]
        /\ UNCHANGED <<prog, thread, monitor, mapVars, slots, wire, status>>
     \/ has_shutdown[n] /\ Die(n, "crashed")

(* The application returns and ~KVStore has joined the monitor and the     *)
(* handlers.                                                               *)
Finish(n) ==
  /\ Running(n)
  /\ MainThread(n).pc = "ready"
  /\ ip[n] > Len(prog[n])
  /\ monitor[n].pc = "stopped"
  /\ \A i \in 2 .. Len(thread[n]) : thread[n][i].pc = "done"
  /\ Die(n, "finished")

-----------------------------------------------------------------------------
(* The local branches of put, get and wait_and_get, by any thread.         *)

At(n, i, pc) == Running(n) /\ i \in 1 .. Len(thread[n]) /\ thread[n][i].pc = pc

(* A mistake: put does not wait for the lock.                              *)
PutWithoutLock(n, i) ==
  /\ At(n, i, "put")
  /\ mtx_' = [mtx_ EXCEPT ![n] = i]
  /\ SetThread(n, i, "store", None)
  /\ UNCHANGED <<prog, ip, monitor, map_, capacity_, slots, has_shutdown, wire, status>>

PutLock(n, i) ==
  /\ At(n, i, "put")
  /\ mtx_[n] = 0
  /\ mtx_' = [mtx_ EXCEPT ![n] = i]
  /\ SetThread(n, i, "store", None)
  /\ UNCHANGED <<prog, ip, monitor, map_, capacity_, slots, has_shutdown, wire, status>>

(* The Map doubles when it is full, and a blob it replaces is deleted: a   *)
(* thread that has read the pointer to it and not cloned it yet is left    *)
(* with a dangling pointer.                                                *)
PutStore(n, i) ==
  LET op == thread[n][i].op
      Dangling(j) == /\ thread[n][j].pc = "copy"
                     /\ thread[n][j].op.key = op.key
                     /\ map_[n][op.key] # None
      Stored(j) == IF j = i
                   THEN [thread[n][i] EXCEPT !.pc = IF i = Main THEN "ready" ELSE "send"]
                   ELSE IF Dangling(j) THEN [thread[n][j] EXCEPT !.val = Garbage]
                   ELSE thread[n][j]
  IN
  /\ At(n, i, "store")
  /\ map_' = [map_ EXCEPT ![n][op.key] = op.val]
  /\ capacity_' = [capacity_ EXCEPT ![n] = IF NumKeys(n) >= @ THEN 2 * @ ELSE @]
  /\ mtx_' = [mtx_ EXCEPT ![n] = 0]
  /\ thread' = [thread EXCEPT ![n] = [j \in 1 .. Len(thread[n]) |-> Stored(j)]]
  /\ ip' = IF i = Main THEN [ip EXCEPT ![n] = @ + 1] ELSE ip
  /\ UNCHANGED <<prog, monitor, slots, has_shutdown, wire, status>>

(* A mistake: an if where wait_and_get has its loop, so that a key that is *)
(* missing at first is never looked for again.                             *)
ContainsOnce(n, i) ==
  /\ At(n, i, "wag")
  /\ SetThread(n, i, IF map_[n][thread[n][i].op.key] # None THEN "get" ELSE "poll", None)
  /\ UNCHANGED <<prog, ip, monitor, mapVars, slots, has_shutdown, wire, status>>

(* contains() of wait_and_get, which takes no lock; in the loop the thread *)
(* goes on only if the node is not shut down.                              *)
MapContains(n, i) ==
  /\ At(n, i, "wag") \/ At(n, i, "poll")
  /\ thread[n][i].pc = "poll" => map_[n][thread[n][i].op.key] # None /\ ~has_shutdown[n]
  /\ SetThread(n, i, IF map_[n][thread[n][i].op.key] # None THEN "get" ELSE "poll", None)
  /\ UNCHANGED <<prog, ip, monitor, mapVars, slots, has_shutdown, wire, status>>

(* The same read while a put is inside Map::grow(): items_ is being freed. *)
ContainsDuringGrow(n, i) ==
  /\ At(n, i, "wag") \/ At(n, i, "poll")
  /\ mtx_[n] # 0
  /\ NumKeys(n) >= capacity_[n]
  /\ Die(n, "crashed")

(* get reads the pointer under the lock; a missing key fails the assert.   *)
GetLookup(n, i) ==
  /\ At(n, i, "get")
  /\ mtx_[n] = 0
  /\ map_[n][thread[n][i].op.key] # None
  /\ SetThread(n, i, "copy", map_[n][thread[n][i].op.key])
  /\ UNCHANGED <<prog, ip, monitor, mapVars, slots, has_shutdown, wire, status>>

GetAssertFails(n, i) ==
  /\ At(n, i, "get")
  /\ mtx_[n] = 0
  /\ map_[n][thread[n][i].op.key] = None
  /\ Die(n, "crashed")

(* The blob is cloned after the lock was given up.                         *)
GetCopy(n, i) ==
  /\ At(n, i, "copy")
  /\ \/ /\ Complete(n, i, thread[n][i].val)
        /\ UNCHANGED <<prog, monitor, mapVars, slots, has_shutdown, wire, status>>
     \/ thread[n][i].val = Garbage /\ Die(n, "crashed")

(* The end of process_put_, process_get_ and process_wag_.                 *)
SendAnswer(n, i) ==
  /\ At(n, i, "send")
  /\ ~has_shutdown[n]
  /\ wire' = [wire EXCEPT ![n][thread[n][i].from] = Append(@, AnswerTo(thread[n][i]))]
  /\ SetThread(n, i, "done", None)
  /\ UNCHANGED <<prog, ip, monitor, mapVars, slots, has_shutdown, status>>

-----------------------------------------------------------------------------
(* exit(-1).                                                               *)

(* Every waiting loop exits the process once the node is shut down, and so *)
(* does a send() on a socket that shutdown() has closed.                   *)
ExitAfterShutdown(n) ==
  /\ Running(n)
  /\ has_shutdown[n]
  /\ \/ \E i \in 1 .. Len(thread[n]) : thread[n][i].pc \in Waiting \cup {"poll", "send"}
     \/ HasCall(n) /\ IsRemote(n, CurrentCall(n))
  /\ Die(n, "failed")

(* A send() to a node that has closed the connection may fail.             *)
SendFails(n) ==
  /\ \/ \E i \in 1 .. Len(thread[n]) : At(n, i, "send") /\ Closed(thread[n][i].from)
     \/ /\ HasCall(n)
        /\ IsRemote(n, CurrentCall(n))
        /\ Closed(Home[CurrentCall(n).key])
  /\ Die(n, "failed")

-----------------------------------------------------------------------------
(* The monitor thread: monitor_sockets_.                                   *)

Readable(n, m) == wire[m][n] # <<>> \/ Closed(m)

(* select() reports the socket to node m, and has_shutdown is checked.     *)
Select(n, m) ==
  /\ Running(n)
  /\ monitor[n].pc = "select"
  /\ ~has_shutdown[n]
  /\ m # n
  /\ Readable(n, m)
  /\ monitor' = [monitor EXCEPT ![n] = [pc |-> "recv", from |-> m]]
  /\ UNCHANGED <<prog, ip, thread, mapVars, slots, has_shutdown, wire, status>>

(* shutdown() was called by the other thread.                              *)
StopMonitor(n) ==
  /\ Running(n)
  /\ monitor[n].pc = "select"
  /\ has_shutdown[n]
  /\ monitor' = [monitor EXCEPT ![n].pc = "stopped"]
  /\ UNCHANGED <<prog, ip, thread, mapVars, slots, has_shutdown, wire, status>>

(* A mistake: the buffer is not emptied, its first message is read again.  *)
ReceiveKeepingBuffer(n, msg) ==
  /\ Running(n)
  /\ monitor[n].pc = "recv"
  /\ ~has_shutdown[n]
  /\ wire[monitor[n].from][n] # <<>>
  /\ msg = Head(wire[monitor[n].from][n])
  /\ wire' = wire
  /\ monitor' = [monitor EXCEPT ![n].pc = "select"]

(* recv() returns the bytes of the first k messages; only the first is     *)
(* deserialized, the others leave with the buffer.                         *)
Receive(n, msg) ==
  LET m == monitor[n].from IN
  /\ Running(n)
  /\ monitor[n].pc = "recv"
  /\ ~has_shutdown[n]
  /\ wire[m][n] # <<>>
  /\ msg = Head(wire[m][n])
  /\ \E k \in 1 .. MaxBatch :
       /\ k <= Len(wire[m][n])
       /\ wire' = [wire EXCEPT ![m][n] = SubSeq(@, k + 1, Len(@))]
  /\ monitor' = [monitor EXCEPT ![n].pc = "select"]

ReceiveAck(n) ==
  /\ Receive(n, Ack)
  /\ ack_recvd_' = [ack_recvd_ EXCEPT ![n] = TRUE]
  /\ UNCHANGED <<prog, ip, thread, mapVars, reply_data_, wag_reply_data_,
                 has_shutdown, status>>

(* process_reply_ *)
ReceiveReply(n) ==
  \E req \in {"Get", "WaitAndGet"}, v \in Data :
    /\ Receive(n, Reply(req, v))
    /\ IF req = "WaitAndGet"
       THEN /\ wag_reply_data_' = [wag_reply_data_ EXCEPT ![n] = v]
            /\ UNCHANGED reply_data_
       ELSE /\ reply_data_' = [reply_data_ EXCEPT ![n] = v]
            /\ UNCHANGED wag_reply_data_
    /\ UNCHANGED <<prog, ip, thread, mapVars, ack_recvd_, has_shutdown, status>>

(* A mistake: process_put_ answers before it puts.                         *)
HandlerAckingFirst(m, op) ==
  [pc |-> IF op.kind = "Put" THEN "send" ELSE LocalEntry(op), op |-> op, from |-> m, val |-> None]

(* A new handler thread; its process_* function starts with the call.      *)
Handler(m, op) == [pc |-> LocalEntry(op), op |-> op, from |-> m, val |-> None]

ReceiveRequest(n) ==
  LET m == monitor[n].from
      op == Head(wire[m][n])
  IN
  /\ Running(n)
  /\ wire[m][n] # <<>>
  /\ op \in Request
  /\ Receive(n, op)
  /\ thread' = [thread EXCEPT ![n] = Append(@, Handler(m, op))]
  /\ UNCHANGED <<prog, ip, mapVars, slots, has_shutdown, status>>

(* A mistake: a closed connection is ignored.                              *)
IgnoreEof(n) ==
  /\ Running(n)
  /\ monitor[n].pc = "recv"
  /\ ~has_shutdown[n]
  /\ wire[monitor[n].from][n] = <<>>
  /\ monitor' = [monitor EXCEPT ![n].pc = "select"]
  /\ UNCHANGED <<prog, ip, thread, mapVars, slots, has_shutdown, wire, status>>

(* The connection was closed by the other side: the node shuts down too.   *)
ReceiveEof(n) ==
  /\ Running(n)
  /\ monitor[n].pc = "recv"
  /\ ~has_shutdown[n]
  /\ wire[monitor[n].from][n] = <<>>
  /\ has_shutdown' = [has_shutdown EXCEPT ![n] = TRUE]
  /\ monitor' = [monitor EXCEPT ![n].pc = "stopped"]
  /\ UNCHANGED <<prog, ip, thread, mapVars, slots, wire, status>>

(* The main thread has called shutdown() since has_shutdown was checked:   *)
(* recv() fails and the monitor shuts the node down a second time.         *)
ReceiveAfterShutdown(n) ==
  /\ Running(n)
  /\ monitor[n].pc = "recv"
  /\ has_shutdown[n]
  /\ \/ /\ monitor' = [monitor EXCEPT ![n].pc = "stopped"]
        /\ UNCHANGED <<prog, ip, thread, mapVars, slots, has_shutdown, wire, status>>
     \/ Die(n, "crashed")

-----------------------------------------------------------------------------
MainStep(n) ==
  \/ BeginLocal(n) \/ BeginRemote(n)
  \/ ReturnPut(n) \/ ReturnGet(n) \/ ReturnWag(n)
  \/ CallDone(n) \/ Finish(n)

ThreadStep(n, i) ==
  \/ PutLock(n, i) \/ PutStore(n, i)
  \/ MapContains(n, i) \/ ContainsDuringGrow(n, i)
  \/ GetLookup(n, i) \/ GetAssertFails(n, i) \/ GetCopy(n, i)
  \/ SendAnswer(n, i)

ExitStep(n) == ExitAfterShutdown(n) \/ SendFails(n)

MonitorStep(n) ==
  \/ \E m \in Node : Select(n, m)
  \/ StopMonitor(n)
  \/ ReceiveAck(n) \/ ReceiveReply(n) \/ ReceiveRequest(n)
  \/ ReceiveEof(n) \/ ReceiveAfterShutdown(n)

Next == \E n \in Node :
          \/ MainStep(n)
          \/ \E i \in 1 .. Len(thread[n]) : ThreadStep(n, i)
          \/ ExitStep(n)
          \/ MonitorStep(n)

Spec == Init /\ [][Next]_vars

(* Every thread that can run runs.  A behaviour of a bounded program has   *)
(* finitely many steps, so it is enough to ask this of each kind of thread *)
(* of a node; it is not asked of the failures of send().                   *)
Fairness == \A n \in Node :
              /\ WF_vars(MainStep(n))
              /\ WF_vars(\E i \in 1 .. Len(thread[n]) : ThreadStep(n, i))
              /\ WF_vars(MonitorStep(n))
              /\ WF_vars(ExitAfterShutdown(n))

FairSpec == Spec /\ Fairness

-----------------------------------------------------------------------------
(* The places where a remote call of node n can be: its request is on the  *)
(* wire, a handler serves it, its answer is on the wire, or its answer is  *)
(* in the slot that the main thread reads.                                 *)

Requests(n, d) == {i \in 1 .. Len(wire[n][d]) : wire[n][d][i] \in Request}

Handlers(n, d) == {i \in 2 .. Len(thread[d]) : /\ thread[d][i].from = n
                                               /\ thread[d][i].pc # "done"}

Answers(n, d) == {i \in 1 .. Len(wire[d][n]) : wire[d][n][i] \in Answer}

SlotSet(n) == ack_recvd_[n] \/ reply_data_[n] # None \/ wag_reply_data_[n] # None

InCall(n) == MainThread(n).pc \in Waiting

Destination(n) == Home[MainThread(n).op.key]

(* Has the call's effect, under way in the thread t, happened?             *)
Applied(t) == t.pc \in {"copy", "send"}

(* Type correctness of the whole state.                                    *)
TypeOK ==
  /\ prog \in Programs
  /\ ip \in [Node -> Nat \ {0}]
  /\ thread \in [Node -> Seq(Thread)]
  /\ \A n \in Node : thread[n] # <<>>
  /\ monitor \in [Node -> [pc : {"select", "recv", "stopped"}, from : Node]]
  /\ map_ \in [Node -> [Key -> Value \cup {None}]]
  /\ capacity_ \in [Node -> Nat]
  /\ mtx_ \in [Node -> Nat]
  /\ ack_recvd_ \in [Node -> BOOLEAN]
  /\ reply_data_ \in [Node -> Data \cup {None}]
  /\ wag_reply_data_ \in [Node -> Data \cup {None}]
  /\ has_shutdown \in [Node -> BOOLEAN]
  /\ wire \in [Node -> [Node -> Seq(Message)]]
  /\ status \in [Node -> {"running", "finished", "failed", "crashed"}]

(* Is msg the answer that the call op is waiting for?                      *)
IsAnswerTo(msg, op) ==
  IF op.kind = "Put" THEN msg = Ack
  ELSE msg.kind = "Reply" /\ msg.request = op.kind

SlotsMatch(n) ==
  /\ ack_recvd_[n] => MainThread(n).pc = "ack"
  /\ reply_data_[n] # None => MainThread(n).pc = "reply"
  /\ wag_reply_data_[n] # None => MainThread(n).pc = "wag_reply"

WaitMatches(n) ==
  LET op == MainThread(n).op IN
  InCall(n) => IsRemote(n, op) /\ MainThread(n).pc = RemoteEntry(op)

(* What is under way between n, as a client, and d belongs to n's call.    *)
PlacesMatch(n, d) ==
  LET mine == InCall(n) /\ d = Destination(n)
      op == MainThread(n).op
  IN
  /\ \A i \in Requests(n, d) : mine /\ wire[n][d][i] = op
  /\ \A i \in Handlers(n, d) : mine /\ thread[d][i].op = op
  /\ \A i \in Answers(n, d) : mine /\ IsAnswerTo(wire[d][n][i], op)

(* A node has one slot for an Ack and one for each kind of Reply, and no   *)
(* message says which call it answers.  Yet whatever is on its way for a   *)
(* node, or is in one of its slots, belongs to the call that its main      *)
(* thread is waiting in at that moment: an answer is never left over for a *)
(* later call to take for its own (kvstore.h:105-115, 147-155, 186-195).   *)
AnswersMatchCalls ==
  \A n \in Node : /\ SlotsMatch(n)
                  /\ WaitMatches(n)
                  /\ \A d \in Node : PlacesMatch(n, d)

OnePlace(n, d) ==
  /\ \A i, j \in Requests(n, d) : i = j
  /\ \A i, j \in Handlers(n, d) : i = j
  /\ \A i, j \in Answers(n, d) : i = j
  /\ Requests(n, d) = {} \/ Handlers(n, d) = {}
  /\ Requests(n, d) = {} \/ Answers(n, d) = {}
  /\ Handlers(n, d) = {} \/ Answers(n, d) = {}
  /\ SlotSet(n) => Requests(n, d) = {} /\ Handlers(n, d) = {} /\ Answers(n, d) = {}

(* A call is in one place at a time: it is never executed by two handlers, *)
(* nor answered twice.                                                     *)
OnePlacePerCall == \A n \in Node, d \in Node : OnePlace(n, d)

(* When put returns, and from the moment its Ack is sent, the key is in    *)
(* the map of its home node: who learns from the writer that the put is    *)
(* over can get the key without a wait (report/doc.md:39-42).              *)
AckMeansStored ==
  \A n \in Node :
    LET op == MainThread(n).op
        d == Destination(n)
    IN MainThread(n).pc = "ack" =>
         \/ map_[d][op.key] # None
         \/ /\ ~ack_recvd_[n]
            /\ Answers(n, d) = {}
            /\ \A i \in Handlers(n, d) : thread[d][i].pc # "send"

(* The mutex is held by a thread inside put, and by no other.              *)
MutexOK == \A n \in Node :
  \A i \in 1 .. Len(thread[n]) : thread[n][i].pc = "store" <=> mtx_[n] = i

(* The map is not read while Map::grow() replaces its array                *)
(* (kvstore.h:59-60).                                                      *)
NoReadDuringGrow ==
  \A n \in Node : \A i \in 1 .. Len(thread[n]) :
    thread[n][i].pc \in {"wag", "poll"} => mtx_[n] = 0 \/ NumKeys(n) < capacity_[n]

(* No process is ended by exit(-1), by an assertion or by a memory error.  *)
NoFailure == \A n \in Node : status[n] \notin {"failed", "crashed"}

(* No answer is missing: a call that waits is still somewhere              *)
(* (report/doc.md:60-62).                                                  *)
NothingLost ==
  \A n \in Node :
    InCall(n) => \/ SlotSet(n)
                 \/ \E d \in Node : Requests(n, d) \cup Handlers(n, d) \cup Answers(n, d) # {}

(* A put returns, and so does a get or a wait_and_get of a key that is     *)
(* there.                                                                  *)
Returnable(n) ==
  LET op == MainThread(n).op IN
  /\ MainThread(n).pc # "ready"
  /\ op.kind = "Put" \/ map_[Home[op.key]][op.key] # None

CallsReturn == \A n \in Node : Returnable(n) ~> MainThread(n).pc = "ready"
=============================================================================
