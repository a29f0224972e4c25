--------------------------- MODULE KVStoreProofs ---------------------------
(***************************************************************************)
(* Proofs about KVStore, for any number of nodes, keys, blobs and calls    *)
(* and any size of what one recv() returns: type correctness, that single  *)
(* unnumbered slots are enough for answers to find their calls, that the   *)
(* mutex of a node is held by exactly the thread that is inside put, and   *)
(* that a key whose put was acknowledged is in the map of its home node.   *)
(***************************************************************************)
EXTENDS KVStore, TLAPS, SequenceTheorems

(* What each place of a thread says of its call; the main thread, and only *)
(* the main thread, makes remote calls.                                    *)
ThreadOK(t, i) ==
  /\ i = Main => t.pc \notin {"send", "done"}
  /\ i # Main => t.pc \notin {"ready"} \cup Waiting
  /\ t.pc # "ready" => t.op \in Request
  /\ t.pc \in {"put", "store", "ack"} => t.op.kind = "Put"
  /\ t.pc \in {"wag", "poll", "wag_reply"} => t.op.kind = "WaitAndGet"
  /\ t.pc \in {"get", "copy"} => t.op.kind # "Put"
  /\ t.pc = "reply" => t.op.kind = "Get"
  /\ t.pc = "copy" => t.val # None
  /\ t.pc = "send" /\ t.op.kind # "Put" => t.val # None

ThreadsOK == \A n \in Node : \A i \in 1 .. Len(thread[n]) : ThreadOK(thread[n][i], i)

TypeInv == TypeOK /\ ThreadsOK

-----------------------------------------------------------------------------
(* The steps that several actions share.                                   *)

(* Main is the index of a thread of every node, whose record is a Thread.  *)
LEMMA ThreadTypes ==
  ASSUME TypeOK, NEW n \in Node
  PROVE  /\ Main \in 1 .. Len(thread[n])
         /\ Len(thread[n]) \in Nat
         /\ \A i \in 1 .. Len(thread[n]) : thread[n][i] \in Thread
<1>1. thread[n] \in Seq(Thread) /\ thread[n] # <<>>
  BY DEF TypeOK
<1>2. Len(thread[n]) \in Nat \ {0}
  BY <1>1, EmptySeq
<1>3. \A i \in 1 .. Len(thread[n]) : thread[n][i] \in Thread
  BY <1>1, ElementOfSeq
<1> QED  BY <1>2, <1>3 DEF Main

(* The step replaces the record of one thread.                             *)
Replaces(n, i, t) == thread' = [thread EXCEPT ![n][i] = t]

(* It leaves the other threads as they are.                                *)
LEMMA UpdateEffect ==
  ASSUME TypeOK, NEW n \in Node, NEW i \in 1 .. Len(thread[n]), NEW t \in Thread,
         Replaces(n, i, t)
  PROVE  /\ thread' \in [Node -> Seq(Thread)]
         /\ \A m \in Node : Len(thread'[m]) = Len(thread[m]) /\ thread'[m] # <<>>
         /\ \A m \in Node : \A j \in 1 .. Len(thread[m]) :
              thread'[m][j] = IF m = n /\ j = i THEN t ELSE thread[m][j]
<1> DEFINE s == [thread[n] EXCEPT ![i] = t]
<1>1. thread[n] \in Seq(Thread) /\ thread \in [Node -> Seq(Thread)]
  BY DEF TypeOK
<1>2. /\ s \in Seq(Thread)
      /\ Len(s) = Len(thread[n])
      /\ \A j \in 1 .. Len(thread[n]) : s[j] = IF j = i THEN t ELSE thread[n][j]
  BY <1>1, ExceptSeq
<1>3. \A m \in Node : thread'[m] = IF m = n THEN s ELSE thread[m]
  BY <1>1 DEF Replaces
<1>4. s # <<>>
  BY <1>2, EmptySeq
<1>5. thread' = [thread EXCEPT ![n] = s]
  BY <1>1 DEF Replaces
<1> HIDE DEF s
<1> QED  BY <1>1, <1>2, <1>3, <1>4, <1>5 DEF TypeOK

LEMMA SetThreadEffect ==
  ASSUME TypeOK, NEW n \in Node, NEW i \in 1 .. Len(thread[n]),
         NEW pc \in Pc, NEW val \in Data \cup {None}, SetThread(n, i, pc, val)
  PROVE  LET t == [thread[n][i] EXCEPT !.pc = pc, !.val = val] IN
         /\ t \in Thread
         /\ t.pc = pc /\ t.val = val /\ t.op = thread[n][i].op /\ t.from = thread[n][i].from
         /\ Replaces(n, i, t)
<1>1. thread[n][i] \in Thread /\ thread \in [Node -> Seq(Thread)]
  BY ThreadTypes DEF TypeOK
<1> QED  BY <1>1 DEF SetThread, Thread, Replaces

LEMMA StartCallEffect ==
  ASSUME TypeOK, NEW n \in Node, NEW pc \in Pc, CurrentCall(n) \in Call, StartCall(n, pc)
  PROVE  LET t == [thread[n][Main] EXCEPT !.pc = pc, !.op = CurrentCall(n)] IN
         /\ t \in Thread
         /\ t.pc = pc /\ t.op = CurrentCall(n)
         /\ t.val = thread[n][Main].val /\ t.from = thread[n][Main].from
         /\ Replaces(n, Main, t)
<1>1. thread[n][Main] \in Thread /\ thread \in [Node -> Seq(Thread)]
  BY ThreadTypes DEF TypeOK
<1> QED  BY <1>1 DEF StartCall, Thread, Replaces

(* A handler is added behind the other threads.                            *)
LEMMA SpawnEffect ==
  ASSUME TypeOK, NEW n \in Node, NEW t \in Thread,
         thread' = [thread EXCEPT ![n] = Append(@, t)]
  PROVE  /\ thread' \in [Node -> Seq(Thread)]
         /\ \A m \in Node : /\ Len(thread'[m]) = IF m = n THEN Len(thread[m]) + 1 ELSE Len(thread[m])
                            /\ thread'[m] # <<>>
         /\ \A m \in Node : \A j \in 1 .. Len(thread[m]) : thread'[m][j] = thread[m][j]
         /\ thread'[n][Len(thread[n]) + 1] = t
<1>1. thread[n] \in Seq(Thread) /\ thread \in [Node -> Seq(Thread)]
  BY DEF TypeOK
<1>2. /\ Append(thread[n], t) \in Seq(Thread)
      /\ Append(thread[n], t) # <<>>
      /\ Len(Append(thread[n], t)) = Len(thread[n]) + 1
      /\ \A j \in 1 .. Len(thread[n]) : Append(thread[n], t)[j] = thread[n][j]
      /\ Append(thread[n], t)[Len(thread[n]) + 1] = t
  BY <1>1, AppendProperties
<1>3. \A m \in Node : thread'[m] = IF m = n THEN Append(thread[n], t) ELSE thread[m]
  BY <1>1
<1> QED  BY <1>1, <1>2, <1>3 DEF TypeOK

(* A message is put behind those that are on the wire.                     *)
LEMMA SendEffect ==
  ASSUME TypeOK, NEW n \in Node, NEW d \in Node, NEW msg \in Message,
         wire' = [wire EXCEPT ![n][d] = Append(@, msg)]
  PROVE  /\ wire' \in [Node -> [Node -> Seq(Message)]]
         /\ \A x, y \in Node : x # n \/ y # d => wire'[x][y] = wire[x][y]
         /\ Len(wire[n][d]) \in Nat
         /\ Len(wire'[n][d]) = Len(wire[n][d]) + 1
         /\ \A j \in 1 .. Len(wire[n][d]) : wire'[n][d][j] = wire[n][d][j]
         /\ wire'[n][d][Len(wire[n][d]) + 1] = msg
<1>1. wire[n][d] \in Seq(Message) /\ wire \in [Node -> [Node -> Seq(Message)]]
  BY DEF TypeOK
<1>2. /\ Append(wire[n][d], msg) \in Seq(Message)
      /\ Len(Append(wire[n][d], msg)) = Len(wire[n][d]) + 1
      /\ \A j \in 1 .. Len(wire[n][d]) : Append(wire[n][d], msg)[j] = wire[n][d][j]
      /\ Append(wire[n][d], msg)[Len(wire[n][d]) + 1] = msg
  BY <1>1, AppendProperties
<1>3. wire'[n][d] = Append(wire[n][d], msg)
  BY <1>1
<1>4. Len(wire[n][d]) \in Nat
  BY <1>1, LenProperties
<1> QED  BY <1>1, <1>2, <1>3, <1>4

(* The monitor goes to another place of its loop.                          *)
LEMMA MonitorEffect ==
  ASSUME TypeOK, NEW n \in Node, NEW pc \in {"select", "recv", "stopped"},
         monitor' = [monitor EXCEPT ![n].pc = pc]
  PROVE  monitor' \in [Node -> [pc : {"select", "recv", "stopped"}, from : Node]]
<1>1. monitor[n] \in [pc : {"select", "recv", "stopped"}, from : Node]
  BY DEF TypeOK
<1>2. [monitor[n] EXCEPT !.pc = pc] \in [pc : {"select", "recv", "stopped"}, from : Node]
  BY <1>1
<1> QED  BY <1>2 DEF TypeOK

(* recv() takes the first message, and those that came with it.            *)
LEMMA ReceiveEffect ==
  ASSUME TypeOK, NEW n \in Node, NEW msg, Receive(n, msg)
  PROVE  LET m == monitor[n].from IN
         /\ m \in Node
         /\ Len(wire[m][n]) \in Nat \ {0}
         /\ msg = wire[m][n][1]
         /\ msg \in Message
         /\ monitor' \in [Node -> [pc : {"select", "recv", "stopped"}, from : Node]]
         /\ wire' \in [Node -> [Node -> Seq(Message)]]
         /\ \A x, y \in Node : x # m \/ y # n => wire'[x][y] = wire[x][y]
         /\ \E k \in 1 .. Len(wire[m][n]) :
              /\ Len(wire'[m][n]) = Len(wire[m][n]) - k
              /\ \A j \in 1 .. Len(wire'[m][n]) : wire'[m][n][j] = wire[m][n][j + k]
<1> DEFINE m == monitor[n].from
           w == wire[m][n]
<1>1. m \in Node /\ w \in Seq(Message) /\ wire \in [Node -> [Node -> Seq(Message)]]
  BY DEF TypeOK
<1>2. w # <<>> /\ msg = Head(w)
  BY DEF Receive
<1>3. Len(w) \in Nat \ {0}
  BY <1>1, <1>2, EmptySeq
<1>4. msg = w[1] /\ msg \in Message
  BY <1>1, <1>2, <1>3, HeadTailProperties
<1>5. PICK k \in 1 .. MaxBatch : /\ k <= Len(w)
                                 /\ wire' = [wire EXCEPT ![m][n] = SubSeq(@, k + 1, Len(@))]
  BY DEF Receive
<1>6. k \in 1 .. Len(w)
  BY <1>3, <1>5, MaxBatchAssumption
<1>7. \A j \in k + 1 .. Len(w) : w[j] \in Message
  BY <1>1, <1>6, <1>3, ElementOfSeq
<1>8. /\ SubSeq(w, k + 1, Len(w)) \in Seq(Message)
      /\ Len(SubSeq(w, k + 1, Len(w))) = IF k + 1 <= Len(w) THEN Len(w) - (k + 1) + 1 ELSE 0
      /\ \A j \in 1 .. Len(w) - (k + 1) + 1 : SubSeq(w, k + 1, Len(w))[j] = w[(k + 1) + j - 1]
  BY <1>3, <1>6, <1>7, SubSeqProperties
<1>9. wire'[m][n] = SubSeq(w, k + 1, Len(w))
  BY <1>1, <1>5
<1>10. Len(wire'[m][n]) = Len(w) - k
  BY <1>3, <1>6, <1>8, <1>9
<1>11. \A j \in 1 .. Len(wire'[m][n]) : wire'[m][n][j] = w[j + k]
  BY <1>3, <1>6, <1>8, <1>9, <1>10
<1>12. /\ wire' \in [Node -> [Node -> Seq(Message)]]
       /\ \A x, y \in Node : x # m \/ y # n => wire'[x][y] = wire[x][y]
  BY <1>1, <1>5, <1>8
<1>13. monitor' \in [Node -> [pc : {"select", "recv", "stopped"}, from : Node]]
  BY MonitorEffect DEF Receive
<1> QED  BY <1>1, <1>3, <1>4, <1>6, <1>10, <1>11, <1>12, <1>13

(* A put makes the blob a pointer refers to be garbage, if it replaces it, *)
(* and otherwise changes its own thread only.                              *)
LEMMA PutStoreEffect ==
  ASSUME TypeOK, NEW n \in Node, NEW i \in 1 .. Len(thread[n]), PutStore(n, i)
  PROVE  /\ thread' \in [Node -> Seq(Thread)]
         /\ \A m \in Node : Len(thread'[m]) = Len(thread[m]) /\ thread'[m] # <<>>
         /\ \A m \in Node : m # n => thread'[m] = thread[m]
         /\ thread'[n][i] = [thread[n][i] EXCEPT !.pc = IF i = Main THEN "ready" ELSE "send"]
         /\ \A j \in 1 .. Len(thread[n]) :
              j # i => \/ thread'[n][j] = thread[n][j]
                       \/ /\ thread[n][j].pc = "copy"
                          /\ thread'[n][j] = [thread[n][j] EXCEPT !.val = Garbage]
<1> DEFINE op == thread[n][i].op
           Dangling(j) == /\ thread[n][j].pc = "copy"
                          /\ thread[n][j].op.key = op.key
                          /\ map_[n][op.key] # None
           Stored(j) == IF j = i
                        THEN [thread[n][i] EXCEPT !.pc = IF i = Main THEN "ready" ELSE "send"]
                        ELSE IF Dangling(j) THEN [thread[n][j] EXCEPT !.val = Garbage]
                        ELSE thread[n][j]
           s == [j \in 1 .. Len(thread[n]) |-> Stored(j)]
<1>1. thread' = [thread EXCEPT ![n] = s] /\ thread \in [Node -> Seq(Thread)]
  BY DEF PutStore, TypeOK
<1>2. /\ Len(thread[n]) \in Nat
      /\ \A j \in 1 .. Len(thread[n]) : thread[n][j] \in Thread
  BY ThreadTypes
<1>3. \A j \in 1 .. Len(thread[n]) : Stored(j) \in Thread
  BY <1>2 DEF Thread, Pc, Data
<1>4. s \in Seq(Thread)
  <2> HIDE DEF Stored
  <2> QED  BY <1>2, <1>3, IsASeq
<1>5. Len(s) = Len(thread[n]) /\ \A j \in 1 .. Len(thread[n]) : s[j] = Stored(j)
  BY <1>2, <1>4, LenProperties
<1>6. s # <<>>
  BY <1>4, <1>5, EmptySeq, ThreadTypes
<1>7. \A m \in Node : thread'[m] = IF m = n THEN s ELSE thread[m]
  BY <1>1
<1> HIDE DEF s
<1> QED  BY <1>1, <1>4, <1>5, <1>6, <1>7 DEF TypeOK

-----------------------------------------------------------------------------
(* Type correctness.                                                       *)

LEMMA UpdateKeepsThreads ==
  ASSUME TypeInv, NEW n \in Node, NEW i \in 1 .. Len(thread[n]), NEW t \in Thread,
         ThreadOK(t, i), Replaces(n, i, t)
  PROVE  /\ thread' \in [Node -> Seq(Thread)]
         /\ \A m \in Node : thread'[m] # <<>>
         /\ ThreadsOK'
<1>1. /\ thread' \in [Node -> Seq(Thread)]
      /\ \A m \in Node : Len(thread'[m]) = Len(thread[m]) /\ thread'[m] # <<>>
      /\ \A m \in Node : \A j \in 1 .. Len(thread[m]) :
           thread'[m][j] = IF m = n /\ j = i THEN t ELSE thread[m][j]
  <2>1. TypeOK
    BY DEF TypeInv
  <2> QED  BY <2>1, UpdateEffect
<1>2. ASSUME NEW m \in Node, NEW j \in 1 .. Len(thread'[m])
      PROVE  ThreadOK(thread'[m][j], j)
  <2>1. j \in 1 .. Len(thread[m])
    BY <1>1
  <2>2. ThreadOK(thread[m][j], j)
    BY <2>1 DEF TypeInv, ThreadsOK
  <2>3. (thread'[m][j] = t /\ j = i) \/ thread'[m][j] = thread[m][j]
    BY <1>1, <2>1
  <2> HIDE DEF ThreadOK
  <2> QED  BY <2>2, <2>3
<1> QED  BY <1>1, <1>2 DEF ThreadsOK

LEMMA CurrentCallType ==
  ASSUME TypeOK, NEW n \in Node, HasCall(n)
  PROVE  CurrentCall(n) \in Call
<1>1. prog[n] \in Seq(Call) /\ ip[n] \in 1 .. Len(prog[n])
  BY ProgramsAssumption DEF TypeOK, HasCall
<1> QED  BY <1>1, ElementOfSeq DEF CurrentCall

LEMMA InitTypeInv == Init => TypeInv
<1> SUFFICES ASSUME Init PROVE TypeInv
  OBVIOUS
<1> DEFINE start(n) == [pc |-> "ready", op |-> Done, from |-> n, val |-> None]
<1>1. ASSUME NEW n \in Node
      PROVE  /\ thread[n] \in Seq(Thread) /\ thread[n] # <<>>
             /\ \A i \in 1 .. Len(thread[n]) : ThreadOK(thread[n][i], i)
  <2>1. thread[n] = <<start(n)>>
    BY DEF Init
  <2>2. start(n) \in Thread
    BY DEF Thread, Pc, Call
  <2>3. ThreadOK(start(n), 1)
    BY DEF ThreadOK, Main, Waiting
  <2> HIDE DEF start
  <2>4. /\ thread[n] \in Seq(Thread) /\ thread[n] # <<>>
        /\ Len(thread[n]) = 1 /\ thread[n][1] = start(n)
    BY <2>1, <2>2
  <2>5. \A i \in 1 .. 1 : i = 1
    OBVIOUS
  <2> QED  BY <2>3, <2>4, <2>5
<1>2. ThreadsOK
  BY <1>1 DEF ThreadsOK
<1>3. wire \in [Node -> [Node -> Seq(Message)]]
  BY DEF Init
<1>4. TypeOK
  BY <1>1, <1>3, InitCapacityAssumption DEF TypeOK, Init
<1> QED  BY <1>2, <1>4 DEF TypeInv

(* What a step does to the threads, as far as types are concerned.         *)
ThreadTypesKept == /\ thread' \in [Node -> Seq(Thread)]
                   /\ \A m \in Node : thread'[m] # <<>>
                   /\ ThreadsOK'

LEMMA StartCallType ==
  ASSUME TypeInv, NEW n \in Node, HasCall(n), CurrentCall(n) \in Request, NEW pc \in Pc,
         StartCall(n, pc), pc \in {LocalEntry(CurrentCall(n)), RemoteEntry(CurrentCall(n))}
  PROVE  ThreadTypesKept
<1> DEFINE t == [thread[n][Main] EXCEPT !.pc = pc, !.op = CurrentCall(n)]
<1>1. TypeOK /\ CurrentCall(n) \in Call
  BY DEF TypeInv, Call
<1>2. /\ t \in Thread /\ t.pc = pc /\ t.op = CurrentCall(n)
      /\ Replaces(n, Main, t)
  BY <1>1, StartCallEffect
<1>3. ThreadOK(t, Main)
  <2> HIDE DEF t
  <2>1. CurrentCall(n).kind \in {"Put", "Get", "WaitAndGet"}
    BY DEF Request
  <2> QED  BY <1>2, <2>1 DEF ThreadOK, Waiting, LocalEntry, RemoteEntry
<1> QED
  <2> HIDE DEF t
  <2> QED  BY <1>1, <1>2, <1>3, ThreadTypes, UpdateKeepsThreads DEF ThreadTypesKept

LEMMA SetThreadType ==
  ASSUME TypeInv, NEW n \in Node, NEW i \in 1 .. Len(thread[n]),
         NEW pc \in Pc, NEW val \in Data \cup {None}, SetThread(n, i, pc, val),
         ThreadOK([thread[n][i] EXCEPT !.pc = pc, !.val = val], i)
  PROVE  ThreadTypesKept
<1> DEFINE t == [thread[n][i] EXCEPT !.pc = pc, !.val = val]
<1>1. TypeOK
  BY DEF TypeInv
<1>2. t \in Thread /\ Replaces(n, i, t)
  BY <1>1, SetThreadEffect
<1>3. ThreadOK(t, i)
  OBVIOUS
<1> HIDE DEF t
<1> QED  BY <1>2, <1>3, UpdateKeepsThreads DEF ThreadTypesKept

LEMMA CompleteType ==
  ASSUME TypeInv, NEW n \in Node, NEW i \in 1 .. Len(thread[n]), NEW val \in Data \cup {None},
         thread[n][i].pc # "ready", i # Main => val # None, Complete(n, i, val)
  PROVE  ThreadTypesKept /\ ip' \in [Node -> Nat \ {0}]
<1> DEFINE pc == IF i = Main THEN "ready" ELSE "send"
<1>1. thread[n][i] \in Thread /\ ThreadOK(thread[n][i], i)
  BY ThreadTypes DEF TypeInv, ThreadsOK
<1>2. pc \in Pc /\ SetThread(n, i, pc, val)
  BY DEF Complete, Pc
<1>3. ThreadOK([thread[n][i] EXCEPT !.pc = pc, !.val = val], i)
  BY <1>1 DEF ThreadOK, Thread, Waiting
<1>4. ip' \in [Node -> Nat \ {0}]
  BY DEF Complete, TypeInv, TypeOK
<1> HIDE DEF pc
<1> QED  BY <1>2, <1>3, <1>4, SetThreadType

(* The end of a process keeps the types.                                   *)
LEMMA DieType ==
  ASSUME TypeInv, NEW n \in Node, NEW how \in {"finished", "failed", "crashed"}, Die(n, how)
  PROVE  TypeInv'
BY DEF Die, TypeInv, TypeOK, ThreadsOK, mapVars, slots

(* The main thread keeps the types.                                        *)
LEMMA MainStepType ==
  ASSUME TypeInv, NEW n \in Node, MainStep(n)
  PROVE  TypeInv'
<1>1. TypeOK /\ ThreadsOK
  BY DEF TypeInv
<1>2. Main \in 1 .. Len(thread[n]) /\ MainThread(n) \in Thread /\ ThreadOK(MainThread(n), Main)
  BY <1>1, ThreadTypes DEF MainThread, ThreadsOK
<1>3. CASE BeginLocal(n)
  <2>1. CurrentCall(n) \in Request /\ StartCall(n, LocalEntry(CurrentCall(n))) /\ HasCall(n)
    BY <1>3 DEF BeginLocal
  <2>2. LocalEntry(CurrentCall(n)) \in Pc
    BY <2>1 DEF LocalEntry, Request, Pc
  <2>3. ThreadTypesKept
    BY <2>1, <2>2, StartCallType
  <2> QED  BY <1>1, <1>3, <2>3 DEF BeginLocal, TypeInv, TypeOK, ThreadTypesKept, mapVars, slots
<1>4. CASE BeginRemote(n)
  <2>1. /\ CurrentCall(n) \in Request /\ StartCall(n, RemoteEntry(CurrentCall(n))) /\ HasCall(n)
        /\ wire' = [wire EXCEPT ![n][Home[CurrentCall(n).key]] = Append(@, CurrentCall(n))]
    BY <1>4 DEF BeginRemote, IsRemote
  <2>2. RemoteEntry(CurrentCall(n)) \in Pc
    BY <2>1 DEF RemoteEntry, Request, Pc
  <2>3. ThreadTypesKept
    BY <2>1, <2>2, StartCallType
  <2>4. Home[CurrentCall(n).key] \in Node /\ CurrentCall(n) \in Message
    BY <2>1, HomeAssumption DEF Request, Message
  <2>5. wire' \in [Node -> [Node -> Seq(Message)]]
    BY <1>1, <2>1, <2>4, SendEffect
  <2> QED  BY <1>1, <1>4, <2>3, <2>5 DEF BeginRemote, TypeInv, TypeOK, ThreadTypesKept, mapVars, slots
<1>5. CASE ReturnPut(n)
  <2>1. ThreadTypesKept /\ ip' \in [Node -> Nat \ {0}]
    BY <1>2, <1>5, CompleteType DEF ReturnPut, MainThread
  <2> QED  BY <1>1, <1>5, <2>1 DEF ReturnPut, TypeInv, TypeOK, ThreadTypesKept, mapVars
<1>6. CASE ReturnGet(n)
  <2>1. reply_data_[n] \in Data \cup {None}
    BY <1>1 DEF TypeOK
  <2>2. ThreadTypesKept /\ ip' \in [Node -> Nat \ {0}]
    BY <1>2, <1>6, <2>1, CompleteType DEF ReturnGet, MainThread
  <2> QED  BY <1>1, <1>6, <2>2 DEF ReturnGet, TypeInv, TypeOK, ThreadTypesKept, mapVars
<1>7. CASE ReturnWag(n)
  <2>1. wag_reply_data_[n] \in Data \cup {None}
    BY <1>1 DEF TypeOK
  <2>2. ThreadTypesKept /\ ip' \in [Node -> Nat \ {0}]
    BY <1>2, <1>7, <2>1, CompleteType DEF ReturnWag, MainThread
  <2> QED  BY <1>1, <1>7, <2>2 DEF ReturnWag, TypeInv, TypeOK, ThreadTypesKept, mapVars
<1>8. CASE CallDone(n)
  <2>1. CASE Die(n, "crashed")
    BY <2>1, DieType
  <2>2. CASE /\ has_shutdown' = [has_shutdown EXCEPT ![n] = TRUE]
             /\ ip' = [ip EXCEPT ![n] = @ + 1]
             /\ UNCHANGED <<prog, thread, monitor, mapVars, slots, wire, status>>
    <3>1. ip' \in [Node -> Nat \ {0}] /\ has_shutdown' \in [Node -> BOOLEAN]
      BY <1>1, <2>2 DEF TypeOK
    <3> QED  BY <1>1, <2>2, <3>1 DEF TypeInv, TypeOK, ThreadsOK, mapVars, slots
  <2> QED  BY <1>8, <2>1, <2>2 DEF CallDone
<1>9. CASE Finish(n)
  BY <1>9, DieType DEF Finish
<1> QED  BY <1>3, <1>4, <1>5, <1>6, <1>7, <1>8, <1>9 DEF MainStep

(* The local branches keep the types.                                      *)
LEMMA ThreadStepType ==
  ASSUME TypeInv, NEW n \in Node, NEW i \in 1 .. Len(thread[n]), ThreadStep(n, i)
  PROVE  TypeInv'
<1>1. TypeOK /\ ThreadsOK
  BY DEF TypeInv
<1>2. thread[n][i] \in Thread /\ ThreadOK(thread[n][i], i)
  BY <1>1, ThreadTypes DEF ThreadsOK
<1>3. i \in Nat
  BY <1>1, ThreadTypes
<1>4. CASE PutLock(n, i)
  <2>1. SetThread(n, i, "store", None) /\ thread[n][i].pc = "put"
    BY <1>4 DEF PutLock, At
  <2>2. ThreadOK([thread[n][i] EXCEPT !.pc = "store", !.val = None], i)
    BY <1>2, <2>1 DEF ThreadOK, Thread, Waiting
  <2>3. ThreadTypesKept
    BY <2>1, <2>2, SetThreadType DEF Pc
  <2> QED  BY <1>1, <1>3, <1>4, <2>3 DEF PutLock, TypeInv, TypeOK, ThreadTypesKept, slots
<1>5. CASE PutStore(n, i)
  <2>1. thread[n][i].pc = "store" /\ thread[n][i].op \in Request /\ thread[n][i].op.kind = "Put"
    BY <1>2, <1>5 DEF PutStore, At, ThreadOK
  <2>2. ASSUME NEW m \in Node, NEW j \in 1 .. Len(thread'[m])
        PROVE  ThreadOK(thread'[m][j], j)
    <3>1. j \in 1 .. Len(thread[m])
      BY <1>1, <1>5, PutStoreEffect
    <3>2. thread[m][j] \in Thread /\ ThreadOK(thread[m][j], j)
      BY <1>1, <3>1, ThreadTypes DEF ThreadsOK
    <3>3. \/ thread'[m][j] = thread[m][j]
          \/ thread'[m][j] = [thread[m][j] EXCEPT !.val = Garbage]
          \/ /\ m = n /\ j = i
             /\ thread'[m][j] = [thread[n][i] EXCEPT !.pc = IF i = Main THEN "ready" ELSE "send"]
      BY <1>1, <1>5, <3>1, PutStoreEffect
    <3>4. CASE thread'[m][j] = [thread[m][j] EXCEPT !.val = Garbage]
      BY <3>2, <3>4, GarbageAssumption DEF ThreadOK, Thread
    <3>5. CASE /\ m = n /\ j = i
               /\ thread'[m][j] = [thread[n][i] EXCEPT !.pc = IF i = Main THEN "ready" ELSE "send"]
      BY <1>2, <2>1, <3>5 DEF ThreadOK, Thread, Waiting
    <3> QED  BY <3>2, <3>3, <3>4, <3>5
  <2>3. ThreadTypesKept
    BY <1>1, <1>5, <2>2, PutStoreEffect DEF ThreadTypesKept, ThreadsOK
  <2>4. map_' \in [Node -> [Key -> Value \cup {None}]]
    BY <1>1, <1>5, <2>1 DEF PutStore, TypeOK, Request
  <2>5. /\ capacity_' \in [Node -> Nat] /\ mtx_' \in [Node -> Nat] /\ ip' \in [Node -> Nat \ {0}]
        /\ UNCHANGED <<prog, monitor, slots, has_shutdown, wire, status>>
    BY <1>1, <1>5 DEF PutStore, TypeOK
  <2> QED  BY <1>1, <2>3, <2>4, <2>5 DEF TypeInv, TypeOK, ThreadTypesKept, slots
<1>6. CASE MapContains(n, i)
  <2> DEFINE pc == IF map_[n][thread[n][i].op.key] # None THEN "get" ELSE "poll"
  <2>1. SetThread(n, i, pc, None) /\ thread[n][i].pc \in {"wag", "poll"}
    BY <1>6 DEF MapContains, At
  <2>2. pc \in {"get", "poll"}
    OBVIOUS
  <2> HIDE DEF pc
  <2>3. ThreadOK([thread[n][i] EXCEPT !.pc = pc, !.val = None], i)
    BY <1>2, <2>1, <2>2 DEF ThreadOK, Thread, Waiting
  <2>4. ThreadTypesKept
    BY <2>1, <2>2, <2>3, SetThreadType DEF Pc
  <2> QED  BY <1>1, <1>6, <2>4 DEF MapContains, TypeInv, TypeOK, ThreadTypesKept, slots, mapVars
<1>7. CASE GetLookup(n, i)
  <2> DEFINE v == map_[n][thread[n][i].op.key]
  <2>1. SetThread(n, i, "copy", v) /\ thread[n][i].pc = "get" /\ v # None
    BY <1>7 DEF GetLookup, At
  <2>2. v \in Data \cup {None}
    BY <1>1, <1>2, <2>1 DEF TypeOK, Data, ThreadOK, Request
  <2> HIDE DEF v
  <2>3. ThreadOK([thread[n][i] EXCEPT !.pc = "copy", !.val = v], i)
    BY <1>2, <2>1 DEF ThreadOK, Thread, Waiting
  <2>4. ThreadTypesKept
    BY <2>1, <2>2, <2>3, SetThreadType DEF Pc
  <2> QED  BY <1>1, <1>7, <2>4 DEF GetLookup, TypeInv, TypeOK, ThreadTypesKept, slots, mapVars
<1>8. CASE GetCopy(n, i)
  <2>1. thread[n][i].pc = "copy" /\ thread[n][i].val \in Data \cup {None} /\ thread[n][i].val # None
    BY <1>2, <1>8 DEF GetCopy, At, ThreadOK, Thread
  <2>2. CASE Complete(n, i, thread[n][i].val)
             /\ UNCHANGED <<prog, monitor, mapVars, slots, has_shutdown, wire, status>>
    <3>1. ThreadTypesKept /\ ip' \in [Node -> Nat \ {0}]
      BY <2>1, <2>2, CompleteType
    <3> QED  BY <1>1, <2>2, <3>1 DEF TypeInv, TypeOK, ThreadTypesKept, slots, mapVars
  <2>3. CASE Die(n, "crashed")
    BY <2>3, DieType
  <2> QED  BY <1>8, <2>2, <2>3 DEF GetCopy
<1>9. CASE SendAnswer(n, i)
  <2> DEFINE t == thread[n][i]
  <2>1. SetThread(n, i, "done", None) /\ t.pc = "send"
    BY <1>9 DEF SendAnswer, At
  <2>2. i # Main
    BY <1>2, <2>1 DEF ThreadOK
  <2>3. ThreadOK([t EXCEPT !.pc = "done", !.val = None], i)
    BY <1>2, <2>1, <2>2 DEF ThreadOK, Thread, Waiting
  <2>4. ThreadTypesKept
    BY <2>1, <2>3, SetThreadType DEF Pc
  <2>5. t.from \in Node /\ AnswerTo(t) \in Message
    BY <1>2, <2>1 DEF ThreadOK, Thread, AnswerTo, Message, Answer, Reply, Request
  <2>6. wire' \in [Node -> [Node -> Seq(Message)]]
    BY <1>1, <1>9, <2>5, SendEffect DEF SendAnswer
  <2> QED  BY <1>1, <1>9, <2>4, <2>6 DEF SendAnswer, TypeInv, TypeOK, ThreadTypesKept, slots, mapVars
<1>10. CASE ContainsDuringGrow(n, i) \/ GetAssertFails(n, i)
  BY <1>10, DieType DEF ContainsDuringGrow, GetAssertFails
<1> QED  BY <1>4, <1>5, <1>6, <1>7, <1>8, <1>9, <1>10 DEF ThreadStep

(* The monitor keeps the types.                                            *)
LEMMA MonitorStepType ==
  ASSUME TypeInv, NEW n \in Node, MonitorStep(n)
  PROVE  TypeInv'
<1>1. TypeOK /\ ThreadsOK
  BY DEF TypeInv
<1>2. CASE \/ \E m \in Node : Select(n, m)
           \/ StopMonitor(n) \/ ReceiveEof(n)
  <2>1. monitor' \in [Node -> [pc : {"select", "recv", "stopped"}, from : Node]]
    <3>1. ASSUME NEW m \in Node, Select(n, m)
          PROVE  monitor' \in [Node -> [pc : {"select", "recv", "stopped"}, from : Node]]
      BY <1>1, <3>1 DEF Select, TypeOK
    <3>2. CASE StopMonitor(n) \/ ReceiveEof(n)
      BY <1>1, <3>2, MonitorEffect DEF StopMonitor, ReceiveEof
    <3> QED  BY <1>2, <3>1, <3>2
  <2>2. /\ has_shutdown' \in [Node -> BOOLEAN]
        /\ UNCHANGED <<prog, ip, thread, map_, capacity_, mtx_, ack_recvd_, reply_data_,
                       wag_reply_data_, wire, status>>
    BY <1>1, <1>2 DEF Select, StopMonitor, ReceiveEof, TypeOK, slots, mapVars
  <2> QED  BY <1>1, <2>1, <2>2 DEF TypeInv, TypeOK, ThreadsOK
<1>3. CASE ReceiveAck(n)
  <2>1. /\ wire' \in [Node -> [Node -> Seq(Message)]]
        /\ monitor' \in [Node -> [pc : {"select", "recv", "stopped"}, from : Node]]
    BY <1>1, <1>3, ReceiveEffect DEF ReceiveAck
  <2> QED  BY <1>1, <1>3, <2>1 DEF ReceiveAck, TypeInv, TypeOK, ThreadsOK, mapVars
<1>4. CASE ReceiveReply(n)
  <2>1. PICK req \in {"Get", "WaitAndGet"}, v \in Data :
          /\ Receive(n, Reply(req, v))
          /\ IF req = "WaitAndGet"
             THEN /\ wag_reply_data_' = [wag_reply_data_ EXCEPT ![n] = v]
                  /\ UNCHANGED reply_data_
             ELSE /\ reply_data_' = [reply_data_ EXCEPT ![n] = v]
                  /\ UNCHANGED wag_reply_data_
          /\ UNCHANGED <<prog, ip, thread, mapVars, ack_recvd_, has_shutdown, status>>
    BY <1>4 DEF ReceiveReply
  <2>2. /\ wire' \in [Node -> [Node -> Seq(Message)]]
        /\ monitor' \in [Node -> [pc : {"select", "recv", "stopped"}, from : Node]]
    BY <1>1, <2>1, ReceiveEffect
  <2>3. /\ reply_data_' \in [Node -> Data \cup {None}]
        /\ wag_reply_data_' \in [Node -> Data \cup {None}]
    <3>1. /\ reply_data_ \in [Node -> Data \cup {None}]
          /\ wag_reply_data_ \in [Node -> Data \cup {None}]
      BY <1>1 DEF TypeOK
    <3>2. CASE req = "WaitAndGet"
      BY <2>1, <3>1, <3>2
    <3>3. CASE req # "WaitAndGet"
      BY <2>1, <3>1, <3>3
    <3> QED  BY <3>2, <3>3
  <2>4. UNCHANGED <<prog, ip, thread, map_, capacity_, mtx_, ack_recvd_, has_shutdown, status>>
    BY <2>1 DEF mapVars
  <2> QED  BY <1>1, <2>2, <2>3, <2>4 DEF TypeInv, TypeOK, ThreadsOK
<1>5. CASE ReceiveRequest(n)
  <2> DEFINE m == monitor[n].from
             op == Head(wire[m][n])
             t == Handler(m, op)
  <2>1. /\ op \in Request /\ Receive(n, op)
        /\ thread' = [thread EXCEPT ![n] = Append(@, t)]
    BY <1>5 DEF ReceiveRequest
  <2>2. /\ wire' \in [Node -> [Node -> Seq(Message)]] /\ m \in Node
        /\ monitor' \in [Node -> [pc : {"select", "recv", "stopped"}, from : Node]]
    BY <1>1, <2>1, ReceiveEffect
  <2>3. t \in Thread
    <3> HIDE DEF m, op
    <3> QED  BY <2>1, <2>2 DEF Handler, LocalEntry, Thread, Pc, Call, Request
  <2>4. t.pc = LocalEntry(op) /\ t.op = op
    BY DEF Handler
  <2> HIDE DEF m, op, t
  <2>5. ASSUME NEW x \in Node, NEW j \in 1 .. Len(thread'[x])
        PROVE  ThreadOK(thread'[x][j], j)
    <3>1. Len(thread[x]) \in Nat /\ Len(thread[x]) >= 1
      BY <1>1, ThreadTypes DEF Main
    <3>2. CASE j \in 1 .. Len(thread[x])
      BY <1>1, <2>1, <2>3, <3>2, SpawnEffect DEF ThreadsOK
    <3>3. CASE j \notin 1 .. Len(thread[x])
      <4>1. x = n /\ j = Len(thread[x]) + 1 /\ j # Main
        BY <1>1, <2>1, <2>3, <3>1, <3>3, SpawnEffect DEF Main
      <4>2. thread'[x][j] = t
        BY <1>1, <2>1, <2>3, <4>1, SpawnEffect
      <4>3. op.kind \in {"Put", "Get", "WaitAndGet"}
        BY <2>1 DEF Request
      <4> QED  BY <2>1, <2>4, <4>1, <4>2, <4>3 DEF ThreadOK, LocalEntry, Waiting
    <3> QED  BY <3>2, <3>3
  <2>6. ThreadTypesKept
    BY <1>1, <2>1, <2>3, <2>5, SpawnEffect DEF ThreadTypesKept, ThreadsOK
  <2> QED  BY <1>1, <1>5, <2>2, <2>6 DEF ReceiveRequest, TypeInv, TypeOK, ThreadTypesKept, mapVars, slots
<1>6. CASE ReceiveAfterShutdown(n)
  <2>1. CASE Die(n, "crashed")
    BY <2>1, DieType
  <2>2. CASE /\ monitor' = [monitor EXCEPT ![n].pc = "stopped"]
             /\ UNCHANGED <<prog, ip, thread, mapVars, slots, has_shutdown, wire, status>>
    <3>1. monitor' \in [Node -> [pc : {"select", "recv", "stopped"}, from : Node]]
      BY <1>1, <2>2, MonitorEffect
    <3> QED  BY <1>1, <2>2, <3>1 DEF TypeInv, TypeOK, ThreadsOK, slots, mapVars
  <2> QED  BY <1>6, <2>1, <2>2 DEF ReceiveAfterShutdown
<1> QED  BY <1>2, <1>3, <1>4, <1>5, <1>6 DEF MonitorStep

LEMMA TypeInvStep == TypeInv /\ [Next]_vars => TypeInv'
<1> SUFFICES ASSUME TypeInv, [Next]_vars PROVE TypeInv'
  OBVIOUS
<1>1. CASE UNCHANGED vars
  BY <1>1 DEF vars, TypeInv, TypeOK, ThreadsOK, slots, mapVars
<1>2. ASSUME NEW n \in Node, MainStep(n) PROVE TypeInv'
  BY <1>2, MainStepType
<1>3. ASSUME NEW n \in Node, NEW i \in 1 .. Len(thread[n]), ThreadStep(n, i) PROVE TypeInv'
  BY <1>3, ThreadStepType
<1>4. ASSUME NEW n \in Node, ExitStep(n) PROVE TypeInv'
  <2>1. Die(n, "failed")
    BY <1>4 DEF ExitStep, ExitAfterShutdown, SendFails
  <2> QED  BY <2>1, DieType
<1>5. ASSUME NEW n \in Node, MonitorStep(n) PROVE TypeInv'
  BY <1>5, MonitorStepType
<1> QED  BY <1>1, <1>2, <1>3, <1>4, <1>5 DEF Next

LEMMA TypeInvariant == Spec => []TypeInv
<1> QED  BY InitTypeInv, TypeInvStep, PTL DEF Spec

(* Every variable stays in its type, whatever the nodes, keys, blobs,      *)
(* applications and sizes of a recv().                                     *)
THEOREM TypeCorrect == Spec => []TypeOK
<1>1. TypeInv => TypeOK
  BY DEF TypeInv
<1> QED  BY <1>1, TypeInvariant, PTL

-----------------------------------------------------------------------------
(* Answers and calls.  Neither invariant is inductive alone: that a slot   *)
(* is free when an answer arrives follows from the call being in one       *)
(* place, and that a new call is alone from nothing being left over.       *)

NodeInv(n) == /\ SlotsMatch(n)
              /\ WaitMatches(n)
              /\ \A d \in Node : PlacesMatch(n, d) /\ OnePlace(n, d)

CallInv == \A n \in Node : NodeInv(n)

(* A request is no answer.                                                 *)
LEMMA RequestsAndAnswers ==
  /\ \A msg : ~(msg \in Request /\ msg \in Answer)
  /\ \A op \in Request : op.kind \in {"Put", "Get", "WaitAndGet"}
BY DEF Request, Answer, Ack

(* Nothing new is under way for node x, though messages may be lost.       *)
RequestsKept(x) == \A d \in Node : \E k \in Nat :
  \A i \in Requests(x, d)' : /\ i \in Nat
                             /\ i + k \in Requests(x, d)
                             /\ wire'[x][d][i] = wire[x][d][i + k]
AnswersKept(x) == \A d \in Node : \E k \in Nat :
  \A i \in Answers(x, d)' : /\ i \in Nat
                            /\ i + k \in Answers(x, d)
                            /\ wire'[d][x][i] = wire[d][x][i + k]
HandlersKept(x) == \A d \in Node :
  \A i \in Handlers(x, d)' : i \in Handlers(x, d) /\ thread'[d][i].op = thread[d][i].op
SlotsKept(x) == /\ ack_recvd_'[x] = ack_recvd_[x]
                /\ reply_data_'[x] = reply_data_[x]
                /\ wag_reply_data_'[x] = wag_reply_data_[x]
CallKept(x) == MainThread(x)' = MainThread(x) \/ (~InCall(x) /\ ~InCall(x)')

(* Then what was known of node x is known still.                           *)
LEMMA NodeFrame ==
  ASSUME NEW x \in Node, NodeInv(x),
         RequestsKept(x), AnswersKept(x), HandlersKept(x), SlotsKept(x), CallKept(x)
  PROVE  NodeInv(x)'
<1>1. SlotSet(x)' = SlotSet(x)
  BY DEF SlotSet, SlotsKept
<1>2. /\ InCall(x)' = InCall(x)
      /\ InCall(x) => MainThread(x)' = MainThread(x) /\ Destination(x)' = Destination(x)
  BY DEF CallKept, InCall, Destination
<1>3. SlotsMatch(x)' /\ WaitMatches(x)'
  BY <1>2 DEF NodeInv, SlotsMatch, SlotsKept, WaitMatches, InCall, Waiting
<1>4. ASSUME NEW d \in Node PROVE PlacesMatch(x, d)' /\ OnePlace(x, d)'
  <2>1. PlacesMatch(x, d) /\ OnePlace(x, d)
    BY DEF NodeInv
  <2>2. PICK k \in Nat : \A i \in Requests(x, d)' :
          i \in Nat /\ i + k \in Requests(x, d) /\ wire'[x][d][i] = wire[x][d][i + k]
    BY DEF RequestsKept
  <2>3. PICK l \in Nat : \A i \in Answers(x, d)' :
          i \in Nat /\ i + l \in Answers(x, d) /\ wire'[d][x][i] = wire[d][x][i + l]
    BY DEF AnswersKept
  <2>4. \A i \in Handlers(x, d)' : i \in Handlers(x, d) /\ thread'[d][i].op = thread[d][i].op
    BY DEF HandlersKept
  <2>5. /\ Requests(x, d) = {} => Requests(x, d)' = {}
        /\ Handlers(x, d) = {} => Handlers(x, d)' = {}
        /\ Answers(x, d) = {} => Answers(x, d)' = {}
    BY <2>2, <2>3, <2>4
  <2>6. \A i, j \in Requests(x, d)' : i = j
    <3>1. \A i, j \in Requests(x, d)' : i + k = j + k
      BY <2>1, <2>2 DEF OnePlace
    <3> QED  BY <2>2, <3>1
  <2>7. \A i, j \in Answers(x, d)' : i = j
    <3>1. \A i, j \in Answers(x, d)' : i + l = j + l
      BY <2>1, <2>3 DEF OnePlace
    <3> QED  BY <2>3, <3>1
  <2>8. \A i, j \in Handlers(x, d)' : i = j
    BY <2>1, <2>4 DEF OnePlace
  <2>9. OnePlace(x, d)'
    BY <1>1, <2>1, <2>5, <2>6, <2>7, <2>8 DEF OnePlace
  <2>10. PlacesMatch(x, d)'
    <3>1. CASE InCall(x)
      <4>1. MainThread(x)' = MainThread(x) /\ InCall(x)' /\ Destination(x)' = Destination(x)
        BY <1>2, <3>1
      <4> QED  BY <2>1, <2>2, <2>3, <2>4, <4>1 DEF PlacesMatch
    <3>2. CASE ~InCall(x)
      <4>1. Requests(x, d) = {} /\ Handlers(x, d) = {} /\ Answers(x, d) = {}
        BY <2>1, <3>2 DEF PlacesMatch
      <4> QED  BY <2>5, <4>1 DEF PlacesMatch
    <3> QED  BY <3>1, <3>2
  <2> QED  BY <2>9, <2>10
<1> QED  BY <1>3, <1>4 DEF NodeInv

(* A thread is replaced by one with the same call and the same client.     *)
LEMMA ReplaceKeepsHandlers ==
  ASSUME TypeInv, NEW n \in Node, NEW i \in 1 .. Len(thread[n]), NEW t \in Thread, Replaces(n, i, t),
         i # Main => /\ t.op = thread[n][i].op
                     /\ t.from = thread[n][i].from
                     /\ thread[n][i].pc # "done"
  PROVE  /\ \A x \in Node : HandlersKept(x)
         /\ \A x \in Node : MainThread(x)' = IF x = n /\ i = Main THEN t ELSE MainThread(x)
<1>1. TypeOK
  BY DEF TypeInv
<1>2. /\ \A m \in Node : Len(thread'[m]) = Len(thread[m])
      /\ \A m \in Node : \A j \in 1 .. Len(thread[m]) :
           thread'[m][j] = IF m = n /\ j = i THEN t ELSE thread[m][j]
  BY <1>1, UpdateEffect
<1>3. \A m \in Node : Len(thread[m]) \in Nat /\ Main \in 1 .. Len(thread[m])
  BY <1>1, ThreadTypes
<1>4. \A x \in Node : HandlersKept(x)
  <2>1. ASSUME NEW x \in Node, NEW d \in Node, NEW j \in Handlers(x, d)'
        PROVE  j \in Handlers(x, d) /\ thread'[d][j].op = thread[d][j].op
    <3>1. j \in 2 .. Len(thread[d]) /\ thread'[d][j].from = x /\ thread'[d][j].pc # "done"
      BY <1>2 DEF Handlers
    <3>2. j \in 1 .. Len(thread[d]) /\ j # Main
      BY <1>3, <3>1 DEF Main
    <3>3. /\ thread[d][j].from = x /\ thread[d][j].pc # "done"
          /\ thread'[d][j].op = thread[d][j].op
      BY <1>2, <3>1, <3>2
    <3> QED  BY <3>1, <3>3 DEF Handlers
  <2> QED  BY <2>1 DEF HandlersKept
<1>5. \A x \in Node : MainThread(x)' = IF x = n /\ i = Main THEN t ELSE MainThread(x)
  BY <1>2, <1>3 DEF MainThread
<1> QED  BY <1>4, <1>5

(* What is on the wire stays there, is received, or comes at the end.      *)
LEMMA WireUnchanged ==
  ASSUME TypeOK, UNCHANGED wire
  PROVE  \A x \in Node : RequestsKept(x) /\ AnswersKept(x)
<1>1. ASSUME NEW x \in Node, NEW d \in Node
      PROVE  Len(wire[x][d]) \in Nat
  BY LenProperties DEF TypeOK
<1>2. ASSUME NEW x \in Node PROVE RequestsKept(x)
  <2>1. ASSUME NEW d \in Node, NEW i \in Requests(x, d)'
        PROVE  /\ i \in Nat /\ i + 0 \in Requests(x, d)
               /\ wire'[x][d][i] = wire[x][d][i + 0]
    BY <1>1 DEF Requests
  <2> QED  BY <2>1 DEF RequestsKept
<1>3. ASSUME NEW x \in Node PROVE AnswersKept(x)
  <2>1. ASSUME NEW d \in Node, NEW i \in Answers(x, d)'
        PROVE  /\ i \in Nat /\ i + 0 \in Answers(x, d)
               /\ wire'[d][x][i] = wire[d][x][i + 0]
    BY <1>1 DEF Answers
  <2> QED  BY <2>1 DEF AnswersKept
<1> QED  BY <1>2, <1>3

LEMMA WireReceive ==
  ASSUME TypeOK, NEW n \in Node, NEW m \in Node, m = monitor[n].from, NEW msg, Receive(n, msg)
  PROVE  /\ msg = wire[m][n][1]
         /\ msg \in Request => 1 \in Requests(m, n)
         /\ msg \in Answer => 1 \in Answers(n, m)
         /\ \A x \in Node : RequestsKept(x) /\ AnswersKept(x)
         /\ \A i \in Requests(m, n)' : \E j \in Requests(m, n) : j # 1
         /\ \A i \in Answers(n, m)' : \E j \in Answers(n, m) : j # 1
<1>1. /\ Len(wire[m][n]) \in Nat \ {0} /\ msg = wire[m][n][1]
      /\ \A x, y \in Node : x # m \/ y # n => wire'[x][y] = wire[x][y]
  BY ReceiveEffect
<1>2. PICK k \in 1 .. Len(wire[m][n]) :
        /\ Len(wire'[m][n]) = Len(wire[m][n]) - k
        /\ \A j \in 1 .. Len(wire'[m][n]) : wire'[m][n][j] = wire[m][n][j + k]
  BY ReceiveEffect
<1>3. ASSUME NEW x \in Node, NEW d \in Node
      PROVE  /\ Len(wire[x][d]) \in Nat
             /\ \E l \in Nat : \A i \in 1 .. Len(wire'[x][d]) :
                                  /\ i \in Nat
                                  /\ i + l \in 1 .. Len(wire[x][d])
                                  /\ wire'[x][d][i] = wire[x][d][i + l]
  <2>1. Len(wire[x][d]) \in Nat
    BY LenProperties DEF TypeOK
  <2>2. CASE x = m /\ d = n
    <3>1. k \in Nat
      BY <1>1
    <3>2. ASSUME NEW i \in 1 .. Len(wire'[x][d])
          PROVE  /\ i \in Nat
                 /\ i + k \in 1 .. Len(wire[x][d])
                 /\ wire'[x][d][i] = wire[x][d][i + k]
      BY <1>1, <1>2, <2>1, <2>2
    <3> QED  BY <2>1, <3>1, <3>2
  <2>3. CASE ~(x = m /\ d = n)
    <3>1. wire'[x][d] = wire[x][d]
      BY <1>1, <2>3
    <3>2. ASSUME NEW i \in 1 .. Len(wire'[x][d])
          PROVE  /\ i \in Nat
                 /\ i + 0 \in 1 .. Len(wire[x][d])
                 /\ wire'[x][d][i] = wire[x][d][i + 0]
      BY <2>1, <3>1
    <3> QED  BY <2>1, <2>3, <3>2
  <2> QED  BY <2>2, <2>3
<1>4. ASSUME NEW x \in Node PROVE RequestsKept(x)
  <2>1. ASSUME NEW d \in Node
        PROVE  \E l \in Nat : \A i \in Requests(x, d)' :
                 i \in Nat /\ i + l \in Requests(x, d) /\ wire'[x][d][i] = wire[x][d][i + l]
    <3>1. PICK l \in Nat : \A i \in 1 .. Len(wire'[x][d]) :
            i \in Nat /\ i + l \in 1 .. Len(wire[x][d]) /\ wire'[x][d][i] = wire[x][d][i + l]
      BY <1>3
    <3>2. ASSUME NEW i \in Requests(x, d)'
          PROVE  i \in Nat /\ i + l \in Requests(x, d) /\ wire'[x][d][i] = wire[x][d][i + l]
      BY <3>1 DEF Requests
    <3> QED  BY <3>2
  <2> QED  BY <2>1 DEF RequestsKept
<1>5. ASSUME NEW x \in Node PROVE AnswersKept(x)
  <2>1. ASSUME NEW d \in Node
        PROVE  \E l \in Nat : \A i \in Answers(x, d)' :
                 i \in Nat /\ i + l \in Answers(x, d) /\ wire'[d][x][i] = wire[d][x][i + l]
    <3>1. PICK l \in Nat : \A i \in 1 .. Len(wire'[d][x]) :
            i \in Nat /\ i + l \in 1 .. Len(wire[d][x]) /\ wire'[d][x][i] = wire[d][x][i + l]
      BY <1>3
    <3>2. ASSUME NEW i \in Answers(x, d)'
          PROVE  i \in Nat /\ i + l \in Answers(x, d) /\ wire'[d][x][i] = wire[d][x][i + l]
      BY <3>1 DEF Answers
    <3> QED  BY <3>2
  <2> QED  BY <2>1 DEF AnswersKept
<1>6. /\ msg \in Request => 1 \in Requests(m, n)
      /\ msg \in Answer => 1 \in Answers(n, m)
  BY <1>1 DEF Requests, Answers
<1>7. /\ \A i \in Requests(m, n)' : \E j \in Requests(m, n) : j # 1
      /\ \A i \in Answers(n, m)' : \E j \in Answers(n, m) : j # 1
  <2>1. ASSUME NEW i \in 1 .. Len(wire'[m][n])
        PROVE  i + k \in 1 .. Len(wire[m][n]) /\ i + k # 1 /\ wire'[m][n][i] = wire[m][n][i + k]
    BY <1>1, <1>2
  <2>2. ASSUME NEW i \in Requests(m, n)' PROVE i + k \in Requests(m, n) /\ i + k # 1
    <3>1. i \in 1 .. Len(wire'[m][n]) /\ wire'[m][n][i] \in Request
      BY DEF Requests
    <3>2. i + k \in 1 .. Len(wire[m][n]) /\ i + k # 1 /\ wire[m][n][i + k] \in Request
      BY <2>1, <3>1
    <3> QED  BY <3>2 DEF Requests
  <2>3. ASSUME NEW i \in Answers(n, m)' PROVE i + k \in Answers(n, m) /\ i + k # 1
    <3>1. i \in 1 .. Len(wire'[m][n]) /\ wire'[m][n][i] \in Answer
      BY DEF Answers
    <3>2. i + k \in 1 .. Len(wire[m][n]) /\ i + k # 1 /\ wire[m][n][i + k] \in Answer
      BY <2>1, <3>1
    <3> QED  BY <3>2 DEF Answers
  <2> QED  BY <2>2, <2>3
<1>8. \A x \in Node : RequestsKept(x) /\ AnswersKept(x)
  BY <1>4, <1>5
<1> QED  BY <1>1, <1>6, <1>7, <1>8

(* The step sends a message.                                               *)
Sends(n, d, msg) == wire' = [wire EXCEPT ![n][d] = Append(@, msg)]

LEMMA WireSend ==
  ASSUME TypeOK, NEW n \in Node, NEW d \in Node, NEW msg \in Message, Sends(n, d, msg)
  PROVE  /\ \A x \in Node : x # n \/ msg \notin Request => RequestsKept(x)
         /\ \A x \in Node : x # d \/ msg \notin Answer => AnswersKept(x)
         /\ \A e \in Node : Requests(n, e)' = IF e = d /\ msg \in Request
                                             THEN Requests(n, e) \cup {Len(wire[n][d]) + 1}
                                             ELSE Requests(n, e)
         /\ \A e \in Node : Answers(d, e)' = IF e = n /\ msg \in Answer
                                            THEN Answers(d, e) \cup {Len(wire[n][d]) + 1}
                                            ELSE Answers(d, e)
         /\ wire'[n][d][Len(wire[n][d]) + 1] = msg
<1>1. /\ \A x, y \in Node : x # n \/ y # d => wire'[x][y] = wire[x][y]
      /\ Len(wire[n][d]) \in Nat
      /\ Len(wire'[n][d]) = Len(wire[n][d]) + 1
      /\ \A j \in 1 .. Len(wire[n][d]) : wire'[n][d][j] = wire[n][d][j]
      /\ wire'[n][d][Len(wire[n][d]) + 1] = msg
  BY SendEffect DEF Sends
<1>2. ASSUME NEW x \in Node, NEW y \in Node
      PROVE  /\ Len(wire[x][y]) \in Nat
             /\ \A j \in 1 .. Len(wire[x][y]) : wire'[x][y][j] = wire[x][y][j]
             /\ x # n \/ y # d => Len(wire'[x][y]) = Len(wire[x][y])
  <2>1. Len(wire[x][y]) \in Nat
    BY LenProperties DEF TypeOK
  <2>2. CASE x = n /\ y = d
    BY <1>1, <2>1, <2>2
  <2>3. CASE x # n \/ y # d
    BY <1>1, <2>1, <2>3
  <2> QED  BY <2>2, <2>3
<1>3. ASSUME NEW x \in Node, NEW y \in Node
      PROVE  /\ Requests(x, y)' = IF x = n /\ y = d /\ msg \in Request
                                  THEN Requests(x, y) \cup {Len(wire[n][d]) + 1}
                                  ELSE Requests(x, y)
             /\ Answers(y, x)' = IF x = n /\ y = d /\ msg \in Answer
                                 THEN Answers(y, x) \cup {Len(wire[n][d]) + 1}
                                 ELSE Answers(y, x)
  <2> DEFINE l == Len(wire[x][y])
  <2>1. CASE x = n /\ y = d
    <3>1. /\ l \in Nat /\ Len(wire'[x][y]) = l + 1 /\ wire'[x][y][l + 1] = msg
          /\ \A j \in 1 .. l : wire'[x][y][j] = wire[x][y][j]
      BY <1>1, <2>1
    <3>2. 1 .. l + 1 = (1 .. l) \cup {l + 1}
      BY <3>1
    <3>3. Requests(x, y)' = IF msg \in Request THEN Requests(x, y) \cup {l + 1} ELSE Requests(x, y)
      BY <3>1, <3>2 DEF Requests
    <3>4. Answers(y, x)' = IF msg \in Answer THEN Answers(y, x) \cup {l + 1} ELSE Answers(y, x)
      BY <3>1, <3>2 DEF Answers
    <3> QED  BY <2>1, <3>3, <3>4
  <2>2. CASE ~(x = n /\ y = d)
    <3>1. wire'[x][y] = wire[x][y]
      BY <1>1, <2>2
    <3>2. Requests(x, y)' = Requests(x, y) /\ Answers(y, x)' = Answers(y, x)
      BY <3>1 DEF Requests, Answers
    <3> QED  BY <2>2, <3>2
  <2> QED  BY <2>1, <2>2
<1>4. ASSUME NEW x \in Node, x # n \/ msg \notin Request PROVE RequestsKept(x)
  <2>1. ASSUME NEW y \in Node, NEW i \in Requests(x, y)'
        PROVE  /\ i \in Nat /\ i + 0 \in Requests(x, y)
               /\ wire'[x][y][i] = wire[x][y][i + 0]
    <3>1. i \in Requests(x, y)
      BY <1>3, <1>4
    <3> QED  BY <1>2, <3>1 DEF Requests
  <2> QED  BY <2>1 DEF RequestsKept
<1>5. ASSUME NEW x \in Node, x # d \/ msg \notin Answer PROVE AnswersKept(x)
  <2>1. ASSUME NEW y \in Node, NEW i \in Answers(x, y)'
        PROVE  /\ i \in Nat /\ i + 0 \in Answers(x, y)
               /\ wire'[y][x][i] = wire[y][x][i + 0]
    <3>1. i \in Answers(x, y)
      BY <1>3, <1>5
    <3> QED  BY <1>2, <3>1 DEF Answers
  <2> QED  BY <2>1 DEF AnswersKept
<1> QED  BY <1>1, <1>3, <1>4, <1>5

-----------------------------------------------------------------------------
(* Steps of the threads that neither send nor receive leave all calls in   *)
(* place.                                                                  *)
LEMMA CallInvFrame ==
  ASSUME TypeInv, CallInv, UNCHANGED <<wire, ack_recvd_, reply_data_, wag_reply_data_>>,
         \A x \in Node : HandlersKept(x) /\ CallKept(x)
  PROVE  CallInv'
<1>1. \A x \in Node : RequestsKept(x) /\ AnswersKept(x)
  BY WireUnchanged DEF TypeInv
<1>2. \A x \in Node : SlotsKept(x)
  BY DEF SlotsKept
<1> QED  BY <1>1, <1>2, NodeFrame DEF CallInv

LEMMA ThreadsUnchanged ==
  ASSUME UNCHANGED thread
  PROVE  \A x \in Node : HandlersKept(x) /\ CallKept(x) /\ MainThread(x)' = MainThread(x)
BY DEF HandlersKept, Handlers, CallKept, MainThread

(* One thread goes on inside put, get or wait_and_get, or starts or ends a *)
(* local call.                                                             *)
LEMMA CallInvLocal ==
  ASSUME TypeInv, CallInv, UNCHANGED <<wire, ack_recvd_, reply_data_, wag_reply_data_>>,
         NEW n \in Node, NEW i \in 1 .. Len(thread[n]), NEW t \in Thread, Replaces(n, i, t),
         i # Main => /\ t.op = thread[n][i].op
                     /\ t.from = thread[n][i].from
                     /\ thread[n][i].pc # "done",
         thread[n][i].pc \notin Waiting, t.pc \notin Waiting
  PROVE  CallInv'
<1>1. /\ \A x \in Node : HandlersKept(x)
      /\ \A x \in Node : MainThread(x)' = IF x = n /\ i = Main THEN t ELSE MainThread(x)
  BY ReplaceKeepsHandlers
<1>2. \A x \in Node : CallKept(x)
  BY <1>1 DEF CallKept, InCall, MainThread
<1> QED  BY <1>1, <1>2, CallInvFrame

LEMMA SetThreadCallInv ==
  ASSUME TypeInv, CallInv, UNCHANGED <<wire, ack_recvd_, reply_data_, wag_reply_data_>>,
         NEW n \in Node, NEW i \in 1 .. Len(thread[n]),
         NEW pc \in Pc \ Waiting, NEW val \in Data \cup {None}, SetThread(n, i, pc, val),
         thread[n][i].pc \notin Waiting \cup {"done"}
  PROVE  CallInv'
<1> DEFINE t == [thread[n][i] EXCEPT !.pc = pc, !.val = val]
<1>1. TypeOK /\ pc \in Pc
  BY DEF TypeInv
<1>2. /\ t \in Thread
      /\ t.pc = pc /\ t.op = thread[n][i].op /\ t.from = thread[n][i].from
      /\ Replaces(n, i, t)
  <2>1. t \in Thread /\ Replaces(n, i, t)
    BY <1>1, SetThreadEffect
  <2>2. thread[n][i] \in Thread
    BY <1>1, ThreadTypes
  <2> QED  BY <2>1, <2>2 DEF Thread
<1>3. t.pc \notin Waiting
  BY <1>2
<1> HIDE DEF t
<1> QED  BY <1>2, <1>3, CallInvLocal

(* Nothing is under way for n.                                             *)
Idle(n) == \A d \in Node : Requests(n, d) = {} /\ Handlers(n, d) = {} /\ Answers(n, d) = {}

LEMMA IdlePlaces ==
  ASSUME NEW n \in Node, Idle(n)
  PROVE  \A d \in Node : PlacesMatch(n, d) /\ OnePlace(n, d)
BY DEF Idle, PlacesMatch, OnePlace

LEMMA IdleOutsideCalls ==
  ASSUME NEW n \in Node, NodeInv(n), ~InCall(n) \/ SlotSet(n)
  PROVE  Idle(n)
BY DEF Idle, NodeInv, PlacesMatch, OnePlace

LEMMA IdleKept ==
  ASSUME NEW n \in Node, Idle(n)
  PROVE  /\ RequestsKept(n) => \A d \in Node : Requests(n, d)' = {}
         /\ AnswersKept(n) => \A d \in Node : Answers(n, d)' = {}
         /\ HandlersKept(n) => \A d \in Node : Handlers(n, d)' = {}
BY DEF Idle, RequestsKept, AnswersKept, HandlersKept

-----------------------------------------------------------------------------
(* The main thread.                                                        *)

LEMMA BeginLocalCallInv ==
  ASSUME TypeInv, CallInv, NEW n \in Node, BeginLocal(n)
  PROVE  CallInv'
<1> DEFINE pc == LocalEntry(CurrentCall(n))
           t == [thread[n][Main] EXCEPT !.pc = pc, !.op = CurrentCall(n)]
<1>1. TypeOK /\ Main \in 1 .. Len(thread[n])
  BY ThreadTypes DEF TypeInv
<1>2. /\ CurrentCall(n) \in Request /\ StartCall(n, pc) /\ thread[n][Main].pc = "ready"
      /\ UNCHANGED <<wire, ack_recvd_, reply_data_, wag_reply_data_>>
  BY DEF BeginLocal, HasCall, MainThread, slots
<1>3. pc \in Pc /\ pc \notin Waiting /\ CurrentCall(n) \in Call
  BY <1>2 DEF LocalEntry, Pc, Waiting, Request, Call
<1>4. t \in Thread /\ t.pc = pc /\ Replaces(n, Main, t)
  BY <1>1, <1>2, <1>3, StartCallEffect
<1> HIDE DEF t, pc
<1> QED  BY <1>1, <1>2, <1>3, <1>4, CallInvLocal DEF Waiting

(* A call leaves when nothing of an earlier one is left.                   *)
LEMMA BeginRemoteCallInv ==
  ASSUME TypeInv, CallInv, NEW n \in Node, BeginRemote(n)
  PROVE  CallInv'
<1> DEFINE op0 == CurrentCall(n)
           pc0 == RemoteEntry(op0)
           t0 == [thread[n][Main] EXCEPT !.pc = pc0, !.op = op0]
           d0 == Home[op0.key]
<1>1. TypeOK /\ Main \in 1 .. Len(thread[n])
  BY ThreadTypes DEF TypeInv
<1>2. /\ IsRemote(n, op0) /\ op0 \in Request /\ StartCall(n, pc0)
      /\ thread[n][Main].pc = "ready"
      /\ wire' = [wire EXCEPT ![n][d0] = Append(@, op0)]
      /\ UNCHANGED <<ack_recvd_, reply_data_, wag_reply_data_>>
  BY DEF BeginRemote, HasCall, MainThread, slots, IsRemote
<1>3. pc0 \in Pc /\ pc0 \in Waiting /\ op0 \in Call
  BY <1>2 DEF RemoteEntry, Pc, Waiting, Request, Call
<1>4. t0 \in Thread /\ t0.pc = pc0 /\ t0.op = op0 /\ Replaces(n, Main, t0)
  BY <1>1, <1>2, <1>3, StartCallEffect
<1>5. d0 \in Node /\ op0 \in Message /\ op0 \notin Answer
  BY <1>2, HomeAssumption, RequestsAndAnswers DEF Request, Message
<1>6. PICK op \in Request, t \in Thread, d \in Node :
        /\ IsRemote(n, op) /\ op \in Message /\ op \notin Answer /\ d = Home[op.key]
        /\ t.pc = RemoteEntry(op) /\ t.pc \in Waiting /\ t.op = op /\ Replaces(n, Main, t)
        /\ Sends(n, d, op)
  <2> HIDE DEF t0
  <2> QED  BY <1>2, <1>3, <1>4, <1>5 DEF Sends
<1> HIDE DEF op0, pc0, t0, d0
<1>7. /\ \A x \in Node : HandlersKept(x)
      /\ \A x \in Node : MainThread(x)' = IF x = n THEN t ELSE MainThread(x)
  BY <1>1, <1>6, ReplaceKeepsHandlers
<1>8. /\ \A x \in Node : x # n => RequestsKept(x)
      /\ \A x \in Node : AnswersKept(x)
      /\ \A e \in Node : Requests(n, e)' = IF e = d
                                          THEN Requests(n, e) \cup {Len(wire[n][d]) + 1}
                                          ELSE Requests(n, e)
      /\ wire'[n][d][Len(wire[n][d]) + 1] = op
  BY <1>1, <1>6, WireSend
<1>9. ASSUME NEW x \in Node, x # n PROVE NodeInv(x)'
  <2>1. SlotsKept(x) /\ CallKept(x)
    BY <1>2, <1>7, <1>9 DEF SlotsKept, CallKept
  <2> QED  BY <1>7, <1>8, <1>9, <2>1, NodeFrame DEF CallInv
<1>10. NodeInv(n)'
  <2>1. NodeInv(n) /\ ~InCall(n) /\ ~SlotSet(n)
    BY <1>2 DEF CallInv, NodeInv, InCall, MainThread, Waiting, SlotsMatch, SlotSet
  <2>2. Idle(n)
    BY <2>1, IdleOutsideCalls
  <2>3. \A e \in Node : Answers(n, e)' = {} /\ Handlers(n, e)' = {}
    BY <1>7, <1>8, <2>2, IdleKept
  <2>4. \A e \in Node : Requests(n, e)' = IF e = d THEN {Len(wire[n][d]) + 1} ELSE {}
    BY <1>8, <2>2 DEF Idle
  <2>5. ~SlotSet(n)'
    BY <1>2, <2>1 DEF SlotSet
  <2>6. InCall(n)' /\ Destination(n)' = d /\ MainThread(n)' = t
    BY <1>6, <1>7 DEF InCall, Destination
  <2>7. SlotsMatch(n)' /\ WaitMatches(n)'
    BY <1>6, <2>5, <2>6 DEF SlotSet, SlotsMatch, WaitMatches, IsRemote
  <2>8. ASSUME NEW e \in Node PROVE PlacesMatch(n, e)' /\ OnePlace(n, e)'
    BY <1>6, <1>8, <2>3, <2>4, <2>5, <2>6 DEF PlacesMatch, OnePlace
  <2> QED  BY <2>7, <2>8 DEF NodeInv
<1> QED  BY <1>9, <1>10 DEF CallInv

(* A remote call is over when its answer is taken out of the slot.         *)
LEMMA ReturnCallInv ==
  ASSUME TypeInv, CallInv, NEW n \in Node, NEW val \in Data \cup {None},
         Complete(n, Main, val), UNCHANGED wire,
         SlotSet(n), ~SlotSet(n)', \A x \in Node : x # n => SlotsKept(x)
  PROVE  CallInv'
<1> DEFINE t0 == [thread[n][Main] EXCEPT !.pc = "ready", !.val = val]
<1>1. TypeOK /\ Main \in 1 .. Len(thread[n])
  BY ThreadTypes DEF TypeInv
<1>2. SetThread(n, Main, "ready", val)
  BY DEF Complete
<1>3. t0 \in Thread /\ t0.pc = "ready" /\ Replaces(n, Main, t0)
  <2>1. t0 \in Thread /\ Replaces(n, Main, t0)
    <3>1. "ready" \in Pc
      BY DEF Pc
    <3> QED  BY <1>1, <1>2, <3>1, SetThreadEffect
  <2>2. thread[n][Main] \in Thread
    BY <1>1, ThreadTypes
  <2> QED  BY <2>1, <2>2 DEF Thread
<1>4. PICK t \in Thread : t.pc = "ready" /\ Replaces(n, Main, t)
  <2> HIDE DEF t0
  <2> QED  BY <1>3
<1>5. /\ \A x \in Node : HandlersKept(x)
      /\ \A x \in Node : MainThread(x)' = IF x = n THEN t ELSE MainThread(x)
  BY <1>1, <1>4, ReplaceKeepsHandlers
<1>6. \A x \in Node : RequestsKept(x) /\ AnswersKept(x)
  BY <1>1, WireUnchanged
<1>7. ASSUME NEW x \in Node, x # n PROVE NodeInv(x)'
  <2>1. CallKept(x)
    BY <1>5, <1>7 DEF CallKept
  <2> QED  BY <1>5, <1>6, <1>7, <2>1, NodeFrame DEF CallInv
<1>8. NodeInv(n)'
  <2>1. Idle(n)
    BY IdleOutsideCalls DEF CallInv
  <2>2. Idle(n)'
    BY <1>5, <1>6, <2>1, IdleKept DEF Idle
  <2>3. \A d \in Node : PlacesMatch(n, d)' /\ OnePlace(n, d)'
    BY <2>2 DEF Idle, PlacesMatch, OnePlace
  <2>4. SlotsMatch(n)' /\ WaitMatches(n)'
    BY <1>4, <1>5 DEF SlotSet, SlotsMatch, WaitMatches, InCall, Waiting
  <2> QED  BY <2>3, <2>4 DEF NodeInv
<1> QED  BY <1>7, <1>8 DEF CallInv

LEMMA DieCallInv ==
  ASSUME TypeInv, CallInv, NEW n \in Node, NEW how, Die(n, how)
  PROVE  CallInv'
<1>1. UNCHANGED thread /\ UNCHANGED <<wire, ack_recvd_, reply_data_, wag_reply_data_>>
  BY DEF Die, slots
<1> QED  BY <1>1, ThreadsUnchanged, CallInvFrame

LEMMA MainStepCallInv ==
  ASSUME TypeInv, CallInv, NEW n \in Node, MainStep(n)
  PROVE  CallInv'
<1>1. TypeOK /\ NodeInv(n)
  BY DEF TypeInv, CallInv
<1>2. CASE BeginLocal(n) \/ BeginRemote(n)
  BY <1>2, BeginLocalCallInv, BeginRemoteCallInv
<1>3. CASE ReturnPut(n)
  <2>1. /\ Complete(n, Main, None) /\ SlotSet(n) /\ UNCHANGED wire
        /\ MainThread(n).pc = "ack"
        /\ UNCHANGED <<reply_data_, wag_reply_data_>>
        /\ ack_recvd_' = [ack_recvd_ EXCEPT ![n] = FALSE]
    BY <1>3 DEF ReturnPut, SlotSet
  <2>2. ~SlotSet(n)' /\ \A x \in Node : x # n => SlotsKept(x)
    BY <1>1, <2>1 DEF SlotSet, SlotsKept, TypeOK, NodeInv, SlotsMatch
  <2> QED  BY <2>1, <2>2, ReturnCallInv
<1>4. CASE ReturnGet(n)
  <2>1. /\ Complete(n, Main, reply_data_[n]) /\ SlotSet(n) /\ UNCHANGED wire
        /\ MainThread(n).pc = "reply"
        /\ UNCHANGED <<ack_recvd_, wag_reply_data_>>
        /\ reply_data_' = [reply_data_ EXCEPT ![n] = None]
    BY <1>4 DEF ReturnGet, SlotSet
  <2>2. ~SlotSet(n)' /\ \A x \in Node : x # n => SlotsKept(x)
    BY <1>1, <2>1 DEF SlotSet, SlotsKept, TypeOK, NodeInv, SlotsMatch
  <2>3. reply_data_[n] \in Data \cup {None}
    BY <1>1 DEF TypeOK
  <2> QED  BY <2>1, <2>2, <2>3, ReturnCallInv
<1>5. CASE ReturnWag(n)
  <2>1. /\ Complete(n, Main, wag_reply_data_[n]) /\ SlotSet(n) /\ UNCHANGED wire
        /\ MainThread(n).pc = "wag_reply"
        /\ UNCHANGED <<ack_recvd_, reply_data_>>
        /\ wag_reply_data_' = [wag_reply_data_ EXCEPT ![n] = None]
    BY <1>5 DEF ReturnWag, SlotSet
  <2>2. ~SlotSet(n)' /\ \A x \in Node : x # n => SlotsKept(x)
    BY <1>1, <2>1 DEF SlotSet, SlotsKept, TypeOK, NodeInv, SlotsMatch
  <2>3. wag_reply_data_[n] \in Data \cup {None}
    BY <1>1 DEF TypeOK
  <2> QED  BY <2>1, <2>2, <2>3, ReturnCallInv
<1>6. CASE CallDone(n)
  <2>1. CASE Die(n, "crashed")
    BY <2>1, DieCallInv
  <2>2. CASE UNCHANGED <<prog, thread, monitor, mapVars, slots, wire, status>>
    <3>1. UNCHANGED thread /\ UNCHANGED <<wire, ack_recvd_, reply_data_, wag_reply_data_>>
      BY <2>2 DEF slots
    <3> QED  BY <3>1, ThreadsUnchanged, CallInvFrame
  <2> QED  BY <1>6, <2>1, <2>2 DEF CallDone
<1>7. CASE Finish(n)
  BY <1>7, DieCallInv DEF Finish
<1> QED  BY <1>2, <1>3, <1>4, <1>5, <1>6, <1>7 DEF MainStep

-----------------------------------------------------------------------------
(* The local branches and the handlers.                                    *)

(* The handler's answer takes the place of the handler.                    *)
LEMMA SendAnswerCallInv ==
  ASSUME TypeInv, CallInv, NEW n \in Node, NEW i \in 1 .. Len(thread[n]), SendAnswer(n, i)
  PROVE  CallInv'
<1> DEFINE t0 == [thread[n][i] EXCEPT !.pc = "done", !.val = None]
<1>1. /\ TypeOK
      /\ thread[n][i] \in Thread /\ ThreadOK(thread[n][i], i)
      /\ Len(thread[n]) \in Nat
  BY ThreadTypes DEF TypeInv, ThreadsOK
<1>2. /\ thread[n][i].pc = "send" /\ SetThread(n, i, "done", None)
      /\ wire' = [wire EXCEPT ![n][thread[n][i].from] = Append(@, AnswerTo(thread[n][i]))]
      /\ UNCHANGED <<ack_recvd_, reply_data_, wag_reply_data_>>
  BY DEF SendAnswer, At, slots
<1>3. PICK t \in Thread : /\ t.pc = "done" /\ t.op = thread[n][i].op
                          /\ t.from = thread[n][i].from /\ Replaces(n, i, t)
  <2>1. "done" \in Pc
    BY DEF Pc
  <2>2. t0 \in Thread /\ Replaces(n, i, t0)
    BY <1>1, <1>2, <2>1, SetThreadEffect
  <2>3. t0.pc = "done" /\ t0.op = thread[n][i].op /\ t0.from = thread[n][i].from
    BY <1>1 DEF Thread
  <2> HIDE DEF t0
  <2> QED  BY <2>2, <2>3
<1>4. i # Main /\ i \in 2 .. Len(thread[n])
  BY <1>1, <1>2 DEF ThreadOK, Main
<1>5. PICK c \in Node, op \in Request, msg \in Message :
        /\ c = thread[n][i].from /\ op = thread[n][i].op
        /\ msg \in Answer /\ IsAnswerTo(msg, op)
        /\ Sends(n, c, msg)
  <2>1. AnswerTo(thread[n][i]) \in Answer /\ IsAnswerTo(AnswerTo(thread[n][i]), thread[n][i].op)
    BY <1>1, <1>2 DEF ThreadOK, Thread, AnswerTo, Answer, Reply, Request, IsAnswerTo
  <2>2. thread[n][i].from \in Node /\ thread[n][i].op \in Request
    BY <1>1, <1>2 DEF ThreadOK, Thread
  <2> QED  BY <1>2, <2>1, <2>2 DEF Sends, Message
<1> HIDE DEF t0
<1>6. msg \notin Request
  BY <1>5, RequestsAndAnswers
<1>7. /\ \A x \in Node : HandlersKept(x)
      /\ \A x \in Node : MainThread(x)' = MainThread(x)
  BY <1>2, <1>3, <1>4, ReplaceKeepsHandlers
<1>8. /\ \A x \in Node : RequestsKept(x)
      /\ \A x \in Node : x # c => AnswersKept(x)
      /\ \A e \in Node : Answers(c, e)' = IF e = n THEN Answers(c, e) \cup {Len(wire[n][c]) + 1}
                                         ELSE Answers(c, e)
      /\ wire'[n][c][Len(wire[n][c]) + 1] = msg
  <2>1. TypeOK /\ Sends(n, c, msg) /\ msg \in Answer
    BY <1>1, <1>5
  <2>2. /\ \A x \in Node : x # n \/ msg \notin Request => RequestsKept(x)
        /\ \A x \in Node : x # c \/ msg \notin Answer => AnswersKept(x)
        /\ wire'[n][c][Len(wire[n][c]) + 1] = msg
    BY <2>1, WireSend
  <2>3. \A e \in Node : Answers(c, e)' = IF e = n /\ msg \in Answer
                                         THEN Answers(c, e) \cup {Len(wire[n][c]) + 1}
                                         ELSE Answers(c, e)
    BY <2>1, WireSend
  <2> QED  BY <1>6, <2>1, <2>2, <2>3
<1>9. \A x \in Node : SlotsKept(x) /\ CallKept(x)
  BY <1>2, <1>7 DEF SlotsKept, CallKept
<1>10. ASSUME NEW x \in Node, x # c PROVE NodeInv(x)'
  BY <1>7, <1>8, <1>9, <1>10, NodeFrame DEF CallInv
<1>11. NodeInv(c)'
  <2>1. SlotsMatch(c) /\ WaitMatches(c) /\ \A d \in Node : PlacesMatch(c, d) /\ OnePlace(c, d)
    BY DEF CallInv, NodeInv
  <2>2. i \in Handlers(c, n)
    BY <1>2, <1>4, <1>5 DEF Handlers
  <2>3. InCall(c) /\ n = Destination(c) /\ MainThread(c).op = op
    BY <1>5, <2>1, <2>2 DEF PlacesMatch
  <2>4. /\ Requests(c, n) = {} /\ Answers(c, n) = {} /\ ~SlotSet(c)
        /\ \A j \in Handlers(c, n) : j = i
    BY <2>1, <2>2 DEF OnePlace
  <2>5. \A d \in Node : d # n => Requests(c, d) = {} /\ Answers(c, d) = {} /\ Handlers(c, d) = {}
    BY <2>1, <2>3 DEF PlacesMatch
  <2>6. i \notin Handlers(c, n)'
    <3>1. thread'[n][i] = t
      BY <1>1, <1>3, UpdateEffect
    <3> QED  BY <1>3, <3>1 DEF Handlers
  <2>7. \A d \in Node : Handlers(c, d)' = {}
    BY <1>7, <2>4, <2>5, <2>6 DEF HandlersKept
  <2>8. \A d \in Node : Requests(c, d)' = {}
    BY <1>8, <2>4, <2>5 DEF RequestsKept
  <2>9. \A d \in Node : Answers(c, d)' = IF d = n THEN {Len(wire[n][c]) + 1} ELSE {}
    BY <1>8, <2>4, <2>5
  <2>10. /\ InCall(c)' /\ Destination(c)' = n /\ MainThread(c)'.op = op
         /\ MainThread(c)' = MainThread(c)
    BY <1>7, <2>3 DEF InCall, Destination
  <2>11. ~SlotSet(c)' /\ SlotsMatch(c)' /\ WaitMatches(c)'
    BY <1>9, <2>1, <2>4, <2>10 DEF SlotSet, SlotsKept, SlotsMatch, WaitMatches, InCall
  <2>12. ASSUME NEW d \in Node PROVE PlacesMatch(c, d)' /\ OnePlace(c, d)'
    BY <1>5, <1>8, <2>7, <2>8, <2>9, <2>10, <2>11 DEF PlacesMatch, OnePlace
  <2> QED  BY <2>11, <2>12 DEF NodeInv
<1> QED  BY <1>10, <1>11 DEF CallInv

LEMMA PutStoreCallInv ==
  ASSUME TypeInv, CallInv, NEW n \in Node, NEW i \in 1 .. Len(thread[n]), PutStore(n, i)
  PROVE  CallInv'
<1>1. /\ TypeOK
      /\ \A x \in Node : /\ Len(thread[x]) \in Nat /\ Main \in 1 .. Len(thread[x])
                          /\ \A j \in 1 .. Len(thread[x]) : thread[x][j] \in Thread
  BY ThreadTypes DEF TypeInv
<1>2. /\ thread[n][i].pc = "store"
      /\ UNCHANGED <<wire, ack_recvd_, reply_data_, wag_reply_data_>>
  BY DEF PutStore, At, slots
<1>3. ASSUME NEW x \in Node, NEW j \in 1 .. Len(thread[x])
      PROVE  /\ Len(thread'[x]) = Len(thread[x])
             /\ thread'[x][j].op = thread[x][j].op /\ thread'[x][j].from = thread[x][j].from
             /\ thread'[x][j].pc # "done" => thread[x][j].pc # "done"
             /\ \/ thread'[x][j] = thread[x][j]
                \/ thread[x][j].pc \notin Waiting /\ thread'[x][j].pc \notin Waiting
  <2>1. /\ Len(thread'[x]) = Len(thread[x])
        /\ \/ thread'[x][j] = thread[x][j]
           \/ /\ thread[x][j].pc = "copy"
              /\ thread'[x][j] = [thread[x][j] EXCEPT !.val = Garbage]
           \/ /\ x = n /\ j = i
              /\ thread'[x][j] = [thread[n][i] EXCEPT !.pc = IF i = Main THEN "ready" ELSE "send"]
    BY <1>1, PutStoreEffect
  <2>2. thread[x][j] \in Thread
    BY <1>1
  <2> QED  BY <1>2, <2>1, <2>2 DEF Thread, Waiting
<1>4. ASSUME NEW x \in Node PROVE HandlersKept(x)
  <2>1. ASSUME NEW d \in Node, NEW j \in Handlers(x, d)'
        PROVE  j \in Handlers(x, d) /\ thread'[d][j].op = thread[d][j].op
    <3>1. j \in 2 .. Len(thread[d]) /\ thread'[d][j].from = x /\ thread'[d][j].pc # "done"
      BY <1>1, <1>3 DEF Handlers
    <3>2. j \in 1 .. Len(thread[d])
      BY <1>1, <3>1
    <3> QED  BY <1>3, <3>1, <3>2 DEF Handlers
  <2> QED  BY <2>1 DEF HandlersKept
<1>5. \A x \in Node : CallKept(x)
  BY <1>1, <1>3 DEF CallKept, InCall, MainThread
<1> QED  BY <1>2, <1>4, <1>5, CallInvFrame

LEMMA ThreadStepCallInv ==
  ASSUME TypeInv, CallInv, NEW n \in Node, NEW i \in 1 .. Len(thread[n]), ThreadStep(n, i)
  PROVE  CallInv'
<1>1. TypeOK /\ thread[n][i] \in Thread /\ ThreadOK(thread[n][i], i)
  BY ThreadTypes DEF TypeInv, ThreadsOK
<1>2. {"store", "get", "poll", "copy", "ready", "send"} \subseteq Pc \ Waiting
  BY DEF Pc, Waiting
<1>3. CASE PutLock(n, i)
  <2>1. /\ SetThread(n, i, "store", None) /\ thread[n][i].pc = "put"
        /\ UNCHANGED <<wire, ack_recvd_, reply_data_, wag_reply_data_>>
    BY <1>3 DEF PutLock, At, slots
  <2> QED  BY <1>2, <2>1, SetThreadCallInv DEF Waiting
<1>4. CASE PutStore(n, i)
  BY <1>4, PutStoreCallInv
<1>5. CASE MapContains(n, i)
  <2>1. PICK pc \in {"get", "poll"} :
          /\ SetThread(n, i, pc, None) /\ thread[n][i].pc \in {"wag", "poll"}
          /\ UNCHANGED <<wire, ack_recvd_, reply_data_, wag_reply_data_>>
    BY <1>5 DEF MapContains, At, slots
  <2> QED  BY <1>2, <2>1, SetThreadCallInv DEF Waiting
<1>6. CASE GetLookup(n, i)
  <2>1. PICK v \in Data \cup {None} :
          /\ SetThread(n, i, "copy", v) /\ thread[n][i].pc = "get"
          /\ UNCHANGED <<wire, ack_recvd_, reply_data_, wag_reply_data_>>
    <3>1. thread[n][i].pc = "get" /\ thread[n][i].op.key \in Key
      BY <1>1, <1>6 DEF GetLookup, At, ThreadOK, Request
    <3>2. map_[n][thread[n][i].op.key] \in Data \cup {None}
      BY <1>1, <3>1 DEF TypeOK, Data
    <3> QED  BY <1>6, <3>1, <3>2 DEF GetLookup, slots
  <2> QED  BY <1>2, <2>1, SetThreadCallInv DEF Waiting
<1>7. CASE GetCopy(n, i)
  <2>1. CASE /\ Complete(n, i, thread[n][i].val)
             /\ UNCHANGED <<prog, monitor, mapVars, slots, has_shutdown, wire, status>>
    <3>1. PICK pc \in {"ready", "send"}, v \in Data \cup {None} :
            /\ SetThread(n, i, pc, v) /\ thread[n][i].pc = "copy"
            /\ UNCHANGED <<wire, ack_recvd_, reply_data_, wag_reply_data_>>
      BY <1>1, <1>7, <2>1 DEF GetCopy, At, Complete, Thread, slots
    <3> QED  BY <1>2, <3>1, SetThreadCallInv DEF Waiting
  <2>2. CASE Die(n, "crashed")
    BY <2>2, DieCallInv
  <2> QED  BY <1>7, <2>1, <2>2 DEF GetCopy
<1>8. CASE SendAnswer(n, i)
  BY <1>8, SendAnswerCallInv
<1>9. CASE ContainsDuringGrow(n, i) \/ GetAssertFails(n, i)
  BY <1>9, DieCallInv DEF ContainsDuringGrow, GetAssertFails
<1> QED  BY <1>3, <1>4, <1>5, <1>6, <1>7, <1>8, <1>9 DEF ThreadStep

-----------------------------------------------------------------------------
(* The monitor.                                                            *)

(* An answer finds its call waiting and its slot free.                     *)
LEMMA ReceiveAnswerCallInv ==
  ASSUME TypeInv, CallInv, NEW n \in Node, NEW msg \in Answer, Receive(n, msg), UNCHANGED thread,
         \A x \in Node : x # n => SlotsKept(x),
         \A op \in Request : /\ IsAnswerTo(msg, op)
                             /\ MainThread(n).pc = RemoteEntry(op)
                             /\ SlotsMatch(n)
                             => SlotsMatch(n)'
  PROVE  CallInv'
<1>1. TypeOK
  BY DEF TypeInv
<1>2. PICK m \in Node : m = monitor[n].from
  BY <1>1 DEF TypeOK
<1>3. /\ msg = wire[m][n][1] /\ 1 \in Answers(n, m)
      /\ \A x \in Node : RequestsKept(x) /\ AnswersKept(x)
      /\ \A i \in Answers(n, m)' : \E j \in Answers(n, m) : j # 1
  BY <1>1, <1>2, WireReceive
<1>4. \A x \in Node : HandlersKept(x) /\ CallKept(x) /\ MainThread(x)' = MainThread(x)
  BY ThreadsUnchanged
<1>5. ASSUME NEW x \in Node, x # n PROVE NodeInv(x)'
  BY <1>3, <1>4, <1>5, NodeFrame DEF CallInv
<1>6. NodeInv(n)'
  <2>1. /\ SlotsMatch(n) /\ WaitMatches(n)
        /\ \A d \in Node : PlacesMatch(n, d) /\ OnePlace(n, d)
    BY DEF CallInv, NodeInv
  <2>2. InCall(n) /\ m = Destination(n) /\ IsAnswerTo(msg, MainThread(n).op)
    BY <1>3, <2>1 DEF PlacesMatch
  <2>3. MainThread(n).op \in Request /\ MainThread(n).pc = RemoteEntry(MainThread(n).op)
    BY <2>1, <2>2 DEF WaitMatches, IsRemote
  <2>4. SlotsMatch(n)'
    BY <2>1, <2>2, <2>3
  <2>5. WaitMatches(n)'
    BY <1>4, <2>1 DEF WaitMatches, InCall
  <2>6. /\ Requests(n, m) = {} /\ Handlers(n, m) = {}
        /\ \A j \in Answers(n, m) : j = 1
    BY <1>3, <2>1 DEF OnePlace
  <2>7. \A d \in Node : d # m => Requests(n, d) = {} /\ Handlers(n, d) = {} /\ Answers(n, d) = {}
    BY <2>1, <2>2 DEF PlacesMatch
  <2>8. \A d \in Node : Requests(n, d)' = {}
    BY <1>3, <2>6, <2>7 DEF RequestsKept
  <2>9. \A d \in Node : Handlers(n, d)' = {}
    BY <1>4, <2>6, <2>7 DEF HandlersKept
  <2>10. \A d \in Node : Answers(n, d)' = {}
    <3>1. Answers(n, m)' = {}
      BY <1>3, <2>6
    <3>2. \A d \in Node : d # m => Answers(n, d)' = {}
      BY <1>3, <2>7 DEF AnswersKept
    <3> QED  BY <3>1, <3>2
  <2>11. \A d \in Node : PlacesMatch(n, d)' /\ OnePlace(n, d)'
    BY <2>8, <2>9, <2>10 DEF PlacesMatch, OnePlace
  <2> QED  BY <2>4, <2>5, <2>11 DEF NodeInv
<1> QED  BY <1>5, <1>6 DEF CallInv

(* A request is turned into the only handler of its call.                  *)
LEMMA ReceiveRequestCallInv ==
  ASSUME TypeInv, CallInv, NEW n \in Node, ReceiveRequest(n)
  PROVE  CallInv'
<1>1. TypeOK /\ Len(thread[n]) \in Nat /\ \A x \in Node : Main \in 1 .. Len(thread[x])
  BY ThreadTypes DEF TypeInv
<1>2. PICK m \in Node, op \in Request, t \in Thread :
        /\ m = monitor[n].from /\ Receive(n, op)
        /\ t.from = m /\ t.op = op /\ t.pc # "done"
        /\ thread' = [thread EXCEPT ![n] = Append(@, t)]
  <2> DEFINE m0 == monitor[n].from
             op0 == Head(wire[m0][n])
             t0 == Handler(m0, op0)
  <2>1. /\ op0 \in Request /\ Receive(n, op0)
        /\ thread' = [thread EXCEPT ![n] = Append(@, t0)]
    BY DEF ReceiveRequest
  <2>2. m0 \in Node
    BY <1>1 DEF TypeOK
  <2>3. t0 \in Thread /\ t0.from = m0 /\ t0.op = op0 /\ t0.pc # "done"
    <3> HIDE DEF m0, op0
    <3> QED  BY <2>1, <2>2 DEF Handler, LocalEntry, Thread, Pc, Call, Request
  <2> HIDE DEF m0, op0, t0
  <2> QED  BY <2>1, <2>2, <2>3 DEF m0
<1>3. UNCHANGED <<ack_recvd_, reply_data_, wag_reply_data_>>
  BY DEF ReceiveRequest, slots
<1>4. /\ op = wire[m][n][1] /\ 1 \in Requests(m, n)
      /\ \A x \in Node : RequestsKept(x) /\ AnswersKept(x)
      /\ \A i \in Requests(m, n)' : \E j \in Requests(m, n) : j # 1
  BY <1>1, <1>2, WireReceive
<1>5. /\ \A x \in Node : Len(thread'[x]) = IF x = n THEN Len(thread[x]) + 1 ELSE Len(thread[x])
      /\ \A x \in Node : \A j \in 1 .. Len(thread[x]) : thread'[x][j] = thread[x][j]
      /\ thread'[n][Len(thread[n]) + 1] = t
  BY <1>1, <1>2, SpawnEffect
<1>6. \A x \in Node : SlotsKept(x) /\ MainThread(x)' = MainThread(x)
  BY <1>1, <1>3, <1>5 DEF SlotsKept, MainThread
<1>7. ASSUME NEW x \in Node, NEW d \in Node, NEW j \in Handlers(x, d)'
      PROVE  \/ j \in Handlers(x, d) /\ thread'[d][j].op = thread[d][j].op
             \/ x = m /\ d = n /\ j = Len(thread[n]) + 1
  <2>1. j \in 2 .. Len(thread'[d]) /\ thread'[d][j].from = x /\ thread'[d][j].pc # "done"
    BY DEF Handlers
  <2>2. CASE j \in 2 .. Len(thread[d])
    <3>1. j \in 1 .. Len(thread[d])
      BY <2>2
    <3>2. thread'[d][j] = thread[d][j]
      BY <1>5, <3>1
    <3> QED  BY <2>1, <2>2, <3>2 DEF Handlers
  <2>3. CASE j \notin 2 .. Len(thread[d])
    <3>1. d = n /\ j = Len(thread[n]) + 1
      BY <1>1, <1>5, <2>1, <2>3
    <3> QED  BY <1>2, <1>5, <2>1, <3>1
  <2> QED  BY <2>2, <2>3
<1>8. ASSUME NEW x \in Node, x # m PROVE NodeInv(x)'
  <2>1. HandlersKept(x)
    BY <1>7, <1>8 DEF HandlersKept
  <2>2. CallKept(x)
    BY <1>6 DEF CallKept
  <2> QED  BY <1>4, <1>6, <2>1, <2>2, NodeFrame DEF CallInv
<1>9. NodeInv(m)'
  <2>1. /\ SlotsMatch(m) /\ WaitMatches(m)
        /\ \A d \in Node : PlacesMatch(m, d) /\ OnePlace(m, d)
    BY DEF CallInv, NodeInv
  <2>2. InCall(m) /\ n = Destination(m) /\ MainThread(m).op = op
    BY <1>4, <2>1 DEF PlacesMatch
  <2>3. /\ Handlers(m, n) = {} /\ Answers(m, n) = {} /\ ~SlotSet(m)
        /\ \A j \in Requests(m, n) : j = 1
    BY <1>4, <2>1 DEF OnePlace
  <2>4. \A d \in Node : d # n => Requests(m, d) = {} /\ Handlers(m, d) = {} /\ Answers(m, d) = {}
    BY <2>1, <2>2 DEF PlacesMatch
  <2>5. \A d \in Node : Requests(m, d)' = {}
    <3>1. Requests(m, n)' = {}
      BY <1>4, <2>3
    <3>2. \A d \in Node : d # n => Requests(m, d)' = {}
      BY <1>4, <2>4 DEF RequestsKept
    <3> QED  BY <3>1, <3>2
  <2>6. \A d \in Node : Answers(m, d)' = {}
    BY <1>4, <2>3, <2>4 DEF AnswersKept
  <2>7. \A d \in Node : \A j \in Handlers(m, d)' : d = n /\ j = Len(thread[n]) + 1
    BY <1>7, <2>3, <2>4
  <2>8. ~SlotSet(m)' /\ SlotsMatch(m)'
    BY <1>6, <2>1, <2>3 DEF SlotSet, SlotsKept, SlotsMatch
  <2>9. InCall(m)' /\ Destination(m)' = n /\ MainThread(m)' = MainThread(m)
    BY <1>6, <2>2 DEF InCall, Destination
  <2>10. WaitMatches(m)'
    BY <2>1, <2>9 DEF WaitMatches, InCall
  <2>11. ASSUME NEW d \in Node PROVE PlacesMatch(m, d)' /\ OnePlace(m, d)'
    <3>1. PlacesMatch(m, d)'
      BY <1>2, <1>5, <2>2, <2>5, <2>6, <2>7, <2>9 DEF PlacesMatch
    <3>2. \A i, j \in Handlers(m, d)' : i = j
      BY <2>7
    <3> QED  BY <2>5, <2>6, <2>8, <3>1, <3>2 DEF OnePlace
  <2> QED  BY <2>8, <2>10, <2>11 DEF NodeInv
<1> QED  BY <1>8, <1>9 DEF CallInv

LEMMA MonitorStepCallInv ==
  ASSUME TypeInv, CallInv, NEW n \in Node, MonitorStep(n)
  PROVE  CallInv'
<1>1. TypeOK
  BY DEF TypeInv
<1>2. CASE (\E m \in Node : Select(n, m)) \/ StopMonitor(n) \/ ReceiveEof(n)
  <2>1. UNCHANGED thread /\ UNCHANGED <<wire, ack_recvd_, reply_data_, wag_reply_data_>>
    BY <1>2 DEF Select, StopMonitor, ReceiveEof, slots
  <2> QED  BY <2>1, ThreadsUnchanged, CallInvFrame
<1>3. CASE ReceiveAck(n)
  <2>1. /\ Receive(n, Ack) /\ Ack \in Answer /\ UNCHANGED thread
        /\ ack_recvd_' = [ack_recvd_ EXCEPT ![n] = TRUE]
        /\ UNCHANGED <<reply_data_, wag_reply_data_>>
    BY <1>3 DEF ReceiveAck, Answer
  <2>2. \A x \in Node : x # n => SlotsKept(x)
    BY <1>1, <2>1 DEF SlotsKept, TypeOK
  <2>3. MainThread(n)' = MainThread(n)
    BY <2>1 DEF MainThread
  <2>4. ASSUME NEW op \in Request, IsAnswerTo(Ack, op),
               MainThread(n).pc = RemoteEntry(op), SlotsMatch(n)
        PROVE  SlotsMatch(n)'
    <3>1. MainThread(n).pc = "ack"
      BY <2>4 DEF IsAnswerTo, Ack, RemoteEntry
    <3> QED  BY <2>1, <2>3, <2>4, <3>1 DEF SlotsMatch
  <2> QED  BY <2>1, <2>2, <2>4, ReceiveAnswerCallInv
<1>4. CASE ReceiveReply(n)
  <2>1. PICK req \in {"Get", "WaitAndGet"}, v \in Data :
          /\ Receive(n, Reply(req, v))
          /\ IF req = "WaitAndGet"
             THEN /\ wag_reply_data_' = [wag_reply_data_ EXCEPT ![n] = v]
                  /\ UNCHANGED reply_data_
             ELSE /\ reply_data_' = [reply_data_ EXCEPT ![n] = v]
                  /\ UNCHANGED wag_reply_data_
          /\ UNCHANGED <<thread, ack_recvd_>>
    BY <1>4 DEF ReceiveReply
  <2>2. Reply(req, v) \in Answer
    BY DEF Reply, Answer
  <2>3. \A x \in Node : x # n => SlotsKept(x)
    <3>1. CASE req = "WaitAndGet"
      BY <1>1, <2>1, <3>1 DEF SlotsKept, TypeOK
    <3>2. CASE req # "WaitAndGet"
      BY <1>1, <2>1, <3>2 DEF SlotsKept, TypeOK
    <3> QED  BY <3>1, <3>2
  <2>4. MainThread(n)' = MainThread(n)
    BY <2>1 DEF MainThread
  <2>5. ASSUME NEW op \in Request, IsAnswerTo(Reply(req, v), op),
               MainThread(n).pc = RemoteEntry(op), SlotsMatch(n)
        PROVE  SlotsMatch(n)'
    <3>1. op.kind = req
      BY <2>5 DEF IsAnswerTo, Reply, Ack
    <3>2. CASE req = "WaitAndGet"
      <4>1. MainThread(n).pc = "wag_reply"
        BY <2>5, <3>1, <3>2 DEF RemoteEntry
      <4> QED  BY <2>1, <2>4, <2>5, <3>2, <4>1 DEF SlotsMatch
    <3>3. CASE req = "Get"
      <4>1. MainThread(n).pc = "reply"
        BY <2>5, <3>1, <3>3 DEF RemoteEntry
      <4> QED  BY <2>1, <2>4, <2>5, <3>3, <4>1 DEF SlotsMatch
    <3> QED  BY <3>2, <3>3
  <2>6. UNCHANGED thread
    BY <2>1
  <2> HIDE DEF Reply
  <2> QED  BY <2>1, <2>2, <2>3, <2>5, <2>6, ReceiveAnswerCallInv
<1>5. CASE ReceiveRequest(n)
  BY <1>5, ReceiveRequestCallInv
<1>6. CASE ReceiveAfterShutdown(n)
  <2>1. CASE Die(n, "crashed")
    BY <2>1, DieCallInv
  <2>2. CASE UNCHANGED <<prog, ip, thread, mapVars, slots, has_shutdown, wire, status>>
    <3>1. UNCHANGED thread /\ UNCHANGED <<wire, ack_recvd_, reply_data_, wag_reply_data_>>
      BY <2>2 DEF slots
    <3> QED  BY <3>1, ThreadsUnchanged, CallInvFrame
  <2> QED  BY <1>6, <2>1, <2>2 DEF ReceiveAfterShutdown
<1> QED  BY <1>2, <1>3, <1>4, <1>5, <1>6 DEF MonitorStep

-----------------------------------------------------------------------------
LEMMA InitCallInv == Init => CallInv
<1> SUFFICES ASSUME Init, NEW n \in Node PROVE NodeInv(n)
  BY DEF CallInv
<1>1. \A d \in Node : Len(thread[d]) = 1 /\ thread[d][1].pc = "ready"
  <2>1. ASSUME NEW d \in Node PROVE Len(thread[d]) = 1 /\ thread[d][1].pc = "ready"
    <3>1. thread[d] = <<[pc |-> "ready", op |-> Done, from |-> d, val |-> None]>>
      BY DEF Init
    <3> QED  BY <3>1
  <2> QED  BY <2>1
<1>2. \A x, d \in Node : Len(wire[x][d]) = 0
  <2>1. ASSUME NEW x \in Node, NEW d \in Node PROVE Len(wire[x][d]) = 0
    <3>1. wire[x][d] = <<>>
      BY DEF Init
    <3> QED  BY <3>1
  <2> QED  BY <2>1
<1>3. Idle(n)
  BY <1>1, <1>2 DEF Idle, Requests, Handlers, Answers
<1>4. SlotsMatch(n)
  BY DEF Init, SlotsMatch
<1>5. WaitMatches(n)
  BY <1>1 DEF WaitMatches, InCall, MainThread, Main, Waiting
<1> QED  BY <1>3, <1>4, <1>5, IdlePlaces DEF NodeInv

LEMMA CallInvStep == TypeInv /\ CallInv /\ [Next]_vars => CallInv'
<1> SUFFICES ASSUME TypeInv, CallInv, [Next]_vars PROVE CallInv'
  OBVIOUS
<1>1. CASE UNCHANGED vars
  <2>1. UNCHANGED thread /\ UNCHANGED <<wire, ack_recvd_, reply_data_, wag_reply_data_>>
    BY <1>1 DEF vars, slots
  <2> QED  BY <2>1, ThreadsUnchanged, CallInvFrame
<1>2. ASSUME NEW n \in Node, MainStep(n) PROVE CallInv'
  BY <1>2, MainStepCallInv
<1>3. ASSUME NEW n \in Node, NEW i \in 1 .. Len(thread[n]), ThreadStep(n, i) PROVE CallInv'
  BY <1>3, ThreadStepCallInv
<1>4. ASSUME NEW n \in Node, ExitStep(n) PROVE CallInv'
  <2>1. Die(n, "failed")
    BY <1>4 DEF ExitStep, ExitAfterShutdown, SendFails
  <2> QED  BY <2>1, DieCallInv
<1>5. ASSUME NEW n \in Node, MonitorStep(n) PROVE CallInv'
  BY <1>5, MonitorStepCallInv
<1> QED  BY <1>1, <1>2, <1>3, <1>4, <1>5 DEF Next

LEMMA CallInvariant == Spec => []CallInv
<1> QED  BY InitCallInv, CallInvStep, TypeInvariant, PTL DEF Spec

(* No answer is ever left over for a later call, and no call takes the     *)
(* answer of another, though answers are not numbered and there is one     *)
(* slot of each kind.                                                      *)
THEOREM AnswersCorrect == Spec => []AnswersMatchCalls
<1>1. CallInv => AnswersMatchCalls
  BY DEF CallInv, NodeInv, AnswersMatchCalls
<1> QED  BY <1>1, CallInvariant, PTL

(* No call is executed or answered twice.                                  *)
THEOREM CallsExecutedOnce == Spec => []OnePlacePerCall
<1>1. CallInv => OnePlacePerCall
  BY DEF CallInv, NodeInv, OnePlacePerCall
<1> QED  BY <1>1, CallInvariant, PTL


-----------------------------------------------------------------------------
(* The holder of the mutex is one of the threads there are: the next       *)
(* handler will not find itself holding it.                                *)
MutexInv == \A n \in Node : /\ mtx_[n] \in 0 .. Len(thread[n])
                            /\ \A i \in 1 .. Len(thread[n]) :
                                 thread[n][i].pc = "store" <=> mtx_[n] = i

(* Steps of a node's threads that leave the mutex alone.                   *)
LEMMA MutexFrame ==
  ASSUME TypeInv, MutexInv, UNCHANGED mtx_,
         \A x \in Node : /\ Len(thread'[x]) \in Nat /\ Len(thread'[x]) >= Len(thread[x])
                         /\ \A j \in 1 .. Len(thread'[x]) :
                              IF j \in 1 .. Len(thread[x])
                              THEN thread'[x][j].pc = "store" <=> thread[x][j].pc = "store"
                              ELSE thread'[x][j].pc # "store"
  PROVE  MutexInv'
<1>1. \A x \in Node : Len(thread[x]) \in Nat
  BY ThreadTypes DEF TypeInv
<1>2. ASSUME NEW x \in Node PROVE mtx_'[x] \in 0 .. Len(thread'[x])
  BY <1>1 DEF MutexInv
<1>3. ASSUME NEW x \in Node, NEW j \in 1 .. Len(thread'[x])
      PROVE  (thread'[x][j].pc = "store") <=> (mtx_'[x] = j)
  <2>1. CASE j \in 1 .. Len(thread[x])
    BY <2>1 DEF MutexInv
  <2>2. CASE j \notin 1 .. Len(thread[x])
    <3>1. mtx_[x] # j
      BY <1>1, <2>2 DEF MutexInv
    <3>2. thread'[x][j].pc # "store"
      BY <2>2
    <3> QED  BY <3>1, <3>2
  <2> QED  BY <2>1, <2>2
<1> QED  BY <1>2, <1>3 DEF MutexInv

LEMMA MutexReplace ==
  ASSUME TypeInv, MutexInv, UNCHANGED mtx_, NEW n \in Node, NEW i \in 1 .. Len(thread[n]),
         NEW t \in Thread, Replaces(n, i, t), t.pc # "store", thread[n][i].pc # "store"
  PROVE  MutexInv'
<1>1. TypeOK
  BY DEF TypeInv
<1>2. /\ \A m \in Node : Len(thread'[m]) = Len(thread[m])
      /\ \A m \in Node : \A j \in 1 .. Len(thread[m]) :
           thread'[m][j] = IF m = n /\ j = i THEN t ELSE thread[m][j]
  BY <1>1, UpdateEffect
<1>3. \A m \in Node : Len(thread[m]) \in Nat
  BY <1>1, ThreadTypes
<1>4. ASSUME NEW x \in Node, NEW j \in 1 .. Len(thread'[x])
      PROVE  j \in 1 .. Len(thread[x]) /\ (thread'[x][j].pc = "store" <=> thread[x][j].pc = "store")
  <2>1. j \in 1 .. Len(thread[x])
    BY <1>2
  <2>2. CASE x = n /\ j = i
    <3>1. thread'[x][j] = t
      BY <1>2, <2>1, <2>2
    <3> QED  BY <2>1, <2>2, <3>1
  <2>3. CASE ~(x = n /\ j = i)
    <3>1. thread'[x][j] = thread[x][j]
      BY <1>2, <2>1, <2>3
    <3> QED  BY <2>1, <3>1
  <2> QED  BY <2>2, <2>3
<1>5. \A x \in Node : Len(thread'[x]) \in Nat /\ Len(thread'[x]) >= Len(thread[x])
  BY <1>2, <1>3
<1> QED  BY <1>4, <1>5, MutexFrame

LEMMA MutexUnchanged ==
  ASSUME TypeInv, MutexInv, UNCHANGED <<mtx_, thread>>
  PROVE  MutexInv'
BY DEF MutexInv

LEMMA MutexSetThread ==
  ASSUME TypeInv, MutexInv, UNCHANGED mtx_, NEW n \in Node, NEW i \in 1 .. Len(thread[n]),
         NEW pc \in Pc \ {"store"}, NEW val \in Data \cup {None}, SetThread(n, i, pc, val),
         thread[n][i].pc # "store"
  PROVE  MutexInv'
<1> DEFINE t == [thread[n][i] EXCEPT !.pc = pc, !.val = val]
<1>1. TypeOK /\ pc \in Pc
  BY DEF TypeInv
<1>2. t \in Thread /\ Replaces(n, i, t)
  BY <1>1, SetThreadEffect
<1>3. t.pc # "store"
  <2>1. thread[n][i] \in Thread
    BY <1>1, ThreadTypes
  <2> QED  BY <2>1 DEF Thread
<1> HIDE DEF t
<1> QED  BY <1>2, <1>3, MutexReplace

LEMMA MutexStart ==
  ASSUME TypeInv, MutexInv, UNCHANGED mtx_, NEW n \in Node, HasCall(n),
         CurrentCall(n) \in Request, NEW pc \in Pc \ {"store"}, StartCall(n, pc)
  PROVE  MutexInv'
<1> DEFINE t == [thread[n][Main] EXCEPT !.pc = pc, !.op = CurrentCall(n)]
<1>1. TypeOK /\ pc \in Pc /\ CurrentCall(n) \in Call /\ Main \in 1 .. Len(thread[n])
  BY ThreadTypes DEF TypeInv, Call
<1>2. t \in Thread /\ Replaces(n, Main, t)
  BY <1>1, StartCallEffect
<1>3. t.pc # "store" /\ thread[n][Main].pc # "store"
  <2>1. thread[n][Main] \in Thread /\ thread[n][Main].pc = "ready"
    BY <1>1, ThreadTypes DEF HasCall, MainThread
  <2> QED  BY <2>1 DEF Thread
<1> HIDE DEF t
<1> QED  BY <1>1, <1>2, <1>3, MutexReplace

LEMMA MutexPutLock ==
  ASSUME TypeInv, MutexInv, NEW n \in Node, NEW i \in 1 .. Len(thread[n]), PutLock(n, i)
  PROVE  MutexInv'
<1> DEFINE t0 == [thread[n][i] EXCEPT !.pc = "store", !.val = None]
<1>1. TypeOK /\ \A m \in Node : Len(thread[m]) \in Nat
  BY ThreadTypes DEF TypeInv
<1>2. /\ SetThread(n, i, "store", None) /\ mtx_[n] = 0
      /\ mtx_' = [mtx_ EXCEPT ![n] = i] /\ mtx_ \in [Node -> Nat]
  BY <1>1 DEF PutLock, TypeOK
<1>3. PICK t \in Thread : t.pc = "store" /\ Replaces(n, i, t)
  <2>1. "store" \in Pc
    BY DEF Pc
  <2>2. t0 \in Thread /\ Replaces(n, i, t0)
    BY <1>1, <1>2, <2>1, SetThreadEffect
  <2>3. t0.pc = "store"
    <3>1. thread[n][i] \in Thread
      BY <1>1, ThreadTypes
    <3> QED  BY <3>1 DEF Thread
  <2> HIDE DEF t0
  <2> QED  BY <2>2, <2>3
<1>4. /\ \A m \in Node : Len(thread'[m]) = Len(thread[m])
      /\ \A m \in Node : \A j \in 1 .. Len(thread[m]) :
           thread'[m][j] = IF m = n /\ j = i THEN t ELSE thread[m][j]
  BY <1>1, <1>3, UpdateEffect
<1>5. ASSUME NEW x \in Node
      PROVE  /\ mtx_'[x] \in 0 .. Len(thread'[x])
             /\ \A j \in 1 .. Len(thread'[x]) : thread'[x][j].pc = "store" <=> mtx_'[x] = j
  <2>1. CASE x = n
    <3>1. mtx_'[x] = i /\ Len(thread'[x]) = Len(thread[n])
      BY <1>2, <1>4, <2>1
    <3>2. \A j \in 1 .. Len(thread[n]) : thread[n][j].pc # "store"
      BY <1>1, <1>2 DEF MutexInv
    <3>3. ASSUME NEW j \in 1 .. Len(thread[n])
          PROVE  (thread'[n][j].pc = "store") <=> (j = i)
      <4>1. CASE j = i
        BY <1>3, <1>4, <4>1
      <4>2. CASE j # i
        BY <1>4, <3>2, <4>2
      <4> QED  BY <4>1, <4>2
    <3> QED  BY <1>1, <2>1, <3>1, <3>3
  <2>2. CASE x # n
    <3>1. mtx_'[x] = mtx_[x] /\ Len(thread'[x]) = Len(thread[x])
      BY <1>2, <1>4, <2>2
    <3>2. ASSUME NEW j \in 1 .. Len(thread[x])
          PROVE  thread'[x][j].pc = "store" <=> mtx_[x] = j
      <4>1. thread'[x][j] = thread[x][j]
        BY <1>4, <2>2
      <4>2. thread[x][j].pc = "store" <=> mtx_[x] = j
        BY DEF MutexInv
      <4> QED  BY <4>1, <4>2
    <3>3. mtx_[x] \in 0 .. Len(thread[x])
      BY DEF MutexInv
    <3> QED  BY <3>1, <3>2, <3>3
  <2> QED  BY <2>1, <2>2
<1> QED  BY <1>5 DEF MutexInv

LEMMA MutexPutStore ==
  ASSUME TypeInv, MutexInv, NEW n \in Node, NEW i \in 1 .. Len(thread[n]), PutStore(n, i)
  PROVE  MutexInv'
<1>1. TypeOK /\ \A m \in Node : Len(thread[m]) \in Nat
  BY ThreadTypes DEF TypeInv
<1>2. /\ thread[n][i].pc = "store" /\ mtx_' = [mtx_ EXCEPT ![n] = 0] /\ mtx_ \in [Node -> Nat]
  BY <1>1 DEF PutStore, At, TypeOK
<1>3. mtx_[n] = i /\ \A j \in 1 .. Len(thread[n]) : j # i => thread[n][j].pc # "store"
  BY <1>2 DEF MutexInv
<1>4. /\ \A m \in Node : Len(thread'[m]) = Len(thread[m])
      /\ \A m \in Node : m # n => thread'[m] = thread[m]
  BY <1>1, PutStoreEffect
<1>0. \A j \in 1 .. Len(thread[n]) :
        j # i => \/ thread'[n][j] = thread[n][j]
                 \/ /\ thread[n][j].pc = "copy"
                    /\ thread'[n][j] = [thread[n][j] EXCEPT !.val = Garbage]
  BY <1>1, PutStoreEffect
<1>5. ASSUME NEW j \in 1 .. Len(thread[n]) PROVE thread'[n][j].pc # "store"
  <2>1. thread[n][j] \in Thread
    BY <1>1, ThreadTypes
  <2>2. CASE j = i
    <3>1. thread'[n][j] = [thread[n][j] EXCEPT !.pc = IF i = Main THEN "ready" ELSE "send"]
      BY <1>1, <2>2, PutStoreEffect
    <3> QED  BY <2>1, <3>1 DEF Thread
  <2>3. CASE j # i
    <3>1. \/ thread'[n][j] = thread[n][j]
          \/ /\ thread[n][j].pc = "copy"
             /\ thread'[n][j] = [thread[n][j] EXCEPT !.val = Garbage]
      BY <1>0, <2>3
    <3> QED  BY <1>3, <2>1, <2>3, <3>1 DEF Thread
  <2> QED  BY <2>2, <2>3
<1>6. ASSUME NEW x \in Node
      PROVE  /\ mtx_'[x] \in 0 .. Len(thread'[x])
             /\ \A j \in 1 .. Len(thread'[x]) : thread'[x][j].pc = "store" <=> mtx_'[x] = j
  <2>1. CASE x = n
    <3>1. mtx_'[x] = 0 /\ Len(thread'[x]) = Len(thread[n])
      BY <1>2, <1>4, <2>1
    <3> QED  BY <1>1, <1>5, <2>1, <3>1
  <2>2. CASE x # n
    <3>1. mtx_'[x] = mtx_[x] /\ thread'[x] = thread[x]
      BY <1>2, <1>4, <2>2
    <3> QED  BY <3>1 DEF MutexInv
  <2> QED  BY <2>1, <2>2
<1> QED  BY <1>6 DEF MutexInv

LEMMA MutexSpawn ==
  ASSUME TypeInv, MutexInv, NEW n \in Node, ReceiveRequest(n)
  PROVE  MutexInv'
<1>1. TypeOK /\ \A m \in Node : Len(thread[m]) \in Nat
  BY ThreadTypes DEF TypeInv
<1>2. PICK t \in Thread : t.pc # "store" /\ thread' = [thread EXCEPT ![n] = Append(@, t)]
  <2> DEFINE m0 == monitor[n].from
             op0 == Head(wire[m0][n])
             t0 == Handler(m0, op0)
  <2>1. op0 \in Request /\ thread' = [thread EXCEPT ![n] = Append(@, t0)]
    BY DEF ReceiveRequest
  <2>2. m0 \in Node
    BY <1>1 DEF TypeOK
  <2>3. t0 \in Thread /\ t0.pc # "store"
    <3> HIDE DEF m0, op0
    <3> QED  BY <2>1, <2>2 DEF Handler, LocalEntry, Thread, Pc, Call, Request
  <2> HIDE DEF m0, op0, t0
  <2> QED  BY <2>1, <2>3
<1>3. /\ \A x \in Node : Len(thread'[x]) = IF x = n THEN Len(thread[x]) + 1 ELSE Len(thread[x])
      /\ \A x \in Node : \A j \in 1 .. Len(thread[x]) : thread'[x][j] = thread[x][j]
      /\ thread'[n][Len(thread[n]) + 1] = t
  BY <1>1, <1>2, SpawnEffect
<1>4. ASSUME NEW x \in Node, NEW j \in 1 .. Len(thread'[x])
      PROVE  IF j \in 1 .. Len(thread[x])
             THEN thread'[x][j].pc = "store" <=> thread[x][j].pc = "store"
             ELSE thread'[x][j].pc # "store"
  <2>1. CASE j \in 1 .. Len(thread[x])
    <3>1. thread'[x][j] = thread[x][j]
      BY <1>3, <2>1
    <3> QED  BY <2>1, <3>1
  <2>2. CASE j \notin 1 .. Len(thread[x])
    <3>1. x = n /\ j = Len(thread[n]) + 1
      BY <1>1, <1>3, <2>2
    <3> QED  BY <1>2, <1>3, <2>2, <3>1
  <2> QED  BY <2>1, <2>2
<1>5. \A x \in Node : Len(thread'[x]) \in Nat /\ Len(thread'[x]) >= Len(thread[x])
  BY <1>1, <1>3
<1>6. UNCHANGED mtx_
  BY DEF ReceiveRequest, mapVars
<1> QED  BY <1>4, <1>5, <1>6, MutexFrame

LEMMA MutexStep == TypeInv /\ MutexInv /\ [Next]_vars => MutexInv'
<1> SUFFICES ASSUME TypeInv, MutexInv, [Next]_vars PROVE MutexInv'
  OBVIOUS
<1>1. TypeOK /\ \A m \in Node : Main \in 1 .. Len(thread[m])
  BY ThreadTypes DEF TypeInv
<1>2. Pc \ {"store"} = {"ready", "put", "wag", "poll", "get", "copy", "ack", "reply",
                        "wag_reply", "send", "done"}
  BY DEF Pc
<1>3. CASE UNCHANGED vars
  BY <1>3, MutexUnchanged DEF vars, mapVars
<1>4. ASSUME NEW n \in Node, NEW how, Die(n, how) PROVE MutexInv'
  BY <1>4, MutexUnchanged DEF Die, mapVars
<1>5. ASSUME NEW n \in Node, MainStep(n) PROVE MutexInv'
  <2>1. CASE BeginLocal(n) \/ BeginRemote(n)
    <3>1. PICK pc \in Pc \ {"store"} :
            HasCall(n) /\ CurrentCall(n) \in Request /\ StartCall(n, pc) /\ UNCHANGED mtx_
      <4>1. CASE BeginLocal(n)
        <5>1. CurrentCall(n) \in Request /\ LocalEntry(CurrentCall(n)) \in Pc \ {"store"}
          BY <1>2, <4>1 DEF BeginLocal, LocalEntry, Request
        <5> QED  BY <4>1, <5>1 DEF BeginLocal, mapVars
      <4>2. CASE BeginRemote(n)
        <5>1. CurrentCall(n) \in Request /\ RemoteEntry(CurrentCall(n)) \in Pc \ {"store"}
          BY <1>2, <4>2 DEF BeginRemote, IsRemote, RemoteEntry, Request
        <5> QED  BY <4>2, <5>1 DEF BeginRemote, mapVars
      <4> QED  BY <2>1, <4>1, <4>2
    <3> QED  BY <3>1, MutexStart
  <2>2. CASE ReturnPut(n) \/ ReturnGet(n) \/ ReturnWag(n)
    <3>1. PICK v \in Data \cup {None} :
            /\ SetThread(n, Main, "ready", v)
            /\ thread[n][Main].pc # "store" /\ UNCHANGED mtx_
      BY <1>1, <2>2 DEF ReturnPut, ReturnGet, ReturnWag, Complete, MainThread, TypeOK, mapVars
    <3> QED  BY <1>1, <1>2, <3>1, MutexSetThread
  <2>3. CASE CallDone(n) \/ Finish(n)
    BY <1>4, <2>3, MutexUnchanged DEF CallDone, Finish, mapVars
  <2> QED  BY <1>5, <2>1, <2>2, <2>3 DEF MainStep
<1>6. ASSUME NEW n \in Node, NEW i \in 1 .. Len(thread[n]), ThreadStep(n, i) PROVE MutexInv'
  <2>0. thread[n][i] \in Thread /\ ThreadOK(thread[n][i], i)
    BY <1>1, ThreadTypes DEF TypeInv, ThreadsOK
  <2>1. CASE PutLock(n, i) \/ PutStore(n, i)
    BY <2>1, MutexPutLock, MutexPutStore
  <2>2. CASE MapContains(n, i)
    <3>1. PICK pc \in {"get", "poll"} : /\ SetThread(n, i, pc, None)
                                       /\ thread[n][i].pc # "store" /\ UNCHANGED mtx_
      BY <2>2 DEF MapContains, At, mapVars
    <3> QED  BY <1>2, <3>1, MutexSetThread
  <2>3. CASE GetLookup(n, i)
    <3>1. thread[n][i].pc = "get" /\ thread[n][i].op.key \in Key
      BY <2>0, <2>3 DEF GetLookup, At, ThreadOK, Request
    <3>2. map_[n][thread[n][i].op.key] \in Data \cup {None}
      BY <1>1, <3>1 DEF TypeOK, Data
    <3>3. SetThread(n, i, "copy", map_[n][thread[n][i].op.key]) /\ UNCHANGED mtx_
      BY <2>3 DEF GetLookup, mapVars
    <3> QED  BY <1>2, <3>1, <3>2, <3>3, MutexSetThread
  <2>4. CASE GetCopy(n, i)
    <3>1. thread[n][i].pc = "copy" /\ thread[n][i].val \in Data \cup {None}
      BY <2>0, <2>4 DEF GetCopy, At, Thread
    <3>2. CASE Complete(n, i, thread[n][i].val) /\ UNCHANGED mapVars
      <4>1. PICK pc \in {"ready", "send"} : SetThread(n, i, pc, thread[n][i].val)
        BY <3>2 DEF Complete
      <4> QED  BY <1>2, <3>1, <3>2, <4>1, MutexSetThread DEF mapVars
    <3> QED  BY <1>4, <2>4, <3>2 DEF GetCopy
  <2>5. CASE SendAnswer(n, i)
    <3>1. SetThread(n, i, "done", None) /\ thread[n][i].pc = "send" /\ UNCHANGED mtx_
      BY <2>5 DEF SendAnswer, At, mapVars
    <3> QED  BY <1>2, <3>1, MutexSetThread
  <2>6. CASE ContainsDuringGrow(n, i) \/ GetAssertFails(n, i)
    BY <1>4, <2>6 DEF ContainsDuringGrow, GetAssertFails
  <2> QED  BY <1>6, <2>1, <2>2, <2>3, <2>4, <2>5, <2>6 DEF ThreadStep
<1>7. ASSUME NEW n \in Node, ExitStep(n) PROVE MutexInv'
  BY <1>4, <1>7 DEF ExitStep, ExitAfterShutdown, SendFails
<1>8. ASSUME NEW n \in Node, MonitorStep(n) PROVE MutexInv'
  <2>1. CASE (\E m \in Node : Select(n, m)) \/ StopMonitor(n) \/ ReceiveAck(n) \/ ReceiveReply(n) \/ ReceiveEof(n)
    BY <2>1, MutexUnchanged
       DEF Select, StopMonitor, ReceiveAck, ReceiveReply, ReceiveEof, mapVars
  <2>2. CASE ReceiveRequest(n)
    BY <2>2, MutexSpawn
  <2>3. CASE ReceiveAfterShutdown(n)
    BY <1>4, <2>3, MutexUnchanged DEF ReceiveAfterShutdown, mapVars
  <2> QED  BY <1>8, <2>1, <2>2, <2>3 DEF MonitorStep
<1> QED  BY <1>3, <1>5, <1>6, <1>7, <1>8 DEF Next

(* At most one thread of a node is inside put at a time, and it is the one *)
(* that holds the mutex.                                                   *)
THEOREM MutexCorrect == Spec => []MutexOK
<1>1. Init => MutexInv
  <2> SUFFICES ASSUME Init, NEW n \in Node
               PROVE  /\ mtx_[n] \in 0 .. Len(thread[n])
                      /\ \A i \in 1 .. Len(thread[n]) : thread[n][i].pc = "store" <=> mtx_[n] = i
    BY DEF MutexInv
  <2>1. thread[n] = <<[pc |-> "ready", op |-> Done, from |-> n, val |-> None]>> /\ mtx_[n] = 0
    BY DEF Init
  <2>2. Len(thread[n]) = 1 /\ thread[n][1].pc = "ready"
    BY <2>1
  <2> QED  BY <2>1, <2>2
<1>2. MutexInv => MutexOK
  BY DEF MutexInv, MutexOK
<1> QED  BY <1>1, <1>2, MutexStep, TypeInvariant, PTL DEF Spec

-----------------------------------------------------------------------------
(* What an Ack means: when a put is over, and from the moment its Ack is   *)
(* sent, the key is in the map of its home node.                           *)

Stores(d, op) == map_[d][op.key] # None

(* A handler that is about to acknowledge a put has stored its blob.       *)
SentInv == \A d \in Node : \A i \in 1 .. Len(thread[d]) :
  thread[d][i].pc = "send" /\ thread[d][i].op.kind = "Put" => Stores(d, thread[d][i].op)

(* The Ack of the put in which node n waits has been sent.                 *)
Told(n) == /\ MainThread(n).pc = "ack"
           /\ ack_recvd_[n] \/ \E d \in Node : Answers(n, d) # {}

ToldInv == \A n \in Node : Told(n) => Stores(Destination(n), MainThread(n).op)

StoreInv == SentInv /\ ToldInv

-----------------------------------------------------------------------------
(* What a step may do without a proof that a blob is stored: keys stay in  *)
(* the maps, ...                                                           *)
MapGrows == \A d \in Node : \A k \in Key : map_[d][k] # None => map_'[d][k] # None

(* ... a handler is about to answer only if it was, or has stored, ...     *)
SentBefore(d, i) == /\ i \in 1 .. Len(thread[d])
                    /\ thread[d][i].pc = "send"
                    /\ thread[d][i].op = thread'[d][i].op
SentKept == \A d \in Node : \A i \in 1 .. Len(thread'[d]) :
  thread'[d][i].pc = "send" /\ thread'[d][i].op.kind = "Put"
    => SentBefore(d, i) \/ map_'[d][thread'[d][i].op.key] # None

(* ... and no node is told anything.                                       *)
ToldKept(n) == Told(n)' => Told(n) /\ MainThread(n)' = MainThread(n)

LEMMA StoreFrame ==
  ASSUME TypeInv, StoreInv, MapGrows, SentKept, TypeInv',
         \A n \in Node : ToldKept(n) \/ Stores(Destination(n), MainThread(n).op)'
  PROVE  StoreInv'
<1>1. ASSUME NEW d \in Node, NEW i \in 1 .. Len(thread'[d]),
             thread'[d][i].pc = "send", thread'[d][i].op.kind = "Put"
      PROVE  map_'[d][thread'[d][i].op.key] # None
  <2>1. CASE SentBefore(d, i)
    <3>1. /\ i \in 1 .. Len(thread[d]) /\ thread[d][i].pc = "send"
          /\ thread[d][i].op = thread'[d][i].op
      BY <2>1 DEF SentBefore
    <3>2. map_[d][thread[d][i].op.key] # None
      BY <1>1, <3>1 DEF StoreInv, SentInv, Stores
    <3>3. thread[d][i].op.key \in Key
      BY <3>1 DEF TypeInv, ThreadsOK, ThreadOK, Request
    <3>4. map_'[d][thread[d][i].op.key] # None
      BY <3>2, <3>3 DEF MapGrows
    <3> QED  BY <3>1, <3>4 DEF Stores
  <2>2. CASE ~SentBefore(d, i)
    BY <1>1, <2>2 DEF SentKept
  <2> QED  BY <2>1, <2>2
<1>2. ASSUME NEW n \in Node, Told(n)'
      PROVE  Stores(Destination(n), MainThread(n).op)'
  <2>1. CASE ToldKept(n)
    <3>1. Told(n) /\ MainThread(n)' = MainThread(n)
      BY <1>2, <2>1 DEF ToldKept
    <3>2. map_[Destination(n)][MainThread(n).op.key] # None
      BY <3>1 DEF StoreInv, ToldInv, Stores
    <3>3. MainThread(n).op.key \in Key
      <4>1. Main \in 1 .. Len(thread[n])
        BY ThreadTypes DEF TypeInv
      <4>2. ThreadOK(MainThread(n), Main)
        BY <4>1 DEF TypeInv, ThreadsOK, MainThread
      <4> QED  BY <3>1, <4>2 DEF Told, ThreadOK, Request
    <3>4. Destination(n) \in Node
      BY <3>3, HomeAssumption DEF Destination
    <3>5. map_'[Destination(n)][MainThread(n).op.key] # None
      BY <3>2, <3>3, <3>4 DEF MapGrows
    <3>6. Destination(n)' = Destination(n)
      BY <3>1 DEF Destination
    <3> QED  BY <3>1, <3>5, <3>6 DEF Stores
  <2> QED  BY <1>2, <2>1
<1>3. SentInv'
  BY <1>1 DEF SentInv, Stores
<1>4. ToldInv'
  BY <1>2 DEF ToldInv
<1> QED  BY <1>3, <1>4 DEF StoreInv

(* Steps that have nothing to do with it.                                  *)
LEMMA StoreUnchanged ==
  ASSUME StoreInv, UNCHANGED <<thread, map_, ack_recvd_, wire>>
  PROVE  StoreInv'
BY DEF StoreInv, SentInv, ToldInv, Stores, Told, MainThread, Answers, Destination

(* No answer comes to be on the wire, no Ack in a slot.                    *)
NoNews(n) == /\ ack_recvd_'[n] => ack_recvd_[n]
             /\ AnswersKept(n)

LEMMA NoNewsIsKept ==
  ASSUME NEW n \in Node, NoNews(n), MainThread(n)' = MainThread(n)
  PROVE  ToldKept(n)
<1>1. \A d \in Node : Answers(n, d)' # {} => Answers(n, d) # {}
  BY DEF NoNews, AnswersKept
<1> QED  BY <1>1 DEF ToldKept, Told, NoNews

(* One thread goes on; it is not the main thread entering the wait for an  *)
(* Ack, unless nothing is under way for it.                                *)
LEMMA StoreReplace ==
  ASSUME TypeInv, StoreInv, TypeInv', UNCHANGED map_,
         NEW n \in Node, NEW i \in 1 .. Len(thread[n]), NEW t \in Thread, Replaces(n, i, t),
         t.pc = "send" => t.op.kind # "Put",
         i = Main /\ t.pc = "ack" => ~Told(n)',
         \A x \in Node : MainThread(x)' = MainThread(x) => ToldKept(x) \/ Stores(Destination(x), MainThread(x).op)'
  PROVE  StoreInv'
<1>1. /\ \A m \in Node : Len(thread'[m]) = Len(thread[m])
      /\ \A m \in Node : \A j \in 1 .. Len(thread[m]) :
           thread'[m][j] = IF m = n /\ j = i THEN t ELSE thread[m][j]
  BY UpdateEffect DEF TypeInv
<1>2. SentKept
  <2> SUFFICES ASSUME NEW d \in Node, NEW j \in 1 .. Len(thread'[d]),
                      thread'[d][j].pc = "send", thread'[d][j].op.kind = "Put"
               PROVE  SentBefore(d, j)
    BY DEF SentKept
  <2>1. j \in 1 .. Len(thread[d])
    BY <1>1
  <2>2. ~(d = n /\ j = i)
    BY <1>1, <2>1
  <2>3. thread'[d][j] = thread[d][j]
    BY <1>1, <2>1, <2>2
  <2> QED  BY <2>1, <2>3 DEF SentBefore
<1>3. ASSUME NEW x \in Node
      PROVE  ToldKept(x) \/ Stores(Destination(x), MainThread(x).op)'
  <2>1. Main \in 1 .. Len(thread[x])
    BY ThreadTypes DEF TypeInv
  <2>2. CASE x = n /\ i = Main
    <3>1. MainThread(x)' = t
      BY <1>1, <2>1, <2>2 DEF MainThread
    <3>2. ~Told(x)'
      BY <2>2, <3>1 DEF Told
    <3> QED  BY <3>2 DEF ToldKept
  <2>3. CASE ~(x = n /\ i = Main)
    <3>1. MainThread(x)' = MainThread(x)
      BY <1>1, <2>1, <2>3 DEF MainThread
    <3> QED  BY <3>1
  <2> QED  BY <2>2, <2>3
<1>4. MapGrows
  BY DEF MapGrows
<1> QED  BY <1>2, <1>3, <1>4, StoreFrame

LEMMA StoreSetThread ==
  ASSUME TypeInv, StoreInv, TypeInv', UNCHANGED map_,
         NEW n \in Node, NEW i \in 1 .. Len(thread[n]),
         NEW pc \in Pc \ {"ack"}, NEW val \in Data \cup {None}, SetThread(n, i, pc, val),
         pc = "send" => thread[n][i].op.kind # "Put",
         \A x \in Node : MainThread(x)' = MainThread(x) => ToldKept(x) \/ Stores(Destination(x), MainThread(x).op)'
  PROVE  StoreInv'
<1> DEFINE t == [thread[n][i] EXCEPT !.pc = pc, !.val = val]
<1>1. TypeOK /\ pc \in Pc
  BY DEF TypeInv
<1>2. t \in Thread /\ t.pc = pc /\ t.op = thread[n][i].op /\ Replaces(n, i, t)
  <2>1. t \in Thread /\ Replaces(n, i, t)
    BY <1>1, SetThreadEffect
  <2>2. thread[n][i] \in Thread
    BY <1>1, ThreadTypes
  <2> QED  BY <2>1, <2>2 DEF Thread
<1>3. (t.pc = "send" => t.op.kind # "Put") /\ t.pc # "ack"
  BY <1>2
<1> HIDE DEF t
<1> QED  BY <1>2, <1>3, StoreReplace

(* A put of the main thread is local, or a handler's; a blob is not None.  *)
LEMMA StorePutStore ==
  ASSUME TypeInv, StoreInv, TypeInv', NEW n \in Node, NEW i \in 1 .. Len(thread[n]), PutStore(n, i)
  PROVE  StoreInv'
<1>1. TypeOK /\ thread[n][i] \in Thread /\ ThreadOK(thread[n][i], i)
  BY ThreadTypes DEF TypeInv, ThreadsOK
<1>2. PICK k \in Key, v \in Value : thread[n][i].op.key = k /\ thread[n][i].op.val = v
  <2>1. thread[n][i].pc = "store"
    BY DEF PutStore, At
  <2>2. thread[n][i].op \in Request /\ thread[n][i].op.kind = "Put"
    BY <1>1, <2>1 DEF ThreadOK
  <2> QED  BY <2>2 DEF Request
<1>3. /\ map_' = [map_ EXCEPT ![n][k] = v] /\ map_ \in [Node -> [Key -> Value \cup {None}]]
      /\ UNCHANGED <<wire, ack_recvd_>>
  BY <1>1, <1>2 DEF PutStore, TypeOK, slots
<1>4. v # None
  BY NoneAssumption
<1>5. MapGrows /\ map_'[n][k] # None
  BY <1>3, <1>4 DEF MapGrows
<1>6. /\ \A m \in Node : Len(thread'[m]) = Len(thread[m])
      /\ \A m \in Node : m # n => thread'[m] = thread[m]
      /\ thread'[n][i] = [thread[n][i] EXCEPT !.pc = IF i = Main THEN "ready" ELSE "send"]
      /\ \A j \in 1 .. Len(thread[n]) :
           j # i => \/ thread'[n][j] = thread[n][j]
                    \/ /\ thread[n][j].pc = "copy"
                       /\ thread'[n][j] = [thread[n][j] EXCEPT !.val = Garbage]
  BY <1>1, PutStoreEffect
<1>7. /\ thread'[n][i].pc = IF i = Main THEN "ready" ELSE "send"
      /\ thread'[n][i].op = thread[n][i].op
  BY <1>1, <1>6 DEF Thread
<1>8. ASSUME NEW m \in Node, NEW j \in 1 .. Len(thread[m]), ~(m = n /\ j = i)
      PROVE  thread'[m][j] = thread[m][j] \/ thread'[m][j].pc = "copy"
  <2>1. thread[m][j] \in Thread
    BY <1>1, ThreadTypes
  <2>2. [thread[m][j] EXCEPT !.val = Garbage].pc = thread[m][j].pc
    BY <2>1 DEF Thread
  <2> QED  BY <1>6, <1>8, <2>2
<1>9. SentKept
  <2> SUFFICES ASSUME NEW d \in Node, NEW j \in 1 .. Len(thread'[d]),
                      thread'[d][j].pc = "send", thread'[d][j].op.kind = "Put"
               PROVE  SentBefore(d, j) \/ map_'[d][thread'[d][j].op.key] # None
    BY DEF SentKept
  <2>1. j \in 1 .. Len(thread[d])
    BY <1>6
  <2>2. CASE d = n /\ j = i
    BY <1>2, <1>5, <1>7, <2>2
  <2>3. CASE ~(d = n /\ j = i)
    <3>1. thread'[d][j] = thread[d][j]
      BY <1>8, <2>1, <2>3
    <3> QED  BY <2>1, <3>1 DEF SentBefore
  <2> QED  BY <2>2, <2>3
<1>10. ASSUME NEW x \in Node PROVE ToldKept(x)
  <2>1. Main \in 1 .. Len(thread[x])
    BY <1>1, ThreadTypes
  <2>2. CASE MainThread(x)' = MainThread(x)
    <3>1. NoNews(x)
      BY <1>1, <1>3, WireUnchanged DEF NoNews
    <3> QED  BY <2>2, <3>1, NoNewsIsKept
  <2>3. CASE MainThread(x)' # MainThread(x)
    <3>1. thread'[x][Main].pc # "ack"
      <4>1. CASE x = n /\ i = Main
        BY <1>7, <4>1
      <4>2. CASE ~(x = n /\ i = Main)
        BY <1>8, <2>1, <2>3, <4>2 DEF MainThread
      <4> QED  BY <4>1, <4>2
    <3> QED  BY <3>1 DEF ToldKept, Told, MainThread
  <2> QED  BY <2>2, <2>3
<1> QED  BY <1>5, <1>9, <1>10, StoreFrame

(* Only here an Ack comes on the wire, from a handler of the waiting put.  *)
LEMMA StoreSendAnswer ==
  ASSUME TypeInv, CallInv, StoreInv, TypeInv',
         NEW n \in Node, NEW i \in 1 .. Len(thread[n]), SendAnswer(n, i)
  PROVE  StoreInv'
<1>1. TypeOK /\ thread[n][i] \in Thread /\ ThreadOK(thread[n][i], i)
  BY ThreadTypes DEF TypeInv, ThreadsOK
<1>2. PICK d \in Node, msg \in {AnswerTo(thread[n][i])} :
        /\ d = thread[n][i].from
        /\ thread[n][i].pc = "send" /\ i # Main
        /\ Sends(n, d, msg) /\ SetThread(n, i, "done", None)
        /\ UNCHANGED <<map_, ack_recvd_>>
  BY <1>1 DEF SendAnswer, At, Sends, Thread, mapVars, slots, ThreadOK
<1>3. msg \in Message
  <2>1. thread[n][i].op \in Request /\ thread[n][i].val \in Data \cup {None}
    BY <1>1, <1>2 DEF ThreadOK, Thread
  <2>2. CASE thread[n][i].op.kind = "Put"
    BY <1>2, <2>2 DEF AnswerTo, Message, Answer
  <2>3. CASE thread[n][i].op.kind # "Put"
    <3>1. thread[n][i].op.kind \in {"Get", "WaitAndGet"} /\ thread[n][i].val \in Data
      BY <1>1, <1>2, <2>1, <2>3 DEF Request, ThreadOK
    <3> QED  BY <1>2, <2>3, <3>1 DEF AnswerTo, Reply, Message, Answer
  <2> QED  BY <2>2, <2>3
<1>4. \A x \in Node : x # d => AnswersKept(x)
  BY <1>1, <1>2, <1>3, WireSend
<1>5. /\ InCall(d) /\ n = Destination(d) /\ thread[n][i].op = MainThread(d).op
  <2>1. i \in Handlers(d, n)
    <3>1. i \in 2 .. Len(thread[n])
      BY <1>1, <1>2, ThreadTypes DEF Main
    <3> QED  BY <1>2, <3>1 DEF Handlers
  <2>2. PlacesMatch(d, n)
    BY DEF CallInv, NodeInv
  <2> QED  BY <2>1, <2>2 DEF PlacesMatch
<1>6. ASSUME NEW x \in Node, MainThread(x)' = MainThread(x)
      PROVE  ToldKept(x) \/ Stores(Destination(x), MainThread(x).op)'
  <2>1. CASE x # d
    <3>1. NoNews(x)
      BY <1>2, <1>4, <2>1 DEF NoNews
    <3> QED  BY <1>6, <3>1, NoNewsIsKept
  <2>2. CASE x = d /\ MainThread(d).pc # "ack"
    BY <1>6, <2>2 DEF ToldKept, Told
  <2>3. CASE x = d /\ MainThread(d).pc = "ack"
    <3>1. MainThread(d).op.kind = "Put"
      <4>1. ThreadOK(MainThread(d), Main)
        BY <1>1, ThreadTypes DEF TypeInv, ThreadsOK, MainThread
      <4> QED  BY <2>3, <4>1 DEF ThreadOK
    <3>2. map_[n][thread[n][i].op.key] # None
      BY <1>2, <1>5, <3>1 DEF StoreInv, SentInv, Stores
    <3>3. map_'[Destination(d)][MainThread(d).op.key] # None
      BY <1>2, <1>5, <3>2
    <3>4. Destination(d)' = Destination(d)
      BY <1>6, <2>3 DEF Destination
    <3> QED  BY <1>6, <2>3, <3>3, <3>4 DEF Stores
  <2> QED  BY <2>1, <2>2, <2>3
<1>7. "done" \in Pc \ {"ack"} /\ None \in Data \cup {None}
  BY DEF Pc
<1> QED  BY <1>2, <1>6, <1>7, StoreSetThread

(* A request starts a handler that has not stored anything yet.            *)
LEMMA StoreReceiveRequest ==
  ASSUME TypeInv, StoreInv, TypeInv', NEW n \in Node, ReceiveRequest(n)
  PROVE  StoreInv'
<1>1. TypeOK /\ \A x \in Node : Main \in 1 .. Len(thread[x]) /\ Len(thread[x]) \in Nat
  BY ThreadTypes DEF TypeInv
<1>2. PICK m \in Node, op \in Request, t \in Thread :
        /\ m = monitor[n].from /\ Receive(n, op) /\ t.pc # "send"
        /\ thread' = [thread EXCEPT ![n] = Append(@, t)]
  <2> DEFINE m0 == monitor[n].from
             op0 == Head(wire[m0][n])
             t0 == Handler(m0, op0)
  <2>1. /\ op0 \in Request /\ Receive(n, op0)
        /\ thread' = [thread EXCEPT ![n] = Append(@, t0)]
    BY DEF ReceiveRequest
  <2>2. m0 \in Node
    BY <1>1 DEF TypeOK
  <2>3. t0 \in Thread /\ t0.pc # "send"
    <3> HIDE DEF m0, op0
    <3> QED  BY <2>1, <2>2 DEF Handler, LocalEntry, Thread, Pc, Call, Request
  <2> HIDE DEF op0, t0
  <2> QED  BY <2>1, <2>2, <2>3
<1>3. UNCHANGED <<map_, ack_recvd_>> /\ \A x \in Node : AnswersKept(x)
  <2>1. \A x \in Node : AnswersKept(x)
    BY <1>1, <1>2, WireReceive
  <2> QED  BY <2>1 DEF ReceiveRequest, slots, mapVars
<1>4. /\ \A x \in Node : Len(thread'[x]) = IF x = n THEN Len(thread[x]) + 1 ELSE Len(thread[x])
      /\ \A x \in Node : \A j \in 1 .. Len(thread[x]) : thread'[x][j] = thread[x][j]
      /\ thread'[n][Len(thread[n]) + 1] = t
  BY <1>1, <1>2, SpawnEffect
<1>5. SentKept
  <2> SUFFICES ASSUME NEW d \in Node, NEW j \in 1 .. Len(thread'[d]), thread'[d][j].pc = "send"
               PROVE  SentBefore(d, j)
    BY DEF SentKept
  <2>1. j \in 1 .. Len(thread[d])
    <3>1. CASE j \notin 1 .. Len(thread[d])
      <4>1. d = n /\ j = Len(thread[n]) + 1
        BY <1>1, <1>4, <3>1
      <4> QED  BY <1>2, <1>4, <4>1
    <3> QED  BY <3>1
  <2>2. thread'[d][j] = thread[d][j]
    BY <1>4, <2>1
  <2> QED  BY <2>1, <2>2 DEF SentBefore
<1>6. ASSUME NEW x \in Node PROVE ToldKept(x)
  <2>1. MainThread(x)' = MainThread(x)
    BY <1>1, <1>4 DEF MainThread
  <2> QED  BY <1>3, <2>1, NoNewsIsKept DEF NoNews
<1>7. MapGrows
  BY <1>3 DEF MapGrows
<1> QED  BY <1>5, <1>6, <1>7, StoreFrame

(* An Ack that fills the slot was on the wire before.                      *)
LEMMA StoreReceiveAnswer ==
  ASSUME TypeInv, StoreInv, TypeInv', NEW n \in Node, NEW msg \in Answer, Receive(n, msg),
         UNCHANGED <<thread, map_>>, \A x \in Node \ {n} : ack_recvd_'[x] => ack_recvd_[x]
  PROVE  StoreInv'
<1>1. TypeOK
  BY DEF TypeInv
<1>2. PICK m \in Node : m = monitor[n].from
  BY <1>1 DEF TypeOK
<1>3. Answers(n, m) # {} /\ \A x \in Node : AnswersKept(x)
  BY <1>1, <1>2, WireReceive
<1>4. ASSUME NEW x \in Node PROVE ToldKept(x)
  <2>1. MainThread(x)' = MainThread(x)
    BY DEF MainThread
  <2>2. CASE x = n
    BY <1>3, <2>1, <2>2 DEF ToldKept, Told
  <2>3. CASE x # n
    BY <1>3, <2>1, <2>3, NoNewsIsKept DEF NoNews
  <2> QED  BY <2>2, <2>3
<1>5. SentKept /\ MapGrows
  BY DEF SentKept, SentBefore, MapGrows
<1> QED  BY <1>4, <1>5, StoreFrame

(* A call that begins finds nothing left over of earlier ones.             *)
LEMMA StoreBegin ==
  ASSUME TypeInv, CallInv, StoreInv, TypeInv', NEW n \in Node, BeginLocal(n) \/ BeginRemote(n)
  PROVE  StoreInv'
<1>1. TypeOK /\ Main \in 1 .. Len(thread[n])
  BY ThreadTypes DEF TypeInv
<1>2. PICK op \in Request, pc \in Pc \ {"send"} :
        /\ op = CurrentCall(n) /\ MainThread(n).pc = "ready" /\ StartCall(n, pc)
        /\ UNCHANGED wire \/ Sends(n, Home[op.key], op)
        /\ UNCHANGED <<map_, ack_recvd_>>
  <2>1. CASE BeginLocal(n)
    <3>1. CurrentCall(n) \in Request /\ LocalEntry(CurrentCall(n)) \in Pc \ {"send"}
      BY <2>1 DEF BeginLocal, LocalEntry, Request, Pc
    <3> QED  BY <2>1, <3>1 DEF BeginLocal, HasCall, mapVars, slots
  <2>2. CASE BeginRemote(n)
    <3>1. CurrentCall(n) \in Request /\ RemoteEntry(CurrentCall(n)) \in Pc \ {"send"}
      BY <2>2 DEF BeginRemote, IsRemote, RemoteEntry, Request, Pc
    <3> QED  BY <2>2, <3>1 DEF BeginRemote, HasCall, Sends, mapVars, slots
  <2> QED  BY <2>1, <2>2
<1>3. \A x \in Node : AnswersKept(x)
  <2>1. CASE UNCHANGED wire
    BY <1>1, <2>1, WireUnchanged
  <2>2. CASE Sends(n, Home[op.key], op)
    <3>1. Home[op.key] \in Node /\ op \in Message /\ op \notin Answer
      BY HomeAssumption, RequestsAndAnswers DEF Request, Message
    <3> QED  BY <1>1, <2>2, <3>1, WireSend
  <2> QED  BY <1>2, <2>1, <2>2
<1>4. PICK t \in Thread : t.pc = pc /\ Replaces(n, Main, t)
  <2> DEFINE t0 == [thread[n][Main] EXCEPT !.pc = pc, !.op = CurrentCall(n)]
  <2>1. CurrentCall(n) \in Call /\ pc \in Pc
    BY <1>2 DEF Call
  <2>2. t0 \in Thread /\ t0.pc = pc /\ Replaces(n, Main, t0)
    BY <1>1, <1>2, <2>1, StartCallEffect
  <2> HIDE DEF t0
  <2> QED  BY <2>2
<1>5. ~Told(n)'
  <2>1. ~InCall(n) /\ NodeInv(n)
    BY <1>2 DEF InCall, Waiting, CallInv
  <2>2. \A d \in Node : Answers(n, d)' = {}
    BY <1>3, <2>1, IdleOutsideCalls, IdleKept
  <2>3. ~ack_recvd_'[n]
    BY <1>2, <2>1 DEF NodeInv, SlotsMatch
  <2> QED  BY <2>2, <2>3 DEF Told
<1>6. \A x \in Node : MainThread(x)' = MainThread(x) => ToldKept(x)
  BY <1>2, <1>3, NoNewsIsKept DEF NoNews
<1> QED  BY <1>1, <1>2, <1>4, <1>5, <1>6, StoreReplace

-----------------------------------------------------------------------------
LEMMA StoreInvStep == TypeInv /\ TypeInv' /\ CallInv /\ StoreInv /\ [Next]_vars => StoreInv'
<1> SUFFICES ASSUME TypeInv, TypeInv', CallInv, StoreInv, [Next]_vars PROVE StoreInv'
  OBVIOUS
<1>1. TypeOK /\ \A m \in Node : Main \in 1 .. Len(thread[m])
  BY ThreadTypes DEF TypeInv
<1>2. CASE UNCHANGED vars
  BY <1>2, StoreUnchanged DEF vars, mapVars, slots
<1>3. ASSUME NEW n \in Node, NEW how, Die(n, how) PROVE StoreInv'
  BY <1>3, StoreUnchanged DEF Die, mapVars, slots
<1>4. ASSUME UNCHANGED <<wire, map_>>, \A x \in Node : ack_recvd_'[x] => ack_recvd_[x],
             NEW n \in Node, NEW i \in 1 .. Len(thread[n]), NEW pc \in Pc \ {"ack"},
             NEW val \in Data \cup {None}, SetThread(n, i, pc, val),
             pc = "send" => thread[n][i].op.kind # "Put"
      PROVE  StoreInv'
  <2>1. \A x \in Node : MainThread(x)' = MainThread(x) => ToldKept(x)
    BY <1>1, <1>4, WireUnchanged, NoNewsIsKept DEF NoNews
  <2> QED  BY <1>4, <2>1, StoreSetThread
<1>5. Pc \ {"ack"} = {"ready", "put", "store", "wag", "poll", "get", "copy", "reply",
                      "wag_reply", "send", "done"}
  BY DEF Pc
<1>6. ASSUME NEW n \in Node, MainStep(n) PROVE StoreInv'
  <2>1. CASE BeginLocal(n) \/ BeginRemote(n)
    BY <2>1, StoreBegin
  <2>2. CASE ReturnPut(n) \/ ReturnGet(n) \/ ReturnWag(n)
    <3>1. PICK v \in Data \cup {None} :
            /\ SetThread(n, Main, "ready", v)
            /\ UNCHANGED <<wire, map_>> /\ \A x \in Node : ack_recvd_'[x] => ack_recvd_[x]
      BY <1>1, <2>2 DEF ReturnPut, ReturnGet, ReturnWag, Complete, TypeOK, mapVars
    <3> QED  BY <1>1, <1>4, <1>5, <3>1
  <2>3. CASE CallDone(n) \/ Finish(n)
    BY <1>3, <2>3, StoreUnchanged DEF CallDone, Finish, mapVars, slots
  <2> QED  BY <1>6, <2>1, <2>2, <2>3 DEF MainStep
<1>7. ASSUME NEW n \in Node, NEW i \in 1 .. Len(thread[n]), ThreadStep(n, i) PROVE StoreInv'
  <2>0. thread[n][i] \in Thread /\ ThreadOK(thread[n][i], i)
    BY <1>1, ThreadTypes DEF TypeInv, ThreadsOK
  <2>1. CASE PutStore(n, i) \/ SendAnswer(n, i)
    BY <2>1, StorePutStore, StoreSendAnswer
  <2>2. CASE PutLock(n, i) \/ MapContains(n, i)
    <3>1. PICK pc \in {"store", "get", "poll"} :
            SetThread(n, i, pc, None) /\ UNCHANGED <<wire, map_, ack_recvd_>>
      BY <2>2 DEF PutLock, MapContains, mapVars, slots
    <3> QED  BY <1>4, <1>5, <3>1
  <2>3. CASE GetLookup(n, i)
    <3>1. thread[n][i].op.key \in Key
      BY <2>0, <2>3 DEF GetLookup, At, ThreadOK, Request
    <3>2. map_[n][thread[n][i].op.key] \in Data \cup {None}
      BY <1>1, <3>1 DEF TypeOK, Data
    <3>3. /\ SetThread(n, i, "copy", map_[n][thread[n][i].op.key])
          /\ UNCHANGED <<wire, map_, ack_recvd_>>
      BY <2>3 DEF GetLookup, mapVars, slots
    <3> QED  BY <1>4, <1>5, <3>2, <3>3
  <2>4. CASE GetCopy(n, i)
    <3>1. thread[n][i].val \in Data \cup {None} /\ thread[n][i].op.kind # "Put"
      BY <2>0, <2>4 DEF GetCopy, At, Thread, ThreadOK
    <3>2. CASE Complete(n, i, thread[n][i].val) /\ UNCHANGED <<mapVars, slots, wire>>
      <4>1. PICK pc \in {"ready", "send"} : SetThread(n, i, pc, thread[n][i].val)
        BY <3>2 DEF Complete
      <4>2. UNCHANGED <<wire, map_, ack_recvd_>>
        BY <3>2 DEF mapVars, slots
      <4> QED  BY <1>4, <1>5, <3>1, <4>1, <4>2
    <3> QED  BY <1>3, <2>4, <3>2 DEF GetCopy
  <2>5. CASE ContainsDuringGrow(n, i) \/ GetAssertFails(n, i)
    BY <1>3, <2>5 DEF ContainsDuringGrow, GetAssertFails
  <2> QED  BY <1>7, <2>1, <2>2, <2>3, <2>4, <2>5 DEF ThreadStep
<1>8. ASSUME NEW n \in Node, ExitStep(n) PROVE StoreInv'
  BY <1>3, <1>8 DEF ExitStep, ExitAfterShutdown, SendFails
<1>9. ASSUME NEW n \in Node, MonitorStep(n) PROVE StoreInv'
  <2>1. CASE (\E m \in Node : Select(n, m)) \/ StopMonitor(n) \/ ReceiveEof(n)
    BY <2>1, StoreUnchanged DEF Select, StopMonitor, ReceiveEof, mapVars, slots
  <2>2. CASE ReceiveAck(n) \/ ReceiveReply(n)
    <3>1. PICK msg \in Answer : Receive(n, msg)
      BY <2>2 DEF ReceiveAck, ReceiveReply, Reply, Answer
    <3>2. UNCHANGED <<thread, map_>> /\ \A x \in Node \ {n} : ack_recvd_'[x] => ack_recvd_[x]
      BY <1>1, <2>2 DEF ReceiveAck, ReceiveReply, TypeOK, mapVars
    <3> QED  BY <3>1, <3>2, StoreReceiveAnswer
  <2>3. CASE ReceiveRequest(n)
    BY <2>3, StoreReceiveRequest
  <2>4. CASE ReceiveAfterShutdown(n)
    BY <1>3, <2>4, StoreUnchanged DEF ReceiveAfterShutdown, mapVars, slots
  <2> QED  BY <1>9, <2>1, <2>2, <2>3, <2>4 DEF MonitorStep
<1> QED  BY <1>2, <1>6, <1>7, <1>8, <1>9 DEF Next

LEMMA InitStoreInv == Init => StoreInv
<1> SUFFICES ASSUME Init PROVE StoreInv
  OBVIOUS
<1>1. ASSUME NEW n \in Node PROVE Len(thread[n]) = 1 /\ thread[n][1].pc = "ready"
  <2>1. thread[n] = <<[pc |-> "ready", op |-> Done, from |-> n, val |-> None]>>
    BY DEF Init
  <2> QED  BY <2>1
<1>2. SentInv
  BY <1>1 DEF SentInv
<1>3. ToldInv
  BY <1>1 DEF ToldInv, Told, MainThread, Main
<1> QED  BY <1>2, <1>3 DEF StoreInv

LEMMA StoredWhenTold == TypeInv /\ CallInv /\ StoreInv => AckMeansStored
<1> SUFFICES ASSUME TypeInv, CallInv, StoreInv, NEW n \in Node, MainThread(n).pc = "ack",
                    map_[Destination(n)][MainThread(n).op.key] = None
             PROVE  /\ ~ack_recvd_[n]
                    /\ Answers(n, Destination(n)) = {}
                    /\ \A i \in Handlers(n, Destination(n)) : thread[Destination(n)][i].pc # "send"
  BY DEF AckMeansStored
<1>1. /\ MainThread(n).op.kind = "Put" /\ Destination(n) \in Node
  <2>1. ThreadOK(MainThread(n), Main)
    BY ThreadTypes DEF TypeInv, ThreadsOK, MainThread
  <2>2. MainThread(n).op.key \in Key /\ MainThread(n).op.kind = "Put"
    BY <2>1 DEF ThreadOK, Request
  <2> QED  BY <2>2, HomeAssumption DEF Destination
<1>2. ~Told(n)
  BY DEF StoreInv, ToldInv, Stores
<1>3. ASSUME NEW i \in Handlers(n, Destination(n)) PROVE thread[Destination(n)][i].pc # "send"
  <2>1. thread[Destination(n)][i].op = MainThread(n).op
    BY <1>1 DEF CallInv, NodeInv, PlacesMatch
  <2>2. i \in 1 .. Len(thread[Destination(n)])
    BY <1>1, ThreadTypes DEF TypeInv, Handlers
  <2> QED  BY <1>1, <2>1, <2>2 DEF StoreInv, SentInv, Stores
<1> QED  BY <1>1, <1>2, <1>3 DEF Told

(* From the moment an Ack is sent, and when its put returns, the blob of   *)
(* the key is in the map of its home node, and stays there                 *)
(* (kvstore.h:98-120, 508-514).                                            *)
THEOREM AckCorrect == Spec => []AckMeansStored
<1>1. Spec => []StoreInv
  <2>1. TypeInv /\ CallInv /\ TypeInv' /\ StoreInv /\ [Next]_vars => StoreInv'
    BY StoreInvStep
  <2> QED  BY <2>1, InitStoreInv, TypeInvariant, CallInvariant, PTL DEF Spec
<1> QED  BY <1>1, StoredWhenTold, TypeInvariant, CallInvariant, PTL
=============================================================================
