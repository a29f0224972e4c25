---------------------------- MODULE KVRefinement ----------------------------
(***************************************************************************)
(* The refinement mapping from the message-passing store (KVStore) to the  *)
(* one it promises (KVSpec).  The map of the specification is spread over  *)
(* the nodes by Home; where a node's call is, and whether it has taken     *)
(* effect, is read off the thread, message or slot that holds it now.      *)
(***************************************************************************)
EXTENDS KVStore

CONSTANT Lossy

ASSUME LossyAssumption == Lossy \in BOOLEAN

Store == [k \in Key |-> map_[Home[k]][k]]

(* What a thread inside put, get or wait_and_get knows of its call.        *)
Progress(t) == IF Applied(t) THEN [phase |-> "applied", val |-> t.val]
                             ELSE [phase |-> "pending", val |-> None]

SlotValue(n) == IF ack_recvd_[n] THEN None
                ELSE IF reply_data_[n] # None THEN reply_data_[n]
                ELSE wag_reply_data_[n]

AnswerValue(msg) == IF msg = Ack THEN None ELSE msg.val

RemoteProgress(n) ==
  LET d == Destination(n) IN
  CASE SlotSet(n) -> [phase |-> "applied", val |-> SlotValue(n)]
    [] ~SlotSet(n) /\ Answers(n, d) # {} ->
         [phase |-> "applied",
          val |-> AnswerValue(wire[d][n][CHOOSE i \in Answers(n, d) : TRUE])]
    [] ~SlotSet(n) /\ Answers(n, d) = {} /\ Handlers(n, d) # {} ->
         Progress(thread[d][CHOOSE i \in Handlers(n, d) : TRUE])
    [] ~SlotSet(n) /\ Answers(n, d) = {} /\ Handlers(n, d) = {} ->
         [phase |-> IF Requests(n, d) # {} THEN "pending" ELSE "lost", val |-> None]

CallOf(n) ==
  LET t == MainThread(n)
      p == CASE t.pc = "ready" -> [phase |-> "idle", val |-> t.val]
             [] InCall(n) -> RemoteProgress(n)
             [] t.pc # "ready" /\ ~InCall(n) -> Progress(t)
  IN [phase |-> p.phase, op |-> t.op, val |-> p.val]

Calls == [n \in Node |-> CallOf(n)]

Promise == INSTANCE KVSpec WITH store <- Store, call <- Calls

(* Every step of the nodes, their threads and the network is a step of the *)
(* one map that doc.md:39-51 describes, or changes nothing that an         *)
(* application can see: a put is visible to all nodes at once, a get       *)
(* returns the blob put last, a wait_and_get returns only what is there.   *)
ImplementsPromise == Promise!KVSpecification

(* No put frees a blob that a get is about to clone (kvstore.h:138-142).   *)
NoGarbage == \A n \in Node : \A i \in 1 .. Len(thread[n]) :
  thread[n][i].pc = "copy" => thread[n][i].val # Garbage

(* At most one put of each key in the whole system, the discipline of the  *)
(* applications (demos/word_count.cpp:183-256, demos/linus.cpp:242-346).   *)
WriteOnce(p) ==
  \A m, n \in DOMAIN p : \A i \in DOMAIN p[m], j \in DOMAIN p[n] :
    p[m][i].kind = "Put" /\ p[n][j].kind = "Put" /\ p[m][i].key = p[n][j].key
      => m = n /\ i = j

(* No application shuts its store down.                                    *)
StaysUp(p) == \A n \in DOMAIN p : \A i \in DOMAIN p[n] : p[n][i] # Done

(* Before it gets a key, a node has made a call with that key, or with one *)
(* that is put only after the key of the get, by the same node: the chunks *)
(* of a frame are read by who has waited for the frame, and the frame is   *)
(* put after them (demos/demo.cpp:22-41, demos/word_count.cpp:183-256).    *)
GetsFollow(p) ==
  \A n \in DOMAIN p : \A i \in DOMAIN p[n] :
    p[n][i].kind = "Get" =>
      \E h \in 1 .. i - 1 :
        \/ p[n][h].key = p[n][i].key
        \/ \A m \in DOMAIN p : \A j \in DOMAIN p[m] :
             p[m][j].kind = "Put" /\ p[m][j].key = p[n][h].key =>
               \E l \in 1 .. j - 1 : p[m][l].kind = "Put" /\ p[m][l].key = p[n][i].key
=============================================================================
