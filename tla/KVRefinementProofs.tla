------------------------- MODULE KVRefinementProofs -------------------------
(***************************************************************************)
(* Proof that the stores of all nodes together, with their threads and     *)
(* messages, are the one map of KVSpec.  A call is found in the one place  *)
(* where it is; a step moves the calls of one or two nodes to other        *)
(* places, and all others stay where they are.  From it follows what holds *)
(* of applications that use the store with some discipline: none meets a   *)
(* dangling pointer, and none fails.                                       *)
(***************************************************************************)
EXTENDS KVRefinement, KVStoreProofs, FiniteSetTheorems

-----------------------------------------------------------------------------
(* What a thread knows of its call, beside its type: put has no result,    *)
(* and the main thread goes through the local branches for its own keys    *)
(* only.                                                                   *)
PlaceOK(n, i, t) ==
  /\ t.pc = "store" \/ (t.pc = "send" /\ t.op.kind = "Put") => t.val = None
  /\ i = Main /\ t.pc \notin {"ready"} \cup Waiting => Home[t.op.key] = n

PlaceInv == \A n \in Node : \A i \in 1 .. Len(thread[n]) : PlaceOK(n, i, thread[n][i])

LEMMA PlaceReplace ==
  ASSUME TypeInv, PlaceInv, NEW n \in Node, NEW i \in 1 .. Len(thread[n]), NEW t \in Thread,
         Replaces(n, i, t), PlaceOK(n, i, t)
  PROVE  PlaceInv'
<1>0. TypeOK
  BY DEF TypeInv
<1>1. /\ \A m \in Node : Len(thread'[m]) = Len(thread[m])
      /\ \A m \in Node : \A j \in 1 .. Len(thread[m]) :
           thread'[m][j] = IF m = n /\ j = i THEN t ELSE thread[m][j]
  BY <1>0, UpdateEffect
<1>2. ASSUME NEW m \in Node, NEW j \in 1 .. Len(thread'[m])
      PROVE  PlaceOK(m, j, thread'[m][j])
  <2>1. j \in 1 .. Len(thread[m])
    BY <1>1
  <2>2. PlaceOK(m, j, thread[m][j])
    BY <2>1 DEF PlaceInv
  <2>3. CASE m = n /\ j = i
    BY <1>1, <2>1, <2>3
  <2>4. CASE ~(m = n /\ j = i)
    <3>1. thread'[m][j] = thread[m][j]
      BY <1>1, <2>1, <2>4
    <3> QED  BY <2>2, <3>1
  <2> QED  BY <2>3, <2>4
<1> QED  BY <1>2 DEF PlaceInv, PlaceOK

LEMMA PlaceUnchanged ==
  ASSUME PlaceInv, UNCHANGED thread
  PROVE  PlaceInv'
BY DEF PlaceInv, PlaceOK

LEMMA PlaceSetThread ==
  ASSUME TypeInv, PlaceInv, NEW n \in Node, NEW i \in 1 .. Len(thread[n]),
         NEW pc \in Pc, NEW val \in Data \cup {None}, SetThread(n, i, pc, val),
         pc = "store" \/ (pc = "send" /\ thread[n][i].op.kind = "Put") => val = None,
         pc # "ready" => thread[n][i].pc \notin {"ready"} \cup Waiting
  PROVE  PlaceInv'
<1> DEFINE t == [thread[n][i] EXCEPT !.pc = pc, !.val = val]
<1>1. /\ t \in Thread /\ Replaces(n, i, t)
      /\ t.pc = pc /\ t.val = val /\ t.op = thread[n][i].op
  <2>1. t \in Thread /\ Replaces(n, i, t)
    BY SetThreadEffect DEF TypeInv
  <2>2. thread[n][i] \in Thread
    BY ThreadTypes DEF TypeInv
  <2> QED  BY <2>1, <2>2 DEF Thread
<1> HIDE DEF t
<1>2. PlaceOK(n, i, t)
  BY <1>1 DEF PlaceOK, PlaceInv
<1> QED  BY <1>1, <1>2, PlaceReplace

LEMMA PlaceStart ==
  ASSUME TypeInv, PlaceInv, NEW n \in Node, BeginLocal(n) \/ BeginRemote(n)
  PROVE  PlaceInv'
<1>1. TypeOK /\ Main \in 1 .. Len(thread[n])
  BY ThreadTypes DEF TypeInv
<1>2. PICK op \in Request, pc \in Pc \ {"store", "send"} :
        /\ op = CurrentCall(n) /\ StartCall(n, pc)
        /\ pc \in Waiting \/ Home[op.key] = n
  <2>1. CASE BeginLocal(n)
    <3>1. CurrentCall(n) \in Request /\ LocalEntry(CurrentCall(n)) \in Pc \ {"store", "send"}
      BY <2>1 DEF BeginLocal, LocalEntry, Request, Pc
    <3> QED  BY <2>1, <3>1 DEF BeginLocal, IsRemote
  <2>2. CASE BeginRemote(n)
    <3>1. /\ CurrentCall(n) \in Request
          /\ RemoteEntry(CurrentCall(n)) \in (Pc \ {"store", "send"}) \cap Waiting
      BY <2>2 DEF BeginRemote, IsRemote, RemoteEntry, Request, Pc, Waiting
    <3> QED  BY <2>2, <3>1 DEF BeginRemote
  <2> QED  BY <2>1, <2>2
<1>3. PICK t \in Thread : t.pc = pc /\ t.op = op /\ Replaces(n, Main, t)
  <2> DEFINE t0 == [thread[n][Main] EXCEPT !.pc = pc, !.op = CurrentCall(n)]
  <2>1. CurrentCall(n) \in Call /\ pc \in Pc
    BY <1>2 DEF Call
  <2>2. t0 \in Thread /\ t0.pc = pc /\ t0.op = op /\ Replaces(n, Main, t0)
    BY <1>1, <1>2, <2>1, StartCallEffect
  <2> HIDE DEF t0
  <2> QED  BY <2>2
<1>4. PlaceOK(n, Main, t)
  BY <1>2, <1>3 DEF PlaceOK
<1> QED  BY <1>1, <1>3, <1>4, PlaceReplace

(* A request that is received becomes a thread of its own.                 *)
LEMMA SpawnedThread ==
  ASSUME TypeOK, NEW n \in Node, ReceiveRequest(n)
  PROVE  \E t \in Thread : /\ t.pc \in {"put", "get", "wag"} /\ t.from = monitor[n].from
                           /\ t.pc = "get" => t.op.kind = "Get"
                           /\ thread' = [thread EXCEPT ![n] = Append(@, t)]
<1> DEFINE m0 == monitor[n].from
           op0 == Head(wire[m0][n])
           t0 == Handler(m0, op0)
<1>1. op0 \in Request /\ thread' = [thread EXCEPT ![n] = Append(@, t0)]
  BY DEF ReceiveRequest
<1>2. m0 \in Node
  BY DEF TypeOK
<1>3. /\ t0 \in Thread /\ t0.pc \in {"put", "get", "wag"} /\ t0.from = m0
      /\ t0.pc = "get" => t0.op.kind = "Get"
  <2> HIDE DEF m0, op0
  <2> QED  BY <1>1, <1>2 DEF Handler, LocalEntry, Thread, Pc, Call, Request
<1> HIDE DEF op0, t0
<1> QED  BY <1>1, <1>3

LEMMA PlacePutStore ==
  ASSUME TypeInv, PlaceInv, NEW n \in Node, NEW i \in 1 .. Len(thread[n]), PutStore(n, i)
  PROVE  PlaceInv'
<1>1. TypeOK /\ thread[n][i].pc = "store"
  BY DEF TypeInv, PutStore, At
<1>2. /\ \A m \in Node : Len(thread'[m]) = Len(thread[m])
      /\ \A m \in Node : m # n => thread'[m] = thread[m]
      /\ thread'[n][i] = [thread[n][i] EXCEPT !.pc = IF i = Main THEN "ready" ELSE "send"]
      /\ \A j \in 1 .. Len(thread[n]) :
           j # i => \/ thread'[n][j] = thread[n][j]
                    \/ /\ thread[n][j].pc = "copy"
                       /\ thread'[n][j] = [thread[n][j] EXCEPT !.val = Garbage]
  BY <1>1, PutStoreEffect
<1>3. ASSUME NEW m \in Node, NEW j \in 1 .. Len(thread'[m])
      PROVE  PlaceOK(m, j, thread'[m][j])
  <2>1. j \in 1 .. Len(thread[m])
    BY <1>2
  <2>2. thread[m][j] \in Thread /\ PlaceOK(m, j, thread[m][j])
    BY <1>1, <2>1, ThreadTypes DEF PlaceInv
  <2>3. CASE thread'[m][j] = thread[m][j]
    BY <2>2, <2>3
  <2>4. CASE m = n /\ j = i
    <3>1. /\ thread'[m][j].pc = IF i = Main THEN "ready" ELSE "send"
          /\ thread'[m][j].val = thread[m][j].val
      BY <1>2, <2>2, <2>4 DEF Thread
    <3> QED  BY <1>1, <2>2, <2>4, <3>1 DEF PlaceOK
  <2>5. CASE thread[m][j].pc = "copy" /\ thread'[m][j] = [thread[m][j] EXCEPT !.val = Garbage]
    <3>1. thread'[m][j].pc = "copy" /\ thread'[m][j].op = thread[m][j].op
      BY <2>2, <2>5 DEF Thread
    <3> QED  BY <2>2, <2>5, <3>1 DEF PlaceOK, Waiting
  <2> QED  BY <1>2, <2>1, <2>3, <2>4, <2>5
<1> QED  BY <1>3 DEF PlaceInv, PlaceOK

-----------------------------------------------------------------------------
(* Where a call is found.                                                  *)

CallIs(x, phase, val) == CallOf(x) = [phase |-> phase, op |-> MainThread(x).op, val |-> val]

Shows(x, t) == IF Applied(t) THEN CallIs(x, "applied", t.val) ELSE CallIs(x, "pending", None)

WhereOK(x) ==
  /\ MainThread(x).pc = "ready" => CallIs(x, "idle", MainThread(x).val)
  /\ MainThread(x).pc \notin {"ready"} \cup Waiting => Shows(x, MainThread(x))
  /\ InCall(x) =>
       /\ SlotSet(x) => CallIs(x, "applied", SlotValue(x))
       /\ \A d \in Node :
            /\ \A i \in Answers(x, d) : CallIs(x, "applied", AnswerValue(wire[d][x][i]))
            /\ \A i \in Handlers(x, d) : Shows(x, thread[d][i])
            /\ Requests(x, d) # {} => CallIs(x, "pending", None)
       /\ ~SlotSet(x) /\ Idle(x) => CallIs(x, "lost", None)

WhereInv == \A x \in Node : WhereOK(x)

(* A call is where one looks for it, since it is in one place only.        *)
LEMMA WhereCorrect == TypeInv /\ CallInv => WhereInv
<1> SUFFICES ASSUME TypeInv, CallInv, NEW x \in Node PROVE WhereOK(x)
  BY DEF WhereInv
<1>1. ASSUME MainThread(x).pc = "ready" PROVE CallIs(x, "idle", MainThread(x).val)
  <2>1. ~InCall(x)
    BY <1>1 DEF InCall, Waiting
  <2> QED  BY <1>1, <2>1 DEF CallIs, CallOf
<1>2. ASSUME MainThread(x).pc \notin {"ready"} \cup Waiting PROVE Shows(x, MainThread(x))
  <2>1. MainThread(x).pc # "ready" /\ ~InCall(x)
    BY <1>2 DEF InCall
  <2>2. CallOf(x) = [phase |-> Progress(MainThread(x)).phase, op |-> MainThread(x).op,
                     val |-> Progress(MainThread(x)).val]
    BY <2>1 DEF CallOf
  <2> QED  BY <2>2 DEF Shows, CallIs, Progress
<1>3. ASSUME InCall(x), NEW p, RemoteProgress(x) = p
      PROVE  CallOf(x) = [phase |-> p.phase, op |-> MainThread(x).op, val |-> p.val]
  <2>1. MainThread(x).pc # "ready"
    BY <1>3 DEF InCall, Waiting
  <2> QED  BY <1>3, <2>1 DEF CallOf
<1>4. ASSUME InCall(x) PROVE Destination(x) \in Node /\ OnePlace(x, Destination(x))
  <2>1. IsRemote(x, MainThread(x).op)
    BY <1>4 DEF CallInv, NodeInv, WaitMatches
  <2>2. Destination(x) \in Node
    BY <2>1, HomeAssumption DEF IsRemote, Destination, Request
  <2> QED  BY <2>2 DEF CallInv, NodeInv
<1>5. ASSUME NEW d \in Node, Requests(x, d) \cup Handlers(x, d) \cup Answers(x, d) # {}
      PROVE  d = Destination(x)
  BY <1>5 DEF CallInv, NodeInv, PlacesMatch
<1>6. ASSUME InCall(x), SlotSet(x) PROVE CallIs(x, "applied", SlotValue(x))
  <2>1. RemoteProgress(x) = [phase |-> "applied", val |-> SlotValue(x)]
    BY <1>6 DEF RemoteProgress
  <2> QED  BY <1>3, <1>6, <2>1 DEF CallIs
<1>7. ASSUME InCall(x), NEW d \in Node, NEW i \in Answers(x, d)
      PROVE  CallIs(x, "applied", AnswerValue(wire[d][x][i]))
  <2>1. d = Destination(x) /\ ~SlotSet(x) /\ (CHOOSE j \in Answers(x, d) : TRUE) = i
    BY <1>4, <1>5, <1>7 DEF OnePlace
  <2>2. RemoteProgress(x) = [phase |-> "applied", val |-> AnswerValue(wire[d][x][i])]
    BY <1>7, <2>1 DEF RemoteProgress
  <2> QED  BY <1>3, <1>7, <2>2 DEF CallIs
<1>8. ASSUME InCall(x), NEW d \in Node, NEW i \in Handlers(x, d)
      PROVE  Shows(x, thread[d][i])
  <2>1. /\ d = Destination(x) /\ ~SlotSet(x) /\ Answers(x, d) = {}
        /\ (CHOOSE j \in Handlers(x, d) : TRUE) = i
    BY <1>4, <1>5, <1>8 DEF OnePlace
  <2>2. RemoteProgress(x) = Progress(thread[d][i])
    BY <1>8, <2>1 DEF RemoteProgress
  <2> QED  BY <1>3, <1>8, <2>2 DEF Shows, CallIs, Progress
<1>9. ASSUME InCall(x), NEW d \in Node, Requests(x, d) # {}
      PROVE  CallIs(x, "pending", None)
  <2>1. d = Destination(x) /\ ~SlotSet(x) /\ Answers(x, d) = {} /\ Handlers(x, d) = {}
    BY <1>4, <1>5, <1>9 DEF OnePlace
  <2>2. RemoteProgress(x) = [phase |-> "pending", val |-> None]
    BY <1>9, <2>1 DEF RemoteProgress
  <2> QED  BY <1>3, <1>9, <2>2 DEF CallIs
<1>10. ASSUME InCall(x), ~SlotSet(x), Idle(x) PROVE CallIs(x, "lost", None)
  <2>1. /\ Answers(x, Destination(x)) = {} /\ Handlers(x, Destination(x)) = {}
        /\ Requests(x, Destination(x)) = {}
    BY <1>4, <1>10 DEF Idle
  <2>2. RemoteProgress(x) = [phase |-> "lost", val |-> None]
    BY <1>10, <2>1 DEF RemoteProgress
  <2> QED  BY <1>3, <1>10, <2>2 DEF CallIs
<1> QED  BY <1>1, <1>2, <1>6, <1>7, <1>8, <1>9, <1>10 DEF WhereOK

(* The threads at work on a call: Owner is the node whose call it is.      *)
Owner(n, i) == IF i = Main THEN n ELSE thread[n][i].from

AtWork(t) == t.pc \notin {"ready", "done"} \cup Waiting

CallIn(t) == [phase |-> IF Applied(t) THEN "applied" ELSE "pending", op |-> t.op,
              val |-> IF Applied(t) THEN t.val ELSE None]

WorkOK(n, i) == AtWork(thread[n][i]) =>
  /\ Owner(n, i) \in Node
  /\ thread[n][i].op \in Request
  /\ Home[thread[n][i].op.key] = n
  /\ CallOf(Owner(n, i)) = CallIn(thread[n][i])

WorkInv == \A n \in Node : \A i \in 1 .. Len(thread[n]) : WorkOK(n, i)

LEMMA WorkCorrect == TypeInv /\ CallInv /\ PlaceInv /\ WhereInv => WorkInv
<1> SUFFICES ASSUME TypeInv, CallInv, PlaceInv, WhereInv, NEW n \in Node,
                    NEW i \in 1 .. Len(thread[n]), AtWork(thread[n][i])
             PROVE  /\ Owner(n, i) \in Node
                    /\ thread[n][i].op \in Request
                    /\ Home[thread[n][i].op.key] = n
                    /\ CallOf(Owner(n, i)) = CallIn(thread[n][i])
  BY DEF WorkInv, WorkOK
<1>1. TypeOK /\ thread[n][i] \in Thread /\ ThreadOK(thread[n][i], i)
  BY ThreadTypes DEF TypeInv, ThreadsOK
<1>2. thread[n][i].op \in Request
  BY <1>1 DEF ThreadOK, AtWork
<1>3. CASE i = Main
  <2>1. Owner(n, i) = n /\ MainThread(n) = thread[n][i]
    BY <1>3 DEF Owner, MainThread
  <2>2. Home[thread[n][i].op.key] = n
    BY <1>3 DEF PlaceInv, PlaceOK, AtWork
  <2>3. Shows(n, MainThread(n))
    BY <2>1 DEF WhereInv, WhereOK, AtWork
  <2>4. CallOf(n) = CallIn(thread[n][i])
    BY <2>1, <2>3 DEF Shows, CallIs, CallIn
  <2> QED  BY <1>2, <2>1, <2>2, <2>4
<1>4. CASE i # Main
  <2>1. PICK x \in Node : x = thread[n][i].from /\ Owner(n, i) = x
    BY <1>1, <1>4 DEF Thread, Owner
  <2>2. i \in Handlers(x, n)
    <3>1. i \in 2 .. Len(thread[n])
      BY <1>1, <1>4, ThreadTypes DEF Main
    <3> QED  BY <2>1, <3>1 DEF Handlers, AtWork
  <2>3. InCall(x) /\ n = Destination(x) /\ thread[n][i].op = MainThread(x).op
    BY <2>2 DEF CallInv, NodeInv, PlacesMatch
  <2>4. Shows(x, thread[n][i])
    BY <2>2, <2>3 DEF WhereInv, WhereOK
  <2>5. CallOf(x) = CallIn(thread[n][i])
    BY <2>3, <2>4 DEF Shows, CallIs, CallIn
  <2> QED  BY <1>2, <2>1, <2>3, <2>5 DEF Destination
<1> QED  BY <1>3, <1>4

-----------------------------------------------------------------------------
(* What a step leaves of the call of node x.                               *)

HandlersSame(x) == \A d \in Node : /\ Handlers(x, d)' = Handlers(x, d)
                                   /\ \A i \in Handlers(x, d) : thread'[d][i] = thread[d][i]
RequestsStay(x) == \A d \in Node : Requests(x, d) # {} => Requests(x, d)' # {}
AnswersStay(x) == \A d \in Node : Answers(x, d) # {} => Answers(x, d)' # {}

Lost(x) == /\ CallOf(x).phase \in {"pending", "applied"}
           /\ CallOf(x)' = [phase |-> "lost", op |-> CallOf(x).op, val |-> None]

(* Nothing new is under way for it: its call is as before, or lost.        *)
LEMMA CallFrame ==
  ASSUME NEW x \in Node, WhereOK(x), WhereOK(x)', MainThread(x)' = MainThread(x), SlotsKept(x),
         HandlersSame(x), RequestsKept(x), AnswersKept(x)
  PROVE  /\ CallOf(x)' = CallOf(x) \/ Lost(x)
         /\ RequestsStay(x) /\ AnswersStay(x) => CallOf(x)' = CallOf(x)
<1>1. CASE ~InCall(x)
  <2>1. CASE MainThread(x).pc = "ready"
    BY <2>1 DEF WhereOK, CallIs
  <2>2. CASE MainThread(x).pc # "ready"
    <3>1. MainThread(x).pc \notin {"ready"} \cup Waiting
      BY <1>1, <2>2 DEF InCall
    <3>2. Shows(x, MainThread(x)) /\ Shows(x, MainThread(x))'
      BY <3>1 DEF WhereOK
    <3> QED  BY <3>2 DEF Shows, CallIs, Applied
  <2> QED  BY <2>1, <2>2
<1>2. CASE InCall(x)
  <2>1. InCall(x)' /\ (SlotSet(x)' <=> SlotSet(x)) /\ SlotValue(x)' = SlotValue(x)
    BY <1>2 DEF InCall, SlotsKept, SlotSet, SlotValue
  <2>2. CASE SlotSet(x)
    <3>1. CallIs(x, "applied", SlotValue(x)) /\ CallIs(x, "applied", SlotValue(x))'
      BY <1>2, <2>1, <2>2 DEF WhereOK
    <3> QED  BY <2>1, <3>1 DEF CallIs
  <2>3. ASSUME NEW d \in Node, NEW i \in Answers(x, d)' PROVE CallOf(x)' = CallOf(x)
    <3>1. PICK j \in Answers(x, d) : wire'[d][x][i] = wire[d][x][j]
      BY <2>3 DEF AnswersKept
    <3>2. CallIs(x, "applied", AnswerValue(wire[d][x][j]))
      BY <1>2, <3>1 DEF WhereOK
    <3>3. CallIs(x, "applied", AnswerValue(wire[d][x][i]))'
      BY <2>1, <2>3 DEF WhereOK
    <3> QED  BY <3>1, <3>2, <3>3 DEF CallIs, AnswerValue
  <2>4. ASSUME NEW d \in Node, NEW i \in Handlers(x, d)' PROVE CallOf(x)' = CallOf(x)
    <3>1. i \in Handlers(x, d) /\ thread'[d][i] = thread[d][i]
      BY <2>4 DEF HandlersSame
    <3>2. Shows(x, thread[d][i])
      BY <1>2, <3>1 DEF WhereOK
    <3>3. Shows(x, thread[d][i])'
      BY <2>1, <2>4 DEF WhereOK
    <3> QED  BY <3>1, <3>2, <3>3 DEF Shows, CallIs, Applied
  <2>5. ASSUME NEW d \in Node, Requests(x, d)' # {} PROVE CallOf(x)' = CallOf(x)
    <3>1. Requests(x, d) # {}
      BY <2>5 DEF RequestsKept
    <3>2. CallIs(x, "pending", None)
      BY <1>2, <3>1 DEF WhereOK
    <3>3. CallIs(x, "pending", None)'
      BY <2>1, <2>5 DEF WhereOK
    <3> QED  BY <3>2, <3>3 DEF CallIs
  <2>6. CASE ~SlotSet(x) /\ Idle(x)'
    <3>1. CallIs(x, "lost", None)'
      BY <2>1, <2>6 DEF WhereOK
    <3>2. CallOf(x)' = [phase |-> "lost", op |-> MainThread(x).op, val |-> None]
      BY <3>1 DEF CallIs
    <3>3. CASE Idle(x)
      <4>1. CallIs(x, "lost", None)
        BY <1>2, <2>6, <3>3 DEF WhereOK
      <4> QED  BY <3>2, <4>1 DEF CallIs
    <3>4. CASE ~Idle(x)
      <4>1. PICK d \in Node : Requests(x, d) # {} \/ Handlers(x, d) # {} \/ Answers(x, d) # {}
        BY <3>4 DEF Idle
      <4>2. Handlers(x, d) = {}
        BY <2>6 DEF Idle, HandlersSame
      <4>3. ~(RequestsStay(x) /\ AnswersStay(x))
        BY <2>6, <4>1, <4>2 DEF Idle, RequestsStay, AnswersStay
      <4>4. \E v : CallIs(x, "applied", v) \/ CallIs(x, "pending", v)
        BY <1>2, <4>1, <4>2 DEF WhereOK
      <4>5. CallOf(x).phase \in {"pending", "applied"} /\ CallOf(x).op = MainThread(x).op
        BY <4>4 DEF CallIs
      <4> QED  BY <3>2, <4>3, <4>5 DEF Lost
    <3> QED  BY <3>3, <3>4
  <2> QED  BY <2>2, <2>3, <2>4, <2>5, <2>6 DEF Idle
<1> QED  BY <1>1, <1>2

LEMMA WireSame ==
  ASSUME TypeOK, UNCHANGED wire
  PROVE  \A x \in Node : RequestsKept(x) /\ AnswersKept(x) /\ RequestsStay(x) /\ AnswersStay(x)
<1>1. \A x \in Node : RequestsKept(x) /\ AnswersKept(x)
  BY WireUnchanged
<1>2. \A x \in Node : RequestsStay(x) /\ AnswersStay(x)
  BY DEF RequestsStay, AnswersStay, Requests, Answers
<1> QED  BY <1>1, <1>2

(* What is sent comes after all that is on the wire.                       *)
LEMMA SendStays ==
  ASSUME TypeOK, NEW n \in Node, NEW d \in Node, NEW msg \in Message, Sends(n, d, msg)
  PROVE  \A x \in Node : RequestsStay(x) /\ AnswersStay(x)
<1>1. /\ \A y, z \in Node : y # n \/ z # d => wire'[y][z] = wire[y][z]
      /\ Len(wire[n][d]) \in Nat
      /\ Len(wire'[n][d]) = Len(wire[n][d]) + 1
      /\ \A j \in 1 .. Len(wire[n][d]) : wire'[n][d][j] = wire[n][d][j]
  BY SendEffect DEF Sends
<1>2. ASSUME NEW y \in Node, NEW z \in Node, NEW i \in 1 .. Len(wire[y][z])
      PROVE  i \in 1 .. Len(wire'[y][z]) /\ wire'[y][z][i] = wire[y][z][i]
  <2>1. CASE y = n /\ z = d
    BY <1>1, <2>1
  <2>2. CASE ~(y = n /\ z = d)
    BY <1>1, <2>2
  <2> QED  BY <2>1, <2>2
<1>3. \A x \in Node : RequestsStay(x)
  BY <1>2 DEF RequestsStay, Requests
<1>4. \A x \in Node : AnswersStay(x)
  BY <1>2 DEF AnswersStay, Answers
<1> QED  BY <1>3, <1>4

(* What is received leaves the wire, and so may messages behind it.        *)
LEMMA ReceiveStays ==
  ASSUME TypeOK, NEW n \in Node, NEW m \in Node, m = monitor[n].from, NEW msg, Receive(n, msg)
  PROVE  /\ \A x \in Node : x # m \/ (MaxBatch = 1 /\ msg \notin Request) => RequestsStay(x)
         /\ \A x \in Node : x # n \/ (MaxBatch = 1 /\ msg \notin Answer) => AnswersStay(x)
<1>1. /\ Len(wire[m][n]) \in Nat \ {0} /\ msg = wire[m][n][1]
      /\ \A y, z \in Node : y # m \/ z # n => wire'[y][z] = wire[y][z]
  BY ReceiveEffect
<1>2. ASSUME MaxBatch = 1, NEW i \in 1 .. Len(wire[m][n]), i # 1
      PROVE  i - 1 \in 1 .. Len(wire'[m][n]) /\ wire'[m][n][i - 1] = wire[m][n][i]
  <2>1. wire[m][n] \in Seq(Message) /\ wire[m][n] # <<>>
    BY <1>1 DEF TypeOK, Receive
  <2>2. wire' = [wire EXCEPT ![m][n] = SubSeq(@, 2, Len(@))]
    BY <1>2 DEF Receive
  <2>3. wire'[m][n] = SubSeq(wire[m][n], 2, Len(wire[m][n]))
    BY <2>2 DEF TypeOK
  <2>4. /\ Len(wire'[m][n]) = Len(wire[m][n]) - 1
        /\ \A j \in 1 .. Len(wire[m][n]) - 1 : wire'[m][n][j] = wire[m][n][j + 1]
    BY <1>1, <2>1, <2>3, SubSeqProperties
  <2>5. i - 1 \in 1 .. Len(wire[m][n]) - 1 /\ (i - 1) + 1 = i
    BY <1>1, <1>2
  <2>6. wire'[m][n][i - 1] = wire[m][n][(i - 1) + 1]
    BY <2>4, <2>5
  <2> QED  BY <2>4, <2>5, <2>6
<1>3. ASSUME NEW x \in Node, x # m \/ (MaxBatch = 1 /\ msg \notin Request)
      PROVE  RequestsStay(x)
  <2> SUFFICES ASSUME NEW d \in Node, NEW i \in Requests(x, d) PROVE Requests(x, d)' # {}
    BY DEF RequestsStay
  <2>1. CASE ~(x = m /\ d = n)
    BY <1>1, <2>1 DEF Requests
  <2>2. CASE x = m /\ d = n
    <3>1. i # 1 /\ MaxBatch = 1
      BY <1>1, <1>3, <2>2 DEF Requests
    <3>2. i - 1 \in Requests(x, d)'
      BY <1>2, <2>2, <3>1 DEF Requests
    <3> QED  BY <3>2
  <2> QED  BY <2>1, <2>2
<1>4. ASSUME NEW x \in Node, x # n \/ (MaxBatch = 1 /\ msg \notin Answer)
      PROVE  AnswersStay(x)
  <2> SUFFICES ASSUME NEW d \in Node, NEW i \in Answers(x, d) PROVE Answers(x, d)' # {}
    BY DEF AnswersStay
  <2>1. CASE ~(d = m /\ x = n)
    BY <1>1, <2>1 DEF Answers
  <2>2. CASE d = m /\ x = n
    <3>1. i # 1 /\ MaxBatch = 1
      BY <1>1, <1>4, <2>2 DEF Answers
    <3>2. i - 1 \in Answers(x, d)'
      BY <1>2, <2>2, <3>1 DEF Answers
    <3> QED  BY <3>2
  <2> QED  BY <2>1, <2>2
<1> QED  BY <1>3, <1>4

(* A thread that goes on leaves all but its owner alone.                   *)
LEMMA ReplaceOthers ==
  ASSUME TypeInv, NEW n \in Node, NEW i \in 1 .. Len(thread[n]), NEW t \in Thread, Replaces(n, i, t),
         i # Main => t.from = thread[n][i].from
  PROVE  \A x \in Node : x # Owner(n, i) => HandlersSame(x) /\ MainThread(x)' = MainThread(x)
<1>0. TypeOK
  BY DEF TypeInv
<1>1. /\ \A m \in Node : Len(thread'[m]) = Len(thread[m]) /\ Len(thread[m]) \in Nat
      /\ \A m \in Node : Main \in 1 .. Len(thread[m])
      /\ \A m \in Node : \A j \in 1 .. Len(thread[m]) :
           thread'[m][j] = IF m = n /\ j = i THEN t ELSE thread[m][j]
  BY <1>0, UpdateEffect, ThreadTypes
<1> SUFFICES ASSUME NEW x \in Node, x # Owner(n, i)
             PROVE  HandlersSame(x) /\ MainThread(x)' = MainThread(x)
  OBVIOUS
<1>2. MainThread(x)' = MainThread(x)
  BY <1>1 DEF MainThread, Owner
<1>3. ASSUME NEW d \in Node, NEW j \in 2 .. Len(thread[d])
      PROVE  /\ thread[d][j].from = x => thread'[d][j] = thread[d][j]
             /\ thread'[d][j].from = x => thread'[d][j] = thread[d][j]
  <2>1. j \in 1 .. Len(thread[d]) /\ j # Main
    BY <1>1 DEF Main
  <2>2. CASE d = n /\ j = i
    BY <1>1, <2>1, <2>2 DEF Owner
  <2>3. CASE ~(d = n /\ j = i)
    BY <1>1, <2>1, <2>3
  <2> QED  BY <2>2, <2>3
<1>4. HandlersSame(x)
  BY <1>1, <1>3 DEF HandlersSame, Handlers
<1> QED  BY <1>2, <1>4

Others(n) == \A x \in Node : x # n => CallOf(x)' = CallOf(x)

(* If no message moves, their calls are as before.                         *)
LEMMA OthersSame ==
  ASSUME TypeInv, WhereInv, WhereInv', UNCHANGED wire,
         NEW n \in Node, NEW i \in 1 .. Len(thread[n]), NEW t \in Thread, Replaces(n, i, t),
         i # Main => t.from = thread[n][i].from,
         \A x \in Node : x # Owner(n, i) => SlotsKept(x)
  PROVE  \A x \in Node : x # Owner(n, i) => CallOf(x)' = CallOf(x)
<1> SUFFICES ASSUME NEW x \in Node, x # Owner(n, i) PROVE CallOf(x)' = CallOf(x)
  OBVIOUS
<1>1. WhereOK(x) /\ WhereOK(x)' /\ SlotsKept(x)
  BY DEF WhereInv
<1>2. HandlersSame(x) /\ MainThread(x)' = MainThread(x)
  BY ReplaceOthers
<1>3. RequestsKept(x) /\ AnswersKept(x) /\ RequestsStay(x) /\ AnswersStay(x)
  BY WireSame DEF TypeInv
<1> QED  BY <1>1, <1>2, <1>3, CallFrame

(* A thread that remains at work on the same call.                         *)
LEMMA WorkGoesOn ==
  ASSUME TypeInv, WhereInv, WhereInv', WorkInv, WorkInv', UNCHANGED <<wire, slots>>,
         NEW n \in Node, NEW i \in 1 .. Len(thread[n]), NEW t \in Thread, Replaces(n, i, t),
         t.op = thread[n][i].op, t.from = thread[n][i].from, AtWork(thread[n][i]), AtWork(t)
  PROVE  /\ t.op \in Request /\ Home[t.op.key] = n
         /\ \E x \in Node : Others(x) /\ CallOf(x) = CallIn(thread[n][i]) /\ CallOf(x)' = CallIn(t)
<1>0. TypeOK
  BY DEF TypeInv
<1>1. i \in 1 .. Len(thread'[n]) /\ thread'[n][i] = t
  BY <1>0, UpdateEffect
<1>2. WorkOK(n, i) /\ WorkOK(n, i)'
  BY <1>1 DEF WorkInv
<1>3. PICK x \in Node : x = Owner(n, i)
  BY <1>2 DEF WorkOK
<1>4. Others(x)
  <2>1. \A y \in Node : SlotsKept(y)
    BY DEF slots, SlotsKept
  <2> QED  BY <1>3, <2>1, OthersSame DEF Others
<1>5. CallOf(x) = CallIn(thread[n][i]) /\ t.op \in Request /\ Home[t.op.key] = n
  BY <1>2, <1>3 DEF WorkOK
<1>6. x = Owner(n, i)'
  BY <1>1, <1>3 DEF Owner
<1>7. CallOf(x)' = CallIn(t)
  BY <1>1, <1>2, <1>6 DEF WorkOK, AtWork, CallIn, Applied
<1> QED  BY <1>4, <1>5, <1>7

-----------------------------------------------------------------------------
(* The steps of KVSpec, from what becomes of the calls of the nodes.       *)

PromiseStep == [Promise!SpecNext]_<<Store, Calls>>

LEMMA CallsChange ==
  ASSUME NEW n \in Node, Others(n)
  PROVE  /\ Calls[n] = CallOf(n)
         /\ Calls' = [Calls EXCEPT ![n] = CallOf(n)']
BY DEF Calls, Others

LEMMA StoreSame ==
  ASSUME UNCHANGED map_
  PROVE  UNCHANGED Store
BY DEF Store

LEMMA StepSame ==
  ASSUME UNCHANGED map_, \A x \in Node : CallOf(x)' = CallOf(x)
  PROVE  PromiseStep
<1>1. UNCHANGED Calls
  BY DEF Calls
<1> QED  BY <1>1, StoreSame DEF PromiseStep

LEMMA StepInvoke ==
  ASSUME UNCHANGED map_, NEW n \in Node, Others(n), NEW op \in Request,
         CallOf(n).phase = "idle", CallOf(n)' = [phase |-> "pending", op |-> op, val |-> None]
  PROVE  PromiseStep
<1>1. Promise!Invoke(n, op)
  BY CallsChange, StoreSame DEF Promise!Invoke
<1>2. op \in Promise!Request
  BY DEF Request, Promise!Request
<1> QED  BY <1>1, <1>2 DEF PromiseStep, Promise!SpecNext

LEMMA StepReturn ==
  ASSUME UNCHANGED map_, NEW n \in Node, Others(n), NEW op, NEW v,
         CallOf(n) = [phase |-> "applied", op |-> op, val |-> v],
         CallOf(n)' = [phase |-> "idle", op |-> op, val |-> v]
  PROVE  PromiseStep
<1>1. Calls[n].phase = "applied"
  BY CallsChange
<1>2. Calls' = [Calls EXCEPT ![n].phase = "idle"]
  BY CallsChange
<1>3. Promise!Return(n)
  BY <1>1, <1>2, StoreSame DEF Promise!Return
<1> QED  BY <1>3 DEF PromiseStep, Promise!SpecNext

LEMMA StepLose ==
  ASSUME UNCHANGED map_, Lossy, NEW n \in Node, Others(n), Lost(n)
  PROVE  PromiseStep
<1>1. Calls[n].phase \in {"pending", "applied"}
  BY CallsChange DEF Lost
<1>2. Calls' = [Calls EXCEPT ![n] = [phase |-> "lost", op |-> @.op, val |-> None]]
  BY CallsChange DEF Lost
<1>3. Promise!Lose(n)
  BY <1>1, <1>2, StoreSame DEF Promise!Lose
<1> QED  BY <1>3 DEF PromiseStep, Promise!SpecNext

LEMMA StepApplyGet ==
  ASSUME UNCHANGED map_, NEW n \in Node, Others(n), NEW op \in Request, op.kind # "Put",
         map_[Home[op.key]][op.key] # None,
         CallOf(n) = [phase |-> "pending", op |-> op, val |-> None],
         CallOf(n)' = [phase |-> "applied", op |-> op, val |-> map_[Home[op.key]][op.key]]
  PROVE  PromiseStep
<1>1. Store[op.key] = map_[Home[op.key]][op.key]
  BY DEF Store, Request
<1>2. Calls[n] = [phase |-> "pending", op |-> op, val |-> None]
  BY CallsChange
<1>3. Calls' = [Calls EXCEPT ![n] = [phase |-> "applied", op |-> op, val |-> Store[op.key]]]
  BY <1>1, CallsChange
<1>4. Calls[n].op = op /\ Calls[n].phase = "pending"
  BY <1>2
<1>5. Promise!Effect(n, "applied")
  BY <1>1, <1>3, <1>4, StoreSame DEF Promise!Effect
<1> QED  BY <1>5 DEF PromiseStep, Promise!SpecNext, Promise!Apply

LEMMA StepApplyPut ==
  ASSUME TypeOK, NEW n \in Node, Others(n), NEW op \in Request, op.kind = "Put",
         map_' = [map_ EXCEPT ![Home[op.key]][op.key] = op.val], NEW phase \in {"applied", "idle"},
         CallOf(n) = [phase |-> "pending", op |-> op, val |-> None],
         CallOf(n)' = [phase |-> phase, op |-> op, val |-> None]
  PROVE  PromiseStep
<1>1. Store' = [Store EXCEPT ![op.key] = op.val]
  <2>1. op.key \in Key /\ Home[op.key] \in Node
    BY HomeAssumption DEF Request
  <2>2. ASSUME NEW k \in Key
        PROVE  map_'[Home[k]][k] = IF k = op.key THEN op.val ELSE map_[Home[k]][k]
    BY <2>1, HomeAssumption DEF TypeOK
  <2> QED  BY <2>1, <2>2 DEF Store
<1>2. Calls[n] = [phase |-> "pending", op |-> op, val |-> None]
  BY CallsChange
<1>3. Calls' = [Calls EXCEPT ![n].phase = phase]
  BY CallsChange
<1>4. Promise!Effect(n, phase)
  BY <1>1, <1>2, <1>3 DEF Promise!Effect
<1> QED  BY <1>4 DEF PromiseStep, Promise!SpecNext, Promise!Apply, Promise!ApplyAndReturn

-----------------------------------------------------------------------------
(* Each action of KVStore is a step of KVSpec.                             *)

StepInv == TypeInv /\ CallInv /\ PlaceInv /\ WhereInv /\ WorkInv

(* Messages are lost with the buffer only when several meet there.         *)
LossAllowed == Lossy \/ MaxBatch = 1

LEMMA StepUnchanged ==
  ASSUME StepInv, StepInv', UNCHANGED <<thread, wire, slots, map_>>
  PROVE  PromiseStep
<1>1. ASSUME NEW x \in Node PROVE CallOf(x)' = CallOf(x)
  <2>1. WhereOK(x) /\ WhereOK(x)' /\ MainThread(x)' = MainThread(x) /\ SlotsKept(x)
    BY DEF StepInv, WhereInv, MainThread, SlotsKept, slots
  <2>2. HandlersSame(x)
    BY DEF HandlersSame, Handlers
  <2>3. RequestsKept(x) /\ AnswersKept(x) /\ RequestsStay(x) /\ AnswersStay(x)
    BY WireSame DEF StepInv, TypeInv
  <2> QED  BY <2>1, <2>2, <2>3, CallFrame
<1> QED  BY <1>1, StepSame

LEMMA SetThreadRecord ==
  ASSUME TypeOK, NEW n \in Node, NEW i \in 1 .. Len(thread[n]),
         NEW pc \in Pc, NEW val \in Data \cup {None}, SetThread(n, i, pc, val)
  PROVE  \E t \in Thread : /\ t.pc = pc /\ t.val = val
                           /\ t.op = thread[n][i].op /\ t.from = thread[n][i].from
                           /\ Replaces(n, i, t)
<1> DEFINE t0 == [thread[n][i] EXCEPT !.pc = pc, !.val = val]
<1>1. t0 \in Thread /\ Replaces(n, i, t0)
  BY SetThreadEffect
<1>2. t0.pc = pc /\ t0.val = val /\ t0.op = thread[n][i].op /\ t0.from = thread[n][i].from
  <2>1. thread[n][i] \in Thread
    BY ThreadTypes
  <2> QED  BY <2>1 DEF Thread
<1> HIDE DEF t0
<1> QED  BY <1>1, <1>2

LEMMA BeginLocalRefines ==
  ASSUME StepInv, StepInv', NEW n \in Node, BeginLocal(n)
  PROVE  PromiseStep
<1>1. TypeOK /\ Main \in 1 .. Len(thread[n])
  BY ThreadTypes DEF StepInv, TypeInv
<1>2. PICK op \in Request, pc \in Pc :
        /\ op = CurrentCall(n) /\ StartCall(n, pc) /\ pc \in {"put", "get", "wag"}
        /\ MainThread(n).pc = "ready" /\ UNCHANGED <<map_, wire, slots>>
  <2>1. CurrentCall(n) \in Request /\ LocalEntry(CurrentCall(n)) \in {"put", "get", "wag"}
    BY DEF BeginLocal, LocalEntry, Request
  <2>2. LocalEntry(CurrentCall(n)) \in Pc
    BY <2>1 DEF Pc
  <2> QED  BY <2>1, <2>2 DEF BeginLocal, HasCall, mapVars
<1>3. PICK t \in Thread : t.pc = pc /\ t.op = op /\ Replaces(n, Main, t)
  <2> DEFINE t0 == [thread[n][Main] EXCEPT !.pc = pc, !.op = CurrentCall(n)]
  <2>1. CurrentCall(n) \in Call
    BY <1>2 DEF Call
  <2>2. t0 \in Thread /\ t0.pc = pc /\ t0.op = op /\ Replaces(n, Main, t0)
    BY <1>1, <1>2, <2>1, StartCallEffect
  <2> HIDE DEF t0
  <2> QED  BY <2>2
<1>4. Others(n)
  <2>1. Owner(n, Main) = n /\ \A x \in Node : SlotsKept(x)
    BY <1>2 DEF Owner, SlotsKept, slots
  <2> QED  BY <1>1, <1>2, <1>3, <2>1, OthersSame DEF StepInv, Others
<1>5. CallOf(n).phase = "idle"
  BY <1>2 DEF StepInv, WhereInv, WhereOK, CallIs
<1>6. CallOf(n)' = [phase |-> "pending", op |-> op, val |-> None]
  <2>1. Main \in 1 .. Len(thread'[n]) /\ thread'[n][Main] = t
    BY <1>1, <1>3, UpdateEffect
  <2>2. AtWork(t) /\ ~Applied(t)
    BY <1>2, <1>3 DEF AtWork, Applied, Waiting
  <2>3. WorkOK(n, Main)'
    BY <2>1 DEF StepInv, WorkInv
  <2>4. CallOf(n)' = CallIn(t)
    BY <2>1, <2>2, <2>3 DEF WorkOK, Owner, AtWork, CallIn, Applied
  <2> QED  BY <1>3, <2>2, <2>4 DEF CallIn
<1> QED  BY <1>2, <1>4, <1>5, <1>6, StepInvoke

LEMMA BeginRemoteRefines ==
  ASSUME StepInv, StepInv', NEW n \in Node, BeginRemote(n)
  PROVE  PromiseStep
<1>1. TypeOK /\ Main \in 1 .. Len(thread[n])
  BY ThreadTypes DEF StepInv, TypeInv
<1>2. PICK op \in Request, pc \in Pc, d \in Node :
        /\ op = CurrentCall(n) /\ StartCall(n, pc) /\ pc \in Waiting
        /\ MainThread(n).pc = "ready" /\ Sends(n, d, op) /\ UNCHANGED <<map_, slots>>
  <2>1. CurrentCall(n) \in Request /\ RemoteEntry(CurrentCall(n)) \in Waiting
    BY DEF BeginRemote, IsRemote, RemoteEntry, Request, Waiting
  <2>2. RemoteEntry(CurrentCall(n)) \in Pc /\ Home[CurrentCall(n).key] \in Node
    BY <2>1, HomeAssumption DEF Pc, Waiting, Request
  <2> QED  BY <2>1, <2>2 DEF BeginRemote, HasCall, Sends, mapVars
<1>3. PICK t \in Thread : t.pc = pc /\ t.op = op /\ Replaces(n, Main, t)
  <2> DEFINE t0 == [thread[n][Main] EXCEPT !.pc = pc, !.op = CurrentCall(n)]
  <2>1. CurrentCall(n) \in Call
    BY <1>2 DEF Call
  <2>2. t0 \in Thread /\ t0.pc = pc /\ t0.op = op /\ Replaces(n, Main, t0)
    BY <1>1, <1>2, <2>1, StartCallEffect
  <2> HIDE DEF t0
  <2> QED  BY <2>2
<1>4. op \in Message /\ op \notin Answer
  BY RequestsAndAnswers DEF Message
<1>5. Others(n)
  <2> SUFFICES ASSUME NEW x \in Node, x # n PROVE CallOf(x)' = CallOf(x)
    BY DEF Others
  <2>1. WhereOK(x) /\ WhereOK(x)' /\ SlotsKept(x)
    BY <1>2 DEF StepInv, WhereInv, SlotsKept, slots
  <2>2. HandlersSame(x) /\ MainThread(x)' = MainThread(x)
    BY <1>1, <1>3, ReplaceOthers DEF StepInv, Owner
  <2>3. RequestsKept(x) /\ AnswersKept(x)
    BY <1>1, <1>2, <1>4, WireSend
  <2>4. RequestsStay(x) /\ AnswersStay(x)
    BY <1>1, <1>2, <1>4, SendStays
  <2> QED  BY <2>1, <2>2, <2>3, <2>4, CallFrame
<1>6. CallOf(n).phase = "idle"
  BY <1>2 DEF StepInv, WhereInv, WhereOK, CallIs
<1>7. CallOf(n)' = [phase |-> "pending", op |-> op, val |-> None]
  <2>1. MainThread(n)' = t
    BY <1>1, <1>3, UpdateEffect DEF MainThread
  <2>2. InCall(n)'
    BY <1>2, <1>3, <2>1 DEF InCall
  <2>3. Requests(n, d)' # {}
    <3>1. \A e \in Node : Requests(n, e)' = IF e = d /\ op \in Request
                                            THEN Requests(n, e) \cup {Len(wire[n][d]) + 1}
                                            ELSE Requests(n, e)
      BY <1>1, <1>2, <1>4, WireSend
    <3> QED  BY <3>1
  <2>4. CallIs(n, "pending", None)'
    BY <2>2, <2>3 DEF StepInv, WhereInv, WhereOK
  <2> QED  BY <1>3, <2>1, <2>4 DEF CallIs
<1> QED  BY <1>2, <1>5, <1>6, <1>7, StepInvoke

(* The answer in the slot becomes the result of the call.                  *)
LEMMA ReturnRefines ==
  ASSUME StepInv, StepInv', NEW n \in Node, NEW val \in Data \cup {None},
         Complete(n, Main, val), UNCHANGED <<wire, map_>>,
         InCall(n), SlotSet(n), SlotValue(n) = val, \A x \in Node : x # n => SlotsKept(x)
  PROVE  PromiseStep
<1>1. TypeOK /\ Main \in 1 .. Len(thread[n]) /\ "ready" \in Pc
  BY ThreadTypes DEF StepInv, TypeInv, Pc
<1>2. PICK t \in Thread : /\ t.pc = "ready" /\ t.val = val
                          /\ t.op = thread[n][Main].op /\ Replaces(n, Main, t)
  <2>1. SetThread(n, Main, "ready", val)
    BY DEF Complete
  <2> QED  BY <1>1, <2>1, SetThreadRecord
<1>3. Others(n)
  <2>1. Owner(n, Main) = n
    BY DEF Owner
  <2> QED  BY <1>1, <1>2, <2>1, OthersSame DEF StepInv, Others
<1>4. CallOf(n) = [phase |-> "applied", op |-> MainThread(n).op, val |-> val]
  BY DEF StepInv, WhereInv, WhereOK, CallIs
<1>5. CallOf(n)' = [phase |-> "idle", op |-> MainThread(n).op, val |-> val]
  <2>1. MainThread(n)' = t
    BY <1>1, <1>2, UpdateEffect DEF MainThread
  <2>2. CallIs(n, "idle", MainThread(n).val)'
    BY <1>2, <2>1 DEF StepInv, WhereInv, WhereOK
  <2> QED  BY <1>2, <2>1, <2>2 DEF CallIs, MainThread
<1> QED  BY <1>3, <1>4, <1>5, StepReturn

LEMMA MainStepRefines ==
  ASSUME StepInv, StepInv', NEW n \in Node, MainStep(n)
  PROVE  PromiseStep
<1>1. TypeOK /\ SlotsMatch(n)
  BY DEF StepInv, TypeInv, CallInv, NodeInv
<1>2. CASE BeginLocal(n) \/ BeginRemote(n)
  BY <1>2, BeginLocalRefines, BeginRemoteRefines
<1>3. CASE ReturnPut(n)
  <2>1. InCall(n) /\ SlotSet(n) /\ SlotValue(n) = None
    BY <1>3 DEF ReturnPut, InCall, Waiting, SlotSet, SlotValue
  <2>2. Complete(n, Main, None) /\ UNCHANGED <<wire, map_>> /\ \A x \in Node : x # n => SlotsKept(x)
    BY <1>1, <1>3 DEF ReturnPut, mapVars, SlotsKept, TypeOK
  <2> QED  BY <2>1, <2>2, ReturnRefines
<1>4. CASE ReturnGet(n)
  <2>1. InCall(n) /\ SlotSet(n) /\ SlotValue(n) = reply_data_[n]
    BY <1>1, <1>4 DEF ReturnGet, InCall, Waiting, SlotSet, SlotValue, SlotsMatch
  <2>2. /\ Complete(n, Main, reply_data_[n]) /\ UNCHANGED <<wire, map_>>
        /\ \A x \in Node : x # n => SlotsKept(x)
    BY <1>1, <1>4 DEF ReturnGet, mapVars, SlotsKept, TypeOK
  <2>3. reply_data_[n] \in Data \cup {None}
    BY <1>1 DEF TypeOK
  <2> QED  BY <2>1, <2>2, <2>3, ReturnRefines
<1>5. CASE ReturnWag(n)
  <2>1. InCall(n) /\ SlotSet(n) /\ SlotValue(n) = wag_reply_data_[n]
    BY <1>1, <1>5 DEF ReturnWag, InCall, Waiting, SlotSet, SlotValue, SlotsMatch
  <2>2. /\ Complete(n, Main, wag_reply_data_[n]) /\ UNCHANGED <<wire, map_>>
        /\ \A x \in Node : x # n => SlotsKept(x)
    BY <1>1, <1>5 DEF ReturnWag, mapVars, SlotsKept, TypeOK
  <2>3. wag_reply_data_[n] \in Data \cup {None}
    BY <1>1 DEF TypeOK
  <2> QED  BY <2>1, <2>2, <2>3, ReturnRefines
<1>6. CASE CallDone(n) \/ Finish(n)
  BY <1>6, StepUnchanged DEF CallDone, Finish, Die, mapVars, slots
<1> QED  BY <1>2, <1>3, <1>4, <1>5, <1>6 DEF MainStep

(* The lock, and contains(), change nothing that an application sees.      *)
LEMMA PendingRefines ==
  ASSUME StepInv, StepInv', NEW n \in Node, NEW i \in 1 .. Len(thread[n]),
         NEW pc \in Pc, SetThread(n, i, pc, None), UNCHANGED <<wire, slots, map_>>,
         thread[n][i].pc \in {"put", "wag", "poll"}, pc \in {"store", "poll", "get"}
  PROVE  PromiseStep
<1>1. TypeOK
  BY DEF StepInv, TypeInv
<1>2. PICK t \in Thread : /\ t.pc = pc /\ t.op = thread[n][i].op
                          /\ t.from = thread[n][i].from /\ Replaces(n, i, t)
  BY <1>1, SetThreadRecord
<1>3. /\ AtWork(thread[n][i]) /\ AtWork(t)
      /\ ~Applied(thread[n][i]) /\ ~Applied(t)
  BY <1>2 DEF AtWork, Applied, Waiting
<1>4. PICK x \in Node : Others(x) /\ CallOf(x) = CallIn(thread[n][i]) /\ CallOf(x)' = CallIn(t)
  BY <1>2, <1>3, WorkGoesOn DEF StepInv
<1>5. CallIn(thread[n][i]) = CallIn(t)
  BY <1>2, <1>3 DEF CallIn
<1> QED  BY <1>4, <1>5, StepSame DEF Others

(* A get takes effect when it reads the pointer.                           *)
LEMMA GetLookupRefines ==
  ASSUME StepInv, StepInv', NEW n \in Node, NEW i \in 1 .. Len(thread[n]), GetLookup(n, i)
  PROVE  PromiseStep
<1>1. TypeOK /\ ThreadOK(thread[n][i], i) /\ thread[n][i].pc = "get"
  BY DEF StepInv, TypeInv, ThreadsOK, GetLookup, At
<1>2. PICK op \in Request, val \in Data \cup {None} :
        /\ op = thread[n][i].op /\ op.kind # "Put"
        /\ val = map_[n][op.key] /\ val # None
        /\ SetThread(n, i, "copy", val) /\ UNCHANGED <<wire, slots, map_>>
  <2>1. thread[n][i].op \in Request /\ thread[n][i].op.kind # "Put"
    BY <1>1 DEF ThreadOK
  <2>2. map_[n][thread[n][i].op.key] \in Data \cup {None}
    BY <1>1, <2>1 DEF TypeOK, Data, Request
  <2> QED  BY <2>1, <2>2 DEF GetLookup, mapVars
<1>3. PICK t \in Thread : /\ t.pc = "copy" /\ t.val = val /\ t.op = op
                          /\ t.from = thread[n][i].from /\ Replaces(n, i, t)
  <2>1. "copy" \in Pc
    BY DEF Pc
  <2> QED  BY <1>1, <1>2, <2>1, SetThreadRecord
<1>4. /\ AtWork(thread[n][i]) /\ AtWork(t)
      /\ ~Applied(thread[n][i]) /\ Applied(t)
  BY <1>1, <1>3 DEF AtWork, Applied, Waiting
<1>5. Home[op.key] = n
  BY <1>2, <1>3, <1>4, WorkGoesOn DEF StepInv
<1>6. PICK x \in Node : Others(x) /\ CallOf(x) = CallIn(thread[n][i]) /\ CallOf(x)' = CallIn(t)
  BY <1>2, <1>3, <1>4, WorkGoesOn DEF StepInv
<1>7. /\ CallOf(x) = [phase |-> "pending", op |-> op, val |-> None]
      /\ CallOf(x)' = [phase |-> "applied", op |-> op, val |-> map_[Home[op.key]][op.key]]
  BY <1>2, <1>3, <1>4, <1>5, <1>6 DEF CallIn
<1> QED  BY <1>2, <1>5, <1>6, <1>7, StepApplyGet

(* A put takes effect when it has stored its blob.  If it freed the blob   *)
(* that another thread is about to clone, there would be garbage.          *)
LEMMA PutStoreReplaces ==
  ASSUME TypeInv, NoGarbage', NEW n \in Node, NEW i \in 1 .. Len(thread[n]), PutStore(n, i)
  PROVE  \E t \in Thread : /\ t.pc = IF i = Main THEN "ready" ELSE "send"
                           /\ t.val = thread[n][i].val /\ t.op = thread[n][i].op
                           /\ t.from = thread[n][i].from
                           /\ Replaces(n, i, t)
<1>1. TypeOK /\ thread[n][i] \in Thread
  BY ThreadTypes DEF TypeInv
<1>2. PICK t \in Thread : /\ t = [thread[n][i] EXCEPT !.pc = IF i = Main THEN "ready" ELSE "send"]
                          /\ t.pc = IF i = Main THEN "ready" ELSE "send"
                          /\ t.val = thread[n][i].val /\ t.op = thread[n][i].op
                          /\ t.from = thread[n][i].from
  <2> DEFINE pc0 == IF i = Main THEN "ready" ELSE "send"
             t0 == [thread[n][i] EXCEPT !.pc = pc0]
  <2>1. pc0 \in Pc
    BY DEF Pc
  <2> HIDE DEF pc0
  <2>2. /\ t0 \in Thread /\ t0.pc = pc0 /\ t0.val = thread[n][i].val
        /\ t0.op = thread[n][i].op /\ t0.from = thread[n][i].from
    BY <1>1, <2>1 DEF Thread
  <2> HIDE DEF t0
  <2> QED  BY <2>2 DEF pc0, t0
<1>3. /\ \A j \in 1 .. Len(thread[n]) :
           j # i => \/ thread'[n][j] = thread[n][j]
                    \/ /\ thread[n][j].pc = "copy"
                       /\ thread'[n][j] = [thread[n][j] EXCEPT !.val = Garbage]
      /\ thread'[n][i] = t /\ Len(thread'[n]) = Len(thread[n])
  BY <1>1, <1>2, PutStoreEffect
<1>4. ASSUME NEW j \in 1 .. Len(thread[n]), j # i PROVE thread'[n][j] = thread[n][j]
  <2>1. thread[n][j] \in Thread
    BY <1>1, ThreadTypes
  <2> SUFFICES ASSUME thread[n][j].pc = "copy",
                      thread'[n][j] = [thread[n][j] EXCEPT !.val = Garbage]
               PROVE  FALSE
    BY <1>3, <1>4
  <2>2. thread'[n][j].pc = "copy" /\ thread'[n][j].val = Garbage
    BY <2>1 DEF Thread
  <2> QED  BY <1>3, <2>2 DEF NoGarbage
<1>5. PICK s \in Seq(Thread) : thread' = [thread EXCEPT ![n] = s] /\ s = thread'[n]
  <2>1. thread' \in [Node -> Seq(Thread)] /\ \A m \in Node : m # n => thread'[m] = thread[m]
    BY <1>1, PutStoreEffect
  <2>2. thread' = [thread EXCEPT ![n] = thread'[n]]
    BY <1>1, <2>1 DEF TypeOK
  <2> QED  BY <2>1, <2>2
<1>6. s = [thread[n] EXCEPT ![i] = t]
  <2>1. thread[n] \in Seq(Thread)
    BY <1>1 DEF TypeOK
  <2>2. /\ [thread[n] EXCEPT ![i] = t] \in Seq(Thread)
        /\ Len([thread[n] EXCEPT ![i] = t]) = Len(thread[n])
        /\ \A j \in 1 .. Len(thread[n]) :
             [thread[n] EXCEPT ![i] = t][j] = IF j = i THEN t ELSE thread[n][j]
    BY <1>2, <2>1, ExceptSeq
  <2>3. \A j \in 1 .. Len(s) : s[j] = [thread[n] EXCEPT ![i] = t][j]
    BY <1>3, <1>4, <1>5, <2>2
  <2> QED  BY <1>3, <1>5, <2>2, <2>3, SeqEqual
<1>7. Replaces(n, i, t)
  BY <1>1, <1>5, <1>6 DEF Replaces, TypeOK
<1> QED  BY <1>2, <1>7

LEMMA PutStoreRefines ==
  ASSUME StepInv, StepInv', NoGarbage',
         NEW n \in Node, NEW i \in 1 .. Len(thread[n]), PutStore(n, i)
  PROVE  PromiseStep
<1>1. TypeOK /\ ThreadOK(thread[n][i], i) /\ thread[n][i].pc = "store" /\ PlaceOK(n, i, thread[n][i])
  BY DEF StepInv, TypeInv, ThreadsOK, PutStore, At, PlaceInv
<1>2. PICK op \in Request : op = thread[n][i].op /\ op.kind = "Put"
  BY <1>1 DEF ThreadOK
<1>3. PICK t \in Thread : /\ t.pc = IF i = Main THEN "ready" ELSE "send"
                          /\ t.val = None /\ t.op = op
                          /\ t.from = thread[n][i].from
                          /\ Replaces(n, i, t)
  <2>1. thread[n][i].val = None
    BY <1>1 DEF PlaceOK
  <2> QED  BY <1>2, <2>1, PutStoreReplaces DEF StepInv
<1>4. AtWork(thread[n][i]) /\ ~Applied(thread[n][i])
  BY <1>1 DEF AtWork, Applied, Waiting
<1>5. /\ map_' = [map_ EXCEPT ![n][op.key] = op.val]
      /\ UNCHANGED <<wire, slots>>
  BY <1>2 DEF PutStore
<1>6. Home[op.key] = n /\ WorkOK(n, i)
  BY <1>2, <1>4 DEF StepInv, WorkInv, WorkOK
<1>7. CASE i = Main
  <2>1. Owner(n, i) = n
    BY <1>7 DEF Owner
  <2>2. Others(n)
    <3>1. \A x \in Node : SlotsKept(x)
      BY <1>5 DEF slots, SlotsKept
    <3> QED  BY <1>3, <1>5, <2>1, <3>1, OthersSame DEF StepInv, Others
  <2>3. CallOf(n) = [phase |-> "pending", op |-> op, val |-> None]
    BY <1>2, <1>4, <1>6, <2>1 DEF WorkOK, CallIn
  <2>4. MainThread(n)' = t
    BY <1>1, <1>3, <1>7, UpdateEffect DEF MainThread
  <2>5. CallIs(n, "idle", MainThread(n).val)'
    BY <1>3, <1>7, <2>4 DEF StepInv, WhereInv, WhereOK
  <2>6. CallOf(n)' = [phase |-> "idle", op |-> op, val |-> None]
    BY <1>3, <2>4, <2>5 DEF CallIs
  <2> QED  BY <1>1, <1>2, <1>5, <1>6, <2>2, <2>3, <2>6, StepApplyPut
<1>8. CASE i # Main
  <2>1. AtWork(t) /\ Applied(t)
    BY <1>3, <1>8 DEF AtWork, Applied, Waiting
  <2>2. PICK x \in Node : Others(x) /\ CallOf(x) = CallIn(thread[n][i]) /\ CallOf(x)' = CallIn(t)
    BY <1>2, <1>3, <1>4, <1>5, <2>1, WorkGoesOn DEF StepInv
  <2>3. CallOf(x) = [phase |-> "pending", op |-> op, val |-> None]
    BY <1>2, <1>4, <2>2 DEF CallIn
  <2>4. CallOf(x)' = [phase |-> "applied", op |-> op, val |-> None]
    BY <1>3, <2>1, <2>2 DEF CallIn
  <2> QED  BY <1>1, <1>2, <1>5, <1>6, <2>2, <2>3, <2>4, StepApplyPut
<1> QED  BY <1>7, <1>8

LEMMA GetCopyRefines ==
  ASSUME StepInv, StepInv', NEW n \in Node, NEW i \in 1 .. Len(thread[n]), GetCopy(n, i)
  PROVE  PromiseStep
<1>1. TypeOK /\ thread[n][i] \in Thread /\ thread[n][i].pc = "copy"
  BY ThreadTypes DEF StepInv, TypeInv, GetCopy, At
<1>2. PICK val \in Data \cup {None} : val = thread[n][i].val
  BY <1>1 DEF Thread
<1>3. CASE Die(n, "crashed")
  BY <1>3, StepUnchanged DEF Die, mapVars
<1>4. ASSUME Complete(n, i, val), UNCHANGED <<mapVars, slots, wire>> PROVE PromiseStep
  <2>1. PICK pc \in Pc : pc = (IF i = Main THEN "ready" ELSE "send") /\ SetThread(n, i, pc, val)
    <3>1. (IF i = Main THEN "ready" ELSE "send") \in Pc
      BY DEF Pc
    <3> QED  BY <1>4, <3>1 DEF Complete
  <2>2. PICK t \in Thread : /\ t.pc = pc /\ t.val = val /\ t.op = thread[n][i].op
                            /\ t.from = thread[n][i].from /\ Replaces(n, i, t)
    BY <1>1, <2>1, SetThreadRecord
  <2>3. AtWork(thread[n][i]) /\ Applied(thread[n][i])
    BY <1>1 DEF AtWork, Applied, Waiting
  <2>4. UNCHANGED <<map_, wire, slots>>
    BY <1>4 DEF mapVars
  <2>5. CASE i = Main
    <3>1. Owner(n, i) = n /\ MainThread(n) = thread[n][i] /\ MainThread(n)' = t
      BY <1>1, <2>2, <2>5, UpdateEffect DEF Owner, MainThread
    <3>2. Others(n)
      <4>1. \A x \in Node : SlotsKept(x)
        BY <2>4 DEF slots, SlotsKept
      <4> QED  BY <2>2, <2>4, <3>1, <4>1, OthersSame DEF StepInv, Others
    <3>3. CallOf(n) = [phase |-> "applied", op |-> thread[n][i].op, val |-> val]
      BY <1>2, <2>3, <3>1 DEF StepInv, WorkInv, WorkOK, CallIn
    <3>4. CallIs(n, "idle", MainThread(n).val)'
      BY <2>1, <2>2, <2>5, <3>1 DEF StepInv, WhereInv, WhereOK
    <3>5. CallOf(n)' = [phase |-> "idle", op |-> thread[n][i].op, val |-> val]
      BY <2>2, <3>1, <3>4 DEF CallIs
    <3> QED  BY <2>4, <3>2, <3>3, <3>5, StepReturn
  <2>6. CASE i # Main
    <3>1. AtWork(t) /\ Applied(t)
      BY <2>1, <2>2, <2>6 DEF AtWork, Applied, Waiting
    <3>2. PICK x \in Node : Others(x) /\ CallOf(x) = CallIn(thread[n][i]) /\ CallOf(x)' = CallIn(t)
      BY <2>2, <2>3, <2>4, <3>1, WorkGoesOn DEF StepInv
    <3>3. CallIn(t) = CallIn(thread[n][i])
      BY <1>2, <2>2, <2>3, <3>1 DEF CallIn
    <3> QED  BY <2>4, <3>2, <3>3, StepSame DEF Others
  <2> QED  BY <2>5, <2>6
<1> QED  BY <1>2, <1>3, <1>4 DEF GetCopy

(* The result of the call goes from the handler into its message.          *)
LEMMA SendAnswerRefines ==
  ASSUME StepInv, StepInv', NEW n \in Node, NEW i \in 1 .. Len(thread[n]), SendAnswer(n, i)
  PROVE  PromiseStep
<1>1. /\ TypeOK /\ thread[n][i] \in Thread /\ ThreadOK(thread[n][i], i)
      /\ PlaceOK(n, i, thread[n][i]) /\ thread[n][i].pc = "send"
  BY ThreadTypes DEF StepInv, TypeInv, ThreadsOK, PlaceInv, SendAnswer, At
<1>2. PICK x \in Node, msg \in {AnswerTo(thread[n][i])} :
        /\ x = thread[n][i].from /\ i # Main
        /\ Sends(n, x, msg) /\ SetThread(n, i, "done", None)
        /\ UNCHANGED <<map_, slots>>
  BY <1>1 DEF SendAnswer, Sends, Thread, mapVars, ThreadOK
<1>3. msg \in Message /\ msg \in Answer /\ msg \notin Request /\ AnswerValue(msg) = thread[n][i].val
  <2>1. thread[n][i].op \in Request /\ thread[n][i].val \in Data \cup {None}
    BY <1>1 DEF ThreadOK, Thread
  <2>2. CASE thread[n][i].op.kind = "Put"
    BY <1>1, <1>2, <2>2, RequestsAndAnswers DEF AnswerTo, Message, Answer, AnswerValue, PlaceOK
  <2>3. CASE thread[n][i].op.kind # "Put"
    <3>1. thread[n][i].op.kind \in {"Get", "WaitAndGet"} /\ thread[n][i].val \in Data
      BY <1>1, <2>1, <2>3 DEF Request, ThreadOK
    <3>2. msg = [kind |-> "Reply", request |-> thread[n][i].op.kind, val |-> thread[n][i].val]
      BY <1>2, <2>3 DEF AnswerTo, Reply
    <3>3. msg.kind # Ack.kind
      BY <3>2 DEF Ack
    <3> QED  BY <3>1, <3>2, <3>3, RequestsAndAnswers DEF Message, Answer, AnswerValue
  <2> QED  BY <2>2, <2>3
<1>4. PICK t \in Thread : t.from = x /\ Replaces(n, i, t)
  <2>1. "done" \in Pc
    BY DEF Pc
  <2> QED  BY <1>1, <1>2, <2>1, SetThreadRecord
<1>5. \A y \in Node : y # x => HandlersSame(y) /\ MainThread(y)' = MainThread(y)
  BY <1>2, <1>4, ReplaceOthers DEF StepInv, Owner
<1>6. MainThread(x)' = MainThread(x)
  <2>1. Main \in 1 .. Len(thread[x])
    BY <1>1, ThreadTypes
  <2> QED  BY <1>1, <1>2, <1>4, <2>1, UpdateEffect DEF MainThread
<1>7. /\ InCall(x) /\ MainThread(x).op = thread[n][i].op
      /\ CallIs(x, "applied", thread[n][i].val)
  <2>1. i \in Handlers(x, n)
    <3>1. i \in 2 .. Len(thread[n])
      BY <1>1, <1>2, ThreadTypes DEF Main
    <3> QED  BY <1>1, <1>2, <3>1 DEF Handlers
  <2>2. InCall(x) /\ MainThread(x).op = thread[n][i].op
    BY <2>1 DEF StepInv, CallInv, NodeInv, PlacesMatch
  <2>3. Shows(x, thread[n][i])
    BY <2>1, <2>2 DEF StepInv, WhereInv, WhereOK
  <2> QED  BY <1>1, <2>2, <2>3 DEF Shows, Applied
<1>8. CallOf(x)' = CallOf(x)
  <2>1. PICK j \in Answers(x, n)' : wire'[n][x][j] = msg
    <3>1. msg \in Message /\ wire' = [wire EXCEPT ![n][x] = Append(@, msg)]
      BY <1>2, <1>3 DEF Sends
    <3>2. /\ Len(wire[n][x]) \in Nat /\ Len(wire'[n][x]) = Len(wire[n][x]) + 1
          /\ wire'[n][x][Len(wire[n][x]) + 1] = msg
      BY <1>1, <3>1, SendEffect
    <3>3. Len(wire[n][x]) + 1 \in Answers(x, n)'
      BY <1>3, <3>2 DEF Answers
    <3> QED  BY <3>2, <3>3
  <2>2. InCall(x)'
    BY <1>6, <1>7 DEF InCall
  <2>3. CallIs(x, "applied", AnswerValue(wire[n][x][j]))'
    BY <2>1, <2>2 DEF StepInv, WhereInv, WhereOK
  <2> QED  BY <1>3, <1>6, <1>7, <2>1, <2>3 DEF CallIs, AnswerValue
<1>9. ASSUME NEW y \in Node, y # x PROVE CallOf(y)' = CallOf(y)
  <2>1. WhereOK(y) /\ WhereOK(y)' /\ SlotsKept(y)
    BY <1>2 DEF StepInv, WhereInv, SlotsKept, slots
  <2>2. RequestsKept(y) /\ AnswersKept(y)
    BY <1>1, <1>2, <1>3, <1>9, WireSend
  <2>3. RequestsStay(y) /\ AnswersStay(y)
    BY <1>1, <1>2, <1>3, SendStays
  <2> QED  BY <1>5, <1>9, <2>1, <2>2, <2>3, CallFrame
<1> QED  BY <1>2, <1>8, <1>9, StepSame

-----------------------------------------------------------------------------
(* Messages that leave with the buffer take the call of one node along.    *)
LEMMA StepSameOrLose ==
  ASSUME UNCHANGED map_, NEW n \in Node, Others(n),
         CallOf(n)' = CallOf(n) \/ (Lossy /\ Lost(n))
  PROVE  PromiseStep
<1>1. CASE CallOf(n)' = CallOf(n)
  BY <1>1, StepSame DEF Others
<1>2. CASE Lossy /\ Lost(n)
  BY <1>2, StepLose
<1> QED  BY <1>1, <1>2

(* An answer moves into the slot; requests behind it may be lost.          *)
LEMMA ReceiveAnswerRefines ==
  ASSUME StepInv, StepInv', LossAllowed, NEW n \in Node, NEW msg \in Answer, Receive(n, msg),
         UNCHANGED <<thread, map_>>, \A x \in Node : x # n => SlotsKept(x),
         SlotSet(n)', InCall(n) => SlotValue(n)' = AnswerValue(msg)
  PROVE  PromiseStep
<1>1. TypeOK
  BY DEF StepInv, TypeInv
<1>2. PICK m \in Node : m = monitor[n].from
  BY <1>1 DEF TypeOK
<1>3. /\ 1 \in Answers(n, m) /\ msg = wire[m][n][1]
      /\ \A x \in Node : RequestsKept(x) /\ AnswersKept(x)
  BY <1>1, <1>2, WireReceive
<1>4. InCall(n) /\ m # n
  <2>1. InCall(n) /\ m = Destination(n)
    BY <1>3 DEF StepInv, CallInv, NodeInv, PlacesMatch
  <2>2. IsRemote(n, MainThread(n).op)
    BY <2>1 DEF StepInv, CallInv, NodeInv, WaitMatches
  <2> QED  BY <2>1, <2>2 DEF IsRemote, Destination
<1>5. \A x \in Node : HandlersSame(x) /\ MainThread(x)' = MainThread(x)
  BY DEF HandlersSame, Handlers, MainThread
<1>6. CallOf(n)' = CallOf(n)
  <2>1. CallIs(n, "applied", AnswerValue(wire[m][n][1]))
    BY <1>3, <1>4 DEF StepInv, WhereInv, WhereOK
  <2>2. InCall(n)'
    BY <1>4, <1>5 DEF InCall
  <2>3. CallIs(n, "applied", SlotValue(n))'
    BY <2>2 DEF StepInv, WhereInv, WhereOK
  <2> QED  BY <1>3, <1>4, <1>5, <2>1, <2>3 DEF CallIs
<1>7. ASSUME NEW x \in Node, x # n
      PROVE  /\ CallOf(x)' = CallOf(x) \/ Lost(x)
             /\ x # m \/ MaxBatch = 1 => CallOf(x)' = CallOf(x)
  <2>1. WhereOK(x) /\ WhereOK(x)' /\ SlotsKept(x)
    BY <1>7 DEF StepInv, WhereInv
  <2>2. msg \notin Request
    BY RequestsAndAnswers
  <2>3. AnswersStay(x) /\ (x # m \/ MaxBatch = 1 => RequestsStay(x))
    BY <1>1, <1>2, <1>7, <2>2, ReceiveStays
  <2> QED  BY <1>3, <1>5, <2>1, <2>3, CallFrame
<1>8. Others(m) /\ (CallOf(m)' = CallOf(m) \/ (Lossy /\ Lost(m)))
  BY <1>4, <1>6, <1>7 DEF Others, LossAllowed
<1> QED  BY <1>8, StepSameOrLose

(* A request becomes a handler; an answer behind it may be lost.           *)
LEMMA ReceiveRequestRefines ==
  ASSUME StepInv, StepInv', LossAllowed, NEW n \in Node, ReceiveRequest(n)
  PROVE  PromiseStep
<1>1. TypeOK /\ \A x \in Node : Main \in 1 .. Len(thread[x]) /\ Len(thread[x]) \in Nat
  BY ThreadTypes DEF StepInv, TypeInv
<1>2. PICK m \in Node, op \in Request, t \in Thread :
        /\ m = monitor[n].from /\ Receive(n, op)
        /\ t.pc \in {"put", "get", "wag"} /\ t.from = m
        /\ thread' = [thread EXCEPT ![n] = Append(@, t)]
  <2>1. PICK op0 \in Request : Receive(n, op0)
    BY DEF ReceiveRequest
  <2>2. monitor[n].from \in Node
    BY <1>1 DEF TypeOK
  <2> QED  BY <1>1, <2>1, <2>2, SpawnedThread
<1>3. UNCHANGED <<map_, slots>>
  BY DEF ReceiveRequest, mapVars
<1>4. /\ op \notin Answer /\ 1 \in Requests(m, n)
      /\ \A x \in Node : RequestsKept(x) /\ AnswersKept(x)
  BY <1>1, <1>2, WireReceive, RequestsAndAnswers
<1>5. InCall(m) /\ m # n
  <2>1. InCall(m) /\ n = Destination(m)
    BY <1>4 DEF StepInv, CallInv, NodeInv, PlacesMatch
  <2>2. IsRemote(m, MainThread(m).op)
    BY <2>1 DEF StepInv, CallInv, NodeInv, WaitMatches
  <2> QED  BY <2>1, <2>2 DEF IsRemote, Destination
<1>6. /\ \A x \in Node : Len(thread'[x]) = IF x = n THEN Len(thread[x]) + 1 ELSE Len(thread[x])
      /\ \A x \in Node : \A j \in 1 .. Len(thread[x]) : thread'[x][j] = thread[x][j]
      /\ thread'[n][Len(thread[n]) + 1] = t
  BY <1>1, <1>2, SpawnEffect
<1>7. \A x \in Node : MainThread(x)' = MainThread(x)
  BY <1>1, <1>6 DEF MainThread
<1>8. ASSUME NEW x \in Node, x # m PROVE HandlersSame(x)
  <2>1. ASSUME NEW d \in Node, NEW j \in 2 .. Len(thread[d])
        PROVE  j \in 2 .. Len(thread'[d]) /\ thread'[d][j] = thread[d][j]
    <3>1. Len(thread[d]) \in Nat /\ j \in 1 .. Len(thread[d])
      BY <1>1
    <3>2. thread'[d][j] = thread[d][j] /\ Len(thread'[d]) \in {Len(thread[d]), Len(thread[d]) + 1}
      BY <1>6, <3>1
    <3> QED  BY <3>1, <3>2
  <2>2. ASSUME NEW d \in Node, NEW j \in 2 .. Len(thread'[d]), thread'[d][j].from = x
        PROVE  j \in 2 .. Len(thread[d])
    <3>1. CASE j \notin 2 .. Len(thread[d])
      <4>1. d = n /\ j = Len(thread[n]) + 1
        BY <1>1, <1>6, <3>1
      <4> QED  BY <1>2, <1>6, <1>8, <2>2, <4>1
    <3> QED  BY <3>1
  <2> QED  BY <2>1, <2>2 DEF HandlersSame, Handlers
<1>9. CallOf(m)' = CallOf(m)
  <2>1. CallIs(m, "pending", None)
    BY <1>4, <1>5 DEF StepInv, WhereInv, WhereOK
  <2>2. PICK j \in {Len(thread[n]) + 1} : j \in Handlers(m, n)' /\ thread'[n][j] = t
    <3>1. Len(thread[n]) + 1 \in 2 .. Len(thread'[n])
      BY <1>1, <1>6 DEF Main
    <3> QED  BY <1>2, <1>6, <3>1 DEF Handlers
  <2>3. InCall(m)'
    BY <1>5, <1>7 DEF InCall
  <2>4. Shows(m, thread[n][j])'
    BY <2>2, <2>3 DEF StepInv, WhereInv, WhereOK
  <2>5. ~Applied(thread'[n][j])
    BY <1>2, <2>2 DEF Applied
  <2>6. CallIs(m, "pending", None)'
    BY <2>4, <2>5 DEF Shows, Applied
  <2> QED  BY <1>7, <2>1, <2>6 DEF CallIs
<1>10. ASSUME NEW x \in Node, x # m
       PROVE  /\ CallOf(x)' = CallOf(x) \/ Lost(x)
              /\ x # n \/ MaxBatch = 1 => CallOf(x)' = CallOf(x)
  <2>1. WhereOK(x) /\ WhereOK(x)' /\ SlotsKept(x)
    BY <1>3 DEF StepInv, WhereInv, SlotsKept, slots
  <2>2. RequestsStay(x) /\ (x # n \/ MaxBatch = 1 => AnswersStay(x))
    BY <1>1, <1>2, <1>4, <1>10, ReceiveStays
  <2> QED  BY <1>4, <1>7, <1>8, <1>10, <2>1, <2>2, CallFrame
<1>11. Others(n) /\ (CallOf(n)' = CallOf(n) \/ (Lossy /\ Lost(n)))
  BY <1>5, <1>9, <1>10 DEF Others, LossAllowed
<1> QED  BY <1>3, <1>11, StepSameOrLose

-----------------------------------------------------------------------------
LEMMA ThreadStepRefines ==
  ASSUME StepInv, StepInv', NoGarbage',
         NEW n \in Node, NEW i \in 1 .. Len(thread[n]), ThreadStep(n, i)
  PROVE  PromiseStep
<1>1. CASE PutLock(n, i) \/ MapContains(n, i)
  <2>1. PICK pc \in {"store", "poll", "get"} :
          /\ SetThread(n, i, pc, None) /\ thread[n][i].pc \in {"put", "wag", "poll"}
          /\ UNCHANGED <<wire, slots, map_>>
    BY <1>1 DEF PutLock, MapContains, At, mapVars
  <2>2. pc \in Pc
    BY DEF Pc
  <2> QED  BY <2>1, <2>2, PendingRefines
<1>2. CASE PutStore(n, i)
  BY <1>2, PutStoreRefines
<1>3. CASE GetLookup(n, i)
  BY <1>3, GetLookupRefines
<1>4. CASE GetCopy(n, i)
  BY <1>4, GetCopyRefines
<1>5. CASE SendAnswer(n, i)
  BY <1>5, SendAnswerRefines
<1>6. CASE ContainsDuringGrow(n, i) \/ GetAssertFails(n, i)
  BY <1>6, StepUnchanged DEF ContainsDuringGrow, GetAssertFails, Die, mapVars
<1> QED  BY <1>1, <1>2, <1>3, <1>4, <1>5, <1>6 DEF ThreadStep

LEMMA MonitorStepRefines ==
  ASSUME StepInv, StepInv', LossAllowed, NEW n \in Node, MonitorStep(n)
  PROVE  PromiseStep
<1>1. TypeOK /\ SlotsMatch(n)'
  BY DEF StepInv, TypeInv, CallInv, NodeInv
<1>2. CASE (\E m \in Node : Select(n, m)) \/ StopMonitor(n) \/ ReceiveEof(n)
  BY <1>2, StepUnchanged DEF Select, StopMonitor, ReceiveEof, mapVars
<1>3. CASE ReceiveAfterShutdown(n)
  BY <1>3, StepUnchanged DEF ReceiveAfterShutdown, Die, mapVars
<1>4. CASE ReceiveRequest(n)
  BY <1>4, ReceiveRequestRefines
<1>5. CASE ReceiveAck(n)
  <2>1. /\ Ack \in Answer /\ Receive(n, Ack) /\ UNCHANGED <<thread, map_>>
        /\ \A x \in Node : x # n => SlotsKept(x)
        /\ ack_recvd_'[n]
    BY <1>1, <1>5 DEF ReceiveAck, Answer, SlotsKept, TypeOK, mapVars
  <2>2. SlotSet(n)' /\ SlotValue(n)' = AnswerValue(Ack)
    BY <2>1 DEF SlotSet, SlotValue, AnswerValue
  <2> QED  BY <2>1, <2>2, ReceiveAnswerRefines
<1>6. CASE ReceiveReply(n)
  <2>1. PICK req \in {"Get", "WaitAndGet"}, v \in Data :
          /\ Receive(n, Reply(req, v))
          /\ IF req = "WaitAndGet"
             THEN /\ wag_reply_data_' = [wag_reply_data_ EXCEPT ![n] = v]
                  /\ UNCHANGED reply_data_
             ELSE /\ reply_data_' = [reply_data_ EXCEPT ![n] = v]
                  /\ UNCHANGED wag_reply_data_
          /\ UNCHANGED <<prog, ip, thread, mapVars, ack_recvd_, has_shutdown, status>>
    BY <1>6 DEF ReceiveReply
  <2>2. v # None
    BY NoneAssumption, GarbageAssumption DEF Data
  <2>3. Reply(req, v) \in Answer /\ AnswerValue(Reply(req, v)) = v
    <3>1. Reply(req, v).kind # Ack.kind
      BY DEF Reply, Ack
    <3> QED  BY <3>1 DEF Answer, AnswerValue, Reply
  <2>4. UNCHANGED <<thread, map_>> /\ \A x \in Node : x # n => SlotsKept(x)
    BY <1>1, <2>1 DEF SlotsKept, TypeOK, mapVars
  <2>5. IF req = "WaitAndGet" THEN wag_reply_data_'[n] = v ELSE reply_data_'[n] = v
    BY <1>1, <2>1 DEF TypeOK
  <2>6. SlotSet(n)'
    BY <2>2, <2>5 DEF SlotSet
  <2>7. SlotValue(n)' = v
    BY <1>1, <2>2, <2>5 DEF SlotValue, SlotsMatch
  <2> QED  BY <2>1, <2>3, <2>4, <2>6, <2>7, ReceiveAnswerRefines
<1> QED  BY <1>2, <1>3, <1>4, <1>5, <1>6 DEF MonitorStep

LEMMA NextRefines ==
  ASSUME StepInv, StepInv', NoGarbage', LossAllowed, [Next]_vars
  PROVE  PromiseStep
<1>1. CASE UNCHANGED vars
  BY <1>1, StepUnchanged DEF vars, mapVars
<1>2. ASSUME NEW n \in Node, ExitStep(n) PROVE PromiseStep
  BY <1>2, StepUnchanged DEF ExitStep, ExitAfterShutdown, SendFails, Die, mapVars
<1> QED  BY <1>1, <1>2, MainStepRefines, ThreadStepRefines, MonitorStepRefines DEF Next

-----------------------------------------------------------------------------
LEMMA PlaceStep == TypeInv /\ PlaceInv /\ [Next]_vars => PlaceInv'
<1> SUFFICES ASSUME TypeInv, PlaceInv, [Next]_vars PROVE PlaceInv'
  OBVIOUS
<1>1. TypeOK /\ \A m \in Node : Main \in 1 .. Len(thread[m]) /\ Len(thread[m]) \in Nat
  BY ThreadTypes DEF TypeInv
<1>2. ASSUME NEW n \in Node, NEW how, Die(n, how) PROVE PlaceInv'
  BY <1>2, PlaceUnchanged DEF Die
<1>3. {"ready", "store", "get", "poll", "copy", "send", "done"} \subseteq Pc
  BY DEF Pc
<1>4. ASSUME NEW n \in Node, MainStep(n) PROVE PlaceInv'
  <2>1. CASE BeginLocal(n) \/ BeginRemote(n)
    BY <2>1, PlaceStart
  <2>2. CASE ReturnPut(n) \/ ReturnGet(n) \/ ReturnWag(n)
    <3>1. PICK v \in Data \cup {None} : SetThread(n, Main, "ready", v)
      BY <1>1, <2>2 DEF ReturnPut, ReturnGet, ReturnWag, Complete, TypeOK
    <3> QED  BY <1>1, <1>3, <3>1, PlaceSetThread
  <2>3. CASE CallDone(n) \/ Finish(n)
    BY <1>2, <2>3, PlaceUnchanged DEF CallDone, Finish
  <2> QED  BY <1>4, <2>1, <2>2, <2>3 DEF MainStep
<1>5. ASSUME NEW n \in Node, NEW i \in 1 .. Len(thread[n]), ThreadStep(n, i) PROVE PlaceInv'
  <2>1. thread[n][i] \in Thread /\ ThreadOK(thread[n][i], i)
    BY <1>1, ThreadTypes DEF TypeInv, ThreadsOK
  <2>2. CASE PutStore(n, i)
    BY <2>2, PlacePutStore
  <2>3. CASE PutLock(n, i) \/ MapContains(n, i)
    <3>1. PICK pc \in {"store", "get", "poll"} :
            SetThread(n, i, pc, None) /\ thread[n][i].pc \in {"put", "wag", "poll"}
      BY <2>3 DEF PutLock, MapContains, At
    <3> QED  BY <1>3, <3>1, PlaceSetThread DEF Waiting
  <2>4. CASE GetLookup(n, i)
    <3>1. thread[n][i].op.key \in Key /\ thread[n][i].pc = "get"
      BY <2>1, <2>4 DEF GetLookup, At, ThreadOK, Request
    <3>2. map_[n][thread[n][i].op.key] \in Data \cup {None}
      BY <1>1, <3>1 DEF TypeOK, Data
    <3>3. SetThread(n, i, "copy", map_[n][thread[n][i].op.key])
      BY <2>4 DEF GetLookup
    <3> QED  BY <1>3, <3>1, <3>2, <3>3, PlaceSetThread DEF Waiting
  <2>5. CASE GetCopy(n, i)
    <3>1. thread[n][i].val \in Data \cup {None} /\ thread[n][i].op.kind # "Put" /\ thread[n][i].pc = "copy"
      BY <2>1, <2>5 DEF GetCopy, At, Thread, ThreadOK
    <3>2. CASE Complete(n, i, thread[n][i].val)
      <4>1. PICK pc \in {"ready", "send"} : SetThread(n, i, pc, thread[n][i].val)
        BY <3>2 DEF Complete
      <4> QED  BY <1>3, <3>1, <4>1, PlaceSetThread DEF Waiting
    <3> QED  BY <1>2, <2>5, <3>2 DEF GetCopy
  <2>6. CASE SendAnswer(n, i)
    <3>1. SetThread(n, i, "done", None) /\ thread[n][i].pc = "send"
      BY <2>6 DEF SendAnswer, At
    <3> QED  BY <1>3, <3>1, PlaceSetThread DEF Waiting
  <2>7. CASE ContainsDuringGrow(n, i) \/ GetAssertFails(n, i)
    BY <1>2, <2>7 DEF ContainsDuringGrow, GetAssertFails
  <2> QED  BY <1>5, <2>2, <2>3, <2>4, <2>5, <2>6, <2>7 DEF ThreadStep
<1>6. ASSUME NEW n \in Node, ReceiveRequest(n) PROVE PlaceInv'
  <2>1. PICK t \in Thread : /\ t.pc \in {"put", "get", "wag"}
                            /\ thread' = [thread EXCEPT ![n] = Append(@, t)]
    BY <1>1, <1>6, SpawnedThread
  <2>2. /\ \A m \in Node : Len(thread'[m]) = IF m = n THEN Len(thread[m]) + 1 ELSE Len(thread[m])
        /\ \A m \in Node : \A j \in 1 .. Len(thread[m]) : thread'[m][j] = thread[m][j]
        /\ thread'[n][Len(thread[n]) + 1] = t
    BY <1>1, <2>1, SpawnEffect
  <2>3. ASSUME NEW m \in Node, NEW j \in 1 .. Len(thread'[m])
        PROVE  PlaceOK(m, j, thread'[m][j])
    <3>1. CASE j \in 1 .. Len(thread[m])
      <4>1. PlaceOK(m, j, thread[m][j]) /\ thread'[m][j] = thread[m][j]
        BY <2>2, <3>1 DEF PlaceInv
      <4> QED  BY <4>1
    <3>2. CASE j \notin 1 .. Len(thread[m])
      <4>1. m = n /\ j = Len(thread[n]) + 1 /\ j # Main
        BY <1>1, <2>2, <3>2
      <4> QED  BY <2>1, <2>2, <4>1 DEF PlaceOK
    <3> QED  BY <3>1, <3>2
  <2> QED  BY <2>3 DEF PlaceInv, PlaceOK
<1>7. ASSUME NEW n \in Node, MonitorStep(n) PROVE PlaceInv'
  <2>1. CASE (\E m \in Node : Select(n, m)) \/ StopMonitor(n) \/ ReceiveEof(n)
             \/ ReceiveAck(n) \/ ReceiveReply(n)
    BY <2>1, PlaceUnchanged DEF Select, StopMonitor, ReceiveEof, ReceiveAck, ReceiveReply
  <2>2. CASE ReceiveAfterShutdown(n)
    BY <1>2, <2>2, PlaceUnchanged DEF ReceiveAfterShutdown
  <2> QED  BY <1>6, <1>7, <2>1, <2>2 DEF MonitorStep
<1>8. ASSUME NEW n \in Node, ExitStep(n) PROVE PlaceInv'
  BY <1>2, <1>8 DEF ExitStep, ExitAfterShutdown, SendFails
<1> QED  BY <1>4, <1>5, <1>7, <1>8, PlaceUnchanged DEF Next, vars

LEMMA InitPlaceInv == Init => PlaceInv
<1> SUFFICES ASSUME Init, NEW n \in Node, NEW i \in 1 .. Len(thread[n])
             PROVE  PlaceOK(n, i, thread[n][i])
  BY DEF PlaceInv
<1>1. thread[n] = <<[pc |-> "ready", op |-> Done, from |-> n, val |-> None]>>
  BY DEF Init
<1>2. thread[n][i].pc = "ready"
  BY <1>1
<1> QED  BY <1>2 DEF PlaceOK

LEMMA StepInvariant == Spec => []StepInv
<1>1. Spec => []PlaceInv
  BY PlaceStep, InitPlaceInv, TypeInvariant, PTL DEF Spec
<1>2. TypeInv /\ CallInv /\ PlaceInv => StepInv
  BY WhereCorrect, WorkCorrect DEF StepInv
<1> QED  BY <1>1, <1>2, TypeInvariant, CallInvariant, PTL

LEMMA InitRefines == Init => Promise!SpecInit
<1> SUFFICES ASSUME Init PROVE Promise!SpecInit
  OBVIOUS
<1>1. Store = [k \in Key |-> None]
  BY HomeAssumption DEF Init, Store
<1>2. ASSUME NEW n \in Node
      PROVE  CallOf(n) = [phase |-> "idle", op |-> Done, val |-> None]
  <2>1. thread[n] = <<[pc |-> "ready", op |-> Done, from |-> n, val |-> None]>>
    BY DEF Init
  <2>2. MainThread(n) = [pc |-> "ready", op |-> Done, from |-> n, val |-> None]
    BY <2>1 DEF MainThread, Main
  <2>3. ~InCall(n)
    BY <2>2 DEF InCall, Waiting
  <2> QED  BY <2>2, <2>3 DEF CallOf
<1>3. Calls = [n \in Node |-> [phase |-> "idle", op |-> Done, val |-> None]]
  BY <1>2 DEF Calls
<1> QED  BY <1>1, <1>3 DEF Promise!SpecInit, Done, Promise!Done

(* The stores of all nodes, with their threads and messages, are one map   *)
(* on which every call takes effect at one instant (report/doc.md:39-51),  *)
(* as long as no put frees the blob that a get is about to clone.  A call  *)
(* can be lost, if several messages may meet in a buffer.                  *)
THEOREM PromiseKept ==
  ASSUME LossAllowed
  PROVE  Spec /\ []NoGarbage => ImplementsPromise
<1>1. StepInv /\ StepInv' /\ NoGarbage' /\ [Next]_vars => [Promise!SpecNext]_Promise!specVars
  BY NextRefines DEF PromiseStep, Promise!specVars
<1>2. Spec /\ []NoGarbage => Promise!SpecInit /\ [][Promise!SpecNext]_Promise!specVars
  BY <1>1, InitRefines, StepInvariant, PTL DEF Spec
<1> QED  BY <1>2 DEF ImplementsPromise, Promise!KVSpecification

-----------------------------------------------------------------------------
(* Applications which put every key at most once, as the demos do, meet no *)
(* dangling pointer in get, and so have the one map of KVSpec without a    *)
(* condition on what happens.                                              *)

(* Between its start and its return, a call is the one that ip points to.  *)
CurrentOK(n) ==
  MainThread(n).pc # "ready" => /\ ip[n] \in 1 .. Len(prog[n])
                                /\ MainThread(n).op = prog[n][ip[n]]

(* The j-th call of x is over, or can have no effect any more.             *)
Past(x, j) == \/ j < ip[x]
              \/ j = ip[x] /\ CallOf(x).phase \in {"applied", "lost"}

IsPutOf(x, j, k) == j \in 1 .. Len(prog[x]) /\ prog[x][j].kind = "Put" /\ prog[x][j].key = k

(* What is in the map was put there by a call that is past.                *)
PutInv == \A k \in Key : map_[Home[k]][k] # None =>
            \E x \in Node : \E j \in Nat : IsPutOf(x, j, k) /\ Past(x, j)

OnceInv == (\A n \in Node : CurrentOK(n)) /\ PutInv /\ NoGarbage

Disciplined == \A p \in Programs : WriteOnce(p)

-----------------------------------------------------------------------------
(* What a step does to the main thread of node x: nothing; the start of a  *)
(* call; a step inside one; the end of one.                                *)
MainGoes(x) ==
  \/ MainThread(x)' = MainThread(x) /\ ip'[x] = ip[x]
  \/ /\ MainThread(x).pc = "ready" /\ HasCall(x)
     /\ MainThread(x)'.op = CurrentCall(x) /\ ip'[x] = ip[x]
  \/ /\ MainThread(x).pc # "ready" /\ MainThread(x)'.pc # "ready"
     /\ MainThread(x)'.op = MainThread(x).op /\ ip'[x] = ip[x]
  \/ MainThread(x)'.pc = "ready" /\ ip'[x] = ip[x] + 1

LEMMA MainAfter ==
  ASSUME TypeOK, NEW n \in Node, NEW i \in 1 .. Len(thread[n]), NEW t \in Thread, Replaces(n, i, t)
  PROVE  \A x \in Node : MainThread(x)' = IF x = n /\ i = Main THEN t ELSE MainThread(x)
<1>1. \A x \in Node : Main \in 1 .. Len(thread[x])
  BY ThreadTypes
<1> QED  BY <1>1, UpdateEffect DEF MainThread

(* A step of one thread with SetThread, which may end a call.              *)
LEMMA SetThreadMain ==
  ASSUME TypeOK, NEW n \in Node, NEW i \in 1 .. Len(thread[n]),
         NEW pc \in Pc, NEW val \in Data \cup {None}, SetThread(n, i, pc, val),
         thread[n][i].pc # "ready",
         ip' = IF i = Main /\ pc = "ready" THEN [ip EXCEPT ![n] = @ + 1] ELSE ip
  PROVE  \A x \in Node : MainGoes(x)
<1>1. PICK t \in Thread : /\ t.pc = pc /\ t.op = thread[n][i].op /\ Replaces(n, i, t)
  BY SetThreadRecord
<1> SUFFICES ASSUME NEW x \in Node PROVE MainGoes(x)
  OBVIOUS
<1>2. MainThread(x)' = IF x = n /\ i = Main THEN t ELSE MainThread(x)
  BY <1>1, MainAfter
<1>3. ip \in [Node -> Nat \ {0}]
  BY DEF TypeOK
<1>4. CASE x = n /\ i = Main /\ pc = "ready"
  BY <1>1, <1>2, <1>3, <1>4 DEF MainGoes
<1>5. CASE x = n /\ i = Main /\ pc # "ready"
  <2>1. MainThread(x) = thread[n][i] /\ MainThread(x)' = t
    BY <1>2, <1>5 DEF MainThread
  <2> QED  BY <1>1, <1>5, <2>1 DEF MainGoes
<1>6. CASE ~(x = n /\ i = Main)
  BY <1>2, <1>3, <1>6 DEF MainGoes
<1> QED  BY <1>4, <1>5, <1>6

LEMMA StartMain ==
  ASSUME TypeOK, NEW n \in Node, HasCall(n), CurrentCall(n) \in Request, NEW pc \in Pc,
         StartCall(n, pc), UNCHANGED ip
  PROVE  \A x \in Node : MainGoes(x)
<1>1. PICK t \in Thread : t.op = CurrentCall(n) /\ Replaces(n, Main, t)
  <2> DEFINE t0 == [thread[n][Main] EXCEPT !.pc = pc, !.op = CurrentCall(n)]
  <2>1. CurrentCall(n) \in Call
    BY DEF Call
  <2>2. t0 \in Thread /\ t0.op = CurrentCall(n) /\ Replaces(n, Main, t0)
    BY <2>1, StartCallEffect
  <2> HIDE DEF t0
  <2> QED  BY <2>2
<1>2. Main \in 1 .. Len(thread[n])
  BY ThreadTypes
<1>3. \A x \in Node : MainThread(x)' = IF x = n THEN t ELSE MainThread(x)
  BY <1>1, <1>2, MainAfter
<1>4. MainThread(n).pc = "ready"
  BY DEF HasCall
<1> QED  BY <1>1, <1>3, <1>4 DEF MainGoes

LEMMA PutStoreMain ==
  ASSUME TypeInv, NEW n \in Node, NEW i \in 1 .. Len(thread[n]), PutStore(n, i)
  PROVE  \A x \in Node : MainGoes(x)
<1>1. /\ TypeOK /\ thread[n][i].pc = "store" /\ ip \in [Node -> Nat \ {0}]
      /\ ip' = IF i = Main THEN [ip EXCEPT ![n] = @ + 1] ELSE ip
  BY DEF TypeInv, TypeOK, PutStore, At
<1>2. /\ \A m \in Node : m # n => thread'[m] = thread[m]
      /\ thread'[n][i] = [thread[n][i] EXCEPT !.pc = IF i = Main THEN "ready" ELSE "send"]
      /\ \A j \in 1 .. Len(thread[n]) :
           j # i => \/ thread'[n][j] = thread[n][j]
                    \/ /\ thread[n][j].pc = "copy"
                       /\ thread'[n][j] = [thread[n][j] EXCEPT !.val = Garbage]
  BY <1>1, PutStoreEffect
<1> SUFFICES ASSUME NEW x \in Node PROVE MainGoes(x)
  OBVIOUS
<1>3. Main \in 1 .. Len(thread[x])
  BY <1>1, ThreadTypes
<1>4. CASE x # n
  BY <1>1, <1>2, <1>4 DEF MainGoes, MainThread
<1>5. CASE x = n /\ i = Main
  <2>1. thread[n][i] \in Thread
    BY <1>1, ThreadTypes
  <2>2. thread'[x][Main].pc = "ready"
    BY <1>2, <1>5, <2>1 DEF Thread
  <2> QED  BY <1>1, <1>5, <2>2 DEF MainGoes, MainThread
<1>6. CASE x = n /\ i # Main
  <2>1. thread[n][Main] \in Thread /\ ip'[x] = ip[x]
    BY <1>1, <1>3, <1>6, ThreadTypes
  <2>2. CASE thread'[x][Main] = thread[x][Main]
    BY <2>1, <2>2 DEF MainGoes, MainThread
  <2>3. CASE /\ thread[x][Main].pc = "copy"
             /\ thread'[x][Main] = [thread[x][Main] EXCEPT !.val = Garbage]
    <3>1. thread'[x][Main].pc = "copy" /\ thread'[x][Main].op = thread[x][Main].op
      BY <1>6, <2>1, <2>3 DEF Thread
    <3> QED  BY <2>1, <2>3, <3>1 DEF MainGoes, MainThread
  <2> QED  BY <1>2, <1>3, <1>6, <2>2, <2>3
<1> QED  BY <1>4, <1>5, <1>6

LEMMA SameMain ==
  ASSUME UNCHANGED <<thread, ip>>
  PROVE  \A x \in Node : MainGoes(x)
BY DEF MainGoes, MainThread

LEMMA SpawnMain ==
  ASSUME TypeOK, NEW n \in Node, ReceiveRequest(n)
  PROVE  \A x \in Node : MainGoes(x)
<1>1. PICK t \in Thread : /\ t.pc \in {"put", "get", "wag"}
                          /\ thread' = [thread EXCEPT ![n] = Append(@, t)]
  BY SpawnedThread
<1>2. \A x \in Node : \A j \in 1 .. Len(thread[x]) : thread'[x][j] = thread[x][j]
  BY <1>1, SpawnEffect
<1>3. \A x \in Node : MainThread(x)' = MainThread(x)
  BY <1>2, ThreadTypes DEF MainThread
<1> QED  BY <1>3 DEF MainGoes, ReceiveRequest

LEMMA MainGoesOn ==
  ASSUME TypeInv, [Next]_vars
  PROVE  UNCHANGED prog /\ \A x \in Node : MainGoes(x)
<1>1. TypeOK /\ \A m \in Node : Main \in 1 .. Len(thread[m])
  BY ThreadTypes DEF TypeInv
<1>2. ASSUME NEW n \in Node, NEW how, Die(n, how) PROVE UNCHANGED prog /\ \A x \in Node : MainGoes(x)
  BY <1>2, SameMain DEF Die
<1>3. {"ready", "store", "get", "poll", "copy", "send", "done"} \subseteq Pc
  BY DEF Pc
<1>4. ASSUME NEW n \in Node, MainStep(n) PROVE UNCHANGED prog /\ \A x \in Node : MainGoes(x)
  <2>1. CASE BeginLocal(n)
    <3>1. CurrentCall(n) \in Request /\ LocalEntry(CurrentCall(n)) \in Pc
      BY <2>1 DEF BeginLocal, LocalEntry, Request, Pc
    <3> QED  BY <1>1, <2>1, <3>1, StartMain DEF BeginLocal
  <2>2. CASE BeginRemote(n)
    <3>1. CurrentCall(n) \in Request /\ RemoteEntry(CurrentCall(n)) \in Pc
      BY <2>2 DEF BeginRemote, IsRemote, RemoteEntry, Request, Pc
    <3> QED  BY <1>1, <2>2, <3>1, StartMain DEF BeginRemote
  <2>3. CASE ReturnPut(n) \/ ReturnGet(n) \/ ReturnWag(n)
    <3>1. PICK v \in Data \cup {None} :
            /\ SetThread(n, Main, "ready", v) /\ ip' = [ip EXCEPT ![n] = @ + 1]
            /\ MainThread(n).pc # "ready" /\ UNCHANGED prog
      BY <1>1, <2>3 DEF ReturnPut, ReturnGet, ReturnWag, Complete, TypeOK
    <3>2. thread[n][Main].pc # "ready"
      BY <3>1 DEF MainThread
    <3> QED  BY <1>1, <1>3, <3>1, <3>2, SetThreadMain
  <2>4. CASE CallDone(n)
    <3>1. CASE Die(n, "crashed")
      BY <1>2, <3>1
    <3>2. CASE ip' = [ip EXCEPT ![n] = @ + 1] /\ UNCHANGED <<prog, thread>>
      <4>1. MainThread(n).pc = "ready" /\ ip \in [Node -> Nat \ {0}]
        BY <1>1, <2>4 DEF CallDone, HasCall, TypeOK
      <4> QED  BY <3>2, <4>1 DEF MainGoes, MainThread
    <3> QED  BY <2>4, <3>1, <3>2 DEF CallDone
  <2>5. CASE Finish(n)
    BY <1>2, <2>5 DEF Finish
  <2> QED  BY <1>4, <2>1, <2>2, <2>3, <2>4, <2>5 DEF MainStep
<1>5. ASSUME NEW n \in Node, NEW i \in 1 .. Len(thread[n]), ThreadStep(n, i)
      PROVE  UNCHANGED prog /\ \A x \in Node : MainGoes(x)
  <2>1. thread[n][i] \in Thread /\ ThreadOK(thread[n][i], i)
    BY <1>1, ThreadTypes DEF TypeInv, ThreadsOK
  <2>2. CASE PutStore(n, i)
    BY <2>2, PutStoreMain DEF PutStore
  <2>3. CASE PutLock(n, i) \/ MapContains(n, i)
    <3>1. PICK pc \in {"store", "get", "poll"} :
            /\ SetThread(n, i, pc, None) /\ thread[n][i].pc # "ready" /\ UNCHANGED <<prog, ip>>
      BY <2>3 DEF PutLock, MapContains, At
    <3> QED  BY <1>1, <1>3, <3>1, SetThreadMain
  <2>4. CASE GetLookup(n, i)
    <3>1. thread[n][i].op.key \in Key /\ thread[n][i].pc = "get"
      BY <2>1, <2>4 DEF GetLookup, At, ThreadOK, Request
    <3>2. map_[n][thread[n][i].op.key] \in Data \cup {None}
      BY <1>1, <3>1 DEF TypeOK, Data
    <3>3. /\ SetThread(n, i, "copy", map_[n][thread[n][i].op.key])
          /\ UNCHANGED <<prog, ip>>
      BY <2>4 DEF GetLookup
    <3> QED  BY <1>1, <1>3, <3>1, <3>2, <3>3, SetThreadMain
  <2>5. CASE GetCopy(n, i)
    <3>1. thread[n][i].val \in Data \cup {None} /\ thread[n][i].pc = "copy"
      BY <2>1, <2>5 DEF GetCopy, At, Thread
    <3>2. CASE Complete(n, i, thread[n][i].val) /\ UNCHANGED prog
      <4>1. PICK pc \in {"ready", "send"} :
              /\ pc = IF i = Main THEN "ready" ELSE "send"
              /\ SetThread(n, i, pc, thread[n][i].val)
              /\ ip' = IF i = Main /\ pc = "ready" THEN [ip EXCEPT ![n] = @ + 1] ELSE ip
        BY <3>2 DEF Complete
      <4> QED  BY <1>1, <1>3, <3>1, <3>2, <4>1, SetThreadMain
    <3> QED  BY <1>2, <2>5, <3>2 DEF GetCopy
  <2>6. CASE SendAnswer(n, i)
    <3>1. SetThread(n, i, "done", None) /\ thread[n][i].pc # "ready" /\ UNCHANGED <<prog, ip>>
      BY <2>6 DEF SendAnswer, At
    <3> QED  BY <1>1, <1>3, <3>1, SetThreadMain
  <2>7. CASE ContainsDuringGrow(n, i) \/ GetAssertFails(n, i)
    BY <1>2, <2>7 DEF ContainsDuringGrow, GetAssertFails
  <2> QED  BY <1>5, <2>2, <2>3, <2>4, <2>5, <2>6, <2>7 DEF ThreadStep
<1>6. ASSUME NEW n \in Node, MonitorStep(n) PROVE UNCHANGED prog /\ \A x \in Node : MainGoes(x)
  <2>1. CASE (\E m \in Node : Select(n, m)) \/ StopMonitor(n) \/ ReceiveEof(n)
             \/ ReceiveAck(n) \/ ReceiveReply(n)
    BY <2>1, SameMain DEF Select, StopMonitor, ReceiveEof, ReceiveAck, ReceiveReply
  <2>2. CASE ReceiveAfterShutdown(n)
    BY <1>2, <2>2, SameMain DEF ReceiveAfterShutdown
  <2>3. CASE ReceiveRequest(n)
    BY <1>1, <2>3, SpawnMain DEF ReceiveRequest
  <2> QED  BY <1>6, <2>1, <2>2, <2>3 DEF MonitorStep
<1>7. ASSUME NEW n \in Node, ExitStep(n) PROVE UNCHANGED prog /\ \A x \in Node : MainGoes(x)
  BY <1>2, <1>7 DEF ExitStep, ExitAfterShutdown, SendFails
<1>8. CASE UNCHANGED vars
  BY <1>8, SameMain DEF vars
<1> QED  BY <1>4, <1>5, <1>6, <1>7, <1>8 DEF Next

LEMMA CurrentStep ==
  ASSUME TypeOK, UNCHANGED prog, NEW x \in Node, MainGoes(x), CurrentOK(x)
  PROVE  CurrentOK(x)'
<1>1. ip[x] \in Nat \ {0} /\ prog[x] \in Seq(Call)
  BY ProgramsAssumption DEF TypeOK
<1>2. Len(prog[x]) \in Nat
  BY <1>1
<1>3. HasCall(x) => ip[x] \in 1 .. Len(prog[x]) /\ CurrentCall(x) = prog[x][ip[x]]
  BY <1>1, <1>2 DEF HasCall, CurrentCall
<1> QED  BY <1>3 DEF MainGoes, CurrentOK

-----------------------------------------------------------------------------
(* Nothing is put over a blob that is there.                               *)

PhasesMatch == \A x \in Node : CallOf(x).phase = "idle" <=> MainThread(x).pc = "ready"

LEMMA PhaseIdle == WhereInv => PhasesMatch
<1> SUFFICES ASSUME WhereInv, NEW x \in Node
             PROVE  CallOf(x).phase = "idle" <=> MainThread(x).pc = "ready"
  BY DEF PhasesMatch
<1>0. WhereOK(x)
  BY DEF WhereInv
<1>1. CASE MainThread(x).pc = "ready"
  BY <1>0, <1>1 DEF WhereOK, CallIs
<1>2. CASE MainThread(x).pc # "ready" /\ ~InCall(x)
  <2>1. Shows(x, MainThread(x))
    BY <1>0, <1>2 DEF WhereOK, InCall
  <2> QED  BY <1>2, <2>1 DEF Shows, CallIs
<1>3. CASE MainThread(x).pc # "ready" /\ InCall(x)
  <2>1. \E v : CallIs(x, "applied", v) \/ CallIs(x, "pending", v) \/ CallIs(x, "lost", v)
    BY <1>0, <1>3 DEF WhereOK, Idle, Shows
  <2> QED  BY <1>3, <2>1 DEF CallIs
<1> QED  BY <1>1, <1>2, <1>3

(* The call that a thread is at work on is its owner's current one.        *)
LEMMA WorkIsCurrent ==
  ASSUME StepInv, OnceInv, NEW n \in Node, NEW i \in 1 .. Len(thread[n]),
         AtWork(thread[n][i]), ~Applied(thread[n][i])
  PROVE  \E x \in Node : /\ x = Owner(n, i)
                         /\ ip[x] \in 1 .. Len(prog[x]) /\ prog[x][ip[x]] = thread[n][i].op
                         /\ CallOf(x).phase = "pending"
<1>1. PICK x \in Node : x = Owner(n, i) /\ CallOf(x) = CallIn(thread[n][i])
  BY DEF StepInv, WorkInv, WorkOK
<1>2. CallOf(x).phase = "pending" /\ CallOf(x).op = thread[n][i].op
  BY <1>1 DEF CallIn
<1>3. MainThread(x).pc # "ready"
  <2>1. PhasesMatch
    BY PhaseIdle DEF StepInv
  <2> QED  BY <1>2, <2>1 DEF PhasesMatch
<1>4. ip[x] \in 1 .. Len(prog[x]) /\ MainThread(x).op = prog[x][ip[x]]
  BY <1>3 DEF OnceInv, CurrentOK
<1>5. CallOf(x).op = MainThread(x).op
  BY DEF CallOf
<1> QED  BY <1>1, <1>2, <1>4, <1>5

LEMMA FirstPut ==
  ASSUME StepInv, OnceInv, Disciplined, NEW n \in Node, NEW i \in 1 .. Len(thread[n]),
         thread[n][i].pc = "store"
  PROVE  map_[n][thread[n][i].op.key] = None
<1>1. TypeOK /\ ThreadOK(thread[n][i], i)
  BY DEF StepInv, TypeInv, ThreadsOK
<1>2. AtWork(thread[n][i]) /\ ~Applied(thread[n][i])
  BY DEF AtWork, Applied, Waiting
<1>3. PICK k \in Key : /\ k = thread[n][i].op.key /\ thread[n][i].op.kind = "Put" /\ Home[k] = n
  <2>1. thread[n][i].op \in Request /\ thread[n][i].op.kind = "Put"
    BY <1>1 DEF ThreadOK
  <2>2. Home[thread[n][i].op.key] = n
    BY <1>2 DEF StepInv, WorkInv, WorkOK
  <2> QED  BY <2>1, <2>2 DEF Request
<1>4. PICK x \in Node : /\ ip[x] \in 1 .. Len(prog[x]) /\ prog[x][ip[x]] = thread[n][i].op
                        /\ CallOf(x).phase = "pending"
  BY <1>2, WorkIsCurrent
<1> SUFFICES ASSUME map_[Home[k]][k] # None PROVE FALSE
  BY <1>3
<1>5. PICK y \in Node, j \in Nat : IsPutOf(y, j, k) /\ Past(y, j)
  BY DEF OnceInv, PutInv
<1>6. y = x /\ j = ip[x]
  <2>1. prog \in Programs /\ WriteOnce(prog) /\ DOMAIN prog = Node
    BY <1>1, ProgramsAssumption DEF TypeOK, Disciplined
  <2>2. \A z \in Node : prog[z] \in Seq(Call)
    BY <2>1, ProgramsAssumption
  <2>3. DOMAIN prog[x] = 1 .. Len(prog[x]) /\ DOMAIN prog[y] = 1 .. Len(prog[y])
    BY <2>2
  <2> QED  BY <1>3, <1>4, <1>5, <2>1, <2>3 DEF WriteOnce, IsPutOf
<1>7. ip[x] \in Nat
  BY <1>1 DEF TypeOK
<1> QED  BY <1>4, <1>5, <1>6, <1>7 DEF Past

-----------------------------------------------------------------------------
(* So no thread is left with a dangling pointer.                           *)

LEMMA GarbageReplace ==
  ASSUME TypeOK, NoGarbage, NEW n \in Node, NEW i \in 1 .. Len(thread[n]), NEW t \in Thread,
         Replaces(n, i, t), t.pc = "copy" => t.val # Garbage
  PROVE  NoGarbage'
<1>1. /\ \A m \in Node : Len(thread'[m]) = Len(thread[m])
      /\ \A m \in Node : \A j \in 1 .. Len(thread[m]) :
           thread'[m][j] = IF m = n /\ j = i THEN t ELSE thread[m][j]
  BY UpdateEffect
<1> QED  BY <1>1 DEF NoGarbage

LEMMA GarbageSetThread ==
  ASSUME TypeOK, NoGarbage, NEW n \in Node, NEW i \in 1 .. Len(thread[n]),
         NEW pc \in Pc, NEW val \in Data \cup {None}, SetThread(n, i, pc, val),
         pc = "copy" => val # Garbage
  PROVE  NoGarbage'
<1>1. PICK t \in Thread : t.pc = pc /\ t.val = val /\ Replaces(n, i, t)
  BY SetThreadRecord
<1> QED  BY <1>1, GarbageReplace

LEMMA GarbageUnchanged ==
  ASSUME NoGarbage, UNCHANGED thread
  PROVE  NoGarbage'
BY DEF NoGarbage

LEMMA GarbagePutStore ==
  ASSUME StepInv, OnceInv, Disciplined, NEW n \in Node, NEW i \in 1 .. Len(thread[n]),
         PutStore(n, i)
  PROVE  NoGarbage'
<1>1. TypeOK /\ thread[n][i].pc = "store" /\ map_[n][thread[n][i].op.key] = None
  BY FirstPut DEF StepInv, TypeInv, PutStore, At
<1>2. thread' = [thread EXCEPT ![n] = [j \in 1 .. Len(thread[n]) |->
                   IF j = i
                   THEN [thread[n][i] EXCEPT !.pc = IF i = Main THEN "ready" ELSE "send"]
                   ELSE thread[n][j]]]
  BY <1>1 DEF PutStore
<1>3. /\ \A m \in Node : Len(thread'[m]) = Len(thread[m])
      /\ \A m \in Node : m # n => thread'[m] = thread[m]
      /\ thread'[n][i] = [thread[n][i] EXCEPT !.pc = IF i = Main THEN "ready" ELSE "send"]
  BY <1>1, PutStoreEffect
<1>4. \A j \in 1 .. Len(thread[n]) : j # i => thread'[n][j] = thread[n][j]
  BY <1>1, <1>2 DEF TypeOK
<1>5. thread'[n][i].pc # "copy"
  <2>1. thread[n][i] \in Thread
    BY <1>1, ThreadTypes
  <2> QED  BY <1>3, <2>1 DEF Thread
<1>6. ASSUME NEW m \in Node, NEW j \in 1 .. Len(thread'[m]), thread'[m][j].pc = "copy"
      PROVE  thread'[m][j].val # Garbage
  <2>1. j \in 1 .. Len(thread[m]) /\ thread'[m][j] = thread[m][j]
    BY <1>3, <1>4, <1>5, <1>6
  <2> QED  BY <1>6, <2>1 DEF OnceInv, NoGarbage
<1> QED  BY <1>6 DEF NoGarbage

LEMMA GarbageStep ==
  ASSUME StepInv, OnceInv, Disciplined, [Next]_vars
  PROVE  NoGarbage'
<1>1. TypeInv /\ TypeOK /\ NoGarbage /\ \A m \in Node : Main \in 1 .. Len(thread[m])
  BY ThreadTypes DEF StepInv, TypeInv, OnceInv
<1>2. ASSUME NEW n \in Node, NEW how, Die(n, how) PROVE NoGarbage'
  BY <1>1, <1>2, GarbageUnchanged DEF Die
<1>3. {"ready", "store", "get", "poll", "copy", "send", "done"} \subseteq Pc
  BY DEF Pc
<1>4. ASSUME NEW n \in Node, MainStep(n) PROVE NoGarbage'
  <2>1. CASE BeginLocal(n) \/ BeginRemote(n)
    <3>1. PICK pc \in Pc \ {"copy"} : CurrentCall(n) \in Call /\ StartCall(n, pc)
      <4>1. CASE BeginLocal(n)
        <5>1. CurrentCall(n) \in Request /\ LocalEntry(CurrentCall(n)) \in Pc \ {"copy"}
          BY <4>1 DEF BeginLocal, LocalEntry, Request, Pc
        <5> QED  BY <4>1, <5>1 DEF BeginLocal, Call
      <4>2. CASE BeginRemote(n)
        <5>1. CurrentCall(n) \in Request /\ RemoteEntry(CurrentCall(n)) \in Pc \ {"copy"}
          BY <4>2 DEF BeginRemote, IsRemote, RemoteEntry, Request, Pc
        <5> QED  BY <4>2, <5>1 DEF BeginRemote, Call
      <4> QED  BY <2>1, <4>1, <4>2
    <3>2. PICK t \in Thread : t.pc = pc /\ Replaces(n, Main, t)
      <4> DEFINE t0 == [thread[n][Main] EXCEPT !.pc = pc, !.op = CurrentCall(n)]
      <4>1. t0 \in Thread /\ t0.pc = pc /\ Replaces(n, Main, t0)
        BY <1>1, <3>1, StartCallEffect
      <4> HIDE DEF t0
      <4> QED  BY <4>1
    <3> QED  BY <1>1, <3>2, GarbageReplace
  <2>2. CASE ReturnPut(n) \/ ReturnGet(n) \/ ReturnWag(n)
    <3>1. PICK v \in Data \cup {None} : SetThread(n, Main, "ready", v)
      BY <1>1, <2>2 DEF ReturnPut, ReturnGet, ReturnWag, Complete, TypeOK
    <3> QED  BY <1>1, <1>3, <3>1, GarbageSetThread
  <2>3. CASE CallDone(n) \/ Finish(n)
    BY <1>1, <1>2, <2>3, GarbageUnchanged DEF CallDone, Finish
  <2> QED  BY <1>4, <2>1, <2>2, <2>3 DEF MainStep
<1>5. ASSUME NEW n \in Node, NEW i \in 1 .. Len(thread[n]), ThreadStep(n, i) PROVE NoGarbage'
  <2>1. thread[n][i] \in Thread /\ ThreadOK(thread[n][i], i)
    BY <1>1, ThreadTypes DEF TypeInv, ThreadsOK
  <2>2. CASE PutStore(n, i)
    BY <2>2, GarbagePutStore
  <2>3. CASE PutLock(n, i) \/ MapContains(n, i)
    <3>1. PICK pc \in {"store", "get", "poll"} : SetThread(n, i, pc, None)
      BY <2>3 DEF PutLock, MapContains
    <3> QED  BY <1>1, <1>3, <3>1, GarbageSetThread
  <2>4. CASE GetLookup(n, i)
    <3>1. thread[n][i].op.key \in Key
      BY <2>1, <2>4 DEF GetLookup, At, ThreadOK, Request
    <3>2. map_[n][thread[n][i].op.key] \in Value \cup {None}
      BY <1>1, <3>1 DEF TypeOK
    <3>3. /\ map_[n][thread[n][i].op.key] \in Data \cup {None}
          /\ map_[n][thread[n][i].op.key] # Garbage
      BY <3>2, GarbageAssumption DEF Data
    <3>4. SetThread(n, i, "copy", map_[n][thread[n][i].op.key])
      BY <2>4 DEF GetLookup
    <3> QED  BY <1>1, <1>3, <3>3, <3>4, GarbageSetThread
  <2>5. CASE GetCopy(n, i)
    <3>1. thread[n][i].val \in Data \cup {None}
      BY <2>1 DEF Thread
    <3>2. CASE Complete(n, i, thread[n][i].val)
      <4>1. PICK pc \in {"ready", "send"} : SetThread(n, i, pc, thread[n][i].val)
        BY <3>2 DEF Complete
      <4> QED  BY <1>1, <1>3, <3>1, <4>1, GarbageSetThread
    <3> QED  BY <1>2, <2>5, <3>2 DEF GetCopy
  <2>6. CASE SendAnswer(n, i)
    <3>1. SetThread(n, i, "done", None)
      BY <2>6 DEF SendAnswer
    <3> QED  BY <1>1, <1>3, <3>1, GarbageSetThread
  <2>7. CASE ContainsDuringGrow(n, i) \/ GetAssertFails(n, i)
    BY <1>2, <2>7 DEF ContainsDuringGrow, GetAssertFails
  <2> QED  BY <1>5, <2>2, <2>3, <2>4, <2>5, <2>6, <2>7 DEF ThreadStep
<1>6. ASSUME NEW n \in Node, ReceiveRequest(n) PROVE NoGarbage'
  <2>1. PICK t \in Thread : /\ t.pc \in {"put", "get", "wag"}
                            /\ thread' = [thread EXCEPT ![n] = Append(@, t)]
    BY <1>1, <1>6, SpawnedThread
  <2>2. /\ \A m \in Node : Len(thread'[m]) = IF m = n THEN Len(thread[m]) + 1 ELSE Len(thread[m])
        /\ \A m \in Node : \A j \in 1 .. Len(thread[m]) : thread'[m][j] = thread[m][j]
        /\ thread'[n][Len(thread[n]) + 1] = t
    BY <1>1, <2>1, SpawnEffect
  <2>3. ASSUME NEW m \in Node, NEW j \in 1 .. Len(thread'[m]), thread'[m][j].pc = "copy"
        PROVE  thread'[m][j].val # Garbage
    <3>1. Len(thread[m]) \in Nat
      BY <1>1, ThreadTypes
    <3>2. j \in 1 .. Len(thread[m])
      BY <2>1, <2>2, <2>3, <3>1
    <3> QED  BY <1>1, <2>2, <2>3, <3>2 DEF NoGarbage
  <2> QED  BY <2>3 DEF NoGarbage
<1>7. ASSUME NEW n \in Node, MonitorStep(n) PROVE NoGarbage'
  <2>1. CASE (\E m \in Node : Select(n, m)) \/ StopMonitor(n) \/ ReceiveEof(n)
             \/ ReceiveAck(n) \/ ReceiveReply(n)
    BY <1>1, <2>1, GarbageUnchanged DEF Select, StopMonitor, ReceiveEof, ReceiveAck, ReceiveReply
  <2>2. CASE ReceiveAfterShutdown(n)
    BY <1>1, <1>2, <2>2, GarbageUnchanged DEF ReceiveAfterShutdown
  <2> QED  BY <1>6, <1>7, <2>1, <2>2 DEF MonitorStep
<1>8. ASSUME NEW n \in Node, ExitStep(n) PROVE NoGarbage'
  BY <1>2, <1>8 DEF ExitStep, ExitAfterShutdown, SendFails
<1>9. CASE UNCHANGED vars
  BY <1>1, <1>9, GarbageUnchanged DEF vars
<1> QED  BY <1>4, <1>5, <1>7, <1>8, <1>9 DEF Next

-----------------------------------------------------------------------------
(* A call that has had its effect keeps its place among the past ones.     *)

LEMMA PhaseKept ==
  ASSUME PromiseStep, NEW x \in Node, CallOf(x).phase \in {"applied", "lost"}
  PROVE  CallOf(x)'.phase \in {"applied", "lost", "idle"}
<1>1. Calls[x] = CallOf(x) /\ Calls'[x] = CallOf(x)'
  BY DEF Calls
<1>2. CASE UNCHANGED <<Store, Calls>>
  BY <1>1, <1>2
<1>3. ASSUME NEW n \in Node, NEW c, Calls' = [Calls EXCEPT ![n] = c],
             n = x => c.phase \in {"applied", "lost", "idle"}
      PROVE  CallOf(x)'.phase \in {"applied", "lost", "idle"}
  BY <1>1, <1>3 DEF Calls
<1>4. ASSUME NEW n \in Node, NEW op, Promise!Invoke(n, op)
      PROVE  CallOf(x)'.phase \in {"applied", "lost", "idle"}
  BY <1>1, <1>4 DEF Promise!Invoke, Calls
<1>5. ASSUME NEW n \in Node, NEW phase, Promise!Effect(n, phase)
      PROVE  CallOf(x)'.phase \in {"applied", "lost", "idle"}
  BY <1>1, <1>5 DEF Promise!Effect, Calls
<1>6. ASSUME NEW n \in Node, Promise!Return(n)
      PROVE  CallOf(x)'.phase \in {"applied", "lost", "idle"}
  <2>1. Calls' = [Calls EXCEPT ![n] = [CallOf(n) EXCEPT !.phase = "idle"]]
    BY <1>6 DEF Promise!Return, Calls
  <2>2. [CallOf(n) EXCEPT !.phase = "idle"].phase = "idle"
    BY DEF CallOf
  <2> QED  BY <1>3, <2>1, <2>2
<1>7. ASSUME NEW n \in Node, Promise!Lose(n)
      PROVE  CallOf(x)'.phase \in {"applied", "lost", "idle"}
  <2>1. Calls' = [Calls EXCEPT ![n] = [phase |-> "lost", op |-> Calls[n].op, val |-> None]]
    BY <1>7 DEF Promise!Lose
  <2> QED  BY <1>3, <2>1
<1> QED  BY <1>2, <1>4, <1>5, <1>6, <1>7
         DEF PromiseStep, Promise!SpecNext, Promise!Apply, Promise!ApplyAndReturn

LEMMA PastGoesOn ==
  ASSUME TypeOK, PromiseStep, PhasesMatch, PhasesMatch', NEW x \in Node, MainGoes(x),
         NEW j \in Nat, Past(x, j)
  PROVE  Past(x, j)'
<1>1. ip[x] \in Nat /\ (ip'[x] = ip[x] \/ ip'[x] = ip[x] + 1)
  BY DEF TypeOK, MainGoes
<1>2. CASE ip'[x] = ip[x] + 1
  BY <1>1, <1>2 DEF Past
<1>3. CASE ip'[x] = ip[x] /\ CallOf(x).phase \in {"applied", "lost"}
  <2>1. MainThread(x).pc # "ready"
    BY <1>3 DEF PhasesMatch
  <2>2. MainThread(x)'.pc # "ready"
    BY <1>1, <1>3, <2>1 DEF MainGoes
  <2>3. CallOf(x)'.phase # "idle"
    BY <2>2 DEF PhasesMatch
  <2>4. CallOf(x)'.phase \in {"applied", "lost"}
    BY <1>3, <2>3, PhaseKept
  <2> QED  BY <1>1, <1>3, <2>4 DEF Past
<1>4. CASE ip'[x] = ip[x] /\ j < ip[x]
  BY <1>4 DEF Past
<1> QED  BY <1>1, <1>2, <1>3, <1>4 DEF Past

LEMMA MapEffect ==
  ASSUME [Next]_vars
  PROVE  \/ UNCHANGED map_
         \/ \E n \in Node : \E i \in 1 .. Len(thread[n]) : PutStore(n, i)
<1>1. CASE UNCHANGED vars
  BY <1>1 DEF vars, mapVars
<1>2. ASSUME NEW n \in Node, MainStep(n) PROVE UNCHANGED map_
  BY <1>2 DEF MainStep, BeginLocal, BeginRemote, ReturnPut, ReturnGet, ReturnWag, CallDone,
              Finish, Die, mapVars
<1>3. ASSUME NEW n \in Node, NEW i \in 1 .. Len(thread[n]), ThreadStep(n, i)
      PROVE  UNCHANGED map_ \/ PutStore(n, i)
  BY <1>3 DEF ThreadStep, PutLock, MapContains, ContainsDuringGrow, GetLookup, GetAssertFails,
              GetCopy, SendAnswer, Die, mapVars
<1>4. ASSUME NEW n \in Node, MonitorStep(n) PROVE UNCHANGED map_
  BY <1>4 DEF MonitorStep, Select, StopMonitor, ReceiveAck, ReceiveReply, ReceiveRequest,
              ReceiveEof, ReceiveAfterShutdown, Die, mapVars
<1>5. ASSUME NEW n \in Node, ExitStep(n) PROVE UNCHANGED map_
  BY <1>5 DEF ExitStep, ExitAfterShutdown, SendFails, Die, mapVars
<1> QED  BY <1>1, <1>2, <1>3, <1>4, <1>5 DEF Next

(* The put that a thread executes is past once the blob is stored.         *)
LEMMA StorePast ==
  ASSUME StepInv, StepInv', OnceInv, UNCHANGED prog, NEW n \in Node, NEW i \in 1 .. Len(thread[n]),
         PutStore(n, i), NEW k, k = thread[n][i].op.key
  PROVE  \E x \in Node : \E j \in Nat : IsPutOf(x, j, k)' /\ Past(x, j)'
<1>1. TypeOK /\ thread[n][i].pc = "store" /\ thread[n][i] \in Thread /\ ThreadOK(thread[n][i], i)
  BY ThreadTypes DEF StepInv, TypeInv, ThreadsOK, PutStore, At
<1>2. AtWork(thread[n][i]) /\ ~Applied(thread[n][i]) /\ thread[n][i].op.kind = "Put"
  BY <1>1 DEF AtWork, Applied, Waiting, ThreadOK
<1>3. PICK x \in Node : /\ x = Owner(n, i)
                        /\ ip[x] \in 1 .. Len(prog[x]) /\ prog[x][ip[x]] = thread[n][i].op
  BY <1>2, WorkIsCurrent
<1>4. PICK j \in Nat : j = ip[x] /\ IsPutOf(x, j, k)
  BY <1>2, <1>3 DEF IsPutOf
<1>5. IsPutOf(x, j, k)'
  BY <1>4 DEF IsPutOf
<1>6. Past(x, j)'
  <2>1. ip \in [Node -> Nat \ {0}] /\ ip' = IF i = Main THEN [ip EXCEPT ![n] = @ + 1] ELSE ip
    BY <1>1 DEF TypeOK, PutStore
  <2>2. CASE i = Main
    BY <1>3, <1>4, <2>1, <2>2 DEF Past, Owner
  <2>3. CASE i # Main
    <3>1. /\ Len(thread'[n]) = Len(thread[n])
          /\ thread'[n][i] = [thread[n][i] EXCEPT !.pc = "send"]
      BY <1>1, <2>3, PutStoreEffect
    <3>2. thread'[n][i].pc = "send" /\ thread'[n][i].from = x
      BY <1>1, <1>3, <2>3, <3>1 DEF Thread, Owner
    <3>3. AtWork(thread[n][i])' /\ Applied(thread[n][i])' /\ Owner(n, i)' = x
      BY <2>3, <3>2 DEF AtWork, Applied, Waiting, Owner
    <3>4. WorkOK(n, i)'
      BY <3>1 DEF StepInv, WorkInv
    <3>5. PICK c : c = CallOf(x)' /\ c = CallIn(thread[n][i])'
      <4>1. \A y \in Node : Owner(n, i)' = y => CallOf(y)' = CallIn(thread[n][i])'
        BY <3>3, <3>4 DEF WorkOK
      <4> QED  BY <3>3, <4>1
    <3>6. CallOf(x)'.phase = "applied"
      BY <3>3, <3>5 DEF CallIn
    <3> QED  BY <1>4, <2>1, <2>3, <3>6 DEF Past
  <2> QED  BY <2>2, <2>3
<1> QED  BY <1>4, <1>5, <1>6

LEMMA PutInvStep ==
  ASSUME StepInv, StepInv', PhasesMatch, PhasesMatch', OnceInv, PromiseStep, UNCHANGED prog,
         \A x \in Node : MainGoes(x), [Next]_vars
  PROVE  PutInv'
<1>1. TypeOK
  BY DEF StepInv, TypeInv
<1>2. ASSUME NEW x \in Node, NEW j \in Nat, NEW k \in Key, IsPutOf(x, j, k), Past(x, j)
      PROVE  IsPutOf(x, j, k)' /\ Past(x, j)'
  BY <1>1, <1>2, PastGoesOn DEF IsPutOf
<1>3. ASSUME NEW k \in Key, map_[Home[k]][k] # None
      PROVE  \E x \in Node : \E j \in Nat : IsPutOf(x, j, k)' /\ Past(x, j)'
  BY <1>2, <1>3 DEF OnceInv, PutInv
<1>4. ASSUME NEW k \in Key, map_'[Home[k]][k] # None, map_[Home[k]][k] = None
      PROVE  \E x \in Node : \E j \in Nat : IsPutOf(x, j, k)' /\ Past(x, j)'
  <2>1. PICK n \in Node : \E i \in 1 .. Len(thread[n]) : PutStore(n, i)
    BY <1>4, MapEffect
  <2>2. PICK i \in 1 .. Len(thread[n]) : PutStore(n, i)
    BY <2>1
  <2>3. map_' = [map_ EXCEPT ![n][thread[n][i].op.key] = thread[n][i].op.val]
    BY <2>2 DEF PutStore
  <2>4. k = thread[n][i].op.key
    BY <1>1, <1>4, <2>3, HomeAssumption DEF TypeOK
  <2> QED  BY <2>2, <2>4, StorePast
<1> QED  BY <1>3, <1>4 DEF PutInv

LEMMA OnceInvStep ==
  ASSUME LossAllowed, Disciplined, StepInv, StepInv', OnceInv, [Next]_vars
  PROVE  OnceInv'
<1>1. TypeInv /\ TypeOK
  BY DEF StepInv, TypeInv
<1>2. UNCHANGED prog /\ \A x \in Node : MainGoes(x)
  BY <1>1, MainGoesOn
<1>3. NoGarbage'
  BY GarbageStep
<1>4. PromiseStep
  BY <1>3, NextRefines
<1>5. PhasesMatch /\ PhasesMatch'
  <2>1. WhereInv /\ WhereInv'
    BY DEF StepInv
  <2> QED  BY <2>1, PhaseIdle, PTL
<1>6. PutInv'
  BY <1>2, <1>4, <1>5, PutInvStep
<1>7. \A n \in Node : CurrentOK(n)'
  BY <1>1, <1>2, CurrentStep DEF OnceInv
<1> QED  BY <1>3, <1>6, <1>7 DEF OnceInv

LEMMA InitOnceInv == Init => OnceInv
<1> SUFFICES ASSUME Init PROVE OnceInv
  OBVIOUS
<1>1. ASSUME NEW n \in Node
      PROVE  thread[n] = <<[pc |-> "ready", op |-> Done, from |-> n, val |-> None]>>
  BY DEF Init
<1>2. ASSUME NEW n \in Node, NEW i \in 1 .. Len(thread[n]) PROVE thread[n][i].pc = "ready"
  <2>1. thread[n] = <<[pc |-> "ready", op |-> Done, from |-> n, val |-> None]>>
    BY <1>1
  <2> QED  BY <2>1
<1>3. \A n \in Node : CurrentOK(n)
  <2>1. ASSUME NEW n \in Node PROVE MainThread(n).pc = "ready"
    <3>1. thread[n] = <<[pc |-> "ready", op |-> Done, from |-> n, val |-> None]>>
      BY <1>1
    <3> QED  BY <3>1 DEF MainThread, Main
  <2> QED  BY <2>1 DEF CurrentOK
<1>4. PutInv
  BY HomeAssumption DEF Init, PutInv
<1>5. NoGarbage
  BY <1>2 DEF NoGarbage
<1> QED  BY <1>3, <1>4, <1>5 DEF OnceInv

(* In applications that put every key at most once, as the demos do, get   *)
(* never clones a blob that a put has freed (kvstore.h:138-142).           *)
THEOREM NoDanglingPointer ==
  ASSUME LossAllowed, Disciplined
  PROVE  Spec => []NoGarbage
<1>1. StepInv /\ StepInv' /\ OnceInv /\ [Next]_vars => OnceInv'
  BY OnceInvStep
<1>2. Spec => []OnceInv
  BY <1>1, InitOnceInv, StepInvariant, PTL DEF Spec
<1>3. OnceInv => NoGarbage
  BY DEF OnceInv
<1> QED  BY <1>2, <1>3, PTL

(* Such applications use one map that all nodes share, on which every call *)
(* takes effect at one instant, whatever happens (report/doc.md:39-51).    *)
THEOREM PromiseKeptOnce ==
  ASSUME LossAllowed, Disciplined
  PROVE  Spec => ImplementsPromise
BY PromiseKept, NoDanglingPointer, PTL

-----------------------------------------------------------------------------
(***************************************************************************)
(* Applications that put every key at most once, get no key before it is   *)
(* there and leave the stores up, and whose keys fit in the maps: no       *)
(* process of theirs fails.                                                *)
(***************************************************************************)

Cooperative == \A p \in Programs : StaysUp(p) /\ GetsFollow(p)

KeysOf(n) == {k \in Key : Home[k] = n}

MapsFit == \A n \in Node : IsFiniteSet(KeysOf(n)) /\ Cardinality(KeysOf(n)) <= InitCapacity

(* A node has the keys whose home it is, and no others.                    *)
AtHome == \A n \in Node, k \in Key : map_[n][k] # None => Home[k] = n

Held(k) == map_[Home[k]][k] # None

(* What a call is about is in the store once the call has had its effect.  *)
HeldInv == \A x \in Node :
  /\ CallOf(x).phase = "applied" => Held(CallOf(x).op.key)
  /\ \A j \in 1 .. Len(prog[x]) : j < ip[x] => Held(prog[x][j].key)

(* wait_and_get calls get for a key that it has found.                     *)
FoundIn(map, n, t) == t.pc = "get" /\ t.op.kind = "WaitAndGet" => map[n][t.op.key] # None

FoundInv == \A n \in Node : \A i \in 1 .. Len(thread[n]) : FoundIn(map_, n, thread[n][i])

(* Nodes are up, and the monitor reads only where there is something.      *)
UpInv == \A n \in Node :
  /\ status[n] = "running" /\ ~has_shutdown[n]
  /\ monitor[n].pc # "stopped"
  /\ monitor[n].pc = "recv" => wire[monitor[n].from][n] # <<>>
  /\ capacity_[n] >= InitCapacity

(* The inductive invariant.                                                *)
AllUpInv == StepInv /\ OnceInv /\ MutexInv /\ AtHome /\ HeldInv /\ FoundInv /\ UpInv

LEMMA MapOnlyGrows ==
  ASSUME StepInv, [Next]_vars
  PROVE  MapGrows /\ (AtHome => AtHome')
<1>1. TypeOK
  BY DEF StepInv, TypeInv
<1>2. CASE UNCHANGED map_
  BY <1>2 DEF MapGrows, AtHome
<1>3. ASSUME NEW n \in Node, NEW i \in 1 .. Len(thread[n]), PutStore(n, i)
      PROVE  MapGrows /\ (AtHome => AtHome')
  <2>1. ThreadOK(thread[n][i], i) /\ thread[n][i].pc = "store"
    BY <1>3 DEF StepInv, TypeInv, ThreadsOK, PutStore, At
  <2>2. AtWork(thread[n][i])
    BY <2>1 DEF AtWork, Waiting
  <2>3. Home[thread[n][i].op.key] = n
    BY <2>2 DEF StepInv, WorkInv, WorkOK
  <2>4. PICK k, v : k = thread[n][i].op.key /\ v = thread[n][i].op.val
    OBVIOUS
  <2>5. k \in Key /\ v # None
    BY <2>1, <2>4, NoneAssumption DEF ThreadOK, Request
  <2>6. map_' = [map_ EXCEPT ![n][k] = v]
    BY <1>3, <2>4 DEF PutStore
  <2>7. \A m \in Node, l \in Key : map_'[m][l] = IF m = n /\ l = k THEN v ELSE map_[m][l]
    BY <1>1, <2>5, <2>6 DEF TypeOK
  <2> QED  BY <2>3, <2>4, <2>5, <2>7 DEF MapGrows, AtHome
<1> QED  BY <1>2, <1>3, MapEffect

(* A call of x that is over, or has had its effect, had it before or has   *)
(* it now.                                                                 *)
Takes(x) == IF CallOf(x).op.kind = "Put"
            THEN Store' = [Store EXCEPT ![CallOf(x).op.key] = CallOf(x).op.val]
            ELSE Store[CallOf(x).op.key] # None

Effective(x) == \/ CallOf(x)'.phase = "applied"
                \/ CallOf(x).phase # "idle" /\ CallOf(x)'.phase = "idle"

LEMMA EffectSeen ==
  ASSUME PromiseStep, NEW x \in Node, Effective(x)
  PROVE  /\ CallOf(x)'.op = CallOf(x).op
         /\ \/ CallOf(x).phase = "applied"
            \/ CallOf(x).phase = "pending" /\ Takes(x)
<1>1. Calls[x] = CallOf(x) /\ Calls'[x] = CallOf(x)' /\ Calls = [y \in Node |-> CallOf(y)]
  BY DEF Calls
<1>2. CASE UNCHANGED <<Store, Calls>>
  BY <1>1, <1>2 DEF Effective
<1>3. ASSUME NEW n \in Node, NEW c, Calls' = [Calls EXCEPT ![n] = c]
      PROVE  CallOf(x)' = IF x = n THEN c ELSE CallOf(x)
  BY <1>1, <1>3 DEF Calls
<1>4. ASSUME NEW n \in Node, NEW op, Promise!Invoke(n, op)
      PROVE  x # n /\ CallOf(x)' = CallOf(x)
  <2>1. CallOf(x)' = IF x = n THEN [phase |-> "pending", op |-> op, val |-> None] ELSE CallOf(x)
    BY <1>3, <1>4 DEF Promise!Invoke
  <2> QED  BY <2>1 DEF Effective
<1>5. ASSUME NEW n \in Node, NEW phase, Promise!Effect(n, phase)
      PROVE  \/ x # n /\ CallOf(x)' = CallOf(x)
             \/ CallOf(x)'.op = CallOf(x).op /\ CallOf(x).phase = "pending" /\ Takes(x)
  <2>1. CallOf(n).phase = "pending" /\ Calls[n] = CallOf(n)
    BY <1>1, <1>5 DEF Promise!Effect, Calls
  <2>2. CASE CallOf(n).op.kind = "Put"
    <3>1. /\ Store' = [Store EXCEPT ![CallOf(n).op.key] = CallOf(n).op.val]
          /\ Calls' = [Calls EXCEPT ![n] = [CallOf(n) EXCEPT !.phase = phase]]
      BY <1>5, <2>1, <2>2 DEF Promise!Effect, Calls
    <3>2. CallOf(x)' = IF x = n THEN [CallOf(n) EXCEPT !.phase = phase] ELSE CallOf(x)
      BY <1>3, <3>1
    <3>3. [CallOf(n) EXCEPT !.phase = phase].op = CallOf(n).op
      BY DEF CallOf
    <3> QED  BY <2>1, <2>2, <3>1, <3>2, <3>3 DEF Takes
  <2>3. CASE CallOf(n).op.kind # "Put"
    <3>1. /\ Store[CallOf(n).op.key] # None
          /\ Calls' = [Calls EXCEPT ![n] = [phase |-> phase, op |-> CallOf(n).op,
                                            val |-> Store[CallOf(n).op.key]]]
      BY <1>5, <2>1, <2>3 DEF Promise!Effect
    <3>2. CallOf(x)' = IF x = n THEN [phase |-> phase, op |-> CallOf(n).op,
                                      val |-> Store[CallOf(n).op.key]] ELSE CallOf(x)
      BY <1>3, <3>1
    <3> QED  BY <2>1, <2>3, <3>1, <3>2 DEF Takes
  <2> QED  BY <2>2, <2>3
<1>6. ASSUME NEW n \in Node, Promise!Return(n)
      PROVE  \/ x # n /\ CallOf(x)' = CallOf(x)
             \/ CallOf(x)'.op = CallOf(x).op /\ CallOf(x).phase = "applied"
  <2>1. Calls' = [Calls EXCEPT ![n] = [CallOf(n) EXCEPT !.phase = "idle"]] /\ CallOf(n).phase = "applied"
    BY <1>6 DEF Promise!Return, Calls
  <2>2. [CallOf(n) EXCEPT !.phase = "idle"].op = CallOf(n).op
    BY DEF CallOf
  <2>3. CallOf(x)' = IF x = n THEN [CallOf(n) EXCEPT !.phase = "idle"] ELSE CallOf(x)
    BY <1>3, <2>1
  <2> QED  BY <2>1, <2>2, <2>3
<1>7. ASSUME NEW n \in Node, Promise!Lose(n)
      PROVE  x # n /\ CallOf(x)' = CallOf(x)
  <2>1. Calls' = [Calls EXCEPT ![n] = [phase |-> "lost", op |-> Calls[n].op, val |-> None]]
    BY <1>7 DEF Promise!Lose
  <2>2. CallOf(x)' = IF x = n THEN [phase |-> "lost", op |-> Calls[n].op, val |-> None] ELSE CallOf(x)
    BY <1>3, <2>1
  <2> QED  BY <2>2 DEF Effective
<1>8. CASE CallOf(x)' = CallOf(x)
  BY <1>8 DEF Effective
<1> QED  BY <1>2, <1>4, <1>5, <1>6, <1>7, <1>8
         DEF PromiseStep, Promise!SpecNext, Promise!Apply, Promise!ApplyAndReturn

(* ip goes on when a call is over.                                         *)
LEMMA IpMoves ==
  ASSUME TypeOK, [Next]_vars, NEW x \in Node
  PROVE  ip'[x] = ip[x] \/ MainThread(x).pc # "ready" \/ CallDone(x)
<1>1. ip \in [Node -> Nat \ {0}]
  BY DEF TypeOK
<1>2. CASE UNCHANGED vars
  BY <1>2 DEF vars
<1>3. ASSUME NEW n \in Node, MainStep(n) PROVE ip'[x] = ip[x] \/ MainThread(x).pc # "ready" \/ CallDone(x)
  <2>1. CASE ReturnPut(n) \/ ReturnGet(n) \/ ReturnWag(n)
    <3>1. ip' = [ip EXCEPT ![n] = @ + 1] /\ MainThread(n).pc # "ready"
      BY <2>1 DEF ReturnPut, ReturnGet, ReturnWag, Complete
    <3> QED  BY <1>1, <3>1
  <2>2. CASE CallDone(n)
    <3>1. x # n => ip'[x] = ip[x]
      BY <1>1, <2>2 DEF CallDone, Die
    <3> QED  BY <2>2, <3>1
  <2>3. CASE BeginLocal(n) \/ BeginRemote(n) \/ Finish(n)
    BY <2>3 DEF BeginLocal, BeginRemote, Finish, Die
  <2> QED  BY <1>3, <2>1, <2>2, <2>3 DEF MainStep
<1>4. ASSUME NEW n \in Node, NEW i \in 1 .. Len(thread[n]), ThreadStep(n, i)
      PROVE  ip'[x] = ip[x] \/ MainThread(x).pc # "ready"
  <2>1. CASE PutStore(n, i) \/ GetCopy(n, i)
    <3>1. thread[n][i].pc # "ready" /\ (ip' = ip \/ (i = Main /\ ip' = [ip EXCEPT ![n] = @ + 1]))
      BY <2>1 DEF PutStore, GetCopy, At, Complete, Die
    <3> QED  BY <1>1, <3>1 DEF MainThread
  <2>2. CASE ~(PutStore(n, i) \/ GetCopy(n, i))
    BY <1>4, <2>2 DEF ThreadStep, PutLock, MapContains, ContainsDuringGrow, GetLookup, GetAssertFails,
                      SendAnswer, Die
  <2> QED  BY <2>1, <2>2
<1>5. ASSUME NEW n \in Node, MonitorStep(n) PROVE UNCHANGED ip
  BY <1>5 DEF MonitorStep, Select, StopMonitor, ReceiveAck, ReceiveReply, ReceiveRequest,
              ReceiveEof, ReceiveAfterShutdown, Die
<1>6. ASSUME NEW n \in Node, ExitStep(n) PROVE UNCHANGED ip
  BY <1>6 DEF ExitStep, ExitAfterShutdown, SendFails, Die
<1> QED  BY <1>2, <1>3, <1>4, <1>5, <1>6 DEF Next

(* What a node calls, and has called.                                      *)
LEMMA Requested ==
  ASSUME TypeOK, Cooperative, NEW x \in Node, NEW j \in 1 .. Len(prog[x])
  PROVE  prog[x][j] \in Request /\ prog[x][j].key \in Key
<1>1. prog \in Programs /\ StaysUp(prog) /\ DOMAIN prog = Node /\ prog[x] \in Seq(Call)
  BY ProgramsAssumption DEF TypeOK, Cooperative
<1>2. DOMAIN prog[x] = 1 .. Len(prog[x]) /\ prog[x][j] \in Call
  BY <1>1
<1>3. prog[x][j] # Done
  BY <1>1, <1>2 DEF StaysUp
<1> QED  BY <1>2, <1>3 DEF Call, Request

LEMMA HeldStep ==
  ASSUME StepInv, StepInv', OnceInv, HeldInv, Cooperative, PromiseStep, UNCHANGED prog,
         \A x \in Node : MainGoes(x), [Next]_vars
  PROVE  HeldInv'
<1>1. TypeOK /\ PhasesMatch /\ PhasesMatch'
  <2>1. WhereInv /\ WhereInv'
    BY DEF StepInv
  <2> QED  BY <2>1, PhaseIdle, PTL DEF StepInv, TypeInv
<1>2. \A k \in Key : Held(k) => Held(k)'
  BY MapOnlyGrows, HomeAssumption DEF MapGrows, Held
<1>3. ASSUME NEW x \in Node, CallOf(x).phase # "idle", Effective(x)
      PROVE  CallOf(x)'.op = CallOf(x).op /\ Held(CallOf(x).op.key)'
  <2>1. /\ CallOf(x)'.op = CallOf(x).op
        /\ \/ CallOf(x).phase = "applied"
           \/ CallOf(x).phase = "pending" /\ Takes(x)
    BY <1>3, EffectSeen
  <2>2. CallOf(x).op = MainThread(x).op /\ MainThread(x).pc # "ready"
    BY <1>1, <1>3 DEF CallOf, PhasesMatch
  <2>3. Main \in 1 .. Len(thread[x]) /\ ThreadOK(thread[x][Main], Main)
    BY <1>1, ThreadTypes DEF StepInv, TypeInv, ThreadsOK
  <2>4. CallOf(x).op \in Request
    BY <2>2, <2>3 DEF MainThread, ThreadOK
  <2>5. PICK op \in Request : op = CallOf(x).op
    BY <2>4
  <2>6. op.key \in Key /\ (op.kind = "Put" => op.val # None)
    BY NoneAssumption DEF Request
  <2>7. CASE CallOf(x).phase = "applied"
    BY <1>2, <2>1, <2>5, <2>6, <2>7 DEF HeldInv
  <2>8. CASE Takes(x) /\ op.kind = "Put"
    <3>1. Store' = [Store EXCEPT ![op.key] = op.val]
      BY <2>5, <2>8 DEF Takes
    <3>2. Store'[op.key] = op.val
      BY <2>6, <3>1 DEF Store
    <3>3. Store'[op.key] = map_'[Home[op.key]][op.key]
      BY <2>6 DEF Store
    <3> QED  BY <2>1, <2>5, <2>6, <2>8, <3>2, <3>3 DEF Held
  <2>9. CASE Takes(x) /\ op.kind # "Put"
    <3>1. Store[op.key] # None
      BY <2>5, <2>9 DEF Takes
    <3>2. Held(op.key)
      BY <2>6, <3>1 DEF Store, Held
    <3> QED  BY <1>2, <2>1, <2>5, <2>6, <3>2
  <2> QED  BY <2>1, <2>7, <2>8, <2>9
<1>4. ASSUME NEW x \in Node, CallOf(x)'.phase = "applied"
      PROVE  Held(CallOf(x).op.key)'
  <2>1. Effective(x)
    BY <1>4 DEF Effective
  <2>2. CallOf(x).phase # "idle"
    BY <2>1, EffectSeen
  <2> QED  BY <1>3, <2>1, <2>2
<1>5. ASSUME NEW x \in Node, NEW j \in 1 .. Len(prog[x]), j < ip'[x]
      PROVE  Held(prog[x][j].key)'
  <2>1. ip[x] \in Nat /\ (ip'[x] = ip[x] \/ ip'[x] = ip[x] + 1) /\ prog[x][j].key \in Key
    BY <1>1, Requested DEF TypeOK, MainGoes
  <2>2. CASE j < ip[x]
    BY <1>2, <2>1, <2>2 DEF HeldInv
  <2>3. CASE ~(j < ip[x])
    <3>1. ip'[x] = ip[x] + 1 /\ j = ip[x]
      BY <1>5, <2>1, <2>3
    <3>2. ~CallDone(x)
      <4>1. prog[x][j] # Done
        BY <1>1, Requested DEF Request, Done
      <4> QED  BY <3>1, <4>1 DEF CallDone, CurrentCall
    <3>3. MainThread(x).pc # "ready"
      BY <1>1, <2>1, <3>1, <3>2, IpMoves
    <3>4. MainThread(x)'.pc = "ready"
      BY <2>1, <3>1 DEF MainGoes
    <3>5. CallOf(x).phase # "idle" /\ Effective(x)
      BY <1>1, <3>3, <3>4 DEF PhasesMatch, Effective
    <3>6. CallOf(x).op = prog[x][j]
      BY <3>1, <3>3 DEF OnceInv, CurrentOK, CallOf
    <3>7. Held(CallOf(x).op.key)' /\ CallOf(x)'.op = CallOf(x).op
      BY <1>3, <3>5
    <3> QED  BY <3>6, <3>7
  <2> QED  BY <2>2, <2>3
<1> QED  BY <1>4, <1>5 DEF HeldInv
-----------------------------------------------------------------------------
(* wait_and_get goes on with a key that is there.                          *)

LEMMA FoundReplace ==
  ASSUME TypeInv, FoundInv, MapGrows, NEW n \in Node, NEW i \in 1 .. Len(thread[n]), NEW t \in Thread,
         Replaces(n, i, t), FoundIn(map_', n, t)
  PROVE  FoundInv'
<1>1. /\ \A m \in Node : Len(thread'[m]) = Len(thread[m])
      /\ \A m \in Node : \A j \in 1 .. Len(thread[m]) :
           thread'[m][j] = IF m = n /\ j = i THEN t ELSE thread[m][j]
  BY UpdateEffect DEF TypeInv
<1>2. ASSUME NEW m \in Node, NEW j \in 1 .. Len(thread[m]), ~(m = n /\ j = i)
      PROVE  FoundIn(map_', m, thread'[m][j])
  <2>1. FoundIn(map_, m, thread[m][j]) /\ thread'[m][j] = thread[m][j] /\ ThreadOK(thread[m][j], j)
    BY <1>1, <1>2 DEF FoundInv, TypeInv, ThreadsOK
  <2>2. thread[m][j].pc = "get" => thread[m][j].op.key \in Key
    BY <2>1 DEF ThreadOK, Request
  <2> QED  BY <2>1, <2>2 DEF FoundIn, MapGrows
<1>3. ASSUME NEW m \in Node, NEW j \in 1 .. Len(thread'[m])
      PROVE  FoundIn(map_', m, thread'[m][j])
  <2>1. j \in 1 .. Len(thread[m])
    BY <1>1
  <2>2. CASE m = n /\ j = i
    <3>1. thread'[m][j] = t
      BY <1>1, <2>1, <2>2
    <3> QED  BY <2>2, <3>1
  <2> QED  BY <1>2, <2>1, <2>2
<1> QED  BY <1>3 DEF FoundInv

LEMMA FoundSetThread ==
  ASSUME TypeInv, FoundInv, MapGrows, NEW n \in Node, NEW i \in 1 .. Len(thread[n]),
         NEW pc \in Pc, NEW val \in Data \cup {None}, SetThread(n, i, pc, val),
         pc = "get" => map_'[n][thread[n][i].op.key] # None
  PROVE  FoundInv'
<1>1. PICK t \in Thread : t.pc = pc /\ t.op = thread[n][i].op /\ Replaces(n, i, t)
  BY SetThreadRecord DEF TypeInv
<1>2. FoundIn(map_', n, t)
  BY <1>1 DEF FoundIn
<1> QED  BY <1>1, <1>2, FoundReplace

LEMMA FoundUnchanged ==
  ASSUME TypeInv, FoundInv, MapGrows, UNCHANGED thread
  PROVE  FoundInv'
<1>1. ASSUME NEW m \in Node, NEW j \in 1 .. Len(thread[m])
      PROVE  FoundIn(map_', m, thread[m][j])
  <2>1. FoundIn(map_, m, thread[m][j]) /\ ThreadOK(thread[m][j], j)
    BY DEF FoundInv, TypeInv, ThreadsOK
  <2>2. thread[m][j].pc = "get" => thread[m][j].op.key \in Key
    BY <2>1 DEF ThreadOK, Request
  <2> QED  BY <2>1, <2>2 DEF FoundIn, MapGrows
<1> QED  BY <1>1 DEF FoundInv

LEMMA FoundPutStore ==
  ASSUME TypeInv, FoundInv, MapGrows, NEW n \in Node, NEW i \in 1 .. Len(thread[n]), PutStore(n, i)
  PROVE  FoundInv'
<1>1. TypeOK /\ \A m \in Node : \A j \in 1 .. Len(thread[m]) : thread[m][j] \in Thread
  BY ThreadTypes DEF TypeInv
<1>2. /\ \A m \in Node : Len(thread'[m]) = Len(thread[m])
      /\ \A m \in Node : m # n => thread'[m] = thread[m]
      /\ thread'[n][i] = [thread[n][i] EXCEPT !.pc = IF i = Main THEN "ready" ELSE "send"]
      /\ \A j \in 1 .. Len(thread[n]) :
           j # i => \/ thread'[n][j] = thread[n][j]
                    \/ /\ thread[n][j].pc = "copy"
                       /\ thread'[n][j] = [thread[n][j] EXCEPT !.val = Garbage]
  BY <1>1, PutStoreEffect
<1>3. ASSUME NEW m \in Node, NEW j \in 1 .. Len(thread[m]), thread'[m][j].pc = "get"
      PROVE  thread'[m][j] = thread[m][j]
  <2>1. CASE m = n /\ j = i
    <3>1. thread'[n][i].pc = IF i = Main THEN "ready" ELSE "send"
      BY <1>1, <1>2 DEF Thread
    <3> QED  BY <1>3, <2>1, <3>1
  <2>2. CASE m = n /\ j # i
    <3>1. thread[n][j] \in Thread
      BY <1>1, <2>2
    <3>2. [thread[n][j] EXCEPT !.val = Garbage].pc = thread[n][j].pc
      BY <3>1 DEF Thread
    <3> QED  BY <1>2, <1>3, <2>2, <3>2
  <2>3. CASE m # n
    BY <1>2, <2>3
  <2> QED  BY <2>1, <2>2, <2>3
<1>4. ASSUME NEW m \in Node, NEW j \in 1 .. Len(thread'[m])
      PROVE  FoundIn(map_', m, thread'[m][j])
  <2>1. j \in 1 .. Len(thread[m])
    BY <1>2
  <2>2. FoundIn(map_, m, thread[m][j]) /\ ThreadOK(thread[m][j], j)
    BY <2>1 DEF FoundInv, TypeInv, ThreadsOK
  <2>3. thread[m][j].pc = "get" => thread[m][j].op.key \in Key
    BY <2>2 DEF ThreadOK, Request
  <2> QED  BY <1>3, <2>1, <2>2, <2>3 DEF FoundIn, MapGrows
<1> QED  BY <1>4 DEF FoundInv

LEMMA FoundStep ==
  ASSUME StepInv, FoundInv, [Next]_vars
  PROVE  FoundInv'
<1>1. TypeInv /\ TypeOK /\ MapGrows /\ \A m \in Node : Main \in 1 .. Len(thread[m])
  BY ThreadTypes, MapOnlyGrows DEF StepInv, TypeInv
<1>2. ASSUME NEW n \in Node, NEW how, Die(n, how) PROVE FoundInv'
  BY <1>1, <1>2, FoundUnchanged DEF Die
<1>3. /\ {"ready", "store", "get", "poll", "copy", "send", "done"} \subseteq Pc
      /\ None \in Data \cup {None}
  BY DEF Pc
<1>4. ASSUME NEW n \in Node, MainStep(n) PROVE FoundInv'
  <2>1. CASE BeginLocal(n) \/ BeginRemote(n)
    <3>1. PICK pc \in Pc : /\ CurrentCall(n) \in Call /\ StartCall(n, pc)
                           /\ pc = "get" => CurrentCall(n).kind # "WaitAndGet"
      <4>1. CASE BeginLocal(n)
        <5>1. /\ CurrentCall(n) \in Request /\ LocalEntry(CurrentCall(n)) \in Pc
              /\ LocalEntry(CurrentCall(n)) = "get" => CurrentCall(n).kind # "WaitAndGet"
          BY <4>1 DEF BeginLocal, LocalEntry, Request, Pc
        <5> QED  BY <4>1, <5>1 DEF BeginLocal, Call
      <4>2. CASE BeginRemote(n)
        <5>1. /\ CurrentCall(n) \in Request /\ RemoteEntry(CurrentCall(n)) \in Pc \ {"get"}
          BY <4>2 DEF BeginRemote, IsRemote, RemoteEntry, Request, Pc
        <5> QED  BY <4>2, <5>1 DEF BeginRemote, Call
      <4> QED  BY <2>1, <4>1, <4>2
    <3>2. PICK t \in Thread : t.pc = pc /\ t.op = CurrentCall(n) /\ Replaces(n, Main, t)
      <4> DEFINE t0 == [thread[n][Main] EXCEPT !.pc = pc, !.op = CurrentCall(n)]
      <4>1. t0 \in Thread /\ t0.pc = pc /\ t0.op = CurrentCall(n) /\ Replaces(n, Main, t0)
        BY <1>1, <3>1, StartCallEffect
      <4> HIDE DEF t0
      <4> QED  BY <4>1
    <3>3. FoundIn(map_', n, t)
      BY <3>1, <3>2 DEF FoundIn
    <3> QED  BY <1>1, <3>2, <3>3, FoundReplace
  <2>2. CASE ReturnPut(n) \/ ReturnGet(n) \/ ReturnWag(n)
    <3>1. PICK v \in Data \cup {None} : SetThread(n, Main, "ready", v)
      BY <1>1, <2>2 DEF ReturnPut, ReturnGet, ReturnWag, Complete, TypeOK
    <3> QED  BY <1>1, <1>3, <3>1, FoundSetThread
  <2>3. CASE CallDone(n) \/ Finish(n)
    BY <1>1, <1>2, <2>3, FoundUnchanged DEF CallDone, Finish
  <2> QED  BY <1>4, <2>1, <2>2, <2>3 DEF MainStep
<1>5. ASSUME NEW n \in Node, NEW i \in 1 .. Len(thread[n]), ThreadStep(n, i) PROVE FoundInv'
  <2>1. thread[n][i] \in Thread /\ ThreadOK(thread[n][i], i)
    BY <1>1, ThreadTypes DEF TypeInv, ThreadsOK
  <2>2. CASE PutStore(n, i)
    BY <1>1, <2>2, FoundPutStore
  <2>3. CASE PutLock(n, i)
    <3>1. SetThread(n, i, "store", None)
      BY <2>3 DEF PutLock
    <3> QED  BY <1>1, <1>3, <3>1, FoundSetThread
  <2>4. CASE MapContains(n, i)
    <3>1. PICK pc \in {"get", "poll"} :
            /\ SetThread(n, i, pc, None)
            /\ pc = "get" => map_[n][thread[n][i].op.key] # None
      BY <2>4 DEF MapContains
    <3>2. map_' = map_
      BY <2>4 DEF MapContains, mapVars
    <3> QED  BY <1>1, <1>3, <3>1, <3>2, FoundSetThread
  <2>5. CASE GetLookup(n, i)
    <3>1. thread[n][i].op.key \in Key
      BY <2>1, <2>5 DEF GetLookup, At, ThreadOK, Request
    <3>2. map_[n][thread[n][i].op.key] \in Data \cup {None}
      BY <1>1, <3>1 DEF TypeOK, Data
    <3>3. SetThread(n, i, "copy", map_[n][thread[n][i].op.key])
      BY <2>5 DEF GetLookup
    <3> QED  BY <1>1, <1>3, <3>2, <3>3, FoundSetThread
  <2>6. CASE GetCopy(n, i)
    <3>1. thread[n][i].val \in Data \cup {None}
      BY <2>1 DEF Thread
    <3>2. CASE Complete(n, i, thread[n][i].val)
      <4>1. PICK pc \in {"ready", "send"} : SetThread(n, i, pc, thread[n][i].val)
        BY <3>2 DEF Complete
      <4> QED  BY <1>1, <1>3, <3>1, <4>1, FoundSetThread
    <3> QED  BY <1>2, <2>6, <3>2 DEF GetCopy
  <2>7. CASE SendAnswer(n, i)
    <3>1. SetThread(n, i, "done", None)
      BY <2>7 DEF SendAnswer
    <3> QED  BY <1>1, <1>3, <3>1, FoundSetThread
  <2>8. CASE ContainsDuringGrow(n, i) \/ GetAssertFails(n, i)
    BY <1>2, <2>8 DEF ContainsDuringGrow, GetAssertFails
  <2> QED  BY <1>5, <2>2, <2>3, <2>4, <2>5, <2>6, <2>7, <2>8 DEF ThreadStep
<1>6. ASSUME NEW n \in Node, ReceiveRequest(n) PROVE FoundInv'
  <2>1. PICK t \in Thread : /\ thread' = [thread EXCEPT ![n] = Append(@, t)]
                            /\ t.pc = "get" => t.op.kind = "Get"
    BY <1>1, <1>6, SpawnedThread
  <2>2. /\ \A m \in Node : Len(thread'[m]) = IF m = n THEN Len(thread[m]) + 1 ELSE Len(thread[m])
        /\ \A m \in Node : \A j \in 1 .. Len(thread[m]) : thread'[m][j] = thread[m][j]
        /\ thread'[n][Len(thread[n]) + 1] = t
    BY <1>1, <2>1, SpawnEffect
  <2>3. map_' = map_
    BY <1>6 DEF ReceiveRequest, mapVars
  <2>4. ASSUME NEW m \in Node, NEW j \in 1 .. Len(thread'[m])
        PROVE  FoundIn(map_', m, thread'[m][j])
    <3>1. Len(thread[m]) \in Nat
      BY <1>1, ThreadTypes
    <3>2. CASE j \in 1 .. Len(thread[m])
      <4>1. FoundIn(map_, m, thread[m][j])
        BY <3>2 DEF FoundInv
      <4> QED  BY <2>2, <2>3, <3>2, <4>1
    <3>3. CASE j \notin 1 .. Len(thread[m])
      <4>1. m = n /\ j = Len(thread[n]) + 1
        BY <2>2, <3>1, <3>3
      <4>2. thread'[m][j] = t
        BY <2>2, <4>1
      <4> QED  BY <2>1, <4>2 DEF FoundIn
    <3> QED  BY <3>2, <3>3
  <2> QED  BY <2>4 DEF FoundInv
<1>7. ASSUME NEW n \in Node, MonitorStep(n) PROVE FoundInv'
  <2>1. CASE (\E m \in Node : Select(n, m)) \/ StopMonitor(n) \/ ReceiveEof(n)
             \/ ReceiveAck(n) \/ ReceiveReply(n)
    BY <1>1, <2>1, FoundUnchanged DEF Select, StopMonitor, ReceiveEof, ReceiveAck, ReceiveReply
  <2>2. CASE ReceiveAfterShutdown(n)
    BY <1>1, <1>2, <2>2, FoundUnchanged DEF ReceiveAfterShutdown
  <2> QED  BY <1>6, <1>7, <2>1, <2>2 DEF MonitorStep
<1>8. ASSUME NEW n \in Node, ExitStep(n) PROVE FoundInv'
  BY <1>2, <1>8 DEF ExitStep, ExitAfterShutdown, SendFails
<1>9. CASE UNCHANGED vars
  BY <1>1, <1>9, FoundUnchanged DEF vars
<1> QED  BY <1>4, <1>5, <1>7, <1>8, <1>9 DEF Next

-----------------------------------------------------------------------------
(* get finds its key.                                                      *)

LEMMA GetsHeld ==
  ASSUME AllUpInv, Cooperative, NEW n \in Node, NEW i \in 1 .. Len(thread[n]),
         thread[n][i].pc = "get"
  PROVE  map_[n][thread[n][i].op.key] # None
<1>1. /\ StepInv /\ OnceInv /\ HeldInv /\ FoundInv
      /\ TypeOK /\ ThreadOK(thread[n][i], i)
  BY DEF AllUpInv, StepInv, TypeInv, ThreadsOK
<1>2. AtWork(thread[n][i]) /\ ~Applied(thread[n][i])
  BY DEF AtWork, Applied, Waiting
<1>3. PICK op \in Request : op = thread[n][i].op
  BY <1>1 DEF ThreadOK
<1>4. op.key \in Key /\ op.kind \in {"Get", "WaitAndGet"}
  BY <1>1, <1>3 DEF ThreadOK, Request
<1>5. Home[op.key] = n
  BY <1>1, <1>2, <1>3 DEF StepInv, WorkInv, WorkOK
<1>6. CASE op.kind = "WaitAndGet"
  BY <1>1, <1>3, <1>6 DEF FoundInv, FoundIn
<1>7. CASE op.kind = "Get"
  <2>1. PICK x \in Node : ip[x] \in 1 .. Len(prog[x]) /\ prog[x][ip[x]] = op
    BY <1>1, <1>2, <1>3, WorkIsCurrent
  <2>2. prog \in Programs /\ GetsFollow(prog) /\ DOMAIN prog = Node
    BY <1>1, ProgramsAssumption DEF TypeOK, Cooperative
  <2>3. \A y \in Node : prog[y] \in Seq(Call) /\ DOMAIN prog[y] = 1 .. Len(prog[y]) /\ Len(prog[y]) \in Nat
    BY <2>2, ProgramsAssumption
  <2>4. \A y \in Node : ip[y] \in Nat \ {0}
    BY <1>1 DEF TypeOK
  <2>5. PICK h \in 1 .. ip[x] - 1 :
          \/ prog[x][h].key = op.key
          \/ \A m \in Node : \A j \in DOMAIN prog[m] :
               prog[m][j].kind = "Put" /\ prog[m][j].key = prog[x][h].key =>
                 \E l \in 1 .. j - 1 : prog[m][l].kind = "Put" /\ prog[m][l].key = op.key
    <3>1. x \in DOMAIN prog /\ ip[x] \in DOMAIN prog[x] /\ prog[x][ip[x]].kind = "Get"
      BY <1>7, <2>1, <2>2, <2>3
    <3>2. \E h \in 1 .. ip[x] - 1 :
            \/ prog[x][h].key = prog[x][ip[x]].key
            \/ \A m \in DOMAIN prog : \A j \in DOMAIN prog[m] :
                 prog[m][j].kind = "Put" /\ prog[m][j].key = prog[x][h].key =>
                   \E l \in 1 .. j - 1 :
                     prog[m][l].kind = "Put" /\ prog[m][l].key = prog[x][ip[x]].key
      BY <2>2, <3>1, Zenon DEF GetsFollow
    <3>3. DOMAIN prog = Node /\ prog[x][ip[x]] = op
      BY <2>1, <2>2
    <3> QED  BY ONLY <3>2, <3>3
  <2>6. h \in 1 .. Len(prog[x]) /\ h < ip[x]
    BY <2>1, <2>3, <2>4, <2>5
  <2>7. Held(prog[x][h].key)
    BY <1>1, <2>6 DEF HeldInv
  <2>8. CASE prog[x][h].key = op.key
    BY <1>3, <1>5, <2>7, <2>8 DEF Held
  <2>9. CASE prog[x][h].key # op.key
    <3>1. PICK k \in Key : k = prog[x][h].key
      BY <1>1, <2>6, Requested
    <3>2. PICK y \in Node, j \in Nat : IsPutOf(y, j, k) /\ Past(y, j)
      BY <1>1, <2>7, <3>1 DEF OnceInv, PutInv, Held
    <3>3. j \in DOMAIN prog[y] /\ prog[y][j].kind = "Put" /\ prog[y][j].key = prog[x][h].key
      BY <2>3, <3>1, <3>2 DEF IsPutOf
    <3>4. PICK l \in 1 .. j - 1 : prog[y][l].key = op.key
      BY <2>5, <2>9, <3>3
    <3>5. l \in 1 .. Len(prog[y]) /\ l < ip[y]
      BY <2>3, <2>4, <3>2, <3>3, <3>4 DEF Past
    <3>6. Held(prog[y][l].key)
      BY <1>1, <3>5 DEF HeldInv
    <3> QED  BY <1>3, <1>5, <3>4, <3>6 DEF Held
  <2> QED  BY <2>8, <2>9
<1> QED  BY <1>4, <1>6, <1>7

(* The map is not full when put comes, so that it does not grow.           *)
LEMMA NeverGrows ==
  ASSUME AllUpInv, Disciplined, MapsFit, NEW n \in Node, mtx_[n] # 0
  PROVE  NumKeys(n) < capacity_[n]
<1>1. StepInv /\ OnceInv /\ MutexInv /\ AtHome /\ UpInv /\ TypeOK
  BY DEF AllUpInv, StepInv, TypeInv
<1>2. PICK i \in 1 .. Len(thread[n]) : thread[n][i].pc = "store"
  BY <1>1 DEF MutexInv
<1>3. ThreadOK(thread[n][i], i) /\ AtWork(thread[n][i])
  BY <1>1, <1>2 DEF StepInv, TypeInv, ThreadsOK, AtWork, Waiting
<1>4. PICK k \in Key : k = thread[n][i].op.key
  BY <1>2, <1>3 DEF ThreadOK, Request
<1>5. Home[k] = n
  BY <1>1, <1>3, <1>4 DEF StepInv, WorkInv, WorkOK
<1>6. map_[n][k] = None
  BY <1>1, <1>2, <1>4, FirstPut
<1>7. PICK K : K = KeysOf(n)
  OBVIOUS
<1>8. PICK S : S = {j \in Key : map_[n][j] # None}
  OBVIOUS
<1>9. IsFiniteSet(K) /\ Cardinality(K) <= InitCapacity
  BY <1>7 DEF MapsFit
<1>10. k \in K /\ S \subseteq K \ {k}
  BY <1>1, <1>5, <1>6, <1>7, <1>8 DEF KeysOf, AtHome
<1>11. /\ IsFiniteSet(K \ {k})
       /\ Cardinality(K \ {k}) = Cardinality(K) - 1
  BY <1>9, <1>10, FS_RemoveElement
<1>12. Cardinality(S) <= Cardinality(K \ {k}) /\ IsFiniteSet(S)
  BY <1>10, <1>11, FS_Subset
<1>13. Cardinality(S) \in Nat /\ Cardinality(K) \in Nat
  BY <1>9, <1>12, FS_CardinalityType
<1>14. capacity_[n] >= InitCapacity /\ capacity_[n] \in Nat
  BY <1>1 DEF UpInv, TypeOK
<1>15. NumKeys(n) = Cardinality(S)
  BY <1>8 DEF NumKeys
<1> QED  BY <1>9, <1>11, <1>12, <1>13, <1>14, <1>15, InitCapacityAssumption

(* What would end a process, or shut a node down, does not happen.         *)
LEMMA NothingStops ==
  ASSUME AllUpInv, Disciplined, Cooperative, MapsFit, NEW n \in Node
  PROVE  /\ ~CallDone(n) /\ ~Finish(n) /\ ~ExitStep(n)
         /\ ~StopMonitor(n) /\ ~ReceiveEof(n) /\ ~ReceiveAfterShutdown(n)
         /\ \A i \in 1 .. Len(thread[n]) :
              /\ ~ContainsDuringGrow(n, i) /\ ~GetAssertFails(n, i)
              /\ GetCopy(n, i) => UNCHANGED <<monitor, mapVars, has_shutdown, wire, status>>
<1>1. UpInv /\ OnceInv /\ TypeOK /\ StepInv
  BY DEF AllUpInv, StepInv, TypeInv
<1>2. \A m \in Node : ~Closed(m)
  BY <1>1 DEF UpInv, Closed, Running
<1>3. ~CallDone(n)
  <2> SUFFICES ASSUME CallDone(n) PROVE FALSE
    OBVIOUS
  <2>1. ip[n] \in 1 .. Len(prog[n]) /\ prog[n][ip[n]] = Done
    <3>1. ip[n] \in Nat \ {0} /\ prog[n] \in Seq(Call)
      BY <1>1, ProgramsAssumption DEF TypeOK
    <3> QED  BY <3>1 DEF CallDone, HasCall, CurrentCall
  <2>2. prog[n][ip[n]] \in Request
    BY <1>1, <2>1, Requested
  <2> QED  BY <2>1, <2>2 DEF Done, Request
<1>4. ~Finish(n)
  BY <1>1 DEF UpInv, Finish
<1>5. ~ExitAfterShutdown(n)
  BY <1>1 DEF UpInv, ExitAfterShutdown
<1>6. ~SendFails(n)
  <2>1. ASSUME NEW i \in 1 .. Len(thread[n]) PROVE ~Closed(thread[n][i].from)
    <3>1. thread[n][i] \in Thread
      BY <1>1, ThreadTypes
    <3> QED  BY <1>2, <3>1 DEF Thread
  <2>2. ASSUME IsRemote(n, CurrentCall(n)) PROVE ~Closed(Home[CurrentCall(n).key])
    <3>1. CurrentCall(n).key \in Key
      BY <2>2 DEF IsRemote, Request
    <3> QED  BY <1>2, <3>1, HomeAssumption
  <2> QED  BY <2>1, <2>2 DEF SendFails
<1>7. ~StopMonitor(n) /\ ~ReceiveEof(n) /\ ~ReceiveAfterShutdown(n)
  BY <1>1 DEF UpInv, StopMonitor, ReceiveEof, ReceiveAfterShutdown
<1>8. ASSUME NEW i \in 1 .. Len(thread[n])
      PROVE  /\ ~ContainsDuringGrow(n, i) /\ ~GetAssertFails(n, i)
             /\ GetCopy(n, i) => UNCHANGED <<monitor, mapVars, has_shutdown, wire, status>>
  <2>1. ~ContainsDuringGrow(n, i)
    <3> SUFFICES ASSUME ContainsDuringGrow(n, i) PROVE FALSE
      OBVIOUS
    <3>1. NumKeys(n) < capacity_[n] /\ NumKeys(n) >= capacity_[n]
      BY NeverGrows DEF ContainsDuringGrow
    <3>2. capacity_[n] \in Nat /\ NumKeys(n) \in Nat
      <4>1. IsFiniteSet(KeysOf(n)) /\ AtHome
        BY DEF MapsFit, AllUpInv
      <4>2. PICK S : S = {j \in Key : map_[n][j] # None}
        OBVIOUS
      <4>3. S \subseteq KeysOf(n)
        BY <4>1, <4>2 DEF AtHome, KeysOf
      <4>4. Cardinality(S) \in Nat
        BY <4>1, <4>3, FS_Subset, FS_CardinalityType
      <4> QED  BY <1>1, <4>2, <4>4 DEF NumKeys, TypeOK
    <3> QED  BY <3>1, <3>2
  <2>2. ~GetAssertFails(n, i)
    BY GetsHeld DEF GetAssertFails, At
  <2>3. thread[n][i].pc = "copy" => thread[n][i].val # Garbage
    BY <1>1 DEF OnceInv, NoGarbage
  <2>4. GetCopy(n, i) => UNCHANGED <<monitor, mapVars, has_shutdown, wire, status>>
    BY <2>3 DEF GetCopy, At
  <2> QED  BY <2>1, <2>2, <2>4
<1> QED  BY <1>3, <1>4, <1>5, <1>6, <1>7, <1>8 DEF ExitStep

-----------------------------------------------------------------------------
(* Nodes stay up.                                                          *)

(* What a step of the threads may do to the stores.                        *)
Grows == /\ UNCHANGED <<status, has_shutdown>>
         /\ \A n \in Node : capacity_'[n] >= capacity_[n]

LEMMA UpGrows ==
  ASSUME AllUpInv, Disciplined, Cooperative, MapsFit, [Next]_vars
  PROVE  Grows
<1>1. TypeOK /\ \A n \in Node : capacity_[n] \in Nat
  BY DEF AllUpInv, StepInv, TypeInv, TypeOK
<1>2. CASE UNCHANGED <<status, has_shutdown, capacity_>>
  BY <1>1, <1>2 DEF Grows
<1>3. ASSUME NEW n \in Node, MainStep(n) PROVE Grows
  BY <1>2, <1>3, NothingStops DEF MainStep, BeginLocal, BeginRemote, ReturnPut, ReturnGet, ReturnWag,
     mapVars
<1>4. ASSUME NEW n \in Node, NEW i \in 1 .. Len(thread[n]), ThreadStep(n, i) PROVE Grows
  <2>1. CASE PutStore(n, i)
    <3>1. PICK c : c = IF NumKeys(n) >= capacity_[n] THEN 2 * capacity_[n] ELSE capacity_[n]
      OBVIOUS
    <3>2. capacity_' = [capacity_ EXCEPT ![n] = c]
      BY <2>1, <3>1, Zenon DEF PutStore
    <3>3. c = 2 * capacity_[n] \/ c = capacity_[n]
      BY <3>1, Zenon
    <3>4. UNCHANGED <<status, has_shutdown>>
      BY <2>1 DEF PutStore
    <3>5. \A m \in Node : capacity_'[m] = IF m = n THEN c ELSE capacity_[m]
      BY <3>2 DEF TypeOK, AllUpInv, StepInv, TypeInv
    <3> QED  BY <1>1, <3>3, <3>4, <3>5 DEF Grows
  <2>2. CASE ~PutStore(n, i)
    BY <1>2, <1>4, <2>2, NothingStops DEF ThreadStep, PutLock, MapContains, GetLookup, SendAnswer, mapVars
  <2> QED  BY <2>1, <2>2
<1>5. ASSUME NEW n \in Node, MonitorStep(n) PROVE Grows
  BY <1>2, <1>5, NothingStops DEF MonitorStep, Select, ReceiveAck, ReceiveReply, ReceiveRequest, mapVars
<1>6. CASE UNCHANGED vars
  BY <1>2, <1>6 DEF vars, mapVars
<1> QED  BY <1>3, <1>4, <1>5, <1>6, NothingStops DEF Next

(* The monitor of x is not stopped, and has something to read.             *)
Reads(x) == /\ monitor[x].pc # "stopped"
            /\ monitor[x].pc = "recv" => wire[monitor[x].from][x] # <<>>

LEMMA ReadsOn ==
  ASSUME TypeOK, NEW x \in Node, Reads(x), monitor'[x] = monitor[x],
         \A m \in Node : wire[m][x] # <<>> => wire'[m][x] # <<>>
  PROVE  Reads(x)'
<1>1. monitor[x].from \in Node
  BY DEF TypeOK
<1> QED  BY <1>1 DEF Reads

LEMMA ReadsSend ==
  ASSUME TypeOK, NEW n \in Node, NEW d \in Node, NEW msg \in Message, Sends(n, d, msg),
         UNCHANGED monitor, \A x \in Node : Reads(x)
  PROVE  \A x \in Node : Reads(x)'
<1>1. /\ wire' \in [Node -> [Node -> Seq(Message)]]
      /\ \A x, y \in Node : x # n \/ y # d => wire'[x][y] = wire[x][y]
      /\ Len(wire[n][d]) \in Nat
      /\ Len(wire'[n][d]) = Len(wire[n][d]) + 1
      /\ \A j \in 1 .. Len(wire[n][d]) : wire'[n][d][j] = wire[n][d][j]
      /\ wire'[n][d][Len(wire[n][d]) + 1] = msg
  BY SendEffect DEF Sends
<1>2. wire'[n][d] # <<>>
  BY <1>1, EmptySeq
<1> QED  BY <1>1, <1>2, ReadsOn

LEMMA ReadsReceive ==
  ASSUME TypeOK, NEW n \in Node, NEW msg, Receive(n, msg), \A x \in Node : Reads(x)
  PROVE  \A x \in Node : Reads(x)'
<1>1. PICK m \in Node : m = monitor[n].from
  BY DEF TypeOK
<1>2. \A x, y \in Node : x # m \/ y # n => wire'[x][y] = wire[x][y]
  BY <1>1, ReceiveEffect
<1>3. monitor' = [monitor EXCEPT ![n].pc = "select"]
  BY DEF Receive
<1>4. /\ \A x \in Node : x # n => monitor'[x] = monitor[x]
      /\ monitor'[n].pc = "select"
  BY <1>3 DEF TypeOK
<1>5. Reads(n)'
  BY <1>4 DEF Reads
<1>6. \A x \in Node : x # n => Reads(x)'
  BY <1>2, <1>4, ReadsOn
<1> QED  BY <1>5, <1>6

LEMMA UpReads ==
  ASSUME AllUpInv, Disciplined, Cooperative, MapsFit, [Next]_vars
  PROVE  \A x \in Node : Reads(x)'
<1>1. StepInv /\ TypeOK /\ TypeInv /\ \A x \in Node : Reads(x) /\ ~Closed(x)
  BY DEF AllUpInv, StepInv, TypeInv, UpInv, Reads, Closed, Running
<1>2. CASE UNCHANGED <<monitor, wire>>
  BY <1>1, <1>2 DEF Reads
<1>3. ASSUME NEW n \in Node, MainStep(n) PROVE \A x \in Node : Reads(x)'
  <2>1. CASE BeginRemote(n)
    <3>1. PICK op \in Request : op = CurrentCall(n)
      BY <2>1 DEF BeginRemote, IsRemote
    <3>2. op \in Message /\ Home[op.key] \in Node
      BY <3>1, HomeAssumption DEF Request, Message
    <3>3. Sends(n, Home[op.key], op)
      BY <2>1, <3>1 DEF BeginRemote, Sends
    <3>4. UNCHANGED monitor
      BY <2>1 DEF BeginRemote
    <3> QED  BY <1>1, <3>2, <3>3, <3>4, ReadsSend
  <2>2. CASE ~BeginRemote(n)
    BY <1>2, <1>3, <2>2, NothingStops DEF MainStep, BeginLocal, ReturnPut, ReturnGet, ReturnWag
  <2> QED  BY <2>1, <2>2
<1>4. ASSUME NEW n \in Node, NEW i \in 1 .. Len(thread[n]), ThreadStep(n, i)
      PROVE  \A x \in Node : Reads(x)'
  <2>1. CASE SendAnswer(n, i)
    <3>1. thread[n][i] \in Thread /\ ThreadOK(thread[n][i], i) /\ thread[n][i].pc = "send"
      BY <1>1, <2>1, ThreadTypes DEF TypeInv, ThreadsOK, SendAnswer, At
    <3>2. PICK d \in Node : d = thread[n][i].from
      BY <3>1 DEF Thread
    <3>3. PICK msg \in Message : msg = AnswerTo(thread[n][i])
      <4>1. thread[n][i].op \in Request /\ thread[n][i].val \in Data \cup {None}
        BY <3>1 DEF ThreadOK, Thread
      <4>2. CASE thread[n][i].op.kind = "Put"
        BY <4>2 DEF AnswerTo, Message, Answer
      <4>3. CASE thread[n][i].op.kind # "Put"
        <5>1. thread[n][i].op.kind \in {"Get", "WaitAndGet"} /\ thread[n][i].val \in Data
          BY <3>1, <4>1, <4>3 DEF ThreadOK, Request
        <5> QED  BY <4>3, <5>1 DEF AnswerTo, Reply, Message, Answer
      <4> QED  BY <4>2, <4>3
    <3>4. Sends(n, d, msg) /\ UNCHANGED monitor
      BY <2>1, <3>2, <3>3 DEF SendAnswer, Sends
    <3> QED  BY <1>1, <3>4, ReadsSend
  <2>2. CASE ~SendAnswer(n, i)
    BY <1>2, <1>4, <2>2, NothingStops
       DEF ThreadStep, PutLock, PutStore, MapContains, GetLookup
  <2> QED  BY <2>1, <2>2
<1>5. ASSUME NEW n \in Node, NEW m \in Node, Select(n, m) PROVE \A x \in Node : Reads(x)'
  <2>1. /\ monitor' = [monitor EXCEPT ![n] = [pc |-> "recv", from |-> m]]
        /\ wire' = wire /\ wire[m][n] # <<>>
    BY <1>1, <1>5 DEF Select, Readable
  <2>2. /\ \A x \in Node : x # n => monitor'[x] = monitor[x]
        /\ monitor'[n] = [pc |-> "recv", from |-> m]
    BY <1>1, <2>1 DEF TypeOK
  <2>3. Reads(n)'
    BY <2>1, <2>2 DEF Reads
  <2>4. \A x \in Node : x # n => Reads(x)'
    BY <1>1, <2>1, <2>2 DEF Reads
  <2> QED  BY <2>3, <2>4
<1>6. ASSUME NEW n \in Node, MonitorStep(n) PROVE \A x \in Node : Reads(x)'
  <2>1. CASE \E msg : Receive(n, msg)
    BY <1>1, <2>1, ReadsReceive
  <2> QED  BY <1>5, <1>6, <2>1, NothingStops DEF MonitorStep, ReceiveAck, ReceiveReply, ReceiveRequest
<1>7. CASE UNCHANGED vars
  BY <1>2, <1>7 DEF vars
<1> QED  BY <1>3, <1>4, <1>6, <1>7, NothingStops DEF Next

LEMMA UpStep ==
  ASSUME AllUpInv, Disciplined, Cooperative, MapsFit, [Next]_vars
  PROVE  UpInv'
<1>1. Grows /\ \A x \in Node : Reads(x)'
  BY UpGrows, UpReads
<1>2. UpInv /\ TypeOK
  BY DEF AllUpInv, StepInv, TypeInv
<1>3. TypeOK'
  <2>1. TypeInv /\ TypeInv'
    BY TypeInvStep DEF AllUpInv, StepInv
  <2> QED  BY <2>1 DEF TypeInv
<1>4. \A x \in Node : capacity_[x] \in Nat /\ capacity_'[x] \in Nat
  BY <1>2, <1>3 DEF TypeOK
<1> QED  BY <1>1, <1>2, <1>4, InitCapacityAssumption DEF Grows, Reads, UpInv

LEMMA AllUpStep ==
  ASSUME LossAllowed, Disciplined, Cooperative, MapsFit, AllUpInv, StepInv', [Next]_vars
  PROVE  AllUpInv'
<1>1. StepInv /\ OnceInv /\ MutexInv /\ AtHome /\ HeldInv /\ FoundInv /\ TypeInv
  BY DEF AllUpInv, StepInv
<1>2. OnceInv'
  BY <1>1, OnceInvStep
<1>3. MutexInv'
  BY <1>1, MutexStep
<1>4. AtHome'
  BY <1>1, MapOnlyGrows
<1>5. UNCHANGED prog /\ \A x \in Node : MainGoes(x)
  BY <1>1, MainGoesOn
<1>6. PromiseStep
  BY <1>1, <1>2, NextRefines DEF OnceInv
<1>7. HeldInv'
  BY <1>1, <1>5, <1>6, HeldStep
<1>8. FoundInv'
  BY <1>1, FoundStep
<1>9. UpInv'
  BY UpStep
<1> QED  BY <1>2, <1>3, <1>4, <1>7, <1>8, <1>9 DEF AllUpInv

LEMMA InitAllUp == Init => MutexInv /\ AtHome /\ HeldInv /\ FoundInv /\ UpInv
<1> SUFFICES ASSUME Init PROVE MutexInv /\ AtHome /\ HeldInv /\ FoundInv /\ UpInv
  OBVIOUS
<1>1. ASSUME NEW n \in Node
      PROVE  thread[n] = <<[pc |-> "ready", op |-> Done, from |-> n, val |-> None]>>
  BY DEF Init
<1>2. ASSUME NEW n \in Node
      PROVE  Len(thread[n]) = 1 /\ thread[n][1].pc = "ready"
  <2>1. thread[n] = <<[pc |-> "ready", op |-> Done, from |-> n, val |-> None]>>
    BY <1>1
  <2> QED  BY <2>1
<1>3. MutexInv
  BY <1>2 DEF Init, MutexInv
<1>4. AtHome
  BY DEF Init, AtHome
<1>5. HeldInv
  <2>1. ASSUME NEW x \in Node PROVE CallOf(x).phase = "idle"
    <3>1. PhasesMatch
      <4>1. TypeInv /\ CallInv /\ PlaceInv
        BY InitTypeInv, InitCallInv, InitPlaceInv
      <4> QED  BY <4>1, WhereCorrect, PhaseIdle
    <3>2. MainThread(x).pc = "ready"
      BY <1>2 DEF MainThread, Main
    <3> QED  BY <3>1, <3>2 DEF PhasesMatch
  <2>2. \A x \in Node : ip[x] = 1
    BY DEF Init
  <2>3. \A x \in Node : \A j \in 1 .. Len(prog[x]) : ~(j < ip[x])
    BY <2>2
  <2> QED  BY <2>1, <2>3 DEF HeldInv
<1>6. FoundInv
  BY <1>2 DEF FoundInv, FoundIn
<1>7. UpInv
  BY InitCapacityAssumption DEF Init, UpInv
<1> QED  BY <1>3, <1>4, <1>5, <1>6, <1>7

(* In applications that put every key once, get no key before it is put    *)
(* and leave the stores up, and whose keys fit in the maps as they are at  *)
(* first, no process is ended by exit(-1), by an assertion or by a memory  *)
(* error (kvstore.h:59-60, 138-142, 177-178; demos/demo.cpp:22-41).        *)
THEOREM NoNodeFails ==
  ASSUME LossAllowed, Disciplined, Cooperative, MapsFit
  PROVE  Spec => []NoFailure
<1>1. AllUpInv /\ StepInv' /\ [Next]_vars => AllUpInv'
  BY AllUpStep
<1>2. Init => MutexInv /\ AtHome /\ HeldInv /\ FoundInv /\ UpInv /\ OnceInv
  BY InitAllUp, InitOnceInv
<1>3. StepInv /\ MutexInv /\ AtHome /\ HeldInv /\ FoundInv /\ UpInv /\ OnceInv => AllUpInv
  BY DEF AllUpInv
<1>4. Spec => []AllUpInv
  BY <1>1, <1>2, <1>3, StepInvariant, PTL DEF Spec
<1>5. AllUpInv => NoFailure
  BY DEF AllUpInv, UpInv, NoFailure
<1> QED  BY <1>4, <1>5, PTL
=============================================================================
