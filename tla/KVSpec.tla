------------------------------- MODULE KVSpec -------------------------------
(***************************************************************************)
(* What the distributed store promises its applications: one map from keys *)
(* to blobs, on which every call of every node takes effect at one instant *)
(* between its invocation and its return.  The documentation of put, get   *)
(* and wait_and_get (report/doc.md:39-51, kvstore.h:92-167) in one place.  *)
(***************************************************************************)
EXTENDS KVOps

CONSTANT Lossy   \* may a call be lost, so that it never returns?

VARIABLES store,   \* the blob at each key, None if there is none
          call     \* each node's call: its phase, and its result once applied

specVars == <<store, call>>

(* A call is idle, pending, applied, or lost.                              *)
SpecInit ==
  /\ store = [k \in Key |-> None]
  /\ call = [n \in Node |-> [phase |-> "idle", op |-> Done, val |-> None]]

Invoke(n, op) ==
  /\ call[n].phase = "idle"
  /\ call' = [call EXCEPT ![n] = [phase |-> "pending", op |-> op, val |-> None]]
  /\ UNCHANGED store

(* A put stores its blob; a get and a wait_and_get take the one there is.  *)
Effect(n, phase) ==
  LET op == call[n].op IN
  /\ call[n].phase = "pending"
  /\ IF op.kind = "Put"
     THEN /\ store' = [store EXCEPT ![op.key] = op.val]
          /\ call' = [call EXCEPT ![n].phase = phase]
     ELSE /\ store[op.key] # None
          /\ call' = [call EXCEPT ![n] = [phase |-> phase, op |-> op, val |-> store[op.key]]]
          /\ UNCHANGED store

Apply(n) == Effect(n, "applied")

(* Effect and return in one step: a call that needs no message.            *)
ApplyAndReturn(n) == Effect(n, "idle")

Return(n) ==
  /\ call[n].phase = "applied"
  /\ call' = [call EXCEPT ![n].phase = "idle"]
  /\ UNCHANGED store

Lose(n) ==
  /\ Lossy
  /\ call[n].phase \in {"pending", "applied"}
  /\ call' = [call EXCEPT ![n] = [phase |-> "lost", op |-> @.op, val |-> None]]
  /\ UNCHANGED store

SpecNext == \E n \in Node :
              \/ \E op \in Request : Invoke(n, op)
              \/ Apply(n) \/ ApplyAndReturn(n) \/ Return(n) \/ Lose(n)

KVSpecification == SpecInit /\ [][SpecNext]_specVars
=============================================================================
