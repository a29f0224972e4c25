------------------------------- MODULE KVOps -------------------------------
(***************************************************************************)
(* The vocabulary the key/value modules share: the keys with their home    *)
(* nodes (key.h), the calls an application makes on a KVStore (kvstore.h)  *)
(* and the messages two stores exchange (message.h).                       *)
(*                                                                         *)
(* A serialized data blob is a member of Value.  None stands for nullptr   *)
(* and for a field that a kind of message does not have; Garbage is what   *)
(* is read through a pointer whose target has been freed.                  *)
(***************************************************************************)
EXTENDS Naturals, Sequences, FiniteSets

CONSTANTS Node,         \* node indices
          Key,          \* key strings
          Value,        \* serialized data blobs
          Home,         \* Home[k]: Key::get_home_node
          None,
          Garbage

ASSUME HomeAssumption == Home \in [Key -> Node]
ASSUME NoneAssumption == None \notin Value \cup Key
ASSUME GarbageAssumption == Garbage \notin Value \cup {None}

Data == Value \cup {Garbage}

(* The calls: put, get and wait_and_get of a KVStore, and done, by which   *)
(* an application shuts its store down.                                    *)
Put(k, v) == [kind |-> "Put", key |-> k, val |-> v]
Get(k) == [kind |-> "Get", key |-> k, val |-> None]
WaitAndGet(k) == [kind |-> "WaitAndGet", key |-> k, val |-> None]
Done == [kind |-> "Done", key |-> None, val |-> None]

Request == [kind : {"Put"}, key : Key, val : Value]
             \cup [kind : {"Get", "WaitAndGet"}, key : Key, val : {None}]
Call == Request \cup {Done}

(* A request message carries the call itself.  A Reply names the kind of   *)
(* the request it answers; an Ack has nothing but its kind.                *)
Ack == [kind |-> "Ack"]
Reply(req, v) == [kind |-> "Reply", request |-> req, val |-> v]

Answer == {Ack} \cup [kind : {"Reply"}, request : {"Get", "WaitAndGet"}, val : Data]
Message == Request \cup Answer
=============================================================================
