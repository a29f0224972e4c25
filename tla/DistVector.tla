----------------------------- MODULE DistVector -----------------------------
(***************************************************************************)
(* The DistributedVector (dist_vector.h): a column of fields cut into      *)
(* chunks of ChunkSize, each of them a blob in the key/value store.  The   *)
(* last chunk is buffered while fields are appended; when the vector is    *)
(* locked the same buffer caches the chunk that was read last.             *)
(*                                                                         *)
(* A vector lives with the store it writes to: most operators take and     *)
(* return a pair [v |-> vector, s |-> store], where the store maps the     *)
(* name of a chunk, <<frame, column, index>>, to the chunk.                *)
(***************************************************************************)
EXTENDS Naturals, SequencesExt

CONSTANTS ChunkSize,   \* CHUNK_SIZE
          NumNodes,    \* KVStore::num_nodes
          None,        \* nullptr
          Missing      \* a DataType whose value was never set

ASSUME ChunkSizeAssumption == ChunkSize \in Nat \ {0}
ASSUME NumNodesAssumption == NumNodes \in Nat \ {0}

Chunk(i, fields) == [idx |-> i, fields |-> fields]

(* name is the key of the column, <<frame, column>>, or None after a       *)
(* vector was deserialized: k_ and kbuf_ are nullptr then.                 *)
NewVector(name) ==
  [name |-> name, size |-> 0, current |-> Chunk(0, <<>>), keys |-> <<>>, locked |-> FALSE]

Deserialized(v) == [v EXCEPT !.name = None, !.current = None]

ChunkKey(name, i, node) == [chunk |-> <<name[1], name[2], i>>, home |-> node]

(* A mistake: the chunk is sent to the next node in turn, which is not its *)
(* home any more when a chunk that was there already is stored again.      *)
StoreChunkInTurn(p) ==
  LET i == p.v.current.idx
      k == ChunkKey(p.v.name, i, Len(p.v.keys) % NumNodes)
  IN [v |-> [p.v EXCEPT !.keys = Append(SubSeq(@, 1, i), k), !.current = None],
      s |-> [p.s EXCEPT ![k.chunk] = p.v.current]]

(* store_chunk_: the chunk is put at its key, which is set in keys_.       *)
StoreChunk(p) ==
  LET i == p.v.current.idx
      k == ChunkKey(p.v.name, i, i % NumNodes)
  IN [v |-> [p.v EXCEPT !.keys = Append(SubSeq(@, 1, i), k), !.current = None],
      s |-> [p.s EXCEPT ![k.chunk] = p.v.current]]

(* A mistake: a chunk takes one field more than it has room for.           *)
AppendToFullChunk(p, f) ==
  LET q == IF Len(p.v.current.fields) <= ChunkSize THEN p
           ELSE [StoreChunk(p) EXCEPT !.v.current = Chunk(p.v.current.idx + 1, <<>>)]
  IN [q EXCEPT !.v.current.fields = Append(@, f), !.v.size = @ + 1]

(* append: a full chunk is stored before the next one is started.          *)
AppendField(p, f) ==
  LET q == IF Len(p.v.current.fields) < ChunkSize THEN p
           ELSE [StoreChunk(p) EXCEPT !.v.current = Chunk(p.v.current.idx + 1, <<>>)]
  IN [q EXCEPT !.v.current.fields = Append(@, f), !.v.size = @ + 1]

AppendAll(p, fields) == FoldLeft(AppendField, p, fields)

(* lock: the last chunk is stored if there is anything in it.              *)
Lock(p) ==
  LET q == IF p.v.current.fields # <<>> THEN StoreChunk(p) ELSE p
  IN [q EXCEPT !.v.locked = TRUE]

(* A mistake: what is appended later starts a chunk of its own.            *)
UnlockToNewChunk(p) ==
  [p EXCEPT !.v.current = Chunk(Len(p.v.keys), <<>>), !.v.locked = FALSE]

(* unlock: the last chunk becomes the buffer again.                        *)
Unlock(p) ==
  [p EXCEPT !.v.current = p.s[Last(p.v.keys).chunk], !.v.locked = FALSE]

(* The last chunk is looked up at keys_->size() - 1, and stored again with *)
(* the help of kbuf_.                                                      *)
CanExtend(v) == v.locked /\ v.keys # <<>> /\ v.name # None

(* get: the vector with the chunk of field i in current_.                  *)
Cached(v, s, i) ==
  LET c == i \div ChunkSize
  IN IF v.current # None /\ v.current.idx = c THEN v
     ELSE [v EXCEPT !.current = s[v.keys[c + 1].chunk]]

(* The field that get returns.  None where get would fail.                 *)
FieldAt(v, s, i) ==
  LET c == i \div ChunkSize
      buffered == v.current # None /\ v.current.idx = c
      chunk == IF buffered \/ c < Len(v.keys) THEN Cached(v, s, i).current ELSE None
      x == (i % ChunkSize) + 1
  IN IF chunk # None /\ x <= Len(chunk.fields) THEN chunk.fields[x] ELSE None

(* get_node: the node that stores field i.                                 *)
NodeOf(v, i) == v.keys[(i \div ChunkSize) + 1].home
=============================================================================
