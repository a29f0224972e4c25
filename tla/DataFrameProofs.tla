--------------------------- MODULE DataFrameProofs ---------------------------
(***************************************************************************)
(* Proofs about DataFrame: what the operations on a column do to it and to *)
(* the chunks in the store, and what that means for the frames that have   *)
(* the column, or share the store with it.                                 *)
(***************************************************************************)
EXTENDS DataFrame, FiniteSetTheorems, TLAPS

-----------------------------------------------------------------------------
(* Where a field is in the chunks.                                         *)

LEMMA Places ==
  ASSUME NEW r \in Nat
  PROVE  /\ r \div ChunkSize \in Nat /\ r % ChunkSize \in Nat /\ r % ChunkSize \in 0 .. ChunkSize - 1
         /\ r = (r \div ChunkSize) * ChunkSize + (r % ChunkSize)
  BY ChunkSizeAssumption

LEMMA FirstPlace == 0 \div ChunkSize = 0 /\ 0 % ChunkSize = 0
  BY ChunkSizeAssumption

LEMMA NextPlace ==
  ASSUME NEW r \in Nat
  PROVE  IF (r % ChunkSize) + 1 < ChunkSize
         THEN (r + 1) \div ChunkSize = r \div ChunkSize
              /\ (r + 1) % ChunkSize = (r % ChunkSize) + 1
         ELSE (r + 1) \div ChunkSize = (r \div ChunkSize) + 1 /\ (r + 1) % ChunkSize = 0
  BY ChunkSizeAssumption

LEMMA PlacesInOrder ==
  ASSUME NEW r \in Nat, NEW t \in Nat, r <= t
  PROVE  r \div ChunkSize <= t \div ChunkSize
  BY ChunkSizeAssumption

LEMMA PlacesInChunk ==
  ASSUME NEW r \in Nat, NEW t \in Nat, r \div ChunkSize = t \div ChunkSize
  PROVE  (r % ChunkSize) - (t % ChunkSize) = r - t
  BY ChunkSizeAssumption

LEMMA PlaceBound ==
  ASSUME NEW r \in Nat
  PROVE  r \div ChunkSize <= r
  BY ChunkSizeAssumption

-----------------------------------------------------------------------------
(* The parts of a column.                                                  *)

Name == Key \X Col
Store == [ChunkName -> Buffer \cup {None}]
KeyOfChunk == [chunk : ChunkName, home : 0 .. NumNodes - 1]

(* The name of chunk i of the column b.                                    *)
ChunkOf(b, i) == <<b[1], b[2], i>>

Vec(n, z, x, k, l) == [name |-> n, size |-> z, current |-> x, keys |-> k, locked |-> l]

OpenVec(n, z, x, k) == Vec(n, z, x, k, FALSE)
LockedVec(n, z, x, k) == Vec(n, z, x, k, TRUE)

Pair(v, s) == [v |-> v, s |-> s]

LEMMA BufferParts ==
  /\ \A x \in Buffer : /\ x = Chunk(x.idx, x.fields) /\ x.idx \in 0 .. MaxRows
                       /\ x.fields \in Seq(Data) /\ Len(x.fields) <= ChunkSize
  /\ \A i \in 0 .. MaxRows, fs \in Seq(Data) : Len(fs) <= ChunkSize => Chunk(i, fs) \in Buffer
<1>1. \A fs : fs \in SeqOf(Data, ChunkSize) <=> fs \in Seq(Data) /\ Len(fs) <= ChunkSize
  <2>1. ASSUME NEW fs \in SeqOf(Data, ChunkSize)
        PROVE  fs \in Seq(Data) /\ Len(fs) <= ChunkSize
    <3>1. PICK m \in 0 .. ChunkSize : fs \in [1 .. m -> Data]
      BY DEF SeqOf
    <3>2. m \in Nat
      BY ChunkSizeAssumption
    <3> QED  BY <3>1, <3>2
  <2>2. ASSUME NEW fs \in Seq(Data), Len(fs) <= ChunkSize
        PROVE  fs \in SeqOf(Data, ChunkSize)
    <3>1. Len(fs) \in 0 .. ChunkSize /\ fs \in [1 .. Len(fs) -> Data]
      BY <2>2, ChunkSizeAssumption
    <3> QED  BY <3>1 DEF SeqOf
  <2> QED  BY <2>1, <2>2
<1>2. ASSUME NEW x \in Buffer
      PROVE  x = Chunk(x.idx, x.fields) /\ x.idx \in 0 .. MaxRows /\ x.fields \in SeqOf(Data, ChunkSize)
  BY DEF Buffer, Chunk
<1>3. ASSUME NEW i \in 0 .. MaxRows, NEW fs \in SeqOf(Data, ChunkSize)
      PROVE  Chunk(i, fs) \in Buffer
  BY DEF Buffer, Chunk
<1> QED  BY <1>1, <1>2, <1>3

LEMMA ChunkFields ==
  ASSUME NEW i, NEW fs
  PROVE  Chunk(i, fs).idx = i /\ Chunk(i, fs).fields = fs
  BY DEF Chunk

LEMMA VectorParts ==
  /\ \A v \in Vector :
       /\ v = Vec(v.name, v.size, v.current, v.keys, v.locked)
       /\ v.name \in Name \cup {None} /\ v.size \in 0 .. MaxRows
       /\ v.current \in Buffer \cup {None} /\ v.keys \in Seq(KeyOfChunk) /\ v.locked \in BOOLEAN
  /\ \A n \in Name \cup {None}, z \in 0 .. MaxRows, x \in Buffer \cup {None},
        k \in Seq(KeyOfChunk), l \in BOOLEAN : Vec(n, z, x, k, l) \in Vector
<1>1. ASSUME NEW v \in Vector
      PROVE  /\ v = Vec(v.name, v.size, v.current, v.keys, v.locked)
             /\ v.name \in Name \cup {None} /\ v.size \in 0 .. MaxRows
             /\ v.current \in Buffer \cup {None} /\ v.keys \in Seq(KeyOfChunk)
             /\ v.locked \in BOOLEAN
  BY DEF Vector, Vec, Name, KeyOfChunk
<1>2. ASSUME NEW n \in Name \cup {None}, NEW z \in 0 .. MaxRows, NEW x \in Buffer \cup {None},
             NEW k \in Seq(KeyOfChunk), NEW l \in BOOLEAN
      PROVE  Vec(n, z, x, k, l) \in Vector
  BY DEF Vector, Vec, Name, KeyOfChunk
<1> QED  BY <1>1, <1>2

LEMMA VecFields ==
  ASSUME NEW n, NEW z, NEW x, NEW k, NEW l
  PROVE  /\ Vec(n, z, x, k, l).name = n /\ Vec(n, z, x, k, l).size = z
         /\ Vec(n, z, x, k, l).current = x /\ Vec(n, z, x, k, l).keys = k
         /\ Vec(n, z, x, k, l).locked = l
  BY DEF Vec

LEMMA OpenVecFields ==
  /\ \A n, z, x, k :
       /\ OpenVec(n, z, x, k).name = n /\ OpenVec(n, z, x, k).size = z
       /\ OpenVec(n, z, x, k).current = x /\ OpenVec(n, z, x, k).keys = k
       /\ ~OpenVec(n, z, x, k).locked
  /\ \A n \in Name \cup {None}, z \in 0 .. MaxRows, x \in Buffer \cup {None},
        k \in Seq(KeyOfChunk) : OpenVec(n, z, x, k) \in Vector
  /\ \A v \in Vector : ~v.locked => v = OpenVec(v.name, v.size, v.current, v.keys)
<1>1. ASSUME NEW n, NEW z, NEW x, NEW k
      PROVE  /\ OpenVec(n, z, x, k).name = n /\ OpenVec(n, z, x, k).size = z
             /\ OpenVec(n, z, x, k).current = x /\ OpenVec(n, z, x, k).keys = k
             /\ ~OpenVec(n, z, x, k).locked
  <2>1. PICK l : l = FALSE
    OBVIOUS
  <2>2. OpenVec(n, z, x, k) = Vec(n, z, x, k, l)
    BY <2>1, Zenon DEF OpenVec
  <2>3. OpenVec(n, z, x, k).locked = l
    BY <2>2, VecFields
  <2>4. ~OpenVec(n, z, x, k).locked
    BY <2>1, <2>3, Zenon
  <2> QED  BY <2>2, <2>4, VecFields
<1>2. ASSUME NEW n \in Name \cup {None}, NEW z \in 0 .. MaxRows, NEW x \in Buffer \cup {None},
             NEW k \in Seq(KeyOfChunk)
      PROVE  OpenVec(n, z, x, k) \in Vector
  <2>1. PICK l \in BOOLEAN : l = FALSE
    OBVIOUS
  <2>2. OpenVec(n, z, x, k) = Vec(n, z, x, k, l)
    BY <2>1, Zenon DEF OpenVec
  <2> QED  BY <2>2, VectorParts
<1>3. ASSUME NEW v \in Vector, ~v.locked
      PROVE  v = OpenVec(v.name, v.size, v.current, v.keys)
  <2>1. PICK l \in BOOLEAN : l = v.locked
    BY VectorParts
  <2>2. l = FALSE
    BY <1>3, <2>1, Zenon
  <2>3. v = Vec(v.name, v.size, v.current, v.keys, l)
    BY <2>1, VectorParts
  <2> QED  BY <2>2, <2>3, Zenon DEF OpenVec
<1> QED  BY <1>1, <1>2, <1>3

LEMMA LockedVecFields ==
  /\ \A n, z, x, k :
       /\ LockedVec(n, z, x, k).name = n /\ LockedVec(n, z, x, k).size = z
       /\ LockedVec(n, z, x, k).current = x /\ LockedVec(n, z, x, k).keys = k
       /\ LockedVec(n, z, x, k).locked
  /\ \A n \in Name \cup {None}, z \in 0 .. MaxRows, x \in Buffer \cup {None},
        k \in Seq(KeyOfChunk) : LockedVec(n, z, x, k) \in Vector
  /\ \A v \in Vector : v.locked => v = LockedVec(v.name, v.size, v.current, v.keys)
<1>1. ASSUME NEW n, NEW z, NEW x, NEW k
      PROVE  /\ LockedVec(n, z, x, k).name = n /\ LockedVec(n, z, x, k).size = z
             /\ LockedVec(n, z, x, k).current = x /\ LockedVec(n, z, x, k).keys = k
             /\ LockedVec(n, z, x, k).locked
  <2>1. PICK l : l = TRUE
    OBVIOUS
  <2>2. LockedVec(n, z, x, k) = Vec(n, z, x, k, l)
    BY <2>1, Zenon DEF LockedVec
  <2>3. LockedVec(n, z, x, k).locked = l
    BY <2>2, VecFields
  <2>4. LockedVec(n, z, x, k).locked
    BY <2>1, <2>3, Zenon
  <2> QED  BY <2>2, <2>4, VecFields
<1>2. ASSUME NEW n \in Name \cup {None}, NEW z \in 0 .. MaxRows, NEW x \in Buffer \cup {None},
             NEW k \in Seq(KeyOfChunk)
      PROVE  LockedVec(n, z, x, k) \in Vector
  <2>1. PICK l \in BOOLEAN : l = TRUE
    OBVIOUS
  <2>2. LockedVec(n, z, x, k) = Vec(n, z, x, k, l)
    BY <2>1, Zenon DEF LockedVec
  <2> QED  BY <2>2, VectorParts
<1>3. ASSUME NEW v \in Vector, v.locked
      PROVE  v = LockedVec(v.name, v.size, v.current, v.keys)
  <2>1. PICK l \in BOOLEAN : l = v.locked
    BY VectorParts
  <2>2. l = TRUE
    BY <1>3, <2>1, Zenon
  <2>3. v = Vec(v.name, v.size, v.current, v.keys, l)
    BY <2>1, VectorParts
  <2> QED  BY <2>2, <2>3, Zenon DEF LockedVec
<1> QED  BY <1>1, <1>2, <1>3

LEMMA PairFields ==
  ASSUME NEW v, NEW s
  PROVE  Pair(v, s).v = v /\ Pair(v, s).s = s
  BY DEF Pair

-----------------------------------------------------------------------------
(* What the operations on a column do to its parts.                        *)

(* The store after chunk x was put at its key.                             *)
Put(s, c, x) == [s EXCEPT ![c] = x]

(* keys_ after chunk i of the column b was stored.                         *)
WithChunk(k, b, i) == Append(SubSeq(k, 1, i), ChunkKey(b, i, i % NumNodes))

LEMMA StoreChunkParts ==
  ASSUME NEW n, NEW z, NEW x, NEW k, NEW l, NEW s
  PROVE  StoreChunk(Pair(Vec(n, z, x, k, l), s)) =
           Pair(Vec(n, z, None, WithChunk(k, n, x.idx), l), Put(s, ChunkOf(n, x.idx), x))
<1>1. PICK p : p = Pair(Vec(n, z, x, k, l), s)
  OBVIOUS
<1>2. PICK i : i = x.idx
  OBVIOUS
<1>3. PICK c : c = ChunkKey(n, i, i % NumNodes)
  OBVIOUS
<1>4. PICK y : y = Append(SubSeq(k, 1, i), c)
  OBVIOUS
<1>5. c.chunk = ChunkOf(n, i)
  BY <1>3 DEF ChunkKey, ChunkOf
<1>6. p.v = Vec(n, z, x, k, l) /\ p.s = s
  BY <1>1, PairFields
<1>7. p.v.current = x /\ p.v.name = n /\ p.v.keys = k
  BY <1>6, VecFields
<1>8. StoreChunk(p) = Pair([p.v EXCEPT !.keys = y, !.current = None], Put(s, c.chunk, x))
  BY <1>2, <1>3, <1>4, <1>6, <1>7 DEF StoreChunk, Pair, Put
<1>9. [p.v EXCEPT !.keys = y, !.current = None] = Vec(n, z, None, y, l)
  <2>1. [Vec(n, z, x, k, l) EXCEPT !.keys = y] = Vec(n, z, x, y, l)
    BY DEF Vec
  <2>2. [Vec(n, z, x, y, l) EXCEPT !.current = None] = Vec(n, z, None, y, l)
    BY DEF Vec
  <2> QED  BY <1>6, <2>1, <2>2
<1>10. y = WithChunk(k, n, i)
  BY <1>3, <1>4 DEF WithChunk
<1> QED  BY <1>1, <1>2, <1>5, <1>8, <1>9, <1>10

(* The field f was written to the buffer.                                  *)
FieldAdded(p, f) == [p EXCEPT !.v.current.fields = Append(@, f), !.v.size = @ + 1]

LEMMA FieldAddedParts ==
  ASSUME NEW n, NEW z, NEW i, NEW fs, NEW k, NEW l, NEW s, NEW f
  PROVE  FieldAdded(Pair(Vec(n, z, Chunk(i, fs), k, l), s), f) =
         Pair(Vec(n, z + 1, Chunk(i, Append(fs, f)), k, l), s)
<1>1. PICK x : x = Chunk(i, fs)
  OBVIOUS
<1>2. PICK v : v = Vec(n, z, x, k, l)
  OBVIOUS
<1>3. PICK p : p = Pair(v, s)
  OBVIOUS
<1>4. [p EXCEPT !.v.current.fields = Append(@, f)] = Pair(Vec(n, z, Chunk(i, Append(fs, f)), k, l), s)
  <2>1. [x EXCEPT !.fields = Append(@, f)] = Chunk(i, Append(fs, f))
    BY <1>1 DEF Chunk
  <2>2. [v EXCEPT !.current = [x EXCEPT !.fields = Append(@, f)]]
          = Vec(n, z, Chunk(i, Append(fs, f)), k, l)
    BY <1>2, <2>1 DEF Vec
  <2>3. [p EXCEPT !.v.current.fields = Append(@, f)]
          = [p EXCEPT !.v = [v EXCEPT !.current = [x EXCEPT !.fields = Append(@, f)]]]
    BY <1>1, <1>2, <1>3 DEF Pair, Vec
  <2>4. PICK w : w = [v EXCEPT !.current = [x EXCEPT !.fields = Append(@, f)]]
    OBVIOUS
  <2>5. [p EXCEPT !.v = w] = Pair(w, s)
    BY <1>3 DEF Pair
  <2> QED  BY <2>2, <2>3, <2>4, <2>5
<1>5. PICK y : y = Chunk(i, Append(fs, f))
  OBVIOUS
<1>6. [Pair(Vec(n, z, y, k, l), s) EXCEPT !.v.size = @ + 1] = Pair(Vec(n, z + 1, y, k, l), s)
  BY DEF Pair, Vec
<1>7. [p EXCEPT !.v.current.fields = Append(@, f), !.v.size = @ + 1]
        = [[p EXCEPT !.v.current.fields = Append(@, f)] EXCEPT !.v.size = @ + 1]
  OBVIOUS
<1>8. FieldAdded(p, f) = [p EXCEPT !.v.current.fields = Append(@, f), !.v.size = @ + 1]
  BY DEF FieldAdded
<1> QED  BY <1>1, <1>2, <1>3, <1>4, <1>5, <1>6, <1>7, <1>8

LEMMA AppendFieldParts ==
  ASSUME NEW n, NEW z, NEW i, NEW fs, NEW k, NEW l, NEW s, NEW f
  PROVE  LET p == Pair(Vec(n, z, Chunk(i, fs), k, l), s)
         IN /\ Len(fs) < ChunkSize =>
                 AppendField(p, f) = Pair(Vec(n, z + 1, Chunk(i, Append(fs, f)), k, l), s)
            /\ ~(Len(fs) < ChunkSize) =>
                 AppendField(p, f) =
                   Pair(Vec(n, z + 1, Chunk(i + 1, <<f>>), WithChunk(k, n, i), l),
                        Put(s, ChunkOf(n, i), Chunk(i, fs)))
<1>1. PICK x : x = Chunk(i, fs)
  OBVIOUS
<1>2. PICK p : p = Pair(Vec(n, z, x, k, l), s)
  OBVIOUS
<1>3. p.v.current = x /\ x.fields = fs /\ x.idx = i
  BY <1>1, <1>2, PairFields, VecFields, ChunkFields
<1>4. CASE Len(fs) < ChunkSize
  <2>1. AppendField(p, f) = FieldAdded(p, f)
    BY <1>3, <1>4 DEF AppendField, FieldAdded
  <2> QED  BY <1>1, <1>2, <1>4, <2>1, FieldAddedParts
<1>5. CASE ~(Len(fs) < ChunkSize)
  <2> DEFINE Set(w, y) == [w EXCEPT !.v.current = y]
  <2>1. PICK q : q = Set(StoreChunk(p), Chunk(i + 1, <<>>))
    OBVIOUS
  <2>2. AppendField(p, f) = FieldAdded(q, f)
    BY <1>3, <1>5, <2>1 DEF AppendField, FieldAdded
  <2>3. PICK t : t = Put(s, ChunkOf(n, i), x)
    OBVIOUS
  <2>4. PICK y : y = WithChunk(k, n, i)
    OBVIOUS
  <2>5. StoreChunk(p) = Pair(Vec(n, z, None, y, l), t)
    BY <1>2, <1>3, <2>3, <2>4, StoreChunkParts
  <2>6. PICK c : c = Chunk(i + 1, <<>>)
    OBVIOUS
  <2>7. Set(Pair(Vec(n, z, None, y, l), t), c) = Pair(Vec(n, z, c, y, l), t)
    BY DEF Pair, Vec
  <2> HIDE DEF Set
  <2>8. q = Pair(Vec(n, z, Chunk(i + 1, <<>>), y, l), t)
    BY <2>1, <2>5, <2>6, <2>7
  <2>9. AppendField(p, f) = Pair(Vec(n, z + 1, Chunk(i + 1, Append(<<>>, f)), y, l), t)
    <3>1. PICK j, e : j = i + 1 /\ e = <<>>
      OBVIOUS
    <3>2. FieldAdded(Pair(Vec(n, z, Chunk(j, e), y, l), t), f)
            = Pair(Vec(n, z + 1, Chunk(j, Append(e, f)), y, l), t)
      BY FieldAddedParts
    <3> QED  BY <2>2, <2>8, <3>1, <3>2
  <2>10. Append(<<>>, f) = <<f>>
    OBVIOUS
  <2> QED  BY <1>1, <1>2, <1>5, <2>3, <2>4, <2>9, <2>10
<1> QED  BY <1>4, <1>5

LEMMA LockParts ==
  ASSUME NEW n, NEW z, NEW x, NEW k, NEW l, NEW s
  PROVE  LET p == Pair(Vec(n, z, x, k, l), s)
         IN /\ x.fields # <<>> =>
                 Lock(p) = Pair(LockedVec(n, z, None, WithChunk(k, n, x.idx)),
                                Put(s, ChunkOf(n, x.idx), x))
            /\ x.fields = <<>> => Lock(p) = Pair(LockedVec(n, z, x, k), s)
<1>1. PICK p : p = Pair(Vec(n, z, x, k, l), s)
  OBVIOUS
<1>2. p.v.current = x
  BY <1>1, PairFields, VecFields
<1> DEFINE Set(q) == [q EXCEPT !.v.locked = TRUE]
<1>3. ASSUME NEW y, NEW kk, NEW t
      PROVE  Set(Pair(Vec(n, z, y, kk, l), t)) = Pair(LockedVec(n, z, y, kk), t)
  <2>1. PICK b : b = TRUE
    OBVIOUS
  <2>2. [Pair(Vec(n, z, y, kk, l), t) EXCEPT !.v.locked = b] = Pair(Vec(n, z, y, kk, b), t)
    BY DEF Pair, Vec
  <2> QED  BY <2>1, <2>2, Zenon DEF LockedVec
<1>4. CASE x.fields # <<>>
  <2>1. PICK t : t = Put(s, ChunkOf(n, x.idx), x)
    OBVIOUS
  <2>2. PICK y : y = WithChunk(k, n, x.idx)
    OBVIOUS
  <2>3. StoreChunk(p) = Pair(Vec(n, z, None, y, l), t)
    BY <1>1, <2>1, <2>2, StoreChunkParts
  <2>4. Lock(p) = Set(StoreChunk(p))
    BY <1>2, <1>4 DEF Lock
  <2> HIDE DEF Set
  <2> QED  BY <1>1, <1>3, <1>4, <2>1, <2>2, <2>3, <2>4
<1>5. CASE x.fields = <<>>
  <2>1. Lock(p) = Set(p)
    BY <1>2, <1>5 DEF Lock
  <2> HIDE DEF Set
  <2> QED  BY <1>1, <1>3, <1>5, <2>1
<1> QED  BY <1>4, <1>5

LEMMA UnlockParts ==
  ASSUME NEW n, NEW z, NEW x, NEW k, NEW l, NEW s
  PROVE  Unlock(Pair(Vec(n, z, x, k, l), s)) = Pair(OpenVec(n, z, s[Last(k).chunk], k), s)
<1>1. PICK p : p = Pair(Vec(n, z, x, k, l), s)
  OBVIOUS
<1>2. PICK y : y = s[Last(k).chunk]
  OBVIOUS
<1> DEFINE Set(q, c, b) == [q EXCEPT !.v.current = c, !.v.locked = b]
<1>3. Unlock(p) = Set(p, p.s[Last(p.v.keys).chunk], FALSE)
  BY DEF Unlock
<1>4. p.s[Last(p.v.keys).chunk] = y
  BY <1>1, <1>2, PairFields, VecFields
<1>5. ASSUME NEW b PROVE Set(p, y, b) = Pair(Vec(n, z, y, k, b), s)
  <2>1. [p EXCEPT !.v.current = y] = Pair(Vec(n, z, y, k, l), s)
    BY <1>1 DEF Pair, Vec
  <2>2. [Pair(Vec(n, z, y, k, l), s) EXCEPT !.v.locked = b] = Pair(Vec(n, z, y, k, b), s)
    BY DEF Pair, Vec
  <2>3. Set(p, y, b) = [[p EXCEPT !.v.current = y] EXCEPT !.v.locked = b]
    OBVIOUS
  <2> HIDE DEF Set
  <2> QED  BY <2>1, <2>2, <2>3
<1> HIDE DEF Set
<1>6. Unlock(p) = Set(p, y, FALSE)
  BY <1>3, <1>4, Zenon
<1>7. Set(p, y, FALSE) = Pair(OpenVec(n, z, y, k), s)
  BY <1>5, Zenon DEF OpenVec
<1> QED  BY <1>1, <1>2, <1>6, <1>7, Zenon

LEMMA CachedParts ==
  ASSUME NEW v \in Vector, NEW s, NEW i
  PROVE  LET c == i \div ChunkSize
         IN Cached(v, s, i) = IF v.current # None /\ v.current.idx = c THEN v
                              ELSE Vec(v.name, v.size, s[v.keys[c + 1].chunk], v.keys, v.locked)
<1>1. PICK y : y = s[v.keys[(i \div ChunkSize) + 1].chunk]
  OBVIOUS
<1>2. v = Vec(v.name, v.size, v.current, v.keys, v.locked)
  BY VectorParts
<1>3. \A n, z, x, k, l : [Vec(n, z, x, k, l) EXCEPT !.current = y] = Vec(n, z, y, k, l)
  BY DEF Vec
<1>4. [v EXCEPT !.current = y] = Vec(v.name, v.size, y, v.keys, v.locked)
  BY <1>2, <1>3
<1> QED  BY <1>1, <1>4 DEF Cached

LEMMA DeserializedParts ==
  ASSUME NEW v \in Vector
  PROVE  Deserialized(v) = Vec(None, v.size, None, v.keys, v.locked)
<1>1. PICK n, z, x, k, l : v = Vec(n, z, x, k, l)
  BY VectorParts
<1>2. [Vec(n, z, x, k, l) EXCEPT !.name = None] = Vec(None, z, x, k, l)
  BY DEF Vec
<1>3. [Vec(None, z, x, k, l) EXCEPT !.current = None] = Vec(None, z, None, k, l)
  BY DEF Vec
<1>4. Deserialized(v) = [[v EXCEPT !.name = None] EXCEPT !.current = None]
  BY DEF Deserialized
<1>5. Deserialized(v) = Vec(None, z, None, k, l)
  BY <1>1, <1>2, <1>3, <1>4
<1> QED  BY <1>1, <1>5, VecFields

-----------------------------------------------------------------------------
(* A column b with the fields col.                                         *)

(* The keys of the chunks of the column b, in order.                       *)
KeysAt(k, b) ==
  /\ k \in Seq(KeyOfChunk)
  /\ \A j \in 1 .. Len(k) : k[j] = ChunkKey(b, j - 1, (j - 1) % NumNodes)

(* The chunk x has field r of col.                                         *)
Has(x, col, r) ==
  /\ x \in Buffer /\ x.idx = r \div ChunkSize
  /\ r % ChunkSize < Len(x.fields) /\ x.fields[(r % ChunkSize) + 1] = col[r + 1]

(* Chunk i of the column b is in the store.                                *)
Kept(s, b, i) ==
  /\ s[ChunkOf(b, i)] \in Buffer
  /\ s[ChunkOf(b, i)].idx = i /\ s[ChunkOf(b, i)].fields # <<>>

(* The chunk y has the fields of x, and maybe more.                        *)
Extended(x, y) ==
  x \in Buffer => /\ y \in Buffer /\ y.idx = x.idx /\ Len(x.fields) <= Len(y.fields)
                  /\ \A a \in 1 .. Len(x.fields) : y.fields[a] = x.fields[a]

(* The store s became t; of the column b, whose first n chunks are in it,  *)
(* chunks before chunk m were added or extended.                           *)
Written(s, t, b, n, m) ==
  \A c \in ChunkName :
    \/ t[c] = s[c]
    \/ c[1] = b[1] /\ c[2] = b[2] /\ c[3] < m /\ (c[3] >= n \/ Extended(s[c], t[c]))

(* The chunk x is the last one of col.                                     *)
AtEnd(x, col) ==
  /\ col = <<>> => x.idx = 0 /\ x.fields = <<>>
  /\ col # <<>> => /\ (Len(col) - 1) \div ChunkSize = x.idx
                   /\ ((Len(col) - 1) % ChunkSize) + 1 = Len(x.fields)

(* A column to which fields are appended: its last chunk is in the buffer. *)
Open(v, s, b, col) ==
  /\ v \in Vector /\ v.name = b /\ b \in Name /\ ~v.locked /\ KeysAt(v.keys, b)
  /\ col \in Seq(Data) /\ v.size = Len(col)
  /\ v.current \in Buffer /\ AtEnd(v.current, col)
  /\ \A r \in 0 .. Len(col) - 1 :
       /\ r \div ChunkSize <= v.current.idx
       /\ r \div ChunkSize < v.current.idx => Has(s[ChunkOf(b, r \div ChunkSize)], col, r)
       /\ r \div ChunkSize = v.current.idx => Has(v.current, col, r)
  /\ \A i \in 0 .. v.current.idx - 1 : Kept(s, b, i)
  /\ \/ Len(v.keys) = v.current.idx
     \/ /\ Len(v.keys) = v.current.idx + 1
        /\ Kept(s, b, v.current.idx)
        /\ Extended(s[ChunkOf(b, v.current.idx)], v.current)

(* A column that is read: its chunks are in the store, and one of them may *)
(* be cached.                                                              *)
Closed(v, s, b, col) ==
  /\ v \in Vector /\ v.name \in {b, None} /\ b \in Name /\ v.locked /\ KeysAt(v.keys, b)
  /\ col \in Seq(Data) /\ v.size = Len(col)
  /\ Len(v.keys) = IF col = <<>> THEN 0 ELSE ((Len(col) - 1) \div ChunkSize) + 1
  /\ v.current # None => \A r \in 0 .. Len(col) - 1 :
                            r \div ChunkSize = v.current.idx => Has(v.current, col, r)
  /\ \A r \in 0 .. Len(col) - 1 : Has(s[ChunkOf(b, r \div ChunkSize)], col, r)
  /\ \A i \in 0 .. Len(v.keys) - 1 : Kept(s, b, i)

(* Its last chunk has no other fields than the column's.                   *)
Exact(v, s, b) ==
  v.keys # <<>> =>
    Len(s[ChunkOf(b, Len(v.keys) - 1)].fields) = ((v.size - 1) % ChunkSize) + 1

LEMMA ChunkNames ==
  /\ \A b \in Name, i \in 0 .. MaxRows : ChunkOf(b, i) \in ChunkName
  /\ \A b \in Name : \A i : ChunkOf(b, i)[1] = b[1] /\ ChunkOf(b, i)[2] = b[2] /\ ChunkOf(b, i)[3] = i
  /\ \A b, d \in Name : \A i, j : ChunkOf(b, i) = ChunkOf(d, j) => b = d /\ i = j
  /\ \A c \in ChunkName, b \in Name : c[1] = b[1] /\ c[2] = b[2] => c = ChunkOf(b, c[3])
  BY DEF ChunkOf, ChunkName, Name

LEMMA ChunkKeys ==
  ASSUME NEW b \in Name, NEW i \in 0 .. MaxRows
  PROVE  /\ ChunkKey(b, i, i % NumNodes) \in KeyOfChunk
         /\ ChunkKey(b, i, i % NumNodes).chunk = ChunkOf(b, i)
         /\ ChunkKey(b, i, i % NumNodes).home = i % NumNodes
<1>1. i % NumNodes \in 0 .. NumNodes - 1
  BY NumNodesAssumption, MaxRowsAssumption
<1>2. <<b[1], b[2], i>> \in ChunkName
  BY DEF ChunkName, Name
<1> QED  BY <1>1, <1>2 DEF ChunkKey, KeyOfChunk, ChunkOf

LEMMA WithChunkKeys ==
  ASSUME NEW b \in Name, NEW k, KeysAt(k, b), NEW i \in 0 .. MaxRows, i <= Len(k)
  PROVE  /\ KeysAt(WithChunk(k, b, i), b) /\ Len(WithChunk(k, b, i)) = i + 1
<1>1. k \in Seq(KeyOfChunk) /\ i \in Nat /\ Len(k) \in Nat
  BY MaxRowsAssumption DEF KeysAt
<1>2. PICK c : c = ChunkKey(b, i, i % NumNodes)
  OBVIOUS
<1>3. c \in KeyOfChunk
  BY <1>2, ChunkKeys
<1>4. SubSeq(k, 1, i) \in Seq(KeyOfChunk) /\ Len(SubSeq(k, 1, i)) = i
      /\ \A j \in 1 .. i : SubSeq(k, 1, i)[j] = k[j]
  BY <1>1
<1>5. WithChunk(k, b, i) = Append(SubSeq(k, 1, i), c)
  BY <1>2 DEF WithChunk
<1>6. PICK y : y = SubSeq(k, 1, i)
  OBVIOUS
<1>7. /\ Append(y, c) \in Seq(KeyOfChunk) /\ Len(Append(y, c)) = i + 1
      /\ \A j \in 1 .. i : Append(y, c)[j] = k[j]
      /\ Append(y, c)[i + 1] = c
  BY <1>1, <1>3, <1>4, <1>6
<1>8. ASSUME NEW j \in 1 .. i + 1
      PROVE  Append(y, c)[j] = ChunkKey(b, j - 1, (j - 1) % NumNodes)
  <2>1. CASE j \in 1 .. i
    <3>1. j \in 1 .. Len(k)
      BY <1>1, <2>1
    <3> QED  BY <1>7, <2>1, <3>1 DEF KeysAt
  <2>2. CASE j = i + 1
    <3>1. j - 1 = i
      BY <1>1, <2>2
    <3>2. Append(y, c)[j] = c
      BY <1>7, <2>2
    <3>3. ChunkKey(b, j - 1, (j - 1) % NumNodes) = c
      BY <1>2, <3>1
    <3> QED  BY <3>2, <3>3
  <2>3. j \in 1 .. i \/ j = i + 1
    BY <1>1
  <2> QED  BY <2>1, <2>2, <2>3
<1> QED  BY <1>5, <1>6, <1>7, <1>8 DEF KeysAt

LEMMA HasMore ==
  ASSUME NEW x, NEW y, NEW col \in Seq(Data), NEW r \in 0 .. Len(col) - 1, Has(x, col, r)
  PROVE  /\ \A f : Has(x, Append(col, f), r)
         /\ Extended(x, y) => Has(y, col, r)
<1>1. r \in Nat /\ r + 1 \in 1 .. Len(col)
  OBVIOUS
<1>2. ASSUME NEW f PROVE Has(x, Append(col, f), r)
  <2>1. Append(col, f)[r + 1] = col[r + 1]
    BY <1>1
  <2> QED  BY <2>1 DEF Has
<1>3. ASSUME Extended(x, y) PROVE Has(y, col, r)
  <2>1. x \in Buffer /\ y \in Buffer /\ Len(x.fields) \in Nat /\ Len(y.fields) \in Nat
    BY <1>3, BufferParts DEF Has, Extended
  <2>2. r % ChunkSize \in Nat
    BY <1>1, Places
  <2>3. (r % ChunkSize) + 1 \in 1 .. Len(x.fields)
    BY <2>1, <2>2 DEF Has
  <2>4. Len(x.fields) <= Len(y.fields) /\ y.idx = x.idx
        /\ y.fields[(r % ChunkSize) + 1] = x.fields[(r % ChunkSize) + 1]
    BY <1>3, <2>1, <2>3 DEF Extended
  <2>5. r % ChunkSize < Len(y.fields)
    BY <2>1, <2>2, <2>3, <2>4
  <2> QED  BY <2>1, <2>4, <2>5 DEF Has
<1> QED  BY <1>2, <1>3

LEMMA StorePut ==
  ASSUME NEW s \in Store, NEW b \in Name, NEW i \in 0 .. MaxRows, NEW x \in Buffer
  PROVE  /\ Put(s, ChunkOf(b, i), x) \in Store
         /\ Put(s, ChunkOf(b, i), x)[ChunkOf(b, i)] = x
         /\ \A c : c \in ChunkName /\ c # ChunkOf(b, i) => Put(s, ChunkOf(b, i), x)[c] = s[c]
<1>1. ChunkOf(b, i) \in ChunkName
  BY ChunkNames
<1> QED  BY <1>1 DEF Store, Put

(* Where the field after the last one goes.                                *)
LEMMA NextField ==
  ASSUME NEW x \in Buffer, NEW col \in Seq(Data), AtEnd(x, col)
  PROVE  LET r == Len(col) IN
         /\ Len(x.fields) < ChunkSize =>
              r \div ChunkSize = x.idx /\ r % ChunkSize = Len(x.fields)
         /\ ~(Len(x.fields) < ChunkSize) =>
              /\ r \div ChunkSize = x.idx + 1 /\ r % ChunkSize = 0 /\ col # <<>>
              /\ x.fields # <<>>
<1>1. x.idx \in Nat /\ Len(x.fields) \in Nat /\ Len(x.fields) <= ChunkSize
      /\ x.fields \in Seq(Data)
  BY BufferParts, MaxRowsAssumption
<1>2. CASE col = <<>>
  <2>1. Len(col) = 0 /\ Len(x.fields) = 0 /\ x.idx = 0
    BY <1>2 DEF AtEnd
  <2>2. Len(x.fields) < ChunkSize
    BY <2>1, ChunkSizeAssumption
  <2> QED  BY <2>1, <2>2, FirstPlace
<1>3. CASE col # <<>>
  <2>1. PICK r \in Nat : r = Len(col) - 1 /\ Len(col) = r + 1
    BY <1>3
  <2>2. r \div ChunkSize = x.idx /\ (r % ChunkSize) + 1 = Len(x.fields)
    BY <1>3, <2>1 DEF AtEnd
  <2>3. r % ChunkSize \in Nat
    BY Places
  <2>4. x.fields # <<>>
    BY <1>1, <2>2, <2>3
  <2>5. CASE Len(x.fields) < ChunkSize
    BY <2>1, <2>2, <2>5, NextPlace
  <2>6. CASE ~(Len(x.fields) < ChunkSize)
    BY <1>3, <2>1, <2>2, <2>4, <2>6, NextPlace
  <2> QED  BY <2>5, <2>6
<1> QED  BY <1>2, <1>3

LEMMA OpenParts ==
  ASSUME NEW v, NEW s, NEW b, NEW col, Open(v, s, b, col)
  PROVE  /\ v = OpenVec(b, Len(col), Chunk(v.current.idx, v.current.fields), v.keys)
         /\ v.current = Chunk(v.current.idx, v.current.fields)
         /\ v.current \in Buffer /\ v.current.idx \in 0 .. MaxRows /\ v.current.idx \in Nat
         /\ v.current.fields \in Seq(Data) /\ Len(v.current.fields) <= ChunkSize
         /\ v.keys \in Seq(KeyOfChunk) /\ b \in Name /\ Len(col) \in 0 .. MaxRows
         /\ v.current.idx <= Len(v.keys)
<1>1. v \in Vector /\ v.name = b /\ v.size = Len(col) /\ ~v.locked /\ v.current \in Buffer
      /\ b \in Name
  BY DEF Open
<1>2. v = Vec(v.name, v.size, v.current, v.keys, v.locked) /\ v.keys \in Seq(KeyOfChunk)
      /\ v.size \in 0 .. MaxRows
  BY <1>1, VectorParts
<1>3. v.current = Chunk(v.current.idx, v.current.fields) /\ v.current.idx \in 0 .. MaxRows
      /\ v.current.fields \in Seq(Data) /\ Len(v.current.fields) <= ChunkSize
  BY <1>1, BufferParts
<1>4. v.current.idx \in Nat
  BY <1>3, MaxRowsAssumption
<1>5. v.current.idx <= Len(v.keys)
  <2>1. Len(v.keys) = v.current.idx \/ Len(v.keys) = v.current.idx + 1
    BY DEF Open
  <2> QED  BY <1>4, <2>1
<1>6. v = OpenVec(b, Len(col), v.current, v.keys)
  BY <1>1, OpenVecFields
<1> QED  BY <1>1, <1>2, <1>3, <1>4, <1>5, <1>6

(* append adds the field, and touches no chunk but the last one.           *)
Appended(w, t, v, s, b, col, f) ==
  /\ t \in Store /\ Open(w, t, b, Append(col, f))
  /\ Written(s, t, b, Len(v.keys), Len(w.keys)) /\ Len(w.keys) >= Len(v.keys)
  /\ Len(v.keys) = v.current.idx => Len(w.keys) = w.current.idx

LEMMA AppendInChunk ==
  ASSUME NEW s \in Store, NEW v, NEW b, NEW col, Open(v, s, b, col),
         NEW f \in Data, Len(col) < MaxRows, Len(v.current.fields) < ChunkSize
  PROVE  LET w == OpenVec(b, Len(col) + 1, Chunk(v.current.idx, Append(v.current.fields, f)),
                          v.keys)
         IN Appended(w, s, v, s, b, col, f)
<1>1. PICK i, fs : i = v.current.idx /\ fs = v.current.fields
  OBVIOUS
<1>2. PICK y : y = Chunk(i, Append(fs, f))
  OBVIOUS
<1>3. PICK w : w = OpenVec(b, Len(col) + 1, y, v.keys)
  OBVIOUS
<1>4. i \in 0 .. MaxRows /\ i \in Nat /\ fs \in Seq(Data) /\ Len(fs) < ChunkSize
      /\ v.keys \in Seq(KeyOfChunk) /\ b \in Name
  BY <1>1, OpenParts
<1>5. col \in Seq(Data) /\ Len(col) \in Nat /\ AtEnd(v.current, col)
  BY DEF Open
<1>6. Len(col) \div ChunkSize = i /\ Len(col) % ChunkSize = Len(fs)
  BY <1>1, <1>5, NextField, OpenParts
<1>7. PICK c2 : c2 = Append(col, f)
  OBVIOUS
<1>8. c2 \in Seq(Data) /\ Len(c2) = Len(col) + 1 /\ c2 # <<>> /\ c2[Len(col) + 1] = f
  BY <1>5, <1>7
<1>9. y \in Buffer /\ y.idx = i /\ y.fields = Append(fs, f)
  <2>1. Append(fs, f) \in Seq(Data) /\ Len(Append(fs, f)) <= ChunkSize
    BY <1>4, ChunkSizeAssumption
  <2> QED  BY <1>2, <1>4, <2>1, BufferParts, ChunkFields
<1>10. w \in Vector
  <2>1. Len(col) + 1 \in 0 .. MaxRows
    BY <1>5, MaxRowsAssumption
  <2> QED  BY <1>3, <1>4, <1>9, <2>1, OpenVecFields
<1>11. w.name = b /\ w.size = Len(c2) /\ w.current = y /\ w.keys = v.keys /\ ~w.locked
  BY <1>3, <1>8, OpenVecFields
<1>12. AtEnd(y, c2)
  <2>1. Len(c2) - 1 = Len(col)
    BY <1>5, <1>8
  <2>2. Len(Append(fs, f)) = Len(fs) + 1
    BY <1>4
  <2> QED  BY <1>6, <1>8, <1>9, <2>1, <2>2 DEF AtEnd
<1>13. Extended(v.current, y)
  <2>1. v.current \in Buffer /\ v.current.idx = i /\ v.current.fields = fs
    BY <1>1, OpenParts
  <2>2. Len(fs) <= Len(Append(fs, f)) /\ \A a \in 1 .. Len(fs) : Append(fs, f)[a] = fs[a]
    BY <1>4
  <2> QED  BY <1>9, <2>1, <2>2 DEF Extended
<1>14. ASSUME NEW r \in 0 .. Len(c2) - 1
       PROVE  /\ r \div ChunkSize <= i
              /\ r \div ChunkSize < i => Has(s[ChunkOf(b, r \div ChunkSize)], c2, r)
              /\ r \div ChunkSize = i => Has(y, c2, r)
  <2>1. r \in 0 .. Len(col) - 1 \/ r = Len(col)
    BY <1>5, <1>8
  <2>2. CASE r \in 0 .. Len(col) - 1
    <3>1. /\ r \div ChunkSize <= i
          /\ r \div ChunkSize < i => Has(s[ChunkOf(b, r \div ChunkSize)], col, r)
          /\ r \div ChunkSize = i => Has(v.current, col, r)
      BY <1>1, <2>2 DEF Open
    <3>2. Has(y, col, r) => Has(y, c2, r)
      BY <1>5, <1>7, <2>2, HasMore
    <3>3. Has(v.current, col, r) => Has(y, col, r)
      BY <1>5, <1>13, <2>2, HasMore
    <3>4. Has(s[ChunkOf(b, r \div ChunkSize)], col, r)
            => Has(s[ChunkOf(b, r \div ChunkSize)], c2, r)
      BY <1>5, <1>7, <2>2, HasMore
    <3> QED  BY <3>1, <3>2, <3>3, <3>4
  <2>3. CASE r = Len(col)
    <3>1. Len(fs) < Len(Append(fs, f)) /\ Append(fs, f)[Len(fs) + 1] = f
      BY <1>4
    <3>2. Has(y, c2, r)
      BY <1>6, <1>8, <1>9, <2>3, <3>1 DEF Has
    <3>3. r \div ChunkSize = i
      BY <1>6, <2>3
    <3>4. i <= i /\ ~(i < i)
      BY <1>4
    <3> QED  BY <3>2, <3>3, <3>4
  <2> QED  BY <2>1, <2>2, <2>3
<1>15. \A j \in 0 .. i - 1 : Kept(s, b, j)
  BY <1>1 DEF Open
<1>16. \/ Len(v.keys) = i
       \/ Len(v.keys) = i + 1 /\ Kept(s, b, i) /\ Extended(s[ChunkOf(b, i)], y)
  <2>1. CASE Len(v.keys) = i
    BY <2>1
  <2>2. CASE Len(v.keys) # i
    <3>1. Len(v.keys) = i + 1 /\ Kept(s, b, i) /\ Extended(s[ChunkOf(b, i)], v.current)
      BY <1>1, <2>2 DEF Open
    <3>2. PICK z : z = s[ChunkOf(b, i)]
      OBVIOUS
    <3>3. z \in Buffer /\ Extended(z, v.current)
      BY <3>1, <3>2 DEF Kept
    <3>4. Extended(z, y)
      <4>1. v.current.fields = fs /\ Len(fs) \in Nat /\ v.current.idx = i
        BY <1>1, <1>4
      <4>2. z.idx = i /\ Len(z.fields) <= Len(fs) /\ Len(z.fields) \in Nat
            /\ \A a \in 1 .. Len(z.fields) : fs[a] = z.fields[a]
        BY <3>3, <4>1, BufferParts DEF Extended
      <4>3. \A a \in 1 .. Len(z.fields) : a \in 1 .. Len(fs)
        BY <4>1, <4>2
      <4>4. Len(fs) <= Len(Append(fs, f)) /\ \A a \in 1 .. Len(fs) : Append(fs, f)[a] = fs[a]
            /\ Len(Append(fs, f)) \in Nat
        BY <1>4
      <4>5. Len(z.fields) <= Len(Append(fs, f))
        BY <4>1, <4>2, <4>4
      <4> QED  BY <1>9, <4>2, <4>3, <4>4, <4>5 DEF Extended
    <3> QED  BY <3>1, <3>2, <3>4
  <2> QED  BY <2>1, <2>2
<1>17. KeysAt(v.keys, b)
  BY DEF Open
<1>18. Open(w, s, b, c2)
  <2>1. \A r \in 0 .. Len(c2) - 1 :
          /\ r \div ChunkSize <= w.current.idx
          /\ r \div ChunkSize < w.current.idx => Has(s[ChunkOf(b, r \div ChunkSize)], c2, r)
          /\ r \div ChunkSize = w.current.idx => Has(w.current, c2, r)
    BY <1>9, <1>11, <1>14
  <2>2. w.current.idx = i
    BY <1>9, <1>11
  <2> QED  BY <1>4, <1>8, <1>9, <1>10, <1>11, <1>12, <1>15, <1>16, <1>17, <2>1, <2>2 DEF Open
<1>19. Written(s, s, b, Len(v.keys), Len(w.keys))
  BY DEF Written
<1>20. Len(w.keys) >= Len(v.keys)
  BY <1>4, <1>11
<1>21. w.current.idx = v.current.idx
  BY <1>1, <1>9, <1>11
<1> QED  BY <1>1, <1>2, <1>3, <1>7, <1>11, <1>18, <1>19, <1>20, <1>21 DEF Appended

(* The last chunk was put in the store.                                    *)
LEMMA ChunkPut ==
  ASSUME NEW s \in Store, NEW v, NEW b, NEW col, Open(v, s, b, col), col # <<>>
  PROVE  LET i == v.current.idx
             t == Put(s, ChunkOf(b, i), v.current)
             k == WithChunk(v.keys, b, i)
         IN /\ t \in Store /\ Written(s, t, b, Len(v.keys), i + 1)
            /\ \A r \in 0 .. Len(col) - 1 : /\ r \div ChunkSize <= i
                                            /\ Has(t[ChunkOf(b, r \div ChunkSize)], col, r)
            /\ \A j \in 0 .. i : Kept(t, b, j)
            /\ t[ChunkOf(b, i)] = v.current
            /\ KeysAt(k, b) /\ Len(k) = i + 1
<1>1. PICK i : i = v.current.idx
  OBVIOUS
<1>2. PICK t : t = Put(s, ChunkOf(b, i), v.current)
  OBVIOUS
<1>3. v.current \in Buffer /\ i \in 0 .. MaxRows /\ i \in Nat /\ b \in Name
  BY <1>1, OpenParts
<1>4. /\ t \in Store /\ t[ChunkOf(b, i)] = v.current
      /\ \A c : c \in ChunkName /\ c # ChunkOf(b, i) => t[c] = s[c]
  BY <1>2, <1>3, StorePut
<1>5. \A j \in 0 .. i - 1 : t[ChunkOf(b, j)] = s[ChunkOf(b, j)]
  <2> SUFFICES ASSUME NEW j \in 0 .. i - 1 PROVE t[ChunkOf(b, j)] = s[ChunkOf(b, j)]
    OBVIOUS
  <2>1. j \in 0 .. MaxRows /\ j # i
    BY <1>3, MaxRowsAssumption
  <2>2. ChunkOf(b, j) \in ChunkName /\ ChunkOf(b, j) # ChunkOf(b, i)
    BY <1>3, <2>1, ChunkNames
  <2> QED  BY <1>4, <2>2
<1>6. Written(s, t, b, Len(v.keys), i + 1)
  <2> SUFFICES ASSUME NEW c \in ChunkName, t[c] # s[c]
               PROVE  /\ c[1] = b[1] /\ c[2] = b[2] /\ c[3] < i + 1
                      /\ c[3] >= Len(v.keys) \/ Extended(s[c], t[c])
    BY DEF Written
  <2>1. c = ChunkOf(b, i)
    BY <1>4
  <2>2. c[1] = b[1] /\ c[2] = b[2] /\ c[3] = i /\ c[3] < i + 1
    BY <1>3, <2>1, ChunkNames
  <2>3. Len(v.keys) = i \/ Extended(s[ChunkOf(b, i)], v.current)
    BY <1>1 DEF Open
  <2>4. CASE Len(v.keys) = i
    BY <1>3, <2>2, <2>4
  <2>5. CASE Extended(s[ChunkOf(b, i)], v.current)
    BY <1>4, <2>1, <2>2, <2>5
  <2> QED  BY <2>3, <2>4, <2>5
<1>7. ASSUME NEW r \in 0 .. Len(col) - 1
      PROVE  r \div ChunkSize <= i /\ Has(t[ChunkOf(b, r \div ChunkSize)], col, r)
  <2>1. /\ r \div ChunkSize <= i
        /\ r \div ChunkSize < i => Has(s[ChunkOf(b, r \div ChunkSize)], col, r)
        /\ r \div ChunkSize = i => Has(v.current, col, r)
    BY <1>1 DEF Open
  <2>2. r \in Nat
    OBVIOUS
  <2>3. r \div ChunkSize \in Nat
    BY <2>2, Places
  <2>4. CASE r \div ChunkSize < i
    <3>1. r \div ChunkSize \in 0 .. i - 1
      BY <1>3, <2>3, <2>4
    <3> QED  BY <1>5, <2>1, <2>4, <3>1
  <2>5. CASE r \div ChunkSize = i
    BY <1>4, <2>1, <2>5
  <2>6. r \div ChunkSize < i \/ r \div ChunkSize = i
    BY <1>3, <2>1, <2>3
  <2> QED  BY <2>1, <2>4, <2>5, <2>6
<1>8. ASSUME NEW j \in 0 .. i PROVE Kept(t, b, j)
  <2>1. CASE j \in 0 .. i - 1
    <3>1. Kept(s, b, j)
      BY <1>1, <2>1 DEF Open
    <3>2. t[ChunkOf(b, j)] = s[ChunkOf(b, j)]
      BY <1>5, <2>1
    <3> QED  BY <3>1, <3>2 DEF Kept
  <2>2. CASE j = i
    <3>1. v.current.fields # <<>>
      <4>1. ((Len(col) - 1) % ChunkSize) + 1 = Len(v.current.fields)
        BY DEF Open, AtEnd
      <4>2. Len(col) - 1 \in Nat
        BY DEF Open
      <4>3. (Len(col) - 1) % ChunkSize \in Nat
        BY <4>2, Places
      <4> QED  BY <4>1, <4>3
    <3> QED  BY <1>1, <1>3, <1>4, <2>2, <3>1 DEF Kept
  <2>3. j \in 0 .. i - 1 \/ j = i
    BY <1>3
  <2> QED  BY <2>1, <2>2, <2>3
<1>9. KeysAt(WithChunk(v.keys, b, i), b) /\ Len(WithChunk(v.keys, b, i)) = i + 1
  <2>1. KeysAt(v.keys, b) /\ i <= Len(v.keys)
    BY <1>1, OpenParts DEF Open
  <2> QED  BY <1>3, <2>1, WithChunkKeys
<1> QED  BY <1>1, <1>2, <1>4, <1>6, <1>7, <1>8, <1>9

LEMMA AppendToNewChunk ==
  ASSUME NEW s \in Store, NEW v, NEW b, NEW col, Open(v, s, b, col),
         NEW f \in Data, Len(col) < MaxRows, ~(Len(v.current.fields) < ChunkSize)
  PROVE  LET i == v.current.idx
             w == OpenVec(b, Len(col) + 1, Chunk(i + 1, <<f>>), WithChunk(v.keys, b, i))
         IN Appended(w, Put(s, ChunkOf(b, i), v.current), v, s, b, col, f)
<1>1. PICK i : i = v.current.idx
  OBVIOUS
<1>2. PICK t : t = Put(s, ChunkOf(b, i), v.current)
  OBVIOUS
<1>3. PICK k : k = WithChunk(v.keys, b, i)
  OBVIOUS
<1>4. i \in 0 .. MaxRows /\ i \in Nat /\ b \in Name /\ v.current \in Buffer
      /\ i <= Len(v.keys) /\ Len(v.keys) \in Nat
  BY <1>1, OpenParts
<1>5. col \in Seq(Data) /\ Len(col) \in Nat /\ AtEnd(v.current, col)
  BY DEF Open
<1>6. Len(col) \div ChunkSize = i + 1 /\ Len(col) % ChunkSize = 0 /\ col # <<>>
  BY <1>1, <1>4, <1>5, NextField
<1>7. /\ t \in Store /\ Written(s, t, b, Len(v.keys), i + 1)
      /\ \A r \in 0 .. Len(col) - 1 : /\ r \div ChunkSize <= i
                                      /\ Has(t[ChunkOf(b, r \div ChunkSize)], col, r)
      /\ \A j \in 0 .. i : Kept(t, b, j)
      /\ KeysAt(k, b) /\ Len(k) = i + 1
  BY <1>1, <1>2, <1>3, <1>6, ChunkPut
<1>8. i + 1 \in 0 .. MaxRows
  <2>1. Len(col) \div ChunkSize <= Len(col)
    BY <1>5, PlaceBound
  <2> QED  BY <1>4, <1>5, <1>6, <2>1, MaxRowsAssumption
<1>9. PICK y : y = Chunk(i + 1, <<f>>)
  OBVIOUS
<1>10. y \in Buffer /\ y.idx = i + 1 /\ y.fields = <<f>>
  <2>1. <<f>> \in Seq(Data) /\ Len(<<f>>) <= ChunkSize
    BY ChunkSizeAssumption
  <2> QED  BY <1>8, <1>9, <2>1, BufferParts, ChunkFields
<1>11. PICK w : w = OpenVec(b, Len(col) + 1, y, k)
  OBVIOUS
<1>12. PICK c2 : c2 = Append(col, f)
  OBVIOUS
<1>13. c2 \in Seq(Data) /\ Len(c2) = Len(col) + 1 /\ c2 # <<>> /\ c2[Len(col) + 1] = f
  BY <1>5, <1>12
<1>14. w.name = b /\ w.size = Len(c2) /\ w.current = y /\ w.keys = k /\ ~w.locked
  BY <1>11, <1>13, OpenVecFields
<1>15. w \in Vector
  <2>1. Len(col) + 1 \in 0 .. MaxRows
    BY <1>5, MaxRowsAssumption
  <2>2. k \in Seq(KeyOfChunk)
    BY <1>7 DEF KeysAt
  <2> QED  BY <1>4, <1>10, <1>11, <2>1, <2>2, OpenVecFields
<1>16. AtEnd(y, c2)
  <2>1. Len(c2) - 1 = Len(col) /\ Len(<<f>>) = 1
    BY <1>5, <1>13
  <2> QED  BY <1>6, <1>10, <1>13, <2>1 DEF AtEnd
<1>17. ASSUME NEW r \in 0 .. Len(c2) - 1
       PROVE  /\ r \div ChunkSize <= i + 1
              /\ r \div ChunkSize < i + 1 => Has(t[ChunkOf(b, r \div ChunkSize)], c2, r)
              /\ r \div ChunkSize = i + 1 => Has(y, c2, r)
  <2>1. r \in 0 .. Len(col) - 1 \/ r = Len(col)
    BY <1>5, <1>13
  <2>2. CASE r \in 0 .. Len(col) - 1
    <3>1. r \div ChunkSize <= i /\ Has(t[ChunkOf(b, r \div ChunkSize)], col, r)
      BY <1>7, <2>2
    <3>2. r \in Nat
      OBVIOUS
    <3>3. r \div ChunkSize \in Nat
      BY <3>2, Places
    <3>4. r \div ChunkSize <= i + 1 /\ r \div ChunkSize # i + 1
      BY <1>4, <3>1, <3>3
    <3>5. Has(t[ChunkOf(b, r \div ChunkSize)], c2, r)
      BY <1>5, <1>12, <2>2, <3>1, HasMore
    <3> QED  BY <3>4, <3>5
  <2>3. CASE r = Len(col)
    <3>1. 0 < Len(<<f>>) /\ <<f>>[0 + 1] = f
      OBVIOUS
    <3>2. Has(y, c2, r)
      BY <1>6, <1>10, <1>13, <2>3, <3>1 DEF Has
    <3>3. i + 1 <= i + 1 /\ ~(i + 1 < i + 1)
      BY <1>4
    <3> QED  BY <1>6, <2>3, <3>2, <3>3
  <2> QED  BY <2>1, <2>2, <2>3
<1>18. \A j \in 0 .. (i + 1) - 1 : Kept(t, b, j)
  <2>1. (i + 1) - 1 = i
    BY <1>4
  <2> QED  BY <1>7, <2>1
<1>19. Open(w, t, b, c2)
  <2>1. w.current.idx = i + 1
    BY <1>10, <1>14
  <2>2. /\ w \in Vector /\ w.name = b /\ b \in Name /\ ~w.locked /\ KeysAt(w.keys, b)
        /\ c2 \in Seq(Data) /\ w.size = Len(c2)
        /\ w.current \in Buffer /\ AtEnd(w.current, c2)
        /\ Len(w.keys) = w.current.idx
    BY <1>4, <1>7, <1>10, <1>13, <1>14, <1>15, <1>16
  <2>3. \A r \in 0 .. Len(c2) - 1 :
          /\ r \div ChunkSize <= w.current.idx
          /\ r \div ChunkSize < w.current.idx => Has(t[ChunkOf(b, r \div ChunkSize)], c2, r)
          /\ r \div ChunkSize = w.current.idx => Has(w.current, c2, r)
    BY <1>14, <1>17, <2>1
  <2> QED  BY <1>18, <2>1, <2>2, <2>3 DEF Open
<1>20. Len(w.keys) >= Len(v.keys) /\ Len(w.keys) = w.current.idx /\ Len(w.keys) = i + 1
  <2>1. Len(v.keys) = i \/ Len(v.keys) = i + 1
    BY <1>1 DEF Open
  <2> QED  BY <1>4, <1>7, <1>10, <1>14, <2>1
<1> QED  BY <1>1, <1>2, <1>3, <1>7, <1>9, <1>11, <1>12, <1>19, <1>20 DEF Appended

LEMMA AppendFieldCorrect ==
  ASSUME NEW s \in Store, NEW v, NEW b, NEW col, Open(v, s, b, col),
         NEW f \in Data, Len(col) < MaxRows
  PROVE  \E w, t : AppendField(Pair(v, s), f) = Pair(w, t) /\ Appended(w, t, v, s, b, col, f)
<1>1. PICK i, fs : i = v.current.idx /\ fs = v.current.fields
  OBVIOUS
<1>2. v = OpenVec(b, Len(col), Chunk(i, fs), v.keys) /\ v.current = Chunk(i, fs)
  BY <1>1, OpenParts
<1>3. PICK l : l = FALSE
  OBVIOUS
<1>4. \A n, z, x, k : OpenVec(n, z, x, k) = Vec(n, z, x, k, l)
  BY <1>3, Zenon DEF OpenVec
<1>5. v = Vec(b, Len(col), Chunk(i, fs), v.keys, l)
  BY <1>2, <1>4
<1>6. PICK w1 : w1 = OpenVec(b, Len(col) + 1, Chunk(i, Append(fs, f)), v.keys)
  OBVIOUS
<1>7. PICK w2 : w2 = OpenVec(b, Len(col) + 1, Chunk(i + 1, <<f>>), WithChunk(v.keys, b, i))
  OBVIOUS
<1>8. w1 = Vec(b, Len(col) + 1, Chunk(i, Append(fs, f)), v.keys, l)
      /\ w2 = Vec(b, Len(col) + 1, Chunk(i + 1, <<f>>), WithChunk(v.keys, b, i), l)
  BY <1>4, <1>6, <1>7
<1>9. PICK t : t = Put(s, ChunkOf(b, i), v.current)
  OBVIOUS
<1>10. CASE Len(fs) < ChunkSize
  <2>1. AppendField(Pair(v, s), f) = Pair(w1, s)
    BY <1>5, <1>8, <1>10, AppendFieldParts
  <2>2. Appended(w1, s, v, s, b, col, f)
    BY <1>1, <1>6, <1>10, AppendInChunk
  <2> QED  BY <2>1, <2>2
<1>11. CASE ~(Len(fs) < ChunkSize)
  <2>1. AppendField(Pair(v, s), f) = Pair(w2, t)
    BY <1>2, <1>5, <1>8, <1>9, <1>11, AppendFieldParts
  <2>2. Appended(w2, t, v, s, b, col, f)
    BY <1>1, <1>7, <1>9, <1>11, AppendToNewChunk
  <2> QED  BY <2>1, <2>2
<1> QED  BY <1>10, <1>11

(* lock stores the last chunk: the column has the same fields.             *)
Stored(w, t, v, s, b, col) ==
  /\ t \in Store /\ Closed(w, t, b, col) /\ Exact(w, t, b) /\ w.name = b
  /\ Written(s, t, b, Len(v.keys), Len(w.keys)) /\ Len(w.keys) >= Len(v.keys)

LEMMA LockCorrect ==
  ASSUME NEW s \in Store, NEW v, NEW b, NEW col, Open(v, s, b, col)
  PROVE  \E w, t : Lock(Pair(v, s)) = Pair(w, t) /\ Stored(w, t, v, s, b, col)
<1>1. PICK x, i : x = v.current /\ i = x.idx
  OBVIOUS
<1>2. PICK l : l = FALSE
  OBVIOUS
<1>3. v = Vec(b, Len(col), x, v.keys, l)
  <2>1. v = OpenVec(b, Len(col), x, v.keys)
    BY <1>1, OpenParts
  <2> QED  BY <1>2, <2>1, Zenon DEF OpenVec
<1>4. /\ x \in Buffer /\ i \in 0 .. MaxRows /\ i \in Nat /\ x.fields \in Seq(Data)
      /\ v.keys \in Seq(KeyOfChunk) /\ b \in Name /\ Len(col) \in 0 .. MaxRows
      /\ i <= Len(v.keys) /\ Len(v.keys) \in Nat
  BY <1>1, OpenParts
<1>5. col \in Seq(Data) /\ AtEnd(x, col)
  BY <1>1 DEF Open
<1>6. Len(v.keys) = i \/ (Len(v.keys) = i + 1 /\ Kept(s, b, i) /\ Extended(s[ChunkOf(b, i)], x))
  BY <1>1 DEF Open
<1>7. CASE x.fields = <<>>
  <2>1. PICK w : w = LockedVec(b, Len(col), x, v.keys)
    OBVIOUS
  <2>2. Lock(Pair(v, s)) = Pair(w, s)
    BY <1>3, <1>7, <2>1, LockParts
  <2>3. col = <<>>
    <3> SUFFICES ASSUME col # <<>> PROVE FALSE
      OBVIOUS
    <3>1. Len(col) - 1 \in Nat
      BY <1>5
    <3>2. (Len(col) - 1) % ChunkSize \in Nat
      BY <3>1, Places
    <3>3. ((Len(col) - 1) % ChunkSize) + 1 = 0
      BY <1>5, <1>7 DEF AtEnd
    <3> QED  BY <3>2, <3>3
  <2>4. i = 0
    BY <1>1, <1>5, <2>3 DEF AtEnd
  <2>5. Len(v.keys) = 0
    <3> SUFFICES ASSUME Len(v.keys) # 0 PROVE FALSE
      OBVIOUS
    <3>1. Kept(s, b, i) /\ Extended(s[ChunkOf(b, i)], x)
      BY <1>6, <2>4
    <3>2. PICK z : z = s[ChunkOf(b, i)]
      OBVIOUS
    <3>3. z \in Buffer /\ z.fields # <<>> /\ Len(z.fields) <= Len(x.fields)
      BY <3>1, <3>2 DEF Kept, Extended
    <3>4. z.fields \in Seq(Data)
      BY <3>3, BufferParts
    <3>5. Len(z.fields) > 0 /\ Len(x.fields) = 0
      BY <1>7, <3>3, <3>4
    <3> QED  BY <3>3, <3>4, <3>5
  <2>6. w.name = b /\ w.size = Len(col) /\ w.current = x /\ w.keys = v.keys /\ w.locked
    BY <2>1, LockedVecFields
  <2>7. w \in Vector
    BY <1>4, <2>1, LockedVecFields
  <2>8. Closed(w, s, b, col)
    <3>1. Len(col) = 0
      BY <2>3
    <3>2. \A r \in 0 .. Len(col) - 1 : FALSE
      BY <3>1
    <3>3. \A j \in 0 .. Len(w.keys) - 1 : FALSE
      BY <2>5, <2>6
    <3>4. KeysAt(w.keys, b)
      BY <2>6 DEF Open
    <3> QED  BY <1>4, <1>5, <2>3, <2>5, <2>6, <2>7, <3>2, <3>3, <3>4 DEF Closed
  <2>9. Exact(w, s, b)
    BY <1>4, <2>5, <2>6 DEF Exact
  <2>10. Written(s, s, b, Len(v.keys), Len(w.keys)) /\ Len(w.keys) >= Len(v.keys)
    BY <1>4, <2>6 DEF Written
  <2> QED  BY <2>2, <2>6, <2>8, <2>9, <2>10 DEF Stored
<1>8. CASE x.fields # <<>>
  <2>1. PICK t, k : t = Put(s, ChunkOf(b, i), x) /\ k = WithChunk(v.keys, b, i)
    OBVIOUS
  <2>2. PICK w : w = LockedVec(b, Len(col), None, k)
    OBVIOUS
  <2>3. Lock(Pair(v, s)) = Pair(w, t)
    BY <1>1, <1>3, <1>8, <2>1, <2>2, LockParts
  <2>4. col # <<>>
    BY <1>5, <1>8 DEF AtEnd
  <2>5. /\ t \in Store /\ Written(s, t, b, Len(v.keys), i + 1)
        /\ \A r \in 0 .. Len(col) - 1 : Has(t[ChunkOf(b, r \div ChunkSize)], col, r)
        /\ \A j \in 0 .. i : Kept(t, b, j)
        /\ t[ChunkOf(b, i)] = x
        /\ KeysAt(k, b) /\ Len(k) = i + 1
    BY <1>1, <2>1, <2>4, ChunkPut
  <2>6. w.name = b /\ w.size = Len(col) /\ w.current = None /\ w.keys = k /\ w.locked
    BY <2>2, LockedVecFields
  <2>7. w \in Vector
    <3>1. k \in Seq(KeyOfChunk)
      BY <2>5 DEF KeysAt
    <3> QED  BY <1>4, <2>2, <3>1, LockedVecFields
  <2>8. (Len(col) - 1) \div ChunkSize = i /\ ((Len(col) - 1) % ChunkSize) + 1 = Len(x.fields)
    BY <1>1, <1>5, <2>4 DEF AtEnd
  <2>9. Closed(w, t, b, col)
    <3>1. \A j \in 0 .. Len(w.keys) - 1 : Kept(t, b, j)
      <4>1. Len(w.keys) - 1 = i
        BY <1>4, <2>5, <2>6
      <4> QED  BY <2>5, <4>1
    <3>2. Len(w.keys) = ((Len(col) - 1) \div ChunkSize) + 1
      BY <2>5, <2>6, <2>8
    <3> QED  BY <1>4, <1>5, <2>4, <2>5, <2>6, <2>7, <3>1, <3>2 DEF Closed
  <2>10. Exact(w, t, b)
    <3>1. Len(w.keys) - 1 = i
      BY <1>4, <2>5, <2>6
    <3> QED  BY <2>5, <2>6, <2>8, <3>1 DEF Exact
  <2>11. Len(w.keys) >= Len(v.keys)
    BY <1>4, <1>6, <2>5, <2>6
  <2> QED  BY <2>3, <2>5, <2>6, <2>9, <2>10, <2>11 DEF Stored
<1> QED  BY <1>7, <1>8

LEMMA ClosedParts ==
  ASSUME NEW v, NEW s, NEW b, NEW col, Closed(v, s, b, col)
  PROVE  /\ v = LockedVec(v.name, Len(col), v.current, v.keys)
         /\ v.name \in Name \cup {None} /\ v.current \in Buffer \cup {None}
         /\ v.keys \in Seq(KeyOfChunk) /\ Len(v.keys) \in Nat
         /\ b \in Name /\ col \in Seq(Data) /\ Len(col) \in 0 .. MaxRows /\ Len(col) \in Nat
         /\ \A r \in 0 .. Len(col) - 1 :
              r \in Nat /\ r \div ChunkSize \in Nat /\ r \div ChunkSize < Len(v.keys)
         /\ \A j \in 0 .. Len(v.keys) - 1 :
              /\ v.keys[j + 1].chunk = ChunkOf(b, j) /\ v.keys[j + 1].home = j % NumNodes
              /\ ChunkOf(b, j) \in ChunkName
<1>1. v \in Vector /\ v.size = Len(col) /\ v.locked /\ b \in Name /\ col \in Seq(Data)
      /\ KeysAt(v.keys, b)
  BY DEF Closed
<1>2. v = LockedVec(v.name, Len(col), v.current, v.keys)
  BY <1>1, LockedVecFields
<1>3. v.name \in Name \cup {None} /\ v.current \in Buffer \cup {None}
      /\ v.keys \in Seq(KeyOfChunk) /\ v.size \in 0 .. MaxRows
  BY <1>1, VectorParts
<1>4. Len(col) \in Nat /\ Len(v.keys) \in Nat
  BY <1>1, <1>3
<1>5. ASSUME NEW r \in 0 .. Len(col) - 1
      PROVE  r \in Nat /\ r \div ChunkSize \in Nat /\ r \div ChunkSize < Len(v.keys)
  <2>1. PICK e \in Nat : e = Len(col) - 1
    BY <1>4
  <2>2. r \in Nat /\ r <= e /\ col # <<>>
    BY <1>1, <1>4, <2>1
  <2>3. r \div ChunkSize <= e \div ChunkSize
    BY <2>2, PlacesInOrder
  <2>4. r \div ChunkSize \in Nat /\ e \div ChunkSize \in Nat
    BY <2>2, Places
  <2>5. Len(v.keys) = (e \div ChunkSize) + 1
    BY <2>1, <2>2 DEF Closed
  <2> QED  BY <2>2, <2>3, <2>4, <2>5
<1>6. ASSUME NEW j \in 0 .. Len(v.keys) - 1
      PROVE  /\ v.keys[j + 1].chunk = ChunkOf(b, j) /\ v.keys[j + 1].home = j % NumNodes
             /\ ChunkOf(b, j) \in ChunkName
  <2>1. j + 1 \in 1 .. Len(v.keys) /\ (j + 1) - 1 = j
    BY <1>4
  <2>2. v.keys[j + 1] = ChunkKey(b, j, j % NumNodes)
    BY <1>1, <2>1 DEF KeysAt
  <2>3. v.keys[j + 1] \in KeyOfChunk
    BY <1>3, <2>1
  <2> QED  BY <2>2, <2>3 DEF ChunkKey, ChunkOf, KeyOfChunk
<1> QED  BY <1>1, <1>2, <1>3, <1>4, <1>5, <1>6

(* unlock makes the last chunk the buffer again.                           *)
LEMMA UnlockCorrect ==
  ASSUME NEW s \in Store, NEW v, NEW b, NEW col, Closed(v, s, b, col), Exact(v, s, b),
         v.name = b, v.keys # <<>>
  PROVE  \E w : /\ Unlock(Pair(v, s)) = Pair(w, s)
                /\ Open(w, s, b, col) /\ w.keys = v.keys
<1>1. PICK n : n = Len(v.keys) - 1
  OBVIOUS
<1>2. n \in Nat /\ n \in 0 .. Len(v.keys) - 1 /\ Len(v.keys) = n + 1
  <2>1. v.keys \in Seq(KeyOfChunk)
    BY ClosedParts
  <2> QED  BY <1>1, <2>1
<1>3. PICK x : x = s[ChunkOf(b, n)]
  OBVIOUS
<1>4. x \in Buffer /\ x.idx = n
  BY <1>2, <1>3 DEF Closed, Kept
<1>5. Last(v.keys).chunk = ChunkOf(b, n)
  <2>1. v.keys[n + 1].chunk = ChunkOf(b, n)
    BY <1>2, ClosedParts
  <2> QED  BY <1>2, <2>1 DEF Last
<1>6. PICK w : w = OpenVec(b, Len(col), x, v.keys)
  OBVIOUS
<1>7. Unlock(Pair(v, s)) = Pair(w, s)
  <2>1. PICK l : l = TRUE
    OBVIOUS
  <2>2. v = LockedVec(b, Len(col), v.current, v.keys)
    BY ClosedParts
  <2>3. v = Vec(b, Len(col), v.current, v.keys, l)
    BY <2>1, <2>2, Zenon DEF LockedVec
  <2> QED  BY <1>3, <1>5, <1>6, <2>3, UnlockParts
<1>8. w.name = b /\ w.size = Len(col) /\ w.current = x /\ w.keys = v.keys /\ ~w.locked
  BY <1>6, OpenVecFields
<1>9. w \in Vector
  <2>1. v.keys \in Seq(KeyOfChunk) /\ b \in Name /\ Len(col) \in 0 .. MaxRows
    BY ClosedParts
  <2> QED  BY <1>4, <1>6, <2>1, OpenVecFields
<1>10. col \in Seq(Data) /\ col # <<>> /\ (Len(col) - 1) \div ChunkSize = n
       /\ Len(col) - 1 \in Nat
  <2>1. col \in Seq(Data) /\ Len(v.keys) = IF col = <<>> THEN 0
                                           ELSE ((Len(col) - 1) \div ChunkSize) + 1
    BY DEF Closed
  <2>2. col # <<>>
    BY <1>2, <2>1
  <2>3. Len(col) - 1 \in Nat
    BY <2>1, <2>2
  <2>4. (Len(col) - 1) \div ChunkSize \in Nat
    BY <2>3, Places
  <2> QED  BY <1>2, <2>1, <2>2, <2>3, <2>4
<1>11. AtEnd(x, col)
  <2>1. Len(x.fields) = ((Len(col) - 1) % ChunkSize) + 1
    <3>1. Len(s[ChunkOf(b, Len(v.keys) - 1)].fields) = ((v.size - 1) % ChunkSize) + 1
      BY DEF Exact
    <3>2. v.size = Len(col)
      BY DEF Closed
    <3> QED  BY <1>1, <1>3, <3>1, <3>2
  <2> QED  BY <1>4, <1>10, <2>1 DEF AtEnd
<1>12. ASSUME NEW r \in 0 .. Len(col) - 1
       PROVE  /\ r \div ChunkSize <= n /\ Has(s[ChunkOf(b, r \div ChunkSize)], col, r)
              /\ r \div ChunkSize = n => Has(x, col, r)
  <2>1. r \div ChunkSize <= n
    BY <1>2, ClosedParts
  <2>2. Has(s[ChunkOf(b, r \div ChunkSize)], col, r)
    BY DEF Closed
  <2> QED  BY <1>3, <2>1, <2>2
<1>13. \A j \in 0 .. n : Kept(s, b, j)
  BY <1>2 DEF Closed
<1>14. Open(w, s, b, col)
  <2>1. b \in Name /\ KeysAt(w.keys, b)
    BY <1>8 DEF Closed
  <2>2. Kept(s, b, n) /\ Extended(s[ChunkOf(b, n)], x) /\ \A j \in 0 .. n - 1 : Kept(s, b, j)
    <3>1. Len(x.fields) \in Nat
      BY <1>4, BufferParts
    <3>2. Extended(x, x)
      BY <3>1 DEF Extended
    <3> QED  BY <1>2, <1>3, <1>13, <3>2
  <2> QED  BY <1>2, <1>4, <1>8, <1>9, <1>10, <1>11, <1>12, <2>1, <2>2 DEF Open
<1> QED  BY <1>7, <1>8, <1>14

-----------------------------------------------------------------------------
(* What is kept when the store changes.                                    *)

(* The chunks of the column b are the same in s and t.                     *)
Same(s, t, b) == \A i \in 0 .. MaxRows : t[ChunkOf(b, i)] = s[ChunkOf(b, i)]

(* The first n of them are the same, or have more fields in t.             *)
Grown(s, t, b, n) ==
  \A i \in 0 .. MaxRows : \/ t[ChunkOf(b, i)] = s[ChunkOf(b, i)]
                          \/ i >= n
                          \/ Extended(s[ChunkOf(b, i)], t[ChunkOf(b, i)])

LEMMA WrittenParts ==
  ASSUME NEW s, NEW t, NEW b \in Name, NEW n, NEW m, Written(s, t, b, n, m)
  PROVE  /\ Grown(s, t, b, n)
         /\ \A d \in Name : d # b => Same(s, t, d)
         /\ \A d \in Name, i \in 0 .. MaxRows :
              ~(i < m) => t[ChunkOf(d, i)] = s[ChunkOf(d, i)]
<1>1. ASSUME NEW d \in Name, NEW i \in 0 .. MaxRows
      PROVE  \/ t[ChunkOf(d, i)] = s[ChunkOf(d, i)]
             \/ d = b /\ i < m /\ (i >= n \/ Extended(s[ChunkOf(d, i)], t[ChunkOf(d, i)]))
  <2>1. PICK c : c = ChunkOf(d, i)
    OBVIOUS
  <2>2. c \in ChunkName /\ c[1] = d[1] /\ c[2] = d[2] /\ c[3] = i
    BY <2>1, ChunkNames
  <2>3. d[1] = b[1] /\ d[2] = b[2] => d = b
    BY DEF Name
  <2> QED  BY <2>1, <2>2, <2>3 DEF Written
<1> QED  BY <1>1 DEF Grown, Same

LEMMA ExtendedMore ==
  /\ \A x : Extended(x, x)
  /\ \A x, y, z : Extended(x, y) /\ Extended(y, z) => Extended(x, z)
<1>1. ASSUME NEW x PROVE Extended(x, x)
  <2>1. x \in Buffer => Len(x.fields) \in Nat
    BY BufferParts
  <2> QED  BY <2>1 DEF Extended
<1>2. ASSUME NEW x, NEW y, NEW z, Extended(x, y), Extended(y, z), x \in Buffer
      PROVE  Extended(x, z)
  <2>1. y \in Buffer /\ y.idx = x.idx /\ Len(x.fields) <= Len(y.fields)
        /\ \A a \in 1 .. Len(x.fields) : y.fields[a] = x.fields[a]
    BY <1>2 DEF Extended
  <2>2. z \in Buffer /\ z.idx = y.idx /\ Len(y.fields) <= Len(z.fields)
        /\ \A a \in 1 .. Len(y.fields) : z.fields[a] = y.fields[a]
    BY <1>2, <2>1 DEF Extended
  <2>3. Len(x.fields) \in Nat /\ Len(y.fields) \in Nat /\ Len(z.fields) \in Nat
    BY <1>2, <2>1, <2>2, BufferParts
  <2>4. 1 .. Len(x.fields) \subseteq 1 .. Len(y.fields) /\ Len(x.fields) <= Len(z.fields)
    BY <2>1, <2>2, <2>3
  <2> QED  BY <2>1, <2>2, <2>4 DEF Extended
<1>3. \A x, z : x \notin Buffer => Extended(x, z)
  BY DEF Extended
<1> QED  BY <1>1, <1>2, <1>3

LEMMA GrownMore ==
  ASSUME NEW s, NEW t, NEW b
  PROVE  /\ Same(s, t, b) => \A n : Grown(s, t, b, n)
         /\ Same(s, s, b)
         /\ Grown(s, t, b, 0)
         /\ \A u : Same(s, t, b) /\ Same(t, u, b) => Same(s, u, b)
         /\ \A u : \A n, m \in Nat :
              Grown(s, t, b, n) /\ Grown(t, u, b, m) /\ n <= m => Grown(s, u, b, n)
<1>1. Same(s, t, b) => \A n : Grown(s, t, b, n)
  BY DEF Same, Grown
<1>2. Same(s, s, b)
  BY DEF Same
<1>3. Grown(s, t, b, 0)
  BY MaxRowsAssumption DEF Grown
<1>4. \A u : Same(s, t, b) /\ Same(t, u, b) => Same(s, u, b)
  BY DEF Same
<1>5. ASSUME NEW u, NEW n \in Nat, NEW m \in Nat,
             Grown(s, t, b, n), Grown(t, u, b, m), n <= m
      PROVE  Grown(s, u, b, n)
  <2> SUFFICES ASSUME NEW i \in 0 .. MaxRows, ~(i >= n)
               PROVE  \/ u[ChunkOf(b, i)] = s[ChunkOf(b, i)]
                      \/ Extended(s[ChunkOf(b, i)], u[ChunkOf(b, i)])
    BY DEF Grown
  <2>1. ~(i >= m)
    BY <1>5, MaxRowsAssumption
  <2>2. PICK x, y, z : x = s[ChunkOf(b, i)] /\ y = t[ChunkOf(b, i)] /\ z = u[ChunkOf(b, i)]
    OBVIOUS
  <2>3. y = x \/ Extended(x, y)
    BY <1>5, <2>2 DEF Grown
  <2>4. z = y \/ Extended(y, z)
    BY <1>5, <2>1, <2>2 DEF Grown
  <2> QED  BY <2>2, <2>3, <2>4, ExtendedMore
<1> QED  BY <1>1, <1>2, <1>3, <1>4, <1>5

LEMMA ClosedGrown ==
  ASSUME NEW v, NEW s, NEW t, NEW b, NEW col, NEW n \in Nat,
         Closed(v, s, b, col), Grown(s, t, b, n), Len(v.keys) <= n
  PROVE  Closed(v, t, b, col)
<1>1. /\ Len(v.keys) \in Nat /\ col \in Seq(Data) /\ b \in Name
      /\ \A r \in 0 .. Len(col) - 1 : r \div ChunkSize \in Nat /\ r \div ChunkSize < Len(v.keys)
      /\ \A j \in 0 .. Len(v.keys) - 1 : ChunkOf(b, j) \in ChunkName
  BY ClosedParts
<1>2. ASSUME NEW j \in 0 .. Len(v.keys) - 1
      PROVE  Extended(s[ChunkOf(b, j)], t[ChunkOf(b, j)]) /\ Kept(s, b, j)
  <2>1. Kept(s, b, j)
    BY DEF Closed
  <2>2. j \in 0 .. MaxRows
    <3>1. ChunkOf(b, j) \in ChunkName /\ ChunkOf(b, j)[3] = j
      BY <1>1, ChunkNames
    <3> QED  BY <3>1 DEF ChunkName
  <2>3. ~(j >= n)
    BY <1>1
  <2> QED  BY <2>1, <2>2, <2>3, ExtendedMore DEF Grown
<1>3. ASSUME NEW j \in 0 .. Len(v.keys) - 1
      PROVE  Kept(t, b, j)
  <2>1. PICK x, y : x = s[ChunkOf(b, j)] /\ y = t[ChunkOf(b, j)]
    OBVIOUS
  <2>2. Extended(x, y) /\ x \in Buffer /\ x.idx = j /\ x.fields # <<>>
    BY <1>2, <2>1 DEF Kept
  <2>3. y \in Buffer /\ y.idx = j /\ Len(x.fields) <= Len(y.fields)
    BY <2>2 DEF Extended
  <2>4. x.fields \in Seq(Data) /\ y.fields \in Seq(Data)
    BY <2>2, <2>3, BufferParts
  <2>5. y.fields # <<>>
    BY <2>2, <2>3, <2>4
  <2> QED  BY <2>1, <2>3, <2>5 DEF Kept
<1>4. ASSUME NEW r \in 0 .. Len(col) - 1
      PROVE  Has(t[ChunkOf(b, r \div ChunkSize)], col, r)
  <2>1. PICK j : j = r \div ChunkSize
    OBVIOUS
  <2>2. j \in 0 .. Len(v.keys) - 1
    BY <1>1, <2>1
  <2>3. Has(s[ChunkOf(b, j)], col, r)
    BY <2>1 DEF Closed
  <2> QED  BY <1>1, <1>2, <2>1, <2>2, <2>3, HasMore
<1> QED  BY <1>3, <1>4 DEF Closed

LEMMA ClosedSame ==
  ASSUME NEW v, NEW s, NEW t, NEW b, NEW col, Closed(v, s, b, col), Same(s, t, b)
  PROVE  Closed(v, t, b, col) /\ (Exact(v, s, b) => Exact(v, t, b))
<1>1. Len(v.keys) \in Nat /\ Len(v.keys) <= Len(v.keys) /\ v.keys \in Seq(KeyOfChunk)
      /\ \A j \in 0 .. Len(v.keys) - 1 : ChunkOf(b, j) \in ChunkName
      /\ b \in Name
  BY ClosedParts
<1>2. Closed(v, t, b, col)
  BY <1>1, ClosedGrown, GrownMore
<1>3. ASSUME v.keys # <<>>
      PROVE  t[ChunkOf(b, Len(v.keys) - 1)] = s[ChunkOf(b, Len(v.keys) - 1)]
  <2>1. PICK j : j = Len(v.keys) - 1
    OBVIOUS
  <2>2. j \in 0 .. Len(v.keys) - 1
    BY <1>1, <1>3, <2>1
  <2>3. ChunkOf(b, j) \in ChunkName /\ ChunkOf(b, j)[3] = j
    BY <1>1, <2>2, ChunkNames
  <2>4. j \in 0 .. MaxRows
    BY <2>3 DEF ChunkName
  <2> QED  BY <2>1, <2>4 DEF Same
<1> QED  BY <1>2, <1>3 DEF Exact

LEMMA OpenSame ==
  ASSUME NEW v, NEW s, NEW t, NEW b, NEW col, Open(v, s, b, col), Same(s, t, b)
  PROVE  Open(v, t, b, col)
<1>1. v.current.idx \in 0 .. MaxRows /\ v.current.idx \in Nat
  BY OpenParts
<1>2. ASSUME NEW j \in 0 .. v.current.idx
      PROVE  t[ChunkOf(b, j)] = s[ChunkOf(b, j)]
  <2>1. j \in 0 .. MaxRows
    BY <1>1, MaxRowsAssumption
  <2> QED  BY <2>1 DEF Same
<1>3. ASSUME NEW j \in 0 .. v.current.idx, Kept(s, b, j) PROVE Kept(t, b, j)
  BY <1>2, <1>3 DEF Kept
<1>4. ASSUME NEW r \in 0 .. Len(col) - 1, r \div ChunkSize < v.current.idx
      PROVE  Has(t[ChunkOf(b, r \div ChunkSize)], col, r)
  <2>1. r \in Nat
    OBVIOUS
  <2>2. r \div ChunkSize \in Nat
    BY <2>1, Places
  <2>3. r \div ChunkSize \in 0 .. v.current.idx
    BY <1>1, <1>4, <2>2
  <2>4. Has(s[ChunkOf(b, r \div ChunkSize)], col, r)
    BY <1>4 DEF Open
  <2> QED  BY <1>2, <2>3, <2>4
<1>5. v.current.idx \in 0 .. v.current.idx
      /\ \A j \in 0 .. v.current.idx - 1 : j \in 0 .. v.current.idx
  BY <1>1
<1>6. \A j \in 0 .. v.current.idx - 1 : Kept(t, b, j)
  BY <1>3, <1>5 DEF Open
<1>7. \/ Len(v.keys) = v.current.idx
      \/ /\ Len(v.keys) = v.current.idx + 1
         /\ Kept(t, b, v.current.idx)
         /\ Extended(t[ChunkOf(b, v.current.idx)], v.current)
  BY <1>2, <1>3, <1>5 DEF Open
<1> QED  BY <1>4, <1>6, <1>7 DEF Open

-----------------------------------------------------------------------------
(* Reading.                                                                *)

(* A column whose fields from row n on can be read.                        *)
Readable(v, s, b, col, n) ==
  /\ v \in Vector /\ b \in Name /\ KeysAt(v.keys, b)
  /\ col \in Seq(Data) /\ v.size = Len(col)
  /\ \A r \in 0 .. Len(col) - 1 : n <= r =>
       /\ r \div ChunkSize < Len(v.keys)
       /\ Has(s[ChunkOf(b, r \div ChunkSize)], col, r)
       /\ v.current # None /\ r \div ChunkSize = v.current.idx => Has(v.current, col, r)

LEMMA ClosedReadable ==
  ASSUME NEW v, NEW s, NEW b, NEW col, Closed(v, s, b, col)
  PROVE  Readable(v, s, b, col, 0)
<1>1. \A r \in 0 .. Len(col) - 1 : r \div ChunkSize < Len(v.keys)
  BY ClosedParts
<1> QED  BY <1>1 DEF Closed, Readable

(* The chunk that a field is in.                                           *)
LEMMA ReadableParts ==
  ASSUME NEW v, NEW s, NEW b, NEW col, NEW n, NEW r \in 0 .. Len(col) - 1,
         Readable(v, s, b, col, n), n <= r
  PROVE  /\ r \div ChunkSize \in 0 .. Len(v.keys) - 1 /\ r \in Nat
         /\ v.keys[(r \div ChunkSize) + 1].chunk = ChunkOf(b, r \div ChunkSize)
         /\ v.keys[(r \div ChunkSize) + 1].home = (r \div ChunkSize) % NumNodes
         /\ v.keys \in Seq(KeyOfChunk)
<1>1. PICK j : j = r \div ChunkSize
  OBVIOUS
<1>2. r \in Nat /\ v.keys \in Seq(KeyOfChunk) /\ j < Len(v.keys)
  BY <1>1 DEF Readable, KeysAt
<1>3. j \in Nat
  BY <1>1, <1>2, Places
<1>4. j \in 0 .. Len(v.keys) - 1 /\ j + 1 \in 1 .. Len(v.keys) /\ (j + 1) - 1 = j
  BY <1>2, <1>3
<1>5. v.keys[j + 1] = ChunkKey(b, j, j % NumNodes)
  BY <1>4 DEF Readable, KeysAt
<1> QED  BY <1>1, <1>2, <1>4, <1>5 DEF ChunkKey, ChunkOf

LEMMA FieldOfChunk ==
  ASSUME NEW v, NEW s, NEW col \in Seq(Data), NEW r \in 0 .. Len(col) - 1, NEW x, Has(x, col, r),
         \/ v.current # None /\ v.current.idx = r \div ChunkSize /\ x = v.current
         \/ /\ ~(v.current # None /\ v.current.idx = r \div ChunkSize)
            /\ r \div ChunkSize < Len(v.keys)
            /\ Cached(v, s, r).current = x
  PROVE  FieldAt(v, s, r) = col[r + 1] /\ FieldAt(v, s, r) \in Data
<1>1. r \in Nat /\ r + 1 \in 1 .. Len(col)
  OBVIOUS
<1>2. x \in Buffer /\ r % ChunkSize < Len(x.fields) /\ x.fields[(r % ChunkSize) + 1] = col[r + 1]
  BY DEF Has
<1>3. x # None
  BY <1>2, NoneAssumption
<1>4. Len(x.fields) \in Nat /\ r % ChunkSize \in Nat
  <2>1. Len(x.fields) \in Nat
    BY <1>2, BufferParts
  <2> QED  BY <1>1, <2>1, Places
<1>5. (r % ChunkSize) + 1 <= Len(x.fields)
  BY <1>2, <1>4
<1>6. Cached(v, s, r).current = x
  BY DEF Cached
<1>7. FieldAt(v, s, r) = x.fields[(r % ChunkSize) + 1]
  <2>1. PICK e : e = (r % ChunkSize) + 1
    OBVIOUS
  <2>2. PICK c : c = Cached(v, s, r).current
    OBVIOUS
  <2>3. c = x
    BY <1>6, <2>2
  <2>4. FieldAt(v, s, r) = IF c # None /\ e <= Len(c.fields) THEN c.fields[e] ELSE None
    BY <2>1, <2>2 DEF FieldAt
  <2> QED  BY <1>3, <1>5, <2>1, <2>3, <2>4
<1>8. col[r + 1] \in Data
  BY <1>1
<1> QED  BY <1>2, <1>7, <1>8

LEMMA ReadableField ==
  ASSUME NEW v, NEW s, NEW b, NEW col, NEW n, NEW r \in 0 .. Len(col) - 1,
         Readable(v, s, b, col, n), n <= r
  PROVE  FieldAt(v, s, r) = col[r + 1] /\ FieldAt(v, s, r) \in Data
<1>1. v \in Vector /\ col \in Seq(Data) /\ r \div ChunkSize < Len(v.keys)
      /\ Has(s[ChunkOf(b, r \div ChunkSize)], col, r)
  BY DEF Readable
<1>2. CASE v.current # None /\ v.current.idx = r \div ChunkSize
  <2>1. Has(v.current, col, r)
    BY <1>2 DEF Readable
  <2> QED  BY <1>1, <1>2, <2>1, FieldOfChunk
<1>3. CASE ~(v.current # None /\ v.current.idx = r \div ChunkSize)
  <2>1. Cached(v, s, r) = Vec(v.name, v.size, s[v.keys[(r \div ChunkSize) + 1].chunk], v.keys,
                              v.locked)
    BY <1>1, <1>3, CachedParts
  <2>2. Cached(v, s, r).current = s[ChunkOf(b, r \div ChunkSize)]
    BY <2>1, VecFields, ReadableParts
  <2> QED  BY <1>1, <1>3, <2>2, FieldOfChunk
<1> QED  BY <1>2, <1>3

LEMMA OpenField ==
  ASSUME NEW v, NEW s, NEW b, NEW col, NEW r \in 0 .. Len(col) - 1, Open(v, s, b, col)
  PROVE  FieldAt(v, s, r) = col[r + 1] /\ FieldAt(v, s, r) \in Data
<1>1. PICK j : j = r \div ChunkSize
  OBVIOUS
<1>2. /\ v \in Vector /\ col \in Seq(Data) /\ j <= v.current.idx /\ v.current \in Buffer
      /\ j < v.current.idx => Has(s[ChunkOf(b, j)], col, r)
      /\ j = v.current.idx => Has(v.current, col, r)
      /\ KeysAt(v.keys, b)
  BY <1>1 DEF Open
<1>3. v.current # None
  BY <1>2, NoneAssumption
<1>4. v.current.idx \in Nat /\ v.current.idx <= Len(v.keys) /\ v.keys \in Seq(KeyOfChunk)
  BY OpenParts
<1>5. j \in Nat
  <2>1. r \in Nat
    OBVIOUS
  <2> QED  BY <1>1, <2>1, Places
<1>6. CASE j = v.current.idx
  BY <1>1, <1>2, <1>3, <1>6, FieldOfChunk
<1>7. CASE j < v.current.idx
  <2>1. j < Len(v.keys) /\ j + 1 \in 1 .. Len(v.keys) /\ (j + 1) - 1 = j /\ v.current.idx # j
    BY <1>4, <1>5, <1>7
  <2>2. v.keys[j + 1].chunk = ChunkOf(b, j)
    <3>1. v.keys[j + 1] = ChunkKey(b, j, j % NumNodes)
      BY <1>2, <2>1 DEF KeysAt
    <3> QED  BY <3>1 DEF ChunkKey, ChunkOf
  <2>3. Cached(v, s, r) = Vec(v.name, v.size, s[v.keys[j + 1].chunk], v.keys, v.locked)
    BY <1>1, <1>2, <2>1, CachedParts
  <2>4. Cached(v, s, r).current = s[ChunkOf(b, j)]
    BY <2>2, <2>3, VecFields
  <2> QED  BY <1>1, <1>2, <1>7, <2>1, <2>4, FieldOfChunk
<1>8. j = v.current.idx \/ j < v.current.idx
  BY <1>2, <1>4, <1>5
<1> QED  BY <1>6, <1>7, <1>8

(* get: its chunk is cached.                                               *)
LEMMA CachedColumn ==
  ASSUME NEW v, NEW s, NEW b, NEW col, NEW n, NEW r \in 0 .. Len(col) - 1,
         Readable(v, s, b, col, n), n <= r
  PROVE  LET w == Cached(v, s, r)
         IN /\ w \in Vector /\ w.name = v.name /\ w.size = v.size /\ w.keys = v.keys
            /\ v.locked => w.locked
            /\ Readable(w, s, b, col, n)
            /\ w = v \/ (w.current \in Buffer /\ w.current = s[ChunkOf(b, r \div ChunkSize)])
<1>1. PICK w : w = Cached(v, s, r)
  OBVIOUS
<1>2. PICK j : j = r \div ChunkSize
  OBVIOUS
<1>3. v \in Vector /\ col \in Seq(Data) /\ Has(s[ChunkOf(b, j)], col, r)
  BY <1>2 DEF Readable
<1>4. CASE w = v
  BY <1>1, <1>3, <1>4
<1>5. CASE w # v
  <2>1. w = Vec(v.name, v.size, s[v.keys[j + 1].chunk], v.keys, v.locked)
    BY <1>1, <1>2, <1>3, <1>5, CachedParts
  <2>2. PICK x : x = s[ChunkOf(b, j)]
    OBVIOUS
  <2>3. w = Vec(v.name, v.size, x, v.keys, v.locked)
    BY <1>2, <2>1, <2>2, ReadableParts
  <2>4. x \in Buffer /\ x.idx = j
    BY <1>2, <1>3, <2>2 DEF Has
  <2>5. /\ v.name \in Name \cup {None} /\ v.size \in 0 .. MaxRows
        /\ v.keys \in Seq(KeyOfChunk) /\ v.locked \in BOOLEAN
    BY <1>3, VectorParts
  <2>6. w \in Vector
    BY <2>3, <2>4, <2>5, VectorParts
  <2>7. w.name = v.name /\ w.size = v.size /\ w.keys = v.keys /\ w.current = x
    BY <2>3, VecFields
  <2>8. v.locked => w.locked
    <3>1. PICK l : l = v.locked
      OBVIOUS
    <3>2. w.locked = l
      BY <2>3, <3>1, VecFields
    <3> QED  BY <3>1, <3>2, Zenon
  <2>9. Readable(w, s, b, col, n)
    <3>1. ASSUME NEW q \in 0 .. Len(col) - 1, n <= q, q \div ChunkSize = x.idx
          PROVE  Has(x, col, q)
      <4>1. q \div ChunkSize = j
        BY <2>4, <3>1
      <4> QED  BY <2>2, <3>1, <4>1 DEF Readable
    <3> QED  BY <2>6, <2>7, <3>1 DEF Readable
  <2> QED  BY <1>1, <1>2, <2>2, <2>4, <2>6, <2>7, <2>8, <2>9
<1> QED  BY <1>4, <1>5

LEMMA CachedClosed ==
  ASSUME NEW v, NEW s, NEW b, NEW col, NEW r \in 0 .. Len(col) - 1, Closed(v, s, b, col)
  PROVE  LET w == Cached(v, s, r)
         IN /\ Closed(w, s, b, col) /\ w.name = v.name /\ w.keys = v.keys /\ w.size = v.size
            /\ w \in Vector /\ (Exact(v, s, b) => Exact(w, s, b))
<1>1. PICK w : w = Cached(v, s, r)
  OBVIOUS
<1>2. 0 <= r /\ Readable(v, s, b, col, 0) /\ v.locked
  BY ClosedReadable DEF Closed
<1>3. /\ w \in Vector /\ w.name = v.name /\ w.size = v.size /\ w.keys = v.keys /\ w.locked
      /\ Readable(w, s, b, col, 0)
  BY <1>1, <1>2, CachedColumn
<1>4. ASSUME w.current # None, NEW q \in 0 .. Len(col) - 1, q \div ChunkSize = w.current.idx
      PROVE  Has(w.current, col, q)
  BY <1>3, <1>4 DEF Readable
<1>5. Closed(w, s, b, col)
  BY <1>3, <1>4 DEF Closed
<1>6. Exact(v, s, b) => Exact(w, s, b)
  BY <1>3 DEF Exact
<1> QED  BY <1>1, <1>3, <1>5, <1>6

-----------------------------------------------------------------------------
(* Sequences of fields appended, and columns padded.                       *)

(* The chunks of the column b from chunk n on are the same in s and t.     *)
Unwritten(s, t, b, n) ==
  \A i \in 0 .. MaxRows : ~(i < n) => t[ChunkOf(b, i)] = s[ChunkOf(b, i)]

(* The open column v became w, with the fields col.                        *)
Longer(w, t, v, s, b, col) ==
  /\ Open(w, t, b, col) /\ Grown(s, t, b, Len(v.keys)) /\ Unwritten(s, t, b, Len(w.keys))
  /\ Len(w.keys) >= Len(v.keys)
  /\ Len(v.keys) = v.current.idx => Len(w.keys) = w.current.idx

(* It was locked.                                                          *)
Settled(w, t, v, s, b, col) ==
  /\ Closed(w, t, b, col) /\ Exact(w, t, b) /\ w.name = b
  /\ Grown(s, t, b, Len(v.keys)) /\ Len(w.keys) >= Len(v.keys)

(* Other columns were left alone.                                          *)
OthersSame(s, t, b) == \A d \in Name : d # b => Same(s, t, d)

LEMMA FieldAppended ==
  ASSUME NEW s \in Store, NEW v, NEW b, NEW col, Open(v, s, b, col),
         NEW f \in Data, Len(col) < MaxRows
  PROVE  \E w, t : /\ AppendField(Pair(v, s), f) = Pair(w, t) /\ t \in Store
                   /\ Longer(w, t, v, s, b, Append(col, f)) /\ OthersSame(s, t, b)
<1>1. PICK w, t : AppendField(Pair(v, s), f) = Pair(w, t) /\ Appended(w, t, v, s, b, col, f)
  BY AppendFieldCorrect
<1>2. b \in Name
  BY OpenParts
<1>3. Written(s, t, b, Len(v.keys), Len(w.keys))
  BY <1>1 DEF Appended
<1>4. Grown(s, t, b, Len(v.keys)) /\ OthersSame(s, t, b) /\ Unwritten(s, t, b, Len(w.keys))
  BY <1>2, <1>3, WrittenParts DEF OthersSame, Unwritten
<1> QED  BY <1>1, <1>4 DEF Appended, Longer

LEMMA ColumnLocked ==
  ASSUME NEW s \in Store, NEW v, NEW b, NEW col, Open(v, s, b, col)
  PROVE  \E w, t : /\ Lock(Pair(v, s)) = Pair(w, t) /\ t \in Store
                   /\ Settled(w, t, v, s, b, col) /\ OthersSame(s, t, b)
<1>1. PICK w, t : Lock(Pair(v, s)) = Pair(w, t) /\ Stored(w, t, v, s, b, col)
  BY LockCorrect
<1>2. b \in Name
  BY OpenParts
<1>3. Written(s, t, b, Len(v.keys), Len(w.keys))
  BY <1>1 DEF Stored
<1>4. Grown(s, t, b, Len(v.keys)) /\ OthersSame(s, t, b)
  BY <1>2, <1>3, WrittenParts DEF OthersSame
<1> QED  BY <1>1, <1>4 DEF Stored, Settled

LEMMA LongerThen ==
  ASSUME NEW u, NEW x, NEW w, NEW t, NEW v, NEW s, NEW b, NEW c, NEW d,
         Longer(w, t, v, s, b, c), v.keys \in Seq(KeyOfChunk)
  PROVE  /\ Longer(u, x, w, t, b, d) => Longer(u, x, v, s, b, d)
         /\ Settled(u, x, w, t, b, d) => Settled(u, x, v, s, b, d)
<1>1. Len(v.keys) \in Nat /\ Len(w.keys) \in Nat /\ Len(v.keys) <= Len(w.keys)
  BY OpenParts DEF Longer
<1>2. Grown(t, x, b, Len(w.keys)) => Grown(s, x, b, Len(v.keys))
  BY <1>1, GrownMore DEF Longer
<1>3. ASSUME Longer(u, x, w, t, b, d) PROVE Longer(u, x, v, s, b, d)
  <2>1. u.keys \in Seq(KeyOfChunk)
    BY <1>3, OpenParts DEF Longer
  <2>2. Len(u.keys) \in Nat
    BY <2>1
  <2>3. Len(u.keys) >= Len(w.keys) /\ Unwritten(t, x, b, Len(u.keys))
    BY <1>3 DEF Longer
  <2>4. \A i \in 0 .. MaxRows : ~(i < Len(u.keys)) => ~(i < Len(w.keys))
    BY <1>1, <2>2, <2>3, MaxRowsAssumption
  <2>5. Unwritten(s, x, b, Len(u.keys))
    BY <2>3, <2>4 DEF Longer, Unwritten
  <2>6. Len(u.keys) >= Len(v.keys)
    BY <1>1, <2>2, <2>3
  <2> QED  BY <1>2, <1>3, <2>5, <2>6 DEF Longer
<1>4. ASSUME Settled(u, x, w, t, b, d) PROVE Settled(u, x, v, s, b, d)
  <2>1. Len(u.keys) \in Nat /\ Len(u.keys) >= Len(w.keys)
    BY <1>4, ClosedParts DEF Settled
  <2>2. Len(u.keys) >= Len(v.keys)
    BY <1>1, <2>1
  <2> QED  BY <1>2, <1>4, <2>2 DEF Settled
<1> QED  BY <1>3, <1>4

LEMMA OthersSameMore ==
  ASSUME NEW s, NEW t, NEW x, NEW b, OthersSame(s, t, b), OthersSame(t, x, b)
  PROVE  OthersSame(s, x, b)
  BY GrownMore DEF OthersSame

(* The first n of the fields fs appended to col.                           *)
Joined(col, fs, n) ==
  [i \in 1 .. Len(col) + n |-> IF i <= Len(col) THEN col[i] ELSE fs[i - Len(col)]]

LEMMA JoinedParts ==
  ASSUME NEW col \in Seq(Data), NEW fs \in Seq(Data)
  PROVE  /\ Joined(col, fs, 0) = col
         /\ Joined(col, fs, Len(fs)) = col \o fs
         /\ \A n \in Nat : n < Len(fs) =>
              /\ Joined(col, fs, n) \in Seq(Data) /\ Len(Joined(col, fs, n)) = Len(col) + n
              /\ Append(Joined(col, fs, n), fs[n + 1]) = Joined(col, fs, n + 1)
<1>1. PICK m \in Nat : m = Len(col)
  OBVIOUS
<1>2. Joined(col, fs, 0) = col
  BY DEF Joined
<1>3. Joined(col, fs, Len(fs)) = col \o fs
  <2>1. PICK k \in Nat : k = Len(fs)
    OBVIOUS
  <2>2. PICK q : q = Joined(col, fs, Len(fs))
    OBVIOUS
  <2>3. q = [i \in 1 .. m + k |-> IF i <= m THEN col[i] ELSE fs[i - m]]
    BY <1>1, <2>1, <2>2 DEF Joined
  <2>4. PICK z : z = col \o fs
    OBVIOUS
  <2>5. z \in Seq(Data) /\ Len(z) = m + k
        /\ \A i \in 1 .. m + k : z[i] = IF i <= m THEN col[i] ELSE fs[i - m]
    BY <1>1, <2>1, <2>4
  <2>6. z = [i \in 1 .. m + k |-> z[i]]
    BY <2>5
  <2>7. \A i \in 1 .. m + k : q[i] = z[i]
    BY <2>3, <2>5
  <2>8. q = [i \in 1 .. m + k |-> q[i]]
    BY <2>3
  <2>9. q = z
    BY <2>6, <2>7, <2>8
  <2> QED  BY <2>2, <2>4, <2>9
<1>4. ASSUME NEW n \in Nat, n < Len(fs)
      PROVE  /\ Joined(col, fs, n) \in Seq(Data) /\ Len(Joined(col, fs, n)) = Len(col) + n
             /\ Append(Joined(col, fs, n), fs[n + 1]) = Joined(col, fs, n + 1)
  <2>1. PICK q : q = Joined(col, fs, n)
    OBVIOUS
  <2>2. q = [i \in 1 .. m + n |-> IF i <= m THEN col[i] ELSE fs[i - m]]
    BY <1>1, <2>1 DEF Joined
  <2>3. \A i \in 1 .. m + n : q[i] \in Data
    <3> SUFFICES ASSUME NEW i \in 1 .. m + n PROVE q[i] \in Data
      OBVIOUS
    <3>1. CASE i <= m
      BY <1>1, <2>2, <3>1
    <3>2. CASE ~(i <= m)
      <4>1. i - m \in 1 .. Len(fs)
        BY <1>4, <3>2
      <4> QED  BY <2>2, <3>2, <4>1
    <3> QED  BY <3>1, <3>2
  <2>4. q \in [1 .. m + n -> Data]
    BY <2>2, <2>3
  <2>5. q \in Seq(Data) /\ Len(q) = m + n
    BY <2>4
  <2>6. PICK f : f = fs[n + 1]
    OBVIOUS
  <2>7. f \in Data
    BY <1>4, <2>6
  <2>8. PICK z : z = Append(q, f)
    OBVIOUS
  <2>9. z \in Seq(Data) /\ Len(z) = m + n + 1 /\ z[m + n + 1] = f
        /\ \A i \in 1 .. m + n : z[i] = q[i]
    BY <2>5, <2>7, <2>8
  <2>10. PICK y : y = Joined(col, fs, n + 1)
    OBVIOUS
  <2>11. y = [i \in 1 .. m + n + 1 |-> IF i <= m THEN col[i] ELSE fs[i - m]]
    BY <1>1, <2>10 DEF Joined
  <2>12. \A i \in 1 .. m + n + 1 : z[i] = y[i]
    <3> SUFFICES ASSUME NEW i \in 1 .. m + n + 1 PROVE z[i] = y[i]
      OBVIOUS
    <3>1. CASE i \in 1 .. m + n
      BY <2>2, <2>9, <2>11, <3>1
    <3>2. CASE i = m + n + 1
      <4>1. ~(i <= m) /\ i - m = n + 1
        BY <3>2
      <4> QED  BY <2>6, <2>9, <2>11, <3>2, <4>1
    <3>3. i \in 1 .. m + n \/ i = m + n + 1
      OBVIOUS
    <3> QED  BY <3>1, <3>2, <3>3
  <2>13. z = [i \in 1 .. m + n + 1 |-> z[i]]
    BY <2>9
  <2>14. y = [i \in 1 .. m + n + 1 |-> y[i]]
    BY <2>11
  <2>15. z = y
    BY <2>12, <2>13, <2>14
  <2> QED  BY <1>1, <2>1, <2>5, <2>6, <2>8, <2>10, <2>15
<1> QED  BY <1>2, <1>3, <1>4

AppendStep(a, p, f) == AppendField(p, f)
Appending == INSTANCE FoldProofs WITH Op <- AppendStep

LEMMA FieldsAppended ==
  ASSUME NEW s \in Store, NEW v, NEW b, NEW col, Open(v, s, b, col),
         NEW fs \in Seq(Data), Len(col) + Len(fs) <= MaxRows
  PROVE  \E w, t : /\ AppendAll(Pair(v, s), fs) = Pair(w, t) /\ t \in Store
                   /\ Longer(w, t, v, s, b, col \o fs) /\ OthersSame(s, t, b)
<1>1. PICK p : p = Pair(v, s)
  OBVIOUS
<1>2. AppendAll(p, fs) = Appending!Folded(0, p, fs, Len(fs))
  <2>1. DOMAIN fs = 1 .. Len(fs)
    OBVIOUS
  <2> QED  BY <2>1 DEF AppendAll, FoldLeft, MapThenFoldSet, Max, Appending!Folded, Appending!Iter,
                       AppendStep
<1>3. Len(fs) \in Nat /\ col \in Seq(Data) /\ Len(col) \in Nat
  BY DEF Open
<1>4. PICK it : Appending!Folding(0, it, p, fs, Len(fs)) /\ AppendAll(p, fs) = it[Len(fs)]
  BY <1>2, <1>3, Appending!FoldGoesThrough
<1>5. it[0] = p /\ \A k \in 1 .. Len(fs) : it[k] = AppendField(it[k - 1], fs[k])
  BY <1>4 DEF Appending!Folding, AppendStep
<1>6. v.keys \in Seq(KeyOfChunk) /\ b \in Name
  BY OpenParts
<1> DEFINE Reached(n) ==
             \E w, t : /\ it[n] = Pair(w, t) /\ t \in Store
                       /\ Longer(w, t, v, s, b, Joined(col, fs, n)) /\ OthersSame(s, t, b)
           S == {n \in Nat : n <= Len(fs) => Reached(n)}
<1>7. 0 \in S
  <2>1. Longer(v, s, v, s, b, col) /\ OthersSame(s, s, b)
    <3>1. Len(v.keys) >= Len(v.keys)
      BY <1>6
    <3> QED  BY <3>1, GrownMore DEF Longer, OthersSame, Same, Unwritten
  <2>2. Joined(col, fs, 0) = col
    BY <1>3, JoinedParts
  <2> QED  BY <1>1, <1>5, <2>1, <2>2
<1>8. ASSUME NEW n \in Nat, n \in S PROVE n + 1 \in S
  <2> SUFFICES ASSUME n + 1 <= Len(fs) PROVE Reached(n + 1)
    OBVIOUS
  <2>1. n < Len(fs) /\ n <= Len(fs) /\ n + 1 \in 1 .. Len(fs) /\ (n + 1) - 1 = n
    BY <1>3
  <2>2. PICK w, t : /\ it[n] = Pair(w, t) /\ t \in Store
                    /\ Longer(w, t, v, s, b, Joined(col, fs, n)) /\ OthersSame(s, t, b)
    BY <1>8, <2>1
  <2>3. PICK c : c = Joined(col, fs, n)
    OBVIOUS
  <2>4. Open(w, t, b, c)
    BY <2>2, <2>3 DEF Longer
  <2>5. Len(c) < MaxRows /\ Append(c, fs[n + 1]) = Joined(col, fs, n + 1)
    <3>1. Len(c) = Len(col) + n /\ Append(c, fs[n + 1]) = Joined(col, fs, n + 1)
      BY <1>3, <2>1, <2>3, JoinedParts
    <3> QED  BY <1>3, <2>1, <3>1, MaxRowsAssumption
  <2>6. fs[n + 1] \in Data
    BY <2>1
  <2>7. PICK u, x : /\ AppendField(Pair(w, t), fs[n + 1]) = Pair(u, x) /\ x \in Store
                    /\ Longer(u, x, w, t, b, Append(c, fs[n + 1])) /\ OthersSame(t, x, b)
    BY <2>2, <2>4, <2>5, <2>6, FieldAppended
  <2>8. it[n + 1] = Pair(u, x)
    BY <1>5, <2>1, <2>2, <2>7
  <2>9. Longer(u, x, v, s, b, Append(c, fs[n + 1])) /\ OthersSame(s, x, b)
    BY <1>6, <2>2, <2>7, LongerThen, OthersSameMore
  <2> QED  BY <2>5, <2>7, <2>8, <2>9
<1>9. Nat \subseteq S
  <2> HIDE DEF S
  <2> QED  BY <1>7, <1>8, Appending!Induction
<1>10. Reached(Len(fs))
  <2>1. Len(fs) <= Len(fs)
    BY <1>3
  <2> QED  BY <1>3, <1>9, <2>1
<1>11. Joined(col, fs, Len(fs)) = col \o fs
  BY <1>3, JoinedParts
<1> QED  BY <1>1, <1>4, <1>10, <1>11

(* The fields that col is padded with to have n of them.                   *)
Padding(col, n) == [i \in 1 .. n - Len(col) |-> Missing]

LEMMA ColumnPadded ==
  ASSUME NEW s \in Store, NEW v, NEW b, NEW col, Closed(v, s, b, col), Exact(v, s, b),
         v.name = b, v.keys # <<>>
  PROVE  \A n \in 0 .. MaxRows : Len(col) <= n =>
           \E w, t : /\ PadColumn(Pair(v, s), n) = Pair(w, t) /\ t \in Store
                     /\ Settled(w, t, v, s, b, col \o Padding(col, n)) /\ OthersSame(s, t, b)
<1>1. PICK u : Unlock(Pair(v, s)) = Pair(u, s) /\ Open(u, s, b, col) /\ u.keys = v.keys
  BY UnlockCorrect
<1> SUFFICES ASSUME NEW n \in 0 .. MaxRows, Len(col) <= n
             PROVE  \E w, t :
                      /\ PadColumn(Pair(v, s), n) = Pair(w, t) /\ t \in Store
                      /\ Settled(w, t, v, s, b, col \o Padding(col, n)) /\ OthersSame(s, t, b)
  OBVIOUS
<1>2. PICK fs : fs = Padding(col, n)
  OBVIOUS
<1>3. v.size = Len(col) /\ Len(col) \in Nat /\ v.keys \in Seq(KeyOfChunk) /\ b \in Name
      /\ col \in Seq(Data)
  BY ClosedParts DEF Closed
<1>4. PICK m \in Nat : m = n - Len(col)
  BY <1>3, MaxRowsAssumption
<1>5. fs = [i \in 1 .. m |-> Missing]
  BY <1>2, <1>4 DEF Padding
<1>6. fs \in Seq(Data) /\ Len(fs) = m
  <2>1. Missing \in Data
    BY DEF Data
  <2>2. fs \in [1 .. m -> Data]
    BY <1>5, <2>1
  <2> QED  BY <2>2
<1>7. Len(col) + Len(fs) <= MaxRows
  BY <1>3, <1>4, <1>6, MaxRowsAssumption
<1>8. PICK x, t : /\ AppendAll(Pair(u, s), fs) = Pair(x, t) /\ t \in Store
                  /\ Longer(x, t, u, s, b, col \o fs) /\ OthersSame(s, t, b)
  BY <1>1, <1>6, <1>7, FieldsAppended
<1>9. Open(x, t, b, col \o fs)
  BY <1>8 DEF Longer
<1>10. PICK w, y : /\ Lock(Pair(x, t)) = Pair(w, y) /\ y \in Store
                   /\ Settled(w, y, x, t, b, col \o fs) /\ OthersSame(t, y, b)
  BY <1>8, <1>9, ColumnLocked
<1>11. PadColumn(Pair(v, s), n) = Pair(w, y)
  <2>1. Pair(v, s).v = v
    BY PairFields
  <2>2. [i \in 1 .. n - Pair(v, s).v.size |-> Missing] = fs
    BY <1>3, <1>4, <1>5, <2>1
  <2> QED  BY <1>1, <1>8, <1>10, <2>2 DEF PadColumn
<1>12. Settled(w, y, u, s, b, col \o fs) /\ OthersSame(s, y, b)
  BY <1>1, <1>3, <1>8, <1>10, LongerThen, OthersSameMore
<1>13. Settled(w, y, v, s, b, col \o fs)
  BY <1>1, <1>12 DEF Settled
<1> QED  BY <1>2, <1>10, <1>11, <1>12, <1>13

-----------------------------------------------------------------------------
(* One column after the other.                                             *)

(* A task a is the columns a.p, what is done to them, with a row of fields *)
(* or a number of rows, and what they are: their names a.base and fields   *)
(* a.col.                                                                  *)
Task(p, op, row, len, base, col) ==
  [p |-> p, op |-> op, row |-> row, len |-> len, base |-> base, col |-> col]

Cols(ws, t) == [cols |-> ws, s |-> t]

ColumnOp(a, x, c) ==
  CASE a.op = "append" -> AppendField(x, a.row[c])
    [] a.op = "lock" -> Lock(x)
    [] a.op = "pad" -> PadColumn(x, a.len)

EachStep(a, q, c) ==
  LET r == ColumnOp(a, Pair(a.p.cols[c], q.s), c) IN Cols(Append(q.cols, r.v), r.s)

Ready(a, c, s) ==
  \/ /\ a.op = "append" /\ Open(a.p.cols[c], s, a.base[c], a.col[c])
     /\ a.row[c] \in Data /\ Len(a.col[c]) < MaxRows
  \/ a.op = "lock" /\ Open(a.p.cols[c], s, a.base[c], a.col[c])
  \/ /\ a.op = "pad" /\ Closed(a.p.cols[c], s, a.base[c], a.col[c])
     /\ Exact(a.p.cols[c], s, a.base[c]) /\ a.p.cols[c].name = a.base[c]
     /\ a.p.cols[c].keys # <<>> /\ a.len \in 0 .. MaxRows /\ Len(a.col[c]) <= a.len

Done(a, c, w, t, s) ==
  \/ /\ a.op = "append"
     /\ Longer(w, t, a.p.cols[c], s, a.base[c], Append(a.col[c], a.row[c]))
  \/ a.op = "lock" /\ Settled(w, t, a.p.cols[c], s, a.base[c], a.col[c])
  \/ /\ a.op = "pad"
     /\ Settled(w, t, a.p.cols[c], s, a.base[c], a.col[c] \o Padding(a.col[c], a.len))

Prepared(a, n, s) ==
  /\ \A c \in 1 .. n : a.base[c] \in Name /\ Ready(a, c, s)
  /\ \A c, d \in 1 .. n : c # d => a.base[c] # a.base[d]

Worked(a, n, ws, t, s) ==
  /\ t \in Store /\ ws \in Seq(Vector) /\ Len(ws) = n
  /\ \A c \in 1 .. n : Done(a, c, ws[c], t, s)
  /\ \A d \in Name : (\A c \in 1 .. n : a.base[c] # d) => Same(s, t, d)

LEMMA OneColumn ==
  ASSUME NEW a, NEW c, NEW s \in Store, Ready(a, c, s)
  PROVE  \E w, t : /\ ColumnOp(a, Pair(a.p.cols[c], s), c) = Pair(w, t) /\ t \in Store
                   /\ Done(a, c, w, t, s) /\ OthersSame(s, t, a.base[c]) /\ w \in Vector
<1>1. PICK v, b, col : v = a.p.cols[c] /\ b = a.base[c] /\ col = a.col[c]
  OBVIOUS
<1>2. CASE a.op = "append"
  <2>1. Open(v, s, b, col) /\ a.row[c] \in Data /\ Len(col) < MaxRows
    BY <1>1, <1>2 DEF Ready
  <2>2. PICK w, t : /\ AppendField(Pair(v, s), a.row[c]) = Pair(w, t) /\ t \in Store
                    /\ Longer(w, t, v, s, b, Append(col, a.row[c])) /\ OthersSame(s, t, b)
    BY <2>1, FieldAppended
  <2>3. ColumnOp(a, Pair(v, s), c) = Pair(w, t)
    BY <1>2, <2>2 DEF ColumnOp
  <2>4. Done(a, c, w, t, s)
    BY <1>1, <1>2, <2>2 DEF Done
  <2>5. w \in Vector
    BY <2>2 DEF Longer, Open
  <2> QED  BY <1>1, <2>2, <2>3, <2>4, <2>5
<1>3. CASE a.op = "lock"
  <2>1. Open(v, s, b, col)
    BY <1>1, <1>3 DEF Ready
  <2>2. PICK w, t : /\ Lock(Pair(v, s)) = Pair(w, t) /\ t \in Store
                    /\ Settled(w, t, v, s, b, col) /\ OthersSame(s, t, b)
    BY <2>1, ColumnLocked
  <2>3. ColumnOp(a, Pair(v, s), c) = Pair(w, t)
    BY <1>3, <2>2 DEF ColumnOp
  <2>4. Done(a, c, w, t, s)
    BY <1>1, <1>3, <2>2 DEF Done
  <2>5. w \in Vector
    BY <2>2 DEF Settled, Closed
  <2> QED  BY <1>1, <2>2, <2>3, <2>4, <2>5
<1>4. CASE a.op = "pad"
  <2>1. /\ Closed(v, s, b, col) /\ Exact(v, s, b) /\ v.name = b /\ v.keys # <<>>
        /\ a.len \in 0 .. MaxRows /\ Len(col) <= a.len
    BY <1>1, <1>4 DEF Ready
  <2>2. \A n \in 0 .. MaxRows : Len(col) <= n =>
           \E w, t : /\ PadColumn(Pair(v, s), n) = Pair(w, t) /\ t \in Store
                     /\ Settled(w, t, v, s, b, col \o Padding(col, n)) /\ OthersSame(s, t, b)
    BY <2>1, ColumnPadded
  <2>3. PICK w, t : /\ PadColumn(Pair(v, s), a.len) = Pair(w, t) /\ t \in Store
                    /\ Settled(w, t, v, s, b, col \o Padding(col, a.len))
                    /\ OthersSame(s, t, b)
    BY <2>1, <2>2
  <2>4. ColumnOp(a, Pair(v, s), c) = Pair(w, t)
    BY <1>4, <2>3 DEF ColumnOp
  <2>5. Done(a, c, w, t, s)
    BY <1>1, <1>4, <2>3 DEF Done
  <2>6. w \in Vector
    BY <2>3 DEF Settled, Closed
  <2> QED  BY <1>1, <2>3, <2>4, <2>5, <2>6
<1> QED  BY <1>2, <1>3, <1>4 DEF Ready

(* Ready and Done are about the chunks of one column.                      *)
LEMMA ReadySame ==
  ASSUME NEW a, NEW c, NEW s, NEW t, Ready(a, c, s), Same(s, t, a.base[c])
  PROVE  Ready(a, c, t)
<1>1. PICK v, b, col : v = a.p.cols[c] /\ b = a.base[c] /\ col = a.col[c]
  OBVIOUS
<1>2. Same(s, t, b)
  BY <1>1
<1>3. Open(v, s, b, col) => Open(v, t, b, col)
  BY <1>2, OpenSame
<1>4. Closed(v, s, b, col) => Closed(v, t, b, col) /\ (Exact(v, s, b) => Exact(v, t, b))
  BY <1>2, ClosedSame
<1> QED  BY <1>1, <1>3, <1>4 DEF Ready

LEMMA KeptSame ==
  ASSUME NEW w, NEW t, NEW v, NEW s, NEW b, NEW col, NEW x, NEW y, Same(s, x, b), Same(t, y, b)
  PROVE  /\ Longer(w, t, v, s, b, col) => Longer(w, y, v, x, b, col)
         /\ Settled(w, t, v, s, b, col) => Settled(w, y, v, x, b, col)
<1>1. \A n : Grown(s, t, b, n) => Grown(x, y, b, n)
  BY DEF Grown, Same
<1>2. \A n : Unwritten(s, t, b, n) => Unwritten(x, y, b, n)
  BY DEF Unwritten, Same
<1>3. Open(w, t, b, col) => Open(w, y, b, col)
  BY OpenSame
<1>4. Closed(w, t, b, col) => Closed(w, y, b, col) /\ (Exact(w, t, b) => Exact(w, y, b))
  BY ClosedSame
<1> QED  BY <1>1, <1>2, <1>3, <1>4 DEF Longer, Settled

LEMMA DoneSame ==
  ASSUME NEW a, NEW c, NEW w, NEW t, NEW s, NEW x, NEW y, Done(a, c, w, t, s),
         Same(s, x, a.base[c]), Same(t, y, a.base[c])
  PROVE  Done(a, c, w, y, x)
<1>1. PICK v, b : v = a.p.cols[c] /\ b = a.base[c]
  OBVIOUS
<1>2. Same(s, x, b) /\ Same(t, y, b)
  BY <1>1
<1>3. \A col : /\ Longer(w, t, v, s, b, col) => Longer(w, y, v, x, b, col)
               /\ Settled(w, t, v, s, b, col) => Settled(w, y, v, x, b, col)
  BY <1>2, KeptSame
<1> QED  BY <1>1, <1>3 DEF Done

LEMMA EachColumnWorks ==
  ASSUME NEW a, NEW n \in Nat, NEW it, NEW s \in Store, it[0] = Cols(<<>>, s),
         \A c \in 1 .. n : it[c] = EachStep(a, it[c - 1], c), Prepared(a, n, s)
  PROVE  \E ws, t : it[n] = Cols(ws, t) /\ Worked(a, n, ws, t, s)
<1> DEFINE Reached(m) == \E ws, t : it[m] = Cols(ws, t) /\ Worked(a, m, ws, t, s)
           S == {m \in Nat : m <= n => Reached(m)}
<1>1. 0 \in S
  <2>1. Worked(a, 0, <<>>, s, s)
    <3>1. <<>> \in Seq(Vector) /\ Len(<<>>) = 0 /\ \A c \in 1 .. 0 : FALSE
      OBVIOUS
    <3>2. \A d : Same(s, s, d)
      BY GrownMore
    <3> QED  BY <3>1, <3>2 DEF Worked
  <2> QED  BY <2>1
<1>2. ASSUME NEW m \in Nat, m \in S PROVE m + 1 \in S
  <2> SUFFICES ASSUME m + 1 <= n PROVE Reached(m + 1)
    OBVIOUS
  <2>1. m <= n /\ m + 1 \in 1 .. n /\ (m + 1) - 1 = m
        /\ \A c \in 1 .. m : c \in 1 .. n /\ c # m + 1
    OBVIOUS
  <2>2. PICK ws, t : it[m] = Cols(ws, t) /\ Worked(a, m, ws, t, s)
    BY <1>2, <2>1
  <2>3. PICK k : k = m + 1
    OBVIOUS
  <2>4. PICK b : b = a.base[k]
    OBVIOUS
  <2>5. b \in Name /\ Ready(a, k, s) /\ \A c \in 1 .. m : a.base[c] # b /\ a.base[c] \in Name
    BY <2>1, <2>3, <2>4 DEF Prepared
  <2>6. Same(s, t, b)
    BY <2>2, <2>5 DEF Worked
  <2>7. Ready(a, k, t)
    BY <2>4, <2>5, <2>6, ReadySame
  <2>8. t \in Store /\ ws \in Seq(Vector) /\ Len(ws) = m
    BY <2>2 DEF Worked
  <2>9. PICK w, u : /\ ColumnOp(a, Pair(a.p.cols[k], t), k) = Pair(w, u) /\ u \in Store
                    /\ Done(a, k, w, u, t) /\ OthersSame(t, u, b) /\ w \in Vector
    BY <2>4, <2>7, <2>8, OneColumn
  <2>10. PICK z : z = Append(ws, w)
    OBVIOUS
  <2>11. it[m + 1] = Cols(z, u)
    <3>1. it[m + 1] = EachStep(a, it[m], k)
      BY <2>1, <2>3
    <3>2. Cols(ws, t).cols = ws /\ Cols(ws, t).s = t
      BY DEF Cols
    <3>3. Pair(w, u).v = w /\ Pair(w, u).s = u
      BY PairFields
    <3>4. EachStep(a, it[m], k) = Cols(Append(it[m].cols, Pair(w, u).v), Pair(w, u).s)
      BY <2>2, <2>9, <3>2 DEF EachStep
    <3> QED  BY <2>2, <2>10, <3>1, <3>2, <3>3, <3>4
  <2>12. z \in Seq(Vector) /\ Len(z) = m + 1 /\ z[k] = w /\ \A c \in 1 .. m : z[c] = ws[c]
    BY <2>3, <2>8, <2>9, <2>10
  <2>13. ASSUME NEW c \in 1 .. m + 1 PROVE Done(a, c, z[c], u, s)
    <3>1. CASE c \in 1 .. m
      <4>1. a.base[c] \in Name /\ a.base[c] # b /\ Done(a, c, ws[c], t, s)
        BY <2>2, <2>5, <3>1 DEF Worked
      <4>2. Same(t, u, a.base[c]) /\ Same(s, s, a.base[c])
        BY <2>9, <4>1, GrownMore DEF OthersSame
      <4>3. Done(a, c, ws[c], u, s)
        BY <4>1, <4>2, DoneSame
      <4> QED  BY <2>12, <3>1, <4>3
    <3>2. CASE c = k
      <4>1. Same(t, s, b) /\ Same(u, u, b)
        BY <2>6 DEF Same
      <4>2. Done(a, k, w, u, s)
        BY <2>4, <2>9, <4>1, DoneSame
      <4> QED  BY <2>12, <3>2, <4>2
    <3>3. c \in 1 .. m \/ c = k
      BY <2>3
    <3> QED  BY <3>1, <3>2, <3>3
  <2>14. ASSUME NEW d \in Name, \A c \in 1 .. m + 1 : a.base[c] # d
         PROVE  Same(s, u, d)
    <3>1. d # b
      BY <2>3, <2>4, <2>14
    <3>2. Same(t, u, d)
      BY <2>9, <3>1 DEF OthersSame
    <3>3. \A c \in 1 .. m : c \in 1 .. m + 1
      OBVIOUS
    <3>4. Same(s, t, d)
      BY <2>2, <2>14, <3>3 DEF Worked
    <3> QED  BY <3>2, <3>4, GrownMore
  <2>15. Worked(a, m + 1, z, u, s)
    BY <2>9, <2>12, <2>13, <2>14 DEF Worked
  <2> QED  BY <2>11, <2>15
<1>3. Nat \subseteq S
  <2> HIDE DEF S
  <2> QED  BY <1>1, <1>2, Appending!Induction
<1>4. n \in S /\ n <= n
  BY <1>3
<1> HIDE DEF Reached
<1>5. Reached(n)
  BY <1>4
<1> QED  BY <1>5 DEF Reached

AddStep(a, q, c) ==
  LET r == AppendField([v |-> a.p.cols[c], s |-> q.s], a.row[c])
  IN [cols |-> Append(q.cols, r.v), s |-> r.s]

LockStep(a, q, c) ==
  LET r == Lock([v |-> a.p.cols[c], s |-> q.s])
  IN [cols |-> Append(q.cols, r.v), s |-> r.s]

PadStep(a, q, c) ==
  LET r == PadColumn([v |-> a.p.cols[c], s |-> q.s], a.len)
  IN [cols |-> Append(q.cols, r.v), s |-> r.s]

Adding == INSTANCE FoldProofs WITH Op <- AddStep
Locking == INSTANCE FoldProofs WITH Op <- LockStep
PaddingAll == INSTANCE FoldProofs WITH Op <- PadStep

PadColumns(p, n) == EachColumn(LAMBDA x, y : PadColumn(x, n), p)

LEMMA FieldsAdded ==
  ASSUME NEW a, a.op = "append", NEW n \in Nat, n = Len(a.p.cols), NEW s \in Store, a.p.s = s,
         Prepared(a, n, s)
  PROVE  \E ws, t : AddFields(a.p, a.row) = Cols(ws, t) /\ Worked(a, n, ws, t, s)
<1>1. PICK base, seq : base = [cols |-> <<>>, s |-> a.p.s] /\ seq = [c \in 1 .. Len(a.p.cols) |-> c]
  OBVIOUS
<1>2. AddFields(a.p, a.row) = Adding!Folded(a, base, seq, Len(a.p.cols))
  <2>1. DOMAIN [c \in 1 .. Len(a.p.cols) |-> c] = 1 .. Len(a.p.cols)
    OBVIOUS
  <2> QED  BY <1>1, <2>1 DEF AddFields, EachColumn, FoldLeft, MapThenFoldSet, Max,
                             Adding!Folded, Adding!Iter, AddStep
<1>3. PICK it : Adding!Folding(a, it, base, seq, n) /\ AddFields(a.p, a.row) = it[n]
  BY <1>2, Adding!FoldGoesThrough
<1>4. it[0] = Cols(<<>>, s)
  BY <1>1, <1>3 DEF Adding!Folding, Cols
<1>5. \A c \in 1 .. n : it[c] = EachStep(a, it[c - 1], c)
  <2>1. \A c \in 1 .. n : seq[c] = c
    BY <1>1
  <2>2. \A c \in 1 .. n : it[c] = AddStep(a, it[c - 1], c)
    BY <1>3, <2>1 DEF Adding!Folding
  <2>3. \A q, c : AddStep(a, q, c) = EachStep(a, q, c)
    BY DEF AddStep, EachStep, ColumnOp, Pair, Cols
  <2> QED  BY <2>2, <2>3
<1>6. \E ws, t : it[n] = Cols(ws, t) /\ Worked(a, n, ws, t, s)
  BY <1>4, <1>5, EachColumnWorks
<1> QED  BY <1>3, <1>6

LEMMA ColumnsLocked ==
  ASSUME NEW a, a.op = "lock", NEW n \in Nat, n = Len(a.p.cols), NEW s \in Store, a.p.s = s,
         Prepared(a, n, s)
  PROVE  \E ws, t : LockColumns(a.p) = Cols(ws, t) /\ Worked(a, n, ws, t, s)
<1>1. PICK base, seq : base = [cols |-> <<>>, s |-> a.p.s] /\ seq = [c \in 1 .. Len(a.p.cols) |-> c]
  OBVIOUS
<1>2. LockColumns(a.p) = Locking!Folded(a, base, seq, Len(a.p.cols))
  <2>1. DOMAIN [c \in 1 .. Len(a.p.cols) |-> c] = 1 .. Len(a.p.cols)
    OBVIOUS
  <2> QED  BY <1>1, <2>1 DEF LockColumns, EachColumn, FoldLeft, MapThenFoldSet, Max,
                             Locking!Folded, Locking!Iter, LockStep
<1>3. PICK it : Locking!Folding(a, it, base, seq, n) /\ LockColumns(a.p) = it[n]
  BY <1>2, Locking!FoldGoesThrough
<1>4. it[0] = Cols(<<>>, s)
  BY <1>1, <1>3 DEF Locking!Folding, Cols
<1>5. \A c \in 1 .. n : it[c] = EachStep(a, it[c - 1], c)
  <2>1. \A c \in 1 .. n : seq[c] = c
    BY <1>1
  <2>2. \A c \in 1 .. n : it[c] = LockStep(a, it[c - 1], c)
    BY <1>3, <2>1 DEF Locking!Folding
  <2>3. \A q, c : LockStep(a, q, c) = EachStep(a, q, c)
    BY DEF LockStep, EachStep, ColumnOp, Pair, Cols
  <2> QED  BY <2>2, <2>3
<1>6. \E ws, t : it[n] = Cols(ws, t) /\ Worked(a, n, ws, t, s)
  BY <1>4, <1>5, EachColumnWorks
<1> QED  BY <1>3, <1>6

LEMMA ColumnsPadded ==
  ASSUME NEW a, a.op = "pad", NEW n \in Nat, n = Len(a.p.cols), NEW s \in Store, a.p.s = s,
         Prepared(a, n, s)
  PROVE  \E ws, t : PadColumns(a.p, a.len) = Cols(ws, t) /\ Worked(a, n, ws, t, s)
<1>1. PICK base, seq : base = [cols |-> <<>>, s |-> a.p.s] /\ seq = [c \in 1 .. Len(a.p.cols) |-> c]
  OBVIOUS
<1>2. PadColumns(a.p, a.len) = PaddingAll!Folded(a, base, seq, Len(a.p.cols))
  <2>1. DOMAIN [c \in 1 .. Len(a.p.cols) |-> c] = 1 .. Len(a.p.cols)
    OBVIOUS
  <2> QED  BY <1>1, <2>1 DEF PadColumns, EachColumn, FoldLeft, MapThenFoldSet, Max,
                             PaddingAll!Folded, PaddingAll!Iter, PadStep
<1>3. PICK it : PaddingAll!Folding(a, it, base, seq, n) /\ PadColumns(a.p, a.len) = it[n]
  BY <1>2, PaddingAll!FoldGoesThrough
<1>4. it[0] = Cols(<<>>, s)
  BY <1>1, <1>3 DEF PaddingAll!Folding, Cols
<1>5. \A c \in 1 .. n : it[c] = EachStep(a, it[c - 1], c)
  <2>1. \A c \in 1 .. n : seq[c] = c
    BY <1>1
  <2>2. \A c \in 1 .. n : it[c] = PadStep(a, it[c - 1], c)
    BY <1>3, <2>1 DEF PaddingAll!Folding
  <2>3. \A q, c : PadStep(a, q, c) = EachStep(a, q, c)
    BY DEF PadStep, EachStep, ColumnOp, Pair, Cols
  <2> QED  BY <2>2, <2>3
<1>6. \E ws, t : it[n] = Cols(ws, t) /\ Worked(a, n, ws, t, s)
  BY <1>4, <1>5, EachColumnWorks
<1> QED  BY <1>3, <1>6

-----------------------------------------------------------------------------
(* Rows added to the columns of a frame, and the columns locked.           *)

Bases(base, n) ==
  /\ \A c \in 1 .. n : base[c] \in Name
  /\ \A c, d \in 1 .. n : c # d => base[c] # base[d]

Elsewhere(s, t, base, n) == \A d \in Name : (\A c \in 1 .. n : base[c] # d) => Same(s, t, d)

(* The n columns vs became ws, with the fields col.                        *)
Built(ws, t, vs, s, n, base, col) ==
  /\ t \in Store /\ ws \in Seq(Vector) /\ Len(ws) = n
  /\ \A c \in 1 .. n : Longer(ws[c], t, vs[c], s, base[c], col[c])
  /\ Elsewhere(s, t, base, n)

Sealed(ws, t, vs, s, n, base, col) ==
  /\ t \in Store /\ ws \in Seq(Vector) /\ Len(ws) = n
  /\ \A c \in 1 .. n : Settled(ws[c], t, vs[c], s, base[c], col[c])
  /\ Elsewhere(s, t, base, n)

(* The fields of the columns with a row more, and with rows to have len.   *)
WithRow(col, row, n) == [c \in 1 .. n |-> Append(col[c], row[c])]
WithPadding(col, len, n) == [c \in 1 .. n |-> col[c] \o Padding(col[c], len)]

(* There are keys of chunks in the columns, and room for the row.          *)
HaveKeys(vs, n) == \A c \in 1 .. n : vs[c].keys \in Seq(KeyOfChunk)
Fits(col, row, n) == \A c \in 1 .. n : row[c] \in Data /\ Len(col[c]) < MaxRows

(* No chunk was written but those whose keys the columns us have.          *)
WrittenTo(t, x, us, n, base) ==
  /\ Elsewhere(t, x, base, n)
  /\ \A c \in 1 .. n : Unwritten(t, x, base[c], Len(us[c].keys))

LEMMA ElsewhereMore ==
  ASSUME NEW s, NEW t, NEW x, NEW base, NEW n, Elsewhere(s, t, base, n), Elsewhere(t, x, base, n)
  PROVE  Elsewhere(s, x, base, n)
<1> SUFFICES ASSUME NEW d \in Name, \A c \in 1 .. n : base[c] # d PROVE Same(s, x, d)
  BY DEF Elsewhere
<1>1. Same(s, t, d) /\ Same(t, x, d)
  BY DEF Elsewhere
<1> QED  BY <1>1, GrownMore

LEMMA TaskFields ==
  ASSUME NEW p, NEW op, NEW row, NEW len, NEW base, NEW col
  PROVE  LET a == Task(p, op, row, len, base, col)
         IN /\ a.p = p /\ a.op = op /\ a.row = row /\ a.len = len
            /\ a.base = base /\ a.col = col
  BY DEF Task

LEMMA ColsFields ==
  ASSUME NEW ws, NEW t
  PROVE  Cols(ws, t).cols = ws /\ Cols(ws, t).s = t
  BY DEF Cols

LEMMA RowAdded ==
  ASSUME NEW n \in Nat, NEW base, NEW vs, NEW s, NEW ws, NEW t, NEW col, NEW row, Bases(base, n),
         Built(ws, t, vs, s, n, base, col), HaveKeys(vs, n),
         Fits(col, row, n)
  PROVE  \E us, x :
           /\ AddFields(Cols(ws, t), row) = Cols(us, x)
           /\ Built(us, x, vs, s, n, base, WithRow(col, row, n))
           /\ WrittenTo(t, x, us, n, base)
<1>1. PICK p : p = Cols(ws, t)
  OBVIOUS
<1>2. p.cols = ws /\ p.s = t
  BY <1>1, ColsFields
<1>3. PICK a : a = Task(p, "append", row, 0, base, col)
  OBVIOUS
<1>4. a.p = p /\ a.op = "append" /\ a.row = row /\ a.base = base /\ a.col = col
  BY <1>3, TaskFields
<1>5. t \in Store /\ Len(ws) = n /\ ws \in Seq(Vector)
      /\ \A c \in 1 .. n : Longer(ws[c], t, vs[c], s, base[c], col[c])
  BY DEF Built
<1>6. Prepared(a, n, t)
  <2>1. \A c \in 1 .. n : Ready(a, c, t)
    BY <1>2, <1>4, <1>5 DEF Ready, Longer, Fits
  <2> QED  BY <1>4, <2>1 DEF Prepared, Bases
<1>7. n = Len(a.p.cols) /\ a.p.s = t
  BY <1>2, <1>4, <1>5
<1>8. PICK us, x : AddFields(a.p, a.row) = Cols(us, x) /\ Worked(a, n, us, x, t)
  BY <1>4, <1>5, <1>6, <1>7, FieldsAdded
<1>9. x \in Store /\ us \in Seq(Vector) /\ Len(us) = n /\ \A c \in 1 .. n : Done(a, c, us[c], x, t)
  BY <1>8 DEF Worked
<1>10. Elsewhere(t, x, base, n)
  BY <1>4, <1>8 DEF Worked, Elsewhere
<1>11. Elsewhere(s, x, base, n)
  BY <1>10, ElsewhereMore DEF Built
<1>12. ASSUME NEW c \in 1 .. n
       PROVE  Longer(us[c], x, ws[c], t, base[c], Append(col[c], row[c]))
  <2>1. Done(a, c, us[c], x, t)
    BY <1>9
  <2> QED  BY <1>2, <1>4, <2>1 DEF Done
<1>13. ASSUME NEW c \in 1 .. n
       PROVE  /\ Longer(us[c], x, vs[c], s, base[c], Append(col[c], row[c]))
              /\ Unwritten(t, x, base[c], Len(us[c].keys))
  <2>1. Longer(us[c], x, ws[c], t, base[c], Append(col[c], row[c]))
    BY <1>12
  <2>2. Longer(ws[c], t, vs[c], s, base[c], col[c]) /\ vs[c].keys \in Seq(KeyOfChunk)
    BY <1>5 DEF HaveKeys
  <2>3. Longer(us[c], x, vs[c], s, base[c], Append(col[c], row[c]))
    BY <2>1, <2>2, LongerThen
  <2> QED  BY <2>1, <2>3 DEF Longer
<1>14. Built(us, x, vs, s, n, base, WithRow(col, row, n))
  BY <1>9, <1>11, <1>13 DEF Built, WithRow
<1>15. AddFields(Cols(ws, t), row) = Cols(us, x)
  BY <1>1, <1>4, <1>8
<1>16. WrittenTo(t, x, us, n, base)
  BY <1>10, <1>13 DEF WrittenTo
<1> QED  BY <1>14, <1>15, <1>16

LEMMA RowsLocked ==
  ASSUME NEW n \in Nat, NEW base, NEW vs, NEW s, NEW ws, NEW t, NEW col, Bases(base, n),
         Built(ws, t, vs, s, n, base, col), HaveKeys(vs, n)
  PROVE  \E us, x : /\ LockColumns(Cols(ws, t)) = Cols(us, x)
                    /\ Sealed(us, x, vs, s, n, base, col)
<1>1. PICK p : p = Cols(ws, t)
  OBVIOUS
<1>2. p.cols = ws /\ p.s = t
  BY <1>1, ColsFields
<1>3. PICK a : a = Task(p, "lock", 0, 0, base, col)
  OBVIOUS
<1>4. a.p = p /\ a.op = "lock" /\ a.base = base /\ a.col = col
  BY <1>3, TaskFields
<1>5. t \in Store /\ Len(ws) = n /\ ws \in Seq(Vector)
      /\ \A c \in 1 .. n : Longer(ws[c], t, vs[c], s, base[c], col[c])
  BY DEF Built
<1>6. Prepared(a, n, t)
  <2>1. \A c \in 1 .. n : Ready(a, c, t)
    BY <1>2, <1>4, <1>5 DEF Ready, Longer
  <2> QED  BY <1>4, <2>1 DEF Prepared, Bases
<1>7. n = Len(a.p.cols) /\ a.p.s = t
  BY <1>2, <1>4, <1>5
<1>8. PICK us, x : LockColumns(a.p) = Cols(us, x) /\ Worked(a, n, us, x, t)
  BY <1>4, <1>5, <1>6, <1>7, ColumnsLocked
<1>9. x \in Store /\ us \in Seq(Vector) /\ Len(us) = n /\ \A c \in 1 .. n : Done(a, c, us[c], x, t)
  BY <1>8 DEF Worked
<1>10. Elsewhere(t, x, base, n)
  BY <1>4, <1>8 DEF Worked, Elsewhere
<1>11. Elsewhere(s, x, base, n)
  BY <1>10, ElsewhereMore DEF Built
<1>12. ASSUME NEW c \in 1 .. n
       PROVE  Settled(us[c], x, vs[c], s, base[c], col[c])
  <2>1. Done(a, c, us[c], x, t)
    BY <1>9
  <2>2. Settled(us[c], x, ws[c], t, base[c], col[c])
    BY <1>2, <1>4, <2>1 DEF Done
  <2>3. Longer(ws[c], t, vs[c], s, base[c], col[c]) /\ vs[c].keys \in Seq(KeyOfChunk)
    BY <1>5 DEF HaveKeys
  <2> QED  BY <2>2, <2>3, LongerThen
<1>13. Sealed(us, x, vs, s, n, base, col)
  BY <1>9, <1>11, <1>12 DEF Sealed
<1>14. LockColumns(Cols(ws, t)) = Cols(us, x)
  BY <1>1, <1>4, <1>8
<1> QED  BY <1>13, <1>14

LEMMA RowsPadded ==
  ASSUME NEW n \in Nat, NEW base, NEW vs \in Seq(Vector), Len(vs) = n, NEW s \in Store, NEW col,
         NEW len \in 0 .. MaxRows, Bases(base, n),
         \A c \in 1 .. n : /\ Closed(vs[c], s, base[c], col[c]) /\ Exact(vs[c], s, base[c])
                           /\ vs[c].name = base[c] /\ vs[c].keys # <<>>
                           /\ Len(col[c]) <= len
  PROVE  \E us, x :
           /\ PadColumns(Cols(vs, s), len) = Cols(us, x)
           /\ Sealed(us, x, vs, s, n, base, WithPadding(col, len, n))
<1>1. PICK p : p = Cols(vs, s)
  OBVIOUS
<1>2. p.cols = vs /\ p.s = s
  BY <1>1, ColsFields
<1>3. PICK a : a = Task(p, "pad", 0, len, base, col)
  OBVIOUS
<1>4. a.p = p /\ a.op = "pad" /\ a.len = len /\ a.base = base /\ a.col = col
  BY <1>3, TaskFields
<1>5. Prepared(a, n, s)
  <2>1. \A c \in 1 .. n : Ready(a, c, s)
    BY <1>2, <1>4 DEF Ready
  <2> QED  BY <1>4, <2>1 DEF Prepared, Bases
<1>6. n = Len(a.p.cols) /\ a.p.s = s
  BY <1>2, <1>4
<1>7. PICK us, x : PadColumns(a.p, a.len) = Cols(us, x) /\ Worked(a, n, us, x, s)
  BY <1>4, <1>5, <1>6, ColumnsPadded
<1>8. x \in Store /\ us \in Seq(Vector) /\ Len(us) = n /\ \A c \in 1 .. n : Done(a, c, us[c], x, s)
  BY <1>7 DEF Worked
<1>9. Elsewhere(s, x, base, n)
  BY <1>4, <1>7 DEF Worked, Elsewhere
<1>10. ASSUME NEW c \in 1 .. n
       PROVE  Settled(us[c], x, vs[c], s, base[c], col[c] \o Padding(col[c], len))
  <2>1. Done(a, c, us[c], x, s)
    BY <1>8
  <2> QED  BY <1>2, <1>4, <2>1 DEF Done
<1>11. Sealed(us, x, vs, s, n, base, WithPadding(col, len, n))
  BY <1>8, <1>9, <1>10 DEF Sealed, WithPadding
<1>12. PadColumns(Cols(vs, s), len) = Cols(us, x)
  BY <1>1, <1>4, <1>7
<1> QED  BY <1>11, <1>12

-----------------------------------------------------------------------------
(* Frames built from rows.                                                 *)

Names(k, n) == [c \in 1 .. n |-> <<k, c>>]

LEMMA NamesAreBases ==
  ASSUME NEW k \in Key, NEW n \in 0 .. MaxCols
  PROVE  Bases(Names(k, n), n) /\ \A c \in 1 .. n : c \in Col /\ Names(k, n)[c] = <<k, c>>
<1>1. \A c \in 1 .. n : c \in Col /\ Names(k, n)[c] = <<k, c>>
  BY MaxColsAssumption DEF Names, Col
<1>2. \A c \in 1 .. n : Names(k, n)[c] \in Name
  BY <1>1 DEF Name
<1>3. \A c, d \in 1 .. n : c # d => Names(k, n)[c] # Names(k, n)[d]
  BY <1>1
<1> QED  BY <1>1, <1>2, <1>3 DEF Bases

LEMMA NewVectorOpen ==
  ASSUME NEW b \in Name, NEW s
  PROVE  /\ NewVector(b) \in Vector /\ Open(NewVector(b), s, b, <<>>)
         /\ NewVector(b).keys = <<>> /\ Len(NewVector(b).keys) = NewVector(b).current.idx
         /\ NewVector(b).size = 0 /\ NewVector(b).name = b
<1>1. PICK e : e = <<>>
  OBVIOUS
<1>2. e \in Seq(KeyOfChunk) /\ e \in Seq(Data) /\ Len(e) = 0
  BY <1>1
<1>3. PICK x : x = Chunk(0, e)
  OBVIOUS
<1>4. x \in Buffer /\ x.idx = 0 /\ x.fields = e
  <2>1. 0 \in 0 .. MaxRows /\ Len(e) <= ChunkSize
    BY <1>2, MaxRowsAssumption, ChunkSizeAssumption
  <2>2. Chunk(0, e) \in Buffer
    BY <1>2, <2>1, BufferParts
  <2> QED  BY <1>3, <2>2, ChunkFields
<1>5. PICK v : v = OpenVec(b, 0, x, e)
  OBVIOUS
<1>6. NewVector(b) = v
  BY <1>1, <1>3, <1>5, Zenon DEF NewVector, OpenVec, Vec
<1>7. v.name = b /\ v.size = 0 /\ v.current = x /\ v.keys = e /\ ~v.locked
  BY <1>5, OpenVecFields
<1>8. v \in Vector
  <2>1. 0 \in 0 .. MaxRows
    BY MaxRowsAssumption
  <2> QED  BY <1>2, <1>4, <1>5, <2>1, OpenVecFields
<1>9. KeysAt(e, b)
  BY <1>2 DEF KeysAt
<1>10. AtEnd(x, e)
  BY <1>1, <1>4 DEF AtEnd
<1>11. /\ \A r \in 0 .. Len(e) - 1 : FALSE
       /\ \A i \in 0 .. x.idx - 1 : FALSE
  BY <1>2, <1>4
<1>12. Open(v, s, b, e)
  BY <1>2, <1>4, <1>7, <1>8, <1>9, <1>10, <1>11 DEF Open
<1> QED  BY <1>1, <1>2, <1>4, <1>6, <1>7, <1>8, <1>12

LEMMA FrameStarted ==
  ASSUME NEW k \in Key, NEW n \in 0 .. MaxCols, NEW s \in Store, NEW col,
         \A c \in 1 .. n : col[c] = <<>>
  PROVE  /\ Built(NewColumns(k, n), s, NewColumns(k, n), s, n, Names(k, n), col)
         /\ NewColumns(k, n) \in Seq(Vector) /\ Len(NewColumns(k, n)) = n
         /\ \A c \in 1 .. n : NewColumns(k, n)[c] = NewVector(<<k, c>>)
         /\ HaveKeys(NewColumns(k, n), n)
<1>1. PICK vs : vs = NewColumns(k, n)
  OBVIOUS
<1>2. n \in Nat
  BY MaxColsAssumption
<1>3. vs = [c \in 1 .. n |-> NewVector(<<k, c>>)]
  BY <1>1 DEF NewColumns
<1>4. ASSUME NEW c \in 1 .. n
      PROVE  vs[c] \in Vector /\ Longer(vs[c], s, vs[c], s, Names(k, n)[c], col[c])
             /\ vs[c].keys \in Seq(KeyOfChunk) /\ vs[c] = NewVector(<<k, c>>)
  <2>1. PICK b : b = <<k, c>>
    OBVIOUS
  <2>2. b \in Name /\ Names(k, n)[c] = b
    BY <2>1, NamesAreBases DEF Name
  <2>3. vs[c] = NewVector(b)
    BY <1>3, <2>1
  <2>4. /\ vs[c] \in Vector /\ Open(vs[c], s, b, <<>>)
        /\ vs[c].keys = <<>> /\ Len(vs[c].keys) = vs[c].current.idx
    BY <2>2, <2>3, NewVectorOpen
  <2>5. vs[c].keys \in Seq(KeyOfChunk) /\ Len(vs[c].keys) >= Len(vs[c].keys)
    BY <2>4
  <2>6. Grown(s, s, b, Len(vs[c].keys)) /\ Unwritten(s, s, b, Len(vs[c].keys))
    BY DEF Grown, Unwritten
  <2> QED  BY <2>1, <2>2, <2>3, <2>4, <2>5, <2>6 DEF Longer
<1>5. vs \in Seq(Vector) /\ Len(vs) = n
  BY <1>2, <1>3, <1>4
<1>6. Elsewhere(s, s, Names(k, n), n)
  BY DEF Elsewhere, Same
<1> QED  BY <1>1, <1>4, <1>5, <1>6 DEF Built, HaveKeys

LEMMA FieldColumns ==
  ASSUME NEW k \in Key, NEW c \in Col
  PROVE  /\ ColumnOf(k, c, 0) = <<>>
         /\ \A m \in Nat : m < MaxRows =>
              /\ Field(k, c, m + 1) \in Data
              /\ Append(ColumnOf(k, c, m), Field(k, c, m + 1)) = ColumnOf(k, c, m + 1)
         /\ \A m \in 0 .. MaxRows : /\ ColumnOf(k, c, m) \in Seq(Data)
                                    /\ Len(ColumnOf(k, c, m)) = m
<1>1. ColumnOf(k, c, 0) = <<>>
  BY DEF ColumnOf
<1>2. \A r \in 1 .. MaxRows : Field(k, c, r) \in Data
  BY DEF Field, Data
<1>3. ASSUME NEW m \in Nat, m < MaxRows
      PROVE  /\ Field(k, c, m + 1) \in Data
             /\ Append(ColumnOf(k, c, m), Field(k, c, m + 1)) = ColumnOf(k, c, m + 1)
  <2>1. m + 1 \in 1 .. MaxRows
    BY <1>3, MaxRowsAssumption
  <2>2. Append(ColumnOf(k, c, m), Field(k, c, m + 1)) = ColumnOf(k, c, m + 1)
    <3> HIDE DEF Field
    <3> QED  BY DEF ColumnOf
  <2> QED  BY <1>2, <2>1, <2>2
<1>4. ASSUME NEW m \in 0 .. MaxRows
      PROVE  ColumnOf(k, c, m) \in Seq(Data) /\ Len(ColumnOf(k, c, m)) = m
  <2>1. m \in Nat /\ \A r \in 1 .. m : r \in 1 .. MaxRows
    BY MaxRowsAssumption
  <2>2. ColumnOf(k, c, m) \in [1 .. m -> Data]
    BY <1>2, <2>1 DEF ColumnOf
  <2> QED  BY <2>1, <2>2
<1> QED  BY <1>1, <1>3, <1>4

VisitStep(a, p, row) == AddFields(p, row)
Visiting == INSTANCE FoldProofs WITH Op <- VisitStep

(* The columns of n rows, as fromVisitor builds them.                      *)
RowsVisited(k, w, n, s) ==
  FoldLeft(AddFields, [cols |-> NewColumns(k, w), s |-> s], [r \in 1 .. n |-> RowOf(k, w, r)])

Columns(k, w, n) == [c \in 1 .. w |-> ColumnOf(k, c, n)]

LEMMA RowsBuilt ==
  ASSUME NEW k \in Key, NEW w \in 0 .. MaxCols, NEW n \in 0 .. MaxRows, NEW s \in Store
  PROVE  \E ws, t : /\ RowsVisited(k, w, n, s) = Cols(ws, t)
                    /\ Built(ws, t, NewColumns(k, w), s, w, Names(k, w), Columns(k, w, n))
<1>1. PICK vs, base : vs = NewColumns(k, w) /\ base = Names(k, w)
  OBVIOUS
<1>2. w \in Nat /\ n \in Nat
  BY MaxColsAssumption, MaxRowsAssumption
<1>3. Bases(base, w) /\ \A c \in 1 .. w : c \in Col
  BY <1>1, NamesAreBases
<1>4. PICK p, seq : p = [cols |-> NewColumns(k, w), s |-> s] /\ seq = [r \in 1 .. n |-> RowOf(k, w, r)]
  OBVIOUS
<1>5. RowsVisited(k, w, n, s) = Visiting!Folded(0, p, seq, n)
  <2>1. DOMAIN [r \in 1 .. n |-> RowOf(k, w, r)] = 1 .. n
    OBVIOUS
  <2> HIDE DEF AddFields, RowOf, NewColumns
  <2> QED  BY <1>4, <2>1 DEF RowsVisited, FoldLeft, MapThenFoldSet, Max, Visiting!Folded,
                             Visiting!Iter, VisitStep
<1>6. PICK it : Visiting!Folding(0, it, p, seq, n) /\ RowsVisited(k, w, n, s) = it[n]
  BY <1>2, <1>5, Visiting!FoldGoesThrough
<1>7. it[0] = Cols(vs, s) /\ \A r \in 1 .. n : it[r] = AddFields(it[r - 1], RowOf(k, w, r))
  BY <1>1, <1>4, <1>6 DEF Visiting!Folding, VisitStep, Cols
<1>8. HaveKeys(vs, w)
  <2>1. PICK col : col = [c \in 1 .. w |-> <<>>]
    OBVIOUS
  <2>2. \A c \in 1 .. w : col[c] = <<>>
    BY <2>1
  <2> QED  BY <1>1, <2>2, FrameStarted
<1> DEFINE Reached(m) ==
             \E ws, t : it[m] = Cols(ws, t) /\ Built(ws, t, vs, s, w, base, Columns(k, w, m))
           S == {m \in Nat : m <= n => Reached(m)}
<1>9. 0 \in S
  <2>1. PICK col : col = Columns(k, w, 0)
    OBVIOUS
  <2>2. \A c \in 1 .. w : col[c] = <<>>
    BY <1>3, <2>1, FieldColumns DEF Columns
  <2>3. Built(vs, s, vs, s, w, base, col)
    BY <1>1, <2>2, FrameStarted
  <2> QED  BY <1>7, <2>1, <2>3
<1>10. ASSUME NEW m \in Nat, m \in S PROVE m + 1 \in S
  <2> SUFFICES ASSUME m + 1 <= n PROVE Reached(m + 1)
    OBVIOUS
  <2>1. m <= n /\ m + 1 \in 1 .. n /\ (m + 1) - 1 = m /\ m < MaxRows /\ m \in 0 .. MaxRows
        /\ m + 1 \in 1 .. MaxRows
    BY <1>2, MaxRowsAssumption
  <2>2. PICK ws, t : it[m] = Cols(ws, t) /\ Built(ws, t, vs, s, w, base, Columns(k, w, m))
    BY <1>10, <2>1
  <2>3. PICK col, row : col = Columns(k, w, m) /\ row = RowOf(k, w, m + 1)
    OBVIOUS
  <2>4. ASSUME NEW c \in 1 .. w
        PROVE  /\ row[c] \in Data /\ Len(col[c]) < MaxRows
               /\ Append(col[c], row[c]) = ColumnOf(k, c, m + 1)
    <3>1. row[c] = Field(k, c, m + 1) /\ col[c] = ColumnOf(k, c, m)
      BY <2>3 DEF RowOf, Columns
    <3> QED  BY <1>3, <2>1, <3>1, FieldColumns
  <2>5. PICK us, x :
          /\ AddFields(Cols(ws, t), row) = Cols(us, x)
          /\ Built(us, x, vs, s, w, base, WithRow(col, row, w))
          /\ WrittenTo(t, x, us, w, base)
    <3>1. Fits(col, row, w)
      BY <2>4 DEF Fits
    <3>2. Built(ws, t, vs, s, w, base, col)
      BY <2>2, <2>3
    <3> QED  BY <1>2, <1>3, <1>8, <3>1, <3>2, RowAdded
  <2>6. WithRow(col, row, w) = Columns(k, w, m + 1)
    BY <2>4 DEF Columns, WithRow
  <2>7. it[m + 1] = Cols(us, x)
    BY <1>7, <2>1, <2>2, <2>3, <2>5
  <2> QED  BY <2>5, <2>6, <2>7
<1>11. Nat \subseteq S
  <2> HIDE DEF S
  <2> QED  BY <1>9, <1>10, Appending!Induction
<1>12. n \in S /\ n <= n
  BY <1>2, <1>11
<1> HIDE DEF Reached
<1>13. Reached(n)
  BY <1>12
<1> QED  BY <1>1, <1>6, <1>13 DEF Reached

-----------------------------------------------------------------------------
(* filter.                                                                 *)

(* What chosen goes through as the rows of col are visited, one by one.    *)
Choosing(chosen, col, accepted) ==
  /\ chosen[0] = <<>>
  /\ \A m \in 1 .. Len(col) :
       chosen[m] = IF m - 1 \in accepted THEN Append(chosen[m - 1], Read(col[m]))
                                         ELSE chosen[m - 1]

Accepted(accepted, m) == accepted \cap (0 .. m - 1)

LEMMA AcceptedParts ==
  ASSUME NEW accepted
  PROVE  /\ Accepted(accepted, 0) = {}
         /\ \A m \in Nat :
              /\ IsFiniteSet(Accepted(accepted, m)) /\ Cardinality(Accepted(accepted, m)) \in 0 .. m
              /\ Cardinality(Accepted(accepted, m + 1)) =
                   Cardinality(Accepted(accepted, m)) + IF m \in accepted THEN 1 ELSE 0
<1>1. Accepted(accepted, 0) = {}
  BY DEF Accepted
<1>2. ASSUME NEW m \in Nat
      PROVE  IsFiniteSet(Accepted(accepted, m)) /\ Cardinality(Accepted(accepted, m)) \in 0 .. m
  <2>1. IsFiniteSet(0 .. m - 1) /\ Cardinality(0 .. m - 1) = m
    <3>1. 0 \in Int /\ m - 1 \in Int
      OBVIOUS
    <3>2. Cardinality(0 .. m - 1) = IF 0 > m - 1 THEN 0 ELSE (m - 1) - 0 + 1
      BY <3>1, FS_Interval
    <3>3. (IF 0 > m - 1 THEN 0 ELSE (m - 1) - 0 + 1) = m
      OBVIOUS
    <3> QED  BY <3>1, <3>2, <3>3, FS_Interval
  <2>2. Accepted(accepted, m) \subseteq 0 .. m - 1
    BY DEF Accepted
  <2>3. IsFiniteSet(Accepted(accepted, m))
        /\ Cardinality(Accepted(accepted, m)) <= Cardinality(0 .. m - 1)
    BY <2>1, <2>2, FS_Subset
  <2>4. Cardinality(Accepted(accepted, m)) \in Nat
    BY <2>3, FS_CardinalityType
  <2> QED  BY <2>1, <2>3, <2>4
<1>3. ASSUME NEW m \in Nat
      PROVE  Cardinality(Accepted(accepted, m + 1)) =
               Cardinality(Accepted(accepted, m)) + IF m \in accepted THEN 1 ELSE 0
  <2>1. m \notin Accepted(accepted, m)
    BY DEF Accepted
  <2>2. CASE m \in accepted
    <3>1. Accepted(accepted, m + 1) = Accepted(accepted, m) \cup {m}
      BY <2>2 DEF Accepted
    <3>2. Cardinality(Accepted(accepted, m) \cup {m}) = Cardinality(Accepted(accepted, m)) + 1
      BY <1>2, <2>1, FS_AddElement
    <3> QED  BY <2>2, <3>1, <3>2
  <2>3. CASE m \notin accepted
    <3>1. Accepted(accepted, m + 1) = Accepted(accepted, m)
      BY <2>3 DEF Accepted
    <3>2. Cardinality(Accepted(accepted, m)) \in Nat
      BY <1>2
    <3> QED  BY <2>3, <3>1, <3>2
  <2> QED  BY <2>2, <2>3
<1> QED  BY <1>1, <1>2, <1>3

LEMMA ChosenLength ==
  ASSUME NEW col \in Seq(Data), NEW accepted, NEW chosen, Choosing(chosen, col, accepted)
  PROVE  \A m \in 0 .. Len(col) : /\ chosen[m] \in Seq(Data)
                                  /\ Len(chosen[m]) = Cardinality(Accepted(accepted, m))
<1> DEFINE Right(m) == /\ chosen[m] \in Seq(Data)
                       /\ Len(chosen[m]) = Cardinality(Accepted(accepted, m))
           S == {m \in Nat : m <= Len(col) => Right(m)}
<1>1. 0 \in S
  <2>1. Cardinality({}) = 0
    BY FS_EmptySet
  <2>2. chosen[0] = <<>>
    BY DEF Choosing
  <2>3. Accepted(accepted, 0) = {}
    BY AcceptedParts
  <2>4. <<>> \in Seq(Data) /\ Len(<<>>) = 0
    OBVIOUS
  <2> QED  BY <2>1, <2>2, <2>3, <2>4
<1>2. ASSUME NEW m \in Nat, m \in S PROVE m + 1 \in S
  <2> SUFFICES ASSUME m + 1 <= Len(col) PROVE Right(m + 1)
    OBVIOUS
  <2>1. m + 1 \in 1 .. Len(col) /\ m <= Len(col) /\ (m + 1) - 1 = m
    OBVIOUS
  <2>2. Right(m)
    BY <1>2, <2>1
  <2>3. chosen[m + 1] = IF m \in accepted THEN Append(chosen[m], Read(col[m + 1])) ELSE chosen[m]
    BY <2>1 DEF Choosing
  <2>4. Read(col[m + 1]) \in Data
    BY <2>1 DEF Read, Data
  <2>5. Cardinality(Accepted(accepted, m + 1)) =
          Cardinality(Accepted(accepted, m)) + IF m \in accepted THEN 1 ELSE 0
    BY AcceptedParts
  <2>6. PICK f, z, y, i, j : /\ f = Read(col[m + 1]) /\ z = chosen[m] /\ y = chosen[m + 1]
                             /\ i = Cardinality(Accepted(accepted, m))
                             /\ j = Cardinality(Accepted(accepted, m + 1))
    OBVIOUS
  <2>7. i \in Nat /\ z \in Seq(Data) /\ Len(z) = i /\ f \in Data
    BY <2>2, <2>4, <2>6
  <2>8. CASE m \in accepted
    <3>1. y = Append(z, f) /\ j = i + 1
      BY <2>3, <2>5, <2>6, <2>8
    <3>2. Append(z, f) \in Seq(Data) /\ Len(Append(z, f)) = i + 1
      BY <2>7
    <3> QED  BY <2>6, <3>1, <3>2
  <2>9. CASE m \notin accepted
    <3>1. y = z /\ j = i
      BY <2>3, <2>5, <2>6, <2>7, <2>9
    <3> QED  BY <2>6, <2>7, <3>1
  <2> QED  BY <2>8, <2>9
<1>3. Nat \subseteq S
  <2> HIDE DEF S
  <2> QED  BY <1>1, <1>2, Appending!Induction
<1>4. ASSUME NEW m \in 0 .. Len(col) PROVE Right(m)
  <2>1. m \in Nat /\ m <= Len(col)
    OBVIOUS
  <2>2. m \in S
    BY <1>3, <2>1
  <2> HIDE DEF Right
  <2> QED  BY <2>1, <2>2
<1> QED  BY <1>4

(* Chunks before those of row m were written.                              *)
LEMMA ReadableKept ==
  ASSUME NEW v, NEW s, NEW t, NEW b, NEW col, NEW n \in Nat, NEW m \in Nat, n <= m,
         Readable(v, s, b, col, n), NEW i \in Nat, i <= m \div ChunkSize,
         \A j \in 0 .. MaxRows : ~(j < i) => t[ChunkOf(b, j)] = s[ChunkOf(b, j)]
  PROVE  Readable(v, t, b, col, m)
<1>1. v \in Vector /\ col \in Seq(Data) /\ v.size = Len(col) /\ v.size \in 0 .. MaxRows
  BY VectorParts DEF Readable
<1>2. ASSUME NEW r \in 0 .. Len(col) - 1, m <= r
      PROVE  t[ChunkOf(b, r \div ChunkSize)] = s[ChunkOf(b, r \div ChunkSize)] /\ n <= r
  <2>1. r \in Nat /\ n <= r /\ r \in 0 .. MaxRows
    BY <1>1, <1>2, MaxRowsAssumption
  <2>2. m \div ChunkSize <= r \div ChunkSize /\ m \div ChunkSize \in Nat
    BY <1>2, <2>1, PlacesInOrder, Places
  <2>3. r \div ChunkSize \in Nat /\ r \div ChunkSize <= r
    BY <2>1, Places, PlaceBound
  <2>4. r \div ChunkSize \in 0 .. MaxRows /\ ~(r \div ChunkSize < i)
    BY <2>1, <2>2, <2>3, MaxRowsAssumption
  <2> QED  BY <2>1, <2>4
<1>3. \A r \in 0 .. Len(col) - 1 : m <= r =>
       /\ r \div ChunkSize < Len(v.keys)
       /\ Has(t[ChunkOf(b, r \div ChunkSize)], col, r)
       /\ v.current # None /\ r \div ChunkSize = v.current.idx => Has(v.current, col, r)
  BY <1>2 DEF Readable
<1> QED  BY <1>3 DEF Readable

Sift(src, ws, t) == [src |-> src, cols |-> ws, s |-> t]

Upto(chosen, m, n) == [c \in 1 .. n |-> chosen[c][m]]

(* The columns of the source, of n rows, and what is chosen of them.       *)
Sources(src, s, base, col, w, n) ==
  /\ src \in Seq(Vector) /\ Len(src) = w
  /\ \A c \in 1 .. w : Closed(src[c], s, base[c], col[c]) /\ Len(col[c]) = n

ChosenColumns(chosen, col, accepted, w) == \A c \in 1 .. w : Choosing(chosen[c], col[c], accepted)

Unread(src, s, base, col, w, m) ==
  /\ src \in Seq(Vector) /\ Len(src) = w
  /\ \A c \in 1 .. w : Readable(src[c], s, base[c], col[c], m)

FilterStep(accepted, q, i) ==
  LET row == RowAt(q.src, q.s, i)
      to == IF i \in accepted THEN AddFields([cols |-> q.cols, s |-> q.s], row)
                              ELSE [cols |-> q.cols, s |-> q.s]
  IN [src |-> CachedAt(q.src, q.s, i), cols |-> to.cols, s |-> to.s]

Filtering == INSTANCE FoldProofs WITH Op <- FilterStep

LEMMA SiftFields ==
  ASSUME NEW src, NEW ws, NEW t
  PROVE  Sift(src, ws, t).src = src /\ Sift(src, ws, t).cols = ws /\ Sift(src, ws, t).s = t
  BY DEF Sift

HasRow(col, w, m) == \A c \in 1 .. w : m < Len(col[c])

Fetched(col, w, m) == [c \in 1 .. w |-> Read(col[c][m + 1])]

AllData(row, w) == \A c \in 1 .. w : row[c] \in Data

(* The row that is read, and the columns after it.                         *)
LEMMA RowRead ==
  ASSUME NEW src, NEW s, NEW base, NEW col, NEW w \in Nat, NEW m \in Nat,
         Unread(src, s, base, col, w, m), HasRow(col, w, m)
  PROVE  /\ RowAt(src, s, m) = Fetched(col, w, m)
         /\ AllData(Fetched(col, w, m), w)
         /\ Unread(CachedAt(src, s, m), s, base, col, w, m)
<1>1. ASSUME NEW c \in 1 .. w
      PROVE  /\ FieldAt(src[c], s, m) = col[c][m + 1] /\ FieldAt(src[c], s, m) \in Data
             /\ Cached(src[c], s, m) \in Vector
             /\ Readable(Cached(src[c], s, m), s, base[c], col[c], m)
  <2>1. Readable(src[c], s, base[c], col[c], m) /\ m < Len(col[c]) /\ col[c] \in Seq(Data)
    BY DEF Unread, Readable, HasRow
  <2>2. m \in 0 .. Len(col[c]) - 1 /\ m <= m
    BY <2>1
  <2> QED  BY <2>1, <2>2, ReadableField, CachedColumn
<1>2. Len(src) = w
  BY DEF Unread
<1>3. RowAt(src, s, m) = [c \in 1 .. w |-> Read(col[c][m + 1])]
  BY <1>1, <1>2 DEF RowAt
<1>4. \A c \in 1 .. w : Read(col[c][m + 1]) \in Data
  <2>1. Default \in Data
    BY DEF Data
  <2> QED  BY <1>1, <2>1 DEF Read
<1>5. PICK ws : ws = CachedAt(src, s, m)
  OBVIOUS
<1>6. ws = [c \in 1 .. w |-> Cached(src[c], s, m)]
  BY <1>2, <1>5 DEF CachedAt
<1>7. ws \in Seq(Vector) /\ Len(ws) = w
  BY <1>1, <1>6
<1>8. Unread(ws, s, base, col, w, m)
  BY <1>1, <1>6, <1>7 DEF Unread
<1> QED  BY <1>3, <1>4, <1>5, <1>8 DEF Fetched, AllData

(* A row is written to chunks before the one it was read from.             *)
LEMMA UnreadKept ==
  ASSUME NEW src, NEW s, NEW t, NEW base, NEW col, NEW w \in Nat, NEW m \in Nat,
         Unread(src, s, base, col, w, m), NEW us, NEW names, WrittenTo(s, t, us, w, names),
         \A c \in 1 .. w : /\ us[c] \in Vector /\ Len(us[c].keys) <= (m + 1) \div ChunkSize
  PROVE  Unread(src, t, base, col, w, m + 1)
<1> SUFFICES ASSUME NEW c \in 1 .. w
             PROVE  Readable(src[c], t, base[c], col[c], m + 1)
  BY DEF Unread
<1>1. Readable(src[c], s, base[c], col[c], m)
  BY DEF Unread
<1>2. base[c] \in Name
  BY <1>1 DEF Readable
<1>3. m + 1 \in Nat /\ m <= m + 1
  OBVIOUS
<1>4. CASE \A d \in 1 .. w : names[d] # base[c]
  <2>1. Same(s, t, base[c])
    BY <1>2, <1>4 DEF WrittenTo, Elsewhere
  <2>2. (m + 1) \div ChunkSize \in Nat
    BY <1>3, Places
  <2>3. 0 <= (m + 1) \div ChunkSize
    BY <2>2
  <2>4. \A j \in 0 .. MaxRows : ~(j < 0) => t[ChunkOf(base[c], j)] = s[ChunkOf(base[c], j)]
    BY <2>1 DEF Same
  <2> QED  BY <1>1, <1>3, <2>3, <2>4, ReadableKept
<1>5. CASE \E d \in 1 .. w : names[d] = base[c]
  <2>1. PICK d \in 1 .. w : names[d] = base[c]
    BY <1>5
  <2>2. Unwritten(s, t, base[c], Len(us[d].keys))
    BY <2>1 DEF WrittenTo
  <2>3. Len(us[d].keys) \in Nat
    <3>1. us[d].keys \in Seq(KeyOfChunk)
      BY VectorParts
    <3> QED  BY <3>1
  <2>4. PICK i \in Nat : i = Len(us[d].keys)
    BY <2>3
  <2>5. \A j \in 0 .. MaxRows : ~(j < i) => t[ChunkOf(base[c], j)] = s[ChunkOf(base[c], j)]
    BY <2>2, <2>4 DEF Unwritten
  <2>6. i <= (m + 1) \div ChunkSize
    BY <2>4
  <2> QED  BY <1>1, <1>3, <2>5, <2>6, ReadableKept
<1> QED  BY <1>4, <1>5

(* The chunks that the result has in the store, when it has j rows.        *)
LEMMA ResultChunks ==
  ASSUME NEW w, NEW t, NEW s, NEW b \in Name, NEW col, Longer(w, t, NewVector(b), s, b, col),
         NEW m \in Nat, Len(col) <= m
  PROVE  w \in Vector /\ Len(w.keys) <= m \div ChunkSize
<1>1. Open(w, t, b, col) /\ Len(w.keys) = w.current.idx
  BY NewVectorOpen DEF Longer
<1>2. w \in Vector /\ AtEnd(w.current, col) /\ w.current.idx \in Nat /\ col \in Seq(Data)
  BY <1>1, OpenParts DEF Open
<1>3. m \div ChunkSize \in Nat
  BY Places
<1>4. CASE col = <<>>
  BY <1>1, <1>2, <1>3, <1>4 DEF AtEnd
<1>5. CASE col # <<>>
  <2>1. Len(col) - 1 \in Nat /\ Len(col) - 1 <= m
    BY <1>2, <1>5
  <2>2. (Len(col) - 1) \div ChunkSize <= m \div ChunkSize
    BY <2>1, PlacesInOrder
  <2>3. w.current.idx = (Len(col) - 1) \div ChunkSize
    BY <1>2, <1>5 DEF AtEnd
  <2> QED  BY <1>1, <1>2, <2>2, <2>3
<1> QED  BY <1>4, <1>5

LEMMA RowsFiltered ==
  ASSUME NEW k \in Key, NEW w \in 0 .. MaxCols, NEW n \in 0 .. MaxRows, NEW s \in Store,
         NEW src, NEW base, NEW col, NEW chosen, NEW accepted,
         Sources(src, s, base, col, w, n), ChosenColumns(chosen, col, accepted, w)
  PROVE  \E ws, us, x :
           /\ FilterRows(k, Cols(src, s), n, accepted) = Sift(ws, us, x)
           /\ ws \in Seq(Vector) /\ Len(ws) = w
           /\ Sealed(us, x, NewColumns(k, w), s, w, Names(k, w), Upto(chosen, n, w))
<1>1. PICK vs, names : vs = NewColumns(k, w) /\ names = Names(k, w)
  OBVIOUS
<1>2. w \in Nat /\ n \in Nat
  BY MaxColsAssumption, MaxRowsAssumption
<1>3. Bases(names, w) /\ \A c \in 1 .. w : names[c] \in Name
  BY <1>1, NamesAreBases DEF Bases
<1>4. PICK p : p = Cols(src, s)
  OBVIOUS
<1>5. p.cols = src /\ p.s = s /\ Len(src) = w /\ src \in Seq(Vector)
  BY <1>4, ColsFields DEF Sources
<1>6. PICK base0, seq : /\ base0 = [src |-> p.cols, cols |-> NewColumns(k, Len(p.cols)), s |-> p.s]
                        /\ seq = [i \in 1 .. n |-> i - 1]
  OBVIOUS
<1>7. PICK end : end = Filtering!Folded(accepted, base0, seq, n)
  OBVIOUS
<1>8. FilterRows(k, p, n, accepted) =
        [src |-> end.src, cols |-> LockColumns([cols |-> end.cols, s |-> end.s]).cols,
         s |-> LockColumns([cols |-> end.cols, s |-> end.s]).s]
  <2>1. DOMAIN [i \in 1 .. n |-> i - 1] = 1 .. n
    OBVIOUS
  <2>2. end = Filtering!Folded(accepted,
                [src |-> p.cols, cols |-> NewColumns(k, Len(p.cols)), s |-> p.s],
                [i \in 1 .. n |-> i - 1], n)
    BY <1>6, <1>7
  <2> HIDE DEF AddFields, NewColumns, RowAt, CachedAt, LockColumns
  <2> QED  BY <2>1, <2>2 DEF FilterRows, FoldLeft, MapThenFoldSet, Max,
                             Filtering!Folded, Filtering!Iter, FilterStep
<1>9. PICK it : Filtering!Folding(accepted, it, base0, seq, n) /\ end = it[n]
  BY <1>2, <1>7, Filtering!FoldGoesThrough
<1>10. it[0] = Sift(src, vs, s)
  BY <1>1, <1>5, <1>6, <1>9 DEF Filtering!Folding, Sift
<1>11. \A m \in 1 .. n : it[m] = FilterStep(accepted, it[m - 1], m - 1)
  BY <1>6, <1>9 DEF Filtering!Folding
<1>12. HaveKeys(vs, w) /\ \A c \in 1 .. w : vs[c] = NewVector(names[c])
  <2>1. PICK e : e = [c \in 1 .. w |-> <<>>]
    OBVIOUS
  <2>2. \A c \in 1 .. w : e[c] = <<>>
    BY <2>1
  <2>3. HaveKeys(vs, w) /\ \A c \in 1 .. w : vs[c] = NewVector(<<k, c>>)
    BY <1>1, <2>2, FrameStarted
  <2>4. \A c \in 1 .. w : names[c] = <<k, c>>
    BY <1>1, NamesAreBases
  <2> QED  BY <2>3, <2>4
<1>13. \A c \in 1 .. w : /\ col[c] \in Seq(Data) /\ Len(col[c]) = n
                         /\ Choosing(chosen[c], col[c], accepted)
  BY DEF Sources, ChosenColumns, Closed
<1>14. \A c \in 1 .. w : \A m \in 0 .. n :
         /\ chosen[c][m] \in Seq(Data) /\ Len(chosen[c][m]) <= m /\ Len(chosen[c][m]) \in Nat
  <2> SUFFICES ASSUME NEW c \in 1 .. w, NEW m \in 0 .. n
               PROVE  /\ chosen[c][m] \in Seq(Data) /\ Len(chosen[c][m]) <= m
                      /\ Len(chosen[c][m]) \in Nat
    OBVIOUS
  <2>1. chosen[c][m] \in Seq(Data) /\ Len(chosen[c][m]) = Cardinality(Accepted(accepted, m))
    BY <1>13, ChosenLength
  <2>2. m \in Nat
    BY <1>2
  <2>3. Cardinality(Accepted(accepted, m)) \in 0 .. m
    BY <2>2, AcceptedParts
  <2> QED  BY <2>1, <2>2, <2>3
<1> DEFINE Reached(m) ==
             \E ws, us, x : /\ it[m] = Sift(ws, us, x) /\ Unread(ws, x, base, col, w, m)
                            /\ Built(us, x, vs, s, w, names, Upto(chosen, m, w))
           S == {m \in Nat : m <= n => Reached(m)}
<1>15. 0 \in S
  <2>1. Unread(src, s, base, col, w, 0)
    BY <1>5, ClosedReadable DEF Unread, Sources
  <2>2. PICK e : e = Upto(chosen, 0, w)
    OBVIOUS
  <2>3. \A c \in 1 .. w : e[c] = <<>>
    BY <1>13, <2>2 DEF Upto, Choosing
  <2>4. Built(vs, s, vs, s, w, names, e)
    BY <1>1, <2>3, FrameStarted
  <2> QED  BY <1>10, <2>1, <2>2, <2>4
<1>16. ASSUME NEW m \in Nat, m \in S PROVE m + 1 \in S
  <2> SUFFICES ASSUME m + 1 <= n PROVE Reached(m + 1)
    OBVIOUS
  <2>1. /\ m <= n /\ m < n /\ m + 1 \in 1 .. n /\ (m + 1) - 1 = m /\ m \in 0 .. n
        /\ m + 1 \in Nat /\ m + 1 \in 0 .. n /\ m < MaxRows
    BY <1>2, MaxRowsAssumption
  <2>2. PICK ws, us, x : /\ it[m] = Sift(ws, us, x) /\ Unread(ws, x, base, col, w, m)
                         /\ Built(us, x, vs, s, w, names, Upto(chosen, m, w))
    BY <1>16, <2>1
  <2>3. PICK row, new : row = RowAt(ws, x, m) /\ new = CachedAt(ws, x, m)
    OBVIOUS
  <2>4. /\ row = [c \in 1 .. w |-> Read(col[c][m + 1])]
        /\ \A c \in 1 .. w : Read(col[c][m + 1]) \in Data
        /\ Unread(new, x, base, col, w, m)
    <3>1. HasRow(col, w, m)
      BY <1>13, <2>1 DEF HasRow
    <3>2. /\ row = Fetched(col, w, m) /\ AllData(Fetched(col, w, m), w)
          /\ Unread(new, x, base, col, w, m)
      BY <1>2, <2>1, <2>2, <2>3, <3>1, RowRead
    <3> QED  BY <3>2 DEF Fetched, AllData
  <2>5. PICK to : to = IF m \in accepted THEN AddFields(Cols(us, x), row) ELSE Cols(us, x)
    OBVIOUS
  <2>6. it[m + 1] = Sift(new, to.cols, to.s)
    <3>1. it[m + 1] = FilterStep(accepted, it[m], m)
      BY <1>11, <2>1
    <3>2. it[m].src = ws /\ it[m].cols = us /\ it[m].s = x
      BY <2>2, SiftFields
    <3>3. [cols |-> us, s |-> x] = Cols(us, x)
      BY DEF Cols
    <3> HIDE DEF AddFields, RowAt, CachedAt
    <3> QED  BY <2>3, <2>5, <3>1, <3>2, <3>3 DEF FilterStep, Sift
  <2>7. \A c \in 1 .. w :
          chosen[c][m + 1] = IF m \in accepted THEN Append(chosen[c][m], row[c]) ELSE chosen[c][m]
    <3> SUFFICES ASSUME NEW c \in 1 .. w
                 PROVE  chosen[c][m + 1] = IF m \in accepted THEN Append(chosen[c][m], row[c])
                                                            ELSE chosen[c][m]
      OBVIOUS
    <3>1. Choosing(chosen[c], col[c], accepted) /\ m + 1 \in 1 .. Len(col[c])
      BY <1>13, <2>1
    <3>2. row[c] = Read(col[c][m + 1])
      BY <2>4
    <3> QED  BY <2>1, <3>1, <3>2 DEF Choosing
  <2>8. CASE m \in accepted
    <3>1. PICK cc : cc = Upto(chosen, m, w)
      OBVIOUS
    <3>2. Fits(cc, row, w)
      <4>1. ASSUME NEW c \in 1 .. w PROVE row[c] \in Data /\ Len(cc[c]) < MaxRows
        <5>1. cc[c] = chosen[c][m] /\ row[c] = Read(col[c][m + 1])
          BY <2>4, <3>1 DEF Upto
        <5>2. Len(chosen[c][m]) <= m /\ Len(chosen[c][m]) \in Nat
          BY <1>14, <2>1
        <5> QED  BY <2>1, <2>4, <5>1, <5>2, MaxRowsAssumption
      <4> QED  BY <4>1 DEF Fits
    <3>3. Built(us, x, vs, s, w, names, cc)
      BY <2>2, <3>1
    <3>4. PICK vv, y : /\ AddFields(Cols(us, x), row) = Cols(vv, y)
                       /\ Built(vv, y, vs, s, w, names, WithRow(cc, row, w))
                       /\ WrittenTo(x, y, vv, w, names)
      BY <1>2, <1>3, <1>12, <3>2, <3>3, RowAdded
    <3>5. WithRow(cc, row, w) = Upto(chosen, m + 1, w)
      BY <2>7, <2>8, <3>1 DEF WithRow, Upto
    <3>6. it[m + 1] = Sift(new, vv, y)
      BY <2>5, <2>6, <2>8, <3>4, ColsFields
    <3>7. \A c \in 1 .. w : vv[c] \in Vector /\ Len(vv[c].keys) <= (m + 1) \div ChunkSize
      <4> SUFFICES ASSUME NEW c \in 1 .. w
                   PROVE  vv[c] \in Vector /\ Len(vv[c].keys) <= (m + 1) \div ChunkSize
        OBVIOUS
      <4>1. PICK f : f = chosen[c][m + 1]
        OBVIOUS
      <4>2. Longer(vv[c], y, NewVector(names[c]), s, names[c], f)
        BY <1>12, <3>4, <3>5, <4>1 DEF Built, Upto
      <4>3. Len(f) <= m + 1
        BY <1>14, <2>1, <4>1
      <4> QED  BY <1>3, <2>1, <4>2, <4>3, ResultChunks
    <3>8. Unread(new, y, base, col, w, m + 1)
      BY <1>2, <2>4, <3>4, <3>7, UnreadKept
    <3> QED  BY <3>4, <3>5, <3>6, <3>8
  <2>9. CASE m \notin accepted
    <3>1. it[m + 1] = Sift(new, us, x)
      BY <2>5, <2>6, <2>9, ColsFields
    <3>2. Upto(chosen, m + 1, w) = Upto(chosen, m, w)
      BY <2>7, <2>9 DEF Upto
    <3>3. Unread(new, x, base, col, w, m + 1)
      <4>1. \A r \in Int : m + 1 <= r => m <= r
        OBVIOUS
      <4> QED  BY <2>4, <4>1 DEF Unread, Readable
    <3> QED  BY <2>2, <3>1, <3>2, <3>3
  <2> QED  BY <2>8, <2>9
<1>17. Nat \subseteq S
  <2> HIDE DEF S
  <2> QED  BY <1>15, <1>16, Appending!Induction
<1>18. n \in S /\ n <= n
  BY <1>2, <1>17
<1> HIDE DEF Reached
<1>19. Reached(n)
  BY <1>18
<1>20. PICK ws, us, x : /\ it[n] = Sift(ws, us, x) /\ Unread(ws, x, base, col, w, n)
                        /\ Built(us, x, vs, s, w, names, Upto(chosen, n, w))
  BY <1>19 DEF Reached
<1>21. PICK vv, y : /\ LockColumns(Cols(us, x)) = Cols(vv, y)
                    /\ Sealed(vv, y, vs, s, w, names, Upto(chosen, n, w))
  BY <1>2, <1>3, <1>12, <1>20, RowsLocked
<1>22. FilterRows(k, p, n, accepted) = Sift(ws, vv, y)
  <2>1. end.src = ws /\ end.cols = us /\ end.s = x
    BY <1>9, <1>20, SiftFields
  <2>2. [cols |-> us, s |-> x] = Cols(us, x)
    BY DEF Cols
  <2>3. PICK z : z = LockColumns([cols |-> end.cols, s |-> end.s])
    OBVIOUS
  <2>4. z = Cols(vv, y)
    BY <1>21, <2>1, <2>2, <2>3
  <2>5. FilterRows(k, p, n, accepted) = [src |-> end.src, cols |-> z.cols, s |-> z.s]
    BY <1>8, <2>3
  <2> QED  BY <2>1, <2>4, <2>5, ColsFields DEF Sift
<1>23. ws \in Seq(Vector) /\ Len(ws) = w
  BY <1>20 DEF Unread
<1> QED  BY <1>1, <1>4, <1>21, <1>22, <1>23

-----------------------------------------------------------------------------
(* What is in a column, and a column that is as it should be.              *)

ContentOf(v, s) == [r \in 1 .. v.size |-> FieldAt(v, s, r - 1)]

Sound(v, s, b) ==
  \/ Closed(v, s, b, ContentOf(v, s)) /\ (v.name # None => Exact(v, s, b))
  \/ Open(v, s, b, ContentOf(v, s))

LEMMA ClosedContent ==
  ASSUME NEW v, NEW s, NEW b, NEW col, Closed(v, s, b, col)
  PROVE  ContentOf(v, s) = col
<1>1. col \in Seq(Data) /\ v.size = Len(col)
  BY DEF Closed
<1>2. ASSUME NEW r \in 1 .. Len(col) PROVE FieldAt(v, s, r - 1) = col[r]
  <2>1. r - 1 \in 0 .. Len(col) - 1 /\ 0 <= r - 1 /\ (r - 1) + 1 = r
    BY <1>1
  <2>2. Readable(v, s, b, col, 0)
    BY ClosedReadable
  <2> QED  BY <2>1, <2>2, ReadableField
<1> QED  BY <1>1, <1>2 DEF ContentOf

LEMMA OpenContent ==
  ASSUME NEW v, NEW s, NEW b, NEW col, Open(v, s, b, col)
  PROVE  ContentOf(v, s) = col
<1>1. col \in Seq(Data) /\ v.size = Len(col)
  BY DEF Open
<1>2. ASSUME NEW r \in 1 .. Len(col) PROVE FieldAt(v, s, r - 1) = col[r]
  <2>1. r - 1 \in 0 .. Len(col) - 1 /\ (r - 1) + 1 = r
    BY <1>1
  <2> QED  BY <2>1, OpenField
<1> QED  BY <1>1, <1>2 DEF ContentOf

LEMMA SoundParts ==
  ASSUME NEW v, NEW s, NEW b, Sound(v, s, b)
  PROVE  /\ v \in Vector /\ b \in Name /\ v.name \in {b, None}
         /\ v.locked => Closed(v, s, b, ContentOf(v, s)) /\ (v.name # None => Exact(v, s, b))
         /\ ~v.locked => Open(v, s, b, ContentOf(v, s)) /\ v.name = b
         /\ ContentOf(v, s) \in Seq(Data) /\ Len(ContentOf(v, s)) = v.size
         /\ v.size \in 0 .. MaxRows /\ v.keys \in Seq(KeyOfChunk) /\ Len(v.keys) \in Nat
<1>1. v \in Vector
  BY DEF Sound, Open, Closed
<1>2. v.keys \in Seq(KeyOfChunk) /\ v.size \in 0 .. MaxRows
  BY <1>1, VectorParts
<1>3. CASE Closed(v, s, b, ContentOf(v, s)) /\ (v.name # None => Exact(v, s, b))
  BY <1>2, <1>3 DEF Closed
<1>4. CASE Open(v, s, b, ContentOf(v, s))
  BY <1>2, <1>4 DEF Open
<1> QED  BY <1>3, <1>4 DEF Sound

LEMMA ClosedSound ==
  ASSUME NEW v, NEW s, NEW b, NEW col, Closed(v, s, b, col), v.name # None => Exact(v, s, b)
  PROVE  Sound(v, s, b) /\ ContentOf(v, s) = col
  BY ClosedContent DEF Sound

LEMMA OpenSound ==
  ASSUME NEW v, NEW s, NEW b, NEW col, Open(v, s, b, col)
  PROVE  Sound(v, s, b) /\ ContentOf(v, s) = col
  BY OpenContent DEF Sound

(* What happens to the chunks of the column b leaves v as it is.           *)
Spared(v, s, t, b) ==
  \/ Same(s, t, b)
  \/ v.name = None /\ \E n \in Nat : Grown(s, t, b, n) /\ Len(v.keys) <= n

LEMMA ColumnKept ==
  ASSUME NEW v, NEW s, NEW t, NEW b, Sound(v, s, b), Spared(v, s, t, b)
  PROVE  Sound(v, t, b) /\ ContentOf(v, t) = ContentOf(v, s)
<1>1. PICK col : col = ContentOf(v, s)
  OBVIOUS
<1>2. CASE v.locked
  <2>1. Closed(v, s, b, col) /\ (v.name # None => Exact(v, s, b))
    BY <1>1, <1>2, SoundParts
  <2>2. Closed(v, t, b, col) /\ (v.name # None => Exact(v, t, b))
    <3>1. CASE Same(s, t, b)
      BY <2>1, <3>1, ClosedSame
    <3>2. CASE v.name = None /\ \E n \in Nat : Grown(s, t, b, n) /\ Len(v.keys) <= n
      BY <2>1, <3>2, ClosedGrown
    <3> QED  BY <3>1, <3>2 DEF Spared
  <2> QED  BY <1>1, <2>2, ClosedSound
<1>3. CASE ~v.locked
  <2>1. Open(v, s, b, col) /\ v.name = b /\ b \in Name
    BY <1>1, <1>3, SoundParts
  <2>2. b # None
    BY <2>1, NoneAssumption DEF Name
  <2>3. Same(s, t, b)
    BY <2>1, <2>2 DEF Spared
  <2>4. Open(v, t, b, col)
    BY <2>1, <2>3, OpenSame
  <2> QED  BY <1>1, <2>4, OpenSound
<1> QED  BY <1>2, <1>3

(* Frames.                                                                 *)

(* The column of the store that column c of the frame f is; columns that   *)
(* were loaded have the names they were saved with.                        *)
Base(f, c) == IF f.cols[c].name = None THEN <<f.key, c>> ELSE f.cols[c].name

(* A frame whose columns are as they should be.                            *)
Whole(f, s) ==
  /\ f.key \in Key /\ f.cols \in Seq(Vector) /\ Len(f.cols) <= MaxCols
  /\ \A c \in 1 .. Len(f.cols) : Sound(f.cols[c], s, Base(f, c)) /\ Base(f, c)[1] = f.key

(* A column of g that is the named column of f in the store was loaded,    *)
(* and has no chunks that f does not have.                                 *)
YieldsAt(f, c, g, d) ==
  f.cols[c].name # None /\ Base(g, d) = f.cols[c].name =>
    g.cols[d].name = None /\ Len(g.cols[d].keys) <= Len(f.cols[c].keys)

Yields(f, g) == \A c \in 1 .. Len(f.cols), d \in 1 .. Len(g.cols) : YieldsAt(f, c, g, d)

Apart(f) == \A c, d \in 1 .. Len(f.cols) : c # d => YieldsAt(f, c, f, d)

TableIn(f, s) == [c \in 1 .. Len(f.cols) |-> ContentOf(f.cols[c], s)]

Undisturbed(f, s, t) == \A c \in 1 .. Len(f.cols) : Spared(f.cols[c], s, t, Base(f, c))

LEMMA FrameKept ==
  ASSUME NEW f, NEW s, NEW t, Whole(f, s), Undisturbed(f, s, t)
  PROVE  Whole(f, t) /\ TableIn(f, t) = TableIn(f, s)
<1>1. \A c \in 1 .. Len(f.cols) : /\ Sound(f.cols[c], t, Base(f, c))
                                  /\ ContentOf(f.cols[c], t) = ContentOf(f.cols[c], s)
  BY ColumnKept DEF Whole, Undisturbed
<1>2. Whole(f, t)
  BY <1>1 DEF Whole
<1> QED  BY <1>1, <1>2 DEF TableIn

(* The columns of f, with more in them.                                    *)
Continues(g, f) ==
  /\ g.key = f.key /\ Len(g.cols) = Len(f.cols)
  /\ \A c \in 1 .. Len(f.cols) :
       /\ g.cols[c].name = f.cols[c].name /\ Len(f.cols[c].keys) <= Len(g.cols[c].keys)
       /\ f.cols[c].name = None => g.cols[c].keys = f.cols[c].keys

HasColumns(f) == f.cols \in Seq(Vector)

LEMMA ColumnParts ==
  ASSUME NEW f, HasColumns(f), NEW c \in 1 .. Len(f.cols)
  PROVE  /\ f.cols[c] \in Vector /\ f.cols[c].keys \in Seq(KeyOfChunk)
         /\ Len(f.cols[c].keys) \in Nat /\ f.cols[c].name \in Name \cup {None}
         /\ Len(f.cols) \in Nat
<1>1. f.cols[c] \in Vector
  BY DEF HasColumns
<1>2. f.cols[c].keys \in Seq(KeyOfChunk) /\ f.cols[c].name \in Name \cup {None}
  BY <1>1, VectorParts
<1> QED  BY <1>1, <1>2 DEF HasColumns

LEMMA YieldsMore ==
  ASSUME NEW f, NEW g, NEW h, HasColumns(f), HasColumns(g), HasColumns(h), NEW c, NEW d,
         c \in 1 .. Len(f.cols), c \in 1 .. Len(g.cols), d \in 1 .. Len(h.cols),
         YieldsAt(f, c, h, d),
         g.cols[c].name = f.cols[c].name, Len(f.cols[c].keys) <= Len(g.cols[c].keys)
  PROVE  YieldsAt(g, c, h, d)
<1> SUFFICES ASSUME g.cols[c].name # None, Base(h, d) = g.cols[c].name
             PROVE  h.cols[d].name = None /\ Len(h.cols[d].keys) <= Len(g.cols[c].keys)
  BY DEF YieldsAt
<1>1. h.cols[d].name = None /\ Len(h.cols[d].keys) <= Len(f.cols[c].keys)
  BY DEF YieldsAt
<1>2. Len(f.cols[c].keys) \in Nat /\ Len(g.cols[c].keys) \in Nat /\ Len(h.cols[d].keys) \in Nat
  BY ColumnParts
<1>3. PICK i, j, k : i = Len(f.cols[c].keys) /\ j = Len(g.cols[c].keys) /\ k = Len(h.cols[d].keys)
  OBVIOUS
<1>4. i \in Nat /\ j \in Nat /\ k \in Nat /\ k <= i /\ i <= j
  BY <1>1, <1>2, <1>3
<1>5. k <= j
  BY <1>4
<1> QED  BY <1>1, <1>3, <1>5

LEMMA YieldsKept ==
  ASSUME NEW f, NEW g, NEW h, HasColumns(f), HasColumns(g), HasColumns(h), Continues(g, f)
  PROVE  /\ Yields(f, h) => Yields(g, h)
         /\ Yields(h, f) => Yields(h, g)
         /\ Apart(f) => Apart(g)
<1>1. \A c \in 1 .. Len(f.cols) : Base(g, c) = Base(f, c)
  BY DEF Continues, Base
<1>2. ASSUME Yields(f, h) PROVE Yields(g, h)
  <2> SUFFICES ASSUME NEW c \in 1 .. Len(g.cols), NEW d \in 1 .. Len(h.cols)
               PROVE  YieldsAt(g, c, h, d)
    BY DEF Yields
  <2>1. c \in 1 .. Len(f.cols) /\ YieldsAt(f, c, h, d)
    BY <1>2 DEF Continues, Yields
  <2>2. g.cols[c].name = f.cols[c].name /\ Len(f.cols[c].keys) <= Len(g.cols[c].keys)
    BY <2>1 DEF Continues
  <2> QED  BY <2>1, <2>2, YieldsMore
<1>3. ASSUME NEW e, NEW c, NEW d \in 1 .. Len(f.cols), YieldsAt(e, c, f, d)
      PROVE  YieldsAt(e, c, g, d)
  <2>1. /\ Base(g, d) = Base(f, d) /\ g.cols[d].name = f.cols[d].name
        /\ f.cols[d].name = None => g.cols[d].keys = f.cols[d].keys
    BY <1>1 DEF Continues
  <2> QED  BY <1>3, <2>1 DEF YieldsAt
<1>4. ASSUME Yields(h, f) PROVE Yields(h, g)
  BY <1>3, <1>4 DEF Yields, Continues
<1>5. ASSUME Apart(f) PROVE Apart(g)
  <2> SUFFICES ASSUME NEW c \in 1 .. Len(g.cols), NEW d \in 1 .. Len(g.cols), c # d
               PROVE  YieldsAt(g, c, g, d)
    BY DEF Apart
  <2>1. c \in 1 .. Len(f.cols) /\ d \in 1 .. Len(f.cols) /\ YieldsAt(f, c, f, d)
    BY <1>5 DEF Continues, Apart
  <2>2. YieldsAt(f, c, g, d)
    BY <1>3, <2>1
  <2>3. g.cols[c].name = f.cols[c].name /\ Len(f.cols[c].keys) <= Len(g.cols[c].keys)
    BY <2>1 DEF Continues
  <2> QED  BY <2>1, <2>2, <2>3, YieldsMore
<1> QED  BY <1>2, <1>4, <1>5

(* Only chunks of the columns of f were written, after those it has or by  *)
(* extending them.                                                         *)
Writes(f, s, t) ==
  /\ \A c \in 1 .. Len(f.cols) :
       f.cols[c].name # None => Grown(s, t, f.cols[c].name, Len(f.cols[c].keys))
  /\ \A b \in Name : (\A c \in 1 .. Len(f.cols) : f.cols[c].name # b) => Same(s, t, b)

LEMMA OthersUndisturbed ==
  ASSUME NEW f, NEW g, NEW s, NEW t, HasColumns(f), Writes(f, s, t), Whole(g, s), Yields(f, g)
  PROVE  Undisturbed(g, s, t)
<1> SUFFICES ASSUME NEW d \in 1 .. Len(g.cols) PROVE Spared(g.cols[d], s, t, Base(g, d))
  BY DEF Undisturbed
<1>1. Base(g, d) \in Name
  BY SoundParts DEF Whole
<1>2. CASE \A c \in 1 .. Len(f.cols) : f.cols[c].name # Base(g, d)
  BY <1>1, <1>2 DEF Writes, Spared
<1>3. CASE \E c \in 1 .. Len(f.cols) : f.cols[c].name = Base(g, d)
  <2>1. PICK c \in 1 .. Len(f.cols) : f.cols[c].name = Base(g, d)
    BY <1>3
  <2>2. f.cols[c].name # None /\ Grown(s, t, Base(g, d), Len(f.cols[c].keys))
    BY <1>1, <2>1, NoneAssumption DEF Writes, Name
  <2>3. YieldsAt(f, c, g, d)
    BY DEF Yields
  <2>4. g.cols[d].name = None /\ Len(g.cols[d].keys) <= Len(f.cols[c].keys)
    BY <2>1, <2>2, <2>3 DEF YieldsAt
  <2>5. Len(f.cols[c].keys) \in Nat
    BY ColumnParts
  <2> QED  BY <2>2, <2>4, <2>5 DEF Spared
<1> QED  BY <1>2, <1>3

(* The frames F that are in use, by applications and under their keys.     *)
Good(L, F, s) ==
  /\ \A x \in L : Whole(F[x], s) /\ Apart(F[x])
  /\ \A x, y \in L : x # y => Yields(F[x], F[y])

(* All frames but that of h are the same.                                  *)
Besides(h, L, G, F) == \A x \in L : x # h => G[x] = F[x]

TablesKept(h, L, F, s, t) == \A x \in L : x # h => TableIn(F[x], t) = TableIn(F[x], s)

LEMMA FrameContinued ==
  ASSUME NEW L, NEW F, NEW G, NEW s, NEW t, NEW h \in L, Good(L, F, s), Besides(h, L, G, F),
         Writes(F[h], s, t) \/ t = s, Whole(G[h], t), Continues(G[h], F[h])
  PROVE  Good(L, G, t) /\ TablesKept(h, L, F, s, t)
<1>1. ASSUME NEW x \in L PROVE HasColumns(F[x]) /\ HasColumns(G[x])
  BY DEF Good, Whole, HasColumns, Besides
<1>2. ASSUME NEW x \in L, x # h
      PROVE  /\ Whole(G[x], t) /\ Apart(G[x]) /\ TableIn(F[x], t) = TableIn(F[x], s)
             /\ Yields(G[x], G[h]) /\ Yields(G[h], G[x])
  <2>1. /\ Whole(F[x], s) /\ Apart(F[x]) /\ Yields(F[h], F[x]) /\ Yields(F[x], F[h])
        /\ G[x] = F[x]
    BY <1>2 DEF Good, Besides
  <2>2. Undisturbed(F[x], s, t) \/ t = s
    BY <1>1, <2>1, OthersUndisturbed
  <2>3. Whole(F[x], t) /\ TableIn(F[x], t) = TableIn(F[x], s)
    BY <2>1, <2>2, FrameKept
  <2>4. Yields(G[h], F[x]) /\ Yields(F[x], G[h])
    BY <1>1, <2>1, YieldsKept
  <2> QED  BY <2>1, <2>3, <2>4
<1>3. Apart(G[h])
  <2>1. Apart(F[h])
    BY DEF Good
  <2> QED  BY <1>1, <2>1, YieldsKept
<1>4. ASSUME NEW x \in L, NEW y \in L, x # y PROVE Yields(G[x], G[y])
  <2>1. CASE x = h \/ y = h
    BY <1>2, <1>4, <2>1
  <2>2. CASE x # h /\ y # h
    <3>1. G[x] = F[x] /\ G[y] = F[y] /\ Yields(F[x], F[y])
      BY <1>4, <2>2 DEF Good, Besides
    <3> QED  BY <3>1
  <2> QED  BY <2>1, <2>2
<1>5. \A x \in L : Whole(G[x], t) /\ Apart(G[x])
  BY <1>2, <1>3
<1> QED  BY <1>2, <1>4, <1>5 DEF Good, TablesKept

(* A frame that is new, h, apart from the others.                          *)
LEMMA FrameJoined ==
  ASSUME NEW L, NEW F, NEW G, NEW s, NEW h, h \notin L, Good(L, F, s), Besides(h, L, G, F),
         Whole(G[h], s), Apart(G[h]),
         \A x \in L : Yields(G[x], G[h]) /\ Yields(G[h], G[x])
  PROVE  Good(L \cup {h}, G, s)
<1>1. \A x \in L \cup {h} : Whole(G[x], s) /\ Apart(G[x])
  BY DEF Good, Besides
<1>2. ASSUME NEW x \in L \cup {h}, NEW y \in L \cup {h}, x # y PROVE Yields(G[x], G[y])
  <2>1. CASE x = h \/ y = h
    BY <1>2, <2>1
  <2>2. CASE x # h /\ y # h
    <3>1. G[x] = F[x] /\ G[y] = F[y] /\ Yields(F[x], F[y])
      BY <1>2, <2>2 DEF Good, Besides
    <3> QED  BY <3>1
  <2> QED  BY <2>1, <2>2
<1> QED  BY <1>1, <1>2 DEF Good

(* Columns built.                                                          *)

LEMMA FrameFields ==
  ASSUME NEW k, NEW n, NEW cols
  PROVE  Frame(k, n, cols).key = k /\ Frame(k, n, cols).length = n /\ Frame(k, n, cols).cols = cols
  BY DEF Frame

AllNamed(f) == \A c \in 1 .. Len(f.cols) : f.cols[c].name # None

NamesOf(f) == [c \in 1 .. Len(f.cols) |-> f.cols[c].name]

ColumnsOf(col, n) == [c \in 1 .. n |-> col[c]]

(* Columns of the frame f were written, all of them named.                 *)
BuiltOn(f, us, t, s, col) ==
  \/ Built(us, t, f.cols, s, Len(f.cols), NamesOf(f), col)
  \/ Sealed(us, t, f.cols, s, Len(f.cols), NamesOf(f), col)

LEMMA ColumnsBuilt ==
  ASSUME NEW f, NEW s, Whole(f, s), AllNamed(f), NEW us, NEW t, NEW col, NEW g,
         BuiltOn(f, us, t, s, col), g.key = f.key, g.cols = us
  PROVE  /\ Whole(g, t) /\ Continues(g, f) /\ Writes(f, s, t)
         /\ TableIn(g, t) = ColumnsOf(col, Len(f.cols))
<1>0. PICK n : n = Len(f.cols)
  OBVIOUS
<1>1. g.key = f.key /\ g.cols = us
  OBVIOUS
<1>2. us \in Seq(Vector) /\ Len(us) = n /\ Elsewhere(s, t, NamesOf(f), n)
  BY <1>0 DEF BuiltOn, Built, Sealed
<1>3. ASSUME NEW c \in 1 .. n
      PROVE  /\ Sound(us[c], t, f.cols[c].name) /\ ContentOf(us[c], t) = col[c]
             /\ us[c].name = f.cols[c].name /\ Grown(s, t, f.cols[c].name, Len(f.cols[c].keys))
             /\ Len(f.cols[c].keys) <= Len(us[c].keys)
             /\ Base(f, c) = f.cols[c].name /\ f.cols[c].name # None
  <2>1. PICK b : b = f.cols[c].name
    OBVIOUS
  <2>2. \/ Longer(us[c], t, f.cols[c], s, b, col[c])
        \/ Settled(us[c], t, f.cols[c], s, b, col[c])
    BY <1>0, <2>1 DEF BuiltOn, Built, Sealed, NamesOf
  <2>3. Base(f, c) = b /\ b # None
    BY <1>0, <2>1 DEF Base, AllNamed
  <2>4. f.cols[c].keys \in Seq(KeyOfChunk) /\ us[c] \in Vector
    BY <1>0, <1>2, SoundParts DEF Whole
  <2>5. us[c].keys \in Seq(KeyOfChunk)
    BY <2>4, VectorParts
  <2>6. Len(f.cols[c].keys) <= Len(us[c].keys) /\ Grown(s, t, b, Len(f.cols[c].keys))
    BY <2>2, <2>4, <2>5 DEF Longer, Settled
  <2>7. CASE Longer(us[c], t, f.cols[c], s, b, col[c])
    <3>1. Open(us[c], t, b, col[c])
      BY <2>7 DEF Longer
    <3>2. us[c].name = b
      BY <3>1 DEF Open
    <3> QED  BY <2>1, <2>3, <2>6, <3>1, <3>2, OpenSound
  <2>8. CASE Settled(us[c], t, f.cols[c], s, b, col[c])
    <3>1. Closed(us[c], t, b, col[c]) /\ Exact(us[c], t, b) /\ us[c].name = b
      BY <2>8 DEF Settled
    <3> QED  BY <2>1, <2>3, <2>6, <3>1, ClosedSound
  <2> QED  BY <2>2, <2>7, <2>8
<1>4. \A c \in 1 .. n : Base(g, c) = f.cols[c].name
  BY <1>1, <1>3 DEF Base
<1>5. Whole(g, t)
  BY <1>0, <1>1, <1>2, <1>3, <1>4 DEF Whole
<1>6. Continues(g, f)
  BY <1>0, <1>1, <1>2, <1>3 DEF Continues
<1>7. Writes(f, s, t)
  BY <1>0, <1>2, <1>3 DEF Writes, Elsewhere, NamesOf
<1>8. TableIn(g, t) = ColumnsOf(col, n)
  BY <1>0, <1>1, <1>2, <1>3 DEF TableIn, ColumnsOf
<1> QED  BY <1>0, <1>5, <1>6, <1>7, <1>8

LEMMA FrameSealed ==
  ASSUME NEW f, NEW s, Whole(f, s), AllNamed(f), NEW us, NEW t, NEW col, NEW g,
         Sealed(us, t, f.cols, s, Len(f.cols), NamesOf(f), col), g.key = f.key, g.cols = us
  PROVE  /\ Whole(g, t) /\ Continues(g, f) /\ Writes(f, s, t)
         /\ TableIn(g, t) = ColumnsOf(col, Len(f.cols))
<1>1. BuiltOn(f, us, t, s, col)
  BY DEF BuiltOn
<1> QED  BY <1>1, ColumnsBuilt

(* Named columns are different columns of the store.                       *)
LEMMA NamesApart ==
  ASSUME NEW f, NEW s, Whole(f, s), AllNamed(f), Apart(f)
  PROVE  Bases(NamesOf(f), Len(f.cols)) /\ HaveKeys(f.cols, Len(f.cols))
<1>1. \A c \in 1 .. Len(f.cols) : f.cols[c].name = Base(f, c) /\ f.cols[c].name \in Name
  BY SoundParts DEF Whole, AllNamed, Base
<1>2. ASSUME NEW c \in 1 .. Len(f.cols), NEW d \in 1 .. Len(f.cols), c # d
      PROVE  f.cols[c].name # f.cols[d].name
  <2>1. YieldsAt(f, c, f, d)
    BY <1>2 DEF Apart
  <2> QED  BY <1>1, <2>1 DEF YieldsAt, AllNamed
<1>3. HaveKeys(f.cols, Len(f.cols))
  BY SoundParts DEF Whole, HaveKeys
<1> QED  BY <1>1, <1>2, <1>3 DEF Bases, NamesOf

(* Frames of different keys.                                               *)
LEMMA OtherKeys ==
  ASSUME NEW f, NEW g, NEW s, NEW t, Whole(f, s), Whole(g, t), f.key # g.key
  PROVE  Yields(f, g)
<1> SUFFICES ASSUME NEW c \in 1 .. Len(f.cols), NEW d \in 1 .. Len(g.cols),
                    f.cols[c].name # None, Base(g, d) = f.cols[c].name
             PROVE  FALSE
  BY DEF Yields, YieldsAt
<1>1. Base(f, c)[1] = f.key /\ Base(g, d)[1] = g.key /\ Base(f, c) = f.cols[c].name
  BY DEF Whole, Base
<1> QED  BY <1>1

(* A new frame.                                                            *)
LEMMA FrameOfNewColumns ==
  ASSUME NEW k \in Key, NEW w \in 0 .. MaxCols, NEW s \in Store
  PROVE  LET f == Frame(k, 0, NewColumns(k, w))
         IN /\ Whole(f, s) /\ Apart(f) /\ AllNamed(f) /\ NamesOf(f) = Names(k, w)
            /\ f.key = k /\ f.cols = NewColumns(k, w) /\ Len(f.cols) = w
            /\ \A c \in 1 .. w : f.cols[c] = NewVector(<<k, c>>)
<1>0. PICK f : f = Frame(k, 0, NewColumns(k, w))
  OBVIOUS
<1>1. w \in Nat /\ \A c \in 1 .. w : c \in Col
  BY NamesAreBases, MaxColsAssumption
<1>2. f.key = k /\ f.cols = NewColumns(k, w)
  BY <1>0, FrameFields
<1>3. /\ Len(f.cols) = w /\ f.cols \in Seq(Vector)
      /\ \A c \in 1 .. w : f.cols[c] = NewVector(<<k, c>>)
  <2>1. PICK e : e = [c \in 1 .. w |-> <<>>]
    OBVIOUS
  <2>2. \A c \in 1 .. w : e[c] = <<>>
    BY <2>1
  <2> QED  BY <1>2, <2>2, FrameStarted
<1>4. ASSUME NEW c \in 1 .. w
      PROVE  /\ f.cols[c].name = <<k, c>> /\ <<k, c>> # None /\ <<k, c>> \in Name
             /\ Sound(f.cols[c], s, <<k, c>>) /\ Base(f, c) = <<k, c>>
  <2>1. <<k, c>> \in Name
    BY <1>1 DEF Name
  <2>2. <<k, c>> # None
    BY <2>1, NoneAssumption DEF Name
  <2>3. PICK b : b = <<k, c>>
    OBVIOUS
  <2>4. Open(NewVector(b), s, b, <<>>) /\ NewVector(b).name = b
    BY <2>1, <2>3, NewVectorOpen
  <2>5. Sound(NewVector(b), s, b)
    BY <2>4, OpenSound
  <2> QED  BY <1>3, <2>1, <2>2, <2>3, <2>4, <2>5 DEF Base
<1>5. Whole(f, s)
  <2>1. ASSUME NEW c \in 1 .. w PROVE Base(f, c)[1] = k
    <3>1. Base(f, c) = <<k, c>>
      BY <1>4
    <3> QED  BY <3>1
  <2>2. Len(f.cols) <= MaxCols
    BY <1>1, <1>3, MaxColsAssumption
  <2> QED  BY <2>1, <2>2, <1>2, <1>3, <1>4 DEF Whole
<1>6. Apart(f)
  <2> SUFFICES ASSUME NEW c \in 1 .. w, NEW d \in 1 .. w, c # d PROVE YieldsAt(f, c, f, d)
    BY <1>3 DEF Apart
  <2>1. Base(f, d) = <<k, d>> /\ f.cols[c].name = <<k, c>>
    BY <1>4
  <2>2. <<k, d>> # <<k, c>>
    OBVIOUS
  <2> QED  BY <2>1, <2>2 DEF YieldsAt
<1>7. AllNamed(f) /\ NamesOf(f) = Names(k, w)
  BY <1>3, <1>4 DEF AllNamed, NamesOf, Names
<1> QED  BY <1>0, <1>2, <1>3, <1>5, <1>6, <1>7

(* Columns read.                                                           *)

AllLocked(f) == \A c \in 1 .. Len(f.cols) : f.cols[c].locked

(* The columns of f, some of them with the chunk of row r in the cache.    *)
ReadFrom(g, f, s, r) ==
  /\ g.key = f.key /\ DOMAIN g.cols = 1 .. Len(f.cols)
  /\ g.cols = [c \in 1 .. Len(f.cols) |-> g.cols[c]]
  /\ \A c \in 1 .. Len(f.cols) :
       \/ g.cols[c] = f.cols[c]
       \/ g.cols[c] = Cached(f.cols[c], s, r) /\ r \in 0 .. f.cols[c].size - 1

SizesKept(g, f) == \A c \in 1 .. Len(f.cols) : g.cols[c].size = f.cols[c].size

LEMMA FrameRead ==
  ASSUME NEW f, NEW g, NEW s, NEW r, Whole(f, s), AllLocked(f), ReadFrom(g, f, s, r)
  PROVE  /\ Whole(g, s) /\ Continues(g, f) /\ TableIn(g, s) = TableIn(f, s)
         /\ SizesKept(g, f) /\ Len(g.cols) = Len(f.cols)
<1>1. ASSUME NEW c \in 1 .. Len(f.cols)
      PROVE  /\ g.cols[c] \in Vector /\ Sound(g.cols[c], s, Base(f, c))
             /\ ContentOf(g.cols[c], s) = ContentOf(f.cols[c], s)
             /\ g.cols[c].name = f.cols[c].name /\ g.cols[c].keys = f.cols[c].keys
             /\ g.cols[c].size = f.cols[c].size /\ f.cols[c].keys \in Seq(KeyOfChunk)
  <2>1. PICK v, b, col : v = f.cols[c] /\ b = Base(f, c) /\ col = ContentOf(v, s)
    OBVIOUS
  <2>2. Sound(v, s, b) /\ v.locked
    BY <2>1 DEF Whole, AllLocked
  <2>3. /\ Closed(v, s, b, col) /\ (v.name # None => Exact(v, s, b)) /\ Len(col) = v.size
        /\ v \in Vector /\ v.keys \in Seq(KeyOfChunk)
    BY <2>1, <2>2, SoundParts
  <2>4. CASE g.cols[c] = v
    BY <2>1, <2>2, <2>3, <2>4
  <2>5. CASE g.cols[c] = Cached(v, s, r) /\ r \in 0 .. Len(col) - 1
    <3>1. PICK w : w = Cached(v, s, r)
      OBVIOUS
    <3>2. /\ Closed(w, s, b, col) /\ w.name = v.name /\ w.keys = v.keys /\ w.size = v.size
          /\ w \in Vector /\ (Exact(v, s, b) => Exact(w, s, b))
      <4>1. Closed(v, s, b, col) /\ r \in 0 .. Len(col) - 1
        BY <2>3, <2>5
      <4>2. /\ Closed(Cached(v, s, r), s, b, col) /\ Cached(v, s, r).name = v.name
            /\ Cached(v, s, r).keys = v.keys /\ Cached(v, s, r).size = v.size
            /\ Cached(v, s, r) \in Vector /\ (Exact(v, s, b) => Exact(Cached(v, s, r), s, b))
        BY <4>1, CachedClosed
      <4> QED  BY <3>1, <4>2
    <3>3. Sound(w, s, b) /\ ContentOf(w, s) = col
      BY <2>3, <3>2, ClosedSound
    <3> QED  BY <2>1, <2>3, <2>5, <3>1, <3>2, <3>3
  <2> QED  BY <2>1, <2>3, <2>4, <2>5 DEF ReadFrom
<1>2. g.cols \in Seq(Vector) /\ Len(g.cols) = Len(f.cols) /\ g.key = f.key
  <2>1. \A c \in 1 .. Len(f.cols) : g.cols[c] \in Vector
    BY <1>1
  <2>2. Len(f.cols) \in Nat
    BY DEF Whole
  <2>3. PICK n \in Nat : n = Len(f.cols)
    BY <2>2
  <2>4. PICK e : e = g.cols
    OBVIOUS
  <2>5. e = [c \in 1 .. n |-> e[c]] /\ g.key = f.key
    BY <2>3, <2>4 DEF ReadFrom
  <2>6. \A c \in 1 .. n : e[c] \in Vector
    BY <2>1, <2>3, <2>4
  <2>7. e \in Seq(Vector) /\ Len(e) = n
    BY <2>5, <2>6
  <2> QED  BY <2>3, <2>4, <2>5, <2>7
<1>3. \A c \in 1 .. Len(f.cols) : Base(g, c) = Base(f, c)
  BY <1>1, <1>2 DEF Base
<1>4. Whole(g, s)
  BY <1>1, <1>2, <1>3 DEF Whole
<1>5. Continues(g, f)
  BY <1>1, <1>2 DEF Continues
<1>6. TableIn(g, s) = TableIn(f, s)
  BY <1>1, <1>2 DEF TableIn
<1> QED  BY <1>1, <1>2, <1>4, <1>5, <1>6 DEF SizesKept

(* Frames saved and loaded.                                                *)

Unnamed(f) == \A c \in 1 .. Len(f.cols) : f.cols[c].name = None

LEMMA UnnamedYields ==
  ASSUME NEW f, Unnamed(f)
  PROVE  Apart(f) /\ \A g : Yields(f, g)
  BY DEF Unnamed, Apart, Yields, YieldsAt

LEMMA SameFrame ==
  ASSUME NEW f, NEW g, f.key = g.key, f.cols = g.cols
  PROVE  /\ \A s : (Whole(f, s) => Whole(g, s)) /\ TableIn(g, s) = TableIn(f, s)
         /\ \A h : (Yields(f, h) => Yields(g, h)) /\ (Yields(h, f) => Yields(h, g))
         /\ Unnamed(f) => Unnamed(g)
<1>1. \A c : Base(f, c) = Base(g, c)
  BY DEF Base
<1>2. \A s : Whole(f, s) => Whole(g, s)
  BY <1>1 DEF Whole
<1>3. \A h : (Yields(f, h) => Yields(g, h)) /\ (Yields(h, f) => Yields(h, g))
  BY <1>1 DEF Yields, YieldsAt
<1> QED  BY <1>2, <1>3 DEF TableIn, Unnamed

LEMMA FrameSaved ==
  ASSUME NEW f, NEW g, NEW s, Whole(f, s), AllLocked(f), NamesOf(f) = Names(f.key, Len(f.cols)),
         g.key = f.key, g.cols = Serialized(f.cols)
  PROVE  /\ Whole(g, s) /\ Unnamed(g) /\ TableIn(g, s) = TableIn(f, s) /\ Yields(f, g)
         /\ SizesKept(g, f) /\ Len(g.cols) = Len(f.cols)
<1>1. ASSUME NEW c \in 1 .. Len(f.cols)
      PROVE  /\ g.cols[c] \in Vector /\ Sound(g.cols[c], s, Base(f, c))
             /\ ContentOf(g.cols[c], s) = ContentOf(f.cols[c], s)
             /\ g.cols[c].name = None /\ g.cols[c].keys = f.cols[c].keys
             /\ g.cols[c].size = f.cols[c].size
             /\ Base(f, c) = <<f.key, c>> /\ f.cols[c].name = <<f.key, c>>
             /\ Len(f.cols[c].keys) \in Nat
  <2>1. PICK v, b, col, w : /\ v = f.cols[c] /\ b = Base(f, c) /\ col = ContentOf(v, s)
                            /\ w = g.cols[c]
    OBVIOUS
  <2>2. Sound(v, s, b) /\ v.locked
    BY <2>1 DEF Whole, AllLocked
  <2>3. Closed(v, s, b, col) /\ v \in Vector /\ Len(v.keys) \in Nat
    BY <2>1, <2>2, SoundParts
  <2>4. w = Deserialized(v)
    BY <2>1 DEF Serialized
  <2>5. PICK l : l = v.locked
    OBVIOUS
  <2>6. w = Vec(None, v.size, None, v.keys, v.locked)
    BY <2>3, <2>4, DeserializedParts
  <2>7. /\ w.name = None /\ w.size = v.size /\ w.current = None /\ w.keys = v.keys
        /\ w.locked = v.locked
    BY <2>6, VecFields
  <2>8. w.locked
    BY <2>2, <2>7, Zenon
  <2>9. w \in Vector
    <3>1. v.size \in 0 .. MaxRows /\ v.keys \in Seq(KeyOfChunk)
      BY <2>3, VectorParts
    <3>2. v = LockedVec(v.name, v.size, v.current, v.keys)
      BY <2>2, <2>3, LockedVecFields
    <3>3. v.locked = TRUE
      <4>1. PICK n, z, x, k : n = v.name /\ z = v.size /\ x = v.current /\ k = v.keys
        OBVIOUS
      <4>2. v = Vec(n, z, x, k, TRUE)
        BY <3>2, <4>1 DEF LockedVec
      <4> QED  BY <4>2 DEF Vec
    <3>4. w = LockedVec(None, v.size, None, v.keys)
      BY <2>6, <3>3 DEF LockedVec
    <3> QED  BY <3>1, <3>4, LockedVecFields
  <2>10. Closed(w, s, b, col)
    BY <2>3, <2>7, <2>8, <2>9 DEF Closed
  <2>11. Sound(w, s, b) /\ ContentOf(w, s) = col
    BY <2>7, <2>10, ClosedSound
  <2>12. v.name = <<f.key, c>>
    <3>1. NamesOf(f)[c] = v.name
      BY <2>1 DEF NamesOf
    <3> QED  BY <3>1 DEF Names
  <2>13. b = <<f.key, c>>
    BY <2>1, <2>12 DEF Base
  <2> QED  BY <2>1, <2>3, <2>7, <2>9, <2>11, <2>12, <2>13
<1>2. g.cols \in Seq(Vector) /\ Len(g.cols) = Len(f.cols)
  <2>1. Len(f.cols) \in Nat
    BY DEF Whole
  <2>2. PICK n \in Nat : n = Len(f.cols)
    BY <2>1
  <2>3. PICK e : e = g.cols
    OBVIOUS
  <2>4. e = [c \in 1 .. n |-> Deserialized(f.cols[c])]
    BY <2>2, <2>3 DEF Serialized
  <2>5. \A c \in 1 .. n : e[c] \in Vector
    BY <1>1, <2>2, <2>3
  <2>6. e \in Seq(Vector) /\ Len(e) = n
    BY <2>4, <2>5
  <2> QED  BY <2>2, <2>3, <2>6
<1>3. ASSUME NEW c \in 1 .. Len(f.cols) PROVE Base(g, c) = <<f.key, c>>
  BY <1>1 DEF Base
<1>4. Whole(g, s)
  <2>1. ASSUME NEW c \in 1 .. Len(g.cols)
        PROVE  Sound(g.cols[c], s, Base(g, c)) /\ Base(g, c)[1] = g.key
    <3>1. /\ Base(g, c) = <<f.key, c>> /\ Base(f, c) = <<f.key, c>>
          /\ Sound(g.cols[c], s, Base(f, c))
      BY <1>1, <1>2, <1>3
    <3> QED  BY <3>1
  <2> QED  BY <1>2, <2>1 DEF Whole
<1>5. Unnamed(g)
  BY <1>1, <1>2 DEF Unnamed
<1>6. TableIn(g, s) = TableIn(f, s)
  BY <1>1, <1>2 DEF TableIn
<1>7. Yields(f, g)
  <2> SUFFICES ASSUME NEW c \in 1 .. Len(f.cols), NEW d \in 1 .. Len(f.cols),
                      Base(g, d) = f.cols[c].name
               PROVE  g.cols[d].name = None /\ Len(g.cols[d].keys) <= Len(f.cols[c].keys)
    BY <1>2 DEF Yields, YieldsAt
  <2>1. f.cols[c].name = <<f.key, c>> /\ Base(g, d) = <<f.key, d>>
    BY <1>1, <1>3
  <2>2. c = d
    BY <2>1
  <2> QED  BY <1>1, <2>2
<1> QED  BY <1>1, <1>2, <1>4, <1>5, <1>6, <1>7 DEF SizesKept

(* A column joined.                                                        *)

(* No column of f has the name b, and none was loaded that has chunks.     *)
Vacant(f, b) ==
  \A c \in 1 .. Len(f.cols) : /\ f.cols[c].name # b
                              /\ Base(f, c) = b => f.cols[c].keys = <<>>

Joins(g, f, v) == g.key = f.key /\ g.cols = Append(f.cols, v)

LEMMA JoinedColumns ==
  ASSUME NEW f, NEW g, NEW v, HasColumns(f), Joins(g, f, v)
  PROVE  /\ Len(f.cols) \in Nat /\ Len(g.cols) = Len(f.cols) + 1
         /\ \A c \in 1 .. Len(f.cols) : /\ g.cols[c] = f.cols[c] /\ Base(g, c) = Base(f, c)
                                        /\ c \in 1 .. Len(g.cols)
         /\ g.cols[Len(f.cols) + 1] = v
         /\ \A c \in 1 .. Len(g.cols) : c \in 1 .. Len(f.cols) \/ c = Len(f.cols) + 1
         /\ v \in Vector => HasColumns(g)
<1>1. PICK n \in Nat : n = Len(f.cols)
  BY DEF HasColumns
<1>2. Len(g.cols) = n + 1 /\ g.cols[n + 1] = v /\ \A c \in 1 .. n : g.cols[c] = f.cols[c]
  BY <1>1 DEF HasColumns, Joins
<1>3. \A c \in 1 .. n : Base(g, c) = Base(f, c)
  BY <1>2 DEF Base, Joins
<1>4. v \in Vector => HasColumns(g)
  BY DEF HasColumns, Joins
<1>5. \A c \in 1 .. n + 1 : c \in 1 .. n \/ c = n + 1
  OBVIOUS
<1>6. \A c \in 1 .. n : c \in 1 .. n + 1
  OBVIOUS
<1> QED  BY <1>1, <1>2, <1>3, <1>4, <1>5, <1>6

(* A new column, empty yet.                                                *)
LEMMA EmptyColumnJoins ==
  ASSUME NEW f, NEW g, NEW s \in Store, NEW b \in Name, Whole(f, s), Apart(f), Vacant(f, b),
         b[1] = f.key, Len(f.cols) < MaxCols, Joins(g, f, NewVector(b))
  PROVE  /\ Whole(g, s) /\ Apart(g) /\ HasColumns(f) /\ HasColumns(g)
         /\ \A h : Vacant(h, b) => (Yields(f, h) => Yields(g, h)) /\ (Yields(h, f) => Yields(h, g))
<1>1. PICK n, v : n = Len(f.cols) /\ v = NewVector(b)
  OBVIOUS
<1>2. v \in Vector /\ Sound(v, s, b) /\ v.name = b /\ v.keys = <<>> /\ b # None
  <2>1. Open(v, s, b, <<>>) /\ v \in Vector /\ v.keys = <<>> /\ v.name = b
    BY <1>1, NewVectorOpen
  <2> QED  BY <2>1, OpenSound, NoneAssumption DEF Name
<1>3. HasColumns(f)
  BY DEF Whole, HasColumns
<1>4. /\ n \in Nat /\ Len(g.cols) = n + 1 /\ g.cols[n + 1] = v /\ HasColumns(g)
      /\ \A c \in 1 .. n : g.cols[c] = f.cols[c] /\ Base(g, c) = Base(f, c)
      /\ \A c \in 1 .. Len(g.cols) : c \in 1 .. n \/ c = n + 1
  BY <1>1, <1>2, <1>3, JoinedColumns
<1>5. Base(g, n + 1) = b
  BY <1>2, <1>4 DEF Base
<1>6. Whole(g, s)
  <2>1. g.key \in Key /\ g.cols \in Seq(Vector) /\ g.key = f.key
    BY <1>4 DEF Whole, HasColumns, Joins
  <2>2. Len(g.cols) <= MaxCols
    BY <1>1, <1>4, MaxColsAssumption
  <2>3. ASSUME NEW c \in 1 .. Len(g.cols)
        PROVE  Sound(g.cols[c], s, Base(g, c)) /\ Base(g, c)[1] = g.key
    <3>1. CASE c \in 1 .. n
      BY <1>1, <1>4, <2>1, <3>1 DEF Whole
    <3>2. CASE c = n + 1
      BY <1>2, <1>4, <1>5, <2>1, <3>2
    <3> QED  BY <1>4, <3>1, <3>2
  <2> QED  BY <2>1, <2>2, <2>3 DEF Whole
<1>7. Apart(g)
  <2> SUFFICES ASSUME NEW c \in 1 .. Len(g.cols), NEW d \in 1 .. Len(g.cols), c # d
               PROVE  YieldsAt(g, c, g, d)
    BY DEF Apart
  <2>1. CASE c \in 1 .. n /\ d \in 1 .. n
    <3>1. YieldsAt(f, c, f, d)
      BY <1>1, <2>1 DEF Apart
    <3> QED  BY <1>4, <2>1, <3>1 DEF YieldsAt
  <2>2. CASE c \in 1 .. n /\ d = n + 1
    <3>1. g.cols[c].name # b
      BY <1>1, <1>4, <2>2 DEF Vacant
    <3> QED  BY <1>5, <2>2, <3>1 DEF YieldsAt
  <2>3. CASE c = n + 1 /\ d \in 1 .. n
    <3> SUFFICES ASSUME Base(g, d) = b
                 PROVE  g.cols[d].name = None /\ Len(g.cols[d].keys) <= Len(g.cols[c].keys)
      BY <1>2, <1>4, <2>3 DEF YieldsAt
    <3>1. f.cols[d].name # b /\ f.cols[d].keys = <<>> /\ g.cols[d] = f.cols[d]
      BY <1>1, <1>4, <2>3 DEF Vacant
    <3>2. g.cols[d].name = None
      BY <3>1 DEF Base
    <3> QED  BY <1>2, <1>4, <2>3, <3>1, <3>2
  <2>4. (c \in 1 .. n \/ c = n + 1) /\ (d \in 1 .. n \/ d = n + 1)
    BY <1>4
  <2> QED  BY <2>1, <2>2, <2>3, <2>4
<1>8. ASSUME NEW h, Vacant(h, b), Yields(f, h) PROVE Yields(g, h)
  <2> SUFFICES ASSUME NEW c \in 1 .. Len(g.cols), NEW d \in 1 .. Len(h.cols)
               PROVE  YieldsAt(g, c, h, d)
    BY DEF Yields
  <2>1. CASE c \in 1 .. n
    <3>1. YieldsAt(f, c, h, d)
      BY <1>1, <1>8, <2>1 DEF Yields
    <3> QED  BY <1>4, <2>1, <3>1 DEF YieldsAt
  <2>2. CASE c = n + 1
    <3> SUFFICES ASSUME Base(h, d) = b
                 PROVE  h.cols[d].name = None /\ Len(h.cols[d].keys) <= Len(g.cols[c].keys)
      BY <1>2, <1>4, <2>2 DEF YieldsAt
    <3>1. h.cols[d].name # b /\ h.cols[d].keys = <<>>
      BY <1>8 DEF Vacant
    <3>2. h.cols[d].name = None
      BY <3>1 DEF Base
    <3> QED  BY <1>2, <1>4, <2>2, <3>1, <3>2
  <2> QED  BY <1>4, <2>1, <2>2
<1>9. ASSUME NEW h, Vacant(h, b), Yields(h, f) PROVE Yields(h, g)
  <2> SUFFICES ASSUME NEW c \in 1 .. Len(h.cols), NEW d \in 1 .. Len(g.cols)
               PROVE  YieldsAt(h, c, g, d)
    BY DEF Yields
  <2>1. CASE d \in 1 .. n
    <3>1. YieldsAt(h, c, f, d)
      BY <1>1, <1>9, <2>1 DEF Yields
    <3> QED  BY <1>4, <2>1, <3>1 DEF YieldsAt
  <2>2. CASE d = n + 1
    <3>1. h.cols[c].name # b
      BY <1>9 DEF Vacant
    <3> QED  BY <1>5, <2>2, <3>1 DEF YieldsAt
  <2> QED  BY <1>4, <2>1, <2>2
<1> QED  BY <1>3, <1>4, <1>6, <1>7, <1>8, <1>9

(* The new column was written.                                             *)
LEMMA ColumnFilled ==
  ASSUME NEW f, NEW e, NEW g, NEW w, NEW s \in Store, NEW t \in Store, NEW b \in Name, NEW fs,
         Whole(f, s), Vacant(f, b), Whole(e, s), Joins(e, f, NewVector(b)), Joins(g, f, w),
         Settled(w, t, NewVector(b), s, b, fs), OthersSame(s, t, b)
  PROVE  /\ Whole(g, t) /\ Continues(g, e) /\ Writes(e, s, t)
         /\ Undisturbed(f, s, t) /\ ContentOf(w, t) = fs /\ w.size = Len(fs)
<1>1. PICK n, v : n = Len(f.cols) /\ v = NewVector(b)
  OBVIOUS
<1>2. v \in Vector /\ v.name = b /\ v.keys = <<>> /\ b # None /\ Len(v.keys) = 0
  BY <1>1, NewVectorOpen, NoneAssumption DEF Name
<1>3. /\ Closed(w, t, b, fs) /\ Exact(w, t, b) /\ w.name = b /\ w \in Vector /\ w.size = Len(fs)
      /\ Len(w.keys) \in Nat /\ 0 <= Len(w.keys)
  <2>1. Closed(w, t, b, fs) /\ Exact(w, t, b) /\ w.name = b
    BY DEF Settled
  <2>2. Len(w.keys) \in Nat
    BY <2>1, ClosedParts
  <2> QED  BY <2>1, <2>2 DEF Closed
<1>4. Sound(w, t, b) /\ ContentOf(w, t) = fs
  BY <1>3, ClosedSound
<1>5. HasColumns(f)
  BY DEF Whole, HasColumns
<1>6. /\ n \in Nat /\ Len(g.cols) = n + 1 /\ g.cols[n + 1] = w /\ HasColumns(g)
      /\ \A c \in 1 .. n : g.cols[c] = f.cols[c] /\ Base(g, c) = Base(f, c)
      /\ \A c \in 1 .. Len(g.cols) : c \in 1 .. n \/ c = n + 1
  BY <1>1, <1>3, <1>5, JoinedColumns
<1>7. /\ Len(e.cols) = n + 1 /\ e.cols[n + 1] = v
      /\ \A c \in 1 .. n : e.cols[c] = f.cols[c]
  BY <1>1, <1>2, <1>5, JoinedColumns
<1>8. Grown(s, t, b, 0)
  BY GrownMore
<1>9. Undisturbed(f, s, t)
  <2> SUFFICES ASSUME NEW c \in 1 .. Len(f.cols) PROVE Spared(f.cols[c], s, t, Base(f, c))
    BY DEF Undisturbed
  <2>1. Base(f, c) \in Name /\ f.cols[c].name # b
    BY SoundParts DEF Whole, Vacant
  <2>2. CASE Base(f, c) # b
    BY <2>1, <2>2 DEF OthersSame, Spared
  <2>3. CASE Base(f, c) = b
    <3>1. f.cols[c].keys = <<>> /\ f.cols[c].name = None
      BY <2>1, <2>3 DEF Vacant, Base
    <3>2. Len(f.cols[c].keys) <= 0 /\ 0 \in Nat
      BY <3>1
    <3> QED  BY <1>8, <2>3, <3>1, <3>2 DEF Spared
  <2> QED  BY <2>2, <2>3
<1>10. Whole(f, t)
  BY <1>9, FrameKept
<1>11. Whole(g, t)
  <2>1. g.key \in Key /\ g.cols \in Seq(Vector) /\ g.key = f.key /\ g.key = e.key
    BY <1>6 DEF Whole, HasColumns, Joins
  <2>2. Len(g.cols) <= MaxCols
    BY <1>6, <1>7 DEF Whole
  <2>3. Base(g, n + 1) = b /\ b[1] = g.key
    <3>1. Base(e, n + 1) = b /\ n + 1 \in 1 .. Len(e.cols)
      BY <1>2, <1>6, <1>7 DEF Base
    <3>2. b[1] = e.key
      BY <3>1 DEF Whole
    <3>3. Base(g, n + 1) = b
      BY <1>2, <1>3, <1>6 DEF Base
    <3> QED  BY <2>1, <3>2, <3>3
  <2>4. ASSUME NEW c \in 1 .. Len(g.cols)
        PROVE  Sound(g.cols[c], t, Base(g, c)) /\ Base(g, c)[1] = g.key
    <3>1. CASE c \in 1 .. n
      BY <1>1, <1>6, <1>10, <2>1, <3>1 DEF Whole
    <3>2. CASE c = n + 1
      BY <1>4, <1>6, <2>3, <3>2
    <3> QED  BY <1>6, <3>1, <3>2
  <2> QED  BY <2>1, <2>2, <2>4 DEF Whole
<1>12. Continues(g, e)
  <2>1. g.key = e.key /\ Len(g.cols) = Len(e.cols)
    BY <1>6, <1>7 DEF Joins
  <2>2. ASSUME NEW c \in 1 .. Len(e.cols)
        PROVE  /\ g.cols[c].name = e.cols[c].name /\ Len(e.cols[c].keys) <= Len(g.cols[c].keys)
               /\ e.cols[c].name = None => g.cols[c].keys = e.cols[c].keys
    <3>1. CASE c \in 1 .. n
      <4>1. g.cols[c] = e.cols[c] /\ c \in 1 .. Len(g.cols)
        BY <1>6, <1>7, <3>1
      <4>2. Len(g.cols[c].keys) \in Nat
        BY <1>6, <4>1, ColumnParts
      <4> QED  BY <4>1, <4>2
    <3>2. CASE c = n + 1
      BY <1>2, <1>3, <1>6, <1>7, <3>2
    <3> QED  BY <1>6, <2>1, <3>1, <3>2
  <2> QED  BY <2>1, <2>2 DEF Continues
<1>13. Writes(e, s, t)
  <2>1. ASSUME NEW c \in 1 .. Len(e.cols), e.cols[c].name # None
        PROVE  Grown(s, t, e.cols[c].name, Len(e.cols[c].keys))
    <3>1. CASE c \in 1 .. n
      <4>1. /\ c \in 1 .. Len(f.cols) /\ e.cols[c] = f.cols[c] /\ Base(f, c) = e.cols[c].name
            /\ e.cols[c].name # None
        BY <1>1, <1>7, <2>1, <3>1 DEF Base
      <4>2. Spared(e.cols[c], s, t, e.cols[c].name)
        BY <1>9, <4>1 DEF Undisturbed
      <4>3. Same(s, t, e.cols[c].name)
        BY <4>1, <4>2 DEF Spared
      <4> QED  BY <4>3, GrownMore
    <3>2. CASE c = n + 1
      BY <1>2, <1>7, <1>8, <3>2
    <3> QED  BY <1>6, <1>7, <3>1, <3>2
  <2>2. ASSUME NEW d \in Name, \A c \in 1 .. Len(e.cols) : e.cols[c].name # d
        PROVE  Same(s, t, d)
    <3>1. e.cols[n + 1].name # d
      <4>1. n + 1 \in 1 .. Len(e.cols)
        BY <1>6, <1>7
      <4> QED  BY <2>2, <4>1
    <3> QED  BY <1>2, <1>7, <3>1 DEF OthersSame
  <2> QED  BY <2>1, <2>2 DEF Writes
<1> QED  BY <1>3, <1>4, <1>9, <1>11, <1>12, <1>13

AllExtend(f) == \A c \in 1 .. Len(f.cols) : CanExtend(f.cols[c])

AtMost(f, n) == \A c \in 1 .. Len(f.cols) : f.cols[c].size <= n

(* The columns of a frame padded.                                          *)
LEMMA FramePadded ==
  ASSUME NEW f, NEW s \in Store, Whole(f, s), Apart(f), AllExtend(f),
         NEW n \in 0 .. MaxRows, AtMost(f, n), NEW w, w = Len(f.cols)
  PROVE  /\ AllNamed(f)
         /\ \E us, t : /\ PadColumns(Cols(f.cols, s), n) = Cols(us, t)
                       /\ Sealed(us, t, f.cols, s, w, NamesOf(f), WithPadding(TableIn(f, s), n, w))
<1>1. AllNamed(f)
  BY DEF AllNamed, AllExtend, CanExtend
<1>2. Bases(NamesOf(f), w) /\ w \in Nat /\ f.cols \in Seq(Vector)
  BY <1>1, NamesApart DEF Whole
<1>3. PICK vs, base, col : vs = f.cols /\ base = NamesOf(f) /\ col = TableIn(f, s)
  OBVIOUS
<1>4. ASSUME NEW c \in 1 .. w
      PROVE  /\ Closed(vs[c], s, base[c], col[c]) /\ Exact(vs[c], s, base[c])
             /\ vs[c].name = base[c] /\ vs[c].keys # <<>> /\ Len(col[c]) <= n
  <2>1. PICK v : v = f.cols[c]
    OBVIOUS
  <2>2. /\ v.locked /\ v.keys # <<>> /\ v.name # None /\ Sound(v, s, Base(f, c))
        /\ Base(f, c) = v.name
    BY <2>1 DEF AllExtend, CanExtend, Whole, Base
  <2>3. base[c] = v.name /\ col[c] = ContentOf(v, s) /\ vs[c] = v
    BY <1>3, <2>1 DEF NamesOf, TableIn
  <2>4. Closed(v, s, v.name, ContentOf(v, s)) /\ Exact(v, s, v.name) /\ Len(ContentOf(v, s)) = v.size
    BY <2>2, SoundParts
  <2>5. v.size <= n
    BY <2>1 DEF AtMost
  <2> QED  BY <2>2, <2>3, <2>4, <2>5
<1>5. \E us, t : /\ PadColumns(Cols(vs, s), n) = Cols(us, t)
                 /\ Sealed(us, t, vs, s, w, base, WithPadding(col, n, w))
  <2>1. vs \in Seq(Vector) /\ Len(vs) = w /\ Bases(base, w) /\ w \in Nat
    BY <1>2, <1>3
  <2> QED  BY <1>4, <2>1, RowsPadded
<1> QED  BY <1>1, <1>3, <1>5

(* The other columns were padded, after the new one was written.           *)
LEMMA OthersPadded ==
  ASSUME NEW f, NEW e, NEW g, NEW h, NEW w, NEW t \in Store, NEW y, NEW b,
         Whole(f, t), Whole(e, t), Joins(e, f, w), w.name = b, b # None, Vacant(f, b),
         Whole(h, y), Continues(h, f), Writes(f, t, y), Joins(g, h, w)
  PROVE  /\ Whole(g, y) /\ Continues(g, e) /\ Writes(e, t, y)
         /\ TableIn(g, y) = Append(TableIn(h, y), ContentOf(w, t))
<1>1. PICK n : n = Len(f.cols)
  OBVIOUS
<1>2. h.key = f.key
  BY DEF Continues
<1>3. HasColumns(h) /\ HasColumns(f) /\ n \in Nat /\ Len(h.cols) = n
  BY <1>1 DEF Whole, HasColumns, Continues
<1>4. /\ Len(e.cols) = n + 1 /\ e.cols[n + 1] = w /\ HasColumns(e)
      /\ \A c \in 1 .. n : e.cols[c] = f.cols[c]
      /\ \A c \in 1 .. Len(e.cols) : c \in 1 .. n \/ c = n + 1
  <2>1. HasColumns(e)
    BY DEF Whole, HasColumns
  <2> QED  BY <1>1, <1>3, <2>1, JoinedColumns
<1>5. w \in Vector /\ Base(e, n + 1) = b /\ Sound(w, t, b) /\ b[1] = e.key /\ b \in Name
  <2>1. n + 1 \in 1 .. Len(e.cols)
    BY <1>3, <1>4
  <2>2. Base(e, n + 1) = b
    BY <1>4 DEF Base
  <2>3. Sound(w, t, b) /\ b[1] = e.key
    BY <1>4, <2>1, <2>2 DEF Whole
  <2> QED  BY <2>2, <2>3, SoundParts
<1>6. /\ Len(g.cols) = n + 1 /\ g.cols[n + 1] = w /\ HasColumns(g)
      /\ \A c \in 1 .. n : g.cols[c] = h.cols[c] /\ Base(g, c) = Base(h, c)
      /\ \A c \in 1 .. Len(g.cols) : c \in 1 .. n \/ c = n + 1
  BY <1>3, <1>5, JoinedColumns
<1>7. Same(t, y, b)
  BY <1>5 DEF Vacant, Writes
<1>8. Sound(w, y, b) /\ ContentOf(w, y) = ContentOf(w, t)
  <2>1. Spared(w, t, y, b)
    BY <1>7 DEF Spared
  <2> QED  BY <1>5, <2>1, ColumnKept
<1>9. Whole(g, y)
  <2>1. g.key \in Key /\ g.cols \in Seq(Vector) /\ g.key = e.key
    BY <1>2, <1>6 DEF Whole, HasColumns, Joins
  <2>2. Len(g.cols) <= MaxCols
    BY <1>6, <1>4 DEF Whole
  <2>3. Base(g, n + 1) = b
    BY <1>6 DEF Base
  <2>4. ASSUME NEW c \in 1 .. Len(g.cols)
        PROVE  Sound(g.cols[c], y, Base(g, c)) /\ Base(g, c)[1] = g.key
    <3>1. CASE c \in 1 .. n
      <4>1. c \in 1 .. Len(h.cols) /\ g.cols[c] = h.cols[c] /\ Base(g, c) = Base(h, c)
        BY <1>3, <1>6, <3>1
      <4>2. Sound(h.cols[c], y, Base(h, c)) /\ Base(h, c)[1] = h.key /\ h.key = g.key
        BY <4>1 DEF Whole, Joins
      <4> QED  BY <4>1, <4>2
    <3>2. CASE c = n + 1
      BY <1>5, <1>6, <1>8, <2>1, <2>3, <3>2
    <3> QED  BY <1>6, <3>1, <3>2
  <2> QED  BY <2>1, <2>2, <2>4 DEF Whole
<1>10. Continues(g, e)
  <2>1. g.key = e.key /\ Len(g.cols) = Len(e.cols)
    BY <1>2, <1>6, <1>4 DEF Joins
  <2>2. ASSUME NEW c \in 1 .. Len(e.cols)
        PROVE  /\ g.cols[c].name = e.cols[c].name /\ Len(e.cols[c].keys) <= Len(g.cols[c].keys)
               /\ e.cols[c].name = None => g.cols[c].keys = e.cols[c].keys
    <3>1. CASE c \in 1 .. n
      <4>1. g.cols[c] = h.cols[c] /\ e.cols[c] = f.cols[c]
        BY <1>4, <1>6, <3>1
      <4> QED  BY <1>1, <3>1, <4>1 DEF Continues
    <3>2. CASE c = n + 1
      <4>1. g.cols[c] = w /\ e.cols[c] = w
        BY <1>4, <1>6, <3>2
      <4>2. Len(w.keys) \in Nat
        BY <1>5, SoundParts
      <4> QED  BY <4>1, <4>2
    <3> QED  BY <1>4, <3>1, <3>2
  <2> QED  BY <2>1, <2>2 DEF Continues
<1>11. Writes(e, t, y)
  <2>1. ASSUME NEW c \in 1 .. Len(e.cols), e.cols[c].name # None
        PROVE  Grown(t, y, e.cols[c].name, Len(e.cols[c].keys))
    <3>1. CASE c \in 1 .. n
      <4>1. e.cols[c] = f.cols[c] /\ c \in 1 .. Len(f.cols)
        BY <1>1, <1>4, <3>1
      <4> QED  BY <2>1, <4>1 DEF Writes
    <3>2. CASE c = n + 1
      <4>1. e.cols[c] = w
        BY <1>4, <3>2
      <4> QED  BY <1>7, <4>1, GrownMore
    <3> QED  BY <1>4, <3>1, <3>2
  <2>2. ASSUME NEW d \in Name, \A c \in 1 .. Len(e.cols) : e.cols[c].name # d
        PROVE  Same(t, y, d)
    <3>1. \A c \in 1 .. Len(f.cols) : f.cols[c].name # d
      <4> SUFFICES ASSUME NEW c \in 1 .. n PROVE f.cols[c].name # d
        BY <1>1
      <4>1. c \in 1 .. Len(e.cols) /\ e.cols[c] = f.cols[c]
        BY <1>3, <1>4
      <4> QED  BY <2>2, <4>1
    <3> QED  BY <3>1 DEF Writes
  <2> QED  BY <2>1, <2>2 DEF Writes
<1>12. TableIn(g, y) = Append(TableIn(h, y), ContentOf(w, t))
  <2>1. \A c \in 1 .. n : ContentOf(g.cols[c], y) = TableIn(h, y)[c]
    BY <1>3, <1>6 DEF TableIn
  <2>2. PICK cc, x : cc = TableIn(h, y) /\ x = ContentOf(w, t)
    OBVIOUS
  <2>3. cc = [c \in 1 .. n |-> ContentOf(h.cols[c], y)]
    BY <1>3, <2>2 DEF TableIn
  <2>4. Append(cc, x) = [c \in 1 .. n + 1 |-> IF c <= n THEN cc[c] ELSE x]
    <3>1. Len(cc) = n
      BY <1>3, <2>3
    <3> QED  BY <1>3, <2>3, <3>1
  <2>5. \A c \in 1 .. n + 1 :
          ContentOf(g.cols[c], y) = IF c <= n THEN cc[c] ELSE x
    <3> SUFFICES ASSUME NEW c \in 1 .. n + 1
                 PROVE  ContentOf(g.cols[c], y) = IF c <= n THEN cc[c] ELSE x
      OBVIOUS
    <3>1. CASE c <= n
      <4>1. c \in 1 .. n
        BY <1>3, <3>1
      <4> QED  BY <2>1, <2>2, <3>1, <4>1
    <3>2. CASE ~(c <= n)
      <4>1. c = n + 1
        BY <1>3, <3>2
      <4> QED  BY <1>6, <1>8, <2>2, <3>2, <4>1
    <3> QED  BY <3>1, <3>2
  <2>6. TableIn(g, y) = [c \in 1 .. n + 1 |-> ContentOf(g.cols[c], y)]
    BY <1>6 DEF TableIn
  <2> QED  BY <2>2, <2>4, <2>5, <2>6
<1> QED  BY <1>9, <1>10, <1>11, <1>12

=============================================================================
