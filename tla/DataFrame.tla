------------------------------ MODULE DataFrame ------------------------------
(***************************************************************************)
(* DataFrames (dataframe.h, kdstore.h) over DistributedVectors: built row  *)
(* by row or from a visitor, published, loaded by others, extended with    *)
(* columns, read and filtered.  A frame lives in the process that holds    *)
(* it; the chunks of its columns and the published frames are blobs in the *)
(* key/value store, which is taken here as the one map that KVStore        *)
(* implements (KVRefinement).                                              *)
(*                                                                         *)
(* Applications are taken to be legal: a key is used for one frame and a   *)
(* column's key for one column, rows are added to unlocked frames and read *)
(* from locked ones, and a frame is not used after a Filter has written    *)
(* over its chunks (stale).                                                *)
(***************************************************************************)
EXTENDS DistVector, FiniteSets

CONSTANTS Handle,      \* the frames that applications hold
          Key,         \* the keys of frames
          MaxRows,     \* bound on the rows of a frame
          MaxCols,     \* bound on its columns
          RowCounts,   \* the lengths frames and columns are built with
          Default,     \* what a missing field is read as
          Undefined    \* stands for a frame that must not be used

ASSUME MaxRowsAssumption == MaxRows \in Nat /\ RowCounts \subseteq 0 .. MaxRows
ASSUME MaxColsAssumption == MaxCols \in Nat
ASSUME HandleAssumption == Handle \cap Key = {}

VARIABLES store,    \* the chunks in the key/value store
          saved,    \* the serialized frames in it
          df,       \* the frames
          stale,    \* frames, and keys of frames, that a Filter has written over
          status    \* "ok", or why the process ended

vars == <<store, saved, df, stale, status>>

Col == 1 .. MaxCols
ChunkName == Key \X Col \X (0 .. MaxRows)

Field(k, c, r) == <<k, c, r>>
ColumnOf(k, c, n) == [r \in 1 .. n |-> Field(k, c, r)]
RowOf(k, w, r) == [c \in 1 .. w |-> Field(k, c, r)]
Read(f) == IF f = Missing THEN Default ELSE f

Init ==
  /\ store = [x \in ChunkName |-> None]
  /\ saved = [k \in Key |-> None]
  /\ df = [h \in Handle |-> None]
  /\ stale = {}
  /\ status = "ok"

-----------------------------------------------------------------------------
(* Operators on [cols |-> columns, s |-> store].                           *)

(* Op on one column after the other, all writing to the same store.        *)
EachColumn(Op(_, _), p) ==
  LET Step(q, c) == LET r == Op([v |-> p.cols[c], s |-> q.s], c)
                    IN [cols |-> Append(q.cols, r.v), s |-> r.s]
  IN FoldLeft(Step, [cols |-> <<>>, s |-> p.s], [c \in 1 .. Len(p.cols) |-> c])

AddFields(p, row) == EachColumn(LAMBDA x, c : AppendField(x, row[c]), p)
LockColumns(p) == EachColumn(LAMBDA x, c : Lock(x), p)

NewColumns(k, w) == [c \in 1 .. w |-> NewVector(<<k, c>>)]

(* pad_column_                                                             *)
PadColumn(x, n) == Lock(AppendAll(Unlock(x), [i \in 1 .. n - x.v.size |-> Missing]))

(* fill_row: the fields of row i, and the columns with its chunks cached.  *)
RowAt(cols, s, i) == [c \in 1 .. Len(cols) |-> Read(FieldAt(cols[c], s, i))]
CachedAt(cols, s, i) == [c \in 1 .. Len(cols) |-> Cached(cols[c], s, i)]

(* filter: the source is read while the chunks of the result are written.  *)
FilterRows(k, p, n, accepted) ==
  LET Visit(q, i) ==
        LET row == RowAt(q.src, q.s, i)
            to == IF i \in accepted THEN AddFields([cols |-> q.cols, s |-> q.s], row)
                                    ELSE [cols |-> q.cols, s |-> q.s]
        IN [src |-> CachedAt(q.src, q.s, i), cols |-> to.cols, s |-> to.s]
      end == FoldLeft(Visit, [src |-> p.cols, cols |-> NewColumns(k, Len(p.cols)), s |-> p.s],
                      [i \in 1 .. n |-> i - 1])
      locked == LockColumns([cols |-> end.cols, s |-> end.s])
  IN [src |-> end.src, cols |-> locked.cols, s |-> locked.s]

Serialized(cols) == [c \in 1 .. Len(cols) |-> Deserialized(cols[c])]

-----------------------------------------------------------------------------
Frame(k, n, cols) == [key |-> k, length |-> n, cols |-> cols]

Locked(h) == \A c \in 1 .. Len(df[h].cols) : df[h].cols[c].locked
Unlocked(h) == \A c \in 1 .. Len(df[h].cols) : ~df[h].cols[c].locked

Usable(h) == status = "ok" /\ df[h] # None /\ h \notin stale
Free(h) == status = "ok" /\ df[h] = None

UnusedKey(k) == saved[k] = None /\ \A h \in Handle : df[h] # None => df[h].key # k

(* Nobody has used the column key <<k, c>>.                                *)
UnusedColumn(k, c) ==
  /\ \A i \in 0 .. MaxRows : store[<<k, c, i>>] = None
  /\ \A h \in Handle : df[h] # None =>
       \A x \in 1 .. Len(df[h].cols) : df[h].cols[x].name # <<k, c>>

Fail(why) == status' = why /\ UNCHANGED <<store, saved, df, stale>>

(* DataFrame(schema, kv, k)                                                *)
NewFrame(h, k, w) ==
  /\ Free(h)
  /\ UnusedKey(k)
  /\ df' = [df EXCEPT ![h] = Frame(k, 0, NewColumns(k, w))]
  /\ UNCHANGED <<store, saved, stale, status>>

(* add_row, which locks the columns after the last row.                    *)
AddRow(h, last) ==
  /\ Usable(h)
  /\ Unlocked(h)
  /\ Len(df[h].cols) > 0
  /\ df[h].length < MaxRows
  /\ LET f == df[h]
         row == RowOf(f.key, Len(f.cols), f.length + 1)
         p == AddFields([cols |-> f.cols, s |-> store], row)
         q == IF last THEN LockColumns(p) ELSE p
     IN /\ df' = [df EXCEPT ![h] = Frame(f.key, f.length + 1, q.cols)]
        /\ store' = q.s
  /\ UNCHANGED <<saved, stale, status>>

(* fromVisitor and fromFile, with a row of w fields for every visit, and   *)
(* the array and scalar builders, with w = 1: build, lock and publish.     *)
FromVisitor(h, k, w, n) ==
  /\ Free(h)
  /\ UnusedKey(k)
  /\ LET p == FoldLeft(AddFields, [cols |-> NewColumns(k, w), s |-> store],
                       [r \in 1 .. n |-> RowOf(k, w, r)])
         q == LockColumns(p)
     IN /\ df' = [df EXCEPT ![h] = Frame(k, n, q.cols)]
        /\ store' = q.s
        /\ saved' = [saved EXCEPT ![k] = Serialized(q.cols)]
  /\ UNCHANGED <<stale, status>>

(* KDStore::get and wait_and_get: every column of the blob is given to     *)
(* add_column, which would have to pad it if their lengths differed.       *)
Load(h, k) ==
  /\ Free(h)
  /\ saved[k] # None
  /\ k \notin stale
  /\ LET cols == saved[k]
         n == IF cols = <<>> THEN 0 ELSE cols[1].size
     IN IF \A c \in 1 .. Len(cols) : cols[c].size = n
        THEN /\ df' = [df EXCEPT ![h] = Frame(k, n, cols)]
             /\ UNCHANGED <<store, saved, stale, status>>
        ELSE Fail("padding")

(* add_column of a new column, built, locked, with n fields.               *)
AddColumn(h, c, n) ==
  /\ Usable(h)
  /\ Len(df[h].cols) < MaxCols
  /\ UnusedColumn(df[h].key, c)
  /\ LET f == df[h]
         new == Lock(AppendAll([v |-> NewVector(<<f.key, c>>), s |-> store],
                               ColumnOf(f.key, Len(f.cols) + 1, n)))
         old == [cols |-> f.cols, s |-> new.s]
     IN IF n < f.length
        THEN IF CanExtend(new.v)
             THEN LET x == PadColumn(new, f.length) IN
                  /\ df' = [df EXCEPT ![h].cols = Append(@, x.v)]
                  /\ store' = x.s
                  /\ UNCHANGED <<saved, stale, status>>
             ELSE Fail("padding")
        ELSE IF n > f.length
        THEN IF \A x \in 1 .. Len(f.cols) : CanExtend(f.cols[x])
             THEN LET p == EachColumn(LAMBDA x, y : PadColumn(x, n), old) IN
                  /\ df' = [df EXCEPT ![h] = Frame(f.key, n, Append(p.cols, new.v))]
                  /\ store' = p.s
                  /\ UNCHANGED <<saved, stale, status>>
             ELSE Fail(IF Locked(h) THEN "padding" ELSE "unlocked")
        ELSE /\ df' = [df EXCEPT ![h].cols = Append(@, new.v)]
             /\ store' = new.s
             /\ UNCHANGED <<saved, stale, status>>

(* A getter of one field; the chunk it is in stays in the cache.           *)
ReadField(h, c, r) ==
  /\ Usable(h)
  /\ Locked(h)
  /\ c <= Len(df[h].cols)
  /\ r < df[h].length
  /\ df' = [df EXCEPT ![h].cols = [x \in 1 .. Len(@) |->
                                     IF x = c THEN Cached(@[x], store, r) ELSE @[x]]]
  /\ UNCHANGED <<store, saved, stale, status>>

(* fill_row; map and local_map are sequences of it.                        *)
ReadRow(h, r) ==
  /\ Usable(h)
  /\ Locked(h)
  /\ r < df[h].length
  /\ df' = [df EXCEPT ![h].cols = CachedAt(@, store, r)]
  /\ UNCHANGED <<store, saved, stale, status>>

(* filter: the result has the key of the source, and columns with the same *)
(* keys.                                                                   *)
Filter(h, g, accepted) ==
  /\ Usable(h)
  /\ Locked(h)
  /\ Free(g)
  /\ accepted \subseteq 0 .. df[h].length - 1
  /\ LET f == df[h]
         p == FilterRows(f.key, [cols |-> f.cols, s |-> store], f.length, accepted)
     IN /\ df' = [df EXCEPT ![h].cols = p.src,
                            ![g] = Frame(f.key, Cardinality(accepted), p.cols)]
        /\ store' = p.s
        /\ stale' = stale \cup {x \in Handle : df[x] # None /\ df[x].key = f.key}
                          \cup (IF saved[f.key] = None THEN {} ELSE {f.key})
  /\ UNCHANGED <<saved, status>>

Next ==
  \E h \in Handle :
    \/ \E k \in Key, w \in 0 .. MaxCols : NewFrame(h, k, w)
    \/ \E last \in BOOLEAN : AddRow(h, last)
    \/ \E k \in Key, w \in Col, n \in RowCounts : FromVisitor(h, k, w, n)
    \/ \E k \in Key : Load(h, k)
    \/ \E c \in Col, n \in RowCounts : AddColumn(h, c, n)
    \/ \E c \in Col, r \in 0 .. MaxRows - 1 : ReadField(h, c, r)
    \/ \E r \in 0 .. MaxRows - 1 : ReadRow(h, r)
    \/ \E g \in Handle, accepted \in SUBSET (0 .. MaxRows - 1) : Filter(h, g, accepted)

Spec == Init /\ [][Next]_vars

-----------------------------------------------------------------------------
Data == (Key \X Col \X (1 .. MaxRows)) \cup {Missing, Default}
Buffer == [idx : 0 .. MaxRows, fields : SeqOf(Data, ChunkSize)]
Vector == [name : (Key \X Col) \cup {None}, size : 0 .. MaxRows, current : Buffer \cup {None},
           keys : Seq([chunk : ChunkName, home : 0 .. NumNodes - 1]), locked : BOOLEAN]

(* None is no name of a column and no field, chunk, column or frame.       *)
ASSUME NoneAssumption ==
  /\ None \notin Key \X Col
  /\ None \notin Data \cup Buffer
  /\ None \notin Seq(Vector)
  /\ None \notin [key : Key, length : 0 .. MaxRows, cols : Seq(Vector)]

(* None and Undefined are no tables.                                       *)
ASSUME TableAssumption ==
  /\ Undefined # None
  /\ None \notin Seq(Seq(Data)) /\ Undefined \notin Seq(Seq(Data))
  /\ None \notin [key : Key, cols : Seq(Seq(Data))]
  /\ Undefined \notin [key : Key, cols : Seq(Seq(Data))]

(* Type correctness; no chunk has more than ChunkSize fields.              *)
TypeOK ==
  /\ store \in [ChunkName -> Buffer \cup {None}]
  /\ saved \in [Key -> Seq(Vector) \cup {None}]
  /\ df \in [Handle -> [key : Key, length : 0 .. MaxRows, cols : Seq(Vector)] \cup {None}]
  /\ stale \subseteq Handle \cup Key
  /\ status \in {"ok", "padding", "unlocked"}

(* The table that a reader of the columns sees: fields of chunks in the    *)
(* store, of the buffer, or of the cache.                                  *)
Contents(cols) ==
  [c \in 1 .. Len(cols) |-> [r \in 1 .. cols[c].size |-> FieldAt(cols[c], store, r - 1)]]

TableOf(h) ==
  IF df[h] = None THEN None
  ELSE IF h \in stale THEN Undefined
  ELSE [key |-> df[h].key, cols |-> Contents(df[h].cols)]

SavedTable(k) ==
  IF saved[k] = None THEN None
  ELSE IF k \in stale THEN Undefined
  ELSE Contents(saved[k])

Promise == INSTANCE Table WITH table <- [h \in Handle |-> TableOf(h)],
                               saved <- [k \in Key |-> SavedTable(k)]

(* What an application reads from a frame is the table it built, loaded or *)
(* filtered: chunks stored early, stored again when padding unlocks a      *)
(* column, cached, or written by a filter while its source is still read,  *)
(* never show (dist_vector.h:121-201, dataframe.h:107-122, 237-248).       *)
ImplementsTable == Promise!TableSpec

(* Every row of a locked frame has all of its fields in stored chunks, and *)
(* one node stores them all: local_map asks column 0 only where a row is,  *)
(* also after columns were padded and chunks stored again                  *)
(* (dataframe.h:144-147, 223-233, dist_vector.h:120-129).                  *)
RowsOnOneNode ==
  \A h \in Handle : Usable(h) /\ Locked(h) =>
    \A r \in 0 .. df[h].length - 1, c \in 1 .. Len(df[h].cols) :
      /\ r \div ChunkSize < Len(df[h].cols[c].keys)
      /\ FieldAt(df[h].cols[c], store, r) # None
      /\ NodeOf(df[h].cols[c], r) = NodeOf(df[h].cols[1], r)

(* A filter makes a new frame: no step takes a row from a frame that is    *)
(* held, or changes one ("Builds and returns a new DataFrame containing    *)
(* rows which the given visitor accepted.", report/doc.md:195-196).        *)
FramesKept ==
  [][\A h \in Handle : df[h] # None /\ Locked(h) =>
       \A c \in 1 .. Len(df[h].cols) :
         IsPrefix(Contents(df[h].cols)[c], Contents(df[h].cols)'[c])]_vars

(* add_column of a column that is shorter or longer than the frame pads    *)
(* what is shorter (report/doc.md:187-189).                                *)
PaddingSucceeds == status # "padding"
=============================================================================
