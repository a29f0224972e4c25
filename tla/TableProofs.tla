----------------------------- MODULE TableProofs -----------------------------
(***************************************************************************)
(* Proofs that the frames of DataFrame are tables: every frame in use has  *)
(* whole columns, no other frame writes to their chunks (FramesInv), and   *)
(* what is read from it is what the table of Table has.                    *)
(***************************************************************************)
EXTENDS DataFrameProofs

(* The frames of a state.                                                  *)

FrameSet == [key : Key, length : 0 .. MaxRows, cols : Seq(Vector)]

Typed(s, sv, d, st) ==
  /\ s \in Store
  /\ sv \in [Key -> Seq(Vector) \cup {None}]
  /\ d \in [Handle -> FrameSet \cup {None}]
  /\ st \subseteq Handle \cup Key

(* Who holds a frame that may be used: applications and, for those that    *)
(* were published, their keys.                                             *)
Holders(d, sv, st) ==
  {h \in Handle : d[h] # None /\ h \notin st} \cup {k \in Key : sv[k] # None /\ k \notin st}

Frames(d, sv) ==
  [x \in Handle \cup Key |-> IF x \in Handle THEN d[x] ELSE Frame(x, 0, sv[x])]

LengthOf(f) == IF f.cols = <<>> THEN 0 ELSE f.cols[1].size

Even(f) == \A c \in 1 .. Len(f.cols) : f.cols[c].size = f.cols[1].size

Inv(s, sv, d, st) ==
  /\ Good(Holders(d, sv, st), Frames(d, sv), s)
  /\ \A x \in Holders(d, sv, st) : Even(Frames(d, sv)[x])
  /\ \A h \in Handle : d[h] # None /\ h \notin st => d[h].length = LengthOf(d[h])
  /\ \A k \in Key : sv[k] # None /\ k \notin st => Unnamed(Frame(k, 0, sv[k]))
  /\ \A h \in Handle : d[h] = None => h \notin st
  /\ \A k \in Key : sv[k] = None => k \notin st

(* The tables that readers see.                                            *)
Shown(k, cols) == [key |-> k, cols |-> cols]

TableFor(s, d, st, h) ==
  IF d[h] = None THEN None ELSE IF h \in st THEN Undefined ELSE Shown(d[h].key, TableIn(d[h], s))

SavedFor(s, sv, st, k) ==
  IF sv[k] = None THEN None ELSE IF k \in st THEN Undefined ELSE TableIn(Frame(k, 0, sv[k]), s)

Tables(s, d, st) == [h \in Handle |-> TableFor(s, d, st, h)]
Saves(s, sv, st) == [k \in Key |-> SavedFor(s, sv, st, k)]

With(d, h, f) == [d EXCEPT ![h] = f]

LEMMA NoFrame ==
  /\ \A f \in FrameSet : f # None /\ f = Frame(f.key, f.length, f.cols) /\ f.key \in Key
                         /\ f.length \in 0 .. MaxRows /\ f.cols \in Seq(Vector)
  /\ \A k \in Key, n \in 0 .. MaxRows, cols \in Seq(Vector) : Frame(k, n, cols) \in FrameSet
  BY NoneAssumption DEF FrameSet, Frame

LEMMA FramesOf ==
  ASSUME NEW d, NEW sv
  PROVE  /\ \A h \in Handle : Frames(d, sv)[h] = d[h] /\ h \notin Key
         /\ \A k \in Key : Frames(d, sv)[k] = Frame(k, 0, sv[k]) /\ k \notin Handle
  BY HandleAssumption DEF Frames

LEMMA HolderFrame ==
  ASSUME NEW s, NEW sv, NEW d, NEW st, Typed(s, sv, d, st), Inv(s, sv, d, st),
         NEW h \in Handle, d[h] # None, h \notin st
  PROVE  /\ h \in Holders(d, sv, st) /\ d[h] \in FrameSet /\ Frames(d, sv)[h] = d[h]
         /\ Whole(d[h], s) /\ Apart(d[h]) /\ Even(d[h]) /\ d[h].length = LengthOf(d[h])
         /\ d[h].key \in Key /\ d[h].length \in 0 .. MaxRows /\ d[h].cols \in Seq(Vector)
         /\ d[h] = Frame(d[h].key, d[h].length, d[h].cols)
<1>1. h \in Holders(d, sv, st) /\ d[h] \in FrameSet /\ Frames(d, sv)[h] = d[h]
  BY FramesOf DEF Holders, Typed
<1>2. Whole(d[h], s) /\ Apart(d[h]) /\ Even(d[h]) /\ d[h].length = LengthOf(d[h])
  BY <1>1 DEF Inv, Good
<1> QED  BY <1>1, <1>2, NoFrame

LEMMA WithParts ==
  ASSUME NEW D, NEW d, d = [x \in D |-> d[x]], NEW h \in D, NEW f
  PROVE  With(d, h, f)[h] = f /\ \A x \in D : x # h => With(d, h, f)[x] = d[x]
  BY DEF With

LEMMA WithFrame ==
  ASSUME NEW s, NEW sv, NEW d, NEW st, NEW h \in Handle, NEW f \in FrameSet, Typed(s, sv, d, st)
  PROVE  /\ With(d, h, f)[h] = f /\ \A x \in Handle : x # h => With(d, h, f)[x] = d[x]
         /\ Typed(s, sv, With(d, h, f), st)
         /\ Frames(With(d, h, f), sv)[h] = f
         /\ \A L : L \subseteq Handle \cup Key => Besides(h, L, Frames(With(d, h, f), sv), Frames(d, sv))
         /\ h \notin st => Holders(With(d, h, f), sv, st) = Holders(d, sv, st) \cup {h}
<1>1. PICK e : e = With(d, h, f)
  OBVIOUS
<1>2. /\ e[h] = f /\ \A x \in Handle : x # h => e[x] = d[x]
      /\ e \in [Handle -> FrameSet \cup {None}]
  BY <1>1 DEF With, Typed
<1>3. Typed(s, sv, e, st)
  BY <1>2 DEF Typed
<1>4. Frames(e, sv)[h] = f
  BY <1>2, FramesOf
<1>5. \A x \in Handle \cup Key : x # h => Frames(e, sv)[x] = Frames(d, sv)[x]
  BY <1>2, FramesOf
<1>6. ASSUME h \notin st PROVE Holders(e, sv, st) = Holders(d, sv, st) \cup {h}
  <2>1. f # None
    BY NoFrame
  <2> QED  BY <1>2, <1>6, <2>1 DEF Holders
<1> QED  BY <1>1, <1>2, <1>3, <1>4, <1>5, <1>6 DEF Besides

LEMMA HoldersAre ==
  ASSUME NEW d, NEW sv, NEW st
  PROVE  Holders(d, sv, st) \subseteq Handle \cup Key
  BY DEF Holders

(* The tables after the frame of h became f.                               *)
LEMMA TablesWith ==
  ASSUME NEW s, NEW t, NEW sv, NEW d, NEW st, NEW h \in Handle, NEW f \in FrameSet,
         Typed(s, sv, d, st), h \notin st,
         TablesKept(h, Holders(d, sv, st), Frames(d, sv), s, t)
  PROVE  /\ Tables(t, With(d, h, f), st) = With(Tables(s, d, st), h, Shown(f.key, TableIn(f, t)))
         /\ Saves(t, sv, st) = Saves(s, sv, st)
<1>1. PICK e : e = With(d, h, f)
  OBVIOUS
<1>2. e[h] = f /\ \A x \in Handle : x # h => e[x] = d[x]
  BY <1>1, WithFrame
<1>3. TableFor(t, e, st, h) = Shown(f.key, TableIn(f, t))
  BY <1>2, NoFrame DEF TableFor
<1>4. ASSUME NEW x \in Handle, x # h PROVE TableFor(t, e, st, x) = TableFor(s, d, st, x)
  <2>1. e[x] = d[x]
    BY <1>2, <1>4
  <2>2. CASE d[x] # None /\ x \notin st
    <3>1. x \in Holders(d, sv, st) /\ Frames(d, sv)[x] = d[x]
      BY <2>2, FramesOf DEF Holders
    <3>2. TableIn(d[x], t) = TableIn(d[x], s)
      BY <1>4, <3>1 DEF TablesKept
    <3> QED  BY <2>1, <3>2 DEF TableFor
  <2>3. CASE ~(d[x] # None /\ x \notin st)
    BY <2>1, <2>3 DEF TableFor
  <2> QED  BY <2>2, <2>3
<1>5. Tables(t, e, st) = With(Tables(s, d, st), h, Shown(f.key, TableIn(f, t)))
  <2>1. PICK z : z = Shown(f.key, TableIn(f, t))
    OBVIOUS
  <2>2. \A x \in Handle : TableFor(t, e, st, x) = IF x = h THEN z ELSE TableFor(s, d, st, x)
    BY <1>3, <1>4, <2>1
  <2> QED  BY <2>1, <2>2 DEF Tables, With
<1>6. ASSUME NEW k \in Key PROVE SavedFor(t, sv, st, k) = SavedFor(s, sv, st, k)
  <2>1. CASE sv[k] # None /\ k \notin st
    <3>1. k \in Holders(d, sv, st) /\ Frames(d, sv)[k] = Frame(k, 0, sv[k]) /\ k # h
      BY <2>1, FramesOf DEF Holders
    <3>2. TableIn(Frame(k, 0, sv[k]), t) = TableIn(Frame(k, 0, sv[k]), s)
      BY <3>1 DEF TablesKept
    <3> QED  BY <3>2 DEF SavedFor
  <2>2. CASE ~(sv[k] # None /\ k \notin st)
    BY <2>2 DEF SavedFor
  <2> QED  BY <2>1, <2>2
<1> QED  BY <1>1, <1>5, <1>6 DEF Saves

(* The frame of h became f, and the others are as good as before.          *)
LEMMA FrameReplaced ==
  ASSUME NEW s, NEW t \in Store, NEW sv, NEW d, NEW st, NEW h \in Handle, NEW f \in FrameSet,
         Typed(s, sv, d, st), Inv(s, sv, d, st), h \notin st,
         Good(Holders(d, sv, st) \cup {h}, Frames(With(d, h, f), sv), t),
         Even(f), f.length = LengthOf(f)
  PROVE  Typed(t, sv, With(d, h, f), st) /\ Inv(t, sv, With(d, h, f), st)
<1>1. PICK e : e = With(d, h, f)
  OBVIOUS
<1>2. /\ e[h] = f /\ \A x \in Handle : x # h => e[x] = d[x]
      /\ Typed(s, sv, e, st) /\ Frames(e, sv)[h] = f
      /\ \A L : L \subseteq Handle \cup Key => Besides(h, L, Frames(e, sv), Frames(d, sv))
      /\ Holders(e, sv, st) = Holders(d, sv, st) \cup {h}
  BY <1>1, WithFrame
<1>3. Typed(t, sv, e, st)
  BY <1>2 DEF Typed
<1>4. Besides(h, Holders(d, sv, st), Frames(e, sv), Frames(d, sv))
  BY <1>2, HoldersAre
<1>5. \A x \in Holders(e, sv, st) : Even(Frames(e, sv)[x])
  BY <1>2, <1>4 DEF Inv, Besides
<1>6. \A x \in Handle : e[x] # None /\ x \notin st => e[x].length = LengthOf(e[x])
  BY <1>2 DEF Inv
<1>7. \A x \in Handle : e[x] = None => x \notin st
  BY <1>2 DEF Inv
<1>8. Good(Holders(e, sv, st), Frames(e, sv), t)
  BY <1>1, <1>2
<1>9. \A k \in Key : /\ sv[k] # None /\ k \notin st => Unnamed(Frame(k, 0, sv[k]))
                     /\ sv[k] = None => k \notin st
  BY DEF Inv
<1> QED  BY <1>1, <1>3, <1>5, <1>6, <1>7, <1>8, <1>9 DEF Inv

LEMMA HolderContinued ==
  ASSUME NEW s, NEW t \in Store, NEW sv, NEW d, NEW st, NEW h \in Handle, NEW f \in FrameSet,
         Typed(s, sv, d, st), Inv(s, sv, d, st), d[h] # None, h \notin st,
         Writes(d[h], s, t) \/ t = s, Whole(f, t), Continues(f, d[h]), Even(f), f.length = LengthOf(f)
  PROVE  /\ Typed(t, sv, With(d, h, f), st) /\ Inv(t, sv, With(d, h, f), st)
         /\ TablesKept(h, Holders(d, sv, st), Frames(d, sv), s, t)
<1>1. PICK L, F, G : /\ L = Holders(d, sv, st) /\ F = Frames(d, sv)
                     /\ G = Frames(With(d, h, f), sv)
  OBVIOUS
<1>2. h \in L /\ F[h] = d[h] /\ L \cup {h} = L
  BY <1>1, HolderFrame
<1>3. G[h] = f /\ Besides(h, L, G, F)
  BY <1>1, WithFrame, HoldersAre
<1>4. Good(L, F, s)
  BY <1>1 DEF Inv
<1>5. Good(L, G, t) /\ TablesKept(h, L, F, s, t)
  <2>1. Writes(F[h], s, t) \/ t = s
    BY <1>2
  <2>2. Whole(G[h], t) /\ Continues(G[h], F[h])
    BY <1>2, <1>3
  <2> QED  BY <1>2, <1>3, <1>4, <2>1, <2>2, FrameContinued
<1>6. Good(L \cup {h}, G, t)
  BY <1>2, <1>5
<1>7. Typed(t, sv, With(d, h, f), st) /\ Inv(t, sv, With(d, h, f), st)
  BY <1>1, <1>6, FrameReplaced
<1> QED  BY <1>1, <1>5, <1>7

(* The fields of columns of a table that was built.                        *)
LEMMA SizesOf ==
  ASSUME NEW g, NEW t, NEW col, NEW n, Whole(g, t), n = Len(g.cols), TableIn(g, t) = ColumnsOf(col, n)
  PROVE  \A c \in 1 .. n : g.cols[c].size = Len(col[c])
<1> SUFFICES ASSUME NEW c \in 1 .. n PROVE g.cols[c].size = Len(col[c])
  OBVIOUS
<1>1. TableIn(g, t)[c] = ContentOf(g.cols[c], t)
  BY DEF TableIn
<1>2. ColumnsOf(col, n)[c] = col[c]
  BY DEF ColumnsOf
<1>3. Len(ContentOf(g.cols[c], t)) = g.cols[c].size
  BY SoundParts DEF Whole
<1> QED  BY <1>1, <1>2, <1>3

LEMMA EvenSizes ==
  ASSUME NEW g, NEW m, HasColumns(g), \A c \in 1 .. Len(g.cols) : g.cols[c].size = m
  PROVE  Even(g) /\ (g.cols # <<>> => LengthOf(g) = m)
<1>1. g.cols # <<>> => 1 \in 1 .. Len(g.cols)
  BY DEF HasColumns
<1>2. \A c \in 1 .. Len(g.cols) : g.cols # <<>>
  BY DEF HasColumns
<1> QED  BY <1>1, <1>2 DEF Even, LengthOf

LEMMA EvenParts ==
  ASSUME NEW f, HasColumns(f), Even(f)
  PROVE  \A c \in 1 .. Len(f.cols) : f.cols[c].size = LengthOf(f)
<1>1. \A c \in 1 .. Len(f.cols) : f.cols # <<>>
  BY DEF HasColumns
<1> QED  BY <1>1 DEF Even, LengthOf

AllOpen(f) == \A c \in 1 .. Len(f.cols) : ~f.cols[c].locked

LEMMA OpenFrame ==
  ASSUME NEW f, NEW s \in Store, Whole(f, s), AllOpen(f), Apart(f)
  PROVE  /\ AllNamed(f) /\ Bases(NamesOf(f), Len(f.cols)) /\ HaveKeys(f.cols, Len(f.cols))
         /\ Built(f.cols, s, f.cols, s, Len(f.cols), NamesOf(f), TableIn(f, s))
<1>1. ASSUME NEW c \in 1 .. Len(f.cols)
      PROVE  /\ f.cols[c].name # None
             /\ Longer(f.cols[c], s, f.cols[c], s, f.cols[c].name, ContentOf(f.cols[c], s))
  <2>1. PICK v, b : v = f.cols[c] /\ b = Base(f, c)
    OBVIOUS
  <2>2. Sound(v, s, b) /\ ~v.locked
    BY <2>1 DEF Whole, AllOpen
  <2>3. Open(v, s, b, ContentOf(v, s)) /\ v.name = b /\ b \in Name /\ Len(v.keys) \in Nat
    BY <2>2, SoundParts
  <2>4. b # None
    BY <2>3, NoneAssumption DEF Name
  <2>5. Grown(s, s, b, Len(v.keys)) /\ Unwritten(s, s, b, Len(v.keys))
    BY GrownMore DEF Unwritten
  <2>6. Longer(v, s, v, s, b, ContentOf(v, s))
    BY <2>3, <2>5 DEF Longer
  <2> QED  BY <2>1, <2>3, <2>4, <2>6
<1>2. AllNamed(f)
  BY <1>1 DEF AllNamed
<1>3. Elsewhere(s, s, NamesOf(f), Len(f.cols))
  BY GrownMore DEF Elsewhere
<1>4. \A c \in 1 .. Len(f.cols) : /\ NamesOf(f)[c] = f.cols[c].name
                                  /\ TableIn(f, s)[c] = ContentOf(f.cols[c], s)
  BY DEF NamesOf, TableIn
<1>5. Built(f.cols, s, f.cols, s, Len(f.cols), NamesOf(f), TableIn(f, s))
  BY <1>1, <1>3, <1>4 DEF Built, Whole
<1> QED  BY <1>2, <1>5, NamesApart

(* add_row.                                                                *)
RowAddedTo(f, s, last) ==
  LET p == AddFields([cols |-> f.cols, s |-> s], RowOf(f.key, Len(f.cols), f.length + 1))
  IN IF last THEN LockColumns(p) ELSE p

NextRow(f, s) == WithRow(TableIn(f, s), RowOf(f.key, Len(f.cols), f.length + 1), Len(f.cols))

LEMMA FrameBuilt ==
  ASSUME NEW f, NEW s, Whole(f, s), AllNamed(f), NEW us, NEW t, NEW col, NEW g,
         Built(us, t, f.cols, s, Len(f.cols), NamesOf(f), col), g.key = f.key, g.cols = us
  PROVE  /\ Whole(g, t) /\ Continues(g, f) /\ Writes(f, s, t)
         /\ TableIn(g, t) = ColumnsOf(col, Len(f.cols))
<1>1. BuiltOn(f, us, t, s, col)
  BY DEF BuiltOn
<1> QED  BY <1>1, ColumnsBuilt

LEMMA RowBuilt ==
  ASSUME NEW f \in FrameSet, NEW s \in Store, NEW last, Whole(f, s), AllOpen(f), Apart(f),
         Even(f), f.length = LengthOf(f), f.length < MaxRows
  PROVE  \E us, t : /\ RowAddedTo(f, s, last) = Cols(us, t) /\ t \in Store
                    /\ \/ Built(us, t, f.cols, s, Len(f.cols), NamesOf(f), NextRow(f, s))
                       \/ Sealed(us, t, f.cols, s, Len(f.cols), NamesOf(f), NextRow(f, s))
<1>1. PICK n, vs, base, col, row : /\ n = Len(f.cols) /\ vs = f.cols /\ base = NamesOf(f)
                                   /\ col = TableIn(f, s)
                                   /\ row = RowOf(f.key, Len(f.cols), f.length + 1)
  OBVIOUS
<1>2. Bases(base, n) /\ HaveKeys(vs, n) /\ Built(vs, s, vs, s, n, base, col)
  BY <1>1, OpenFrame
<1>3. n \in Nat /\ f.key \in Key /\ f.length \in Nat /\ n <= MaxCols /\ HasColumns(f)
  BY <1>1, NoFrame, MaxRowsAssumption DEF Whole, HasColumns
<1>4. Fits(col, row, n)
  <2> SUFFICES ASSUME NEW c \in 1 .. n PROVE row[c] \in Data /\ Len(col[c]) < MaxRows
    BY DEF Fits
  <2>1. row[c] = Field(f.key, c, f.length + 1)
    BY <1>1 DEF RowOf
  <2>2. c \in Col
    BY <1>3, MaxColsAssumption DEF Col
  <2>3. row[c] \in Data
    BY <1>3, <2>1, <2>2, FieldColumns
  <2>4. col[c] = ContentOf(f.cols[c], s)
    BY <1>1 DEF TableIn
  <2>5. Len(col[c]) = f.cols[c].size
    BY <1>1, <2>4, SoundParts DEF Whole
  <2>6. f.cols[c].size = f.length
    BY <1>1, <1>3, EvenParts
  <2> QED  BY <2>3, <2>5, <2>6
<1>5. PICK us, t : /\ AddFields(Cols(vs, s), row) = Cols(us, t)
                   /\ Built(us, t, vs, s, n, base, WithRow(col, row, n))
  BY <1>2, <1>3, <1>4, RowAdded
<1>6. NextRow(f, s) = WithRow(col, row, n)
  BY <1>1 DEF NextRow
<1>7. AddFields([cols |-> f.cols, s |-> s], RowOf(f.key, Len(f.cols), f.length + 1)) = Cols(us, t)
  BY <1>1, <1>5 DEF Cols
<1>8. CASE last
  <2>1. PICK ws, x : /\ LockColumns(Cols(us, t)) = Cols(ws, x)
                     /\ Sealed(ws, x, vs, s, n, base, WithRow(col, row, n))
    BY <1>2, <1>3, <1>5, RowsLocked
  <2>2. RowAddedTo(f, s, last) = Cols(ws, x)
    BY <1>7, <1>8, <2>1 DEF RowAddedTo
  <2>3. x \in Store
    BY <2>1 DEF Sealed
  <2> QED  BY <1>1, <1>6, <2>1, <2>2, <2>3
<1>9. CASE ~last
  <2>1. RowAddedTo(f, s, last) = Cols(us, t)
    BY <1>7, <1>9 DEF RowAddedTo
  <2>2. t \in Store
    BY <1>5 DEF Built
  <2> QED  BY <1>1, <1>5, <1>6, <2>1, <2>2
<1> QED  BY <1>8, <1>9

LEMMA RowKeepsFrames ==
  ASSUME NEW s, NEW sv, NEW d, NEW st, NEW h \in Handle, NEW last,
         Typed(s, sv, d, st), Inv(s, sv, d, st), d[h] # None, h \notin st,
         AllOpen(d[h]), Len(d[h].cols) > 0, d[h].length < MaxRows
  PROVE  \E us, t, f :
           /\ RowAddedTo(d[h], s, last) = Cols(us, t)
           /\ f = Frame(d[h].key, d[h].length + 1, us) /\ f \in FrameSet
           /\ Typed(t, sv, With(d, h, f), st) /\ Inv(t, sv, With(d, h, f), st)
           /\ Tables(t, With(d, h, f), st) =
                With(Tables(s, d, st), h, Shown(d[h].key, NextRow(d[h], s)))
           /\ Saves(t, sv, st) = Saves(s, sv, st)
<1>1. PICK e, n, col : e = d[h] /\ n = Len(e.cols) /\ col = NextRow(e, s)
  OBVIOUS
<1>2. /\ e \in FrameSet /\ Whole(e, s) /\ Apart(e) /\ Even(e) /\ e.length = LengthOf(e)
      /\ e.key \in Key /\ e.length \in 0 .. MaxRows /\ s \in Store
  BY <1>1, HolderFrame DEF Typed
<1>3. AllOpen(e) /\ n > 0 /\ e.length < MaxRows /\ AllNamed(e)
  BY <1>1, <1>2, OpenFrame
<1>4. PICK us, t : /\ RowAddedTo(e, s, last) = Cols(us, t) /\ t \in Store
                   /\ \/ Built(us, t, e.cols, s, n, NamesOf(e), col)
                      \/ Sealed(us, t, e.cols, s, n, NamesOf(e), col)
  BY <1>1, <1>2, <1>3, RowBuilt
<1>5. PICK f : f = Frame(e.key, e.length + 1, us)
  OBVIOUS
<1>6. f.key = e.key /\ f.length = e.length + 1 /\ f.cols = us
  BY <1>5, FrameFields
<1>7. Whole(f, t) /\ Continues(f, e) /\ Writes(e, s, t) /\ TableIn(f, t) = ColumnsOf(col, n)
  <2>1. BuiltOn(e, us, t, s, col)
    BY <1>1, <1>4 DEF BuiltOn
  <2>2. Whole(e, s) /\ AllNamed(e) /\ f.key = e.key /\ f.cols = us
    BY <1>2, <1>3, <1>6
  <2>3. /\ Whole(f, t) /\ Continues(f, e) /\ Writes(e, s, t)
        /\ TableIn(f, t) = ColumnsOf(col, Len(e.cols))
    BY ONLY <2>1, <2>2, ColumnsBuilt
  <2> QED  BY <1>1, <2>3
<1>8. f \in FrameSet /\ HasColumns(f)
  <2>1. us \in Seq(Vector) /\ e.length + 1 \in 0 .. MaxRows
    BY <1>2, <1>3, <1>6, <1>7, MaxRowsAssumption DEF Whole
  <2> QED  BY <1>2, <1>5, <1>6, <2>1, NoFrame DEF HasColumns
<1>9. Len(f.cols) = n
  BY <1>1, <1>7 DEF Continues
<1>10. \A c \in 1 .. n : f.cols[c].size = f.length
  <2> SUFFICES ASSUME NEW c \in 1 .. n PROVE f.cols[c].size = e.length + 1
    BY <1>6
  <2>1. f.cols[c].size = Len(col[c])
    BY <1>7, <1>9, SizesOf
  <2>2. col[c] = Append(ContentOf(e.cols[c], s), Field(e.key, c, e.length + 1))
    BY <1>1 DEF NextRow, WithRow, TableIn, RowOf
  <2>3. ContentOf(e.cols[c], s) \in Seq(Data) /\ Len(ContentOf(e.cols[c], s)) = e.cols[c].size
    BY <1>1, <1>2, SoundParts DEF Whole
  <2>4. e.cols[c].size = e.length
    BY <1>1, <1>2, EvenParts DEF HasColumns, Whole
  <2> QED  BY <2>1, <2>2, <2>3, <2>4
<1>11. Even(f) /\ f.length = LengthOf(f)
  <2>1. f.cols # <<>>
    BY <1>3, <1>9
  <2> QED  BY <1>8, <1>9, <1>10, <2>1, EvenSizes
<1>12. /\ Typed(t, sv, With(d, h, f), st) /\ Inv(t, sv, With(d, h, f), st)
       /\ TablesKept(h, Holders(d, sv, st), Frames(d, sv), s, t)
  BY <1>1, <1>4, <1>7, <1>8, <1>11, HolderContinued
<1>13. TableIn(f, t) = col
  BY <1>1, <1>7 DEF ColumnsOf, NextRow, WithRow
<1>14. /\ Tables(t, With(d, h, f), st) = With(Tables(s, d, st), h, Shown(e.key, col))
       /\ Saves(t, sv, st) = Saves(s, sv, st)
  BY <1>6, <1>8, <1>12, <1>13, TablesWith
<1> QED  BY <1>1, <1>4, <1>5, <1>8, <1>12, <1>14

(* A getter, and fill_row.                                                 *)
LEMMA ReadKeepsFrames ==
  ASSUME NEW s, NEW sv, NEW d, NEW st, NEW h \in Handle, NEW cols, NEW r,
         Typed(s, sv, d, st), Inv(s, sv, d, st), d[h] # None, h \notin st, AllLocked(d[h]),
         ReadFrom(Frame(d[h].key, d[h].length, cols), d[h], s, r)
  PROVE  LET f == Frame(d[h].key, d[h].length, cols)
         IN /\ f \in FrameSet
            /\ Typed(s, sv, With(d, h, f), st) /\ Inv(s, sv, With(d, h, f), st)
            /\ Tables(s, With(d, h, f), st) = Tables(s, d, st)
<1>1. PICK e, f : e = d[h] /\ f = Frame(d[h].key, d[h].length, cols)
  OBVIOUS
<1>2. /\ e \in FrameSet /\ Whole(e, s) /\ Apart(e) /\ Even(e) /\ e.length = LengthOf(e)
      /\ e.key \in Key /\ e.length \in 0 .. MaxRows /\ s \in Store
  BY <1>1, HolderFrame DEF Typed
<1>3. f.key = e.key /\ f.length = e.length /\ f.cols = cols
  BY <1>1, FrameFields
<1>4. AllLocked(e) /\ ReadFrom(f, e, s, r)
  BY <1>1
<1>5. /\ Whole(f, s) /\ Continues(f, e) /\ TableIn(f, s) = TableIn(e, s)
      /\ SizesKept(f, e) /\ Len(f.cols) = Len(e.cols)
  BY ONLY <1>2, <1>4, FrameRead
<1>6. f \in FrameSet
  BY <1>1, <1>2, <1>3, <1>5, NoFrame DEF Whole
<1>7. HasColumns(e) /\ HasColumns(f)
  BY <1>2, <1>5 DEF Whole, HasColumns
<1>8. Even(f) /\ f.length = LengthOf(f)
  <2>1. \A c \in 1 .. Len(f.cols) : f.cols[c].size = e.length
    BY <1>2, <1>5, <1>7, EvenParts DEF SizesKept
  <2>2. Even(f) /\ (f.cols # <<>> => LengthOf(f) = e.length)
    BY <1>7, <2>1, EvenSizes
  <2>3. f.cols = <<>> => e.cols = <<>>
    BY <1>5, <1>7 DEF HasColumns
  <2> QED  BY <1>2, <1>3, <2>2, <2>3 DEF LengthOf
<1>9. /\ Typed(s, sv, With(d, h, f), st) /\ Inv(s, sv, With(d, h, f), st)
      /\ TablesKept(h, Holders(d, sv, st), Frames(d, sv), s, s)
  BY <1>1, <1>2, <1>5, <1>6, <1>8, HolderContinued
<1>10. Tables(s, With(d, h, f), st) = With(Tables(s, d, st), h, Shown(e.key, TableIn(e, s)))
  BY <1>3, <1>5, <1>6, <1>9, TablesWith
<1>11. Tables(s, d, st)[h] = Shown(e.key, TableIn(e, s))
  BY <1>1 DEF Tables, TableFor
<1>12. With(Tables(s, d, st), h, Tables(s, d, st)[h]) = Tables(s, d, st)
  BY DEF With, Tables
<1> QED  BY <1>1, <1>6, <1>9, <1>10, <1>11, <1>12

OneCached(cols, c, s, r) ==
  [x \in 1 .. Len(cols) |-> IF x = c THEN Cached(cols[x], s, r) ELSE cols[x]]

LEMMA FieldRead ==
  ASSUME NEW f \in FrameSet, NEW s, HasColumns(f), Even(f), f.length = LengthOf(f),
         NEW c, NEW r \in Nat, r < f.length,
         NEW v, v = OneCached(f.cols, c, s, r)
  PROVE  /\ ReadFrom(Frame(f.key, f.length, v), f, s, r)
         /\ ReadFrom(Frame(f.key, f.length, CachedAt(f.cols, s, r)), f, s, r)
<1>1. \A x \in 1 .. Len(f.cols) : r \in 0 .. f.cols[x].size - 1
  <2> SUFFICES ASSUME NEW x \in 1 .. Len(f.cols) PROVE r \in 0 .. f.cols[x].size - 1
    OBVIOUS
  <2>1. f.cols[x].size = f.length
    BY EvenParts
  <2>2. f.length \in Nat
    BY NoFrame, MaxRowsAssumption
  <2> QED  BY <2>1, <2>2
<1>3. PICK w : w = CachedAt(f.cols, s, r)
  OBVIOUS
<1>4. ReadFrom(Frame(f.key, f.length, v), f, s, r)
  <2>1. PICK g : g = Frame(f.key, f.length, v)
    OBVIOUS
  <2>2. g.key = f.key /\ g.cols = v
    BY <2>1, FrameFields
  <2> QED  BY <1>1, <2>1, <2>2 DEF ReadFrom, OneCached
<1>5. ReadFrom(Frame(f.key, f.length, w), f, s, r)
  <2>1. PICK g : g = Frame(f.key, f.length, w)
    OBVIOUS
  <2>2. g.key = f.key /\ g.cols = w
    BY <2>1, FrameFields
  <2>3. w = [x \in 1 .. Len(f.cols) |-> Cached(f.cols[x], s, r)]
    BY <1>3 DEF CachedAt
  <2> QED  BY <1>1, <2>1, <2>2, <2>3 DEF ReadFrom
<1> QED  BY <1>3, <1>4, <1>5

LEMMA FramesWith ==
  ASSUME NEW d \in [Handle -> FrameSet \cup {None}], NEW sv, NEW h \in Handle, NEW f,
         NEW L, L \subseteq Handle \cup Key
  PROVE  /\ Frames(With(d, h, f), sv)[h] = f
         /\ Besides(h, L, Frames(With(d, h, f), sv), Frames(d, sv))
<1>1. PICK e : e = With(d, h, f)
  OBVIOUS
<1>2. e[h] = f /\ \A x \in Handle : x # h => e[x] = d[x]
  BY <1>1 DEF With
<1>3. Frames(e, sv)[h] = f
  BY <1>2, FramesOf
<1>4. \A x \in Handle \cup Key : x # h => Frames(e, sv)[x] = Frames(d, sv)[x]
  BY <1>2, FramesOf
<1> QED  BY <1>1, <1>3, <1>4 DEF Besides

(* No frame that may be used has the key k.                                *)
KeyFree(d, sv, st, k) ==
  /\ \A x \in Handle : d[x] # None /\ x \notin st => d[x].key # k
  /\ sv[k] = None \/ k \in st

(* h has no frame, and no frame that may be used has the key k.            *)
Starts(s, sv, d, st, h, k) ==
  /\ h \in Handle /\ k \in Key /\ Typed(s, sv, d, st) /\ Inv(s, sv, d, st)
  /\ d[h] = None /\ KeyFree(d, sv, st, k)

(* A new frame of h, without rows.                                         *)
LEMMA FrameStartsApart ==
  ASSUME NEW s, NEW sv, NEW d, NEW st, NEW h, NEW k, Starts(s, sv, d, st, h, k),
         NEW w, w \in 0 .. MaxCols, NEW f, f = Frame(k, 0, NewColumns(k, w))
  PROVE  /\ h \notin st /\ f \in FrameSet
         /\ Good(Holders(d, sv, st) \cup {h}, Frames(With(d, h, f), sv), s)
         /\ h \notin Holders(d, sv, st)
         /\ \A x \in Holders(d, sv, st) : Frames(d, sv)[x].key # k
<1> /\ h \in Handle /\ k \in Key /\ w \in 0 .. MaxCols /\ Typed(s, sv, d, st)
    /\ Inv(s, sv, d, st) /\ d[h] = None /\ KeyFree(d, sv, st, k)
  BY DEF Starts
<1>1. PICK L, F, G : /\ L = Holders(d, sv, st)
                     /\ F = Frames(d, sv) /\ G = Frames(With(d, h, f), sv)
  OBVIOUS
<1>2. Whole(f, s) /\ Apart(f) /\ f.key = k /\ f.cols = NewColumns(k, w) /\ s \in Store
  BY FrameOfNewColumns DEF Typed
<1>3. f \in FrameSet
  <2>1. f.cols \in Seq(Vector) /\ 0 \in 0 .. MaxRows
    BY <1>2, MaxRowsAssumption DEF Whole
  <2> QED  BY <1>1, <1>2, <2>1, NoFrame
<1>4. h \notin st /\ h \notin L /\ h \notin Key
  BY <1>1, FramesOf DEF Inv, Holders
<1>5. G[h] = f /\ Besides(h, L, G, F)
  <2>1. L \subseteq Handle \cup Key
    BY <1>1, HoldersAre
  <2>2. /\ Frames(With(d, h, f), sv)[h] = f
        /\ Besides(h, L, Frames(With(d, h, f), sv), Frames(d, sv))
    <3>1. d \in [Handle -> FrameSet \cup {None}]
      BY DEF Typed
    <3> QED  BY <2>1, <3>1, FramesWith
  <2> QED  BY <1>1, <2>2
<1>6. \A x \in L : F[x].key # k
  <2> SUFFICES ASSUME NEW x \in L PROVE F[x].key # k
    OBVIOUS
  <2>1. CASE x \in Handle
    <3>1. d[x] # None /\ x \notin st /\ F[x] = d[x]
      BY <1>1, <2>1, FramesOf DEF Holders
    <3> QED  BY <2>1, <3>1 DEF KeyFree
  <2>2. CASE x \in Key
    <3>1. sv[x] # None /\ x \notin st /\ F[x] = Frame(x, 0, sv[x])
      BY <1>1, <2>2, FramesOf DEF Holders
    <3>2. x # k
      BY <3>1 DEF KeyFree
    <3> QED  BY <3>1, <3>2, FrameFields
  <2> QED  BY <1>1, <2>1, <2>2, HoldersAre
<1>7. Good(L, F, s)
  BY <1>1 DEF Inv
<1>8. \A x \in L : Yields(G[x], G[h]) /\ Yields(G[h], G[x])
  <2> SUFFICES ASSUME NEW x \in L PROVE Yields(F[x], f) /\ Yields(f, F[x])
    BY <1>4, <1>5 DEF Besides
  <2>1. Whole(F[x], s)
    BY <1>7 DEF Good
  <2>2. F[x].key # f.key
    BY <1>2, <1>6
  <2> QED  BY <1>2, <2>1, <2>2, OtherKeys
<1>9. Whole(G[h], s) /\ Apart(G[h])
  BY <1>2, <1>5
<1>10. Good(L \cup {h}, G, s)
  BY <1>4, <1>5, <1>7, <1>8, <1>9, FrameJoined
<1> QED  BY <1>1, <1>3, <1>4, <1>6, <1>10

LEMMA KeptInStore ==
  ASSUME NEW h, NEW L, NEW F, NEW s
  PROVE  TablesKept(h, L, F, s, s)
  BY DEF TablesKept

EmptyColumns(w) == [c \in 1 .. w |-> <<>>]

LEMMA NewKeepsFrames ==
  ASSUME NEW s, NEW sv, NEW d, NEW st, NEW h, NEW k, Starts(s, sv, d, st, h, k),
         NEW w, w \in 0 .. MaxCols, NEW f, f = Frame(k, 0, NewColumns(k, w))
  PROVE  /\ Typed(s, sv, With(d, h, f), st) /\ Inv(s, sv, With(d, h, f), st)
         /\ Tables(s, With(d, h, f), st) = With(Tables(s, d, st), h, Shown(k, EmptyColumns(w)))
<1> /\ h \in Handle /\ k \in Key /\ w \in 0 .. MaxCols /\ Typed(s, sv, d, st)
    /\ Inv(s, sv, d, st) /\ d[h] = None /\ KeyFree(d, sv, st, k)
  BY DEF Starts
<1>1. f = Frame(k, 0, NewColumns(k, w))
  OBVIOUS
<1>2. /\ h \notin st /\ f \in FrameSet /\ s \in Store
      /\ Good(Holders(d, sv, st) \cup {h}, Frames(With(d, h, f), sv), s)
  <2>1. Starts(s, sv, d, st, h, k) /\ w \in 0 .. MaxCols
    OBVIOUS
  <2>2. /\ h \notin st /\ f \in FrameSet
        /\ Good(Holders(d, sv, st) \cup {h}, Frames(With(d, h, f), sv), s)
    BY ONLY <1>1, <2>1, FrameStartsApart
  <2> QED  BY <2>2 DEF Typed
<1>3. /\ Whole(f, s) /\ f.key = k /\ Len(f.cols) = w
      /\ \A c \in 1 .. w : f.cols[c] = NewVector(<<k, c>>)
  BY <1>1, <1>2, FrameOfNewColumns
<1>4. f.length = 0 /\ HasColumns(f)
  BY <1>1, <1>3, FrameFields DEF Whole, HasColumns
<1>5. ASSUME NEW c \in 1 .. w PROVE f.cols[c].size = 0 /\ ContentOf(f.cols[c], s) = <<>>
  <2>1. <<k, c>> \in Name
    BY NamesAreBases DEF Name
  <2>2. PICK b : b = <<k, c>>
    OBVIOUS
  <2>3. NewVector(b).size = 0 /\ Open(NewVector(b), s, b, <<>>)
    BY <2>1, <2>2, NewVectorOpen
  <2>4. ContentOf(NewVector(b), s) = <<>>
    BY <2>3, OpenContent
  <2> QED  BY <1>3, <2>2, <2>3, <2>4
<1>6. Even(f) /\ f.length = LengthOf(f)
  BY <1>3, <1>4, <1>5, EvenSizes DEF LengthOf
<1>7. Typed(s, sv, With(d, h, f), st) /\ Inv(s, sv, With(d, h, f), st)
  BY <1>2, <1>6, FrameReplaced
<1>8. TableIn(f, s) = EmptyColumns(w)
  BY <1>3, <1>5 DEF TableIn, EmptyColumns
<1>9. Tables(s, With(d, h, f), st) = With(Tables(s, d, st), h, Shown(k, EmptyColumns(w)))
  <2>1. TablesKept(h, Holders(d, sv, st), Frames(d, sv), s, s)
    BY KeptInStore
  <2>2. Tables(s, With(d, h, f), st) = With(Tables(s, d, st), h, Shown(f.key, TableIn(f, s)))
    BY <1>2, <2>1, TablesWith
  <2> QED  BY <1>3, <1>8, <2>2
<1> QED  BY <1>1, <1>2, <1>7, <1>9

(* Columns built and locked, for a new frame of h.                         *)
LEMMA SealedFrame ==
  ASSUME NEW s \in Store, NEW k \in Key, NEW w \in 0 .. MaxCols, NEW us, NEW t, NEW col, NEW n,
         Sealed(us, t, NewColumns(k, w), s, w, Names(k, w), col), NEW f, f = Frame(k, n, us),
         NEW e, e = Frame(k, 0, NewColumns(k, w))
  PROVE  /\ Whole(f, t) /\ Continues(f, e) /\ Writes(e, s, t) /\ TableIn(f, t) = ColumnsOf(col, w)
         /\ AllLocked(f) /\ NamesOf(f) = Names(k, w) /\ Len(f.cols) = w /\ t \in Store
         /\ f.key = k /\ f.cols = us /\ f.length = n
<1>1. /\ Whole(e, s) /\ AllNamed(e) /\ NamesOf(e) = Names(k, w) /\ e.key = k
      /\ e.cols = NewColumns(k, w) /\ Len(e.cols) = w
  BY FrameOfNewColumns
<1>2. f.key = k /\ f.cols = us /\ f.length = n
  BY FrameFields
<1>3. /\ Whole(f, t) /\ Continues(f, e) /\ Writes(e, s, t)
      /\ TableIn(f, t) = ColumnsOf(col, Len(e.cols))
  <2>1. Sealed(us, t, e.cols, s, Len(e.cols), NamesOf(e), col)
    BY <1>1
  <2>2. f.key = e.key /\ f.cols = us
    BY <1>1, <1>2
  <2> QED  BY ONLY <1>1, <2>1, <2>2, FrameSealed
<1>4. Len(f.cols) = w
  BY <1>1, <1>3 DEF Continues
<1>5. NamesOf(f) = Names(k, w)
  <2>1. \A c \in 1 .. w : f.cols[c].name = e.cols[c].name
    BY <1>1, <1>3 DEF Continues
  <2>2. NamesOf(f) = NamesOf(e)
    BY <1>1, <1>4, <2>1 DEF NamesOf
  <2> QED  BY <1>1, <2>2
<1>6. AllLocked(f)
  BY <1>2, <1>4 DEF AllLocked, Sealed, Settled, Closed
<1> QED  BY <1>1, <1>2, <1>3, <1>4, <1>5, <1>6 DEF Sealed

(* No frame but that of h has the key k.                                   *)
OthersKey(h, L, F, k) == \A x \in L : x # h => F[x].key # k

AreLong(col, w, n) == \A c \in 1 .. w : Len(col[c]) = n

(* A new frame of w columns of n rows was built, and locked.               *)
NewSealed(f, k, w, n, us, t, s, col) ==
  /\ w \in 0 .. MaxCols /\ n \in 0 .. MaxRows /\ (w = 0 => n = 0)
  /\ f = Frame(k, n, us) /\ AreLong(col, w, n)
  /\ Sealed(us, t, NewColumns(k, w), s, w, Names(k, w), col)

LEMMA SealedKeepsFrames ==
  ASSUME NEW s, NEW sv, NEW d, NEW st, NEW h, NEW k, Starts(s, sv, d, st, h, k),
         NEW w, NEW us, NEW t, NEW col, NEW n, NEW f, NewSealed(f, k, w, n, us, t, s, col)
  PROVE  /\ f \in FrameSet /\ h \notin st /\ t \in Store
         /\ Typed(t, sv, With(d, h, f), st) /\ Inv(t, sv, With(d, h, f), st)
         /\ TablesKept(h, Holders(d, sv, st), Frames(d, sv), s, t)
         /\ OthersKey(h, Holders(d, sv, st), Frames(d, sv), k)
         /\ TableIn(f, t) = ColumnsOf(col, w) /\ f.key = k
<1> h \in Handle /\ k \in Key /\ w \in 0 .. MaxCols /\ n \in 0 .. MaxRows
  BY DEF Starts, NewSealed
<1> /\ Typed(s, sv, d, st) /\ Inv(s, sv, d, st) /\ d[h] = None /\ KeyFree(d, sv, st, k)
  BY DEF Starts
<1> /\ Sealed(us, t, NewColumns(k, w), s, w, Names(k, w), col) /\ f = Frame(k, n, us)
    /\ AreLong(col, w, n) /\ (w = 0 => n = 0)
  BY DEF NewSealed
<1>1. PICK e : e = Frame(k, 0, NewColumns(k, w))
  OBVIOUS
<1>2. /\ Whole(f, t) /\ Continues(f, e) /\ Writes(e, s, t) /\ TableIn(f, t) = ColumnsOf(col, w)
      /\ Len(f.cols) = w /\ t \in Store /\ f.key = k /\ f.cols = us /\ f.length = n
  <2>1. s \in Store
    BY DEF Typed
  <2> QED  BY <1>1, <2>1, SealedFrame
<1>3. PICK L, F, G, H : /\ L = Holders(d, sv, st) /\ F = Frames(d, sv)
                        /\ G = Frames(With(d, h, e), sv) /\ H = Frames(With(d, h, f), sv)
  OBVIOUS
<1>4. /\ h \notin st /\ e \in FrameSet /\ Good(L \cup {h}, G, s) /\ h \notin L
      /\ \A x \in L : F[x].key # k
  <2>1. Starts(s, sv, d, st, h, k) /\ w \in 0 .. MaxCols
    OBVIOUS
  <2>2. /\ h \notin st /\ e \in FrameSet /\ h \notin Holders(d, sv, st)
        /\ Good(Holders(d, sv, st) \cup {h}, Frames(With(d, h, e), sv), s)
        /\ \A x \in Holders(d, sv, st) : Frames(d, sv)[x].key # k
    BY ONLY <1>1, <2>1, FrameStartsApart
  <2> QED  BY <1>3, <2>2
<1>5. f \in FrameSet
  <2>1. us \in Seq(Vector)
    BY <1>2 DEF Whole
  <2> QED  BY <2>1, NoFrame
<1>6. d \in [Handle -> FrameSet \cup {None}] /\ L \subseteq Handle \cup Key
  BY <1>3, HoldersAre DEF Typed
<1>7. G[h] = e /\ Besides(h, L, G, F)
  BY <1>3, <1>6, FramesWith
<1>8. H[h] = f /\ Besides(h, L, H, F)
  BY <1>3, <1>6, FramesWith
<1>9. Besides(h, L \cup {h}, H, G)
  BY <1>7, <1>8 DEF Besides
<1>10. Good(L \cup {h}, H, t) /\ TablesKept(h, L \cup {h}, G, s, t)
  <2>1. h \in L \cup {h} /\ Writes(G[h], s, t) /\ Whole(H[h], t) /\ Continues(H[h], G[h])
    BY <1>2, <1>7, <1>8
  <2>2. Good(L \cup {h}, G, s)
    BY <1>4
  <2> QED  BY ONLY <1>9, <2>1, <2>2, FrameContinued
<1>11. TablesKept(h, L, F, s, t)
  BY <1>7, <1>10 DEF TablesKept, Besides
<1>12. Even(f) /\ f.length = LengthOf(f)
  <2>1. HasColumns(f) /\ w \in Nat
    BY <1>2, MaxColsAssumption DEF Whole, HasColumns
  <2>2. \A c \in 1 .. Len(f.cols) : f.cols[c].size = Len(col[c])
    BY <1>2, SizesOf
  <2>3. \A c \in 1 .. Len(f.cols) : f.cols[c].size = n
    BY <1>2, <2>2 DEF AreLong
  <2>4. Even(f) /\ (f.cols # <<>> => LengthOf(f) = n)
    BY <2>1, <2>3, EvenSizes
  <2>5. f.cols = <<>> => LengthOf(f) = 0 /\ w = 0
    BY <1>2 DEF LengthOf
  <2> QED  BY <1>2, <2>4, <2>5
<1>13. Typed(t, sv, With(d, h, f), st) /\ Inv(t, sv, With(d, h, f), st)
  <2>1. Good(Holders(d, sv, st) \cup {h}, Frames(With(d, h, f), sv), t)
    BY <1>3, <1>10
  <2> QED  BY <1>2, <1>4, <1>5, <1>12, <2>1, FrameReplaced
<1> QED  BY <1>2, <1>3, <1>4, <1>5, <1>11, <1>13 DEF OthersKey

(* The frame f of h is published.                                          *)
LEMMA SavedKeepsFrames ==
  ASSUME NEW s, NEW sv, NEW d, NEW st, NEW h \in Handle, NEW k \in Key, NEW f, f = d[h],
         Typed(s, sv, d, st), Inv(s, sv, d, st), f # None, h \notin st, f.key = k,
         AllLocked(f), NamesOf(f) = Names(k, Len(f.cols)), sv[k] = None,
         OthersKey(h, Holders(d, sv, st), Frames(d, sv), k)
  PROVE  LET sw == With(sv, k, Serialized(f.cols))
         IN /\ Typed(s, sw, d, st) /\ Inv(s, sw, d, st)
            /\ Saves(s, sw, st) = With(Saves(s, sv, st), k, TableIn(f, s))
<1>1. PICK cols, g, sw : /\ cols = Serialized(f.cols) /\ g = Frame(k, 0, cols)
                         /\ sw = With(sv, k, cols)
  OBVIOUS
<1>2. Whole(f, s) /\ Even(f) /\ Apart(f)
  BY HolderFrame
<1>3. g.key = f.key /\ g.cols = Serialized(f.cols)
  BY <1>1, FrameFields
<1>4. /\ Whole(g, s) /\ Unnamed(g) /\ TableIn(g, s) = TableIn(f, s) /\ Yields(f, g)
      /\ SizesKept(g, f) /\ Len(g.cols) = Len(f.cols)
  <2>1. AllLocked(f) /\ NamesOf(f) = Names(f.key, Len(f.cols))
    OBVIOUS
  <2> QED  BY ONLY <1>2, <1>3, <2>1, FrameSaved
<1>5. k \notin st
  BY DEF Inv
<1>6. cols \in Seq(Vector) /\ cols # None /\ g.cols = cols
  BY <1>1, <1>3, <1>4, NoneAssumption DEF Whole
<1>7. sw[k] = cols /\ \A x \in Key : x # k => sw[x] = sv[x]
  BY <1>1 DEF With, Typed
<1>8. Typed(s, sw, d, st)
  <2>1. sw \in [Key -> Seq(Vector) \cup {None}]
    BY <1>1, <1>6 DEF With, Typed
  <2> QED  BY <2>1 DEF Typed
<1>9. PICK L, F, G : /\ L = Holders(d, sv, st) /\ F = Frames(d, sv) /\ G = Frames(d, sw)
  OBVIOUS
<1>10. Holders(d, sw, st) = L \cup {k} /\ k \notin L
  <2>1. k \notin Handle
    BY FramesOf
  <2>2. \A x \in Key : sw[x] # None <=> sv[x] # None \/ x = k
    BY <1>6, <1>7
  <2> QED  BY <1>5, <1>9, <2>1, <2>2 DEF Holders
<1>11. G[k] = g /\ \A x \in Handle \cup Key : x # k => G[x] = F[x]
  <2>1. G[k] = g
    BY <1>1, <1>7, <1>9, FramesOf
  <2>2. \A x \in Handle : G[x] = F[x]
    BY <1>9, FramesOf
  <2>3. \A x \in Key : x # k => G[x] = F[x]
    BY <1>7, <1>9, FramesOf
  <2> QED  BY <2>1, <2>2, <2>3
<1>12. Besides(k, L, G, F) /\ L \subseteq Handle \cup Key
  BY <1>9, <1>11, HoldersAre DEF Besides
<1>13. Good(L, F, s) /\ \A x \in L : Even(F[x])
  BY <1>9 DEF Inv
<1>14. \A x \in L : Yields(G[x], G[k]) /\ Yields(G[k], G[x])
  <2> SUFFICES ASSUME NEW x \in L PROVE Yields(F[x], g)
    BY <1>4, <1>10, <1>11, <1>12, UnnamedYields DEF Besides
  <2>1. CASE x = h
    BY <1>4, <1>9, <2>1, FramesOf
  <2>2. CASE x # h
    <3>1. Whole(F[x], s) /\ F[x].key # g.key
      BY <1>3, <1>9, <1>13, <2>2 DEF Good, OthersKey
    <3> QED  BY <1>4, <3>1, OtherKeys
  <2> QED  BY <2>1, <2>2
<1>15. Good(L \cup {k}, G, s)
  <2>1. Whole(G[k], s) /\ Apart(G[k])
    BY <1>4, <1>11, UnnamedYields
  <2> QED  BY <1>10, <1>12, <1>13, <1>14, <2>1, FrameJoined
<1>16. Even(g)
  <2>1. f.cols \in Seq(Vector)
    BY <1>2 DEF Whole
  <2>2. \A c \in 1 .. Len(g.cols) : g.cols[c].size = f.cols[c].size
    BY <1>4 DEF SizesKept
  <2>3. Len(f.cols) \in Nat
    BY <2>1
  <2>4. \A c \in 1 .. Len(g.cols) : 1 \in 1 .. Len(g.cols)
    BY <1>4, <2>3
  <2> QED  BY <1>2, <1>4, <2>2, <2>4 DEF Even
<1>17. Inv(s, sw, d, st)
  <2>1. \A x \in Holders(d, sw, st) : Even(G[x])
    BY <1>10, <1>11, <1>12, <1>13, <1>16 DEF Besides
  <2>2. \A x \in Key : sw[x] # None /\ x \notin st => Unnamed(Frame(x, 0, sw[x]))
    BY <1>1, <1>4, <1>7 DEF Inv
  <2>3. \A x \in Key : sw[x] = None => x \notin st
    BY <1>6, <1>7 DEF Inv
  <2>4. /\ \A x \in Handle : d[x] # None /\ x \notin st => d[x].length = LengthOf(d[x])
        /\ \A x \in Handle : d[x] = None => x \notin st
    BY DEF Inv
  <2>5. Good(Holders(d, sw, st), Frames(d, sw), s)
    BY <1>9, <1>10, <1>15
  <2> QED  BY <1>9, <2>1, <2>2, <2>3, <2>4, <2>5 DEF Inv
<1>18. Saves(s, sw, st) = With(Saves(s, sv, st), k, TableIn(f, s))
  <2>1. PICK z : z = TableIn(f, s)
    OBVIOUS
  <2>2. SavedFor(s, sw, st, k) = z
    BY <1>1, <1>4, <1>5, <1>6, <1>7, <2>1 DEF SavedFor
  <2>3. \A x \in Key : x # k => SavedFor(s, sw, st, x) = SavedFor(s, sv, st, x)
    BY <1>7 DEF SavedFor
  <2> QED  BY <2>1, <2>2, <2>3 DEF Saves, With
<1> QED  BY <1>1, <1>8, <1>17, <1>18

(* fromVisitor: a new frame is built, locked and published.                *)
LEMMA VisitedFrame ==
  ASSUME NEW k \in Key, NEW w \in 0 .. MaxCols, NEW n \in 0 .. MaxRows, NEW s \in Store
  PROVE  \E us, t : /\ LockColumns(RowsVisited(k, w, n, s)) = Cols(us, t)
                    /\ Sealed(us, t, NewColumns(k, w), s, w, Names(k, w), Columns(k, w, n))
<1>1. PICK ws, x : /\ RowsVisited(k, w, n, s) = Cols(ws, x)
                   /\ Built(ws, x, NewColumns(k, w), s, w, Names(k, w), Columns(k, w, n))
  BY RowsBuilt
<1>2. Bases(Names(k, w), w) /\ w \in Nat
  BY NamesAreBases, MaxColsAssumption
<1>3. HaveKeys(NewColumns(k, w), w)
  <2>1. \A c \in 1 .. w : EmptyColumns(w)[c] = <<>>
    BY DEF EmptyColumns
  <2> QED  BY <2>1, FrameStarted
<1>4. PICK us, t : /\ LockColumns(Cols(ws, x)) = Cols(us, t)
                   /\ Sealed(us, t, NewColumns(k, w), s, w, Names(k, w), Columns(k, w, n))
  BY <1>1, <1>2, <1>3, RowsLocked
<1> QED  BY <1>1, <1>4

Published(sv, k, f) == With(sv, k, Serialized(f.cols))

(* The new frame f of h, with the columns us, is published.                *)
VisitedInto(us, t, f, s, sv, d, st, h, k, w, n) ==
  LET sw == Published(sv, k, f)
      c == With(d, h, f)
  IN /\ LockColumns(RowsVisited(k, w, n, s)) = Cols(us, t)
     /\ f = Frame(k, n, us) /\ f \in FrameSet /\ f.cols = us
     /\ Typed(t, sw, c, st) /\ Inv(t, sw, c, st)
     /\ Tables(t, c, st) = With(Tables(s, d, st), h, Shown(k, Columns(k, w, n)))
     /\ Saves(t, sw, st) = With(Saves(s, sv, st), k, Columns(k, w, n))

LEMMA VisitKeepsFrames ==
  ASSUME NEW s, NEW sv, NEW d, NEW st, NEW h, NEW k, Starts(s, sv, d, st, h, k), sv[k] = None,
         NEW w, w \in Col, NEW n, n \in 0 .. MaxRows
  PROVE  \E us, t, f : VisitedInto(us, t, f, s, sv, d, st, h, k, w, n)
<1> /\ h \in Handle /\ k \in Key /\ Typed(s, sv, d, st)
    /\ Inv(s, sv, d, st) /\ d[h] = None /\ KeyFree(d, sv, st, k)
  BY DEF Starts
<1>1. s \in Store /\ w \in 0 .. MaxCols /\ w # 0
  BY MaxColsAssumption DEF Typed, Col
<1>2. PICK col : col = Columns(k, w, n)
  OBVIOUS
<1>3. PICK us, t : /\ LockColumns(RowsVisited(k, w, n, s)) = Cols(us, t)
                   /\ Sealed(us, t, NewColumns(k, w), s, w, Names(k, w), col)
  BY <1>1, <1>2, VisitedFrame
<1>4. PICK f : f = Frame(k, n, us)
  OBVIOUS
<1>5. PICK e : e = Frame(k, 0, NewColumns(k, w))
  OBVIOUS
<1>6. /\ Whole(f, t) /\ TableIn(f, t) = ColumnsOf(col, w) /\ AllLocked(f)
      /\ NamesOf(f) = Names(k, w) /\ Len(f.cols) = w
      /\ f.key = k /\ f.cols = us /\ f.length = n
  <2>1. /\ Whole(f, t) /\ TableIn(f, t) = ColumnsOf(col, w) /\ AllLocked(f)
        /\ NamesOf(f) = Names(k, w) /\ Len(f.cols) = w
        /\ f.key = k /\ f.cols = us /\ f.length = n
    BY ONLY <1>1, <1>3, <1>4, <1>5, SealedFrame, k \in Key
  <2> QED  BY <2>1
<1>7. AreLong(col, w, n)
  <2> SUFFICES ASSUME NEW c \in 1 .. w PROVE Len(col[c]) = n
    BY DEF AreLong
  <2>1. c \in Col
    BY <1>1, NamesAreBases
  <2>2. col[c] = ColumnOf(k, c, n)
    BY <1>2 DEF Columns
  <2> QED  BY <2>1, <2>2, FieldColumns
<1>8. /\ f \in FrameSet /\ h \notin st /\ t \in Store
      /\ Typed(t, sv, With(d, h, f), st) /\ Inv(t, sv, With(d, h, f), st)
      /\ TablesKept(h, Holders(d, sv, st), Frames(d, sv), s, t)
      /\ OthersKey(h, Holders(d, sv, st), Frames(d, sv), k)
  <2>1. Starts(s, sv, d, st, h, k)
    OBVIOUS
  <2>2. NewSealed(f, k, w, n, us, t, s, col)
    BY <1>1, <1>3, <1>4, <1>7 DEF NewSealed
  <2> QED  BY ONLY <2>1, <2>2, SealedKeepsFrames
<1>9. /\ Tables(t, With(d, h, f), st) = With(Tables(s, d, st), h, Shown(k, ColumnsOf(col, w)))
      /\ Saves(t, sv, st) = Saves(s, sv, st)
  BY <1>6, <1>8, TablesWith
<1>10. ColumnsOf(col, w) = col
  BY <1>2 DEF ColumnsOf, Columns
<1>11. PICK e2 : e2 = With(d, h, f)
  OBVIOUS
<1>12. /\ e2[h] = f /\ f # None
       /\ OthersKey(h, Holders(e2, sv, st), Frames(e2, sv), k)
  <2>1. PICK L : L = Holders(d, sv, st)
    OBVIOUS
  <2>2. /\ e2[h] = f /\ Holders(e2, sv, st) = L \cup {h}
        /\ Besides(h, L, Frames(e2, sv), Frames(d, sv))
    BY <1>8, <1>11, <2>1, WithFrame, HoldersAre
  <2>3. f # None
    BY <1>8, NoFrame
  <2>4. OthersKey(h, L, Frames(d, sv), k)
    BY <1>8, <2>1
  <2> QED  BY <2>2, <2>3, <2>4 DEF Besides, OthersKey
<1>13. /\ Typed(t, With(sv, k, Serialized(f.cols)), e2, st)
       /\ Inv(t, With(sv, k, Serialized(f.cols)), e2, st)
       /\ Saves(t, With(sv, k, Serialized(f.cols)), st) = With(Saves(t, sv, st), k, TableIn(f, t))
  <2>1. /\ h \in Handle /\ k \in Key /\ f = e2[h] /\ Typed(t, sv, e2, st) /\ Inv(t, sv, e2, st)
        /\ f # None /\ h \notin st /\ f.key = k /\ AllLocked(f)
        /\ NamesOf(f) = Names(k, Len(f.cols)) /\ sv[k] = None
    BY <1>6, <1>8, <1>11, <1>12
  <2> QED  BY ONLY <1>12, <2>1, SavedKeepsFrames
<1>14. /\ Typed(t, Published(sv, k, f), e2, st) /\ Inv(t, Published(sv, k, f), e2, st)
       /\ Saves(t, Published(sv, k, f), st) = With(Saves(s, sv, st), k, col)
  BY <1>6, <1>9, <1>10, <1>13 DEF Published
<1>15. Tables(t, e2, st) = With(Tables(s, d, st), h, Shown(k, col))
  BY <1>9, <1>10, <1>11
<1> QED  BY <1>2, <1>3, <1>4, <1>6, <1>8, <1>11, <1>14, <1>15 DEF VisitedInto

(* KDStore::get: the columns that were published are held again.           *)
LEMMA LoadKeepsFrames ==
  ASSUME NEW s, NEW sv, NEW d, NEW st, NEW h \in Handle, NEW k \in Key, NEW f, NEW n,
         Typed(s, sv, d, st), Inv(s, sv, d, st), d[h] = None, sv[k] # None, k \notin st,
         n = (IF sv[k] = <<>> THEN 0 ELSE sv[k][1].size), f = Frame(k, n, sv[k])
  PROVE  /\ f \in FrameSet /\ \A c \in 1 .. Len(sv[k]) : sv[k][c].size = n
         /\ Typed(s, sv, With(d, h, f), st) /\ Inv(s, sv, With(d, h, f), st)
         /\ Tables(s, With(d, h, f), st) = With(Tables(s, d, st), h, Shown(k, SavedFor(s, sv, st, k)))
<1>1. PICK L, F, G, g : /\ L = Holders(d, sv, st) /\ F = Frames(d, sv)
                        /\ G = Frames(With(d, h, f), sv) /\ g = Frame(k, 0, sv[k])
  OBVIOUS
<1>2. /\ f.key = k /\ f.length = n /\ f.cols = sv[k]
      /\ g.key = k /\ g.cols = sv[k]
  BY <1>1, FrameFields
<1>3. k \in L /\ F[k] = g /\ s \in Store
  BY <1>1, FramesOf DEF Holders, Typed
<1>4. Good(L, F, s) /\ Even(g) /\ Unnamed(g)
  BY <1>1, <1>3 DEF Inv
<1>5. Whole(g, s)
  BY <1>3, <1>4 DEF Good
<1>6. Whole(f, s) /\ Unnamed(f) /\ TableIn(f, s) = TableIn(g, s)
  BY <1>2, <1>4, <1>5, SameFrame
<1>7. Even(f) /\ f.length = LengthOf(f)
  BY <1>2, <1>4 DEF Even, LengthOf
<1>8. \A c \in 1 .. Len(sv[k]) : sv[k][c].size = n
  <2>1. HasColumns(f)
    BY <1>6 DEF Whole, HasColumns
  <2> QED  BY <1>2, <1>7, <2>1, EvenParts
<1>9. f \in FrameSet
  <2>1. n \in 0 .. MaxRows
    <3>1. CASE sv[k] = <<>>
      BY <3>1, MaxRowsAssumption
    <3>2. CASE sv[k] # <<>>
      <4>1. sv[k] \in Seq(Vector)
        BY <1>2, <1>5 DEF Whole
      <4>2. 1 \in 1 .. Len(sv[k])
        BY <3>2, <4>1
      <4>3. sv[k][1] \in Vector
        BY <4>1, <4>2
      <4> QED  BY <3>2, <4>3, VectorParts
    <3> QED  BY <3>1, <3>2
  <2>2. sv[k] \in Seq(Vector)
    BY <1>2, <1>5 DEF Whole
  <2> QED  BY <2>1, <2>2, NoFrame
<1>10. h \notin st /\ h \notin L
  BY <1>1, FramesOf DEF Inv, Holders
<1>11. G[h] = f /\ Besides(h, L, G, F)
  <2>1. d \in [Handle -> FrameSet \cup {None}] /\ L \subseteq Handle \cup Key
    BY <1>1, HoldersAre DEF Typed
  <2> QED  BY <1>1, <2>1, FramesWith
<1>12. \A x \in L : Yields(G[x], G[h]) /\ Yields(G[h], G[x])
  <2> SUFFICES ASSUME NEW x \in L PROVE Yields(F[x], f)
    BY <1>6, <1>10, <1>11, UnnamedYields DEF Besides
  <2>1. CASE x = k
    BY <1>3, <1>4, <2>1, UnnamedYields
  <2>2. CASE x # k
    <3>1. Yields(F[x], g)
      BY <1>3, <1>4, <2>2 DEF Good
    <3> QED  BY <1>2, <3>1, SameFrame
  <2> QED  BY <2>1, <2>2
<1>13. Good(L \cup {h}, G, s)
  <2>1. Whole(G[h], s) /\ Apart(G[h])
    BY <1>6, <1>11, UnnamedYields
  <2> QED  BY <1>4, <1>10, <1>11, <1>12, <2>1, FrameJoined
<1>14. Typed(s, sv, With(d, h, f), st) /\ Inv(s, sv, With(d, h, f), st)
  <2>1. Good(Holders(d, sv, st) \cup {h}, Frames(With(d, h, f), sv), s)
    BY <1>1, <1>13
  <2> QED  BY <1>3, <1>7, <1>9, <1>10, <2>1, FrameReplaced
<1>15. Tables(s, With(d, h, f), st) = With(Tables(s, d, st), h, Shown(k, SavedFor(s, sv, st, k)))
  <2>1. TablesKept(h, Holders(d, sv, st), Frames(d, sv), s, s)
    BY KeptInStore
  <2>2. Tables(s, With(d, h, f), st) = With(Tables(s, d, st), h, Shown(f.key, TableIn(f, s)))
    BY <1>9, <1>10, <2>1, TablesWith
  <2>3. SavedFor(s, sv, st, k) = TableIn(g, s)
    BY <1>1 DEF SavedFor
  <2> QED  BY <1>2, <1>6, <2>2, <2>3
<1> QED  BY <1>8, <1>9, <1>14, <1>15

(* add_column of a new column b.                                           *)
ColumnUnused(s, d, b) ==
  /\ \A i \in 0 .. MaxRows : s[ChunkOf(b, i)] = None
  /\ \A x \in Handle : d[x] # None => \A c \in 1 .. Len(d[x].cols) : d[x].cols[c].name # b

LEMMA VacantFrame ==
  ASSUME NEW f, NEW s, NEW b \in Name, Whole(f, s),
         \A i \in 0 .. MaxRows : s[ChunkOf(b, i)] = None,
         \A c \in 1 .. Len(f.cols) : f.cols[c].name # b
  PROVE  Vacant(f, b)
<1> SUFFICES ASSUME NEW c \in 1 .. Len(f.cols), Base(f, c) = b PROVE f.cols[c].keys = <<>>
  BY DEF Vacant
<1>1. PICK v : v = f.cols[c]
  OBVIOUS
<1>2. Sound(v, s, b) /\ v.name # b
  BY <1>1 DEF Whole
<1>3. v.locked
  <2>1. v.name = None
    BY <1>2, SoundParts
  <2>2. b # None
    BY NoneAssumption DEF Name
  <2> QED  BY <1>2, <2>1, <2>2, SoundParts
<1>4. Closed(v, s, b, ContentOf(v, s)) /\ v.keys \in Seq(KeyOfChunk)
  BY <1>2, <1>3, SoundParts
<1>5. ASSUME v.keys # <<>> PROVE FALSE
  <2>1. 0 \in 0 .. Len(v.keys) - 1 /\ 0 \in 0 .. MaxRows
    BY <1>4, <1>5, MaxRowsAssumption
  <2>2. Kept(s, b, 0)
    BY <1>4, <2>1 DEF Closed
  <2>3. s[ChunkOf(b, 0)] \in Buffer /\ s[ChunkOf(b, 0)] = None
    BY <2>1, <2>2 DEF Kept
  <2> QED  BY <2>3, NoneAssumption
<1> QED  BY <1>1, <1>5

LEMMA ContinuesMore ==
  ASSUME NEW f, NEW g, NEW h, HasColumns(f), HasColumns(g), HasColumns(h),
         Continues(g, f), Continues(h, g)
  PROVE  /\ Continues(h, f)
         /\ \A s, t, x : Writes(f, s, t) /\ Writes(g, t, x) => Writes(f, s, x)
<1>1. Continues(h, f)
  <2> SUFFICES ASSUME NEW c \in 1 .. Len(f.cols)
               PROVE  /\ h.cols[c].name = f.cols[c].name
                      /\ Len(f.cols[c].keys) <= Len(h.cols[c].keys)
                      /\ f.cols[c].name = None => h.cols[c].keys = f.cols[c].keys
    BY DEF Continues
  <2>1. c \in 1 .. Len(g.cols) /\ c \in 1 .. Len(h.cols)
    BY DEF Continues
  <2>2. /\ Len(f.cols[c].keys) \in Nat /\ Len(g.cols[c].keys) \in Nat
        /\ Len(h.cols[c].keys) \in Nat
    BY <2>1, ColumnParts
  <2>3. /\ g.cols[c].name = f.cols[c].name /\ Len(f.cols[c].keys) <= Len(g.cols[c].keys)
        /\ f.cols[c].name = None => g.cols[c].keys = f.cols[c].keys
    BY DEF Continues
  <2>4. /\ h.cols[c].name = g.cols[c].name /\ Len(g.cols[c].keys) <= Len(h.cols[c].keys)
        /\ g.cols[c].name = None => h.cols[c].keys = g.cols[c].keys
    BY <2>1 DEF Continues
  <2>5. PICK u, v, w : u = f.cols[c] /\ v = g.cols[c] /\ w = h.cols[c]
    OBVIOUS
  <2>6. /\ Len(u.keys) \in Nat /\ Len(v.keys) \in Nat /\ Len(w.keys) \in Nat
        /\ v.name = u.name /\ Len(u.keys) <= Len(v.keys) /\ (u.name = None => v.keys = u.keys)
        /\ w.name = v.name /\ Len(v.keys) <= Len(w.keys) /\ (v.name = None => w.keys = v.keys)
    BY <2>2, <2>3, <2>4, <2>5
  <2>7. w.name = u.name /\ Len(u.keys) <= Len(w.keys) /\ (u.name = None => w.keys = u.keys)
    BY ONLY <2>6
  <2> QED  BY <2>5, <2>7
<1>2. ASSUME NEW s, NEW t, NEW x, Writes(f, s, t), Writes(g, t, x) PROVE Writes(f, s, x)
  <2>1. ASSUME NEW c \in 1 .. Len(f.cols), f.cols[c].name # None
        PROVE  Grown(s, x, f.cols[c].name, Len(f.cols[c].keys))
    <3>1. PICK b, n, m : b = f.cols[c].name /\ n = Len(f.cols[c].keys) /\ m = Len(g.cols[c].keys)
      OBVIOUS
    <3>2. c \in 1 .. Len(g.cols) /\ g.cols[c].name = b /\ n <= m
      BY <3>1 DEF Continues
    <3>3. n \in Nat /\ m \in Nat
      BY <3>1, <3>2, ColumnParts
    <3>4. Grown(s, t, b, n)
      BY <1>2, <2>1, <3>1 DEF Writes
    <3>5. Grown(t, x, b, m)
      BY <1>2, <2>1, <3>1, <3>2 DEF Writes
    <3>6. Grown(s, x, b, n)
      BY ONLY <3>2, <3>3, <3>4, <3>5, GrownMore
    <3> QED  BY <3>1, <3>6
  <2>2. ASSUME NEW b \in Name, \A c \in 1 .. Len(f.cols) : f.cols[c].name # b
        PROVE  Same(s, x, b)
    <3>1. \A c \in 1 .. Len(g.cols) : g.cols[c].name # b
      BY <2>2 DEF Continues
    <3>2. Same(s, t, b) /\ Same(t, x, b)
      BY <1>2, <2>2, <3>1 DEF Writes
    <3> QED  BY <3>2, GrownMore
  <2> QED  BY <2>1, <2>2 DEF Writes
<1> QED  BY <1>1, <1>2

(* The frames were apart when f, of h, got the empty column b.             *)
CanJoin(s, sv, d, st, h, f, b) ==
  /\ h \in Handle /\ Typed(s, sv, d, st) /\ Inv(s, sv, d, st) /\ d[h] # None /\ h \notin st
  /\ f = d[h] /\ b \in Name /\ b[1] = f.key /\ Len(f.cols) < MaxCols /\ ColumnUnused(s, d, b)

LEMMA ColumnJoins ==
  ASSUME NEW s, NEW sv, NEW d, NEW st, NEW h, NEW f, NEW b, CanJoin(s, sv, d, st, h, f, b)
  PROVE  /\ h \in Holders(d, sv, st) /\ Vacant(f, b)
         /\ \A e \in FrameSet : Joins(e, f, NewVector(b)) =>
              Good(Holders(d, sv, st), Frames(With(d, h, e), sv), s) /\ Whole(e, s)
<1> /\ h \in Handle /\ Typed(s, sv, d, st) /\ Inv(s, sv, d, st) /\ d[h] # None /\ h \notin st
    /\ f = d[h] /\ b \in Name /\ b[1] = f.key /\ Len(f.cols) < MaxCols /\ ColumnUnused(s, d, b)
  BY DEF CanJoin
<1>1. PICK L, F : L = Holders(d, sv, st) /\ F = Frames(d, sv)
  OBVIOUS
<1>2. h \in L /\ F[h] = f /\ Whole(f, s) /\ Apart(f) /\ s \in Store
  BY <1>1, HolderFrame DEF Typed
<1>3. Good(L, F, s)
  BY <1>1 DEF Inv
<1>4. ASSUME NEW x \in L PROVE Vacant(F[x], b)
  <2>1. Whole(F[x], s)
    BY <1>3 DEF Good
  <2>2. \A i \in 0 .. MaxRows : s[ChunkOf(b, i)] = None
    BY DEF ColumnUnused
  <2>3. \A c \in 1 .. Len(F[x].cols) : F[x].cols[c].name # b
    <3>1. CASE x \in Handle
      <4>1. F[x] = d[x] /\ d[x] # None
        BY <1>1, <3>1, FramesOf DEF Holders
      <4> QED  BY <3>1, <4>1 DEF ColumnUnused
    <3>2. CASE x \in Key
      <4>1. F[x] = Frame(x, 0, sv[x]) /\ Unnamed(F[x])
        BY <1>1, <3>2, FramesOf DEF Inv, Holders
      <4>2. b # None
        BY NoneAssumption DEF Name
      <4> QED  BY <4>1, <4>2 DEF Unnamed
    <3> QED  BY <1>1, <3>1, <3>2, HoldersAre
  <2> QED  BY <2>1, <2>2, <2>3, VacantFrame
<1>5. ASSUME NEW e \in FrameSet, Joins(e, f, NewVector(b))
      PROVE  Good(L, Frames(With(d, h, e), sv), s) /\ Whole(e, s)
  <2>1. PICK G : G = Frames(With(d, h, e), sv)
    OBVIOUS
  <2>2. G[h] = e /\ Besides(h, L, G, F)
    <3>1. d \in [Handle -> FrameSet \cup {None}] /\ L \subseteq Handle \cup Key
      BY <1>1, HoldersAre DEF Typed
    <3> QED  BY <1>1, <2>1, <3>1, FramesWith
  <2>3. /\ Whole(e, s) /\ Apart(e)
        /\ \A x : Vacant(x, b) => (Yields(f, x) => Yields(e, x)) /\ (Yields(x, f) => Yields(x, e))
    <3>1. Vacant(f, b)
      BY <1>2, <1>4
    <3> QED  BY <1>2, <1>5, <3>1, EmptyColumnJoins
  <2>4. \A x \in L : Whole(G[x], s) /\ Apart(G[x])
    BY <1>3, <2>2, <2>3 DEF Good, Besides
  <2>5. ASSUME NEW x \in L, NEW y \in L, x # y PROVE Yields(G[x], G[y])
    <3>1. Yields(F[x], F[y])
      BY <1>3, <2>5 DEF Good
    <3>2. CASE x = h
      <4>1. G[x] = e /\ G[y] = F[y] /\ F[x] = f
        BY <1>2, <2>2, <2>5, <3>2 DEF Besides
      <4> QED  BY <1>4, <2>3, <3>1, <4>1
    <3>3. CASE y = h
      <4>1. G[y] = e /\ G[x] = F[x] /\ F[y] = f
        BY <1>2, <2>2, <2>5, <3>3 DEF Besides
      <4> QED  BY <1>4, <2>3, <3>1, <4>1
    <3>4. CASE x # h /\ y # h
      BY <2>2, <3>1, <3>4 DEF Besides
    <3> QED  BY <3>2, <3>3, <3>4
  <2>6. Good(L, G, s)
    BY <2>4, <2>5 DEF Good
  <2> QED  BY <2>1, <2>3, <2>6
<1> QED  BY <1>1, <1>2, <1>4, <1>5

(* The frame g, of as many rows, came to be from f with the new column b.  *)
JoinedFrame(f, b, g, s, t) ==
  \E e \in FrameSet : /\ Joins(e, f, NewVector(b)) /\ Continues(g, e) /\ Writes(e, s, t)
                      /\ Whole(g, t) /\ g \in FrameSet /\ t \in Store
                      /\ Even(g) /\ g.length = LengthOf(g)

LEMMA JoinedKeepsFrames ==
  ASSUME NEW s, NEW sv, NEW d, NEW st, NEW h, NEW f, NEW b, CanJoin(s, sv, d, st, h, f, b),
         NEW g, NEW t, JoinedFrame(f, b, g, s, t)
  PROVE  /\ Typed(t, sv, With(d, h, g), st) /\ Inv(t, sv, With(d, h, g), st)
         /\ Tables(t, With(d, h, g), st) = With(Tables(s, d, st), h, Shown(g.key, TableIn(g, t)))
         /\ Saves(t, sv, st) = Saves(s, sv, st)
<1>1. PICK e \in FrameSet : /\ Joins(e, f, NewVector(b)) /\ Continues(g, e) /\ Writes(e, s, t)
                            /\ Whole(g, t) /\ g \in FrameSet /\ t \in Store
                            /\ Even(g) /\ g.length = LengthOf(g)
  BY DEF JoinedFrame
<1>2. h \in Handle /\ Typed(s, sv, d, st) /\ Inv(s, sv, d, st) /\ h \notin st
  BY DEF CanJoin
<1>3. PICK L, F, G, H : /\ L = Holders(d, sv, st) /\ F = Frames(d, sv)
                        /\ G = Frames(With(d, h, e), sv) /\ H = Frames(With(d, h, g), sv)
  OBVIOUS
<1>4. h \in L /\ Good(L, G, s) /\ L \cup {h} = L
  BY <1>1, <1>3, ColumnJoins
<1>5. G[h] = e /\ Besides(h, L, G, F) /\ H[h] = g /\ Besides(h, L, H, F)
  <2>1. d \in [Handle -> FrameSet \cup {None}] /\ L \subseteq Handle \cup Key
    BY <1>2, <1>3, HoldersAre DEF Typed
  <2> QED  BY <1>2, <1>3, <2>1, FramesWith
<1>6. Good(L, H, t) /\ TablesKept(h, L, G, s, t)
  <2>1. Besides(h, L, H, G)
    BY <1>5 DEF Besides
  <2>2. Writes(G[h], s, t) /\ Whole(H[h], t) /\ Continues(H[h], G[h])
    BY <1>1, <1>5
  <2> QED  BY ONLY <1>4, <2>1, <2>2, FrameContinued
<1>7. TablesKept(h, L, F, s, t)
  BY <1>5, <1>6 DEF TablesKept, Besides
<1>8. Typed(t, sv, With(d, h, g), st) /\ Inv(t, sv, With(d, h, g), st)
  <2>1. Good(Holders(d, sv, st) \cup {h}, Frames(With(d, h, g), sv), t)
    BY <1>3, <1>4, <1>6
  <2> QED  BY <1>1, <1>2, <2>1, FrameReplaced
<1>9. /\ Tables(t, With(d, h, g), st) = With(Tables(s, d, st), h, Shown(g.key, TableIn(g, t)))
      /\ Saves(t, sv, st) = Saves(s, sv, st)
  BY <1>1, <1>2, <1>3, <1>7, TablesWith
<1> QED  BY <1>8, <1>9

(* A new column that was built and locked.                                 *)
NewColumn(b, fs, s) == Lock(AppendAll(Pair(NewVector(b), s), fs))

Filled(w, t, s, b, fs) == Settled(w, t, NewVector(b), s, b, fs) /\ OthersSame(s, t, b) /\ t \in Store

LEMMA NewColumnBuilt ==
  ASSUME NEW s \in Store, NEW b \in Name, NEW fs \in Seq(Data), Len(fs) <= MaxRows
  PROVE  \E w, t : NewColumn(b, fs, s) = Pair(w, t) /\ Filled(w, t, s, b, fs)
<1>1. Open(NewVector(b), s, b, <<>>) /\ NewVector(b).keys \in Seq(KeyOfChunk)
  <2>1. Open(NewVector(b), s, b, <<>>) /\ NewVector(b).keys = <<>>
    BY NewVectorOpen
  <2> QED  BY <2>1
<1>2. PICK v, x : /\ AppendAll(Pair(NewVector(b), s), fs) = Pair(v, x) /\ x \in Store
                  /\ Longer(v, x, NewVector(b), s, b, fs) /\ OthersSame(s, x, b)
  <2>1. <<>> \o fs = fs /\ Len(<<>>) + Len(fs) <= MaxRows
    OBVIOUS
  <2> QED  BY <1>1, <2>1, FieldsAppended
<1>3. Open(v, x, b, fs)
  BY <1>2 DEF Longer
<1>4. PICK w, t : /\ Lock(Pair(v, x)) = Pair(w, t) /\ t \in Store
                  /\ Settled(w, t, v, x, b, fs) /\ OthersSame(x, t, b)
  BY <1>2, <1>3, ColumnLocked
<1>5. Settled(w, t, NewVector(b), s, b, fs)
  BY <1>1, <1>2, <1>4, LongerThen
<1>6. OthersSame(s, t, b)
  BY <1>2, <1>4, OthersSameMore
<1> QED  BY <1>2, <1>4, <1>5, <1>6 DEF NewColumn, Filled

LEMMA NewColumnPadded ==
  ASSUME NEW s \in Store, NEW b \in Name, NEW fs, NEW w, NEW t, Filled(w, t, s, b, fs),
         CanExtend(w), NEW n \in 0 .. MaxRows, Len(fs) <= n
  PROVE  \E u, x : PadColumn(Pair(w, t), n) = Pair(u, x) /\ Filled(u, x, s, b, fs \o Padding(fs, n))
<1>1. Closed(w, t, b, fs) /\ Exact(w, t, b) /\ w.name = b /\ w.keys # <<>> /\ t \in Store
  BY DEF Filled, Settled, CanExtend
<1>2. PICK u, x : /\ PadColumn(Pair(w, t), n) = Pair(u, x) /\ x \in Store
                  /\ Settled(u, x, w, t, b, fs \o Padding(fs, n)) /\ OthersSame(t, x, b)
  BY <1>1, ColumnPadded
<1>3. OthersSame(s, x, b)
  BY <1>2, OthersSameMore DEF Filled
<1>4. NewVector(b).keys = <<>> /\ Len(NewVector(b).keys) = 0
  BY NewVectorOpen
<1>5. Grown(s, x, b, 0)
  BY GrownMore
<1>6. Len(u.keys) >= 0
  <2>1. Len(u.keys) \in Nat
    BY <1>2, ClosedParts DEF Settled
  <2> QED  BY <2>1
<1>7. Settled(u, x, NewVector(b), s, b, fs \o Padding(fs, n))
  BY <1>2, <1>4, <1>5, <1>6 DEF Settled
<1> QED  BY <1>2, <1>3, <1>7 DEF Filled

(* The columns of the frame with the new one, of m rows each.              *)
ColumnsWith(cols, fs, m) ==
  [c \in 1 .. Len(cols) + 1 |-> IF c \in 1 .. Len(cols) THEN cols[c] \o Padding(cols[c], m)
                                ELSE fs \o Padding(fs, m)]

LEMMA NoPadding ==
  ASSUME NEW col \in Seq(Data)
  PROVE  col \o Padding(col, Len(col)) = col
<1>1. Padding(col, Len(col)) = <<>>
  BY DEF Padding
<1> QED  BY <1>1

LEMMA PaddingLength ==
  ASSUME NEW col \in Seq(Data), NEW n \in Nat, Len(col) <= n
  PROVE  /\ col \o Padding(col, n) \in Seq(Data) /\ Len(col \o Padding(col, n)) = n
<1>1. Padding(col, n) \in Seq(Data) /\ Len(Padding(col, n)) = n - Len(col)
  <2>1. n - Len(col) \in Nat /\ Missing \in Data
    BY DEF Data
  <2> QED  BY <2>1 DEF Padding
<1> QED  BY <1>1

(* The rows of the frame f, and of the new column.                         *)
LEMMA SizesOfFrame ==
  ASSUME NEW f, NEW s, Whole(f, s), Even(f), f.length = LengthOf(f)
  PROVE  /\ \A c \in 1 .. Len(f.cols) : /\ f.cols[c].size = f.length
                                        /\ TableIn(f, s)[c] \in Seq(Data)
                                        /\ Len(TableIn(f, s)[c]) = f.length
         /\ Len(TableIn(f, s)) = Len(f.cols) /\ Len(f.cols) \in Nat
<1>1. HasColumns(f)
  BY DEF Whole, HasColumns
<1>2. Len(f.cols) \in Nat
  BY <1>1 DEF HasColumns
<1>3. Len(TableIn(f, s)) = Len(f.cols)
  BY <1>2 DEF TableIn
<1>4. ASSUME NEW c \in 1 .. Len(f.cols)
      PROVE  /\ f.cols[c].size = f.length /\ TableIn(f, s)[c] \in Seq(Data)
             /\ Len(TableIn(f, s)[c]) = f.length
  <2>1. f.cols[c].size = f.length
    BY <1>1, EvenParts
  <2>2. TableIn(f, s)[c] = ContentOf(f.cols[c], s)
    BY DEF TableIn
  <2>3. Sound(f.cols[c], s, Base(f, c))
    BY DEF Whole
  <2>4. ContentOf(f.cols[c], s) \in Seq(Data) /\ Len(ContentOf(f.cols[c], s)) = f.cols[c].size
    BY <2>3, SoundParts
  <2> QED  BY <2>1, <2>2, <2>4
<1> QED  BY <1>2, <1>3, <1>4

(* The new column was stored.                                              *)
LEMMA ColumnStored ==
  ASSUME NEW s, NEW sv, NEW d, NEW st, NEW h, NEW f, NEW b, CanJoin(s, sv, d, st, h, f, b),
         NEW w, NEW t, NEW fs, Filled(w, t, s, b, fs),
         NEW e, e = Frame(f.key, f.length, Append(f.cols, NewVector(b)))
  PROVE  /\ e \in FrameSet /\ Joins(e, f, NewVector(b)) /\ Whole(e, s)
         /\ \A g : Joins(g, f, w) => Whole(g, t) /\ Continues(g, e) /\ Writes(e, s, t)
         /\ Whole(f, t) /\ TableIn(f, t) = TableIn(f, s) /\ ContentOf(w, t) = fs
         /\ w.size = Len(fs) /\ fs \in Seq(Data) /\ w \in Vector /\ t \in Store
         /\ Len(fs) \in 0 .. MaxRows
<1>1. /\ h \in Handle /\ Typed(s, sv, d, st) /\ Inv(s, sv, d, st) /\ d[h] # None /\ h \notin st
      /\ f = d[h] /\ b \in Name /\ b[1] = f.key /\ Len(f.cols) < MaxCols
  BY DEF CanJoin
<1>2. /\ Whole(f, s) /\ s \in Store
      /\ f.key \in Key /\ f.length \in 0 .. MaxRows /\ f.cols \in Seq(Vector)
  BY <1>1, HolderFrame DEF Typed
<1>3. Vacant(f, b)
  BY ColumnJoins
<1>4. e \in FrameSet /\ Joins(e, f, NewVector(b))
  <2>1. NewVector(b) \in Vector
    BY <1>1, NewVectorOpen
  <2>2. Append(f.cols, NewVector(b)) \in Seq(Vector)
    BY <1>2, <2>1
  <2>3. e \in FrameSet
    BY <1>2, <2>2, NoFrame
  <2>4. e.key = f.key /\ e.cols = Append(f.cols, NewVector(b))
    BY DEF Frame
  <2> QED  BY <2>3, <2>4 DEF Joins
<1>5. Whole(e, s)
  BY <1>4, ColumnJoins
<1>6. Settled(w, t, NewVector(b), s, b, fs) /\ OthersSame(s, t, b) /\ t \in Store
  BY DEF Filled
<1>7. ASSUME NEW g, Joins(g, f, w)
      PROVE  /\ Whole(g, t) /\ Continues(g, e) /\ Writes(e, s, t)
             /\ Undisturbed(f, s, t) /\ ContentOf(w, t) = fs /\ w.size = Len(fs)
  BY ONLY <1>1, <1>2, <1>3, <1>4, <1>5, <1>6, <1>7, ColumnFilled
<1>8. Undisturbed(f, s, t) /\ ContentOf(w, t) = fs /\ w.size = Len(fs)
  <2>1. PICK g : g = Frame(f.key, f.length, Append(f.cols, w))
    OBVIOUS
  <2>2. Joins(g, f, w)
    BY <2>1 DEF Joins, Frame
  <2> QED  BY <1>7, <2>2
<1>9. fs \in Seq(Data) /\ w \in Vector /\ w.size \in 0 .. MaxRows
  BY <1>6, VectorParts DEF Settled, Closed
<1>10. Whole(f, t) /\ TableIn(f, t) = TableIn(f, s)
  BY <1>2, <1>8, FrameKept
<1> QED  BY <1>4, <1>5, <1>6, <1>7, <1>8, <1>9, <1>10

(* The new column has as many rows as the frame.                           *)
LEMMA EqualColumn ==
  ASSUME NEW s, NEW sv, NEW d, NEW st, NEW h, NEW f, NEW b, CanJoin(s, sv, d, st, h, f, b),
         NEW w, NEW t, NEW fs, Filled(w, t, s, b, fs), Len(fs) = f.length,
         NEW g, g = Frame(f.key, Len(fs), Append(f.cols, w))
  PROVE  /\ g \in FrameSet /\ JoinedFrame(f, b, g, s, t)
         /\ TableIn(g, t) = ColumnsWith(TableIn(f, s), fs, Len(fs))
<1>1. /\ h \in Handle /\ Typed(s, sv, d, st) /\ Inv(s, sv, d, st) /\ d[h] # None /\ h \notin st
      /\ f = d[h] /\ b \in Name /\ b[1] = f.key /\ Len(f.cols) < MaxCols
  BY DEF CanJoin
<1>2. /\ Whole(f, s) /\ Even(f) /\ f.length = LengthOf(f) /\ f \in FrameSet /\ s \in Store
      /\ f.key \in Key /\ f.length \in 0 .. MaxRows /\ f.cols \in Seq(Vector)
  BY <1>1, HolderFrame DEF Typed
<1>3. PICK e : e = Frame(f.key, f.length, Append(f.cols, NewVector(b)))
  OBVIOUS
<1>4. Joins(g, f, w) /\ g.length = Len(fs) /\ g.key = f.key /\ g.cols = Append(f.cols, w)
  <2>1. g.length = Len(fs) /\ g.key = f.key /\ g.cols = Append(f.cols, w)
    BY DEF Frame
  <2> QED  BY <2>1 DEF Joins
<1>5. /\ e \in FrameSet /\ Joins(e, f, NewVector(b))
      /\ Whole(g, t) /\ Continues(g, e) /\ Writes(e, s, t) /\ t \in Store
      /\ ContentOf(w, t) = fs /\ w.size = Len(fs)
  BY <1>3, <1>4, ColumnStored
<1>6. fs \in Seq(Data) /\ w \in Vector /\ w.size \in 0 .. MaxRows
  <2>1. fs \in Seq(Data) /\ w \in Vector
    BY <1>3, ColumnStored
  <2> QED  BY <2>1, VectorParts
<1>7. g \in FrameSet
  <2>1. g.cols \in Seq(Vector) /\ Len(fs) \in 0 .. MaxRows
    BY <1>5, <1>6 DEF Whole
  <2> QED  BY <1>2, <1>4, <2>1, NoFrame
<1>8. /\ Len(f.cols) \in Nat /\ Len(g.cols) = Len(f.cols) + 1 /\ g.cols[Len(f.cols) + 1] = w
      /\ \A c \in 1 .. Len(f.cols) : g.cols[c] = f.cols[c]
      /\ \A c \in 1 .. Len(g.cols) : c \in 1 .. Len(f.cols) \/ c = Len(f.cols) + 1
  <2>1. HasColumns(f)
    BY <1>2 DEF HasColumns
  <2> QED  BY <1>4, <2>1, JoinedColumns
<1>9. /\ \A c \in 1 .. Len(f.cols) : /\ f.cols[c].size = Len(fs) /\ TableIn(f, s)[c] \in Seq(Data)
                                     /\ Len(TableIn(f, s)[c]) = Len(fs)
      /\ Len(TableIn(f, s)) = Len(f.cols)
  <2>1. \A c \in 1 .. Len(f.cols) : f.cols # <<>>
    BY <1>2
  <2> QED  BY <1>2, <2>1, SizesOfFrame
<1>10. Even(g) /\ g.length = LengthOf(g)
  <2>1. HasColumns(g)
    BY <1>5 DEF Whole, HasColumns
  <2>2. \A c \in 1 .. Len(g.cols) : g.cols[c].size = Len(fs)
    BY <1>5, <1>8, <1>9
  <2>3. Even(g) /\ (g.cols # <<>> => LengthOf(g) = Len(fs))
    BY <2>1, <2>2, EvenSizes
  <2>4. g.cols # <<>>
    BY <1>8
  <2> QED  BY <1>4, <2>3, <2>4
<1>11. JoinedFrame(f, b, g, s, t)
  BY <1>5, <1>7, <1>10 DEF JoinedFrame
<1>12. TableIn(f, t) = TableIn(f, s)
  BY <1>3, ColumnStored
<1>13. TableIn(g, t) = ColumnsWith(TableIn(f, s), fs, Len(fs))
  <2>1. PICK T, n : T = TableIn(f, s) /\ n = Len(f.cols)
    OBVIOUS
  <2>2. ASSUME NEW c \in 1 .. n + 1
        PROVE  ContentOf(g.cols[c], t) = IF c \in 1 .. n THEN T[c] \o Padding(T[c], Len(fs))
                                         ELSE fs \o Padding(fs, Len(fs))
    <3>1. CASE c \in 1 .. n
      <4>1. ContentOf(g.cols[c], t) = TableIn(f, t)[c]
        BY <1>8, <2>1, <3>1 DEF TableIn
      <4>2. T[c] \o Padding(T[c], Len(fs)) = T[c]
        BY <1>9, <2>1, <3>1, NoPadding
      <4> QED  BY <1>12, <2>1, <3>1, <4>1, <4>2
    <3>2. CASE c \notin 1 .. n
      <4>1. c = n + 1
        BY <1>8, <2>1, <3>2
      <4>2. fs \o Padding(fs, Len(fs)) = fs
        BY <1>6, NoPadding
      <4> QED  BY <1>5, <1>8, <2>1, <3>2, <4>1, <4>2
    <3> QED  BY <3>1, <3>2
  <2>3. TableIn(g, t) = [c \in 1 .. n + 1 |-> ContentOf(g.cols[c], t)]
    BY <1>8, <2>1 DEF TableIn
  <2>4. ColumnsWith(T, fs, Len(fs)) = [c \in 1 .. n + 1 |->
           IF c \in 1 .. n THEN T[c] \o Padding(T[c], Len(fs)) ELSE fs \o Padding(fs, Len(fs))]
    <3>1. Len(T) = n
      BY <1>9, <2>1
    <3> QED  BY ONLY <3>1 DEF ColumnsWith
  <2> QED  BY <2>1, <2>2, <2>3, <2>4
<1> QED  BY <1>7, <1>11, <1>13

(* The new column has more rows than the frame, whose columns are padded.  *)
LEMMA LongerColumn ==
  ASSUME NEW s, NEW sv, NEW d, NEW st, NEW h, NEW f, NEW b, CanJoin(s, sv, d, st, h, f, b),
         NEW w, NEW t, NEW fs, Filled(w, t, s, b, fs), f.length < Len(fs), AllExtend(f),
         NEW m, m = Len(fs)
  PROVE  \E us, y, g : /\ PadColumns(Cols(f.cols, t), m) = Cols(us, y)
                       /\ g = Frame(f.key, m, Append(us, w))
                       /\ g \in FrameSet /\ JoinedFrame(f, b, g, s, y)
                       /\ TableIn(g, y) = ColumnsWith(TableIn(f, s), fs, m)
<1>1. /\ h \in Handle /\ Typed(s, sv, d, st) /\ Inv(s, sv, d, st) /\ d[h] # None /\ h \notin st
      /\ f = d[h] /\ b \in Name /\ b[1] = f.key /\ Len(f.cols) < MaxCols
  BY DEF CanJoin
<1>2. /\ Whole(f, s) /\ Apart(f) /\ Even(f) /\ f.length = LengthOf(f)
      /\ f.key \in Key /\ f.length \in 0 .. MaxRows /\ f.cols \in Seq(Vector)
  BY <1>1, HolderFrame
<1>3. PICK e : e = Frame(f.key, f.length, Append(f.cols, NewVector(b)))
  OBVIOUS
<1>4. PICK e1 : e1 = Frame(f.key, f.length, Append(f.cols, w))
  OBVIOUS
<1>5. Joins(e1, f, w)
  BY <1>4 DEF Joins, Frame
<1>6. /\ e \in FrameSet /\ Joins(e, f, NewVector(b)) /\ Whole(e, s)
      /\ Whole(e1, t) /\ Continues(e1, e) /\ Writes(e, s, t)
      /\ Whole(f, t) /\ TableIn(f, t) = TableIn(f, s) /\ ContentOf(w, t) = fs
      /\ w.size = m /\ fs \in Seq(Data) /\ w \in Vector /\ t \in Store /\ m \in 0 .. MaxRows
  BY <1>3, <1>5, ColumnStored
<1>7. PICK n, T : n = Len(f.cols) /\ T = TableIn(f, s)
  OBVIOUS
<1>8. /\ \A c \in 1 .. n : f.cols[c].size = f.length /\ T[c] \in Seq(Data) /\ Len(T[c]) = f.length
      /\ Len(T) = n /\ n \in Nat
  BY <1>2, <1>7, SizesOfFrame
<1>9. AtMost(f, m)
  <2>1. f.length <= m
    BY <1>2, <1>6, MaxRowsAssumption
  <2> QED  BY <1>7, <1>8, <2>1 DEF AtMost
<1>10. PICK us, y : /\ PadColumns(Cols(f.cols, t), m) = Cols(us, y)
                    /\ Sealed(us, y, f.cols, t, n, NamesOf(f), WithPadding(T, m, n))
  <2>1. \E us, y : /\ PadColumns(Cols(f.cols, t), m) = Cols(us, y)
                   /\ Sealed(us, y, f.cols, t, n, NamesOf(f), WithPadding(TableIn(f, t), m, n))
    BY <1>2, <1>6, <1>7, <1>9, FramePadded
  <2> QED  BY <1>6, <1>7, <2>1
<1>11. AllNamed(f)
  BY <1>2, <1>6, <1>9, FramePadded
<1>12. PICK x : x = Frame(f.key, m, us)
  OBVIOUS
<1>13. x.key = f.key /\ x.cols = us /\ x.length = m
  BY <1>12, FrameFields
<1>14. /\ Whole(x, y) /\ Continues(x, f) /\ Writes(f, t, y) /\ y \in Store
       /\ TableIn(x, y) = WithPadding(T, m, n)
  <2>1. Sealed(us, y, f.cols, t, Len(f.cols), NamesOf(f), WithPadding(T, m, n))
    BY <1>7, <1>10
  <2>2. x.key = f.key /\ x.cols = us /\ Whole(f, t)
    BY <1>6, <1>13
  <2>3. /\ Whole(x, y) /\ Continues(x, f) /\ Writes(f, t, y)
        /\ TableIn(x, y) = ColumnsOf(WithPadding(T, m, n), Len(f.cols))
    BY ONLY <1>11, <2>1, <2>2, FrameSealed
  <2>4. ColumnsOf(WithPadding(T, m, n), n) = WithPadding(T, m, n)
    BY DEF ColumnsOf, WithPadding
  <2> QED  BY <1>7, <2>1, <2>3, <2>4 DEF Sealed
<1>15. PICK g : g = Frame(f.key, m, Append(us, w))
  OBVIOUS
<1>16. Joins(g, x, w) /\ g.length = m /\ g.key = f.key /\ g.cols = Append(us, w)
  BY <1>13, <1>15 DEF Joins, Frame
<1>17. /\ Whole(g, y) /\ Continues(g, e1) /\ Writes(e1, t, y)
       /\ TableIn(g, y) = Append(TableIn(x, y), ContentOf(w, t))
  <2>1. w.name = b /\ b # None /\ Vacant(f, b)
    <3>1. w.name = b
      BY DEF Filled, Settled
    <3>2. Vacant(f, b)
      BY ColumnJoins
    <3> QED  BY <1>1, <3>1, <3>2, NoneAssumption DEF Name
  <2> QED  BY ONLY <1>5, <1>6, <1>14, <1>16, <2>1, OthersPadded
<1>18. HasColumns(e) /\ HasColumns(e1) /\ HasColumns(g)
  BY <1>6, <1>17 DEF Whole, HasColumns
<1>19. Continues(g, e) /\ Writes(e, s, y)
  BY <1>6, <1>17, <1>18, ContinuesMore
<1>20. g \in FrameSet
  <2>1. g.cols \in Seq(Vector)
    BY <1>18 DEF HasColumns
  <2> QED  BY <1>2, <1>6, <1>15, <1>16, <2>1, NoFrame
<1>21. /\ Len(us) = n /\ us \in Seq(Vector) /\ Len(g.cols) = n + 1
       /\ \A c \in 1 .. n : g.cols[c] = us[c] /\ us[c].size = m
       /\ g.cols[n + 1] = w
  <2>1. Len(us) = n /\ us \in Seq(Vector)
    BY <1>10 DEF Sealed
  <2>2. ASSUME NEW c \in 1 .. n PROVE us[c].size = m
    <3>1. us[c].size = Len(T[c] \o Padding(T[c], m))
      BY <1>10 DEF Sealed, Settled, Closed, WithPadding
    <3>2. T[c] \in Seq(Data) /\ Len(T[c]) <= m /\ m \in Nat
      BY <1>2, <1>6, <1>8, MaxRowsAssumption
    <3> QED  BY <3>1, <3>2, PaddingLength
  <2> QED  BY <1>6, <1>8, <1>16, <2>1, <2>2
<1>22. Even(g) /\ g.length = LengthOf(g)
  <2>1. \A c \in 1 .. Len(g.cols) : c \in 1 .. n \/ c = n + 1
    BY <1>8, <1>21
  <2>2. \A c \in 1 .. Len(g.cols) : g.cols[c].size = m
    BY <1>6, <1>21, <2>1
  <2>3. Even(g) /\ (g.cols # <<>> => LengthOf(g) = m)
    BY <1>18, <2>2, EvenSizes
  <2>4. g.cols # <<>>
    BY <1>8, <1>21
  <2> QED  BY <1>16, <2>3, <2>4
<1>23. JoinedFrame(f, b, g, s, y)
  BY <1>6, <1>14, <1>17, <1>19, <1>20, <1>22 DEF JoinedFrame
<1>24. TableIn(g, y) = ColumnsWith(T, fs, m)
  <2>1. TableIn(g, y) = Append(WithPadding(T, m, n), fs)
    BY <1>6, <1>14, <1>17
  <2>2. fs \o Padding(fs, m) = fs
    BY <1>6, NoPadding
  <2>3. Append([c \in 1 .. n |-> T[c] \o Padding(T[c], m)], fs) =
          [c \in 1 .. n + 1 |-> IF c \in 1 .. n THEN T[c] \o Padding(T[c], m) ELSE fs]
    BY <1>8
  <2> QED  BY <1>8, <2>1, <2>2, <2>3 DEF ColumnsWith, WithPadding
<1> QED  BY <1>7, <1>10, <1>15, <1>20, <1>23, <1>24

(* The frame of h became g, whose table has the columns cols.              *)
Became(s, t, sv, d, st, h, g, cols) ==
  /\ g \in FrameSet /\ Typed(t, sv, With(d, h, g), st) /\ Inv(t, sv, With(d, h, g), st)
  /\ Tables(t, With(d, h, g), st) = With(Tables(s, d, st), h, Shown(d[h].key, cols))
  /\ Saves(t, sv, st) = Saves(s, sv, st)

LEMMA ColumnAdded ==
  ASSUME NEW s, NEW sv, NEW d, NEW st, NEW h, NEW f, NEW b, CanJoin(s, sv, d, st, h, f, b),
         NEW fs \in Seq(Data), Len(fs) <= MaxRows, NEW w, NEW t, Filled(w, t, s, b, fs)
  PROVE  /\ Len(fs) = f.length =>
              Became(s, t, sv, d, st, h, Frame(f.key, f.length, Append(f.cols, w)),
                     ColumnsWith(TableIn(f, s), fs, f.length))
         /\ Len(fs) < f.length /\ CanExtend(w) =>
              \E u, x : /\ PadColumn(Pair(w, t), f.length) = Pair(u, x)
                        /\ Became(s, x, sv, d, st, h, Frame(f.key, f.length, Append(f.cols, u)),
                                  ColumnsWith(TableIn(f, s), fs, f.length))
         /\ f.length < Len(fs) /\ AllExtend(f) =>
              \E us, y : /\ PadColumns(Cols(f.cols, t), Len(fs)) = Cols(us, y)
                         /\ Became(s, y, sv, d, st, h, Frame(f.key, Len(fs), Append(us, w)),
                                   ColumnsWith(TableIn(f, s), fs, Len(fs)))
<1>1. /\ h \in Handle /\ Typed(s, sv, d, st) /\ Inv(s, sv, d, st) /\ d[h] # None /\ h \notin st
      /\ f = d[h] /\ b \in Name
  BY DEF CanJoin
<1>2. f.length \in 0 .. MaxRows /\ f.length \in Nat /\ s \in Store
  BY <1>1, HolderFrame, MaxRowsAssumption DEF Typed
<1>3. PICK T : T = TableIn(f, s)
  OBVIOUS
<1>4. ASSUME NEW g, NEW x, JoinedFrame(f, b, g, s, x), g \in FrameSet, g.key = f.key,
             NEW cols, TableIn(g, x) = cols
      PROVE  Became(s, x, sv, d, st, h, g, cols)
  <2>1. /\ Typed(x, sv, With(d, h, g), st) /\ Inv(x, sv, With(d, h, g), st)
        /\ Tables(x, With(d, h, g), st) = With(Tables(s, d, st), h, Shown(g.key, TableIn(g, x)))
        /\ Saves(x, sv, st) = Saves(s, sv, st)
    BY <1>4, JoinedKeepsFrames
  <2> QED  BY <1>1, <1>4, <2>1 DEF Became
<1>5. ASSUME Len(fs) = f.length
      PROVE  Became(s, t, sv, d, st, h, Frame(f.key, f.length, Append(f.cols, w)),
                    ColumnsWith(T, fs, f.length))
  <2>1. PICK g : g = Frame(f.key, Len(fs), Append(f.cols, w))
    OBVIOUS
  <2>2. /\ g \in FrameSet /\ JoinedFrame(f, b, g, s, t)
        /\ TableIn(g, t) = ColumnsWith(TableIn(f, s), fs, Len(fs))
    BY <1>5, <2>1, EqualColumn
  <2>3. g.key = f.key
    BY <2>1 DEF Frame
  <2>4. Became(s, t, sv, d, st, h, g, ColumnsWith(TableIn(f, s), fs, Len(fs)))
    BY <1>4, <2>2, <2>3
  <2> QED  BY <1>3, <1>5, <2>1, <2>4
<1>6. ASSUME Len(fs) < f.length, CanExtend(w)
      PROVE  \E u, x : /\ PadColumn(Pair(w, t), f.length) = Pair(u, x)
                       /\ Became(s, x, sv, d, st, h, Frame(f.key, f.length, Append(f.cols, u)),
                                 ColumnsWith(T, fs, f.length))
  <2>1. PICK m, gs : m = f.length /\ gs = fs \o Padding(fs, m)
    OBVIOUS
  <2>2. Len(fs) <= m /\ m \in 0 .. MaxRows /\ m \in Nat
    BY <1>2, <1>6, <2>1
  <2>3. PICK u, x : PadColumn(Pair(w, t), m) = Pair(u, x) /\ Filled(u, x, s, b, gs)
    BY <1>1, <1>2, <1>6, <2>1, <2>2, NewColumnPadded
  <2>4. gs \in Seq(Data) /\ Len(gs) = f.length /\ Len(gs) = m
    BY <2>1, <2>2, PaddingLength
  <2>5. PICK g : g = Frame(f.key, Len(gs), Append(f.cols, u))
    OBVIOUS
  <2>6. /\ g \in FrameSet /\ JoinedFrame(f, b, g, s, x)
        /\ TableIn(g, x) = ColumnsWith(TableIn(f, s), gs, Len(gs))
    <3>1. CanJoin(s, sv, d, st, h, f, b) /\ Filled(u, x, s, b, gs) /\ Len(gs) = f.length
      BY <2>3, <2>4
    <3> QED  BY ONLY <2>5, <3>1, EqualColumn
  <2>7. g.key = f.key
    BY <2>5 DEF Frame
  <2>8. gs \o Padding(gs, m) = fs \o Padding(fs, m)
    BY <2>1, <2>4, NoPadding
  <2>9. ColumnsWith(T, gs, m) = ColumnsWith(T, fs, m)
    BY <2>8 DEF ColumnsWith
  <2>10. Became(s, x, sv, d, st, h, g, ColumnsWith(T, fs, m))
    <3>1. TableIn(g, x) = ColumnsWith(T, fs, m)
      BY <1>3, <2>4, <2>6, <2>9
    <3> QED  BY <1>4, <2>6, <2>7, <3>1
  <2> QED  BY <2>1, <2>3, <2>4, <2>5, <2>10
<1>7. ASSUME f.length < Len(fs), AllExtend(f)
      PROVE  \E us, y : /\ PadColumns(Cols(f.cols, t), Len(fs)) = Cols(us, y)
                        /\ Became(s, y, sv, d, st, h, Frame(f.key, Len(fs), Append(us, w)),
                                  ColumnsWith(T, fs, Len(fs)))
  <2>1. PICK m : m = Len(fs)
    OBVIOUS
  <2>2. PICK us, y, g : /\ PadColumns(Cols(f.cols, t), m) = Cols(us, y)
                        /\ g = Frame(f.key, m, Append(us, w))
                        /\ g \in FrameSet /\ JoinedFrame(f, b, g, s, y)
                        /\ TableIn(g, y) = ColumnsWith(TableIn(f, s), fs, m)
    BY <1>7, <2>1, LongerColumn
  <2>3. g.key = f.key
    BY <2>2 DEF Frame
  <2>4. Became(s, y, sv, d, st, h, g, ColumnsWith(TableIn(f, s), fs, m))
    BY <1>4, <2>2, <2>3
  <2> QED  BY <1>3, <2>1, <2>2, <2>4
<1> QED  BY <1>3, <1>5, <1>6, <1>7

(* filter chooses what the table of Table has selected.                    *)
SelectStep(a, acc, r) == IF r \in a.rows THEN Append(acc, Promise!Read(a.col[r])) ELSE acc
Selecting == INSTANCE FoldProofs WITH Op <- SelectStep

LEMMA SelectedGoes ==
  ASSUME NEW a, Len(a.col) \in Nat
  PROVE  \E it : /\ it[0] = <<>>
                 /\ \A m \in 1 .. Len(a.col) :
                      it[m] = IF m \in a.rows THEN Append(it[m - 1], Promise!Read(a.col[m]))
                                              ELSE it[m - 1]
                 /\ Promise!Selected(a.col, a.rows) = it[Len(a.col)]
<1>1. PICK seq : seq = [r \in 1 .. Len(a.col) |-> r]
  OBVIOUS
<1>2. Promise!Selected(a.col, a.rows) = Selecting!Folded(a, <<>>, seq, Len(a.col))
  <2>1. DOMAIN [r \in 1 .. Len(a.col) |-> r] = 1 .. Len(a.col)
    OBVIOUS
  <2> QED  BY <1>1, <2>1 DEF Promise!Selected, Promise!FoldLeft, Promise!MapThenFoldSet, Promise!Max,
                             Selecting!Folded, Selecting!Iter, SelectStep
<1>3. PICK it : /\ Selecting!Folding(a, it, <<>>, seq, Len(a.col))
                /\ Promise!Selected(a.col, a.rows) = it[Len(a.col)]
  BY <1>2, Selecting!FoldGoesThrough
<1>4. \A m \in 1 .. Len(a.col) : seq[m] = m
  BY <1>1
<1> QED  BY <1>3, <1>4 DEF Selecting!Folding, SelectStep

RowsAfter(accepted) == {i + 1 : i \in accepted}

LEMMA SelectedChoice ==
  ASSUME NEW col \in Seq(Data), NEW n, n = Len(col), NEW accepted, accepted \subseteq 0 .. n - 1
  PROVE  \E chosen : /\ Choosing(chosen, col, accepted)
                     /\ Promise!Selected(col, RowsAfter(accepted)) = chosen[n]
<1>1. PICK a : a = [col |-> col, rows |-> RowsAfter(accepted)]
  OBVIOUS
<1>2. a.col = col /\ a.rows = RowsAfter(accepted) /\ Len(col) \in Nat
  BY <1>1
<1>3. PICK it : /\ it[0] = <<>>
                /\ \A m \in 1 .. Len(a.col) :
                     it[m] = IF m \in a.rows THEN Append(it[m - 1], Promise!Read(a.col[m]))
                                             ELSE it[m - 1]
                /\ Promise!Selected(a.col, a.rows) = it[Len(a.col)]
  BY <1>2, SelectedGoes
<1>4. \A f : Promise!Read(f) = Read(f)
  BY DEF Promise!Read, Read
<1>5. \A m \in 1 .. Len(col) : m \in RowsAfter(accepted) <=> m - 1 \in accepted
  BY DEF RowsAfter
<1>6. Choosing(it, col, accepted)
  BY <1>2, <1>3, <1>4, <1>5 DEF Choosing
<1> QED  BY <1>2, <1>3, <1>6

(* The columns of a frame filtered.                                        *)
SelectedColumns(cols, rows) == [c \in 1 .. Len(cols) |-> Promise!Selected(cols[c], rows)]

LEMMA SelectedLength ==
  ASSUME NEW col \in Seq(Data), NEW n, n = Len(col), NEW accepted, accepted \subseteq 0 .. n - 1
  PROVE  Len(Promise!Selected(col, RowsAfter(accepted))) = Cardinality(accepted)
<1>1. PICK chosen : /\ Choosing(chosen, col, accepted)
                    /\ Promise!Selected(col, RowsAfter(accepted)) = chosen[n]
  BY SelectedChoice
<1>2. n \in 0 .. Len(col) /\ Accepted(accepted, n) = accepted
  <2>1. n \in Nat /\ n \in 0 .. Len(col)
    OBVIOUS
  <2>2. accepted \cap (0 .. n - 1) = accepted
    OBVIOUS
  <2> QED  BY <2>1, <2>2 DEF Accepted
<1>3. Len(chosen[n]) = Cardinality(Accepted(accepted, n))
  BY <1>1, <1>2, ChosenLength
<1> QED  BY <1>1, <1>2, <1>3

(* More frames are stale, that of h among them.                            *)
Staled(d, sv, st, su, h) ==
  /\ st \subseteq su /\ su \subseteq Handle \cup Key /\ h \in su
  /\ \A x \in Handle : d[x] = None => x \notin su
  /\ \A x \in Key : sv[x] = None => x \notin su

LEMMA StaleKeepsFrames ==
  ASSUME NEW s, NEW sv, NEW d, NEW st, NEW su, NEW h \in Handle, NEW e \in FrameSet,
         Typed(s, sv, d, st), Inv(s, sv, d, st), Staled(d, sv, st, su, h)
  PROVE  /\ Typed(s, sv, With(d, h, e), su) /\ Inv(s, sv, With(d, h, e), su)
         /\ Holders(With(d, h, e), sv, su) \subseteq Holders(d, sv, st)
         /\ \A x \in Handle : x # h => With(d, h, e)[x] = d[x]
<1>1. PICK L, F, c, M, G : /\ L = Holders(d, sv, st) /\ F = Frames(d, sv) /\ c = With(d, h, e)
                           /\ M = Holders(c, sv, su) /\ G = Frames(c, sv)
  OBVIOUS
<1>2. c[h] = e /\ (\A x \in Handle : x # h => c[x] = d[x]) /\ e # None /\ h \in su
  <2>1. c[h] = e /\ \A x \in Handle : x # h => c[x] = d[x]
    BY <1>1 DEF With, Typed
  <2>2. e # None
    BY NoFrame
  <2> QED  BY <2>1, <2>2 DEF Staled
<1>3. Typed(s, sv, c, su)
  <2>1. Typed(s, sv, c, st)
    BY <1>1, WithFrame
  <2> QED  BY <2>1 DEF Typed, Staled
<1>4. M \subseteq L /\ h \notin M
  <2>1. ASSUME NEW x \in M PROVE x \in L /\ x # h
    <3>1. CASE x \in Handle
      <4>1. c[x] # None /\ x \notin su /\ x # h
        BY <1>1, <1>2, <2>1, <3>1, FramesOf DEF Holders
      <4> QED  BY <1>1, <1>2, <3>1, <4>1 DEF Holders, Staled
    <3>2. CASE x \in Key
      <4>1. sv[x] # None /\ x \notin su
        BY <1>1, <2>1, <3>2, FramesOf DEF Holders
      <4> QED  BY <1>1, <1>2, <3>2, <4>1 DEF Holders, Staled
    <3> QED  BY <1>1, <3>1, <3>2, HoldersAre
  <2> QED  BY <2>1
<1>5. \A x \in M : G[x] = F[x]
  <2>1. Besides(h, L, G, F)
    <3>1. d \in [Handle -> FrameSet \cup {None}] /\ L \subseteq Handle \cup Key
      BY <1>1, HoldersAre DEF Typed
    <3> QED  BY <1>1, <3>1, FramesWith
  <2> QED  BY <1>4, <2>1 DEF Besides
<1>6. Good(L, F, s) /\ \A x \in L : Even(F[x])
  BY <1>1 DEF Inv
<1>7. Good(M, G, s) /\ \A x \in M : Even(G[x])
  BY <1>4, <1>5, <1>6 DEF Good
<1>8. \A x \in Handle : c[x] # None /\ x \notin su => c[x].length = LengthOf(c[x])
  BY <1>2 DEF Inv, Staled
<1>9. \A x \in Key : sv[x] # None /\ x \notin su => Unnamed(Frame(x, 0, sv[x]))
  BY DEF Inv, Staled
<1>10. \A x \in Handle : c[x] = None => x \notin su
  BY <1>2 DEF Staled
<1>11. \A x \in Key : sv[x] = None => x \notin su
  BY DEF Staled
<1>12. Inv(s, sv, c, su)
  BY <1>1, <1>7, <1>8, <1>9, <1>10, <1>11 DEF Inv
<1> QED  BY <1>1, <1>2, <1>3, <1>4, <1>12

(* filter of the frame of h, for g.                                        *)
StaleWith(d, sv, st, k) ==
  st \cup {x \in Handle : d[x] # None /\ d[x].key = k} \cup (IF sv[k] = None THEN {} ELSE {k})

(* The rows chosen from columns of n rows.                                 *)
CanFilter(f, s, accepted) ==
  /\ f \in FrameSet /\ s \in Store /\ Whole(f, s) /\ AllLocked(f) /\ Even(f)
  /\ f.length = LengthOf(f) /\ accepted \subseteq 0 .. f.length - 1

SiftedInto(ws, us, t, f, s, accepted, cols) ==
  LET k == f.key
      w == Len(f.cols)
  IN /\ FilterRows(k, Cols(f.cols, s), f.length, accepted) = Sift(ws, us, t)
     /\ ws \in Seq(Vector)
     /\ Sealed(us, t, NewColumns(k, w), s, w, Names(k, w), cols)
     /\ AreLong(cols, w, Cardinality(accepted)) /\ ColumnsOf(cols, w) = cols

LEMMA FrameFiltered ==
  ASSUME NEW f, NEW s, NEW accepted, CanFilter(f, s, accepted),
         NEW cols, cols = SelectedColumns(TableIn(f, s), RowsAfter(accepted))
  PROVE  \E ws, us, t : SiftedInto(ws, us, t, f, s, accepted, cols)
<1> /\ f \in FrameSet /\ s \in Store /\ Whole(f, s) /\ AllLocked(f) /\ Even(f)
    /\ f.length = LengthOf(f) /\ accepted \subseteq 0 .. f.length - 1
  BY DEF CanFilter
<1>0. PICK k, w, n : k = f.key /\ w = Len(f.cols) /\ n = f.length
  OBVIOUS
<1>1. /\ f.key \in Key /\ n \in 0 .. MaxRows /\ f.cols \in Seq(Vector) /\ w \in 0 .. MaxCols
  BY <1>0, NoFrame, MaxColsAssumption DEF Whole
<1>2. PICK base, T : base = [c \in 1 .. w |-> Base(f, c)] /\ T = TableIn(f, s)
  OBVIOUS
<1>3. /\ \A c \in 1 .. w : T[c] \in Seq(Data) /\ Len(T[c]) = n
      /\ Len(T) = w
  BY <1>0, <1>2, SizesOfFrame
<1>4. Sources(f.cols, s, base, T, w, n)
  <2>1. ASSUME NEW c \in 1 .. w PROVE Closed(f.cols[c], s, base[c], T[c])
    <3>1. Sound(f.cols[c], s, Base(f, c)) /\ f.cols[c].locked
      BY <1>0 DEF Whole, AllLocked
    <3>2. Closed(f.cols[c], s, Base(f, c), ContentOf(f.cols[c], s))
      BY <1>0, <3>1, SoundParts
    <3>3. base[c] = Base(f, c) /\ T[c] = ContentOf(f.cols[c], s)
      BY <1>0, <1>2 DEF TableIn
    <3> QED  BY <1>0, <3>2, <3>3
  <2> QED  BY <1>0, <1>1, <1>3, <2>1 DEF Sources
<1>5. PICK rows : rows = RowsAfter(accepted)
  OBVIOUS
<1>6. PICK pick : pick = [c \in 1 .. w |-> CHOOSE x : /\ Choosing(x, T[c], accepted)
                                                      /\ Promise!Selected(T[c], rows) = x[n]]
  OBVIOUS
<1>7. ASSUME NEW c \in 1 .. w
      PROVE  Choosing(pick[c], T[c], accepted) /\ Promise!Selected(T[c], rows) = pick[c][n]
  <2>1. \E x : Choosing(x, T[c], accepted) /\ Promise!Selected(T[c], rows) = x[n]
    <3>1. T[c] \in Seq(Data) /\ n = Len(T[c]) /\ accepted \subseteq 0 .. n - 1
      BY <1>0, <1>3
    <3> QED  BY ONLY <1>5, <3>1, SelectedChoice
  <2> QED  BY <1>0, <1>6, <2>1
<1>8. ChosenColumns(pick, T, accepted, w)
  BY <1>0, <1>7 DEF ChosenColumns
<1>9. PICK ws, us, t : /\ FilterRows(k, Cols(f.cols, s), n, accepted) = Sift(ws, us, t)
                       /\ ws \in Seq(Vector)
                       /\ Sealed(us, t, NewColumns(k, w), s, w, Names(k, w), Upto(pick, n, w))
  <2>1. \E ws, us, t :
          /\ FilterRows(k, Cols(f.cols, s), n, accepted) = Sift(ws, us, t)
          /\ ws \in Seq(Vector) /\ Len(ws) = w
          /\ Sealed(us, t, NewColumns(k, w), s, w, Names(k, w), Upto(pick, n, w))
    <3>1. k \in Key /\ w \in 0 .. MaxCols /\ n \in 0 .. MaxRows /\ s \in Store
      BY <1>0, <1>1
    <3> QED  BY ONLY <1>0, <1>4, <1>8, <3>1, RowsFiltered
  <2> QED  BY <1>0, <2>1
<1>10. cols = Upto(pick, n, w)
  BY <1>0, <1>2, <1>3, <1>5, <1>7 DEF SelectedColumns, Upto
<1>11. AreLong(cols, w, Cardinality(accepted))
  <2> SUFFICES ASSUME NEW c \in 1 .. w PROVE Len(cols[c]) = Cardinality(accepted)
    BY <1>0 DEF AreLong
  <2>1. cols[c] = Promise!Selected(T[c], RowsAfter(accepted))
    BY <1>0, <1>2, <1>3 DEF SelectedColumns
  <2>2. T[c] \in Seq(Data) /\ Len(T[c]) = n
    BY <1>0, <1>3
  <2>3. accepted \subseteq 0 .. n - 1
    BY <1>0
  <2>4. Len(Promise!Selected(T[c], RowsAfter(accepted))) = Cardinality(accepted)
    BY ONLY <1>0, <2>2, <2>3, SelectedLength
  <2> QED  BY <1>0, <2>1, <2>4
<1>12. ColumnsOf(cols, w) = cols
  BY <1>0, <1>2, <1>3 DEF SelectedColumns, ColumnsOf
<1> QED  BY <1>0, <1>9, <1>10, <1>11, <1>12 DEF SiftedInto

(* The tables after the frame of h, with the key k, was filtered for g.    *)
TablesFiltered(T, U, d, g, k, cols) ==
  \A y \in Handle : U[y] = IF y = g THEN Shown(k, cols)
                           ELSE IF d[y] # None /\ d[y].key = k THEN Undefined ELSE T[y]

SavesFiltered(S, U, sv, k) ==
  \A y \in Key : U[y] = IF y = k /\ sv[y] # None THEN Undefined ELSE S[y]

LEMMA StaleTables ==
  ASSUME NEW s, NEW sv, NEW d, NEW st, NEW k \in Key, NEW h \in Handle, NEW e,
         Typed(s, sv, d, st), d[h] # None, d[h].key = k, e # None, NEW c, c = With(d, h, e),
         NEW su, su = StaleWith(d, sv, st, k), h \notin st
  PROVE  /\ \A y \in Handle : Tables(s, c, su)[y] = IF d[y] # None /\ d[y].key = k THEN Undefined
                                                    ELSE Tables(s, d, st)[y]
         /\ SavesFiltered(Saves(s, sv, st), Saves(s, sv, su), sv, k)
<1>1. c[h] = e /\ \A y \in Handle : y # h => c[y] = d[y]
  BY DEF With, Typed
<1>2. \A y \in Handle : y \in su <=> y \in st \/ (d[y] # None /\ d[y].key = k)
  BY HandleAssumption DEF StaleWith
<1>3. \A y \in Key : y \in su <=> y \in st \/ (y = k /\ sv[y] # None)
  BY HandleAssumption DEF StaleWith
<1>4. ASSUME NEW y \in Handle
      PROVE  TableFor(s, c, su, y) = IF d[y] # None /\ d[y].key = k THEN Undefined
                                     ELSE TableFor(s, d, st, y)
  <2>1. CASE y = h
    BY <1>1, <1>2, <2>1 DEF TableFor
  <2>2. CASE y # h
    BY <1>1, <1>2, <2>2 DEF TableFor
  <2> QED  BY <2>1, <2>2
<1>5. ASSUME NEW y \in Key
      PROVE  SavedFor(s, sv, su, y) = IF y = k /\ sv[y] # None THEN Undefined
                                      ELSE SavedFor(s, sv, st, y)
  BY <1>3 DEF SavedFor
<1> QED  BY <1>4, <1>5 DEF Tables, Saves, SavesFiltered

Filters(s, sv, d, st, h, g, f, accepted) ==
  /\ h \in Handle /\ Typed(s, sv, d, st) /\ Inv(s, sv, d, st) /\ d[h] # None /\ h \notin st
  /\ f = d[h] /\ AllLocked(f) /\ g \in Handle /\ d[g] = None /\ accepted \subseteq 0 .. f.length - 1

LEMMA FilterKeepsFrames ==
  ASSUME NEW s, NEW sv, NEW d, NEW st, NEW h, NEW g, NEW f, NEW accepted,
         Filters(s, sv, d, st, h, g, f, accepted), NEW su, su = StaleWith(d, sv, st, f.key)
  PROVE  \E ws, us, t, e, x, c :
           /\ FilterRows(f.key, Cols(f.cols, s), f.length, accepted) = Sift(ws, us, t)
           /\ e = Frame(f.key, f.length, ws) /\ x = Frame(f.key, Cardinality(accepted), us)
           /\ e \in FrameSet /\ x \in FrameSet /\ c = With(With(d, h, e), g, x)
           /\ Typed(t, sv, c, su) /\ Inv(t, sv, c, su)
           /\ TablesFiltered(Tables(s, d, st), Tables(t, c, su), d, g, f.key,
                             SelectedColumns(TableIn(f, s), RowsAfter(accepted)))
           /\ SavesFiltered(Saves(s, sv, st), Saves(t, sv, su), sv, f.key)
<1>1. /\ h \in Handle /\ Typed(s, sv, d, st) /\ Inv(s, sv, d, st) /\ d[h] # None /\ h \notin st
      /\ f = d[h] /\ AllLocked(f) /\ g \in Handle /\ d[g] = None /\ g # h
      /\ accepted \subseteq 0 .. f.length - 1
  BY DEF Filters
<1>2. /\ f \in FrameSet /\ Whole(f, s) /\ Even(f) /\ f.length = LengthOf(f) /\ s \in Store
      /\ f.key \in Key /\ f.length \in 0 .. MaxRows /\ f.cols \in Seq(Vector)
  BY <1>1, HolderFrame DEF Typed
<1>3. PICK k, w, n, m, cols : /\ k = f.key /\ w = Len(f.cols) /\ n = f.length
                              /\ m = Cardinality(accepted)
                              /\ cols = SelectedColumns(TableIn(f, s), RowsAfter(accepted))
  OBVIOUS
<1>4. PICK ws, us, t : /\ FilterRows(k, Cols(f.cols, s), n, accepted) = Sift(ws, us, t)
                       /\ ws \in Seq(Vector)
                       /\ Sealed(us, t, NewColumns(k, w), s, w, Names(k, w), cols)
                       /\ AreLong(cols, w, m) /\ ColumnsOf(cols, w) = cols
  <2>1. CanFilter(f, s, accepted)
    BY <1>1, <1>2 DEF CanFilter
  <2>2. \E ws, us, t : SiftedInto(ws, us, t, f, s, accepted, cols)
    BY ONLY <1>3, <2>1, FrameFiltered
  <2> QED  BY <1>3, <2>2 DEF SiftedInto
<1>5. w \in 0 .. MaxCols /\ m \in 0 .. MaxRows /\ (w = 0 => m = 0)
  <2>1. w \in 0 .. MaxCols
    BY <1>2, <1>3, MaxColsAssumption DEF Whole
  <2>2. n \in Nat /\ n <= MaxRows /\ accepted \subseteq 0 .. n - 1
    BY <1>1, <1>2, <1>3, MaxRowsAssumption
  <2>3. accepted = Accepted(accepted, n)
    BY <2>2 DEF Accepted
  <2>4. m \in 0 .. n
    BY <1>3, <2>2, <2>3, AcceptedParts
  <2>5. w = 0 => n = 0
    <3>1. w = 0 => f.cols = <<>>
      <4>1. \A q \in Seq(Vector) : Len(q) = 0 => q = <<>>
        OBVIOUS
      <4> QED  BY <1>2, <1>3, <4>1
    <3> QED  BY <1>2, <1>3, <3>1 DEF LengthOf
  <2> QED  BY <2>1, <2>2, <2>4, <2>5, MaxRowsAssumption
<1>6. PICK e : e = Frame(k, n, ws)
  OBVIOUS
<1>7. e \in FrameSet /\ e # None
  BY <1>2, <1>3, <1>4, <1>6, NoFrame
<1>8. PICK c1 : c1 = With(d, h, e)
  OBVIOUS
<1>9. Staled(d, sv, st, su, h)
  <2>1. su \subseteq Handle \cup Key /\ st \subseteq su /\ h \in su
    BY <1>1, <1>2, <1>3 DEF StaleWith, Typed
  <2>2. \A y \in Handle : d[y] = None => y \notin su
    BY <1>1, HandleAssumption, <1>2 DEF StaleWith, Inv
  <2>3. \A y \in Key : sv[y] = None => y \notin su
    BY <1>1, HandleAssumption DEF StaleWith, Inv
  <2> QED  BY <2>1, <2>2, <2>3 DEF Staled
<1>10. /\ Typed(s, sv, c1, su) /\ Inv(s, sv, c1, su)
       /\ \A y \in Handle : y # h => c1[y] = d[y]
  BY <1>1, <1>7, <1>8, <1>9, StaleKeepsFrames
<1>11. Starts(s, sv, c1, su, g, k)
  <2>1. c1[g] = None
    BY <1>1, <1>10
  <2>2. \A y \in Handle : c1[y] # None /\ y \notin su => c1[y].key # k
    BY <1>3, <1>9, <1>10 DEF StaleWith, Staled
  <2>3. sv[k] = None \/ k \in su
    BY <1>3 DEF StaleWith
  <2> QED  BY <1>1, <1>2, <1>3, <1>10, <2>1, <2>2, <2>3 DEF Starts, KeyFree
<1>12. PICK x : x = Frame(k, m, us)
  OBVIOUS
<1>13. NewSealed(x, k, w, m, us, t, s, cols)
  BY <1>4, <1>5, <1>12 DEF NewSealed
<1>14. PICK c : c = With(c1, g, x)
  OBVIOUS
<1>15. /\ x \in FrameSet /\ g \notin su /\ t \in Store
       /\ Typed(t, sv, c, su) /\ Inv(t, sv, c, su)
       /\ TablesKept(g, Holders(c1, sv, su), Frames(c1, sv), s, t)
  <2>1. /\ x \in FrameSet /\ g \notin su /\ t \in Store
        /\ Typed(t, sv, With(c1, g, x), su) /\ Inv(t, sv, With(c1, g, x), su)
        /\ TablesKept(g, Holders(c1, sv, su), Frames(c1, sv), s, t)
    BY ONLY <1>11, <1>13, SealedKeepsFrames
  <2> QED  BY <1>14, <2>1
<1>16. TableIn(x, t) = cols /\ x.key = k
  <2>1. TableIn(x, t) = ColumnsOf(cols, w) /\ x.key = k
    BY ONLY <1>11, <1>13, SealedKeepsFrames
  <2> QED  BY <1>4, <2>1
<1>17. /\ Tables(t, c, su) = With(Tables(s, c1, su), g, Shown(k, cols))
       /\ Saves(t, sv, su) = Saves(s, sv, su)
  BY <1>1, <1>10, <1>14, <1>15, <1>16, TablesWith
<1>18. /\ \A y \in Handle : Tables(s, c1, su)[y] = IF d[y] # None /\ d[y].key = k THEN Undefined
                                                   ELSE Tables(s, d, st)[y]
       /\ SavesFiltered(Saves(s, sv, st), Saves(s, sv, su), sv, k)
  <2>1. k \in Key /\ d[h].key = k /\ su = StaleWith(d, sv, st, k)
    BY <1>1, <1>2, <1>3
  <2> QED  BY <1>1, <1>7, <1>8, <2>1, StaleTables
<1>19. TablesFiltered(Tables(s, d, st), Tables(t, c, su), d, g, k, cols)
  <2>1. \A y \in Handle : Tables(t, c, su)[y] = IF y = g THEN Shown(k, cols)
                                                ELSE Tables(s, c1, su)[y]
    BY <1>1, <1>17 DEF With, Tables
  <2> QED  BY <1>18, <2>1 DEF TablesFiltered
<1>20. SavesFiltered(Saves(s, sv, st), Saves(t, sv, su), sv, k)
  BY <1>17, <1>18
<1> QED
  <2>1. /\ FilterRows(k, Cols(f.cols, s), n, accepted) = Sift(ws, us, t)
        /\ e = Frame(k, n, ws) /\ x = Frame(k, Cardinality(accepted), us)
        /\ e \in FrameSet /\ x \in FrameSet /\ c = With(With(d, h, e), g, x)
        /\ Typed(t, sv, c, su) /\ Inv(t, sv, c, su)
        /\ TablesFiltered(Tables(s, d, st), Tables(t, c, su), d, g, k,
                          SelectedColumns(TableIn(f, s), RowsAfter(accepted)))
        /\ SavesFiltered(Saves(s, sv, st), Saves(t, sv, su), sv, k)
    BY <1>3, <1>4, <1>6, <1>7, <1>8, <1>12, <1>14, <1>15, <1>19, <1>20
  <2> QED  BY <1>3, <2>1

-----------------------------------------------------------------------------
(* The inductive invariant, and what every action does to the tables.      *)

Status == {"ok", "padding", "unlocked"}

(* The frames are as they should be, and so is what was saved of them.     *)
FramesInv == Typed(store, saved, df, stale) /\ Inv(store, saved, df, stale) /\ status \in Status

Shows == Tables(store, df, stale)
Keeps == Saves(store, saved, stale)

LEMMA InitFrames == Init => FramesInv /\ Shows = [h \in Handle |-> None] /\ Keeps = [k \in Key |-> None]
<1> SUFFICES ASSUME Init PROVE FramesInv /\ Shows = [h \in Handle |-> None]
                                         /\ Keeps = [k \in Key |-> None]
  OBVIOUS
<1>1. /\ \A h \in Handle : df[h] = None
      /\ \A k \in Key : saved[k] = None
      /\ stale = {} /\ status = "ok" /\ store \in Store
  BY DEF Init, Store
<1>2. Typed(store, saved, df, stale)
  BY <1>1 DEF Init, Typed
<1>3. Holders(df, saved, stale) = {}
  BY <1>1 DEF Holders
<1>4. Inv(store, saved, df, stale)
  BY <1>1, <1>3 DEF Inv, Good
<1>5. Shows = [h \in Handle |-> None] /\ Keeps = [k \in Key |-> None]
  BY <1>1 DEF Shows, Keeps, Tables, Saves, TableFor, SavedFor
<1> QED  BY <1>1, <1>2, <1>4, <1>5 DEF FramesInv, Status

LEMMA KeyIsFree ==
  ASSUME NEW k \in Key, UnusedKey(k)
  PROVE  KeyFree(df, saved, stale, k) /\ saved[k] = None
BY DEF UnusedKey, KeyFree

(* Columns replaced.                                                       *)
LEMMA ColsReplaced ==
  ASSUME NEW e \in FrameSet, NEW cols
  PROVE  [e EXCEPT !.cols = cols] = Frame(e.key, e.length, cols)
  BY DEF FrameSet, Frame

LEMMA NewFrameStep ==
  ASSUME FramesInv, NEW h \in Handle, NEW k \in Key, NEW w \in 0 .. MaxCols, NewFrame(h, k, w)
  PROVE  FramesInv' /\ Shows' = With(Shows, h, Shown(k, EmptyColumns(w))) /\ Keeps' = Keeps
<1>1. PICK f : f = Frame(k, 0, NewColumns(k, w))
  OBVIOUS
<1>2. df[h] = None /\ UnusedKey(k) /\ status = "ok"
  BY DEF NewFrame, Free
<1>3. /\ df' = With(df, h, f) /\ store' = store /\ saved' = saved /\ stale' = stale
      /\ status' = status
  BY <1>1 DEF NewFrame, With
<1>4. Typed(store, saved, df, stale) /\ Inv(store, saved, df, stale)
  BY DEF FramesInv
<1>5. KeyFree(df, saved, stale, k)
  BY <1>2, KeyIsFree
<1>6. /\ Typed(store, saved, With(df, h, f), stale) /\ Inv(store, saved, With(df, h, f), stale)
      /\ Tables(store, With(df, h, f), stale) =
           With(Tables(store, df, stale), h, Shown(k, EmptyColumns(w)))
  <2>1. w \in 0 .. MaxCols /\ Starts(store, saved, df, stale, h, k)
    BY <1>2, <1>4, <1>5 DEF Starts
  <2> QED  BY ONLY <1>1, <2>1, NewKeepsFrames
<1> QED  BY <1>3, <1>6 DEF FramesInv, Shows, Keeps

LEMMA AddRowStep ==
  ASSUME FramesInv, NEW h \in Handle, NEW last, AddRow(h, last)
  PROVE  /\ FramesInv' /\ Shows' = With(Shows, h, Shown(df[h].key, NextRow(df[h], store)))
         /\ Keeps' = Keeps
<1>1. PICK q : q = RowAddedTo(df[h], store, last)
  OBVIOUS
<1>2. /\ df[h] # None /\ h \notin stale /\ AllOpen(df[h]) /\ Len(df[h].cols) > 0
      /\ df[h].length < MaxRows
  BY DEF AddRow, Usable, Unlocked, AllOpen
<1>3. /\ df' = With(df, h, Frame(df[h].key, df[h].length + 1, q.cols)) /\ store' = q.s
      /\ saved' = saved /\ stale' = stale /\ status' = status
  BY <1>1 DEF AddRow, With, RowAddedTo
<1>4. Typed(store, saved, df, stale) /\ Inv(store, saved, df, stale)
  BY DEF FramesInv
<1>5. PICK us, t, f :
        /\ RowAddedTo(df[h], store, last) = Cols(us, t)
        /\ f = Frame(df[h].key, df[h].length + 1, us) /\ f \in FrameSet
        /\ Typed(t, saved, With(df, h, f), stale) /\ Inv(t, saved, With(df, h, f), stale)
        /\ Tables(t, With(df, h, f), stale) =
             With(Tables(store, df, stale), h, Shown(df[h].key, NextRow(df[h], store)))
        /\ Saves(t, saved, stale) = Saves(store, saved, stale)
  BY <1>2, <1>4, RowKeepsFrames
<1>6. df' = With(df, h, f) /\ store' = t
  BY <1>1, <1>3, <1>5, ColsFields
<1> QED  BY <1>3, <1>5, <1>6 DEF FramesInv, Shows, Keeps

LEMMA FromVisitorStep ==
  ASSUME FramesInv, NEW h \in Handle, NEW k \in Key, NEW w \in Col, NEW n \in RowCounts,
         FromVisitor(h, k, w, n)
  PROVE  /\ FramesInv' /\ Shows' = With(Shows, h, Shown(k, Columns(k, w, n)))
         /\ Keeps' = With(Keeps, k, Columns(k, w, n))
<1>1. PICK q : q = LockColumns(RowsVisited(k, w, n, store))
  OBVIOUS
<1>2. df[h] = None /\ UnusedKey(k) /\ n \in 0 .. MaxRows
  BY MaxRowsAssumption DEF FromVisitor, Free
<1>3. /\ df' = With(df, h, Frame(k, n, q.cols)) /\ store' = q.s
      /\ saved' = With(saved, k, Serialized(q.cols)) /\ stale' = stale /\ status' = status
  BY <1>1 DEF FromVisitor, With, RowsVisited
<1>4. Typed(store, saved, df, stale) /\ Inv(store, saved, df, stale)
  BY DEF FramesInv
<1>5. KeyFree(df, saved, stale, k) /\ saved[k] = None
  BY <1>2, KeyIsFree
<1>6. PICK us, t, f : VisitedInto(us, t, f, store, saved, df, stale, h, k, w, n)
  <2>1. Starts(store, saved, df, stale, h, k) /\ saved[k] = None /\ w \in Col /\ n \in 0 .. MaxRows
    BY <1>2, <1>4, <1>5 DEF Starts
  <2> QED  BY ONLY <2>1, VisitKeepsFrames
<1>7. df' = With(df, h, f) /\ store' = t /\ saved' = Published(saved, k, f)
  BY <1>1, <1>3, <1>6, ColsFields DEF Published, VisitedInto
<1> QED  BY <1>3, <1>6, <1>7 DEF FramesInv, Shows, Keeps, VisitedInto

LEMMA FailStep ==
  ASSUME FramesInv, NEW why \in Status, Fail(why)
  PROVE  FramesInv' /\ Shows' = Shows /\ Keeps' = Keeps
BY DEF Fail, FramesInv, Shows, Keeps

LEMMA LoadStep ==
  ASSUME FramesInv, NEW h \in Handle, NEW k \in Key, Load(h, k)
  PROVE  FramesInv' /\ Shows' = With(Shows, h, Shown(k, Keeps[k])) /\ Keeps' = Keeps
<1>1. PICK n : n = (IF saved[k] = <<>> THEN 0 ELSE saved[k][1].size)
  OBVIOUS
<1>2. PICK f : f = Frame(k, n, saved[k])
  OBVIOUS
<1>3. df[h] = None /\ saved[k] # None /\ k \notin stale
  BY DEF Load, Free
<1>4. Typed(store, saved, df, stale) /\ Inv(store, saved, df, stale)
  BY DEF FramesInv
<1>5. /\ \A c \in 1 .. Len(saved[k]) : saved[k][c].size = n
      /\ Typed(store, saved, With(df, h, f), stale) /\ Inv(store, saved, With(df, h, f), stale)
      /\ Tables(store, With(df, h, f), stale) =
           With(Tables(store, df, stale), h, Shown(k, SavedFor(store, saved, stale, k)))
  BY <1>1, <1>2, <1>3, <1>4, LoadKeepsFrames
<1>6. /\ df' = With(df, h, f) /\ store' = store /\ saved' = saved /\ stale' = stale
      /\ status' = status
  BY <1>1, <1>2, <1>5 DEF Load, With
<1>7. Keeps[k] = SavedFor(store, saved, stale, k)
  BY DEF Keeps, Saves
<1> QED  BY <1>5, <1>6, <1>7 DEF FramesInv, Shows, Keeps

(* The columns of the frame of h, read.                                    *)
LEMMA ColumnsRead ==
  ASSUME FramesInv, NEW h \in Handle, df[h] # None, h \notin stale, AllLocked(df[h]), status = "ok",
         NEW r \in Nat, r < df[h].length, NEW cols,
         ReadFrom(Frame(df[h].key, df[h].length, cols), df[h], store, r),
         df' = [df EXCEPT ![h].cols = cols],
         store' = store, saved' = saved, stale' = stale, status' = status
  PROVE  FramesInv' /\ Shows' = Shows /\ Keeps' = Keeps
<1>1. Typed(store, saved, df, stale) /\ Inv(store, saved, df, stale)
  BY DEF FramesInv
<1>2. df \in [Handle -> FrameSet \cup {None}] /\ df[h] \in FrameSet
  BY <1>1 DEF Typed
<1>3. PICK f : f = Frame(df[h].key, df[h].length, cols)
  OBVIOUS
<1>4. df' = With(df, h, f)
  BY <1>2, <1>3, ColsReplaced DEF With
<1>5. /\ Typed(store, saved, With(df, h, f), stale) /\ Inv(store, saved, With(df, h, f), stale)
      /\ Tables(store, With(df, h, f), stale) = Tables(store, df, stale)
  BY <1>1, <1>3, ReadKeepsFrames
<1> QED  BY <1>4, <1>5 DEF FramesInv, Shows, Keeps

(* The rows of a frame that is held.                                       *)
LEMMA HeldFrame ==
  ASSUME FramesInv, NEW h \in Handle, df[h] # None, h \notin stale
  PROVE  /\ df[h] \in FrameSet /\ HasColumns(df[h]) /\ Even(df[h]) /\ df[h].length = LengthOf(df[h])
         /\ df \in [Handle -> FrameSet \cup {None}]
<1>1. Typed(store, saved, df, stale) /\ Inv(store, saved, df, stale)
  BY DEF FramesInv
<1>2. df[h] \in FrameSet /\ Even(df[h]) /\ df[h].length = LengthOf(df[h]) /\ df[h].cols \in Seq(Vector)
  BY <1>1, HolderFrame
<1> QED  BY <1>1, <1>2 DEF HasColumns, Typed

LEMMA ReadFieldStep ==
  ASSUME FramesInv, NEW h \in Handle, NEW c \in Col, NEW r \in 0 .. MaxRows - 1, ReadField(h, c, r)
  PROVE  FramesInv' /\ Shows' = Shows /\ Keeps' = Keeps
<1>1. PICK f : f = df[h]
  OBVIOUS
<1>2. /\ df[h] # None /\ h \notin stale /\ AllLocked(df[h]) /\ status = "ok" /\ r < df[h].length
      /\ r \in Nat
  BY MaxRowsAssumption DEF ReadField, Usable, Locked, AllLocked
<1>3. /\ f \in FrameSet /\ HasColumns(f) /\ Even(f) /\ f.length = LengthOf(f)
      /\ df \in [Handle -> FrameSet \cup {None}]
  BY <1>1, <1>2, HeldFrame
<1>4. PICK cols : cols = OneCached(f.cols, c, store, r)
  OBVIOUS
<1>5. ReadFrom(Frame(f.key, f.length, cols), f, store, r)
  <2>1. r \in Nat /\ r < f.length
    BY <1>1, <1>2
  <2> QED  BY <1>3, <1>4, <2>1, FieldRead
<1>6. /\ df' = [df EXCEPT ![h].cols = cols]
      /\ store' = store /\ saved' = saved /\ stale' = stale /\ status' = status
  BY <1>1, <1>3, <1>4 DEF ReadField, OneCached
<1> QED  BY <1>1, <1>2, <1>5, <1>6, ColumnsRead

LEMMA ReadRowStep ==
  ASSUME FramesInv, NEW h \in Handle, NEW r \in 0 .. MaxRows - 1, ReadRow(h, r)
  PROVE  FramesInv' /\ Shows' = Shows /\ Keeps' = Keeps
<1>1. PICK f : f = df[h]
  OBVIOUS
<1>2. /\ df[h] # None /\ h \notin stale /\ AllLocked(df[h]) /\ status = "ok" /\ r < df[h].length
      /\ r \in Nat
  BY MaxRowsAssumption DEF ReadRow, Usable, Locked, AllLocked
<1>3. /\ f \in FrameSet /\ HasColumns(f) /\ Even(f) /\ f.length = LengthOf(f)
      /\ df \in [Handle -> FrameSet \cup {None}]
  BY <1>1, <1>2, HeldFrame
<1>4. PICK cols : cols = CachedAt(f.cols, store, r)
  OBVIOUS
<1>5. ReadFrom(Frame(f.key, f.length, cols), f, store, r)
  BY <1>1, <1>2, <1>3, <1>4, FieldRead
<1>6. /\ df' = [df EXCEPT ![h].cols = cols]
      /\ store' = store /\ saved' = saved /\ stale' = stale /\ status' = status
  BY <1>1, <1>3, <1>4 DEF ReadRow
<1> QED  BY <1>1, <1>2, <1>5, <1>6, ColumnsRead

LEMMA AddedFields ==
  ASSUME NEW k \in Key, NEW n \in 0 .. MaxRows, NEW m \in 0 .. MaxCols - 1
  PROVE  ColumnOf(k, m + 1, n) \in Seq(Data) /\ Len(ColumnOf(k, m + 1, n)) = n
<1>1. n \in Nat /\ \A r \in 1 .. n : r \in 1 .. MaxRows
  BY MaxRowsAssumption
<1>2. m + 1 \in Col
  BY MaxColsAssumption DEF Col
<1>3. \A r \in 1 .. n : Field(k, m + 1, r) \in Data
  BY <1>1, <1>2 DEF Field, Data
<1>4. ColumnOf(k, m + 1, n) = [r \in 1 .. n |-> Field(k, m + 1, r)]
  BY DEF ColumnOf
<1> QED  BY <1>1, <1>3, <1>4

AddedColumn(f, n) == ColumnOf(f.key, Len(f.cols) + 1, n)

LongerOf(a, b) == IF b < a THEN a ELSE b

LEMMA AddColumnStep ==
  ASSUME FramesInv, NEW h \in Handle, NEW c \in Col, NEW n \in RowCounts, AddColumn(h, c, n)
  PROVE  /\ FramesInv' /\ Keeps' = Keeps
         /\ \/ Shows' = Shows
            \/ Shows' = With(Shows, h, Shown(df[h].key,
                          ColumnsWith(TableIn(df[h], store), AddedColumn(df[h], n),
                                      LongerOf(n, df[h].length))))
<1>1. PICK f, b, fs : f = df[h] /\ b = <<f.key, c>> /\ fs = AddedColumn(f, n)
  OBVIOUS
<1>2. /\ df[h] # None /\ h \notin stale /\ status = "ok" /\ Len(f.cols) < MaxCols
      /\ UnusedColumn(f.key, c)
  BY <1>1 DEF AddColumn, Usable
<1>3. Typed(store, saved, df, stale) /\ Inv(store, saved, df, stale)
  BY DEF FramesInv
<1>4. /\ f \in FrameSet /\ HasColumns(f) /\ f.key \in Key /\ Len(f.cols) \in Nat
      /\ f.length \in Nat /\ df \in [Handle -> FrameSet \cup {None}]
      /\ f.cols \in Seq(Vector)
  BY <1>1, <1>2, HeldFrame, NoFrame, MaxRowsAssumption DEF HasColumns
<1>5. b \in Name /\ b[1] = f.key
  BY <1>1, <1>4 DEF Name
<1>6. ColumnUnused(store, df, b)
  <2>1. \A i \in 0 .. MaxRows : ChunkOf(b, i) = <<f.key, c, i>>
    BY <1>1 DEF ChunkOf
  <2> QED  BY <1>1, <1>2, <2>1 DEF UnusedColumn, ColumnUnused
<1>7. CanJoin(store, saved, df, stale, h, f, b)
  BY <1>1, <1>2, <1>3, <1>5, <1>6 DEF CanJoin
<1>8. fs \in Seq(Data) /\ Len(fs) = n /\ n \in 0 .. MaxRows /\ n \in Nat
  <2>1. n \in 0 .. MaxRows /\ n \in Nat
    BY MaxRowsAssumption
  <2>2. Len(f.cols) \in 0 .. MaxCols - 1
    BY <1>2, <1>4, MaxColsAssumption
  <2> QED  BY <1>1, <1>4, <2>1, <2>2, AddedFields DEF AddedColumn
<1>9. PICK w, t : NewColumn(b, fs, store) = Pair(w, t) /\ Filled(w, t, store, b, fs)
  <2>1. store \in Store /\ Len(fs) <= MaxRows
    BY <1>3, <1>8, MaxRowsAssumption DEF Typed
  <2> QED  BY <1>5, <1>8, <2>1, NewColumnBuilt
<1>10. PICK new : new = NewColumn(b, fs, store)
  OBVIOUS
<1>11. new.v = w /\ new.s = t /\ new = Pair(w, t)
  BY <1>9, <1>10, PairFields
<1>12. PICK T : T = TableIn(f, store)
  OBVIOUS
<1>13. ASSUME NEW s, NEW g, NEW cols, Became(store, s, saved, df, stale, h, g, cols),
              df' = With(df, h, g), store' = s, saved' = saved, stale' = stale, status' = status
       PROVE  FramesInv' /\ Keeps' = Keeps /\ Shows' = With(Shows, h, Shown(df[h].key, cols))
  BY <1>13 DEF FramesInv, Shows, Keeps, Became
<1>14. ASSUME NEW why \in Status, Fail(why)
       PROVE  FramesInv' /\ Keeps' = Keeps /\ Shows' = Shows
  BY <1>14, FailStep
<1>15. new = Lock(AppendAll([v |-> NewVector(<<f.key, c>>), s |-> store],
                            ColumnOf(f.key, Len(f.cols) + 1, n)))
  BY <1>1, <1>10 DEF NewColumn, Pair, AddedColumn
<1>16. CASE n < f.length
  <2>1. LongerOf(n, f.length) = f.length
    BY <1>4, <1>8, <1>16 DEF LongerOf
  <2>2. CASE CanExtend(w)
    <3>1. PICK u, x : /\ PadColumn(Pair(w, t), f.length) = Pair(u, x)
                      /\ Became(store, x, saved, df, stale, h,
                                Frame(f.key, f.length, Append(f.cols, u)),
                                ColumnsWith(T, fs, f.length))
      <4>1. Len(fs) <= MaxRows /\ Len(fs) < f.length
        BY <1>8, <1>16, MaxRowsAssumption
      <4> QED  BY <1>7, <1>8, <1>9, <1>12, <2>2, <4>1, ColumnAdded
    <3>2. PICK q : q = PadColumn(new, f.length)
      OBVIOUS
    <3>3. q.v = u /\ q.s = x
      BY <1>11, <3>1, <3>2, PairFields
    <3>4. /\ df' = [df EXCEPT ![h].cols = Append(f.cols, q.v)] /\ store' = q.s
          /\ saved' = saved /\ stale' = stale /\ status' = status
      BY <1>1, <1>4, <1>11, <1>15, <1>16, <2>2, <3>2 DEF AddColumn
    <3>5. df' = With(df, h, Frame(f.key, f.length, Append(f.cols, u)))
      BY <1>1, <1>4, <3>3, <3>4, ColsReplaced DEF With
    <3> QED  BY <1>1, <1>12, <1>13, <2>1, <3>1, <3>3, <3>4, <3>5
  <2>3. CASE ~CanExtend(w)
    <3>1. Fail("padding")
      BY <1>1, <1>11, <1>15, <1>16, <2>3 DEF AddColumn
    <3> QED  BY <1>14, <3>1 DEF Status
  <2> QED  BY <2>2, <2>3
<1>17. CASE n > f.length
  <2>1. LongerOf(n, f.length) = n /\ ~(n < f.length)
    BY <1>4, <1>8, <1>17 DEF LongerOf
  <2>2. CASE AllExtend(f)
    <3>1. PICK us, y : /\ PadColumns(Cols(f.cols, t), n) = Cols(us, y)
                       /\ Became(store, y, saved, df, stale, h,
                                 Frame(f.key, n, Append(us, w)), ColumnsWith(T, fs, n))
      <4>1. Len(fs) <= MaxRows /\ f.length < Len(fs)
        BY <1>8, <1>17, MaxRowsAssumption
      <4> QED  BY <1>7, <1>8, <1>9, <1>12, <2>2, <4>1, ColumnAdded
    <3>2. PICK q : q = PadColumns(Cols(f.cols, t), n)
      OBVIOUS
    <3>3. q.cols = us /\ q.s = y
      BY <3>1, <3>2, ColsFields
    <3>4. /\ df' = [df EXCEPT ![h] = Frame(f.key, n, Append(q.cols, w))] /\ store' = q.s
          /\ saved' = saved /\ stale' = stale /\ status' = status
      <4>1. q = EachColumn(LAMBDA x, z : PadColumn(x, n), [cols |-> f.cols, s |-> new.s])
        BY <1>11, <3>2 DEF PadColumns, Cols
      <4>2. \A x \in 1 .. Len(f.cols) : CanExtend(f.cols[x])
        BY <2>2 DEF AllExtend
      <4> QED  BY <1>1, <1>11, <1>15, <1>17, <2>1, <4>1, <4>2 DEF AddColumn
    <3>5. df' = With(df, h, Frame(f.key, n, Append(us, w)))
      BY <3>3, <3>4 DEF With
    <3> QED  BY <1>1, <1>12, <1>13, <2>1, <3>1, <3>3, <3>4, <3>5
  <2>3. CASE ~AllExtend(f)
    <3>1. \E why \in Status : Fail(why)
      <4>1. ~(\A x \in 1 .. Len(f.cols) : CanExtend(f.cols[x]))
        BY <2>3 DEF AllExtend
      <4>2. Fail(IF Locked(h) THEN "padding" ELSE "unlocked")
        BY <1>1, <1>17, <2>1, <4>1 DEF AddColumn
      <4> QED  BY <4>2 DEF Status
    <3> QED  BY <1>14, <3>1
  <2> QED  BY <2>2, <2>3
<1>18. CASE n = f.length
  <2>1. LongerOf(n, f.length) = n /\ ~(n < f.length) /\ ~(n > f.length)
    BY <1>4, <1>8, <1>18 DEF LongerOf
  <2>2. Became(store, t, saved, df, stale, h, Frame(f.key, f.length, Append(f.cols, w)),
               ColumnsWith(T, fs, f.length))
    <3>1. Len(fs) <= MaxRows /\ Len(fs) = f.length
      BY <1>8, <1>18, MaxRowsAssumption
    <3> QED  BY <1>7, <1>8, <1>9, <1>12, <3>1, ColumnAdded
  <2>3. /\ df' = [df EXCEPT ![h].cols = Append(f.cols, w)] /\ store' = t
        /\ saved' = saved /\ stale' = stale /\ status' = status
    BY <1>1, <1>4, <1>11, <1>15, <2>1 DEF AddColumn
  <2>4. df' = With(df, h, Frame(f.key, f.length, Append(f.cols, w)))
    BY <1>1, <1>4, <2>3, ColsReplaced DEF With
  <2> QED  BY <1>1, <1>12, <1>13, <1>18, <2>1, <2>2, <2>3, <2>4
<1> QED  BY <1>4, <1>8, <1>16, <1>17, <1>18

LEMMA FilterFrameStep ==
  ASSUME FramesInv, NEW h \in Handle, NEW g \in Handle, NEW accepted, Filter(h, g, accepted)
  PROVE  /\ FramesInv'
         /\ TablesFiltered(Shows, Shows', df, g, df[h].key,
                           SelectedColumns(TableIn(df[h], store), RowsAfter(accepted)))
         /\ SavesFiltered(Keeps, Keeps', saved, df[h].key)
<1>1. PICK f, su : f = df[h] /\ su = StaleWith(df, saved, stale, f.key)
  OBVIOUS
<1>2. /\ df[h] # None /\ h \notin stale /\ status = "ok" /\ AllLocked(f) /\ df[g] = None
      /\ accepted \subseteq 0 .. f.length - 1
  BY <1>1 DEF Filter, Usable, Free, Locked, AllLocked
<1>3. Typed(store, saved, df, stale) /\ Inv(store, saved, df, stale)
  BY DEF FramesInv
<1>4. Filters(store, saved, df, stale, h, g, f, accepted)
  BY <1>1, <1>2, <1>3 DEF Filters
<1>5. PICK ws, us, t, e, x, d :
        /\ FilterRows(f.key, Cols(f.cols, store), f.length, accepted) = Sift(ws, us, t)
        /\ e = Frame(f.key, f.length, ws) /\ x = Frame(f.key, Cardinality(accepted), us)
        /\ e \in FrameSet /\ x \in FrameSet /\ d = With(With(df, h, e), g, x)
        /\ Typed(t, saved, d, su) /\ Inv(t, saved, d, su)
        /\ TablesFiltered(Tables(store, df, stale), Tables(t, d, su), df, g, f.key,
                          SelectedColumns(TableIn(f, store), RowsAfter(accepted)))
        /\ SavesFiltered(Saves(store, saved, stale), Saves(t, saved, su), saved, f.key)
  BY ONLY <1>1, <1>4, FilterKeepsFrames
<1>6. PICK p : p = FilterRows(f.key, Cols(f.cols, store), f.length, accepted)
  OBVIOUS
<1>7. p.src = ws /\ p.cols = us /\ p.s = t
  BY <1>5, <1>6, SiftFields
<1>8. /\ df' = [df EXCEPT ![h].cols = p.src, ![g] = Frame(f.key, Cardinality(accepted), p.cols)]
      /\ store' = p.s
      /\ stale' = stale \cup {y \in Handle : df[y] # None /\ df[y].key = f.key}
                        \cup (IF saved[f.key] = None THEN {} ELSE {f.key})
      /\ saved' = saved /\ status' = status
  <2>1. [cols |-> df[h].cols, s |-> store] = Cols(df[h].cols, store)
    BY DEF Cols
  <2> QED  BY <1>1, <1>6, <2>1 DEF Filter
<1>9. stale' = su
  BY <1>1, <1>8 DEF StaleWith
<1>10. df' = d
  <2>1. df \in [Handle -> FrameSet \cup {None}] /\ df[h] \in FrameSet
    BY <1>2, <1>3 DEF Typed
  <2>2. [df[h] EXCEPT !.cols = ws] = e
    BY <1>1, <1>5, <2>1, ColsReplaced
  <2>3. df' = [df EXCEPT ![h].cols = ws, ![g] = x]
    BY <1>5, <1>7, <1>8
  <2> QED  BY <1>5, <2>1, <2>2, <2>3 DEF With
<1> QED  BY <1>1, <1>5, <1>7, <1>8, <1>9, <1>10 DEF FramesInv, Shows, Keeps

-----------------------------------------------------------------------------

LEMMA FramesStep == FramesInv /\ [Next]_vars => FramesInv'
<1> SUFFICES ASSUME FramesInv, [Next]_vars PROVE FramesInv'
  OBVIOUS
<1>1. ASSUME NEW h \in Handle, NEW k \in Key, NEW w \in 0 .. MaxCols, NewFrame(h, k, w)
      PROVE  FramesInv'
  BY <1>1, NewFrameStep
<1>2. ASSUME NEW h \in Handle, NEW last \in BOOLEAN, AddRow(h, last)
      PROVE  FramesInv'
  BY <1>2, AddRowStep
<1>3. ASSUME NEW h \in Handle, NEW k \in Key, NEW w \in Col, NEW n \in RowCounts,
             FromVisitor(h, k, w, n)
      PROVE  FramesInv'
  BY <1>3, FromVisitorStep
<1>4. ASSUME NEW h \in Handle, NEW k \in Key, Load(h, k)
      PROVE  FramesInv'
  BY <1>4, LoadStep
<1>5. ASSUME NEW h \in Handle, NEW c \in Col, NEW n \in RowCounts, AddColumn(h, c, n)
      PROVE  FramesInv'
  BY <1>5, AddColumnStep
<1>6. ASSUME NEW h \in Handle, NEW c \in Col, NEW r \in 0 .. MaxRows - 1, ReadField(h, c, r)
      PROVE  FramesInv'
  BY <1>6, ReadFieldStep
<1>7. ASSUME NEW h \in Handle, NEW r \in 0 .. MaxRows - 1, ReadRow(h, r)
      PROVE  FramesInv'
  BY <1>7, ReadRowStep
<1>8. ASSUME NEW h \in Handle, NEW g \in Handle, NEW accepted, Filter(h, g, accepted)
      PROVE  FramesInv'
  BY <1>8, FilterFrameStep
<1>9. CASE UNCHANGED vars
  BY <1>9 DEF vars, FramesInv
<1> QED  BY <1>1, <1>2, <1>3, <1>4, <1>5, <1>6, <1>7, <1>8, <1>9 DEF Next

LEMMA FramesAlways == Spec => []FramesInv
<1>1. Init => FramesInv
  BY InitFrames
<1> QED  BY <1>1, FramesStep, PTL DEF Spec

(* Type correctness: frames, saved frames and chunks are what the program  *)
(* has, and no chunk has more than ChunkSize fields                        *)
(* (dist_vector.h:121-148, dataframe.h:44-252).                            *)
THEOREM TypeCorrect == Spec => []TypeOK
<1>1. FramesInv => TypeOK
  BY DEF FramesInv, Typed, TypeOK, Store, FrameSet, Status
<1> QED  BY <1>1, FramesAlways, PTL

(* Every row of a locked frame is in stored chunks, all of them at one     *)
(* node, whatever was built, padded, filtered, loaded and read             *)
(* (dataframe.h:144-147, 223-233, dist_vector.h:120-129).                  *)
THEOREM RowsTogether == Spec => []RowsOnOneNode
<1>1. ASSUME FramesInv PROVE RowsOnOneNode
  <2> SUFFICES ASSUME NEW h \in Handle, Usable(h), Locked(h), NEW r \in 0 .. df[h].length - 1,
                      NEW c \in 1 .. Len(df[h].cols)
               PROVE  /\ r \div ChunkSize < Len(df[h].cols[c].keys)
                      /\ FieldAt(df[h].cols[c], store, r) # None
                      /\ NodeOf(df[h].cols[c], r) = NodeOf(df[h].cols[1], r)
    BY DEF RowsOnOneNode
  <2>1. PICK f : f = df[h]
    OBVIOUS
  <2>2. df[h] # None /\ h \notin stale /\ AllLocked(f)
    BY <2>1 DEF Usable, Locked, AllLocked
  <2>3. Whole(f, store) /\ Even(f) /\ f.length = LengthOf(f) /\ f.length \in 0 .. MaxRows
        /\ f.cols \in Seq(Vector)
    BY <1>1, <2>1, <2>2, HolderFrame DEF FramesInv
  <2>4. HasColumns(f)
    BY <2>3 DEF HasColumns
  <2>5. ASSUME NEW x \in 1 .. Len(f.cols)
        PROVE  /\ r \div ChunkSize < Len(f.cols[x].keys)
               /\ FieldAt(f.cols[x], store, r) # None
               /\ NodeOf(f.cols[x], r) = (r \div ChunkSize) % NumNodes
    <3>1. PICK v, b, col : v = f.cols[x] /\ b = Base(f, x) /\ col = ContentOf(v, store)
      OBVIOUS
    <3>2. Closed(v, store, b, col)
      BY <2>2, <2>3, <3>1, SoundParts DEF Whole, AllLocked
    <3>3. v.size = f.length
      BY <2>3, <2>4, <3>1, EvenParts
    <3>4. Readable(v, store, b, col, 0) /\ Len(col) = v.size
      BY <3>2, ClosedReadable DEF Closed
    <3>5. r \in 0 .. Len(col) - 1 /\ 0 <= r
      BY <2>1, <2>3, <3>3, <3>4
    <3>6. /\ r \div ChunkSize \in 0 .. Len(v.keys) - 1
          /\ v.keys[(r \div ChunkSize) + 1].home = (r \div ChunkSize) % NumNodes
          /\ v.keys \in Seq(KeyOfChunk)
      BY <3>4, <3>5, ReadableParts
    <3>7. FieldAt(v, store, r) # None
      BY <3>4, <3>5, ReadableField, NoneAssumption
    <3>8. r \div ChunkSize < Len(v.keys)
      BY <3>6
    <3>9. NodeOf(v, r) = (r \div ChunkSize) % NumNodes
      BY <3>6 DEF NodeOf
    <3> QED  BY <3>1, <3>7, <3>8, <3>9
  <2>6. 1 \in 1 .. Len(f.cols)
    BY <2>1, <2>3
  <2> QED  BY <2>1, <2>5, <2>6
<1> QED  BY <1>1, FramesAlways, PTL

-----------------------------------------------------------------------------
(* The frames are the tables of Table.                                     *)

TableSet == [key : Key, cols : Seq(Seq(Data))]

LEMMA Mapped ==
  /\ [h \in Handle |-> TableOf(h)] = Shows
  /\ [k \in Key |-> SavedTable(k)] = Keeps
<1>1. ASSUME NEW h \in Handle PROVE TableOf(h) = TableFor(store, df, stale, h)
  BY DEF TableOf, TableFor, TableIn, Contents, ContentOf, Shown
<1>2. ASSUME NEW k \in Key PROVE SavedTable(k) = SavedFor(store, saved, stale, k)
  <2>1. Frame(k, 0, saved[k]).cols = saved[k]
    BY DEF Frame
  <2> QED  BY <2>1 DEF SavedTable, SavedFor, TableIn, Contents, ContentOf
<1> QED  BY <1>1, <1>2 DEF Shows, Keeps, Tables, Saves

LEMMA MappedNext ==
  [h \in Handle |-> TableOf(h)]' = Shows' /\ [k \in Key |-> SavedTable(k)]' = Keeps'
<1>1. [h \in Handle |-> TableOf(h)] = Shows /\ [k \in Key |-> SavedTable(k)] = Keeps
  BY Mapped
<1>2. ([h \in Handle |-> TableOf(h)] = Shows /\ [k \in Key |-> SavedTable(k)] = Keeps)'
  BY <1>1, PTL
<1> QED  BY <1>2

LEMMA TableInSeq ==
  ASSUME NEW f, NEW s, Whole(f, s)
  PROVE  TableIn(f, s) \in Seq(Seq(Data))
<1>1. Len(f.cols) \in Nat
  BY DEF Whole
<1>2. \A c \in 1 .. Len(f.cols) : ContentOf(f.cols[c], s) \in Seq(Data)
  BY SoundParts DEF Whole
<1> QED  BY <1>1, <1>2 DEF TableIn

(* What Table may know of the frame of h.                                  *)
LEMMA ShownFrame ==
  ASSUME FramesInv, NEW h \in Handle
  PROVE  /\ Shows[h] = None <=> df[h] = None
         /\ Shows[h] \notin {None, Undefined} <=> df[h] # None /\ h \notin stale
         /\ df[h] # None /\ h \notin stale =>
              /\ Shows[h] = Shown(df[h].key, TableIn(df[h], store))
              /\ Shows[h].key = df[h].key /\ Shows[h].cols = TableIn(df[h], store)
         /\ df[h] # None /\ h \in stale => Shows[h] = Undefined
<1>1. Typed(store, saved, df, stale) /\ Inv(store, saved, df, stale)
  BY DEF FramesInv
<1>2. Shows[h] = TableFor(store, df, stale, h)
  BY DEF Shows, Tables
<1>3. df[h] = None => h \notin stale
  BY <1>1 DEF Inv
<1>4. CASE df[h] # None /\ h \notin stale
  <2>1. df[h].key \in Key /\ TableIn(df[h], store) \in Seq(Seq(Data))
    BY <1>1, <1>4, HolderFrame, TableInSeq
  <2>2. Shown(df[h].key, TableIn(df[h], store)) \in TableSet
    BY <2>1 DEF Shown, TableSet
  <2>3. Shows[h] = Shown(df[h].key, TableIn(df[h], store))
    BY <1>2, <1>4 DEF TableFor
  <2>4. Shows[h] \notin {None, Undefined}
    BY <2>2, <2>3, TableAssumption DEF TableSet
  <2>5. Shows[h].key = df[h].key /\ Shows[h].cols = TableIn(df[h], store)
    BY <2>3 DEF Shown
  <2> QED  BY <1>4, <2>3, <2>4, <2>5
<1>5. CASE df[h] = None
  BY <1>2, <1>3, <1>5 DEF TableFor
<1>6. CASE df[h] # None /\ h \in stale
  BY <1>2, <1>6, TableAssumption DEF TableFor
<1> QED  BY <1>4, <1>5, <1>6

LEMMA KeptFrame ==
  ASSUME FramesInv, NEW k \in Key
  PROVE  /\ Keeps[k] = None <=> saved[k] = None
         /\ Keeps[k] \notin {None, Undefined} <=> saved[k] # None /\ k \notin stale
<1>1. Typed(store, saved, df, stale) /\ Inv(store, saved, df, stale)
  BY DEF FramesInv
<1>2. Keeps[k] = SavedFor(store, saved, stale, k)
  BY DEF Keeps, Saves
<1>3. saved[k] = None => k \notin stale
  BY <1>1 DEF Inv
<1>4. CASE saved[k] # None /\ k \notin stale
  <2>1. k \in Holders(df, saved, stale) /\ Frames(df, saved)[k] = Frame(k, 0, saved[k])
    BY <1>4, FramesOf DEF Holders
  <2>2. Whole(Frame(k, 0, saved[k]), store)
    BY <1>1, <2>1 DEF Inv, Good
  <2>3. Keeps[k] \in Seq(Seq(Data))
    BY <1>2, <1>4, <2>2, TableInSeq DEF SavedFor
  <2> QED  BY <1>4, <2>3, TableAssumption
<1>5. CASE saved[k] = None
  BY <1>2, <1>3, <1>5 DEF SavedFor
<1>6. CASE saved[k] # None /\ k \in stale
  BY <1>2, <1>6, TableAssumption DEF SavedFor
<1> QED  BY <1>4, <1>5, <1>6

LEMMA KeyUnused ==
  ASSUME FramesInv, NEW k \in Key, UnusedKey(k)
  PROVE  Promise!Unused(k)
<1>1. Keeps[k] = None
  BY KeptFrame DEF UnusedKey
<1>2. \A h \in Handle : Shows[h] \notin {None, Undefined} => Shows[h].key # k
  BY ShownFrame DEF UnusedKey
<1> QED  BY <1>1, <1>2, Mapped DEF Promise!Unused, Promise!Usable

LEMMA NewFrameCreates ==
  ASSUME FramesInv, NEW h \in Handle, NEW k \in Key, NEW w \in 0 .. MaxCols, NewFrame(h, k, w)
  PROVE  Promise!Create(h, k, w, 0)
<1>1. df[h] = None /\ UnusedKey(k)
  BY DEF NewFrame, Free
<1>2. Shows[h] = None /\ Promise!Unused(k)
  BY <1>1, ShownFrame, KeyUnused
<1>3. Shows' = With(Shows, h, Shown(k, EmptyColumns(w))) /\ Keeps' = Keeps
  BY NewFrameStep
<1>4. Promise!Tabled(k, Promise!Columns(k, w, 0)) = Shown(k, EmptyColumns(w))
  BY DEF Promise!Tabled, Promise!Columns, Promise!Column, Shown, EmptyColumns
<1> QED  BY <1>2, <1>3, <1>4, Mapped, MappedNext DEF Promise!Create, With

LEMMA FromVisitorCreates ==
  ASSUME FramesInv, NEW h \in Handle, NEW k \in Key, NEW w \in Col, NEW n \in RowCounts,
         FromVisitor(h, k, w, n)
  PROVE  Promise!Create(h, k, w, n)
<1>1. df[h] = None /\ UnusedKey(k)
  BY DEF FromVisitor, Free
<1>2. Shows[h] = None /\ Promise!Unused(k)
  BY <1>1, ShownFrame, KeyUnused
<1>3. /\ Shows' = With(Shows, h, Shown(k, Columns(k, w, n)))
      /\ Keeps' = With(Keeps, k, Columns(k, w, n))
  BY FromVisitorStep
<1>4. Promise!Columns(k, w, n) = Columns(k, w, n)
  BY DEF Promise!Columns, Promise!Column, Promise!Field, Columns, ColumnOf, Field
<1>5. Promise!Tabled(k, Promise!Columns(k, w, n)) = Shown(k, Columns(k, w, n))
  BY <1>4 DEF Promise!Tabled, Shown
<1> QED  BY <1>2, <1>3, <1>4, <1>5, Mapped, MappedNext DEF Promise!Create, With

LEMMA LoadLoads ==
  ASSUME FramesInv, NEW h \in Handle, NEW k \in Key, Load(h, k)
  PROVE  Promise!Load(h, k)
<1>1. df[h] = None /\ saved[k] # None /\ k \notin stale
  BY DEF Load, Free
<1>2. Shows[h] = None /\ Keeps[k] \notin {None, Undefined}
  BY <1>1, ShownFrame, KeptFrame
<1>3. Shows' = With(Shows, h, Shown(k, Keeps[k])) /\ Keeps' = Keeps
  BY LoadStep
<1> QED  BY <1>2, <1>3, Mapped, MappedNext DEF Promise!Load, Promise!Tabled, Shown, With

(* The rows of the table of h.                                             *)
LEMMA ShownRows ==
  ASSUME FramesInv, NEW h \in Handle, df[h] # None, h \notin stale
  PROVE  /\ DOMAIN Shows[h].cols = 1 .. Len(df[h].cols) /\ Len(Shows[h].cols) = Len(df[h].cols)
         /\ Len(df[h].cols) \in Nat
         /\ Promise!Rows(Shows[h].cols) = df[h].length
         /\ df[h].length \in 0 .. MaxRows /\ df[h].length \in Nat
         /\ Shows[h].cols \in Seq(Seq(Data))
         /\ \A c \in 1 .. Len(df[h].cols) : Len(Shows[h].cols[c]) = df[h].length
<1>1. PICK f : f = df[h]
  OBVIOUS
<1>2. /\ Whole(f, store) /\ Even(f) /\ f.length = LengthOf(f)
      /\ f.length \in 0 .. MaxRows /\ f.length \in Nat /\ f.cols \in Seq(Vector)
  BY <1>1, HolderFrame, MaxRowsAssumption DEF FramesInv
<1>3. PICK T : T = Shows[h].cols
  OBVIOUS
<1>4. T = TableIn(f, store)
  BY <1>1, <1>3, ShownFrame
<1>5. T \in Seq(Seq(Data))
  BY <1>2, <1>4, TableInSeq
<1>6. /\ \A c \in 1 .. Len(f.cols) : Len(T[c]) = f.length
      /\ Len(T) = Len(f.cols) /\ Len(f.cols) \in Nat
  BY <1>2, <1>4, SizesOfFrame
<1>7. DOMAIN T = 1 .. Len(f.cols)
  BY <1>5, <1>6
<1>8. CASE T = <<>>
  <2>1. Len(f.cols) = 0
    BY <1>6, <1>8
  <2>2. \A q \in Seq(Vector) : Len(q) = 0 => q = <<>>
    OBVIOUS
  <2>3. f.length = 0
    BY <1>2, <2>1, <2>2 DEF LengthOf
  <2>4. Promise!Rows(T) = 0
    BY <1>8 DEF Promise!Rows
  <2> QED  BY <1>1, <1>2, <1>3, <1>5, <1>6, <1>7, <2>3, <2>4
<1>9. CASE T # <<>>
  <2>1. 1 \in 1 .. Len(f.cols)
    BY <1>5, <1>6, <1>9
  <2>2. Promise!Rows(T) = f.length
    BY <1>6, <1>9, <2>1 DEF Promise!Rows
  <2> QED  BY <1>1, <1>2, <1>3, <1>5, <1>6, <1>7, <2>2
<1> QED  BY <1>8, <1>9

(* Columns of the table of h replaced.                                     *)
LEMMA ShownReplaced ==
  ASSUME FramesInv, NEW h \in Handle, df[h] # None, h \notin stale, NEW cols
  PROVE  [Shows EXCEPT ![h].cols = cols] = With(Shows, h, Shown(df[h].key, cols))
<1>1. Shows[h] = Shown(df[h].key, TableIn(df[h], store))
  BY ShownFrame
<1>2. [Shows[h] EXCEPT !.cols = cols] = Shown(df[h].key, cols)
  BY <1>1 DEF Shown
<1> QED  BY <1>2 DEF With

LEMMA AddRowAdds ==
  ASSUME FramesInv, NEW h \in Handle, NEW last, AddRow(h, last)
  PROVE  Promise!AddRow(h)
<1>1. PICK f, T : f = df[h] /\ T = Shows[h].cols
  OBVIOUS
<1>2. f # None /\ h \notin stale
  BY <1>1 DEF AddRow, Usable
<1>3. /\ Shows[h].key = f.key /\ T = TableIn(f, store) /\ Promise!Rows(T) = f.length
      /\ DOMAIN T = 1 .. Len(f.cols) /\ Promise!Usable(h)
  BY <1>1, <1>2, ShownFrame, ShownRows, Mapped DEF Promise!Usable
<1>4. Shows' = With(Shows, h, Shown(f.key, NextRow(f, store))) /\ Keeps' = Keeps
  BY <1>1, AddRowStep
<1>5. PICK cols : cols = [c \in DOMAIN T |->
                            Append(T[c], Promise!Field(Shows[h].key, c, Promise!Rows(T) + 1))]
  OBVIOUS
<1>6. cols = NextRow(f, store)
  BY <1>3, <1>5 DEF NextRow, WithRow, RowOf, Field, Promise!Field
<1>7. Shows' = [Shows EXCEPT ![h].cols = cols]
  BY <1>1, <1>2, <1>4, <1>6, ShownReplaced
<1> QED  BY <1>1, <1>3, <1>4, <1>5, <1>7, Mapped, MappedNext DEF Promise!AddRow

LEMMA AddColumnAdds ==
  ASSUME FramesInv, NEW h \in Handle, NEW c \in Col, NEW n \in RowCounts, AddColumn(h, c, n)
  PROVE  Promise!AddColumn(h, n) \/ Promise!Look
<1>1. PICK f, T : f = df[h] /\ T = Shows[h].cols
  OBVIOUS
<1>2. f # None /\ h \notin stale
  BY <1>1 DEF AddColumn, Usable
<1>3. /\ Shows[h].key = f.key /\ T = TableIn(f, store) /\ Promise!Rows(T) = f.length
      /\ Len(T) = Len(f.cols) /\ Len(T) \in Nat /\ DOMAIN T = 1 .. Len(T) /\ T \in Seq(Seq(Data))
      /\ f.length \in Nat /\ Promise!Usable(h)
  BY <1>1, <1>2, ShownFrame, ShownRows, Mapped DEF Promise!Usable
<1>4. CASE Shows' = Shows /\ Keeps' = Keeps
  BY <1>4, Mapped, MappedNext DEF Promise!Look, Promise!tableVars
<1>5. CASE Shows' # Shows \/ Keeps' # Keeps
  <2>1. PICK m, fs : m = LongerOf(n, f.length) /\ fs = AddedColumn(f, n)
    OBVIOUS
  <2>2. Shows' = With(Shows, h, Shown(f.key, ColumnsWith(T, fs, m))) /\ Keeps' = Keeps
    BY <1>1, <1>3, <1>5, <2>1, AddColumnStep
  <2>3. n \in Nat /\ m = IF n > Promise!Rows(T) THEN n ELSE Promise!Rows(T)
    BY <1>3, <2>1, MaxRowsAssumption DEF LongerOf
  <2>4. Promise!Column(Shows[h].key, Len(T) + 1, n) = fs
    BY <1>3, <2>1 DEF Promise!Column, Promise!Field, AddedColumn, ColumnOf, Field
  <2>5. PICK all : all = Append(T, fs)
    OBVIOUS
  <2>6. /\ DOMAIN all = 1 .. Len(T) + 1 /\ all[Len(T) + 1] = fs
        /\ \A x \in 1 .. Len(T) : all[x] = T[x]
    BY <1>3, <2>5
  <2>7. [x \in DOMAIN all |-> Promise!Pad(all[x], m)] = ColumnsWith(T, fs, m)
    <3>1. \A x \in 1 .. Len(T) + 1 : x \in 1 .. Len(T) \/ x = Len(T) + 1
      BY <1>3
    <3>2. \A q : Promise!Pad(q, m) = q \o Padding(q, m)
      BY DEF Promise!Pad, Padding
    <3>3. Len(T) + 1 \notin 1 .. Len(T)
      BY <1>3
    <3>4. \A x \in 1 .. Len(T) + 1 :
            Promise!Pad(all[x], m) = IF x \in 1 .. Len(T) THEN T[x] \o Padding(T[x], m)
                                     ELSE fs \o Padding(fs, m)
      BY <2>6, <3>1, <3>2, <3>3
    <3> QED  BY <2>6, <3>4 DEF ColumnsWith
  <2>8. Shows' = [Shows EXCEPT ![h].cols = ColumnsWith(T, fs, m)]
    BY <1>1, <1>2, <2>2, ShownReplaced
  <2>9. Promise!AddColumn(h, n)
    <3> DEFINE t == [x \in Handle |-> TableOf(x)][h]
               cols == Append(t.cols, Promise!Column(t.key, Len(t.cols) + 1, n))
               rows == IF n > Promise!Rows(t.cols) THEN n ELSE Promise!Rows(t.cols)
               new == [x \in DOMAIN cols |-> Promise!Pad(cols[x], rows)]
    <3>1. t = Shows[h]
      BY Mapped
    <3>2. cols = all /\ rows = m
      BY <1>1, <1>3, <2>3, <2>4, <2>5, <3>1
    <3>3. new = ColumnsWith(T, fs, m)
      <4> HIDE DEF cols, rows
      <4> QED  BY <2>7, <3>2
    <3>4. [x \in Handle |-> TableOf(x)]' = [[x \in Handle |-> TableOf(x)] EXCEPT ![h].cols = new]
      <4> HIDE DEF new
      <4> QED  BY <2>8, <3>3, Mapped, MappedNext
    <3>5. [k \in Key |-> SavedTable(k)]' = [k \in Key |-> SavedTable(k)]
      BY <2>2, Mapped, MappedNext
    <3> QED  BY <1>3, <3>4, <3>5 DEF Promise!AddColumn
  <2> QED  BY <2>9
<1> QED  BY <1>4, <1>5

LEMMA FilterFilters ==
  ASSUME FramesInv, NEW h \in Handle, NEW g \in Handle, NEW accepted, Filter(h, g, accepted)
  PROVE  Promise!Filter(h, g, RowsAfter(accepted)) /\ RowsAfter(accepted) \in SUBSET (1 .. MaxRows)
<1>1. PICK f, T, k, rows : f = df[h] /\ T = Shows[h].cols /\ k = f.key /\ rows = RowsAfter(accepted)
  OBVIOUS
<1>2. f # None /\ h \notin stale /\ df[g] = None /\ accepted \subseteq 0 .. f.length - 1
  BY <1>1 DEF Filter, Usable, Free
<1>3. /\ Shows[h].key = k /\ T = TableIn(f, store) /\ Promise!Rows(T) = f.length
      /\ Len(T) = Len(f.cols) /\ DOMAIN T = 1 .. Len(T)
      /\ f.length \in 0 .. MaxRows /\ f.length \in Nat /\ Promise!Usable(h) /\ Shows[g] = None
  BY <1>1, <1>2, ShownFrame, ShownRows, Mapped DEF Promise!Usable
<1>4. rows \subseteq 1 .. f.length /\ rows \subseteq 1 .. MaxRows
  BY <1>1, <1>2, <1>3, MaxRowsAssumption DEF RowsAfter
<1>5. PICK new : new = SelectedColumns(T, rows)
  OBVIOUS
<1>6. /\ TablesFiltered(Shows, Shows', df, g, k, new) /\ SavesFiltered(Keeps, Keeps', saved, k)
  BY <1>1, <1>3, <1>5, FilterFrameStep
<1>7. new = [c \in DOMAIN T |-> Promise!Selected(T[c], rows)]
  BY <1>3, <1>5 DEF SelectedColumns
<1>8. ASSUME NEW x \in Handle
      PROVE  Shows'[x] = CASE x = g -> Promise!Tabled(k, new)
                           [] x # g /\ Promise!Usable(x) /\ Shows[x].key = k -> Undefined
                           [] OTHER -> Shows[x]
  <2>1. Promise!Usable(x) <=> df[x] # None /\ x \notin stale
    BY ShownFrame, Mapped DEF Promise!Usable
  <2>2. Promise!Tabled(k, new) = Shown(k, new)
    BY DEF Promise!Tabled, Shown
  <2>3. CASE x = g
    BY <1>6, <2>2, <2>3 DEF TablesFiltered
  <2>4. CASE x # g /\ Promise!Usable(x) /\ Shows[x].key = k
    BY <1>6, <2>1, <2>4, ShownFrame DEF TablesFiltered
  <2>5. CASE x # g /\ ~(Promise!Usable(x) /\ Shows[x].key = k)
    <3>1. Shows'[x] = IF df[x] # None /\ df[x].key = k THEN Undefined ELSE Shows[x]
      BY <1>6, <2>5 DEF TablesFiltered
    <3>2. df[x] # None /\ df[x].key = k => Shows[x] = Undefined
      BY <2>1, <2>5, ShownFrame
    <3> QED  BY <2>5, <3>1, <3>2
  <2> QED  BY <2>3, <2>4, <2>5
<1>9. Shows' = [x \in Handle |-> CASE x = g -> Promise!Tabled(k, new)
                                   [] x # g /\ Promise!Usable(x) /\ Shows[x].key = k -> Undefined
                                   [] OTHER -> Shows[x]]
  <2>1. Shows' = [x \in Handle |-> Shows'[x]]
    BY DEF Shows, Tables
  <2> QED  BY <1>8, <2>1
<1>10. Keeps' = [Keeps EXCEPT ![k] = IF Keeps[k] = None THEN None ELSE Undefined]
  <2>1. \A y \in Key : Keeps'[y] = IF y = k THEN IF Keeps[k] = None THEN None ELSE Undefined
                                   ELSE Keeps[y]
    BY <1>6, KeptFrame DEF SavesFiltered
  <2>2. Keeps' = [y \in Key |-> Keeps'[y]] /\ Keeps = [y \in Key |-> Keeps[y]]
    BY DEF Keeps, Saves
  <2>3. PICK S, V : S = Keeps /\ V = Keeps'
    OBVIOUS
  <2>4. V = [S EXCEPT ![k] = IF S[k] = None THEN None ELSE Undefined]
    BY <2>1, <2>2, <2>3
  <2> QED  BY <2>3, <2>4
<1>11. Promise!Filter(h, g, rows)
  <2> DEFINE M == [x \in Handle |-> TableOf(x)]
             S == [x \in Key |-> SavedTable(x)]
             cols == [c \in DOMAIN M[h].cols |-> Promise!Selected(M[h].cols[c], rows)]
             U == [x \in Handle |->
                     CASE x = g -> Promise!Tabled(M[h].key, cols)
                       [] x # g /\ Promise!Usable(x) /\ M[x].key = M[h].key -> Undefined
                       [] OTHER -> M[x]]
  <2>1. M = Shows /\ S = Keeps /\ M' = Shows' /\ S' = Keeps'
    BY Mapped, MappedNext
  <2>2. cols = new
    <3> HIDE DEF M
    <3> QED  BY <1>1, <1>7, <2>1
  <2>3. U = Shows'
    <3> HIDE DEF M, cols
    <3> QED  BY <1>3, <1>9, <2>1, <2>2
  <2>4. M' = U
    <3> HIDE DEF M, U
    <3> QED  BY <2>1, <2>3
  <2>5. S' = [S EXCEPT ![M[h].key] = IF S[M[h].key] = None THEN None ELSE Undefined]
    <3> HIDE DEF M, S
    <3> QED  BY <1>3, <1>10, <2>1
  <2>6. M[g] = None /\ rows \subseteq 1 .. Promise!Rows(M[h].cols)
    <3> HIDE DEF M
    <3> QED  BY <1>1, <1>3, <1>4, <2>1
  <2> QED  BY <1>3, <2>4, <2>5, <2>6 DEF Promise!Filter
<1> QED  BY <1>1, <1>4, <1>11

LEMMA LooksOnly ==
  ASSUME Shows' = Shows, Keeps' = Keeps
  PROVE  Promise!Look
  BY Mapped, MappedNext DEF Promise!Look, Promise!tableVars

LEMMA TableStep == FramesInv /\ [Next]_vars => [Promise!TableNext]_Promise!tableVars
<1> SUFFICES ASSUME FramesInv, [Next]_vars PROVE Promise!TableNext
  OBVIOUS
<1>1. ASSUME NEW h \in Handle, NEW k \in Key, NEW w \in 0 .. MaxCols, NewFrame(h, k, w)
      PROVE  Promise!TableNext
  <2>1. Promise!Create(h, k, w, 0) /\ 0 \in 0 .. MaxRows
    BY <1>1, NewFrameCreates, MaxRowsAssumption
  <2> QED  BY <2>1 DEF Promise!TableNext
<1>2. ASSUME NEW h \in Handle, NEW last \in BOOLEAN, AddRow(h, last)
      PROVE  Promise!TableNext
  BY <1>2, AddRowAdds DEF Promise!TableNext
<1>3. ASSUME NEW h \in Handle, NEW k \in Key, NEW w \in Col, NEW n \in RowCounts,
             FromVisitor(h, k, w, n)
      PROVE  Promise!TableNext
  <2>1. Promise!Create(h, k, w, n)
    BY <1>3, FromVisitorCreates
  <2>2. w \in 0 .. MaxCols /\ n \in 0 .. MaxRows
    BY MaxRowsAssumption, MaxColsAssumption DEF Col
  <2> QED  BY <2>1, <2>2 DEF Promise!TableNext
<1>4. ASSUME NEW h \in Handle, NEW k \in Key, Load(h, k)
      PROVE  Promise!TableNext
  BY <1>4, LoadLoads DEF Promise!TableNext
<1>5. ASSUME NEW h \in Handle, NEW c \in Col, NEW n \in RowCounts, AddColumn(h, c, n)
      PROVE  Promise!TableNext
  <2>1. Promise!AddColumn(h, n) \/ Promise!Look
    BY <1>5, AddColumnAdds
  <2>2. n \in 0 .. MaxRows
    BY MaxRowsAssumption
  <2> QED  BY <2>1, <2>2 DEF Promise!TableNext
<1>6. ASSUME NEW h \in Handle, NEW c \in Col, NEW r \in 0 .. MaxRows - 1, ReadField(h, c, r)
      PROVE  Promise!TableNext
  BY <1>6, ReadFieldStep, LooksOnly DEF Promise!TableNext
<1>7. ASSUME NEW h \in Handle, NEW r \in 0 .. MaxRows - 1, ReadRow(h, r)
      PROVE  Promise!TableNext
  BY <1>7, ReadRowStep, LooksOnly DEF Promise!TableNext
<1>8. ASSUME NEW h \in Handle, NEW g \in Handle, NEW accepted, Filter(h, g, accepted)
      PROVE  Promise!TableNext
  BY <1>8, FilterFilters DEF Promise!TableNext
<1>9. CASE UNCHANGED vars
  <2>1. Shows' = Shows /\ Keeps' = Keeps
    BY <1>9 DEF vars, Shows, Keeps
  <2> QED  BY <2>1, LooksOnly DEF Promise!TableNext
<1> QED  BY <1>1, <1>2, <1>3, <1>4, <1>5, <1>6, <1>7, <1>8, <1>9 DEF Next

(* The frames that applications use, and those that were published, are    *)
(* tables: whatever chunks and caches they are spread over, no reader can  *)
(* tell them from the rows they were made of (dist_vector.h:121-201,       *)
(* dataframe.h:44-252, kdstore.h:39-131).                                  *)
THEOREM FramesAreTables == Spec => ImplementsTable
<1>1. Init => Promise!TableInit
  BY InitFrames, Mapped DEF Promise!TableInit
<1>2. FramesInv /\ [Next]_vars => [Promise!TableNext]_Promise!tableVars
  BY TableStep
<1> QED  BY <1>1, <1>2, FramesAlways, PTL DEF Spec, ImplementsTable, Promise!TableSpec
=============================================================================
