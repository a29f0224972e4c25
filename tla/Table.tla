-------------------------------- MODULE Table --------------------------------
(***************************************************************************)
(* What a DataFrame promises (report/doc.md:178-213): a table, held by the *)
(* application that built, loaded or filtered it, whose rows do not depend *)
(* on chunks, caches and other frames; and tables that were published      *)
(* under a key, which every node can load.                                 *)
(*                                                                         *)
(* Filter promises less than doc.md:195: the new table has the key of the  *)
(* table it was made from, and only the new one may be used from then on.  *)
(***************************************************************************)
EXTENDS Naturals, SequencesExt

CONSTANTS Handle,      \* the tables that applications hold
          Key,         \* the keys of frames
          MaxRows,
          MaxCols,
          None,
          Missing,
          Default,     \* what a missing field is read as
          Undefined    \* a table that must not be used

VARIABLES table, saved

tableVars == <<table, saved>>

(* The field in row r of column c of the table built at key k.             *)
Field(k, c, r) == <<k, c, r>>
Column(k, c, n) == [r \in 1 .. n |-> Field(k, c, r)]
Columns(k, w, n) == [c \in 1 .. w |-> Column(k, c, n)]

Tabled(k, cols) == [key |-> k, cols |-> cols]
Rows(cols) == IF cols = <<>> THEN 0 ELSE Len(cols[1])
Pad(col, n) == col \o [r \in 1 .. n - Len(col) |-> Missing]

TableInit == table = [h \in Handle |-> None] /\ saved = [k \in Key |-> None]

Usable(h) == table[h] \notin {None, Undefined}

Unused(k) == saved[k] = None /\ \A h \in Handle : Usable(h) => table[h].key # k

Create(h, k, w, n) ==
  /\ table[h] = None
  /\ Unused(k)
  /\ table' = [table EXCEPT ![h] = Tabled(k, Columns(k, w, n))]
  /\ \/ UNCHANGED saved
     \/ saved' = [saved EXCEPT ![k] = Columns(k, w, n)]

AddRow(h) ==
  /\ Usable(h)
  /\ LET t == table[h]
         r == Rows(t.cols) + 1
     IN table' = [table EXCEPT ![h].cols =
                    [c \in DOMAIN t.cols |-> Append(t.cols[c], Field(t.key, c, r))]]
  /\ UNCHANGED saved

(* The shorter of the column and the table is padded.                      *)
AddColumn(h, n) ==
  /\ Usable(h)
  /\ LET t == table[h]
         cols == Append(t.cols, Column(t.key, Len(t.cols) + 1, n))
         rows == IF n > Rows(t.cols) THEN n ELSE Rows(t.cols)
     IN table' = [table EXCEPT ![h].cols = [c \in DOMAIN cols |-> Pad(cols[c], rows)]]
  /\ UNCHANGED saved

Load(h, k) ==
  /\ table[h] = None
  /\ saved[k] \notin {None, Undefined}
  /\ table' = [table EXCEPT ![h] = Tabled(k, saved[k])]
  /\ UNCHANGED saved

Read(f) == IF f = Missing THEN Default ELSE f

(* The accepted rows, in order.                                            *)
Selected(col, rows) ==
  LET Visit(acc, r) == IF r \in rows THEN Append(acc, Read(col[r])) ELSE acc
  IN FoldLeft(Visit, <<>>, [r \in 1 .. Len(col) |-> r])

Filter(h, g, rows) ==
  /\ Usable(h)
  /\ table[g] = None
  /\ LET t == table[h]
         new == [c \in DOMAIN t.cols |-> Selected(t.cols[c], rows)]
     IN /\ rows \subseteq 1 .. Rows(t.cols)
        /\ table' = [x \in Handle |->
                       CASE x = g -> Tabled(t.key, new)
                         [] x # g /\ Usable(x) /\ table[x].key = t.key -> Undefined
                         [] OTHER -> table[x]]
        /\ saved' = [saved EXCEPT ![t.key] = IF @ = None THEN None ELSE Undefined]

(* Reading a table changes nothing.                                        *)
Look == UNCHANGED tableVars

TableNext ==
  \/ Look
  \/ \E h \in Handle :
    \/ \E k \in Key, w \in 0 .. MaxCols, n \in 0 .. MaxRows : Create(h, k, w, n)
    \/ AddRow(h)
    \/ \E n \in 0 .. MaxRows : AddColumn(h, n)
    \/ \E k \in Key : Load(h, k)
    \/ \E g \in Handle, rows \in SUBSET (1 .. MaxRows) : Filter(h, g, rows)

TableSpec == TableInit /\ [][TableNext]_tableVars
=============================================================================
