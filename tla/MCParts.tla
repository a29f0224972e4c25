------------------------------ MODULE MCParts ------------------------------
(***************************************************************************)
(* What can be checked by itself: the monitor on the bytes of two          *)
(* connections, a Map, the SorParser on one file, the reader of            *)
(* word_count.cpp on another, and frames on a store that is one map.  They *)
(* share no state: in every behaviour one of them works and the others     *)
(* have nothing to do.                                                     *)
(***************************************************************************)
EXTENDS Framing, HashMap, SorParser, WordReader, MCDataFrame

VARIABLE part

partVars == <<frameVars, mapVars, readerVars, parserVars, wordVars, vars, part>>

MCConn == {"a", "b"}
NoTraffic == [c \in MCConn |-> {}]

(* Messages of two to five bytes, BufSize being 4, of which two fit in one *)
(* buffer, or one does, or one does not; of two connections, and of one.   *)
MCTraffic == {NoTraffic,
              [c \in MCConn |-> IF c = "a" THEN {5, 8, 10} ELSE {}],
              [c \in MCConn |-> IF c = "a" THEN {3, 8} ELSE {5}],
              [c \in MCConn |-> IF c = "a" THEN {4, 6} ELSE {3}]}

(* Three keys meet in every capacity up to 4, and two part when it doubles *)
(* to 8.                                                                   *)
MCMapKey == 1 .. 5
MCHash == <<0, 4, 1, 5, 8>>

SorFile(size, newlines, from, to, fields) ==
  [size |-> size, newlines |-> newlines, start |-> from, end |-> to, fields |-> fields]

TwoBytes(from, w) == [from |-> from, to |-> from + 1, is |-> w]

(* Every place for newlines in six bytes, and ranges that end in the file, *)
(* with it and after it.                                                   *)
LineFiles == {SorFile(6, nl, r[1], r[2], <<>>) :
                nl \in SUBSET (0 .. 5), r \in {x \in {0, 1, 3} \X (0 .. 8) : x[1] <= x[2]}}

(* What may be in a field: nothing, 1, 7, +1, 1.5; Smith, x7, 7up,         *)
(* well-known, J. Smith; and a text that is too long.                      *)
Is(kind, has, toInt, long) == [kind |-> kind, has |-> has, toInt |-> toInt, long |-> long]

MCWritten == {Nothing} \cup
  {Is("number", {"digit"} \cup x[1], x[2], FALSE) :
     x \in {<<{}, 1>>, <<{}, 2>>, <<{"sign"}, 1>>, <<{"dot"}, 1>>}} \cup
  {Is("text", x[1], x[2], x[3]) :
     x \in {<<{}, 0, FALSE>>, <<{"digit"}, 0, FALSE>>, <<{"digit"}, 2, FALSE>>,
            <<{"sign"}, 0, FALSE>>, <<{"dot"}, 0, FALSE>>, <<{}, 0, TRUE>>}}

(* Newlines, a range, the fields and what is in them.  Three lines of a    *)
(* field each, with anything in it; two fields in the first line and one   *)
(* in the second, or the other way round, with and without a last newline. *)
Some == {Nothing, Is("number", {"digit"}, 1, FALSE), Is("number", {"digit", "dot"}, 1, FALSE),
         Is("text", {}, 0, FALSE)}

Layout == {<<{2, 5, 8}, 0, 9, <<0, 3, 6>>, MCWritten>>,
           <<{4, 7}, 0, 9, <<0, 2, 5>>, Some>>,
           <<{0, 3, 8}, 1, 10, <<1, 4, 6>>, Some>>}

FieldFiles == UNION {{SorFile(9, l[1], l[2], l[3], [x \in 1 .. 3 |-> TwoBytes(l[4][x], w[x])]) :
                        w \in [1 .. 3 -> l[5]]} : l \in Layout}

NoFile == SorFile(0, {}, 0, 0, <<>>)
MCFile == LineFiles \cup FieldFiles \cup {NoFile}

MCTextFile == {f \in [size : 0 .. 8, spaces : SUBSET (0 .. 7)] : f.spaces \subseteq 0 .. f.size - 1}
NoText == [size |-> 0, spaces |-> {}]

PartsInit ==
  /\ part \in {"monitor", "map", "parser", "words", "frames"}
  /\ traffic \in (IF part = "monitor" THEN MCTraffic ELSE {NoTraffic}) /\ FrameInit
  /\ MapInit
  /\ file \in (IF part = "parser" THEN MCFile ELSE {NoFile}) /\ ParserInit
  /\ text \in (IF part = "words" THEN MCTextFile ELSE {NoText}) /\ WordInit
  /\ Init

Work ==
  \/ /\ part = "monitor"
     /\ FrameNext
     /\ UNCHANGED <<mapVars, readerVars, parserVars, wordVars, vars, part>>
  \/ /\ part = "map"
     /\ MapNext
     /\ UNCHANGED <<frameVars, readerVars, parserVars, wordVars, vars, part>>
  \/ /\ part = "parser"
     /\ ParserNext
     /\ UNCHANGED <<frameVars, mapVars, wordVars, vars, part>>
  \/ /\ part = "words"
     /\ WordNext
     /\ UNCHANGED <<frameVars, mapVars, readerVars, parserVars, vars, part>>

UseFrames ==
  /\ part = "frames"
  /\ Next
  /\ UNCHANGED <<frameVars, mapVars, readerVars, parserVars, wordVars, part>>

(* The frames are not asked to go on: their operations are calls.          *)
PartsSpec ==
  /\ PartsInit
  /\ [][Work \/ UseFrames]_partVars
  /\ WF_partVars(Work)

(* A file that is parsed is parsed to the end, however it ends and         *)
(* wherever the range does, or an assertion has failed (parser.h:300-325,  *)
(* 654-670).                                                               *)
FileParsed == part = "parser" ~> pass \in {"done", "aborted"}

(* A text file that is well-formed is read to its end (word_count.cpp:29). *)
FileRead == (part = "words" /\ Wellformed) ~> step = "done"
=============================================================================
