----------------------------- MODULE SorParser -----------------------------
(***************************************************************************)
(* The SorParser of parser.h, which reads a file three times with a        *)
(* LineReader: the first GuessLines lines for the number of their fields,  *)
(* again for the types of the columns, and all lines for their data.  The  *)
(* fields of a file are kept with it, in order, each with the offsets of   *)
(* its "<" and ">" and with what is written in it.                         *)
(***************************************************************************)
EXTENDS LineReader, FiniteSetsExt, SequencesExt

CONSTANTS GuessLines,   \* GUESS_SCHEMA_LINES
          Lost          \* what a field reads as in a column of a wrong type

ASSUME GuessLinesAssumption == GuessLines \in Nat

VARIABLES pass,     \* the ParserMode, or how the parser ended
          types,    \* _typeGuesses
          columns   \* the ColumnSet: the cells of each column

parserVars == <<pass, types, columns>>

(* What is written in a field: what it is (a number has an optional sign,  *)
(* digits and at most one dot, all else is a text), which of the           *)
(* characters that isNumeric knows are in it, what toInt makes of its      *)
(* beginning (2 stands for all but 0 and 1), and whether it is longer than *)
(* MAX_STRING.  A number is one that an int, or a float, can hold.         *)
Written ==
  {w \in [kind : {"nothing", "number", "text"}, has : SUBSET {"digit", "sign", "dot"},
          toInt : 0 .. 2, long : BOOLEAN] :
     /\ w.kind = "nothing" => w.has = {} /\ ~w.long
     /\ w.kind = "number" => "digit" \in w.has /\ ~w.long
     /\ "digit" \notin w.has => w.toInt = 0}

Nothing == [kind |-> "nothing", has |-> {}, toInt |-> 0, long |-> FALSE]

ColumnType == {"U", "B", "I", "F", "S"}

ASSUME FieldsAssumption ==
  \A f \in File : f.fields \in Seq([from : Nat, to : Nat, is : Written])

ParserInit ==
  /\ ReaderInit
  /\ pass = "count"
  /\ types = <<>>
  /\ columns = <<>>

-----------------------------------------------------------------------------
(* _scanLine: what is written in the fields that lie in a line.            *)
FieldsOf(l) ==
  LET Inside(row, f) == IF l[1] <= f.from /\ f.to < l[2] THEN Append(row, f.is) ELSE row
  IN FoldLeft(Inside, <<>>, file.fields)

(* A mistake: a column of numbers that had a dot is taken for integers.    *)
GuessForgettingDots(t, w) ==
  IF w = Nothing \/ t = "S" THEN t
  ELSE IF w.has = {} THEN "S"
  ELSE IF "dot" \in w.has THEN "F"
  ELSE IF w.toInt # 2 /\ "sign" \notin w.has /\ t \notin {"I", "F"} THEN "B"
  ELSE "I"

(* _guessFieldType.  One digit, sign or dot anywhere makes a number of a   *)
(* text; only a text without any makes a column of strings.                *)
Guess(t, w) ==
  IF w = Nothing \/ t = "S" THEN t
  ELSE IF w.has = {} THEN "S"
  ELSE IF "dot" \in w.has \/ t = "F" THEN "F"
  ELSE IF w.toInt # 2 /\ "sign" \notin w.has /\ t # "I" THEN "B"
  ELSE "I"

(* A mistake: a column of which nothing is known stays as it is.           *)
AsGuessed(t) == t

(* The type of a column when all lines for the guess have been seen.       *)
Final(t) == IF t = "U" THEN "B" ELSE t

(* What toInt, toFloat and the comparison with 1 give back.                *)
WholeNumber == {w \in Written : w.kind = "number" /\ "dot" \notin w.has}

Readable(t) == CASE t = "B" -> {w \in WholeNumber : w.toInt # 2}
                 [] t = "I" -> WholeNumber
                 [] t = "F" -> {w \in Written : w.kind = "number"}
                 [] t = "S" -> Written

(* _appendField, and append_missing for a field that is empty.             *)
Cell(t, w) == IF w = Nothing \/ w \in Readable(t) THEN w ELSE Lost

Reading == pass \in {"count", "guess"} => Len(lines) < GuessLines
Line == FieldsOf(lines'[Len(lines')])

ReadInBuffer ==
  /\ pass \in {"count", "guess", "parse"}
  /\ Reading
  /\ ReadOn \/ ReturnNothing
  /\ UNCHANGED parserVars

(* DETECT_NUM_COLUMNS                                                      *)
CountFields ==
  /\ pass = "count"
  /\ Reading
  /\ Returns
  /\ types' = [j \in 1 .. Max({Len(types), Len(Line)}) |-> "U"]
  /\ UNCHANGED <<pass, columns>>

(* DETECT_SCHEMA                                                           *)
GuessTypes ==
  /\ pass = "guess"
  /\ Reading
  /\ Returns
  /\ types' = [j \in 1 .. Len(types) |-> IF j > Len(Line) THEN types[j] ELSE Guess(types[j], Line[j])]
  /\ UNCHANGED <<pass, columns>>

(* A mistake: a row that is too short is not filled up.                    *)
WithShortRow(row) ==
  [j \in 1 .. Len(types) |-> IF j > Len(row) THEN columns[j]
                             ELSE Append(columns[j], Cell(types[j], row[j]))]

(* PARSE_FILE, and append_missing for the fields that the line has not.    *)
WithRow(row) ==
  [j \in 1 .. Len(types) |->
     Append(columns[j], IF j > Len(row) THEN Nothing ELSE Cell(types[j], row[j]))]

(* getColumn asserts that there is a column, _appendField that a string is *)
(* not too long.                                                           *)
Rejects(row) ==
  \/ Len(row) > Len(types)
  \/ \E j \in 1 .. Len(row) : types[j] = "S" /\ row[j].long

ParseLine ==
  /\ pass = "parse"
  /\ Returns
  /\ IF Rejects(Line) THEN pass' = "aborted" /\ UNCHANGED columns
                      ELSE columns' = WithRow(Line) /\ UNCHANGED pass
  /\ UNCHANGED types

PassEnds == over \/ ~Reading

(* guessSchema asserts that there is a column.                             *)
StartGuess ==
  /\ pass = "count"
  /\ PassEnds
  /\ pass' = IF types = <<>> THEN "aborted" ELSE "guess"
  /\ Reset
  /\ UNCHANGED <<types, columns>>

StartParse ==
  /\ pass = "guess"
  /\ PassEnds
  /\ pass' = "parse"
  /\ types' = [j \in 1 .. Len(types) |-> Final(types[j])]
  /\ columns' = [j \in 1 .. Len(types) |-> <<>>]
  /\ Reset

Parsed ==
  /\ pass = "parse"
  /\ over
  /\ pass' = "done"
  /\ UNCHANGED <<readerVars, types, columns>>

ParserNext == \/ ReadInBuffer \/ CountFields \/ StartGuess \/ GuessTypes
              \/ StartParse \/ ParseLine \/ Parsed

ParserSpec == /\ ParserInit
              /\ [][ParserNext]_<<readerVars, parserVars>>
              /\ WF_<<readerVars, parserVars>>(ParserNext)

-----------------------------------------------------------------------------
ParserTypeOK ==
  /\ pass \in {"count", "guess", "parse", "done", "aborted"}
  /\ types \in Seq(ColumnType)
  /\ columns \in Seq(Seq(Written \cup {Lost}))
  /\ pass \in {"parse", "done"} =>
       Len(columns) = Len(types) /\ \A j \in 1 .. Len(types) : types[j] # "U"

(* The field of the line l that lies in the column j.                      *)
FieldIn(l, j) == LET row == FieldsOf(l) IN IF j <= Len(row) THEN row[j] ELSE Nothing

(* The lines that the guess has seen.                                      *)
Seen == (1 .. Len(lines)) \cap (1 .. GuessLines)

(* The frame has the lines of the file as its rows: a field of a line is   *)
(* read back from its row and its column, also when a line before it was   *)
(* too short and when later lines changed the guess of the type of the     *)
(* column.  Of the lines that the guess has seen, only a text is lost that *)
(* has a digit, a sign or a dot in it, and only in a column in which the   *)
(* guess saw no text without one (parser.h:412-417, 483-588, 661-666).     *)
RowsAreLines ==
  pass \in {"parse", "done"} =>
    \A j \in 1 .. Len(types) :
      /\ Len(columns[j]) = Len(lines)
      /\ \A i \in 1 .. Len(lines) :
           LET w == FieldIn(lines[i], j)
           IN \/ columns[j][i] = w
              \/ /\ columns[j][i] = Lost
                 /\ \/ i \notin Seen
                    \/ /\ w.kind = "text" /\ w.has # {}
                       /\ \A k \in Seen :
                            LET v == FieldIn(lines[k], j) IN v.kind = "text" => v.has # {}
=============================================================================
