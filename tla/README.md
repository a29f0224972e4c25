# eau2 in TLA+

eau2 is a C++ program in which applications analyse tables (data frames) whose
contents are spread over the key/value stores of several processes (nodes).
This directory models its protocols and data structures, checks the models on
small instances with TLC, and proves the most important invariants, and that
the distributed store implements the one it promises, for every size with
TLAPS. `PROJECT.json` maps every definition to the lines of the
program it was translated from.

Paths below are relative to the repository; `kvstore.h` is `src/kvstore.h`
and so on.

## 1. The system

| Component | State | Operations | Interaction |
|---|---|---|---|
| **KVStore** (`kvstore.h`), one per node | `map_` under `mtx_`; `ack_recvd_`, `reply_data_`, `wag_reply_data_`, the slots of answers; `nodes_`, the sockets; `threads_`; `has_shutdown` | `put`, `get`, `wait_and_get`, `shutdown`; the monitor thread with its `process_*` functions | a call on a key of another node sends a request and polls a slot; the monitor of the other node starts a handler thread that runs the same function and answers; the caller's monitor fills the slot |
| **Registration** (`kvstore.h`, `startup_` and the rest) | the server's `directory_`, `nodes_`, `master_`, the counter `num_nodes` | connect to the server, Register, Directory, connect to the others, accept, shut down at end of file | messages over the connections being made |
| **Monitor and framing** (`kvstore.h`, `monitor_sockets_`) | `buff`, one buffer for all connections | `recv`, test for the end of a message, dispatch | turns the bytes of the connections into calls of `process_*` |
| **Map, Vector** (`map.h`, `vector.h`) | buckets, a size; chunks | put, get, contains, grow, erase; append, set, get | used by all |
| **DistributedVector, Column, DataFrame** (`dist_vector.h`, `column.h`, `dataframe.h`) | the keys of the chunks, the chunk in `current_`, `is_locked_`; columns and a length | append, lock, unlock, get; add_row, add_column, map, local_map, filter, serialize | chunks are blobs of the KVStore, chunk *i* on node *i* mod *n* |
| **KDStore, Application** (`kdstore.h`, `application.h`) | the node's KVStore | get, wait_and_get, the `from*` builders, done | serialize frames to blobs and back |
| **Demos** (`demos/*.cpp`) | sets, counters | `run_` | the nodes synchronize through `wait_and_get` only |
| **SoR parser** (`parser.h`) | `LineReader`: a range of a file, a buffer, the line begun; `SorParser`: the guess of types, columns | `readLine`, `reset`; `guessSchema`, `parseFile` | used by `fromFile` |
| **FileReader** (`word_count.cpp`) | a file, a buffer, the place in it | `visit`, `done` | used by `fromVisitor` |
| Messages, keys, serialization (`message.h`, `key.h`, `serial.h`, `deserial.h`) | none to speak of | conversions | |
| Row, Schema, DataType, visitors, String, Sys, `parser_main.h` | values | setters and getters | |

What makes it hard, and what would be correct:

* **Calls and answers.** Requests and answers carry no number, and a node has
  one flag for Acks and one pointer for each kind of Reply. Correct: an answer
  always meets the call it was given for; a call is executed and answered at
  most once; an Ack means that the blob is stored; all nodes together behave
  like one map.
* **Threads of a node.** The application, the monitor and any number of
  handlers share the map. Correct: one writer at a time; no reader in the
  middle of a growth.
* **Bytes.** TCP keeps no message boundaries, a message can be longer than what
  one `recv` returns, and all connections share one buffer. Correct: no message
  is lost, none is put together of pieces of two, none stays in the buffer.
* **Shutdown.** One node calls `done`; the others learn of it because their
  connections close, and their waiting loops end the process. Correct: every
  node ends, and those that had finished their work end well.
* **Registration.** Nodes start in any order, and the mesh of connections is
  made by all of them concurrently. Correct: one connection for each pair, the
  two ends agree on it, registration ends, nobody is left over when one fails.
* **Frames.** Chunks are written before the frame is complete, cached,
  written again. Correct: what is read is what was put in; `local_map` on all
  nodes together visits every row once, and finds it locally.
* **Buffers.** The parser and the word reader cut a file with a small buffer.
  Correct: every line and every word comes out whole, once and in order,
  wherever the buffers cut it and wherever the range ends; the readers stop.
* **Map.** Keys move when it grows. Correct: it is a function all the time.
* **Applications.** Correct: no circular wait; no `get` before the `put`.

The hazards, each with its line and the properties that cover it, are listed
in `PROJECT.json`.

## 2. Modules

```
KVOps ─┬─ KVSpec ◄─────────(refines)── KVRefinement ── MCKVStore, MCApps
       ├─ KVStore ── KVRefinement
       └─ Apps ──── MCApps
Registration ── MCRegistration
DistVector ── DataFrame ── MCDataFrame       DataFrame ──(refines)──► Table
LineReader ── SorParser ─┐
Framing, HashMap, WordReader, MCDataFrame ─┴─ MCParts

Proofs:
KVStore ── KVStoreProofs ── KVRefinementProofs (with KVRefinement)
Registration ── RegistrationProofs
DataFrame ── DataFrameProofs ── TableProofs        FoldProofs, an instance for each fold
Framing, HashMap, SorParser ── PartsProofs         of DataFrameProofs and PartsProofs
WordReader ── WordReaderProofs
```

| Module | What it is |
|---|---|
| `KVOps` | keys with their homes, calls, messages |
| `KVSpec` | the abstract store: one map, calls that are pending, applied and returned |
| `KVStore` | the store as it is: nodes, their threads, the wire |
| `KVRefinement` | the mapping from `KVStore` to `KVSpec` |
| `Apps` | the demo applications as sequences of calls |
| `Registration` | how the mesh of connections comes about |
| `Framing` | bytes of several connections, one buffer, messages |
| `DistVector` | operators on one distributed vector and its chunks |
| `DataFrame` | frames, held by applications and published |
| `Table` | what a frame promises: a table |
| `HashMap` | the `Map` with its buckets |
| `LineReader`, `SorParser` | the lines of a range of a file; three passes over them |
| `WordReader` | the `FileReader` of `word_count.cpp` |
| `MC*` | the small instances |
| `KVStoreProofs` | answers, mutex, Acks: what a node's threads do |
| `KVRefinementProofs` | all nodes are one map; applications that never fail |
| `RegistrationProofs` | one connection for each pair of nodes |
| `FoldProofs` | what a fold computes, for any operator |
| `DataFrameProofs`, `TableProofs` | operators on vectors, columns and frames; frames are tables |
| `PartsProofs` | the monitor's buffer, the map with its buckets, the lines and the rows of the parser |
| `WordReaderProofs` | the words of a file |

### KVStore

`thread[n]` is a sequence: first the main thread, then the handlers in the
order of `threads_`. As in the code, main thread and handlers run the same
`put`, `get` and `wait_and_get`, so an action such as `PutLock(n, i)` belongs
to any thread *i* of node *n*. A thread's `pc` names the places between which
another thread can interfere: before and inside the lock of `put`; before the
lock of `get`; between its unlock and its clone; the first and the repeated
`contains` of `wait_and_get`; the three polling loops; before the `send` of a
handler. `wire[m][n]` is the FIFO of whole messages from *m* to *n*;
one connection carries requests and answers.

`Receive` takes up to `MaxBatch` messages off the wire and processes the first
one: `recv()` returns what has arrived, and `c_str()` of the buffer ends at
the terminator of the first message. `MaxBatch = 1` is a network in which the
monitor always keeps up.

Undefined behaviour is a choice: after `shutdown` has run twice the process
may have crashed or not; a blob cloned after its deletion is `Garbage` or a
crash; a lookup while `grow` frees the array crashes. Uses of freed arrays
after `shutdown` count as the failures (`exit(-1)`) that closed sockets give.
`exit(-1)` of any thread ends the process (`Die`).

The sleeps of the polling loops and the timeouts of `select` have no effect
but delay, and are not there. The initial state is a complete mesh;
`Registration` shows how it comes about, and its `SocketsAgree` that the FIFO
of a pair is one connection.

### Applications

`Apps` writes each demo as the calls each node makes, in order. The blob at a
key is written as the key itself: no key is put twice. Frames have one or two
chunks, so that a chunk lives on another node than its frame. A `map` reads
each chunk of a column once, because the vector caches it; `local_map` reads
only chunks of this node. A frame of one chunk that is mapped a second time
would be served from the cache; a longer one is read again, and that is what
the model does. The seven steps of linus are the same, and one is modelled.

### Registration

The main thread's `startup_` has two steps that others can observe
(`RegisterWithServer`, `Listen`, which is the monitor's first), and the
monitor's loop the others. `process_directory_` is a loop of connects during
which the monitor reads nothing, hence the queue `todo`. `Crash` is a process
killed from outside; `exit(-1)`, `shutdown` and a crash look alike to the
other nodes. A connection is named `<<maker, other>>`.

### Frames

`DistVector` has pure operators on a vector and the store; `DataFrame` has one
action for each operation of the class. The store is one atomic map, which is
what `KVRefinement` shows the nodes to implement. A field is `<<key, column,
row>>`, so any confusion of rows, columns or frames shows.

Applications are taken to be legal where the code gives no answer: each frame
key and column key is used once, rows are added before the columns are locked
and read after, and a frame over whose chunks `filter` has written is not used
(`stale`). `ImplementsTable` therefore says what can be relied upon by such
applications; `FramesKept` in the run `filter` says what cannot.
Types of columns are left out; so is a column built but not locked, which
`add_column` cannot pad (`unlocked` is the end of the process then).

### Framing

`KVStore` puts whole messages on the wire, and `Receive` takes some of them
off. `Framing` has the bytes under it: a byte is its position in the stream of
its connection, a message ends at the position of its NUL, `recv()` returns any
number of bytes up to `BufSize` of any connection, and `buff` is the sequence
of the pieces added to it. A message is taken from it when the last byte but
one of what `recv()` returned is a newline, whatever else is in `buff`.
`torn` remembers that pieces of two connections have met in `buff`, or that a
piece of one byte ended a message or was taken to end one (the code then looks
at `buffer_[-1]`, which is a choice). `TakesWholeMessages` says that without
these, and after them once `buff` is empty and no message is half received,
the monitor does what `Receive` of `KVStore` says.

### Map

A bucket of `HashMap` is a function from its keys to their values; `map` is the
object and `agrees` the assertion of `grow`. `grow` puts key by key into a map
twice as large, which has room for all of them, so that it is one definition.
`KVStore` has `map_` as a function, which `MapIsFunction` says it is.

### Parser and word reader

`LineReader` has the loop of `readLine` in steps, one for each thing it finds:
an empty buffer, a newline, none; `at` and `upto` are offsets in the file
instead of positions in the buffer. `SorParser` takes its lines in three
passes, `pass` being the `ParserMode`. What is written in a field is a record
of what the code tells apart: whether it is nothing, a number or a text (`kind`),
which of the characters of `isNumeric` are in it (`has`), what `toInt` makes of
its beginning, and whether it is longer than `MAX_STRING`. `Guess` follows
`_guessFieldType` on these: any digit, sign or dot makes a number of a field,
whatever else is in it, so `well-known` and `J. Smith` are guessed as an integer
and a float. `Cell` is what is written where the conversion gives it back, and
`Lost` where it does not. `RowsAreLines` says which fields may be lost: of the
lines that were guessed from, a text with a digit, a sign or a dot, where the
column has no other text. The comment at `parser.h:546` ("if there are non-numeric
chars then this must be a string column") is true of texts without these only.
`WordReader` has each test and each refill of the loops of `FileReader` as a
step. Where its code leaves the buffer, or copies within it with an overlapping
`memcpy`, the model stops in `"overrun"`.

`MCParts` holds the parts that work by themselves, and the frames of
`MCDataFrame`; one of them (`part`) works in each behaviour. They share no state.

## 3. Runs

| Run | Instance | What it asks |
|---|---|---|
| `chaos` | 2 nodes, 2 keys, every pair of programs of at most 2 calls out of 7, `MaxBatch` 2, capacity 1 | `TypeOK`; `AnswersMatchCalls`, `OnePlacePerCall`, `AckMeansStored`, `MutexOK` |
| `exchange` | 3 nodes, 3 keys; all disciplined programs with 2 or 3 calls on two nodes, and two programs of three nodes | `ImplementsPromise` (refinement of `KVSpec`), `CallsReturn` |
| `apps` | 3 nodes; trivial, demo, word_count, linus | `NoFailure`, `AppsComplete`, `AllFinish` |
| `demo_done` | demo as it is | `NoFailure` is violated |
| `coalesced` | word_count on 2 nodes, `MaxBatch` 2 | `NothingLost` is violated |
| `grow_race` | linus on 2 nodes, capacity 10 as in `map.h` | `NoReadDuringGrow` is violated |
| `registration` | 4 nodes, any may be killed | `TypeOK`, `OneConnection`, `SocketsAgree`, `AllConnect`, `AllGoDown` |
| `listen_race` | 4 nodes, none is killed | `DirectoryConnects` is violated |
| `filter`, `pad_empty` | 2 handles, 1 key, chunks of 2 fields on 2 nodes, up to 5 rows and 2 columns | `FramesKept`, `PaddingSucceeds` are violated |
| `parts`, the monitor | 2 connections, pieces of up to 4 bytes, up to 3 messages, of 2 to 5 bytes | `FrameTypeOK`, `TakesWholeMessages`, `NothingLeftBehind` |
| `parts`, the map | 5 keys, 2 values, capacity 1 at first | `MapTypeOK`, `KeysInPlace`, `MapIsFunction` |
| `parts`, the parser | a buffer of 3 bytes; files of 6 bytes with newlines anywhere and ranges anywhere; files of 9 bytes with 3 fields, of 11 kinds where each line has one, of 4 where the lines differ; 2 lines to guess from | `ReaderTypeOK`, `WholeLines`, `NoLineLeftOut`, `ParserTypeOK`, `RowsAreLines`, `FileParsed` |
| `parts`, the word reader | a buffer of 4 bytes, files of up to 8 bytes with white space anywhere | `WordTypeOK`, `RowsAreWords`, `FileRead` |
| `parts`, the frames | as `filter` | `TypeOK`, `RowsOnOneNode`, `ImplementsTable` (refinement of `Table`) |
| `overread` | as `parts` | `LinesInRange` is violated |

**Bounds.** `Programs` bounds the calls, and with them the handlers and the
messages; nothing else in `KVStore` is unbounded. Two nodes are enough for
`chaos` because a remote call involves two nodes, and a node calls and serves
at once there; a third node comes in `exchange`, where three wait for each
other in a circle and two wait at the third for one key. Capacity 1 makes the
map grow at the first put to a map that holds a key. In `apps` it is 64, more
keys than there are: the race that `grow_race` shows is kept out. The backlog
of 4 in `registration` equals the number of nodes, so that the network is full
when the last one joins. Five rows in chunks of two give full chunks, a
partial one, one stored again by padding on the boundary and off it, and a
home that comes round again.

In `parts`, messages are shorter than, as long as and longer than the buffer,
and two fit in one; hashes put three of the five keys in one bucket up to
capacity 4 and part two of them at 8, the largest that 5 keys reach. A file of
6 bytes fills the buffer of 3 twice, and nothing in the readers depends on more
than the buffer before and the one at hand; a file of 9 bytes has room for
three lines with a field each, one more than are guessed from; its fields are
nothing, `1`, `7`, `+1`, `1.5`, and texts without a numeric character, with a digit
at the beginning or elsewhere, with a sign, with a dot, and too long. A word of half
the buffer fits twice into the 8 bytes.

**Deadlock** is not checked in any run: the program stops, when applications
have ended or failed, when a node waits for a key that nobody puts, when the
network has registered, when a file is read or the last byte received. That
those who should go on do so is what `CallsReturn`, `AppsComplete`,
`AllFinish`, `AllConnect`, `AllGoDown`, `NothingLeftBehind`, `FileParsed` and
`FileRead` are for.

**Fairness.** Each thread of a node that can take a step does so in the end
(`WF` of the main thread's, the handlers', the monitor's and the exit steps of
each node): they are threads of an operating system, and the loops they wait
in look again every second. The handlers of a node share one condition, which
is enough because every behaviour has finitely many steps. Nothing is assumed
of failures of `send`, nor of `Crash`. In `parts` it is one condition, that the
part goes on when it can (`Work`; operations of frames are calls, and nothing is
assumed of them): the parser and the readers are sequential loops, and
the monitor's `recv` returns what was sent.

**Violations.** Each of the seven is a disagreement of the code with a
sentence of `report/doc.md` or a comment, quoted under `findings`:

1. `coalesced`: an answer and a request of one node, sent by two threads, can
   arrive in one `recv()`; the second message is lost and its caller waits for ever.
2. `demo_done`: `done` overtakes the Ack of the put that it waited for.
   `apps` contains the demo without `done`, and a demo in which the counter
   announces its end under a key of its own node, which ends well.
3. `grow_race`: `wait_and_get` reads the map without the mutex.
4. `listen_race`: a client is in the directory before it listens.
5. `filter`: the new frame is written over the old one; `pad_empty`: a column
   without fields, or of a loaded frame, cannot be padded.
6. `overread`: `readLine` cuts what it reads where the first buffer would pass
   the end of the range, and not what is left of the range: a range longer than
   the buffer is read past its end, and lines behind it are returned.

What else goes wrong in the models without a property that forbids it is listed
under `hazards` with a note: the blob that `get` clones after it has given the
mutex up, pieces of two connections in one buffer, a piece of one byte, a second
`shutdown`, and the last word of a file without white space at its end.

Every property of a passing run has a mutant: a definition of the same module,
introduced by "A mistake:", that breaks it.

## 4. Theorems

All hold for any sets of nodes, keys, blobs and programs, any `MaxBatch` and
any capacity, any file, range and buffer, any hash function, under the
`ASSUME`s of the modules (constants have their types, the fillers `None`,
`Garbage`, `NoLine` and `Absent` are no values nor anything else they stand
next to, a file's fields and white space lie in it, the network has at most
`Backlog` nodes), which TLC evaluates in the runs. Every safety property of a
passing run is stated by one of them.

### The store

* **`TypeCorrect`**: `Spec => []TypeOK`. The invariant is `TypeInv`, `TypeOK`
  with `ThreadsOK`: what each `pc` says of the thread's call. Without it the
  value of a `copy` could be `None`, and a Reply would not be a message.
* **`AnswersCorrect`**, **`CallsExecutedOnce`**: from `CallInv`, which says
  for every node and every other one what may be on the wire in both
  directions, in the handlers and in the slots, and that the call is in one of
  these places at most. Neither half is inductive by itself: that an arriving
  answer is for the present call follows from its being the only thing under
  way for its node. The lemmas of `KVStoreProofs` state which of these places
  a step can disturb (`CallInvFrame`, `WireSend`, `WireReceive`, ...); each
  action is then one lemma. Losing messages does no harm, and so
  `MaxBatch` is arbitrary.
* **`MutexCorrect`**: from `MutexInv`, which adds that the holder of the mutex
  is one of the existing threads: a new handler would otherwise seem to hold it.
* **`AckCorrect`**: from `CallInv` and `StoreInv`: the blob of a call that has
  had its effect as a put is in the map of its home. A handler that is about to
  send its Ack has stored before, and no key is ever removed; that the Ack on
  the wire or in the slot belongs to that put is `CallInv`.
* **`PromiseKept`**: every step of `KVStore` is a step of `KVSpec` or changes
  nothing there. `KVRefinement` reads the state of a call off the thread,
  message or slot in which it is; `WhereInv` states what is read for each of
  these places, which is well-defined because the call is in one of them only
  (`CallInv`), and `WorkInv` turns it round: the thread that works on a call
  knows its owner, its home and its state. `CallFrame` and `WorkGoesOn` say
  which calls a step leaves alone; then each action is one lemma: `BeginLocal`
  and `BeginRemote` are `Invoke`, `GetLookup` and a handler's `PutStore` are
  `Apply`, a main thread's `PutStore` is `ApplyAndReturn`, `GetCopy` and the
  three returns are `Return`, a `Receive` of several messages is `Lose`.
  It has two hypotheses. `LossAllowed`: the abstract store is allowed to lose
  calls unless `MaxBatch = 1`. `[]NoGarbage`: no put frees a blob that a get is
  about to clone; `get` gives the lock up before it clones, and without the
  hypothesis the promise is broken.
* **`NoDanglingPointer`**, **`PromiseKeptOnce`**: the second hypothesis holds
  in applications that put each key at most once (`WriteOnce`), as the demos
  do. From `OnceInv`: what is in the map was put by a call that is past, and a
  thread that is about to store is at work on a present call, so that what it
  finds at its key can only be `None`. That a call which has had its effect
  stays past uses `PromiseStep`, the step of `KVSpec`, and so `PromiseKept` is
  not only the aim but a lemma here: the invariant and the refinement are
  proved by one induction.
* **`NoNodeFails`**: no process is ended by `exit(-1)`, an assertion or a memory
  error. The hypotheses are on the applications: `Disciplined` (no key is put
  twice), `Cooperative` (no call of `done`; before it gets a key, a node has
  made a call with that key, or with one that is put only after it by the same
  node, as a frame is after its chunks), and `MapsFit` (no node is the home of
  more keys than its map has room for at first). `ApplicationsAssumption` of
  `MCApps` has TLC check that the demos without `done` meet the first two; the
  run `apps` has the third. `demo_done` and `grow_race` show what happens
  without them, and `chaos` contains the pointers that a second put of a key
  leaves dangling. Messages may get lost: a caller that waits for ever has not
  failed. The invariant is `AllUpInv`. `HeldInv` says that the key of
  a call is in the store once the call is over; so the key of a `get` is there
  before the `get` begins (`GetsHeld`), either by the earlier call or because
  the put that it saw came after the one it needs, which `PutInv` finds.
  `AtHome` and `FirstPut` bound the keys of a node while a put is under way, so
  that `grow` is never entered (`NeverGrows`). `UpInv` says that nobody is shut
  down and that the monitor is at a socket only if something is on its wire,
  so that `recv` does not return zero bytes. That `HeldInv` goes on uses the
  step of `KVSpec` again.

### Registration

* **`RegCorrect`**, **`ConnectedOnce`**, **`SocketsCorrect`**: from `RegInv`.
  Its core is an order: a client connects only to those before it in the
  directory, since the Directory it receives ends with itself, and is listed
  once, since it registers once with the server. That two clients each connect
  to the other would put each before the other.
* **`RegTypeCorrect`**: from `RegInv`, too.

### Frames

* **`TypeCorrect`**, **`RowsTogether`** and **`FramesAreTables`** (`TableProofs`):
  from `FramesInv`. A column is `Open` while it is built: the chunks stored so
  far, with the one in `current_`, hold its fields in their order; it is
  `Closed` when it is locked: each of its fields is in a stored chunk at its
  place, the keys are those of its chunks, and what is cached agrees with the
  store. `Exact` says that the last chunk has no field more than the column has,
  which is what lets `unlock` append to it. The lemmas of `DataFrameProofs` say
  of each operator of `DistVector` and of each loop over columns that it takes
  a column in one of these conditions with some contents to a column with the
  contents it should have (`Appended`, `Sealed`, `Built`, ...), and that it
  leaves the chunks of all other columns alone. What remains are frames that
  share chunks: a frame keeps its columns in the store under their names, and
  what is published or loaded reads the same chunks and has no names, so that
  it never writes. `Good` says of all frames in use that each is `Whole`, that
  its columns are `Apart`, and that any two `Yield` to each other: where one has
  the named column, the other was loaded and has no chunks that the first has
  not, and those the first only stores again with more behind. A frame over
  whose chunks `filter` has written is `stale` and no longer in use. Then every
  action is a step of `Table` or none: `Shows` and `Keeps`, the tables of the
  handles and of the keys, change as `Table` says, and no other table changes.
  The theorems hold for any number of rows and columns, any size of chunks and
  any number of nodes.

### The parts

* **`FrameCorrect`** and, from it, **`FrameTypeCorrect`** and **`MessagesAreWhole`**:
  while `torn` is false, `FrameInv` has either nothing in `buff` and every
  connection at the boundary of a message (`Quiet`), or one piece in it, which
  begins at a boundary and ends before the end of that message, and all other
  connections at boundaries. It says nothing once pieces of two connections
  have met; `TakesWholeMessages` resumes when the buffer is empty again.
* **`ReaderCorrect`** and, from it, **`ReaderTypeCorrect`**,
  **`LinesAreWhole`**, **`NoLineMissing`**: the invariant `ReaderInv` says of
  the text that has not been returned yet that it begins right after the last
  line that was (or where a line begins), that what is kept of it has no
  newline, and that nothing has been returned while the first line is to be
  skipped.
* **`MapCorrect`** and, from it, **`MapTypeCorrect`**, **`KeysArePlaced`**,
  **`MapRemembers`**: `MapOK` is the type, that keys are in the buckets of
  their hashes (`Placed`), and that the size is their number (`Counted`).
  `Grown` keeps each key, once, because a key is in one bucket before.
* **`ParserTypeCorrect`**, **`RowsMatchLines`**: from `ParserInv`. A pass over
  the file is a run: a sequence of states of the reader that begins at the
  start of the range, each the next of the one before. The reader is
  deterministic (`StepIsNext`), so two runs agree as far as both go
  (`RunsAgree`), and the lines of one begin the lines of the other (`SameLines`). This
  is how the pass that fills the columns meets the lines from which the types
  were guessed: `Sampled` says that there was a run, as long as a guess takes,
  to whose lines the types fit (`Fits`), and `Filled` that the cells of the
  columns are the fields of the lines read so far, as those types read them.
  A type fits a line if it `Admits` what is in its field: it reads it back, or
  the field is a text with a digit, a sign or a dot in it (`Mistaken`). A text without these makes the column one of
  strings and nothing changes that again, so a text is lost only where the
  guess saw no such text.
* **`WordTypeCorrect`**, for any file; **`WordsAreRows`**, for those that are
  `Wellformed`, as the property says. The bytes of the buffer that still
  matter are consecutive in the file, and the last of them is the last that was
  read; in a file that is `Wellformed` a word that the end of a full buffer
  cuts lies in its second half, so that the move to the front does not overlap.
  At the end of the file, white space stops the reader before it looks at the
  byte behind.

The community module defines `FoldLeft` through a recursive function of sets of
indices. The lemmas of `FoldProofs` give, for any operator, a function of the
lengths of prefixes, whose values are each computed from the one before and
whose last is the fold. Each fold of the model is an instance: the loops of
`add_row`, of padding and of locking over the columns, of `fromVisitor` over its
rows, of `filter` over the rows of its source, and of the parser over the fields
of a line.

The library's theorems of induction take an operator as parameter, which the
provers cannot instantiate. Where a proof needs induction over numbers it
shows that the set of numbers for which the statement holds has 0 and the
successors of its members, and so all (`Induction`, from `WFMin`).

Only model-checked: liveness (`CallsReturn`, `AppsComplete`, `AllFinish`,
`AllConnect`, `AllGoDown`, `NothingLeftBehind`, `FileParsed`, `FileRead`), since
fairness and `ENABLED` are outside of what the proof system does; that
applications with a `done`, or whose maps grow, do not fail (`NoFailure` for the
orderly demo in `apps`); and the seven violations, which are counterexamples.

## 5. Not modelled

* **Serialization, String, keys and messages as texts**: conversions without
  state or interaction; blobs, fields and messages are opaque. `Framing`
  assumes of them that a message ends with a newline and a NUL and has none
  of either inside; a string with a newline in it would break that.
* **`Map::erase`, `Vector::remove` and `Vector::set` beyond the end** have no
  caller in the program. `remove` leaves a hole and drops the last element,
  which only `test_map.cpp`, with one key, meets harmlessly. Otherwise `Vector`
  and `IntVector` are taken for the sequences they are.
* **Numbers and types**: the digits of integers and floats in the parser, and
  numbers that do not fit into an int or a float or have an exponent; column types and the schema check of frames, the setters of `Row` and
  `Schema`.
* **What applications compute** from their rows, printing, and the command
  lines.
* **More nodes than `BACKLOG`**, where `nodes_` overflows.

## 6. Plan

Done, in this order: `KVOps`, `KVStore`, `KVSpec`, `KVRefinement`, `Apps`,
`Registration`, `DistVector`, `Table`, `DataFrame` and their first theorems;
then `Framing`, `HashMap`, `LineReader`, `SorParser`, `WordReader`, `MCParts`;
the proofs about `LineReader` and `HashMap`, of `AckMeansStored`, and of the
refinement of `KVSpec`; then those about frames and tables, framing, the rows
of the parser, the words, and applications that do not fail.

Next, by importance:

1. `NoFailure` for applications in which one node calls `done` after all others
   have made their last remote call: what `OrderlyDemo` of `MCApps` does.
2. The step from bytes to messages as a refinement: `Framing` for each node
   under the wire of `KVStore`.
3. Types of columns, Row and Schema.
4. `Map::erase` with the holes of `Vector::remove`, if it ever gets a caller.
