-------------------------------- MODULE Apps --------------------------------
(***************************************************************************)
(* The demo applications (demos/*.cpp) as the calls that each node makes   *)
(* on its KVStore, through KDStore and DataFrame.  A frame is stored as    *)
(* the serialized frame at its own key and one blob per chunk of each      *)
(* column; chunk i lives on node i % num_nodes, whoever builds the frame.  *)
(* The blob at a key is written as the key itself.                         *)
(***************************************************************************)
EXTENDS KVOps, SequencesExt

(* Nodes are numbered from 0.  A key is <<frame, column, chunk>>; column 0 *)
(* is the frame's own key, whose home is node 0 in every demo.             *)
NumNodes == Cardinality(Node)

Frame(f) == <<f, 0, 0>>
Chunk(f, c, i) == <<f, c + 1, i>>

AppHome == [k \in Key |-> IF k[2] = 0 THEN 0 ELSE k[3] % NumNodes]

StoreBlob(k) == Put(k, k)

(* The chunks of a frame in the order in which appending row after row     *)
(* stores them, and reading row after row retrieves them.                  *)
ChunkSeq(f, cols, chunks) ==
  [x \in 1 .. cols * chunks |-> Chunk(f, (x - 1) % cols, (x - 1) \div cols)]

(* DataFrame::from*: the chunks first, then the frame.                     *)
Build(f, cols, chunks) ==
  [x \in 1 .. cols * chunks |-> StoreBlob(ChunkSeq(f, cols, chunks)[x])]
    \o <<StoreBlob(Frame(f))>>

(* map and local_map: the chunks of the frame, or those of this node.      *)
MapRows(f, cols, chunks) ==
  [x \in 1 .. cols * chunks |-> Get(ChunkSeq(f, cols, chunks)[x])]

LocalMapRows(n, f, cols, chunks) ==
  LET Local(op) == AppHome[op.key] = n
  IN SelectSeq(MapRows(f, cols, chunks), Local)

LoadAndMap(f, cols, chunks) == <<WaitAndGet(Frame(f))>> \o MapRows(f, cols, chunks)

(* trivial.cpp: one node.                                                  *)
Trivial(chunks) ==
  Build("triv", 1, chunks) \o MapRows("triv", 1, 1) \o <<Get(Frame("triv"))>>
    \o MapRows("triv", 1, chunks) \o <<Done>>

(* demo.cpp: producer, counter and summarizer.                             *)
Demo(chunks) == [n \in Node |->
  CASE n = 0 -> Build("main", 1, chunks) \o Build("ck", 1, 1)
    [] n = 1 -> LoadAndMap("main", 1, chunks) \o Build("verif", 1, 1)
    [] n = 2 -> <<WaitAndGet(Frame("verif")), WaitAndGet(Frame("ck"))>>
                  \o MapRows("ck", 1, 1) \o MapRows("verif", 1, 1) \o <<Done>>]

(* word_count.cpp on the nodes 0 .. num - 1: local_count on every node,    *)
(* then reduce on node 0.                                                  *)
WcMap(n) == <<"wc-map-0", "wc-map-1", "wc-map-2">>[n + 1]

LocalCount(n, chunks, words) ==
  <<WaitAndGet(Frame("data"))>> \o LocalMapRows(n, "data", 1, chunks)
    \o Build(WcMap(n), 2, words)

Reduce(num, words) ==
  <<Get(Frame(WcMap(0)))>> \o MapRows(WcMap(0), 2, words)
    \o FlattenSeq([n \in 1 .. num - 1 |-> LoadAndMap(WcMap(n), 2, words)])
    \o <<Done>>

WordCount(num, chunks, words) == [n \in Node |->
  CASE n = 0 -> Build("data", 1, chunks) \o LocalCount(0, chunks, words)
                  \o Reduce(num, words)
    [] n \in 1 .. num - 1 -> LocalCount(n, chunks, words)
    [] n >= num -> << >>]

(* linus.cpp: readInput, then the two merges of a step: node 0 collects    *)
(* the deltas of the others and publishes the union, which they wait for.  *)
Delta(set, n) == [projects |-> <<"projects-0-0", "projects-0-1", "projects-0-2">>,
                  users |-> <<"users-1-0", "users-1-1", "users-1-2">>][set][n + 1]

(* A mistake: every node waits for the union before it sends its delta.    *)
MergeWaitingFirst(num, n, set) ==
  IF n = 0
  THEN FlattenSeq([m \in 1 .. num - 1 |-> LoadAndMap(Delta(set, m), 1, 1)])
         \o Build(Delta(set, 0), 1, 1)
  ELSE LoadAndMap(Delta(set, 0), 1, 1) \o Build(Delta(set, n), 1, 1)

Merge(num, n, set) ==
  IF n = 0
  THEN FlattenSeq([m \in 1 .. num - 1 |-> LoadAndMap(Delta(set, m), 1, 1)])
         \o Build(Delta(set, 0), 1, 1)
  ELSE Build(Delta(set, n), 1, 1) \o LoadAndMap(Delta(set, 0), 1, 1)

Linus(num) == [n \in Node |->
  IF n >= num THEN << >>
  ELSE (IF n = 0
        THEN Build("projs", 2, 1) \o Build("usrs", 2, 1) \o Build("comts", 3, 1)
               \o Build("users-0-0", 1, 1)
        ELSE <<WaitAndGet(Frame("projs")), WaitAndGet(Frame("usrs")),
               WaitAndGet(Frame("comts"))>>)
         \o LoadAndMap("users-0-0", 1, 1)
         \o LocalMapRows(n, "comts", 3, 1) \o Merge(num, n, "projects")
         \o LocalMapRows(n, "comts", 3, 1) \o Merge(num, n, "users")
         \o (IF n = 0 THEN <<Done>> ELSE << >>)]

(* An application without its call of done().                              *)
WithoutDone(p) == [n \in DOMAIN p |->
                    LET NotDone(op) == op # Done IN SelectSeq(p[n], NotDone)]
=============================================================================
