------------------------------- MODULE MCApps -------------------------------
(***************************************************************************)
(* The demo applications on three nodes, with frames of one or two chunks, *)
(* so that chunks live on other nodes than their frame.                    *)
(***************************************************************************)
EXTENDS KVRefinement, Apps

MCNode == 0 .. 2
MCKey == {Frame(f) : f \in {"triv", "main", "ck", "verif", "data", "wc-map-0", "wc-map-1",
                            "wc-map-2", "projs", "usrs", "comts", "users-0-0",
                            "projects-0-0", "projects-0-1", "projects-0-2",
                            "users-1-0", "users-1-1", "users-1-2"}}
           \cup {Chunk(f, 0, i) : f \in {"triv", "main", "data", "verif"}, i \in {0, 1}}
           \cup {Chunk(f, c, i) : f \in {"wc-map-0", "wc-map-1", "wc-map-2"},
                                  c \in {0, 1}, i \in {0, 1}}
           \cup {Chunk(f, c, 0) : f \in {"projs", "usrs", "comts"}, c \in 0 .. 2}
           \cup {Chunk(f, 0, 0) : f \in {"ck", "verif", "users-0-0",
                                         "projects-0-0", "projects-0-1", "projects-0-2",
                                         "users-1-0", "users-1-1", "users-1-2"}}

Alone(calls) == [n \in Node |-> IF n = 0 THEN calls ELSE << >>]

DemoOnly == {Demo(2)}
LinusOnly == {WithoutDone(Linus(2))}
WordCountOnly == {WithoutDone(WordCount(2, 2, 2))}

(* The demo with its shutdown in order: the counter announces that it has  *)
(* finished under a key of its own node, for which it needs no Ack, and    *)
(* the summarizer waits for that before it calls done.                     *)
Announced == <<"verif", 1, 1>>

OrderlyDemo == [n \in Node |->
  CASE n = 0 -> Demo(2)[0]
    [] n = 1 -> Demo(2)[1] \o <<StoreBlob(Announced)>>
    [] n = 2 -> <<WaitAndGet(Announced)>> \o Demo(2)[2]]

AllApps == {WithoutDone(p) : p \in {Demo(2), WordCount(2, 2, 1), Linus(2)}}
             \cup {Alone(Trivial(2)), OrderlyDemo}

(* The applications, but for their call of done, are such as those of      *)
(* which KVRefinementProofs shows that no node fails: they leave the       *)
(* stores up, put every key once, and get no key too early.                *)
ASSUME ApplicationsAssumption ==
  \A p \in {WithoutDone(q) : q \in AllApps} : StaysUp(p) /\ WriteOnce(p) /\ GetsFollow(p)

(* Every application gets to its end: none waits for a frame or a chunk    *)
(* that nobody will put, and nodes that wait for each other in turn (the   *)
(* merges of linus.cpp, the reduce of word_count.cpp) all go on.           *)
AppsComplete == \A n \in Node : <>(ip[n] > Len(prog[n]))

(* A node that calls done shuts all others down, and each of them ends by  *)
(* returning from main.                                                    *)
AllFinish == (\E n \in Node : has_shutdown[n]) ~> (\A n \in Node : status[n] = "finished")
=============================================================================
