----------------------------- MODULE MCKVStore -----------------------------
(***************************************************************************)
(* Small instances of KVStore.  Every key has one blob and one node that   *)
(* may put it, the discipline of the applications, so that blobs tell keys *)
(* apart; the programs of two nodes are exhaustive up to a number of calls *)
(***************************************************************************)
EXTENDS KVRefinement, TLC

CONSTANTS n0, n1, n2, a, b, c, va, vb, vc

Pair == {n0, n1}
Trio == {n0, n1, n2}
PairKeys == {a, b}
TrioKeys == {a, b, c}
PairBlobs == {va, vb}
TrioBlobs == {va, vb, vc}
PairHome == (a :> n0) @@ (b :> n1)
TrioHome == (a :> n0) @@ (b :> n1) @@ (c :> n2)
BlobOf == (a :> va) @@ (b :> vb) @@ (c :> vc)

PutOf(k) == Put(k, BlobOf[k])

(* A get comes only after the same node has put the key or waited for it.  *)
GetAfter(p) ==
  \A n \in DOMAIN p : \A i \in DOMAIN p[n] :
    p[n][i].kind = "Get" =>
      \E j \in 1 .. i - 1 : p[n][j] \in {PutOf(p[n][i].key), WaitAndGet(p[n][i].key)}

CallsOn(keys) == {PutOf(k) : k \in keys} \cup {Get(k) : k \in keys}
                   \cup {WaitAndGet(k) : k \in keys}

SeqsUpTo(S, len) == UNION {[1 .. l -> S] : l \in 0 .. len}

(* Nodes n0 and n1 exchange keys in every order; n2 does nothing.          *)
PairPrograms(len, total) ==
  {p \in [Trio -> SeqsUpTo(CallsOn({a, b}), len)] :
     /\ p[n2] = <<>>
     /\ Len(p[n0]) + Len(p[n1]) \in 2 .. total
     /\ WriteOnce(p)
     /\ GetAfter(p)}

(* Three nodes: all wait for each other in a circle; two readers wait at   *)
(* the store of the third for a key that the first of them puts.           *)
Trios ==
  {(n0 :> <<PutOf(a), WaitAndGet(b)>>) @@ (n1 :> <<PutOf(b), WaitAndGet(c)>>)
      @@ (n2 :> <<PutOf(c), WaitAndGet(a)>>),
   (n0 :> <<PutOf(c), Get(c)>>) @@ (n1 :> <<WaitAndGet(c)>>) @@ (n2 :> <<WaitAndGet(c)>>)}

ExchangePrograms == PairPrograms(2, 3) \cup Trios

(* Anything goes: gets of keys that may be missing, puts over puts, done   *)
(* at any time.  With capacity 1 a map that holds a key grows when put to. *)
ChaosCalls == {Put(a, va), Put(a, vb), Get(a), WaitAndGet(a), PutOf(b), WaitAndGet(b), Done}

ChaosPrograms == [Pair -> SeqsUpTo(ChaosCalls, 2)]
=============================================================================
