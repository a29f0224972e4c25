------------------------------ MODULE HashMap ------------------------------
(***************************************************************************)
(* The Map of map.h: an array of capacity_ buckets (Items_), a key being   *)
(* in the bucket given by its hash, which doubles when a put finds as many *)
(* keys as buckets.  A bucket is a function from its keys to their values: *)
(* it holds a key once, and the order of its keys does not matter.         *)
(***************************************************************************)
EXTENDS Naturals, FiniteSets

CONSTANTS MapKey,
          MapValue,
          Hash,       \* Object::hash
          Capacity,   \* the capacity of a new map
          Absent      \* nullptr

ASSUME HashAssumption == Hash \in [MapKey -> Nat]
ASSUME CapacityAssumption == Capacity \in Nat \ {0}
ASSUME AbsentAssumption == Absent \notin MapValue

VARIABLES map,
          agrees      \* FALSE once the assertion of grow has failed

mapVars == <<map, agrees>>

EmptyMap == [capacity |-> Capacity, size |-> 0, items |-> [i \in 0 .. Capacity - 1 |-> <<>>]]

(* off_                                                                    *)
Off(m, k) == Hash[k] % m.capacity

MapContains(m, k) == k \in DOMAIN m.items[Off(m, k)]

MapGet(m, k) == IF MapContains(m, k) THEN m.items[Off(m, k)][k] ELSE Absent

(* Items_::put                                                             *)
ItemsPut(items, k, v) == [x \in DOMAIN items \cup {k} |-> IF x = k THEN v ELSE items[x]]

(* The keys of all buckets.                                                *)
KeysOf(m) == UNION {DOMAIN m.items[i] : i \in DOMAIN m.items}

(* A mistake: the buckets are taken over as they are.                      *)
GrownInPlace(m) ==
  [m EXCEPT !.capacity = 2 * @,
            !.items = [i \in 0 .. 2 * m.capacity - 1 |->
                         IF i < m.capacity THEN m.items[i] ELSE <<>>]]

(* A mistake: only the capacity doubles.                                   *)
GrownByName(m) == [m EXCEPT !.capacity = 2 * @]

(* grow: every key is put into a map with twice as many buckets.           *)
Grown(m) ==
  LET cap == 2 * m.capacity
      Home(k) == CHOOSE i \in DOMAIN m.items : k \in DOMAIN m.items[i]
  IN [capacity |-> cap,
      size |-> m.size,
      items |-> [i \in 0 .. cap - 1 |->
                   [k \in {x \in KeysOf(m) : Hash[x] % cap = i} |-> m.items[Home(k)][k]]]]

(* The assertion of grow, that both maps have the same number of keys.     *)
GrowAgrees(m) == m.size < m.capacity \/ m.size = Cardinality(KeysOf(m))

(* A mistake: a key that is there already is counted again.                *)
MapPutCountingTwice(m, k, v) ==
  LET g == IF m.size >= m.capacity THEN Grown(m) ELSE m
  IN [g EXCEPT !.size = @ + 1, !.items[Off(g, k)] = ItemsPut(@, k, v)]

(* put                                                                     *)
MapPut(m, k, v) ==
  LET g == IF m.size >= m.capacity THEN Grown(m) ELSE m
  IN [capacity |-> g.capacity,
      size |-> IF MapContains(g, k) THEN g.size ELSE g.size + 1,
      items |-> [g.items EXCEPT ![Off(g, k)] = ItemsPut(@, k, v)]]

MapInit == map = EmptyMap /\ agrees = TRUE

PutKey(k, v) ==
  /\ agrees
  /\ agrees' = GrowAgrees(map)
  /\ map' = MapPut(map, k, v)

MapNext == \E k \in MapKey, v \in MapValue : PutKey(k, v)

MapSpec == MapInit /\ [][MapNext]_mapVars

-----------------------------------------------------------------------------
Bucket == UNION {[S -> MapValue] : S \in SUBSET MapKey}

IsMap(m) ==
  /\ m = [capacity |-> m.capacity, size |-> m.size, items |-> m.items]
  /\ m.capacity \in Nat \ {0}
  /\ m.size \in Nat
  /\ m.items \in [0 .. m.capacity - 1 -> Bucket]

MapTypeOK == IsMap(map) /\ agrees \in BOOLEAN

(* Every key is where it is looked for, so it is in one bucket only, the   *)
(* size is the number of keys, and grow never finds that it is not         *)
(* (map.h:77-80, 85, 115).                                                 *)
KeysInPlace ==
  /\ \A i \in DOMAIN map.items : \A k \in DOMAIN map.items[i] : Off(map, k) = i
  /\ map.size = Cardinality(KeysOf(map))
  /\ agrees

(* The map is a function: a put sets what is found at its key, and nothing *)
(* else, also when it makes the map grow (map.h:87-117).                   *)
MapIsFunction ==
  [][\E k \in MapKey, v \in MapValue :
       /\ MapGet(map, k)' = v
       /\ \A x \in MapKey \ {k} : MapGet(map, x)' = MapGet(map, x)]_mapVars
=============================================================================
