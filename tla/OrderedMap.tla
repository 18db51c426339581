----------------------------- MODULE OrderedMap -----------------------------
(***************************************************************************)
(* What a name or number tree promises: a finite map with ordered keys and *)
(* a cursor that is at one of its keys or at the end (0), from where it    *)
(* goes on at either side of the map.                                      *)
(***************************************************************************)
EXTENDS Integers

CONSTANTS Keys, Values
VARIABLES
    map,
    at,    \* the cursor's key
    room,  \* whether the document has object numbers left for any insertion
    call   \* the client's last call

Least(S) == IF S = {} THEN 0 ELSE CHOOSE k \in S : \A j \in S : k <= j
Greatest(S) == IF S = {} THEN 0 ELSE CHOOSE k \in S : \A j \in S : j <= k
Above(k) == Least({j \in DOMAIN map : k < j})
Below(k) == Greatest({j \in DOMAIN map : j < k})

With(k, v) == [j \in DOMAIN map \cup {k} |-> IF j = k THEN v ELSE map[j]]
Without(k) == [j \in DOMAIN map \ {k} |-> map[j]]

Done(kind, k, v) == call' = [kind |-> kind, key |-> k, value |-> v, ok |-> TRUE]
Refused(kind, k, v) ==
    /\ call' = [kind |-> kind, key |-> k, value |-> v, ok |-> FALSE]
    /\ UNCHANGED <<map, at>>

Insert(k, v) ==
    \/ /\ Done("insert", k, v)
       /\ map' = With(k, v)
       /\ at' = k
    \/ ~room /\ k \notin DOMAIN map /\ Refused("insert", k, v)

(* The cursor's own insertion, of a key that belongs right after it.       *)
InsertAfter(k, v) ==
    /\ \/ /\ Done("insert_after", k, v)
          /\ map' = With(k, v)
          /\ at' = k
       \/ ~room /\ Refused("insert_after", k, v)
    /\ k \notin DOMAIN map
    /\ at = Below(k)

Remove(k) == Done("remove", k, 0) /\ map' = Without(k) /\ at' = 0

(* Removing the cursor's entry takes it to the next one.                   *)
RemoveCurrent ==
    IF at = 0 THEN Refused("remove_current", 0, 0)
    ELSE /\ Done("remove_current", 0, 0)
         /\ map' = Without(at)
         /\ at' = Above(at)

Move(kind, k, to) == Done(kind, k, 0) /\ map' = map /\ at' = to

Find(k) == Move("find", k, IF k \in DOMAIN map THEN k ELSE 0)
FindAtOrBelow(k) == Move("find_below", k, IF k \in DOMAIN map THEN k ELSE Below(k))
First == Move("begin", 0, Least(DOMAIN map))
Final == Move("last", 0, Greatest(DOMAIN map))
Forward == Move("next", 0, Above(at))
Backward == Move("previous", 0, IF at = 0 THEN Greatest(DOMAIN map) ELSE Below(at))

Init ==
    /\ map \in UNION {[K -> Values] : K \in SUBSET Keys}
    /\ at = 0
    /\ call = [kind |-> "open", key |-> 0, value |-> 0, ok |-> TRUE]

Next ==
    \/ \E k \in Keys : Remove(k) \/ Find(k) \/ FindAtOrBelow(k)
    \/ \E k \in Keys, v \in Values : Insert(k, v) \/ InsertAfter(k, v)
    \/ RemoveCurrent
    \/ First
    \/ Final
    \/ Forward
    \/ Backward

Spec == Init /\ [][Next]_<<map, at, call>>
=============================================================================
