------------------------------ MODULE MCNNTree ------------------------------
(* Trees for the model checker: one of three levels, full on one side and  *)
(* from where removals lead to the empty one, and the damaged ones that    *)
(* lookups meet.                                                           *)
EXTENDS NNTree, FiniteSets

CONSTANT Family

Pairs(ks) == [i \in DOMAIN ks |-> <<ks[i], 1>>]
Over(kids) == [n \in 1 .. Len(kids) + 1 |->
    IF n = 1 THEN Inner([i \in DOMAIN kids |-> i + 1], <<>>) ELSE kids[n - 1]]

Deep == [n \in 1 .. 6 |->
    IF n = 1 THEN Inner(<<2, 3>>, <<>>)
    ELSE IF n = 2 THEN Inner(<<4>>, <<1, 1>>)
    ELSE IF n = 3 THEN Inner(<<5, 6>>, <<2, 4>>)
    ELSE IF n = 4 THEN Leaf(Pairs(<<1>>), <<1, 1>>)
    ELSE IF n = 5 THEN Leaf(Pairs(<<2>>), <<2, 2>>)
    ELSE Leaf(Pairs(<<3, 4>>), <<3, 4>>)]

MissingLimits == Over(<<Leaf(Pairs(<<1, 2>>), <<1, 2>>), Leaf(Pairs(<<4>>), <<>>)>>)
WrongTypeLimits == Over(<<Leaf(Pairs(<<1>>), <<0, 1>>), Leaf(Pairs(<<3, 4>>), <<3, 4>>)>>)
WrongTypeKey == Over(<<Leaf(Pairs(<<1, 0>>), <<1, 2>>), Leaf(Pairs(<<3>>), <<3, 3>>)>>)
WrongFirstKey == Over(<<Leaf(Pairs(<<0, 2>>), <<1, 2>>), Leaf(Pairs(<<3>>), <<3, 3>>)>>)
HollowKid == Over(<<Leaf(Pairs(<<1, 2>>), <<1, 2>>), Node("none", <<>>, <<>>, <<3, 3>>),
                    Leaf(Pairs(<<4>>), <<4, 4>>)>>)
Unordered == Over(<<Leaf(Pairs(<<2, 4>>), <<>>), Leaf(Pairs(<<1>>), <<1, 1>>)>>)
Wide == [n \in {1} |-> Leaf(Pairs(<<1, 2, 0, 3, 4>>), <<>>)]
Repeated == Over(<<Leaf(Pairs(<<1, 2>>), <<1, 2>>), Leaf(<<<<2, 2>>, <<3, 1>>>>, <<>>)>>)
Looped == Over(<<Leaf(Pairs(<<1, 2>>), <<1, 2>>), Inner(<<1>>, <<3, 3>>), Leaf(Pairs(<<4>>), <<4, 4>>)>>)

(* Object numbers are names: trees of the same shape are the same state.   *)
(* call and view follow from the step and the rest of the state.           *)
RECURSIVE Shape(_)
Shape(n) == <<nodes[n].items, nodes[n].limits, [i \in DOMAIN nodes[n].kids |-> Shape(nodes[n].kids[i])]>>
UpToNames ==
    <<IF Loops(nodes, {}, Root) THEN nodes ELSE Shape(Root), last, cursor.item,
      [i \in DOMAIN cursor.path |-> cursor.path[i].kid], CursorLive>>

(* At most one entry has the second value, in a tree of at most three.     *)
Second == {k \in DOMAIN view.map : view.map[k] = 2}
Small == Second = {} \/ (Cardinality(Second) = 1 /\ Cardinality(DOMAIN view.map) <= 3)

MCTrees ==
    IF Family = "sound" THEN {Deep}
    ELSE {MissingLimits, WrongTypeLimits, WrongTypeKey, WrongFirstKey, HollowKid, Unordered,
          Wide, Repeated, Looped}
=============================================================================
