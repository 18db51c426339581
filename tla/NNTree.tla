------------------------------- MODULE NNTree -------------------------------
(***************************************************************************)
(* Name and number trees (crates/flpdf/src/nntree.rs): lookup by binary    *)
(* search over /Limits, insertion with node splits up to the root, removal *)
(* that drops empty nodes, cursors over all of it, and the repair of a     *)
(* tree whose lookup failed. The code mutates the nodes in place; here an  *)
(* operation is a function on the state <<nodes, last object number>>.     *)
(***************************************************************************)
EXTENDS BinarySearch, Sequences, TLC

CONSTANTS
    Keys,        \* valid keys; 0 is a key of the wrong type
    Values,
    Trees,       \* the trees of opened documents: root is node 1
    Threshold,   \* split_threshold
    MaxNumber,   \* i32::MAX: no object number after it
    AutoRepair

VARIABLES
    nodes,   \* the nodes by object number
    last,    \* the largest object number
    cursor,  \* the client's cursor
    call,    \* the client's last call and whether it succeeded
    view     \* what the client can see of the tree, a function of the others

vars == <<nodes, last, cursor, call, view>>

Root == 1
Spare == -2   \* the direct root of a repair's replacement tree

(* A node: /Names (or /Nums), or /Kids, or neither, and /Limits or none.   *)
Node(shape, items, kids, limits) ==
    [shape |-> shape, items |-> items, kids |-> kids, limits |-> limits]
Leaf(items, limits) == Node("leaf", items, <<>>, limits)
Inner(kids, limits) == Node("inner", <<>>, kids, limits)

Position(path, leaf, item) == [path |-> path, leaf |-> leaf, item |-> item]
End == Position(<<>>, 0, 0)
Failed == Position(<<>>, -1, 0)    \* a structural error
Positioned(c) == c.item # 0
Entry(ns, c) == ns[c.leaf].items[c.item]

InsertAt(s, i, e) == SubSeq(s, 1, i - 1) \o <<e>> \o SubSeq(s, i, Len(s))
RemoveAt(s, i) == SubSeq(s, 1, i - 1) \o SubSeq(s, i + 1, Len(s))
Front(s) == SubSeq(s, 1, Len(s) - 1)
Kid(ns, e) == ns[e.node].kids[e.kid]
OrEnd(c) == IF c = Failed THEN End ELSE c

-----------------------------------------------------------------------------
Compare(k, j) == IF j = 0 THEN "error" ELSE IF k < j THEN "less" ELSE IF k = j THEN "equal" ELSE "greater"

within_limits(k, limits) ==
    IF Len(limits) < 2 \/ 0 \in {limits[1], limits[2]} THEN "error"
    ELSE IF k < limits[1] THEN "less" ELSE IF k > limits[2] THEN "greater" ELSE "equal"

-----------------------------------------------------------------------------
(* descend: the first or last entry under a node, Failed when there is     *)
(* none; an empty leaf will do when allow_empty says so.                   *)

RECURSIVE descend(_, _, _, _, _)
descend(ns, path, n, first, allow_empty) ==
    LET node == ns[n]
        edge(s) == IF first THEN 1 ELSE Len(s)
    IN  IF n \in {path[i].node : i \in DOMAIN path} THEN Failed
        ELSE IF node.items # <<>> THEN Position(path, n, edge(node.items))
        ELSE IF node.kids # <<>>
        THEN descend(ns, Append(path, [node |-> n, kid |-> edge(node.kids)]),
                     node.kids[edge(node.kids)], first, allow_empty)
        ELSE IF allow_empty /\ node.shape = "leaf" THEN Position(path, n, 0)
        ELSE Failed

BeginAt(ns, root) == OrEnd(descend(ns, <<>>, root, TRUE, TRUE))
LastAt(ns, root) == OrEnd(descend(ns, <<>>, root, FALSE, TRUE))

(* increment: the next entry with a valid key in the leaf, else under the  *)
(* next kid of the nearest ancestor that has one.                          *)
UnderKid(ns, path, i, dir) ==
    LET e == path[Len(path)]
    IN  descend(ns, Front(path) \o <<[e EXCEPT !.kid = i]>>, ns[e.node].kids[i], dir = 1, FALSE)

KidsAhead(ns, path, dir) ==
    LET e == path[Len(path)]
        kids == ns[e.node].kids
    IN  {i \in DOMAIN kids : /\ (i - e.kid) * dir > 0
                             /\ ns[kids[i]].shape # "none"
                             /\ UnderKid(ns, path, i, dir) # Failed}

RECURSIVE climb(_, _, _)
ClimbTo(ns, path, dir, ahead) ==
    IF ahead = {} THEN climb(ns, Front(path), dir)
    ELSE UnderKid(ns, path, CHOOSE i \in ahead : \A j \in ahead : (j - i) * dir >= 0, dir)
climb(ns, path, dir) ==
    IF path = <<>> THEN End ELSE ClimbTo(ns, path, dir, KidsAhead(ns, path, dir))

RECURSIVE increment(_, _, _, _)
SkipInvalid(ns, root, c, dir) ==
    IF Positioned(c) /\ Entry(ns, c)[1] = 0 THEN increment(ns, root, c, dir) ELSE c
increment(ns, root, c, dir) ==
    IF ~Positioned(c) THEN IF dir = 1 THEN BeginAt(ns, root) ELSE LastAt(ns, root)
    ELSE SkipInvalid(ns, root, IF c.item + dir \in DOMAIN ns[c.leaf].items
                               THEN [c EXCEPT !.item = c.item + dir]
                               ELSE climb(ns, c.path, dir), dir)

(* as_map: the entries in the order of a traversal.                        *)
RECURSIVE EntriesFrom(_, _, _)
EntriesFrom(ns, root, c) ==
    IF ~Positioned(c) THEN <<>>
    ELSE <<Entry(ns, c)>> \o EntriesFrom(ns, root, increment(ns, root, c, 1))
as_map(ns, root) == EntriesFrom(ns, root, BeginAt(ns, root))

-----------------------------------------------------------------------------
(* find_internal: a key before the first entry is nowhere; otherwise down  *)
(* the kids by their limits. A position without an entry, its path kept,   *)
(* when the leaf has none.                                                 *)

FindItem(ns, n, k, previous) ==
    LET items == ns[n].items
    IN  binary_search([i \in 0 .. Len(items) - 1 |-> Compare(k, items[i + 1][1])], Len(items), previous)
FindKid(ns, n, k) ==
    LET kids == ns[n].kids
    IN  binary_search([i \in 0 .. Len(kids) - 1 |-> within_limits(k, ns[kids[i + 1]].limits)],
                      Len(kids), TRUE)

RECURSIVE FindBelow(_, _, _, _, _)
FoundItem(path, n, item) ==
    IF item = -2 THEN Failed ELSE Position(path, IF item = -1 THEN 0 ELSE n, item + 1)
FoundKid(ns, path, n, k, previous, kid) ==
    IF kid < 0 THEN Failed
    ELSE FindBelow(ns, Append(path, [node |-> n, kid |-> kid + 1]), ns[n].kids[kid + 1], k, previous)
FindBelow(ns, path, n, k, previous) ==
    IF n \in {path[i].node : i \in DOMAIN path} THEN Failed
    ELSE IF ns[n].items # <<>> THEN FoundItem(path, n, FindItem(ns, n, k, previous))
    ELSE IF ns[n].kids # <<>> THEN FoundKid(ns, path, n, k, previous, FindKid(ns, n, k))
    ELSE Failed

BeforeAll(ns, k, first) ==
    ~Positioned(first) \/ (Entry(ns, first)[1] # 0 /\ k < Entry(ns, first)[1])
find_internal(ns, root, k, previous) ==
    IF BeforeAll(ns, k, BeginAt(ns, root)) THEN End ELSE FindBelow(ns, <<>>, root, k, previous)

-----------------------------------------------------------------------------
(* reset_limits: the limits of a node and, as long as they change, of its  *)
(* ancestors; the root has none. parent is the node's place in the path.   *)

edge_limits(ns, n) ==
    LET node == ns[n]
        first == ns[node.kids[1]].limits
        final == ns[node.kids[Len(node.kids)]].limits
    IN  IF node.items # <<>> THEN <<node.items[1][1], node.items[Len(node.items)][1]>>
        ELSE IF node.kids # <<>> /\ Len(first) >= 2 /\ Len(final) >= 2 THEN <<first[1], final[2]>>
        ELSE <<>>

(* Faulty variant: the ancestors keep their limits.                        *)
reset_own_limits(ns, path, n, parent) ==
    IF parent = 0 THEN [ns EXCEPT ![n].limits = <<>>] ELSE [ns EXCEPT ![n].limits = edge_limits(ns, n)]

RECURSIVE ResetLimits(_, _, _, _)
SetLimits(ns, path, n, parent, limits) ==
    LET reset == IF limits = <<>> THEN ns ELSE [ns EXCEPT ![n].limits = limits]
        unchanged == /\ ns[n].limits = limits
                     /\ limits # <<>>
                     /\ 0 \notin {limits[1], limits[2]}
    IN  IF parent = 1 \/ unchanged THEN reset
        ELSE ResetLimits(reset, path, path[parent].node, parent - 1)
ResetLimits(ns, path, n, parent) ==
    IF parent = 0 THEN [ns EXCEPT ![n].limits = <<>>]
    ELSE SetLimits(ns, path, n, parent, edge_limits(ns, n))

reset_limits(ns, path, n, parent) == ResetLimits(ns, path, n, parent)

(* State(nodes, last object number), with the cursor of an operation.      *)
Step(ns, l, c) == [nodes |-> ns, last |-> l, cursor |-> c]
NewNode(ns, n, node) == (n :> node) @@ ns

(* split_node: a node over the threshold gives half of its array to a new  *)
(* one beside it; a full root first moves into a kid of its own. The       *)
(* cursor follows its entry.                                               *)
IsFull(node) == Len(node.items) > Threshold \/ Len(node.kids) > Threshold

PushDownRoot(s, n) ==
    LET id == s.last + 1
        c == s.cursor
        kid == [node |-> n, kid |-> 1]
    IN  Step([NewNode(s.nodes, id, [s.nodes[n] EXCEPT !.limits = <<>>]) EXCEPT ![n] = Inner(<<id>>, <<>>)],
             id,
             IF s.nodes[n].items # <<>> THEN Position(<<kid>> \o c.path, id, c.item)
             ELSE Position(<<kid, [c.path[1] EXCEPT !.node = id]>> \o Tail(c.path), c.leaf, c.item))

(* Faulty variant: the path still names the first half.                    *)
follow_without_path(c, leaf, parent, half, second) ==
    LET index == IF leaf THEN c.item ELSE c.path[parent + 1].kid
    IN  IF index <= half THEN c
        ELSE IF leaf THEN Position(c.path, second, c.item - half)
        ELSE Position([c.path EXCEPT ![parent + 1] = [node |-> second, kid |-> @.kid - half]],
                      c.leaf, c.item)

FollowEntry(c, leaf, parent, half, second) ==
    LET index == IF leaf THEN c.item ELSE c.path[parent + 1].kid
        path == [c.path EXCEPT ![parent].kid = @ + 1]
    IN  IF index <= half THEN c
        ELSE IF leaf THEN Position(path, second, c.item - half)
        ELSE Position([path EXCEPT ![parent + 1] = [node |-> second, kid |-> @.kid - half]],
                      c.leaf, c.item)

Halve(s, n, parent) ==
    LET node == s.nodes[n]
        id == s.last + 1
        array == IF node.items # <<>> THEN node.items ELSE node.kids
        half == Len(array) \div 2
        part(a, b) == IF node.items # <<>> THEN Leaf(SubSeq(array, a, b), <<>>)
                      ELSE Inner(SubSeq(array, a, b), <<>>)
        first == [part(1, half) EXCEPT !.limits = node.limits]
        path == s.cursor.path
        ns1 == reset_limits([s.nodes EXCEPT ![n] = first], path, n, parent)
        ns2 == reset_limits(NewNode(ns1, id, part(half + 1, Len(array))), path, id, parent)
    IN  Step([ns2 EXCEPT ![path[parent].node].kids = InsertAt(@, path[parent].kid + 1, id)],
             id,
             FollowEntry(s.cursor, node.items # <<>>, parent, half, id))

RECURSIVE split_node(_, _, _)
SplitUp(s, n, parent) ==
    split_node([s EXCEPT !.nodes = reset_limits(@, s.cursor.path, n, parent)], n, parent)
SplitParent(s, parent) == SplitUp(s, s.cursor.path[parent].node, parent - 1)
split_node(s, n, parent) ==
    IF ~IsFull(s.nodes[n]) THEN s
    ELSE IF parent = 0 THEN Halve(PushDownRoot(s, n), s.last + 1, 1)
    ELSE SplitParent(Halve(s, n, parent), parent)

(* ensure_split_allocations_available: the object numbers that the splits  *)
(* of one insertion will take. Faulty variant: a root takes one.           *)
RECURSIVE SplitsFrom(_, _, _)
SplitsFrom(ns, path, parent) ==
    IF parent = 0 THEN 2
    ELSE IF Len(ns[path[parent].node].kids) < Threshold THEN 1
    ELSE 1 + SplitsFrom(ns, path, parent - 1)

enough_for_one(s, c, size) == size <= Threshold \/ s.last < MaxNumber
ensure_split_allocations_available(s, c, size) ==
    size <= Threshold \/ s.last + SplitsFrom(s.nodes, c.path, Len(c.path)) <= MaxNumber

-----------------------------------------------------------------------------
(* The operations, on a state and a root. A failed one leaves the state.   *)

InsertItem(s, c, i, k, v) ==
    LET items == s.nodes[c.leaf].items
        ns == reset_limits([s.nodes EXCEPT ![c.leaf].items = InsertAt(items, i, <<k, v>>)],
                           c.path, c.leaf, Len(c.path))
    IN  IF ~ensure_split_allocations_available(s, c, Len(items) + 1)
        THEN [s EXCEPT !.cursor = Failed]
        ELSE split_node(Step(ns, s.last, [c EXCEPT !.item = i]), c.leaf, Len(c.path))

InsertFirstAt(s, c, k, v) ==
    IF c.leaf = 0 THEN [s EXCEPT !.cursor = Failed] ELSE InsertItem(s, c, 1, k, v)
insert_first(s, root, k, v) == InsertFirstAt(s, BeginAt(s.nodes, root), k, v)

insert_after(s, root, c, k, v) ==
    IF Positioned(c) THEN InsertItem(s, c, c.item + 1, k, v) ELSE insert_first(s, root, k, v)

(* insert_resolved: over an equal key, or after the one before it.         *)
InsertFound(s, root, c, k, v) ==
    IF c = Failed THEN [s EXCEPT !.cursor = Failed]
    ELSE IF Positioned(c) /\ Entry(s.nodes, c)[1] = k
    THEN Step([s.nodes EXCEPT ![c.leaf].items[c.item] = <<k, v>>], s.last, c)
    ELSE insert_after(s, root, c, k, v)

(* Faulty variant: the pairs are appended as they come.                    *)
append_pair(s, k, v) == insert_after(s, Spare, LastAt(s.nodes, Spare), k, v)

(* insert_pair of a repair: the replacement tree is not repaired itself,   *)
(* and takes a key of the wrong type only as its first one.                *)
InsertPair(s, k, v) ==
    IF k # 0 THEN InsertFound(s, Spare, find_internal(s.nodes, Spare, k, TRUE), k, v)
    ELSE IF Positioned(BeginAt(s.nodes, Spare)) THEN [s EXCEPT !.cursor = Failed]
    ELSE insert_first(s, Spare, k, v)

RECURSIVE InsertAll(_, _)
InsertAll(s, entries) ==
    IF entries = <<>> \/ s.cursor = Failed THEN s
    ELSE InsertAll(InsertPair(s, entries[1][1], entries[1][2]), Tail(entries))

(* repair: every entry of the old tree goes into a new one, whose root's   *)
(* contents then replace the old root's. Faulty variant: they do so even   *)
(* when the new tree is not complete.                                      *)
Rebuilt(s) ==
    InsertAll(Step(NewNode(s.nodes, Spare, Leaf(<<>>, <<>>)), s.last, End), as_map(s.nodes, Root))
TakeRoot(s, built) ==
    [built EXCEPT !.nodes[Root] = [built.nodes[Spare] EXCEPT !.limits = s.nodes[Root].limits]]
TakeRootIfDone(s, built) == IF built.cursor = Failed THEN built ELSE TakeRoot(s, built)

repair_partly(s) == TakeRoot(s, Rebuilt(s))
repair(s) == TakeRootIfDone(s, Rebuilt(s))

(* find: after a structural error the tree is repaired and searched again. *)
FindAgain(s, k, previous) ==
    IF s.cursor = Failed THEN s
    ELSE [s EXCEPT !.cursor = find_internal(s.nodes, Root, k, previous)]
FindOrRepair(s, k, previous, c) ==
    IF c # Failed \/ ~AutoRepair THEN [s EXCEPT !.cursor = c] ELSE FindAgain(repair(s), k, previous)
find(s, k, previous) == FindOrRepair(s, k, previous, find_internal(s.nodes, Root, k, previous))

-----------------------------------------------------------------------------
(* remove_empty_leaf: the kid goes, and every ancestor it leaves empty; an *)
(* empty root is a leaf again. The cursor goes to the next entry.          *)

IncrementIf(ns, c) == IF Positioned(c) THEN increment(ns, Root, c, 1) ELSE End
AfterKid(ns, path) ==
    LET e == path[Len(path)]
        kids == ns[e.node].kids
        left == Len(kids)
    IN  IF e.kid = left + 1
        THEN IncrementIf(ns, descend(ns, Front(path) \o <<[e EXCEPT !.kid = left]>>, kids[left], FALSE, TRUE))
        ELSE OrEnd(descend(ns, path, kids[e.kid], TRUE, TRUE))
WithoutKid(s, ns, path) == Step(ns, s.last, AfterKid(ns, path))

RECURSIVE remove_empty_leaf(_, _)
RemoveKid(s, path, kids) ==
    LET p == Len(path)
        e == path[p]
        cut == [s.nodes EXCEPT ![e.node].kids = kids]
    IN  IF kids # <<>>
        THEN WithoutKid(s, IF e.kid \in {1, Len(kids) + 1} THEN reset_limits(cut, path, e.node, p - 1)
                           ELSE cut, path)
        ELSE IF p = 1 THEN Step([s.nodes EXCEPT ![e.node] = Leaf(<<>>, @.limits)], s.last, End)
        ELSE remove_empty_leaf([s EXCEPT !.nodes = cut], Front(path))
remove_empty_leaf(s, path) ==
    LET e == path[Len(path)] IN RemoveKid(s, path, RemoveAt(s.nodes[e.node].kids, e.kid))

(* Faulty variant: the cursor stays on the entry before the removed one.   *)
stay_before(s, ns, c) ==
    LET left == Len(ns[c.leaf].items)
    IN  Step(ns, s.last, IF c.item = left + 1 THEN [c EXCEPT !.item = left] ELSE c)

AfterItem(s, ns, c) ==
    LET left == Len(ns[c.leaf].items)
    IN  Step(ns, s.last, IF c.item = left + 1 THEN increment(ns, Root, [c EXCEPT !.item = left], 1) ELSE c)

RemoveItem(s, c, items) ==
    LET cut == [s.nodes EXCEPT ![c.leaf].items = items]
        edge == c.item \in {1, Len(items) + 1}
    IN  IF items # <<>>
        THEN AfterItem(s, IF edge THEN reset_limits(cut, c.path, c.leaf, Len(c.path)) ELSE cut, c)
        ELSE IF c.path = <<>> THEN Step(reset_limits(cut, <<>>, c.leaf, 0), s.last, End)
        ELSE remove_empty_leaf([s EXCEPT !.nodes = cut], c.path)
remove_at(s, c) == RemoveItem(s, c, RemoveAt(s.nodes[c.leaf].items, c.item))

-----------------------------------------------------------------------------
(* The public calls. A call that fails returns no cursor: the client keeps *)
(* the one it has, unless the tree was rebuilt under it.                   *)

RECURSIVE Under(_, _)
Under(ns, n) == {n} \cup UNION {Under(ns, k) : k \in {ns[n].kids[i] : i \in DOMAIN ns[n].kids}}

RECURSIVE Loops(_, _, _)
Loops(ns, seen, n) ==
    n \in seen \/ \E i \in DOMAIN ns[n].kids : Loops(ns, seen \cup {n}, ns[n].kids[i])

(* Objects that no node of the tree refers to are not kept.                *)
InUse(ns) == IF Loops(ns, {}, Root) THEN ns ELSE [n \in Under(ns, Root) |-> ns[n]]

Call(kind, k, v, ok) == [kind |-> kind, key |-> k, value |-> v, ok |-> ok]
Now == Step(nodes, last, cursor)

(* as_map collects into a map: the last of equal keys is the one kept.     *)
Entries(ns) == as_map(ns, Root)
LastOf(es, k) == CHOOSE i \in DOMAIN es : es[i][1] = k /\ \A j \in DOMAIN es : es[j][1] = k => j <= i
MapOf(es) == [k \in {es[i][1] : i \in DOMAIN es} |-> es[LastOf(es, k)][2]]
Ascending(es) == \A i, j \in DOMAIN es : i < j => es[i][1] < es[j][1]

KeyAt(ns, c) == IF Positioned(c) THEN Entry(ns, c)[1] ELSE 0

RECURSIVE Levels(_, _)
Levels(ns, n) == IF ns[n].kids = <<>> THEN 1 ELSE 1 + Levels(ns, ns[n].kids[1])

RECURSIVE FirstUnder(_, _)
FirstUnder(ns, n) == IF ns[n].kids = <<>> THEN ns[n].items[1][1] ELSE FirstUnder(ns, ns[n].kids[1])
RECURSIVE LastUnder(_, _)
LastUnder(ns, n) ==
    IF ns[n].kids = <<>> THEN ns[n].items[Len(ns[n].items)][1]
    ELSE LastUnder(ns, ns[n].kids[Len(ns[n].kids)])

Bounded(ns) == \A n \in Under(ns, Root) : Len(ns[n].items) <= Threshold /\ Len(ns[n].kids) <= Threshold
NoHollowNode(ns) ==
    \A n \in Under(ns, Root) \ {Root} : (ns[n].items = <<>>) # (ns[n].kids = <<>>)
LimitsExact(ns) ==
    \A n \in Under(ns, Root) \ {Root} : ns[n].limits = <<FirstUnder(ns, n), LastUnder(ns, n)>>

SoundTree(ns) ==
    ~Loops(ns, {}, Root) /\ Ascending(Entries(ns)) /\ Bounded(ns) /\ NoHollowNode(ns) /\ LimitsExact(ns)

(* The entries, the cursor's key, whether the tree is sound, and whether   *)
(* the object numbers left do for a split at every level.                  *)
View(ns, l, c) ==
    [map |-> MapOf(Entries(ns)),
     at |-> KeyAt(ns, c),
     sound |-> SoundTree(ns),
     room |-> Loops(ns, {}, Root) \/ l + Levels(ns, Root) + 1 <= MaxNumber]

Return(kind, k, v, outcome) ==
    \E s \in {outcome} :
        /\ nodes' = InUse(s.nodes)
        /\ last' = s.last
        /\ cursor' = IF s.cursor # Failed THEN s.cursor ELSE IF s.nodes = nodes THEN cursor ELSE End
        /\ call' = Call(kind, k, v, s.cursor # Failed)
        /\ view' = IF s.nodes = nodes THEN [view EXCEPT !.at = KeyAt(nodes, cursor')]
                   ELSE View(s.nodes, s.last, cursor')

insert(k, v) ==
    \E s \in {find(Now, k, TRUE)} : Return("insert", k, v, InsertFound(s, Root, s.cursor, k, v))

(* The tree's own removal leaves a cursor to the client that may be stale: *)
(* the client drops it.                                                    *)
remove(k) ==
    \E s \in {find(Now, k, FALSE)} :
        Return("remove", k, 0, IF s.cursor = Failed THEN s
                               ELSE IF Positioned(s.cursor) THEN [remove_at(s, s.cursor) EXCEPT !.cursor = End]
                               ELSE [s EXCEPT !.cursor = End])

find_object(k) == Return("find", k, 0, find(Now, k, FALSE))
find_object_at_or_below(k) == Return("find_below", k, 0, find(Now, k, TRUE))

begin == Return("begin", 0, 0, [Now EXCEPT !.cursor = BeginAt(nodes, Root)])
final == Return("last", 0, 0, [Now EXCEPT !.cursor = LastAt(nodes, Root)])
next == Return("next", 0, 0, [Now EXCEPT !.cursor = increment(nodes, Root, cursor, 1)])
previous == Return("previous", 0, 0, [Now EXCEPT !.cursor = increment(nodes, Root, cursor, -1)])

(* The cursor's insertion does not check the order of keys; clients use it *)
(* for a key that belongs right after the cursor.                          *)
cursor_insert_after(k, v) ==
    /\ KeyAt(nodes, cursor) < k
    /\ LET following == KeyAt(nodes, increment(nodes, Root, cursor, 1)) IN following = 0 \/ k < following
    /\ Return("insert_after", k, v, insert_after(Now, Root, cursor, k, v))

cursor_remove ==
    Return("remove_current", 0, 0,
           IF Positioned(cursor) THEN remove_at(Now, cursor) ELSE [Now EXCEPT !.cursor = Failed])

Init ==
    /\ nodes \in Trees
    /\ last = CHOOSE n \in DOMAIN nodes : \A m \in DOMAIN nodes : m <= n
    /\ cursor = End
    /\ call = Call("open", 0, 0, TRUE)
    /\ view = View(nodes, last, cursor)

Next ==
    \/ \E k \in Keys, v \in Values : insert(k, v) \/ cursor_insert_after(k, v)
    \/ \E k \in Keys : remove(k) \/ find_object(k) \/ find_object_at_or_below(k)
    \/ begin
    \/ final
    \/ next
    \/ previous
    \/ cursor_remove

Spec == Init /\ [][Next]_vars

-----------------------------------------------------------------------------
(* Properties.                                                             *)

(* After any sequence of insertions and removals that began with a sound   *)
(* tree, with every split, push-down of the root and removal of emptied    *)
(* nodes they caused: the keys ascend, every node but the root has exact   *)
(* limits and something in it, and no node is over the threshold.          *)
TreeSound == SoundTree(nodes)

(* Whatever splits, removals and repairs did to the nodes, the cursor's    *)
(* path leads from the root, kid by kid, to its leaf.                      *)
CursorLive ==
    Positioned(cursor) =>
        LET path == cursor.path
            chain == [i \in 1 .. Len(path) + 1 |-> IF i <= Len(path) THEN path[i].node ELSE cursor.leaf]
        IN  /\ chain[1] = Root
            /\ \A i \in DOMAIN path : /\ path[i].kid \in DOMAIN nodes[path[i].node].kids
                                      /\ Kid(nodes, path[i]) = chain[i + 1]
            /\ cursor.item \in DOMAIN nodes[cursor.leaf].items

(* The preflight of an insertion counts every object that its splits then  *)
(* make, so none of them finds the numbers exhausted half-way.             *)
NeverOutOfNumbers == last <= MaxNumber

(* binary_search begins at a power of two that may lie past the end and    *)
(* makes one probe per halving. It still finds what it is asked for in     *)
(* every array a node can have at the default threshold of 32, one over it *)
(* included. (The search has no state: it is checked once, as a tree is    *)
(* opened.)                                                                *)
LargestArray == 33
SearchExact == call.kind = "open" => \A count \in 0 .. LargestArray : SearchSound(count)

(* The tree is an ordered map: each call does to the map and its cursor    *)
(* what OrderedMap says. An insertion may be refused only when the numbers *)
(* left would not do for a split at every level of the tree.               *)
Abstract == INSTANCE OrderedMap WITH
    map <- view.map,
    at <- view.at,
    room <- view.room
OrderedMapSpec == Abstract!Spec

(* A lookup that had to repair the tree keeps every entry it could reach,  *)
(* leaves a sound tree, and then finds what the key names.                 *)
RepairExact ==
    [][call'.kind \in {"find", "find_below"} /\ call'.ok /\ nodes' # nodes =>
          /\ view'.map = view.map
          /\ view'.sound
          /\ call'.kind = "find" =>
                view'.at = IF call'.key \in DOMAIN view.map THEN call'.key ELSE 0]_vars

(* A call that fails takes no entry with it, even when it failed in the    *)
(* middle of a repair.                                                     *)
FailureKeepsEntries == [][~call'.ok => view'.map = view.map]_vars
=============================================================================
