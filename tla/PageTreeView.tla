---------------------------- MODULE PageTreeView ----------------------------
(***************************************************************************)
(* What a reader of the document sees of its page tree, and the properties *)
(* that the operations of PageTree have with respect to it.                *)
(***************************************************************************)
EXTENDS PageTree

Or(attrs, key, other) == IF key \in DOMAIN attrs THEN attrs[key].v ELSE other
Usable(box) == IF box \in Rectangles THEN box ELSE "letter"
Seen(o, n, box, res) ==
    [data |-> o[n].data, box |-> Usable(Or(o[n].attrs, "MediaBox", box)), res |-> Or(o[n].attrs, "Resources", res)]

(* The pages below n in document order, with the attributes they inherit   *)
(* along /Kids; a node that is above itself has none.                      *)
RECURSIVE Leaves(_, _, _, _, _), LeavesOf(_, _, _, _, _, _)
Leaves(o, n, path, box, res) ==
    IF n \in path THEN <<>>
    ELSE IF ~o[n].has_kids THEN <<[id |-> n, page |-> Seen(o, n, box, res)]>>
    ELSE LeavesOf(o, o[n].kids, path \cup {n}, Or(o[n].attrs, "MediaBox", box), Or(o[n].attrs, "Resources", res), 1)
LeavesOf(o, kids, path, box, res, i) ==
    IF i > Len(kids) THEN <<>>
    ELSE Leaves(o, kids[i], path, box, res) \o LeavesOf(o, kids, path, box, res, i + 1)

(* A push in progress holds what it took from the nodes above the page it  *)
(* is at.                                                                  *)
Taken(n) == IF call.phase # "push" THEN {} ELSE {i \in DOMAIN frames : frames[i].node = n}
Depth(i, key) == Cardinality({j \in 1 .. i : key \in frames[j].own})
Whole ==
    [n \in DOMAIN objects |->
        IF Taken(n) = {} THEN objects[n]
        ELSE LET i == Least(Taken(n))
             IN [objects[n] EXCEPT !.attrs = Over(@, [k \in frames[i].own |-> above[k][Depth(i, k)]])]]

View == LET r == PageTreeRoot(catalog)
        IN IF objects[r].has_kids THEN Leaves(Whole, r, {}, "none", "none") ELSE <<>>
IdsOf(view) == [i \in DOMAIN view |-> view[i].id]
PagesOf(view) == [i \in DOMAIN view |-> view[i].page]
ViewIds == IdsOf(View)
List == PagesOf(View)

PageOf(n) == IF n \in Elements(ViewIds) THEN List[Least(Positions(ViewIds, n))] ELSE Seen(objects, n, "none", "none")

(* A page that is added is below the root, which keeps attributes only if  *)
(* it was not /Type /Pages when its own were to be taken from it.          *)
OfRoot(key) == Or(objects[catalog].attrs, key, "none")
Below(o, n) == Seen(o, n, OfRoot("MediaBox"), OfRoot("Resources"))
GivenPage ==
    IF call.page = 0 THEN Below([n \in {0} |-> call.new], 0)
    ELSE IF call.page \in Elements(ViewIds) THEN PageOf(call.page)
    ELSE Below(objects, call.page)

-----------------------------------------------------------------------------
(* Between calls, unless a client changed the tree by itself: a cached     *)
(* list is the pages of the tree the catalog names, each marked as a page  *)
(* (a client gives pages), and a flat tree is below nothing else.          *)
ListSeen ==
    Idle /\ ~stale =>
        /\ cache.pages # <<>> =>
              cache.pages = ViewIds /\ \A n \in Elements(cache.pages) : objects[n].type = "Page"
        /\ flattened => objects[catalog].parent = 0

(* What the next call takes for granted of the tree, whatever failed.      *)
KnownExact == ListKnown /\ ListSeen

(* Every call ends, on trees with loops as well.                           *)
CallsEnd == ~Idle ~> Idle

-----------------------------------------------------------------------------
(* The page list that a client sees changes by the edit it asked for and   *)
(* by nothing else: not by a repair, a push of attributes or a flattening, *)
(* and not by a call that fails; only a call that runs out of object       *)
(* numbers may lose attributes, never pages.                               *)

(* Where a page may be put: at the beginning, beside the page named, or at *)
(* the end; where /Count was wrong the end that is meant is left open.     *)
MeansEnd == call.op = "add_page" /\ call.other = ToEnd
Places ==
    IF MeansEnd THEN (IF call.index = Len(List) THEN {Len(List)} ELSE 0 .. Len(List))
    ELSE IF call.op = "add_page" THEN {0}
    ELSE {Least(Positions(ViewIds, call.other)) - (IF call.index = 0 THEN 1 ELSE 0)}

Asked ==
    IF Idle THEN [kind |-> "change"]
    ELSE IF call.phase # "edit" THEN [kind |-> "none"]
    ELSE CASE call.op \in {"add_page", "add_page_at"} ->
                 IF call.op = "add_page_at" /\ call.other \notin Elements(ViewIds) THEN [kind |-> "none"]
                 ELSE [kind |-> "insert", places |-> Places, page |-> GivenPage]
           [] call.op = "remove_page" /\ call.page \in Elements(ViewIds) ->
                 [kind |-> "remove", at |-> Least(Positions(ViewIds, call.page))]
           [] call.op = "rebuild_page_tree" ->
                 [kind |-> "select", chosen |-> [j \in DOMAIN call.selected |-> PageOf(call.selected[j])]]
           [] OTHER -> [kind |-> "none"]

Boxes == Rectangles
PageValues == [data : Contents, box : Boxes, res : {"none", "fonts", "images"}]

PageListOf == INSTANCE PageList WITH Pages <- PageValues, list <- List, asked <- Asked, outcome <- call.outcome
PageListSpec == PageListOf!Spec

(* The doc comment of add_page: with first = FALSE the page is added at    *)
(* the end of the document.                                                *)
AddedAtEnd ==
    [][call.phase = "edit" /\ MeansEnd /\ call'.outcome = "ok" => SubSeq(List', 1, Len(List)) = List]_vars
=============================================================================
