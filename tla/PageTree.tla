------------------------------ MODULE PageTree ------------------------------
(***************************************************************************)
(* The page tree of a document and the operations that read and edit it    *)
(* (crates/flpdf/src/pages.rs, pages/repair.rs, pages/tree_rebuild.rs,     *)
(* page_document_helper.rs, optimization/inherited_attrs.rs, pdf.rs). A    *)
(* first use walks the tree and repairs it; an edit first moves inherited  *)
(* attributes down to the pages and makes the tree flat; the list of pages *)
(* is cached, and the flag page_tree_flattened says that it is flat.       *)
(***************************************************************************)
EXTENDS Integers, Sequences, FiniteSets

CONSTANTS
    Documents,      \* the documents a client may open
    Changes(_, _),  \* what a client may make of the objects by itself
    NewPages,       \* pages a client may add
    Contents,       \* what a page shows; "empty" is nothing
    MaxNumber,      \* i32::MAX: no object number after it
    MaxCalls

(* Two of the four inheritable attributes, in the order they are pushed:   *)
(* /MediaBox is repaired where it is missing, the others are not.          *)
Keys == <<"MediaBox", "Resources">>
KeySet == {"MediaBox", "Resources"}

(* Numbers above 0 are objects, below 0 direct values, 0 is nothing.       *)
Ids == (-MaxNumber) .. MaxNumber
IsDirect(n) == n < 0
Letter == [v |-> "letter", ref |-> FALSE]
Rectangles == {"letter", "small", "large"}
Values == [v : Rectangles \cup {"bad", "fonts", "images"}, ref : BOOLEAN]
Node == [type : {"Page", "Pages", "other"}, has_kids : BOOLEAN, kids : Seq(Ids), parent : Ids,
         count : Int, attrs : UNION {[S -> Values] : S \in SUBSET KeySet}, data : Contents]

(* A dictionary whose references lead into D; one without /Kids has none. *)
Elements(s) == {s[i] : i \in DOMAIN s}
IsDictionary(d, D) ==
    /\ d \in Node
    /\ Elements(d.kids) \subseteq D
    /\ d.parent \in D \cup {0}
    /\ ~d.has_kids => d.kids = <<>>

(* Dictionaries numbered up to n that refer to one another.                *)
AreDictionaries(o, n) ==
    /\ DOMAIN o \subseteq ((-MaxNumber) .. n) \ {0}
    /\ \A m \in DOMAIN o : IsDictionary(o[m], DOMAIN o)

ASSUME NumbersAssumption == MaxNumber \in Nat /\ MaxCalls \in Nat
ASSUME ContentsAssumption == "empty" \in Contents
ASSUME DocumentsAssumption ==
    \A d \in Documents :
        d.last \in 0 .. MaxNumber /\ AreDictionaries(d.objects, d.last) /\ d.catalog \in DOMAIN d.objects
ASSUME NewPagesAssumption ==
    \A p \in NewPages : p \in Node /\ p.type = "Page" /\ ~p.has_kids /\ p.kids = <<>> /\ p.parent = 0

VARIABLES
    objects,     \* dictionaries of the document
    catalog,     \* /Pages of the catalog
    last,        \* the highest object number in use
    cache,       \* page_list_cache; no pages means none
    flattened,   \* page_tree_flattened
    call,        \* the call in progress, or the outcome of the last one
    pages,       \* the list of the call in progress
    frames,      \* its walk over the tree
    met,         \* seen and visited of the walk
    above,       \* key_ancestors: values removed from the nodes above
    stale,       \* a client changed the tree by itself
    calls

doc == <<objects, catalog, last>>
known == <<cache, flattened>>
walk == <<pages, frames, met, above>>
vars == <<doc, known, call, walk, stale, calls>>

NoCache == [root |-> 0, pages |-> <<>>]
Positions(s, x) == {i \in DOMAIN s : s[i] = x}
Least(S) == CHOOSE i \in S : \A j \in S : i <= j
Inserted(s, i, x) == SubSeq(s, 1, i) \o <<x>> \o SubSeq(s, i + 1, Len(s))
Erased(s, i) == SubSeq(s, 1, i - 1) \o SubSeq(s, i + 1, Len(s))
(* The map f with d for n; f, and g where f has nothing.                   *)
With(f, n, d) == [m \in DOMAIN f \cup {n} |-> IF m = n THEN d ELSE f[m]]
Over(f, g) == [m \in DOMAIN f \cup DOMAIN g |-> IF m \in DOMAIN f THEN f[m] ELSE g[m]]

Own(o, n, key) == key \in DOMAIN o[n].attrs
Set(o, n, key, value) == [o EXCEPT ![n].attrs = With(@, key, value)]
(* Faulty variant: what is handed down stays where it was.                 *)
NotRemoved(o, n, keys) == o
Removed(o, n, keys) == [o EXCEPT ![n].attrs = [k \in DOMAIN @ \ keys |-> @[k]]]

Blank == [type |-> "Page", has_kids |-> FALSE, kids |-> <<>>, parent |-> 0, count |-> 0, attrs |-> <<>>, data |-> "empty"]
Call(op, page, new, index, other, selected) ==
    [op |-> op, page |-> page, new |-> new, index |-> index, other |-> other, selected |-> selected,
     phase |-> "root", outcome |-> "running"]
Ended(outcome) == [Call(call.op, 0, Blank, 0, 0, <<>>) EXCEPT !.phase = "idle", !.outcome = outcome]
Idle == call.phase = "idle"
Empty == [k \in KeySet |-> <<>>]

Finish(why) ==
    /\ call' = Ended(why)
    /\ frames' = <<>>
    /\ pages' = <<>>
    /\ met' = [seen |-> {}, visited |-> {}]
    /\ above' = Empty

(* What a call does once it has the pages of tree r: a push enters a root  *)
(* that is /Type /Pages, and no other.                                     *)
Flattens(c) == c.op \in {"add_page", "add_page_at", "remove_page"} /\ ~flattened
IsPages(n) == objects[n].type = "Pages"

Continue(c, r, list) ==
    CASE c.op \in {"get_all_pages", "update_all_pages_cache"} \/ (c.op = "push" /\ ~IsPages(r)) -> Finish("ok")
      [] (c.op = "push" \/ Flattens(c)) /\ IsPages(r) ->
            /\ call' = [c EXCEPT !.phase = "push"]
            /\ pages' = list
            /\ frames' = <<[node |-> r, todo |-> Keys, next |-> 1, own |-> {}]>>
            /\ met' = [seen |-> {}, visited |-> {r}]
            /\ above' = Empty
      [] OTHER ->
            /\ call' = [c EXCEPT !.phase = IF Flattens(c) THEN "flatten" ELSE "edit"]
            /\ pages' = list
            /\ frames' = <<>>
            /\ met' = [seen |-> {}, visited |-> {}]
            /\ above' = Empty

-----------------------------------------------------------------------------
(* prepare_for_optimization: the root, then every kid in document order.   *)

Up == [n \in DOMAIN objects |-> IF objects[n].parent = 0 THEN n ELSE objects[n].parent]
Parents(n) ==
    LET up[k \in 0 .. Cardinality(DOMAIN objects)] == IF k = 0 THEN n ELSE Up[up[k - 1]]
    IN up

(* Up along /Parent until there is none or a node repeats.                 *)
ComesBack(up, k) == k > 0 /\ \E j \in 0 .. k - 1 : up[j] = up[k]
PageTreeRoot(n) ==
    CHOOSE r \in DOMAIN objects :
        \E up \in {Parents(n)} : \E k \in DOMAIN up : /\ r = up[k] /\ ComesBack(up, k)
                                                   /\ \A j \in 0 .. k - 1 : ~ComesBack(up, j)

Rectangle(n) == Own(objects, n, "MediaBox") /\ objects[n].attrs["MediaBox"].v \in Rectangles

RepairFrame(n, inherited) == [node |-> n, next |-> 1, box |-> inherited \/ Rectangle(n)]

FindRoot ==
    /\ call.phase = "root"
    /\ \E r \in {PageTreeRoot(catalog)} :
         /\ catalog' = r
         /\ IF objects[r].has_kids
            THEN /\ objects' = [objects EXCEPT ![r].type = "Pages"]
                 /\ call' = [call EXCEPT !.phase = "repair"]
                 /\ frames' = <<RepairFrame(r, FALSE)>>
                 /\ met' = [seen |-> {}, visited |-> {r}]
                 /\ pages' = <<>>
                 /\ above' = Empty
                 /\ UNCHANGED <<last, known, stale, calls>>
            ELSE Continue(call, r, <<>>) /\ UNCHANGED <<objects, last, known, stale, calls>>

Top == frames[Len(frames)]
Kids(n) == objects[n].kids
Kid == Kids(Top.node)[Top.next]
AtKid == Top.next <= Len(Kids(Top.node))
Advance == [frames EXCEPT ![Len(frames)].next = @ + 1]
Lower == SubSeq(frames, 1, Len(frames) - 1)

Loops(n) == n \in met.visited

RepairNode ==
    /\ AtKid /\ objects[Kid].has_kids
    /\ IF Loops(Kid) THEN Finish("loop") /\ UNCHANGED objects
       ELSE /\ objects' = [objects EXCEPT ![Kid].type = "Pages"]
            /\ frames' = Append(Advance, RepairFrame(Kid, Top.box))
            /\ met' = [met EXCEPT !.visited = @ \cup {Kid}]
            /\ UNCHANGED <<call, pages, above>>
    /\ UNCHANGED <<catalog, last, known, stale, calls>>

Exhausted == last >= MaxNumber

(* A direct or repeated page becomes a new object of its own.              *)
NeedsObject(n) == IsDirect(n) \/ n \in met.seen

WithBox(n) == IF Top.box \/ Rectangle(n) THEN objects[n] ELSE Set(objects, n, "MediaBox", Letter)[n]

RepairPage ==
    /\ AtKid /\ ~objects[Kid].has_kids
    /\ IF NeedsObject(Kid)
       THEN IF Exhausted
            THEN /\ Finish("numbers")
                 /\ objects' = [objects EXCEPT ![Kid] = WithBox(Kid)]
                 /\ UNCHANGED last
            ELSE /\ objects' = With([objects EXCEPT ![Kid] = WithBox(Kid), ![Top.node].kids[Top.next] = last + 1],
                                    last + 1, [WithBox(Kid) EXCEPT !.type = "Page"])
                 /\ last' = last + 1
                 /\ pages' = Append(pages, last + 1)
                 /\ met' = [met EXCEPT !.seen = @ \cup {last + 1}]
                 /\ frames' = Advance
                 /\ UNCHANGED <<call, above>>
       ELSE /\ objects' = [objects EXCEPT ![Kid] = [WithBox(Kid) EXCEPT !.type = "Page"]]
            /\ pages' = Append(pages, Kid)
            /\ met' = [met EXCEPT !.seen = @ \cup {Kid}]
            /\ frames' = Advance
            /\ UNCHANGED <<last, call, above>>
    /\ UNCHANGED <<catalog, known, stale, calls>>

(* cache_page_list: an empty list is not kept.                             *)
Cached(r, list) == IF list = <<>> THEN cache ELSE [root |-> r, pages |-> list]

RepairUp ==
    /\ ~AtKid
    /\ IF Len(frames) > 1
       THEN /\ frames' = Lower
            /\ UNCHANGED <<call, pages, met, above, cache>>
       ELSE /\ cache' = Cached(catalog, pages)
            /\ Continue(call, catalog, pages)
    /\ flattened' = flattened
    /\ UNCHANGED <<doc, stale, calls>>

prepare_for_optimization == FindRoot \/ (call.phase = "repair" /\ (RepairNode \/ RepairPage \/ RepairUp))

-----------------------------------------------------------------------------
(* inherited_attrs::push                                                   *)

(* push_node_attributes, one key: it leaves the node, and a direct value   *)
(* becomes an object; without a number for it the key is lost.             *)
PushKey ==
    /\ Top.todo # <<>>
    /\ \E key \in {Head(Top.todo)}, n \in {Top.node} :
         IF ~Own(objects, n, key)
         THEN /\ frames' = [frames EXCEPT ![Len(frames)].todo = Tail(@)]
              /\ UNCHANGED <<objects, last, call, pages, met, above>>
         ELSE /\ objects' = Removed(objects, n, {key})
              /\ IF ~objects[n].attrs[key].ref /\ Exhausted
                 THEN Finish("numbers") /\ UNCHANGED last
                 ELSE /\ last' = IF objects[n].attrs[key].ref THEN last ELSE last + 1
                      /\ above' = [above EXCEPT ![key] = Append(@, [objects[n].attrs[key] EXCEPT !.ref = TRUE])]
                      /\ frames' = [frames EXCEPT ![Len(frames)].todo = Tail(@), ![Len(frames)].own = @ \cup {key}]
                      /\ UNCHANGED <<call, pages, met>>
    /\ UNCHANGED <<catalog, known, stale, calls>>

(* Faulty variant: the outermost value wins.                               *)
Outermost(key) == above[key][1]
Nearest(key) == above[key][Len(above[key])]

(* walk_inherited_frames: below an object only objects are entered or get  *)
(* the attributes; below a direct node also direct nodes are entered.      *)
PushesTo(n, kid) == ~IsDirect(kid) \/ (IsDirect(n) /\ objects[kid].has_kids)

(* Faulty variant: a page that was given the attributes is not passed.     *)
NotPassed == frames
Passed == Advance

PushKid ==
    /\ Top.todo = <<>> /\ AtKid
    /\ IF PushesTo(Top.node, Kid) /\ objects[Kid].type = "Pages" /\ (IsDirect(Kid) \/ Kid \notin met.visited)
       THEN /\ frames' = Append(Advance, [node |-> Kid, todo |-> Keys, next |-> 1, own |-> {}])
            /\ met' = [met EXCEPT !.visited = @ \cup {Kid}]
            /\ UNCHANGED objects
       ELSE /\ frames' = Passed
            /\ objects' = IF PushesTo(Top.node, Kid) /\ objects[Kid].type # "Pages"
                          THEN [objects EXCEPT ![Kid].attrs =
                                  Over(@, [k \in {j \in KeySet : above[j] # <<>>} |-> Nearest(k)])]
                          ELSE objects
            /\ UNCHANGED met
    /\ UNCHANGED <<catalog, last, known, call, pages, above, stale, calls>>

PushUp ==
    /\ Top.todo = <<>> /\ ~AtKid
    /\ above' = [k \in KeySet |-> IF k \in Top.own THEN SubSeq(above[k], 1, Len(above[k]) - 1) ELSE above[k]]
    /\ frames' = Lower
    /\ call' = IF Len(frames) > 1 THEN call
               ELSE IF call.op = "push" THEN Ended("ok") ELSE [call EXCEPT !.phase = "flatten"]
    /\ UNCHANGED <<doc, known, pages, met, stale, calls>>

push == call.phase = "push" /\ (PushKey \/ PushKid \/ PushUp)

-----------------------------------------------------------------------------
(* flatten_pages_tree: what follows the push. A wrong /Count is reported   *)
(* after the tree was changed and the flag was set; a negative one is 0.   *)

DeclaredCount(n) == IF objects[n].count < 0 THEN 0 ELSE objects[n].count
Flat(n) == [objects[n] EXCEPT !.parent = catalog]

flatten_pages_tree ==
    /\ call.phase = "flatten"
    /\ objects' = [n \in DOMAIN objects |->
                     IF n = catalog THEN [objects[n] EXCEPT !.kids = pages, !.has_kids = TRUE]
                     ELSE IF n \in Elements(pages) THEN Flat(n)
                     ELSE objects[n]]
    /\ flattened' = (pages # <<>>)
    /\ cache' = Cached(catalog, pages)
    /\ IF DeclaredCount(catalog) = Len(pages)
       THEN call' = [call EXCEPT !.phase = "edit"] /\ UNCHANGED walk
       ELSE Finish("count")
    /\ UNCHANGED <<catalog, last, stale, calls>>

-----------------------------------------------------------------------------
(* insert_page, with add_page, add_page_at and materialize_page_input: the *)
(* page given is a new one (0) or one of the document's.                   *)

Position == IF call.op = "add_page" THEN call.index
            ELSE (CHOOSE i \in DOMAIN pages : pages[i] = call.other) - (IF call.index = 0 THEN 1 ELSE 0)
Page0 == IF call.page = 0 THEN last + 1 ELSE call.page

(* Faulty variant: a page that is there already gets no object of its own. *)
NeverRepeated == FALSE
Repeated == Page0 \in Elements(pages)

(* Faulty variant: /Count is changed by one instead of set.                *)
CountedOn(by) == objects[catalog].count + by
Counted(by) == Len(Kids(catalog)) + by

InsertPage(new, made) ==
    \E o \in {With(objects, new, [(IF call.page = 0 THEN call.new ELSE objects[call.page]) EXCEPT !.parent = catalog])} :
      /\ objects' = [o EXCEPT ![catalog].kids = Inserted(@, Position, new), ![catalog].count = Counted(1)]
      /\ last' = made
      /\ cache' = [root |-> catalog, pages |-> Inserted(pages, Position, new)]
      /\ flattened' = TRUE
      /\ Finish("ok")

insert_page ==
    /\ call.phase = "edit"
    /\ call.op \in {"add_page", "add_page_at"}
    /\ \/ /\ call.op = "add_page_at" /\ call.other \notin Elements(pages)
          /\ Finish("missing")
          /\ UNCHANGED <<objects, last, known>>
       \/ /\ call.op = "add_page_at" => call.other \in Elements(pages)
          /\ call.page = 0 /\ Exhausted
          /\ Finish("numbers")
          /\ UNCHANGED <<objects, last, known>>
       \/ /\ call.op = "add_page_at" => call.other \in Elements(pages)
          /\ call.page = 0 => ~Exhausted
          /\ IF Position \notin 0 .. Len(pages)
             THEN /\ Finish("range")
                  /\ objects' = IF call.page = 0 THEN With(objects, last + 1, call.new) ELSE objects
                  /\ last' = IF call.page = 0 THEN last + 1 ELSE last
                  /\ UNCHANGED known
             ELSE IF ~Repeated THEN InsertPage(Page0, IF call.page = 0 THEN last + 1 ELSE last)
             ELSE IF ~Exhausted THEN InsertPage(last + 1, last + 1)
             ELSE Finish("numbers") /\ UNCHANGED <<objects, last, known>>
    /\ UNCHANGED <<catalog, stale, calls>>

(* invalidate_page_list_cache                                              *)
Invalidated == cache' = NoCache /\ flattened' = FALSE

remove_page ==
    /\ call.phase = "edit"
    /\ call.op = "remove_page"
    /\ IF call.page \notin Elements(pages)
       THEN Finish("missing") /\ UNCHANGED <<objects, known>>
       ELSE \E i \in {Least(Positions(pages, call.page))} :
              /\ objects' = [objects EXCEPT ![catalog].kids = Erased(@, i), ![catalog].count = Counted(-1)]
              /\ IF Len(pages) = 1 THEN Invalidated
                 ELSE cache' = [root |-> catalog, pages |-> Erased(pages, i)] /\ flattened' = TRUE
              /\ Finish("ok")
    /\ UNCHANGED <<catalog, last, stale, calls>>

-----------------------------------------------------------------------------
(* rebuild_page_tree: the tree lists exactly the pages selected.           *)

(* collect_page_tree_nodes: down from the root through nodes that are      *)
(* /Type /Pages, the root among them.                                      *)
TreeNodes ==
    LET reach[k \in 0 .. Cardinality(DOMAIN objects)] ==
            IF k = 0 THEN {n \in {catalog} : IsPages(n)}
            ELSE UNION {{n} \cup {m \in Elements(Kids(n)) : objects[m].has_kids /\ IsPages(m)} : n \in reach[k - 1]}
    IN reach[Cardinality(DOMAIN objects)]

(* promote_page_tree_inheritable_values                                    *)
DirectValues == {e \in TreeNodes \X KeySet : Own(objects, e[1], e[2]) /\ ~objects[e[1]].attrs[e[2]].ref}
Promoted(some) ==
    [n \in DOMAIN objects |->
        [objects[n] EXCEPT !.attrs = [k \in DOMAIN @ |-> IF <<n, k>> \in some THEN [@[k] EXCEPT !.ref = TRUE] ELSE @[k]]]]

(* resolve_inherited_handle_with_max_depth: the first node up along        *)
(* /Parent that has a value of its own, if there is one.                   *)
FirstOwn(up, key) ==
    {k \in DOMAIN up : Own(objects, up[k], key) /\ \A j \in 0 .. k - 1 : ~Own(objects, up[j], key)}
Owners(n, key) == UNION {{up[k] : k \in FirstOwn(up, key)} : up \in {Parents(n)}}
Inherited(o, n) == [key \in {k \in KeySet : Owners(n, k) # {}} |-> o[CHOOSE m \in Owners(n, key) : TRUE].attrs[key]]

(* resolve_inherited_for_page: a direct value that a page selected lacks   *)
(* is promoted where it is found, which may be outside the tree.           *)
Needed(n) ==
    {e \in UNION {Owners(n, k) \X {k} : k \in KeySet} : ~Own(objects, n, e[2]) /\ ~objects[e[1]].attrs[e[2]].ref}
Promotions(j) == DirectValues \cup UNION {Needed(call.selected[i]) : i \in 1 .. j}

(* The last number given once the first j pages selected are done.         *)
Again(j) == \E i \in 1 .. j - 1 : call.selected[i] = call.selected[j]
Copies(j) == Cardinality({i \in 1 .. j : Again(i)})
Number(j) == last + Cardinality(Promotions(j)) + Copies(j)
IsPage(j) == objects[call.selected[j]].type = "Page"
Accepted(j) == IsPage(j) /\ Number(j) <= MaxNumber
Stop == Least({j \in DOMAIN call.selected : ~Accepted(j)} \cup {Len(call.selected) + 1})
Leaf(j) == IF Again(j) THEN Number(j) ELSE call.selected[j]

WithInherited(o, j) == [o[call.selected[j]] EXCEPT !.attrs = Over(@, Inherited(o, call.selected[j]))]

(* The pages selected before position n have their attributes.             *)
Materialized(o, n) ==
    Over([m \in {Leaf(j) : j \in 1 .. n - 1} |-> WithInherited(o, CHOOSE j \in 1 .. n - 1 : Leaf(j) = m)], o)

Stripped(attrs, n) == IF n \in TreeNodes THEN <<>> ELSE attrs
Rebuilt(o) ==
    [n \in DOMAIN o |->
        IF n = catalog
        THEN [o[n] EXCEPT !.kids = [j \in DOMAIN call.selected |-> Leaf(j)], !.has_kids = TRUE, !.type = "Pages",
                          !.count = Len(call.selected), !.parent = 0, !.attrs = Stripped(@, n)]
        ELSE IF \E j \in DOMAIN call.selected : Leaf(j) = n THEN [o[n] EXCEPT !.parent = catalog]
        ELSE [o[n] EXCEPT !.attrs = Stripped(@, n)]]

(* What may be promoted when the page at j is not done: where the numbers  *)
(* end in its middle, its values in the order of the keys.                 *)
HalfPromoted(j) ==
    IF IsPage(j)
    THEN {some \in {Promotions(j - 1) \cup more : more \in SUBSET {e \in Needed(call.selected[j]) : e[2] = Head(Keys)}} :
             last + Cardinality(some) + Copies(j - 1) = MaxNumber}
    ELSE {Promotions(j - 1)}

rebuild_page_tree ==
    /\ call.phase = "edit"
    /\ call.op = "rebuild_page_tree"
    /\ IF last + Cardinality(DirectValues) > MaxNumber
       THEN /\ \E some \in SUBSET DirectValues :
                  Cardinality(some) = MaxNumber - last /\ objects' = Promoted(some)
            /\ last' = MaxNumber
            /\ Invalidated
            /\ Finish("numbers")
       ELSE \E stop \in {Stop} :
            \/ /\ stop > Len(call.selected)
               /\ last' = Number(stop - 1)
               /\ \E o \in {Promoted(Promotions(stop - 1))} : \E m \in {Materialized(o, stop)} : objects' = Rebuilt(m)
               /\ cache' = IF call.selected = <<>> THEN NoCache
                           ELSE [root |-> catalog, pages |-> [j \in DOMAIN call.selected |-> Leaf(j)]]
               /\ flattened' = (call.selected # <<>>)
               /\ Finish("ok")
            \/ /\ stop <= Len(call.selected)
               /\ \E o \in {Promoted(some) : some \in HalfPromoted(stop)} : objects' = Materialized(o, stop)
               /\ last' = IF IsPage(stop) THEN MaxNumber ELSE Number(stop - 1)
               /\ Invalidated
               /\ Finish(IF IsPage(stop) THEN "numbers" ELSE "missing")
    /\ UNCHANGED <<catalog, stale, calls>>

-----------------------------------------------------------------------------
(* The client. A change of its own must be followed by a call of           *)
(* update_all_pages_cache before any other call.                           *)

Start(op, page, new, index, other, selected) ==
    /\ Idle /\ ~stale
    /\ calls < MaxCalls
    /\ calls' = calls + 1
    /\ IF cache.pages # <<>>
       THEN Continue(Call(op, page, new, index, other, selected), cache.root, cache.pages)
       ELSE call' = Call(op, page, new, index, other, selected) /\ UNCHANGED walk
    /\ UNCHANGED <<doc, known, stale>>

get_all_pages == Start("get_all_pages", 0, Blank, 0, 0, <<>>)
push_inherited_attributes_to_pages == Start("push", 0, Blank, 0, 0, <<>>)

(* A new page, or one of the document's, listed or not; never the root.    *)
Listed ==
    {n \in DOMAIN objects \ {catalog, PageTreeRoot(catalog)} :
        n > 0 /\ ~objects[n].has_kids /\ objects[n].type # "Pages"}
Given == {<<0, p>> : p \in NewPages} \cup (Listed \X {Blank})

(* /Count is read from the tree the catalog names, before any repair. That *)
(* the end was meant is kept in the place of the other page.               *)
EndIndex == objects[catalog].count
ToEnd == 1

add_page(g, first) ==
    Start("add_page", g[1], g[2], IF first THEN 0 ELSE EndIndex, IF first THEN 0 ELSE ToEnd, <<>>)
add_page_at(g, before, ref) == Start("add_page_at", g[1], g[2], IF before THEN 0 ELSE 1, ref, <<>>)
RemovePage(n) == Start("remove_page", n, Blank, 0, 0, <<>>)
Rebuild(selected) == Start("rebuild_page_tree", 0, Blank, 0, 0, selected)

update_all_pages_cache ==
    /\ Idle
    /\ calls < MaxCalls \/ stale
    /\ calls' = IF stale THEN calls ELSE calls + 1
    /\ Invalidated
    /\ call' = Call("update_all_pages_cache", 0, Blank, 0, 0, <<>>)
    /\ stale' = FALSE
    /\ UNCHANGED <<doc, walk>>

ChangeTree ==
    /\ Idle /\ ~stale
    /\ calls < MaxCalls
    /\ calls' = calls + 1
    /\ objects' \in Changes(objects, catalog)
    /\ DOMAIN objects' = DOMAIN objects /\ AreDictionaries(objects', last)
    /\ stale' = TRUE
    /\ UNCHANGED <<catalog, last, known, call, walk>>

Init ==
    /\ \E d \in Documents : objects = d.objects /\ catalog = d.catalog /\ last = d.last
    /\ cache = NoCache
    /\ flattened = FALSE
    /\ call = [Call("get_all_pages", 0, Blank, 0, 0, <<>>) EXCEPT !.phase = "idle", !.outcome = "ok"]
    /\ pages = <<>>
    /\ frames = <<>>
    /\ met = [seen |-> {}, visited |-> {}]
    /\ above = Empty
    /\ stale = FALSE
    /\ calls = 0

(* A selection is made of pages that the list had; anything else that is   *)
(* not a page is rejected.                                                 *)
Selections ==
    {<<>>} \cup {<<n>> : n \in Elements(cache.pages)} \cup (Elements(cache.pages) \X Elements(cache.pages))
    \cup (Elements(cache.pages) \X {n \in Listed : objects[n].type # "Page"})

Client ==
    \/ get_all_pages
    \/ push_inherited_attributes_to_pages
    \/ \E g \in Given, first \in BOOLEAN : add_page(g, first)
    \/ \E g \in Given, before \in BOOLEAN, ref \in Listed : add_page_at(g, before, ref)
    \/ \E n \in Listed : RemovePage(n)
    \/ \E selected \in Selections : Rebuild(selected)
    \/ update_all_pages_cache
    \/ ChangeTree

Work ==
    \/ prepare_for_optimization
    \/ push
    \/ flatten_pages_tree
    \/ insert_page
    \/ remove_page
    \/ rebuild_page_tree

Next == Client \/ Work
Spec == Init /\ [][Next]_vars /\ WF_vars(Work)

TypeOK ==
    /\ last \in 0 .. MaxNumber
    /\ AreDictionaries(objects, last)
    /\ catalog \in DOMAIN objects
    /\ Elements(pages) \cup Elements(cache.pages) \subseteq DOMAIN objects
    /\ \A i \in DOMAIN frames : frames[i].node \in DOMAIN objects
    /\ flattened \in BOOLEAN /\ stale \in BOOLEAN

-----------------------------------------------------------------------------
(* Each page of the list is an object of its own and no inner node.        *)
IsLeaf(o, n) == n \in DOMAIN o /\ n > 0 /\ ~o[n].has_kids
OwnPages(o, list) ==
    /\ \A i, j \in DOMAIN list : list[i] = list[j] => i = j
    /\ \A n \in Elements(list) : IsLeaf(o, n)

(* The root r holds the list and nothing else does.                        *)
IsFlat(o, r, list) ==
    /\ o[r].kids = list
    /\ \A n \in Elements(list) : o[n].parent = r

(* What the next call takes for granted, unless a client changed the tree  *)
(* by itself, whatever failed before: the cached list (page_list_cache) is *)
(* of the tree that the catalog names and no page is in it twice, and a    *)
(* tree marked as flat (page_tree_flattened) is: its root lists the pages  *)
(* and is their parent, so that the next edit may change /Kids and /Count  *)
(* of the root and nothing else.                                           *)
ListKnown ==
    Idle /\ ~stale =>
        /\ cache.pages # <<>> => cache.root = catalog /\ OwnPages(objects, cache.pages)
        /\ flattened => cache.pages # <<>> /\ IsFlat(objects, catalog, cache.pages)

(* insert_page, remove_page, rebuild_page_tree: a successful edit leaves   *)
(* /Count right, also after a failed one.                                  *)
CountExact ==
    [][call.phase = "edit" /\ call'.outcome = "ok" => objects'[catalog'].count = Len(objects'[catalog'].kids)]_vars

(* A tree that becomes flat, also where the call fails on /Count after it, *)
(* has nothing on its root that a page could inherit, unless the root is   *)
(* not /Type /Pages, in which case nothing was taken from it (push,        *)
(* flatten_pages_tree, remove_inheritable_keys_from_page_tree).            *)
FlatBare ==
    [][flattened' /\ (flattened => call.phase = "edit" /\ call.op = "rebuild_page_tree") /\ IsPages(catalog) =>
          DOMAIN objects'[catalog].attrs = {}]_vars
=============================================================================
