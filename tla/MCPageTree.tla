----------------------------- MODULE MCPageTree -----------------------------
(* Documents for the model checker: a root with pages and an inner node,   *)
(* and the damages that the repair handles.                                *)
EXTENDS PageTreeView, TLC

V(v) == [v |-> v, ref |-> FALSE]
R(v) == [v |-> v, ref |-> TRUE]
P(parent, attrs, data) ==
    [type |-> "Page", has_kids |-> FALSE, kids |-> <<>>, parent |-> parent, count |-> 0, attrs |-> attrs, data |-> data]
T(parent, kids, count, attrs) ==
    [type |-> "Pages", has_kids |-> TRUE, kids |-> kids, parent |-> parent, count |-> count, attrs |-> attrs, data |-> "empty"]
Untyped(o) == [o EXCEPT !.type = "other"]
Box(v) == "MediaBox" :> v
Res(v) == "Resources" :> v
D(objects0, catalog0) == [objects |-> objects0, catalog |-> catalog0,
                          last |-> CHOOSE n \in DOMAIN objects0 : \A m \in DOMAIN objects0 : m <= n]

(* 1 root, 2 inner node, 3 and 4 pages, -1 a direct page.                  *)
Nested == (1 :> T(0, <<2, 4>>, 2, Res(V("fonts")) @@ Box(R("large")))) @@ (2 :> T(1, <<3>>, 1, Box(V("small"))))
          @@ (3 :> P(2, <<>>, "p")) @@ (4 :> P(1, Box(V("bad")), "q"))
WrongCount(n) == [Nested EXCEPT ![1].count = n]
Twice == (1 :> T(0, <<2, 3>>, 2, Box(V("bad")))) @@ (2 :> T(1, <<3>>, 1, <<>>)) @@ (3 :> Untyped(P(1, <<>>, "p")))
DirectPage == (1 :> T(0, <<-1, 2>>, 2, Res(V("images")))) @@ (2 :> Untyped(P(1, <<>>, "p"))) @@ (-1 :> P(1, <<>>, "q"))
Looping == (1 :> T(0, <<2, 3>>, 2, <<>>)) @@ (2 :> T(1, <<1>>, 1, <<>>)) @@ (3 :> P(1, <<>>, "p"))
Childless == (1 :> [T(0, <<>>, 0, <<>>) EXCEPT !.has_kids = FALSE])
DirectRoot == (-1 :> T(0, <<-2, 1>>, 2, Res(R("fonts")))) @@ (-2 :> T(-1, <<2>>, 1, Box(V("small"))))
              @@ (1 :> P(-1, <<>>, "p")) @@ (2 :> P(-2, <<>>, "q"))
(* A root that is neither /Type /Pages nor has /Kids, and an empty tree    *)
(* with a negative /Count.                                                 *)
Bare == (1 :> [T(0, <<>>, 0, Box(V("small")) @@ Res(R("fonts"))) EXCEPT !.has_kids = FALSE, !.type = "other"])
Negative == (1 :> T(0, <<>>, -1, Box(V("large"))))
(* The /Parent of page 3 is outside the tree, with values of its own.      *)
Outside == (1 :> T(0, <<3, 4>>, 2, Box(R("small")) @@ Res(R("fonts")))) @@ (2 :> T(0, <<3>>, 1, Box(V("small")) @@ Res(V("fonts"))))
           @@ (3 :> P(2, <<>>, "p")) @@ (4 :> P(1, <<>>, "q"))

(* Few numbers are left.                                                   *)
UpTo(n, d) == [d EXCEPT !.last = n]

MCDocuments == {D(Nested, 1), UpTo(6, D(Nested, 1)), D(Nested, 2), D(WrongCount(1), 1), D(WrongCount(3), 1), D(Twice, 1),
                D(DirectPage, 1), UpTo(6, D(DirectPage, 1)), D(Looping, 1), D(Childless, 1), D(DirectRoot, -1),
                D(Bare, 1), D(Negative, 1), UpTo(5, D(Outside, 1)), UpTo(6, D(Outside, 1))}

MCChanges(o, r) ==
    IF o[r].has_kids /\ o[r].kids # <<>>
    THEN {[o EXCEPT ![r].kids = Tail(@), ![r].count = Len(o[r].kids) - 1],
          [o EXCEPT ![r].kids = @ \o <<@[1]>>, ![r].attrs = Box(V("large"))]}
    ELSE {}
MCContents == {"empty", "p", "q", "new"}
MCNewPages == {P(0, Res(V("images")), "new")}
=============================================================================
