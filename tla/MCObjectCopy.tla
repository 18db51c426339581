---------------------------- MODULE MCObjectCopy ----------------------------
(* Source graphs for the model checker: two objects that may refer to each *)
(* other, a third one that may be what a copy rejects or leaves out, and a *)
(* page tree node or a direct value.                                       *)
EXTENDS ObjectCopy, TLC

CONSTANTS a, b, c, d

MCNodes == {a, b, c, d}
MCKeys == {"K"}
MCItems == {"I"}

O(kind, slots, flaw) == [kind |-> kind, slots |-> slots, flaw |-> flaw, stale |-> kind = "null"]
Plain(kinds, slots) == {O(kind, s, FALSE) : kind \in kinds, s \in slots}
Flawed(kinds, slots) == {O(kind, s, TRUE) : kind \in kinds, s \in slots}

Empty == <<>>
To(x) == "K" :> x
In(x) == "I" :> x
Both(x, y) == ("K" :> x) @@ ("I" :> y)

OfA == Plain({"dictionary", "page"}, {Both(b, c), Both(d, b)})
OfB == Plain({"stream"}, {To(a)}) \cup Plain({"page"}, {In(c)}) \cup Flawed({"stream", "dictionary"}, {Both(c, a)})
OfC == Plain({"dictionary"}, {In(b)}) \cup Plain({"null", "unreadable"}, {Empty})
OfD == Plain({"pages"}, {In(a)}) \cup Plain({"direct"}, {Both(a, c)}) \cup Flawed({"direct"}, {To(b)})

Refers(o, x) == \E s \in DOMAIN o.slots : o.slots[s] = x

(* A reference leads to an object, never to a direct value.                *)
MCSources ==
    {s \in {(a :> oa) @@ (b :> ob) @@ (c :> oc) @@ (d :> od) : oa \in OfA, ob \in OfB, oc \in OfC, od \in OfD} :
        s[d].kind = "direct" => \A n \in {a, b, c} : ~Refers(s[n], d)}

Mend(o) ==
    [o EXCEPT !.flaw = FALSE, !.kind = IF @ \in {"reserved", "unreadable"} THEN "dictionary" ELSE @]
MCEdits(s) ==
    {[n \in MCNodes |-> Mend(s[n])],
     [s EXCEPT ![b].slots = To(c)],
     [s EXCEPT ![a].kind = IF @ = "page" THEN "dictionary" ELSE "page"],
     [s EXCEPT ![b].kind = IF @ = "stream" THEN "dictionary" ELSE "stream", ![b].flaw = FALSE]}
=============================================================================
