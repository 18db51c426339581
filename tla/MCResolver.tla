----------------------------- MODULE MCResolver -----------------------------
(* Small families of documents for Resolver: three numbers, three          *)
(* positions.                                                              *)
EXTENDS Resolver

Obj(h, body, length, members, bad) ==
    [header |-> h, body |-> body, length |-> length, refs |-> {},
     members |-> members, bad |-> bad]
Number(h) == Obj(h, "int", 0, {}, 0)
Stream(h, length) == Obj(h, "stream", length, {}, 0)
ObjStm(h, length, members, bad) == Obj(h, "objstm", length, members, bad)
NoHeader == Obj(0, "int", 0, {}, 0)
Referring(h, K) == [Number(h) EXCEPT !.refs = K]
Broken(h) == Obj(h, "broken", 0, {}, 0)

At1(p) == [type |-> "uncompressed", at |-> p]
In(s) == [type |-> "compressed", at |-> s]
FreeRow == [type |-> "free", at |-> 0]

Doc(o1, o2, o3, t, recovery) ==
    [objects |-> <<o1, o2, o3>>, table |-> t, recovery |-> recovery, rebuilt |-> FALSE, edits |-> 0]
Edited(documents) == {[d EXCEPT !.edits = MaxEdits] : d \in documents}

(* Object 1 at 1 refers to the others as /Length, as its object stream or  *)
(* in its body; the rows of 2 and 3 are right, swapped, missing, free, at  *)
(* offset 0 or in a stream; the object at 2 is damaged in every way.       *)
FirstObjects == {Number(1), Stream(1, 2), Stream(1, 1), Stream(1, 3), Referring(1, {2, 3}),
                 ObjStm(1, 0, {2, 3}, 0), ObjStm(1, 2, {2, 3}, 0), ObjStm(1, 3, {2, 3}, 3)}
SecondObjects == {Number(2), Stream(2, 1), Stream(2, 3), ObjStm(2, 0, {3}, 0), NoHeader,
                  Broken(2), Number(3), Number(-3)}
SecondRows == {At1(2), At1(0), In(1), At1(3)}
ThirdRows == {At1(3), In(1), In(2), FreeRow}

ReadTables == {<<At1(1), r2, r3>> : r2 \in SecondRows, r3 \in ThirdRows}
              \cup {<<At1(1), r2>> : r2 \in SecondRows}
ReadDocuments ==
    {Doc(o1, o2, Number(3), t, rec) :
        o1 \in FirstObjects, o2 \in SecondObjects, t \in ReadTables, rec \in BOOLEAN}

(* Rows for object 0 and for a generation no reference names. Object 0 is  *)
(* read without any recovery; what it re-enters is kept sound here.        *)
OddRow(k, row, t) == [j \in DOMAIN t \cup {k} |-> IF j = k THEN row ELSE t[j]]
OddDocuments ==
    {Doc(o1, o2, Number(3), OddRow(k, row, t), rec) :
        o1 \in {Number(1), Stream(1, 3), ObjStm(1, 0, {2, 3}, 0)}, o2 \in {Number(2), Number(-2), NoHeader},
        k \in {0, -2}, row \in {At1(0), At1(1), At1(2), In(1), FreeRow},
        t \in {<<At1(1), At1(2), At1(3)>>, <<At1(1), In(1)>>, <<>>}, rec \in BOOLEAN}
    \cup {[Doc(o1, o2, Number(3), t, TRUE) EXCEPT !.rebuilt = TRUE] :
        o1 \in FirstObjects, o2 \in {NoHeader, Number(3)}, t \in ReadTables}

(* Documents to edit: plain, in an object stream, or with a damaged row;   *)
(* one without recovery and one that was rebuilt when it was opened.       *)
EditDocuments ==
    {Doc(o1, o2, Number(3), t, TRUE) :
        o1 \in {Stream(1, 2), ObjStm(1, 0, {2, 3}, 0)}, o2 \in {Number(2), NoHeader},
        t \in {<<At1(1), At1(2)>>, <<At1(1), In(1), In(1)>>, <<At1(1)>>, <<At1(2), At1(1)>>}}
    \cup {Doc(Stream(1, 2), Number(2), Number(3), <<At1(2), At1(1)>>, FALSE),
          [Doc(Number(1), Number(2), Number(3), OddRow(-2, At1(1), <<At1(1)>>), TRUE)
              EXCEPT !.rebuilt = TRUE]}

(* A row for object 0 whose object needs a damaged one.                    *)
ZeroDocuments == {Doc(Stream(1, 2), NoHeader, Number(3), OddRow(0, At1(1), <<At1(1), At1(2)>>), TRUE)}

CONSTANT Family
MCDocuments == CASE Family = "all" -> ReadDocuments \cup OddDocuments \cup Edited(EditDocuments)
                 [] Family = "edits" -> Edited(EditDocuments)
                 [] Family = "zero" -> ZeroDocuments
=============================================================================
