----------------------------- MODULE MCXrefLoad -----------------------------
(* Small families of files for XrefLoad: sections at 1, 2 and 3, objects   *)
(* elsewhere.                                                              *)
EXTENDS XrefLoad

Row(kind, n, g) == [kind |-> kind, key |-> <<n, g>>]
UpTo(S, n) == UNION {[1 .. m -> S] : m \in 0 .. n}

Absent == [form |-> "none", head |-> TRUE, rows |-> <<>>, trailer |-> "ok",
           prev |-> 0, hybrid |-> 0]
Table(rows, prev, hybrid) ==
    [Absent EXCEPT !.form = "table", !.rows = rows, !.prev = prev, !.hybrid = hybrid]
Stream(rows, prev) == [Absent EXCEPT !.form = "stream", !.rows = rows, !.prev = prev]

File(start, s1, s2, s3, lines, t) ==
    [startxref |-> start, sections |-> <<s1, s2, s3>>, lines |-> lines, trailerLine |-> t]

TableRows == {Row(k, 1, g) : k \in {"n", "f"}, g \in {0, 1}}
StreamRows == {Row("n", 1, 0), Row("n", 1, 1), Row("c", 1, 0), Row("f", 1, 1)}

(* Revisions: the chain 3, 2, 1 of tables and streams, with every /Prev.   *)
Chains ==
    {File(3, Table(r1, p1, 0), s2, s3, <<>>, TRUE) :
        r1 \in UpTo({Row("n", 1, 0), Row("n", 1, 1)}, 1), p1 \in {0, 1, 3},
        s2 \in {Table(r, 1, 0) : r \in UpTo(TableRows, 2)}
               \cup {Table(<<>>, p, 0) : p \in {-1, 0}}
               \cup {Stream(r, p) : r \in UpTo(StreamRows, 1), p \in {-1, 1}},
        s3 \in {Table(r, 2, 0) : r \in UpTo(TableRows, 1)}
               \cup {Stream(r, 2) : r \in UpTo(StreamRows, 2)}}

(* Hybrid files: table 3 with hybrid stream 2, then the older table 1.     *)
Hybrids ==
    {File(3, Table(r1, 0, 0), Stream(r2, 3), Table(r3, 1, 2), <<>>, TRUE) :
        r1 \in UpTo(TableRows, 1), r2 \in UpTo(StreamRows, 2), r3 \in UpTo(TableRows, 1)}
    \cup {File(3, Table(<<>>, 0, 0), Stream(r2, 3), Table(r3, p, h), <<>>, TRUE) :
        r2 \in UpTo(StreamRows, 1), r3 \in UpTo(TableRows, 2), p \in {1, 2}, h \in {-1, 1, 2}}

ChainFiles == Chains \cup Hybrids

(* Damaged files: rows that do not decode, missing trailers and sections,  *)
(* and the objects a scan would find, cross-reference stream 2 among them. *)
Line(n, g, p) == [key |-> <<n, g>>, pos |-> p]
ScanLines ==
    {<<>>, <<Line(1, 0, 8)>>, <<Line(1, 1, 8), Line(1, 1, 9)>>,
     <<Line(1, 0, 8), Line(2, 0, 2)>>, <<Line(1, 1, 8), Line(2, 0, 2)>>,
     <<Line(2, 0, 2), Line(1, 2, 9)>>, <<Line(1, 0, 3), Line(2, 0, 2)>>}

DamagedFiles ==
    {File(start, Table(r1, 0, 0), [Stream(r2, p2) EXCEPT !.head = h2],
          [s3 EXCEPT !.trailer = t3], lines, t) :
        start \in {-1, 0, 3}, r1 \in UpTo({Row("n", 1, 1), Row("f", 1, 0)}, 1),
        <<r2, p2, h2>> \in
            (UpTo(StreamRows \cup {Row("x", 1, 0)}, 1) \X {1} \X {TRUE})
            \cup ({<<>>} \X {0, 2} \X BOOLEAN),
        s3 \in {Absent, Table(<<Row("n", 1, 0), Row("x", 1, 0)>>, 2, 0),
                Table(<<Row("f", 1, 1)>>, 2, 1), Table(<<>>, 2, 2)}
               \cup {Stream(r, 2) : r \in {<<Row("f", 1, 0), Row("x", 2, 0)>>,
                         <<Row("c", 1, 0), Row("x", 2, 0)>>, <<Row("x", 1, 0)>>}},
        t3 \in {"ok", "nosize", "bad"}, lines \in ScanLines, t \in BOOLEAN}

AllFiles == ChainFiles \cup DamagedFiles
MCFiles == AllFiles
=============================================================================
