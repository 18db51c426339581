------------------------------ MODULE MCWriter ------------------------------
(***************************************************************************)
(* Small documents for Writer: shared and cyclic references, nulls in a         *)
(* dictionary and in an array, streams, a signature, the source's own           *)
(* cross-reference stream, source object streams with /Extends, and damaged     *)
(* ones whose containers are nested.                                           *)
(***************************************************************************)
EXTENDS Writer, TLC

Doc(kind, kids, home, extends, before, after) ==
    [kind |-> kind, kids |-> kids, home |-> home, before |-> before, after |-> after,
     extends |-> [s \in DOMAIN kind |-> IF s \in DOMAIN extends THEN extends[s] ELSE 0]]

None == [s \in {} |-> 0]

\* A catalog, an array that refers back to it, a stream, and a null that both refer to.
Cyclic == Doc(<<"dict", "array", "stream", "null">>,
              <<<<2, 4>>, <<1, 3, 4>>, <<2>>, << >>>>, None, None, <<3>>, <<4>>)

\* An unreferenced stream, a signature, and a stream that only the trailer reaches.
Orphan == Doc(<<"dict", "sig", "stream", "stream">>,
              <<<<2>>, << >>, <<2>>, <<1>>>>, None, None, << >>, <<4>>)

\* Two source object streams, 4 with the catalog and 5, which extends 4.
Packed == Doc(<<"dict", "array", "dict", "stream", "stream">>,
              <<<<2>>, <<3, 1>>, <<2>>, << >>, << >>>>,
              (1 :> 4) @@ (2 :> 5) @@ (3 :> 4), 5 :> 4, << >>, <<3>>)

\* The source's cross-reference stream is referenced, from a plain object.
SelfRef == Doc(<<"dict", "xref", "stream">>, <<<<3, 2>>, <<1>>, <<2>>>>, None, None, <<2>>, << >>)

\* The same, from a member of a source object stream.
PackedRef == Doc(<<"dict", "array", "stream", "xref">>, <<<<2>>, <<4>>, << >>, <<1>>>>,
                 2 :> 3, None, << >>, << >>)

\* A source object stream that extends the source's cross-reference stream.
ExtendsXref == Doc(<<"dict", "array", "stream", "xref">>, <<<<2>>, << >>, << >>, <<1>>>>,
                   2 :> 3, 3 :> 4, << >>, << >>)

\* Damaged: objects 3 and 4 are members of each other, 5 is a member of itself.
Nested == Doc(<<"dict", "array", "null", "null", "null">>, <<<<2>>, <<3, 3, 4, 5>>, << >>, << >>, << >>>>,
              (3 :> 4) @@ (4 :> 3) @@ (5 :> 5), None, << >>, << >>)

\* Damaged: 3 is a member of 4, which is itself a member of 5.
Chained == Doc(<<"dict", "array", "dict", "stream", "stream">>,
               <<<<2>>, <<1, 3>>, << >>, << >>, << >>>>, (3 :> 4) @@ (4 :> 5) @@ (2 :> 5), None, << >>, << >>)

MCDocuments == {Cyclic, Orphan, Packed, SelfRef, PackedRef, ExtendsXref, Nested, Chained}
MCOptions == [streams : {"disable", "preserve", "generate"}, qdf : BOOLEAN, unref : BOOLEAN, encrypt : BOOLEAN]
=============================================================================
