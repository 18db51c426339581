---------------------------- MODULE LinearNumbers ----------------------------
(***************************************************************************)
(* The object numbers of a linearized file (linearization/renumber.rs): the    *)
(* second half of the file has the low numbers, the first half (parameter       *)
(* dictionary, catalog, open-document objects, hint stream, first page) the      *)
(* high ones, and in each half the members of object streams come last.         *)
(*                                                                          *)
(* A table is a sequence of slots: a slot's index is its object number.  A plan *)
(* f has the parts as sequences of source object numbers and the batches of     *)
(* object-stream members by half; a batch of a source container keeps its        *)
(* number in .source, which is 0 for a generated one.  Batches are not empty.    *)
(***************************************************************************)
EXTENDS Integers, Sequences, FiniteSets, SequencesExt, FiniteSetsExt

Object(s) == <<"object", s>>
Param == <<"param", 0>>
Hint == <<"hint", 0>>
FirstXref == <<"firstxref", 0>>
MainXref == <<"mainxref", 0>>
EncryptDict == <<"encrypt", 0>>

Objects(seq) == [i \in DOMAIN seq |-> Object(seq[i])]
Number(table, slot) == SelectInSeq(table, LAMBDA t : t = slot)

\* The containers of one group, "open", "first" or "second", and all of them.
Containers(f, kind) == {<<kind, i>> : i \in DOMAIN f[kind]}
AllContainers(f) == UNION {Containers(f, k) : k \in {"open", "first", "second"}}
Batch(f, c) == f[c[1]][c[2]]
UsesObjectStreams(f) == AllContainers(f) # {}

Members(f) == UNION {ToSet(Batch(f, c).members) : c \in AllContainers(f)}
Sources(f) == {Batch(f, c).source : c \in AllContainers(f)} \ {0}
MembersOf(f, kind) == FlattenSeq([i \in DOMAIN f[kind] |-> f[kind][i].members])

-----------------------------------------------------------------------------
(* The order of the parts *)

\* Objects after the first page: other pages' private and shared objects, the page tree,
\* thumbnails, outlines, and what is left except the catalog.
SecondPart(f) ==
    FlattenSeq(f.private) \o f.shared8 \o SetToSortSeq(f.pages \cap ToSet(f.rest), <)
        \o f.thumbs9 \o f.outlines9 \o SelectSeq(f.rest, LAMBDA s : s \notin f.pages \cup {f.root})

BeforeHint(f) == (IF f.root \in ToSet(f.rest) THEN <<f.root>> ELSE << >>) \o f.openPlain

AfterHint(f) == f.part2 \o f.part3 \o f.outlines6

from_plan(f) ==
    Objects(SecondPart(f)) \o <<Param>> \o Objects(BeforeHint(f)) \o <<Hint>> \o Objects(AfterHint(f))

-----------------------------------------------------------------------------
(* Object streams: members last in each half, containers among the plain objects *)

Kept(f, seq) == SelectSeq(seq, LAMBDA s : s \notin Members(f) \cup Sources(f))

\* Plain objects that follow the containers of their half.
SecondPostPlain(f) ==
    IF Sources(f) # {} THEN {} ELSE ToSet(f.rest \o f.outlines9) \ (Members(f) \cup f.pages \cup f.early)

OutlineRoot(f) ==
    IF f.outlines6 = << >> \/ Head(f.outlines6) \in Members(f) THEN 0 ELSE Head(f.outlines6)

FirstPostPlain(f) == ToSet(f.outlines6) \ (Members(f) \cup {OutlineRoot(f)})

\* The containers with this anchor, in batch order: 0 stands for the head of the half.
Anchored(f, a) == SelectSeq([i \in DOMAIN f.second |-> <<"second", i>>], LAMBDA c : f.anchors[c[2]] = a)

SecondHalf(f) ==
    LET plain == Kept(f, SecondPart(f))
        early == SelectSeq(plain, LAMBDA s : s \notin SecondPostPlain(f))
        late == SelectSeq(plain, LAMBDA s : s \in SecondPostPlain(f))
        placed == Anchored(f, 0) \o FlattenSeq([i \in DOMAIN early |-> <<Object(early[i])>> \o Anchored(f, early[i])])
        others == SelectSeq([i \in DOMAIN f.second |-> <<"second", i>>], LAMBDA c : c \notin ToSet(placed))
    IN  placed \o others \o Objects(late) \o <<MainXref>> \o Objects(MembersOf(f, "second"))

\* Append the containers of `from' that are not there yet.
Emit(out, from) == out \o SelectSeq(from, LAMBDA c : c \notin ToSet(out))

\* Batches of the first page's own sections, before those of its outlines, which are the last
\* ones: as many as have a member among the outlines.
FirstBatches(f) == [i \in DOMAIN f.first |-> <<"first", i>>]
OrdinaryCount(f) ==
    Len(f.first) - Cardinality({i \in DOMAIN f.first : ToSet(f.first[i].members) \cap ToSet(f.outlines6) # {}})

\* A source container of the section that s is in, numbered below s in the source.
Precedes(f, c, s) ==
    LET b == Batch(f, c)
    IN  /\ b.source # 0 /\ b.source < s
        /\ \/ b.route = "private" /\ s \in ToSet(f.part2)
           \/ b.route = "shared" /\ s \in ToSet(f.part3)

\* The open-document containers that go before s: a run, ended by one that is not a source
\* container below s.
OpenBefore(f, out, s) ==
    LET left == SelectSeq([i \in DOMAIN f.open |-> <<"open", i>>], LAMBDA c : c \notin ToSet(out))
        Below(c) == Batch(f, c).source # 0 /\ Batch(f, c).source < s
        stop == SelectInSeq(left, LAMBDA c : ~Below(c))
    IN  IF stop = 0 THEN left ELSE SubSeq(left, 1, stop - 1)

AllOpen(f) == [i \in DOMAIN f.open |-> <<"open", i>>]

\* The first half up to the members, object by object: containers and the hint stream are placed
\* as the walk over the plain objects gets to them.
FirstHalf(f) ==
    LET plain == Kept(f, BeforeHint(f)) \o Kept(f, AfterHint(f))
        hint == Len(Kept(f, BeforeHint(f)))
        ordinary == SubSeq(FirstBatches(f), 1, OrdinaryCount(f))
        sourceOrdered == \E b \in ToSet(f.open) : b.source # 0
        Opened(out, i) ==
            CASE i = hint + 1 -> Append(Emit(out, AllOpen(f)), Hint)
              [] sourceOrdered /\ i > 1 /\ i <= hint -> Emit(out, OpenBefore(f, out, plain[i]))
              [] OTHER -> out
        Interleaved(out, i) ==
            IF i > hint THEN Emit(out, SelectSeq(ordinary, LAMBDA c : Precedes(f, c, plain[i]))) ELSE out
        Placed(out, s) ==
            CASE s = OutlineRoot(f) -> Emit(Append(Emit(out, ordinary), Object(s)), FirstBatches(f))
              [] s \in FirstPostPlain(f) -> out
              [] OTHER -> Append(out, Object(s))
        walk[i \in 0 .. Len(plain)] ==
            IF i = 0 THEN << >> ELSE Placed(Interleaved(Opened(walk[i - 1], i), i), plain[i])
        walked == IF hint = Len(plain) THEN Append(Emit(walk[Len(plain)], AllOpen(f)), Hint) ELSE walk[Len(plain)]
    IN  Emit(walked, FirstBatches(f)) \o Objects(SelectSeq(plain, LAMBDA s : s \in FirstPostPlain(f)))

place_objstm_members_per_half(f) ==
    SecondHalf(f) \o <<Param, FirstXref>> \o FirstHalf(f)
        \o Objects(MembersOf(f, "open")) \o Objects(MembersOf(f, "first"))

\* The numbers that the containers take.  Those of the first half were recorded as the walk
\* emitted them, and a batch takes the one at its position.
container_numbers(f, table) ==
    LET Recorded(kind) == SetToSortSeq({n \in DOMAIN table : table[n][1] = kind}, <)
    IN  [c \in AllContainers(f) |->
            IF c[1] = "second" THEN Number(table, c) ELSE Recorded(c[1])[c[2]]]

\* The slot of the encryption dictionary: the hint stream and all after it move up.
reserve_encrypt_dict_slot(table) == InsertAt(table, Number(table, Hint), EncryptDict)

\* The file's table and its containers' numbers.
Numbering(f, encrypted) ==
    LET table == IF UsesObjectStreams(f) THEN place_objstm_members_per_half(f) ELSE from_plan(f)
        numbers == container_numbers(f, table)
        slot == Number(table, Hint)
    IN  IF ~encrypted THEN [table |-> table, containers |-> numbers]
        ELSE [table |-> reserve_encrypt_dict_slot(table),
              containers |-> [c \in DOMAIN numbers |-> IF numbers[c] >= slot THEN numbers[c] + 1 ELSE numbers[c]]]
=============================================================================
