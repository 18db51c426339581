--------------------------- MODULE LinearizedWrite ---------------------------
(***************************************************************************)
(* Writing a linearized file (linearization/writer.rs, back_patch.rs).  The      *)
(* front of the file says where everything behind it is, so the body is written  *)
(* twice: pass 1 without the hint stream, to learn offsets and lengths; then      *)
(* the hint stream is built, the offsets behind it are moved by its length, and   *)
(* pass 2 writes the parameter dictionary and the first-page cross-reference      *)
(* section from these promises before it writes the objects they are about.  A    *)
(* progress callback runs at every object, in both passes, and may change the     *)
(* document.                                                                  *)
(*                                                                          *)
(* Only lengths and positions are kept of the bytes; an offset is a number of      *)
(* bytes from the start of the file.  The catalog is among the remaining objects   *)
(* of the plan, and the /ID has the same width in both passes.                   *)
(***************************************************************************)
EXTENDS LinearNumbers

CONSTANTS Files,       \* linearization plans, with the objects' sizes
          Sizes,       \* sizes that a callback gives an object
          HintSizes,   \* lengths of the hint stream
          MaxEdits,    \* changes that the callbacks make
          Radix,       \* values of one byte of a cross-reference stream field (256)
          Wide,        \* bytes of an offset of 2^25 (4): the width reserved in pass 1
          Frame,       \* bytes around the parts of the file whose length never changes
          RowSize      \* bytes of a row of a classic cross-reference table (20)

ASSUME SizesAssumption ==
    /\ Sizes \subseteq Nat \ {0} /\ HintSizes \subseteq Nat \ {0} /\ MaxEdits \in Nat
    /\ Radix \in Nat \ {0, 1} /\ Wide \in 1 .. 8 /\ Frame \in Nat \ {0} /\ RowSize \in Nat \ {0}

VARIABLES file,     \* the plan of this write
          size,     \* the live document: each object's size
          names,    \* the object numbers, and the containers'
          pass,     \* 1 or 2
          phase,    \* where the pass is, or "hints", "done" or "failed"
          pos,      \* length of the output so far
          offs,     \* xref_offsets: in pass 2 first pass 1's, moved, then the ones found
          lens,     \* the lengths, likewise
          todo,     \* numbers left in the section being written
          layout,   \* what pass 1 found
          hint,     \* the hint stream, once built
          params,   \* the parameter dictionary's values
          front,    \* the first-page cross-reference section of pass 2
          back,     \* the main cross-reference section of pass 2
          edits,    \* changes made so far
          error     \* why the write failed

vars == <<file, size, names, pass, phase, pos, offs, lens, todo, layout, hint, params,
          front, back, edits, error>>

Nothing == [s \in {} |-> 0]

With(f, n, v) == [x \in DOMAIN f \cup {n} |-> IF x = n THEN v ELSE f[x]]
SumTo(x, last) == LET sum[i \in 0 .. last] == IF i = 0 THEN 0 ELSE sum[i - 1] + x[i] IN sum[last]

\* The values that fit in so many bytes: an offset is a u64.
Power[w \in 0 .. 8] == IF w = 0 THEN 1 ELSE Radix * Power[w - 1]
-----------------------------------------------------------------------------
(* Numbers *)

Slot(s) == Number(names.table, s)
ParamNumber == Slot(Param)
Size == Len(names.table) + 1
Encrypted == Slot(EncryptDict) # 0

\* The numbers of the objects of a part that are written on their own.
PlainOf(f, nm, part) ==
    {Number(nm.table, Object(s)) : s \in ToSet(part) \ (Members(f) \cup Sources(f) \cup {f.root})}

ContainersOf(f, nm, kind) == {nm.containers[c] : c \in Containers(f, kind)}

\* What each section of the body writes, in the order of the numbers.
SectionOf(f, nm, p) ==
    CASE p = "root" -> {Number(nm.table, Object(f.root))}
      [] p = "open" -> PlainOf(f, nm, f.openPlain) \cup ContainersOf(f, nm, "open")
      [] p = "page" -> PlainOf(f, nm, AfterHint(f)) \cup ContainersOf(f, nm, "first")
      [] p = "rest" -> PlainOf(f, nm, SecondPart(f)) \cup ContainersOf(f, nm, "second")

\* Containers with members of one page only, all private to it.
PageOwned(f, p) ==
    {c \in AllContainers(f) :
        LET b == Batch(f, c)
        IN  IF b.source # 0 THEN b.source \in ToSet(f.private[p])
            ELSE ToSet(b.members) \subseteq ToSet(f.private[p])}

\* The numbers under which the objects that are private to another page are written.
PageNumbers(f, nm, p) == PlainOf(f, nm, f.private[p]) \cup {nm.containers[c] : c \in PageOwned(f, p)}

MemberNumbers(f, nm) == {n \in DOMAIN nm.table : \E m \in Members(f) : nm.table[n] = Object(m)}

\* The container with this number, if any.
HeldIn(f, nm, n) == {c \in AllContainers(f) : nm.containers[c] = n}

Section(p) == SectionOf(file, names, p)
Plain(part) == PlainOf(file, names, part)

HeldBy(n) == HeldIn(file, names, n)

\* The length of what is written under a number.
Bytes(n, sizes) ==
    IF HeldBy(n) = {} THEN sizes[names.table[n][2]]
    ELSE LET ms == Batch(file, CHOOSE c \in HeldBy(n) : TRUE).members
         IN  Frame + SumTo([i \in DOMAIN ms |-> sizes[ms[i]]], Len(ms))

\* Where a member is: its container's number and its index there.
RowOf(f, nm, n) ==
    LET m == nm.table[n][2]
        c == CHOOSE x \in AllContainers(f) : m \in ToSet(Batch(f, x).members)
    IN  <<2, nm.containers[c], SelectInSeq(Batch(f, c).members, LAMBDA x : x = m) - 1>>

MemberRow(n) == RowOf(file, names, n)
IsMember(n) == n \in MemberNumbers(file, names)

\* What a number stands for.
FrontRoles == {"root", "open", "page", "param", "hint", "firstxref", "encrypt"}
Roles == FrontRoles \cup {"rest", "mainxref", "member"}
NumbersOf(f, nm, role) ==
    CASE role \in {"root", "open", "page", "rest"} -> SectionOf(f, nm, role)
      [] role = "member" -> MemberNumbers(f, nm)
      [] role = "param" -> {Number(nm.table, Param)}
      [] role = "hint" -> {Number(nm.table, Hint)}
      [] role = "firstxref" -> {Number(nm.table, FirstXref)} \ {0}
      [] role = "mainxref" -> {Number(nm.table, MainXref)} \ {0}
      [] role = "encrypt" -> {Number(nm.table, EncryptDict)} \ {0}

\* What the numbering of a plan gives: every number stands for one thing, the second half has the
\* low ones, and there is a first page.  Objects have sizes.
Numbered(f, nm) ==
    /\ \A role \in Roles : NumbersOf(f, nm, role) \subseteq 1 .. Len(nm.table)
    /\ \A n \in 1 .. Len(nm.table) : \E role \in Roles : \A r \in Roles : n \in NumbersOf(f, nm, r) <=> r = role
    /\ \A role \in FrontRoles : \A n \in NumbersOf(f, nm, role) : n >= Number(nm.table, Param)
    /\ \A n \in NumbersOf(f, nm, "rest") \cup NumbersOf(f, nm, "mainxref") : n < Number(nm.table, Param)
    /\ IF UsesObjectStreams(f)
       THEN Number(nm.table, FirstXref) # 0 /\ Number(nm.table, MainXref) # 0
       ELSE NumbersOf(f, nm, "firstxref") \cup NumbersOf(f, nm, "mainxref") \cup MemberNumbers(f, nm) = {}
    /\ nm.table \in Seq(ToSet(nm.table)) /\ Len(nm.table) < Power[8]
    /\ \A c \in AllContainers(f) : Len(Batch(f, c).members) \in 1 .. Len(nm.table)
    /\ NumbersOf(f, nm, "page") # {}
    /\ f.part2 # << >> /\ Object(Head(f.part2)) \in ToSet(nm.table)
    /\ f.size \in [DOMAIN f.size -> Nat \ {0}] /\ f.live \subseteq DOMAIN f.size
    /\ \A role \in {"root", "open", "page", "rest"} : \A n \in SectionOf(f, nm, role) :
          IF HeldIn(f, nm, n) = {} THEN nm.table[n][2] \in DOMAIN f.size
          ELSE \A c \in HeldIn(f, nm, n) : Batch(f, c).members \in Seq(DOMAIN f.size)

\* Where a plan puts the pages: what is private to a page other than the first has numbers that follow
\* one another in the second half, its containers' included, since a container is anchored by the rank
\* of its page among the plain objects (second_half_container_anchors).
PagesTogether(f, nm) ==
    /\ f.private \in Seq(Seq(DOMAIN f.size))
    /\ \A part \in {f.part2, f.part3, f.outlines6} : part \in Seq(DOMAIN f.size)
    /\ \A p \in DOMAIN f.private :
          /\ PageNumbers(f, nm, p) \subseteq SectionOf(f, nm, "rest")
          /\ \A a, b \in PageNumbers(f, nm, p) : a .. b \cap SectionOf(f, nm, "rest") \subseteq PageNumbers(f, nm, p)

ASSUME NumberingAssumption == \A f \in Files, encrypted \in BOOLEAN : Numbered(f, Numbering(f, encrypted))
ASSUME PagesAssumption == \A f \in Files, encrypted \in BOOLEAN : PagesTogether(f, Numbering(f, encrypted))
-----------------------------------------------------------------------------
(* Cross-reference rows *)

bytes_needed(v) == CHOOSE w \in 1 .. 8 : v < Power[w] /\ (w = 1 \/ v >= Power[w - 1])

\* Bytes of a row's offset field and of its index field.
field2(max) == LET a == bytes_needed(max) b == bytes_needed(Size - 1) IN IF a > b THEN a ELSE b
field3 == LET top == Max({Len(Batch(file, c).members) - 1 : c \in AllContainers(file)})
          IN  IF top > 0 THEN bytes_needed(top) ELSE 0

\* The width of the field in pass 1, whatever the offsets.
wide_field2 == LET b == bytes_needed(Size - 1) IN IF Wide > b THEN Wide ELSE b

\* The bytes of a cross-reference stream object, and the region that is reserved for it.
StreamObject(count, width) == Frame + count * (1 + width + field3)
first_pass_region_len(count, width) == StreamObject(count, width) + Frame

\* One row: what does not fit its field is cut off.
StreamRow(n, at, width) ==
    IF n \in DOMAIN at THEN <<1, at[n] % Power[width]>> ELSE IF n # 0 /\ IsMember(n) THEN MemberRow(n) ELSE <<0>>

StreamRows(range, at, width) == [n \in range |-> StreamRow(n, at, width)]

FirstRange == ParamNumber .. Size - 1
MainRange == 0 .. ParamNumber - 1

\* Offsets of the numbers in range that have one.
Known(range, at) == {at[n] : n \in range \cap DOMAIN at}

ClassicRows(range, at) == [n \in range |-> IF n = 0 THEN <<0>> ELSE <<1, at[n]>>]
Missing(range, at) == range \ (DOMAIN at \cup {0}) # {}
-----------------------------------------------------------------------------
(* The two passes *)

Init == /\ \E f \in Files, e \in BOOLEAN :
              file = f /\ size = f.size /\ names = Numbering(f, e)
        /\ pass = 1 /\ phase = "front" /\ pos = 0 /\ offs = Nothing /\ lens = Nothing /\ todo = {}
        /\ layout = [hint |-> 0, end |-> 0, main |-> 0, entry |-> 0, length |-> 0, lens |-> Nothing]
        /\ hint = [length |-> 0, first |-> 0, pages |-> << >>] /\ params = Nothing /\ front = Nothing /\ back = Nothing
        /\ edits = 0 /\ error = "none"

Fail(why) == /\ phase' = "failed" /\ error' = why
             /\ UNCHANGED <<todo, pos, offs, front>>

\* Header and parameter dictionary, of a fixed length, then the first-page cross-reference section.
\* Pass 1 writes rows without offsets, pass 2 the rows that pass 1 promised.
FrontStart == 2 * Frame

WriteClassicFront ==
    /\ phase = "front" /\ ~UsesObjectStreams(file)
    /\ LET at == With(offs, ParamNumber, Frame)
       IN  IF pass = 2 /\ Missing(FirstRange, at) THEN Fail("no offset for a row")
           ELSE /\ phase' = "root" /\ todo' = Section("root") /\ offs' = at
                /\ pos' = FrontStart + Frame + RowSize * Cardinality(FirstRange)
                /\ front' = IF pass = 1 THEN front
                            ELSE [at |-> FrontStart, rows |-> ClassicRows(FirstRange, at), prev |-> layout.main]
                /\ UNCHANGED error
    /\ UNCHANGED <<file, size, names, pass, lens, layout, hint, params, back, edits>>

WriteStreamFront ==
    /\ phase = "front" /\ UsesObjectStreams(file)
    /\ LET at == With(With(offs, ParamNumber, Frame), Slot(FirstXref), FrontStart)
           region == first_pass_region_len(Cardinality(FirstRange), wide_field2)
           width == IF pass = 1 THEN wide_field2 ELSE field2(Max(Known(FirstRange, at)))
       IN  IF StreamObject(Cardinality(FirstRange), width) > region THEN Fail("region exceeded")
           ELSE /\ phase' = "root" /\ todo' = Section("root") /\ offs' = at
                /\ pos' = FrontStart + region
                /\ front' = IF pass = 1 THEN front
                            ELSE [at |-> FrontStart, prev |-> layout.main,
                                  rows |-> StreamRows(FirstRange, at, width)]
                /\ UNCHANGED error
    /\ UNCHANGED <<file, size, names, pass, lens, layout, hint, params, back, edits>>

\* What a progress callback makes of the document: as it was, or one object of another size.
Edit == \/ size' = size /\ edits' = edits
        \/ /\ edits < MaxEdits /\ edits' = edits + 1
           /\ \E s \in file.live : \E z \in Sizes \ {size[s]} : size' = [size EXCEPT ![s] = z]

Put(n, length) ==
    /\ offs' = With(offs, n, pos) /\ lens' = With(lens, n, length)
    /\ pos' = pos + length /\ todo' = todo \ {n}
    /\ UNCHANGED <<file, names, pass, phase, layout, hint, params, front, back, error>>

\* A plain object: the callback runs first, then the object is written as it is.
WriteObject ==
    /\ phase \in {"root", "open", "page", "rest"} /\ todo # {}
    /\ LET n == Min(todo)
       IN  HeldBy(n) = {} /\ Edit /\ Put(n, Bytes(n, size'))

\* A container: its members are written, then the callback runs for each of them.
WriteContainer ==
    /\ phase \in {"root", "open", "page", "rest"} /\ todo # {}
    /\ LET n == Min(todo)
       IN  HeldBy(n) # {} /\ Put(n, Bytes(n, size)) /\ Edit

EndRoot == /\ phase = "root" /\ todo = {}
           /\ phase' = "open" /\ todo' = Section("open")
           /\ UNCHANGED <<file, size, names, pass, pos, offs, lens, layout, hint, params, front, back, edits, error>>

EncryptBytes == IF Encrypted THEN Frame ELSE 0

\* After the open-document objects: the encryption dictionary, and in pass 2 the hint stream.
WriteHint ==
    /\ phase = "open" /\ todo = {}
    /\ LET at == pos + EncryptBytes
           encrypt == IF Encrypted THEN With(offs, Slot(EncryptDict), pos) ELSE offs
       IN  /\ offs' = IF pass = 2 THEN With(encrypt, Slot(Hint), at) ELSE encrypt
           /\ pos' = at + hint.length
           /\ layout' = IF pass = 1 THEN [layout EXCEPT !.hint = at] ELSE layout
    /\ phase' = "page" /\ todo' = Section("page")
    /\ UNCHANGED <<file, size, names, pass, lens, hint, params, front, back, edits, error>>

EndFirstPage ==
    /\ phase = "page" /\ todo = {}
    /\ layout' = IF pass = 1 THEN [layout EXCEPT !.end = pos] ELSE layout
    /\ phase' = "rest" /\ todo' = Section("rest")
    /\ UNCHANGED <<file, size, names, pass, pos, offs, lens, hint, params, front, back, edits, error>>

\* The main section, with the offsets that this pass found: the entry that /T is about, the rows,
\* and its length.
MainLength(at) ==
    IF ~UsesObjectStreams(file) THEN 2 * Frame + RowSize * ParamNumber
    ELSE Frame + first_pass_region_len(ParamNumber, field2(at))

MainSection ==
    IF ~UsesObjectStreams(file)
    THEN [at |-> pos, entry |-> pos + Frame, rows |-> ClassicRows(MainRange, offs), end |-> pos + MainLength(pos)]
    ELSE LET width == field2(pos)
             at == With(offs, Slot(MainXref), pos)
         IN  [at |-> pos, entry |-> pos, rows |-> StreamRows(MainRange, at, width),
              end |-> pos + MainLength(pos)]

\* Faulty variant: the main section is expected where pass 1 had it.
DriftedUnmoved == pass = 2 /\ pos # layout.main - hint.length

Drifted == pass = 2 /\ pos # layout.main

EndPass ==
    /\ phase = "rest" /\ todo = {}
    /\ IF Drifted THEN Fail("main offset drifted") /\ UNCHANGED <<layout, back>>
       ELSE \E m \in {MainSection} :
            /\ pos' = m.end
            /\ offs' = IF UsesObjectStreams(file) THEN With(offs, Slot(MainXref), pos) ELSE offs
            /\ IF pass = 1
               THEN /\ phase' = "hints"
                    /\ layout' = [layout EXCEPT !.main = m.at, !.entry = m.entry, !.length = m.end, !.lens = lens]
                    /\ UNCHANGED back
               ELSE phase' = "done" /\ back' = m /\ UNCHANGED layout
            /\ UNCHANGED <<todo, error, front>>
    /\ UNCHANGED <<file, size, names, pass, lens, hint, params, edits>>
-----------------------------------------------------------------------------
(* Between the passes *)

Total(numbers) ==
    LET last == Len(names.table)
    IN  SumTo([n \in 1 .. last |-> IF n \in numbers THEN lens[n] ELSE 0], last)

\* The numbers of the objects in the section of a page.
\* Faulty variant: the outlines that the first page shows are not counted with it.
FirstPageWithoutOutlines == Plain(file.part2) \cup Plain(file.part3) \cup ContainersOf(file, names, "first")

FirstPageObjects == Plain(file.part2) \cup Plain(file.part3) \cup Plain(file.outlines6) \cup ContainersOf(file, names, "first")
OtherPageObjects(p) == PageNumbers(file, names, p)

\* Page-offset hint table: the first page's position as if there were no hint stream, and the
\* length of each page's section.
PageHints(length) ==
    [length |-> length, first |-> layout.hint,
     pages |-> <<Total(FirstPageObjects)>> \o [p \in DOMAIN file.private |-> Total(OtherPageObjects(p))]]

\* Faulty variant: what starts where the hint stream will be does not move.
MovedBehind(length) ==
    With([n \in DOMAIN offs |-> IF offs[n] > layout.hint THEN offs[n] + length ELSE offs[n]], Slot(Hint), layout.hint)

\* Offsets behind the hint stream move by its length.
Moved(length) ==
    With([n \in DOMAIN offs |-> IF offs[n] >= layout.hint THEN offs[n] + length ELSE offs[n]], Slot(Hint), layout.hint)

\* Faulty variant: the end of the first page is not moved.
patch_unmoved_end(length) ==
    [L |-> layout.length + length, H |-> <<layout.hint, length>>, E |-> layout.end,
     O |-> Slot(Object(Head(file.part2))), N |-> 1 + Len(file.private), T |-> layout.entry + length - 1]

\* The parameter dictionary, from pass 1 and the length of the hint stream.
back_patch_param_dict(length) ==
    [L |-> layout.length + length, H |-> <<layout.hint, length>>, E |-> layout.end + length,
     O |-> Slot(Object(Head(file.part2))), N |-> 1 + Len(file.private), T |-> layout.entry + length - 1]

BuildHints ==
    /\ phase = "hints"
    /\ \E length \in HintSizes :
         /\ hint' = PageHints(length)
         /\ offs' = Moved(length)
         /\ params' = back_patch_param_dict(length)
         /\ layout' = [layout EXCEPT !.main = @ + length]
    /\ pass' = 2 /\ phase' = "front" /\ pos' = 0 /\ todo' = {}
    /\ UNCHANGED <<file, size, names, lens, front, back, edits, error>>

Finished == phase \in {"done", "failed"} /\ UNCHANGED vars

Next == \/ WriteClassicFront \/ WriteStreamFront \/ WriteObject \/ WriteContainer
        \/ EndRoot \/ WriteHint \/ EndFirstPage \/ EndPass \/ BuildHints \/ Finished

Spec == Init /\ [][Next]_vars
-----------------------------------------------------------------------------
(* Properties *)

Done == phase = "done"

\* Pass 2 wrote every object as long as pass 1 did.
Repeated == lens = layout.lens

\* Where the rows of a section should lead.
Exact(range, rows) ==
    \A n \in range \ {0} : rows[n] = IF IsMember(n) THEN MemberRow(n) ELSE <<1, offs[n]>>

\* A finished file's rows lead to the objects: the main section's always, although its field is as
\* wide as its own offset needs; the first-page section's, which were written before the objects,
\* whenever the second pass wrote each object as long as the first (write_first_page_xref_stream,
\* write_main_xref_stream_and_trailer).  No two objects have one number.
RowsExact ==
    Done => /\ Exact(MainRange, back.rows)
            /\ Repeated => Exact(FirstRange, front.rows)
            /\ DOMAIN offs \cup {n \in DOMAIN names.table : IsMember(n)} = DOMAIN names.table
            /\ \A n \in DOMAIN offs : ~IsMember(n)

\* The parameter dictionary, written first, holds for the finished file: the hint stream, the end
\* of the first page, the main section and /T are where it says, the first half's numbers and no
\* others lie before /E, and /L is the length of the file, unless the hint stream moved the main
\* section past an offset that needs a wider field (back_patch_param_dict).
ParamsExact ==
    Done /\ Repeated =>
        /\ params.H = <<offs[Slot(Hint)], hint.length>>
        /\ \A n \in DOMAIN offs : (offs[n] < params.E) <=> (n >= ParamNumber)
        /\ \A n \in DOMAIN lens : n >= ParamNumber => offs[n] + lens[n] <= params.E
        /\ names.table[params.O] = Object(Head(file.part2))
        /\ params.T = back.entry - 1 /\ front.prev = back.at
        /\ field2(back.at) = field2(back.at - hint.length) => params.L = pos

\* The bytes from the first object of a group to the end of its last one.
Span(numbers) == Max({offs[n] + lens[n] : n \in numbers}) - Min({offs[n] : n \in numbers})

\* The page-offset hints, taken from the first pass, describe the finished file: the first page's
\* section begins right behind the hint stream and ends at /E, and each other page's objects,
\* its containers included, follow one another with nothing between them
\* (build_hint_stream_from_pass1).
HintsExact ==
    Done /\ Repeated =>
        /\ hint.first + hint.length = Min({offs[n] : n \in Section("page")})
        /\ hint.first + hint.length + hint.pages[1] = params.E
        /\ \A p \in DOMAIN file.private :
              OtherPageObjects(p) # {} => hint.pages[p + 1] = Span(OtherPageObjects(p))

\* A write fails only if a callback changed an object's length between the passes: moving the
\* offsets by the hint stream's length is exact, and every reserved region is large enough
\* (do_write_pass).
SoundSucceeds == phase = "failed" => ~Repeated

\* /L is the length of the file: the main cross-reference stream is padded "to its fixed pass-1
\* region", "so the file length is independent of the compressed length"
\* (write_main_xref_stream_and_trailer).
LengthExact == Done /\ Repeated => params.L = pos
=============================================================================
