------------------------------- MODULE Writer -------------------------------
(***************************************************************************)
(* The plain full rewrite (writer.rs, writer/plain, writer/object_streams):  *)
(* a document is written object by object from a live queue.  An object is    *)
(* numbered when a reference to it is first met, while the body is already     *)
(* going out; members of object streams are numbered with their container;     *)
(* a progress callback may change the document between two objects; and the    *)
(* cross-reference section is written last, from the offsets that the body     *)
(* recorded.                                                                   *)
(*                                                                          *)
(* An offset is a position in `out'.  A written reference keeps the source      *)
(* object it stands for next to the number in the file.  One generation per     *)
(* object number; /Root is object 1 and indirect.                              *)
(***************************************************************************)
EXTENDS Integers, Sequences, FiniteSets, SequencesExt, FiniteSetsExt, Functions

CONSTANTS Documents,   \* source documents: kinds, references, trailer, source object streams
          Options,     \* object-stream mode, QDF, preserve-unreferenced, encryption
          Cap,         \* members an object stream may have (100 in the code)
          MaxKids,     \* references a callback lets an object grow to
          MaxEdits     \* changes that the progress callbacks make

Root == 1
Streams == {"stream", "xref"}
Kinds == Streams \cup {"dict", "array", "null", "sig"}
Source(d) == DOMAIN d.kind

\* Objects are numbered from 1, refer to objects, and are held by objects; the catalog is a
\* dictionary.
IsDocument(d) ==
    /\ d = [kind |-> d.kind, kids |-> d.kids, home |-> d.home, extends |-> d.extends,
            before |-> d.before, after |-> d.after]
    /\ d.kind \in Seq(Kinds) /\ d.kind # << >> /\ d.kind[Root] = "dict"
    /\ d.kids \in [Source(d) -> Seq(Source(d))]
    /\ d.extends \in [Source(d) -> Source(d) \cup {0}]
    /\ DOMAIN d.home \subseteq Source(d) /\ d.home \in [DOMAIN d.home -> Source(d)]
    /\ d.before \in Seq(Source(d)) /\ d.after \in Seq(Source(d))

ASSUME WriterAssumption ==
    /\ Cap \in Nat \ {0} /\ MaxKids \in Nat /\ MaxEdits \in Nat
    /\ \A d \in Documents : IsDocument(d)
    /\ Options \subseteq [streams : {"disable", "preserve", "generate"}, qdf : BOOLEAN, unref : BOOLEAN,
                         encrypt : BOOLEAN]

VARIABLES phase,    \* "setup", "body", "done" or "failed"
          doc,      \* the live document
          opt,      \* the options of this write
          plan,     \* object-stream membership, fixed at setup
          queue,    \* the LiveQueue
          work,     \* the object stream being written, between two members
          out,      \* what the sink has received, in order
          layout,   \* BodyLayout: where each number was written
          progress, \* the progress reporter's counters and last report
          edits,    \* objects the callbacks changed, in order (0 is the trailer)
          result,   \* the written map, rows and trailer
          error     \* why the write failed

vars == <<phase, doc, opt, plan, queue, work, out, layout, progress, edits, result, error>>

Missing == -1
NoPlan == [members |-> << >>, home |-> << >>, generated |-> {}]
Idle == [obj |-> 0, pass |-> 1, sizes |-> << >>, bodies |-> << >>]
NoResult == [map |-> << >>, rows |-> << >>, trailer |-> << >>, size |-> 0]

\* f(x), with x evaluated once.
Once(f(_), x) == CHOOSE y \in {f(v) : v \in {x}} : TRUE

\* f with v at x; f overridden by g; sums; the numbers of S in order.
Put(f, x, v) == [y \in DOMAIN f \cup {x} |-> IF y = x THEN v ELSE f[y]]
Over(g, f) == [y \in DOMAIN f \cup DOMAIN g |-> IF y \in DOMAIN g THEN g[y] ELSE f[y]]
SumTo(x, last) == LET sum[i \in 0 .. last] == IF i = 0 THEN 0 ELSE sum[i - 1] + x[i] IN sum[last]
Rank(S, x) == Cardinality({y \in S : y <= x})
Ascending(S) == [i \in 1 .. Cardinality(S) |-> CHOOSE x \in S : Rank(S, x) = i]

-----------------------------------------------------------------------------
(* The document graph *)

NotNull(d, refs) == {i \in DOMAIN refs : d.kind[refs[i]] # "null"}
WithoutNulls(d, refs) == [i \in 1 .. Cardinality(NotNull(d, refs)) |-> refs[Ascending(NotNull(d, refs))[i]]]

\* The references that unparsing s shows: a dictionary hides a null value, an array does not.
Shown(d, s) == IF d.kind[s] = "array" THEN d.kids[s] ELSE WithoutNulls(d, d.kids[s])

\* One step of the depth-first walk from the trailer that lists the objects an object stream may
\* hold; a reference enters the stack at most once per visit of its holder.
Visit(d, w) ==
    IF w.stack = << >> THEN w
    ELSE IF Head(w.stack) \in w.seen THEN [w EXCEPT !.stack = Tail(@)]
    ELSE [stack |-> Shown(d, Head(w.stack)) \o Tail(w.stack), seen |-> w.seen \cup {Head(w.stack)},
          found |-> IF d.kind[Head(w.stack)] \in Streams \cup {"sig"} THEN w.found
                    ELSE Append(w.found, Head(w.stack))]

Compressible(d) ==
    LET start == [stack |-> WithoutNulls(d, d.before) \o <<Root>> \o WithoutNulls(d, d.after),
                  seen |-> {}, found |-> << >>]
        pops == Len(start.stack) + SumTo([s \in Source(d) |-> Len(d.kids[s])], Len(d.kind))
        walk[i \in 0 .. pops] == IF i = 0 THEN start ELSE Once(LAMBDA w : Visit(d, w), walk[i - 1])
    IN  walk[pops].found

\* Consecutive batches of even size, none above the cap.
EvenSplit(eligible) ==
    LET n == Len(eligible)
        streams == (n + Cap - 1) \div Cap
        per == (n + streams - 1) \div streams
    IN  [i \in 1 .. IF n = 0 THEN 0 ELSE (n + per - 1) \div per |->
            SubSeq(eligible, (i - 1) * per + 1, IF i * per < n THEN i * per ELSE n)]

-----------------------------------------------------------------------------
(* Setup: object-stream membership *)

\* Generate's containers: the object numbers after the document's.
Containers(d, split) == Len(d.kind) + 1 .. Len(d.kind) + Len(split)

\* Null placeholders for the containers that Generate will write.
WithPlaceholders(d, split) ==
    LET fresh == Containers(d, split)
    IN  IF opt.streams # "generate" THEN d
        ELSE [kind |-> Over([s \in fresh |-> "null"], d.kind), kids |-> Over([s \in fresh |-> << >>], d.kids),
              extends |-> Over([s \in fresh |-> 0], d.extends), home |-> d.home,
              before |-> d.before, after |-> d.after]

\* Which members each container keeps, before the filter for encrypted output.
Batches(d, eligible, split) ==
    CASE opt.streams = "disable" -> << >>
      [] opt.streams = "preserve" ->
            [c \in Range(d.home) |->
                {m \in DOMAIN d.home : d.home[m] = c /\ (opt.unref \/ m \in ToSet(eligible))}]
      [] opt.streams = "generate" ->
            [c \in Containers(d, split) |-> ToSet(split[c - Len(d.kind)])]

Kept(batches, c) == batches[c] \ (IF opt.encrypt THEN {Root} ELSE {})
Groups(batches) == {c \in DOMAIN batches : Kept(batches, c) # {}}

LiveObjectStreamPlan(batches) ==
    [members |-> [c \in Groups(batches) |-> Ascending(Kept(batches, c))],
     home |-> [m \in UNION {Kept(batches, c) : c \in Groups(batches)} |->
                  CHOOSE c \in Groups(batches) : m \in Kept(batches, c)],
     generated |-> IF opt.streams = "generate" THEN Groups(batches) ELSE {}]

-----------------------------------------------------------------------------
(* The live queue *)

EmptyQueue == [next |-> 1, map |-> << >>, pending |-> << >>, resolving |-> {},
               holders |-> << >>, ignored |-> {}]

\* QDF does not write the source's own cross-reference streams.
IgnoredByQdf(d, s) == opt.qdf /\ d.kind[s] = "xref"

\* In QDF the length of a stream is an object of its own.
HasHolder(d, s) == opt.qdf /\ d.kind[s] \in Streams

\* The members that get their numbers with container s.
Fresh(q, s) == ToSet(plan.members[s]) \ (DOMAIN q.map \cup {s})

\* s gets the next number and joins the queue; a container numbers its members with it, a QDF
\* stream the holder of its length.
ReserveContainer(q, s) ==
    [q EXCEPT !.next = @ + 1 + Cardinality(Fresh(q, s)), !.pending = Append(@, s),
              !.map = Over([m \in Fresh(q, s) |-> q.next + Rank(Fresh(q, s), m)], Put(@, s, q.next))]

Reserve(d, q, s) ==
    IF s \in DOMAIN plan.members THEN ReserveContainer(q, s)
    ELSE [q EXCEPT !.next = @ + (IF HasHolder(d, s) THEN 2 ELSE 1), !.map = Put(@, s, q.next),
                   !.pending = Append(@, s),
                   !.holders = IF HasHolder(d, s) THEN Put(@, s, q.next + 1) ELSE @]

\* An object that is no member: ignored by QDF, already numbered, or numbered now.
EnqueuePlain(d, q, s) ==
    IF IgnoredByQdf(d, s) THEN [q EXCEPT !.ignored = @ \cup {s}]
    ELSE IF s \in DOMAIN q.map THEN q ELSE Reserve(d, q, s)

\* Enqueueing a member enqueues its container instead, and so on up the chain of containers; the
\* members on the way are marked, and a mark, once met again, ends the climb.  It is never taken
\* back.
Up(m) == IF m \in DOMAIN plan.home THEN plan.home[m] ELSE m
Chain(d, s) == LET chain[i \in 0 .. Len(d.kind)] == IF i = 0 THEN s ELSE Up(chain[i - 1]) IN chain
Ends(d, q, chain, i) ==
    \/ chain[i] \notin DOMAIN plan.home \/ IgnoredByQdf(d, chain[i])
    \/ chain[i] \in DOMAIN q.map \cup q.resolving
    \/ \E j \in 0 .. i - 1 : chain[j] = chain[i]
LastOf(d, q, chain) == Min({i \in DOMAIN chain : Ends(d, q, chain, i)})

Enter(d, q, chain, last) ==
    LET marked == [q EXCEPT !.resolving = @ \cup {chain[i] : i \in 0 .. last - 1}]
    IN  IF chain[last] \in DOMAIN plan.home /\ ~IgnoredByQdf(d, chain[last]) THEN marked
        ELSE EnqueuePlain(d, marked, chain[last])
EnqueueContainer(d, q, s) ==
    Once(LAMBDA chain : Once(LAMBDA last : Enter(d, q, chain, last), LastOf(d, q, chain)), Chain(d, s))

NumberIn(q, s, otherwise) == IF s \in DOMAIN q.map THEN q.map[s] ELSE otherwise

\* Faulty variant: a reference gets the last number that was handed out.
EnqueueAnswersLast(d, q, s) ==
    LET after == IF s \notin DOMAIN plan.home THEN EnqueuePlain(d, q, s) ELSE EnqueueContainer(d, q, s)
    IN  [queue |-> after, number |-> IF s \in DOMAIN q.map THEN q.map[s] ELSE after.next - 1]

\* The queue after a reference to s, and the number to write for it.
EnqueueHandle(d, q, s) ==
    LET Answer(after) == [queue |-> after, number |-> NumberIn(after, s, Missing)]
    IN  IF s \notin DOMAIN plan.home \/ s \in DOMAIN q.map \/ IgnoredByQdf(d, s)
        THEN Once(Answer, EnqueuePlain(d, q, s))
        ELSE IF s \in q.resolving THEN [queue |-> q, number |-> 0]
        ELSE Once(Answer, EnqueueContainer(d, q, s))

EnqueueAll(d, q, refs) ==
    LET after[i \in 0 .. Len(refs)] ==
            IF i = 0 THEN q ELSE Once(LAMBDA before : EnqueueHandle(d, before, refs[i]).queue, after[i - 1])
    IN  after[Len(refs)]

Seeds(d) == (IF opt.unref THEN Ascending(Source(d) \ plan.generated) ELSE << >>)
            \o <<Root>> \o WithoutNulls(d, d.before \o d.after)

-----------------------------------------------------------------------------
(* Unparsing: the references of one object, numbered *)

\* Each reference is enqueued as it is written.
Child(d, acc, s) ==
    LET Write(e) == [queue |-> e.queue, refs |-> Append(acc.refs, [to |-> s, number |-> e.number]),
                     error |-> IF e.number = Missing THEN "child" ELSE ""]
    IN  IF acc.error # "" THEN acc ELSE Once(Write, EnqueueHandle(d, acc.queue, s))

DynamicRefs(d, q, refs) ==
    LET written[i \in 0 .. Len(refs)] == IF i = 0 THEN [queue |-> q, refs |-> << >>, error |-> ""]
                                         ELSE Once(LAMBDA acc : Child(d, acc, refs[i]), written[i - 1])
    IN  written[Len(refs)]

\* Faulty variant: the numbers are looked up in the map as it was before the references.
StaticRefsEarly(d, q, refs) ==
    [queue |-> EnqueueAll(d, q, refs),
     refs |-> [i \in DOMAIN refs |-> [to |-> refs[i], number |-> NumberIn(q, refs[i], Missing)]],
     error |-> IF \E i \in DOMAIN refs : NumberIn(q, refs[i], Missing) = Missing THEN "absent" ELSE ""]

\* All references are enqueued first, and looked up while they are written.
StaticRefs(d, q, refs) ==
    LET Number(after, s) == NumberIn(after, s, IF s \in after.ignored THEN 0 ELSE Missing)
        Write(after) ==
            [queue |-> after,
             refs |-> [i \in DOMAIN refs |-> [to |-> refs[i], number |-> Number(after, refs[i])]],
             error |-> IF \E i \in DOMAIN refs : Number(after, refs[i]) = Missing THEN "absent" ELSE ""]
    IN  Once(Write, EnqueueAll(d, q, refs))

\* Faulty variant: null items are left out of arrays too.
UnparseWithoutNulls(d, q, s) ==
    StaticRefs(d, q, WithoutNulls(d, d.kids[s]))

UnparseObject(d, q, s) ==
    IF d.kind[s] \in Streams \/ opt.qdf THEN StaticRefs(d, q, Shown(d, s))
    ELSE DynamicRefs(d, IF opt.encrypt THEN EnqueueAll(d, q, Shown(d, s)) ELSE q, Shown(d, s))

\* A stream inside an object stream is written as null.
UnparseMember(d, q, m) == DynamicRefs(d, q, IF d.kind[m] \in Streams THEN << >> ELSE Shown(d, m))

-----------------------------------------------------------------------------
(* Progress, and what the callback may do to the document *)

NoProgress == [expected |-> 1, seen |-> 0, next |-> 0, percent |-> 0, called |-> FALSE]

\* One event, after an optional decrement: the callback runs when the next threshold is met.
Indicate(p, decrement) ==
    LET seen == IF decrement /\ p.seen > 0 THEN p.seen ELSE p.seen + 1
        step == Max({1, p.expected \div 100})
        scaled == 1 + Min({98, (seen * 100) \div p.expected})
    IN  IF seen < p.next THEN [p EXCEPT !.seen = seen, !.called = FALSE]
        ELSE [p EXCEPT !.seen = seen, !.called = TRUE,
                       !.percent = IF p.next = 0 THEN 0 ELSE scaled,
                       !.next = @ + ((seen - @) \div step + 1) * step]

\* A callback adds a reference to an object or to the trailer, or removes one.
Edited(d) ==
    LET Attach(s, k) == [d EXCEPT !.kids[s] = Append(@, k)]
        Detach(s) == [d EXCEPT !.kids[s] = Tail(@)]
        holders == {s \in Source(d) : d.kind[s] # "null"}
        room == {s \in holders : Len(d.kids[s]) < MaxKids}
        full == {s \in holders : d.kids[s] # << >>}
    IN  (UNION {{[doc |-> Attach(s, k), at |-> s] : s \in room} : k \in holders})
        \cup {[doc |-> Detach(s), at |-> s] : s \in full}
        \cup {[doc |-> [d EXCEPT !.after = Append(@, k)], at |-> 0] : k \in holders}

Callback(p) == {[doc |-> doc, edits |-> edits]}
               \cup IF p.called /\ Len(edits) < MaxEdits
                    THEN {[doc |-> e.doc, edits |-> Append(edits, e.at)] : e \in Edited(doc)} ELSE {}

-----------------------------------------------------------------------------
(* The body *)

Item(number, source, kind, refs) ==
    [number |-> number, source |-> source, kind |-> kind, refs |-> refs,
     length |-> 0, members |-> << >>, table |-> << >>]

Fail(why) == /\ phase' = "failed" /\ error' = why
             /\ UNCHANGED <<doc, opt, plan, queue, work, out, layout, progress, edits, result>>

NoLayout == [uncompressed |-> << >>, compressed |-> << >>]

\* PdfWriter::write up to the header.
Setup ==
    /\ phase = "setup"
    /\ phase' = "body"
    /\ \E eligible \in {Compressible(doc)} :
       \E split \in {EvenSplit(eligible)} :
       \E batches \in {Batches(doc, eligible, split)} :
       \E d \in {WithPlaceholders(doc, split)} :
          /\ doc' = d
          /\ plan' = LiveObjectStreamPlan(batches)
          /\ progress' = [NoProgress EXCEPT !.expected = Cardinality(Source(d))]
    /\ UNCHANGED <<opt, queue, work, out, layout, edits, result, error>>

\* The header is written and the seeds are queued.
SeedQueue ==
    /\ phase = "body" /\ out = << >>
    /\ \E seeds \in {Seeds(doc)} : queue' = EnqueueAll(doc, queue, seeds)
    /\ out' = <<Item(0, 0, "header", << >>)>>
    /\ UNCHANGED <<phase, doc, opt, plan, work, layout, progress, edits, result, error>>

\* write_object for an object that is no container: progress, the object, and in QDF its length.
WriteObject ==
    /\ phase = "body" /\ out # << >> /\ work = Idle /\ queue.pending # << >>
    /\ LET s == Head(queue.pending)
           p == Indicate(progress, FALSE)
       IN  /\ s \notin DOMAIN plan.members
           /\ \E c \in Callback(p) :
              \E r \in {UnparseObject(c.doc, [queue EXCEPT !.pending = Tail(@)], s)} :
                LET new == queue.map[s]
                    held == HasHolder(c.doc, s)
                    item == [Item(new, s, c.doc.kind[s], r.refs) EXCEPT
                                !.length = IF held THEN queue.holders[s] ELSE 0]
                    items == IF held THEN <<item, Item(new + 1, s, "length", << >>)>> ELSE <<item>>
                IN  IF r.error # "" THEN Fail(r.error)
                    ELSE /\ doc' = c.doc /\ edits' = c.edits
                         /\ progress' = p
                         /\ queue' = r.queue
                         /\ out' = out \o items
                         /\ layout' = [layout EXCEPT !.uncompressed =
                                Over([n \in {items[i].number : i \in DOMAIN items} |-> Len(out) + 1 + n - new], @)]
                         /\ UNCHANGED <<phase, opt, plan, work, result, error>>

Sizes(bodies) == [i \in DOMAIN bodies |-> 1 + Len(bodies[i].refs)]
Starts(sizes) == [i \in DOMAIN sizes |-> SumTo(sizes, i - 1)]

\* The offsets of the members in the container.
OffsetTable(w) == Starts(IF opt.qdf THEN w.sizes ELSE Sizes(w.bodies))

\* Faulty variant: the row points at what was written before the container.
PlacedEarly(number, bodies) ==
    [uncompressed |-> Put(layout.uncompressed, number, Len(out)), compressed |-> layout.compressed]

\* The container's row, and the rows of its members.
Placed(number, bodies) ==
    [uncompressed |-> Put(layout.uncompressed, number, Len(out) + 1),
     compressed |-> Over([n \in {bodies[i].number : i \in DOMAIN bodies} |->
                             [container |-> number,
                              index |-> (CHOOSE i \in DOMAIN bodies : bodies[i].number = n) - 1]],
                         layout.compressed)]

\* The container's /Extends is enqueued and written like any reference.
Extends(d, q, s) == IF d.kind[s] = "stream" /\ d.extends[s] # 0
                    THEN [DynamicRefs(d, q, <<d.extends[s]>>) EXCEPT !.error = IF @ = "" THEN "" ELSE "extends"]
                    ELSE [queue |-> q, refs |-> << >>, error |-> ""]

\* The container goes out after its second pass; the table of member offsets is measured in the
\* second pass, in QDF in the first.
CloseContainer(extends, w) ==
    LET number == extends.queue.map[w.obj]
        item == [Item(number, w.obj, "objstm", extends.refs) EXCEPT
                    !.members = w.bodies, !.table = OffsetTable(w)]
    IN  /\ queue' = extends.queue
        /\ work' = Idle
        /\ out' = Append(out, item)
        /\ layout' = Placed(number, w.bodies)

\* Faulty variant: the first pass never hands over to the second.
MeasuredAgain(w, size) ==
    [w EXCEPT !.sizes = IF Len(@) + 1 = Len(plan.members[w.obj]) THEN << >> ELSE Append(@, size)]

\* The first pass notes the size of a member; the second follows after the last one.
Measured(w, size) ==
    [w EXCEPT !.sizes = Append(@, size),
              !.pass = IF Len(w.sizes) + 1 = Len(plan.members[w.obj]) THEN 2 ELSE 1]

\* One member of an object stream in one of its two passes; the first pass takes its progress
\* event back and throws the text away.
EmitMember ==
    /\ phase = "body" /\ out # << >>
    /\ work # Idle \/ (queue.pending # << >> /\ Head(queue.pending) \in DOMAIN plan.members)
    /\ LET w == IF work = Idle THEN [Idle EXCEPT !.obj = Head(queue.pending)] ELSE work
           q == IF work = Idle THEN [queue EXCEPT !.pending = Tail(@)] ELSE queue
           members == plan.members[w.obj]
           m == members[1 + Len(IF w.pass = 1 THEN w.sizes ELSE w.bodies)]
           p == Indicate(progress, w.pass = 1)
       IN  \E c \in Callback(p) : \E r \in {UnparseMember(c.doc, q, m)} :
             LET kind == IF c.doc.kind[m] \in Streams THEN "null" ELSE c.doc.kind[m]
                 body == [number |-> q.map[m], source |-> m, kind |-> kind, refs |-> r.refs]
                 second == [w EXCEPT !.bodies = Append(@, body)]
                 last == w.pass = 2 /\ Len(second.bodies) = Len(members)
             IN  \E e \in {IF r.error = "" /\ last THEN Extends(c.doc, r.queue, w.obj) ELSE r} :
                   \/ e.error # "" /\ Fail(e.error)
                   \/ /\ e.error = ""
                      /\ doc' = c.doc /\ edits' = c.edits
                      /\ progress' = p
                      /\ IF last THEN CloseContainer(e, second)
                         ELSE /\ queue' = r.queue
                              /\ work' = IF w.pass = 1 THEN Measured(w, 1 + Len(r.refs)) ELSE second
                              /\ UNCHANGED <<out, layout>>
                      /\ UNCHANGED <<phase, opt, plan, result, error>>

-----------------------------------------------------------------------------
(* The cross-reference section and the trailer *)

HasObjectStreams == DOMAIN plan.members # {}

MaxNumber(l) == Max({0} \cup DOMAIN l.uncompressed \cup DOMAIN l.compressed)

\* Numbers for trailer references that the body never met; nothing is written under them.
Late(acc, s) ==
    IF s \in DOMAIN acc.map THEN acc
    ELSE IF IgnoredByQdf(doc, s) THEN [acc EXCEPT !.map = Put(@, s, 0)]
    ELSE [map |-> Put(acc.map, s, acc.next),
          next |-> acc.next + IF HasHolder(doc, s) THEN 2 ELSE 1]

LateReferences(first) ==
    LET refs == WithoutNulls(doc, doc.before \o doc.after)
        after[i \in 0 .. Len(refs)] ==
            IF i = 0 THEN [map |-> Over(queue.map, [s \in queue.ignored |-> 0]), next |-> first]
            ELSE Once(LAMBDA acc : Late(acc, refs[i]), after[i - 1])
    IN  after[Len(refs)].map

\* The number of the first late reference: past the body, /Encrypt and the xref stream.
FirstLate(last) == last + 1 + IF HasObjectStreams THEN 1 ELSE 0

Rows(l, last) ==
    [n \in 1 .. last |->
        IF n \in DOMAIN l.uncompressed THEN [type |-> 1, at |-> l.uncompressed[n], index |-> 0]
        ELSE IF n \in DOMAIN l.compressed
        THEN [type |-> 2, at |-> l.compressed[n].container, index |-> l.compressed[n].index]
        ELSE [type |-> 0, at |-> 0, index |-> 0]]

\* write_plain_live once the queue is empty: the /Encrypt object, the late references, the rows.
WriteXref ==
    /\ phase = "body" /\ out # << >> /\ work = Idle /\ queue.pending = << >>
    /\ LET count == queue.next - 1
           last == IF opt.encrypt THEN count + 1 ELSE count
           encrypted == IF opt.encrypt THEN <<Item(last, 0, "encrypt", << >>)>> ELSE << >>
           body == [layout EXCEPT !.uncompressed =
                        IF opt.encrypt THEN Put(@, last, Len(out) + 1) ELSE @]
           top == MaxNumber(body) + IF HasObjectStreams THEN 1 ELSE 0
           xref == IF HasObjectStreams THEN <<Item(top, 0, "xrefstm", << >>)>> ELSE << >>
           placed == IF HasObjectStreams
                     THEN [body EXCEPT !.uncompressed = Put(@, top, Len(out \o encrypted) + 1)] ELSE body
           keys == <<Root>> \o WithoutNulls(doc, doc.before \o doc.after)
       IN  \E map \in {LateReferences(FirstLate(last))}, rows \in {Rows(placed, top)} :
           CASE Root \notin DOMAIN queue.map -> Fail("root")
             [] DOMAIN body.uncompressed \cap DOMAIN body.compressed # {} -> Fail("both")
             [] ~HasObjectStreams /\ (\E n \in DOMAIN rows : rows[n].type # 1) -> Fail("row")
             [] OTHER ->
                /\ phase' = "done"
                /\ out' = out \o encrypted \o xref
                /\ layout' = placed
                /\ progress' = [progress EXCEPT !.percent = 100, !.seen = @ + 1]
                /\ result' = [map |-> Restrict(map, {s \in DOMAIN map : map[s] \in
                                          DOMAIN body.uncompressed \cup DOMAIN body.compressed}),
                              rows |-> rows, size |-> top + 1,
                              trailer |-> [i \in DOMAIN keys |-> [to |-> keys[i], number |-> map[keys[i]]]]]
                /\ UNCHANGED <<doc, opt, plan, queue, work, edits, error>>

\* The sink refuses bytes, or the progress callback returns an error.
OutputFails == phase = "body" /\ Fail("output")

Finished == phase \in {"done", "failed"} /\ UNCHANGED vars

Init ==
    /\ phase = "setup"
    /\ doc \in Documents /\ opt \in Options
    /\ plan = NoPlan /\ queue = EmptyQueue /\ work = Idle
    /\ out = << >> /\ layout = NoLayout /\ progress = NoProgress
    /\ edits = << >> /\ result = NoResult /\ error = ""

Step == Setup \/ SeedQueue \/ WriteObject \/ EmitMember \/ WriteXref
Next == Step \/ OutputFails \/ Finished
Spec == Init /\ [][Next]_vars /\ WF_vars(Step)

-----------------------------------------------------------------------------
(* Reading the file back *)

\* Everything in the file: objects, and members of object streams.
Written == UNION {{out[i]} \cup ToSet(out[i].members) : i \in DOMAIN out}

\* What a reader finds at number n through the rows, as the row itself says.
ReadAt(n) ==
    LET row == result.rows[n]
    IN  IF row.type = 1 THEN out[row.at]
        ELSE out[result.rows[row.at].at].members[row.index + 1]

\* Members that a chain or a cycle of containers keeps from ever getting a number.
Broken == {m \in DOMAIN plan.home : plan.home[m] \in DOMAIN plan.home}

\* A document whose source object streams are not nested, and no QDF write that meets a source
\* cross-reference stream inside an object stream.
Sound == /\ Broken = {}
         /\ ~(opt.qdf /\ HasObjectStreams /\ \E s \in Source(doc) : doc.kind[s] = "xref")

-----------------------------------------------------------------------------
(* Properties *)

\* The phases, the shape of the queue and of the work in hand.
TypeOK ==
    /\ phase \in {"setup", "body", "done", "failed"}
    /\ opt \in Options
    /\ error \in {"", "output", "child", "absent", "extends", "root", "both", "row"}
    /\ (error # "") <=> (phase = "failed")
    /\ queue.next \in Nat \ {0}
    /\ DOMAIN queue.map \subseteq Source(doc) /\ Range(queue.map) \subseteq 1 .. queue.next - 1
    /\ ToSet(queue.pending) \subseteq DOMAIN queue.map
    /\ work.pass \in {1, 2} /\ (work # Idle => work.obj \in DOMAIN plan.members)
    /\ DOMAIN layout.uncompressed \cup DOMAIN layout.compressed \subseteq 1 .. queue.next + 1
    /\ progress.percent \in Nat /\ Len(edits) <= MaxEdits

\* Every number handed out has one owner: no two objects, and no object and no length holder of a
\* QDF stream, share a number, and no number is skipped (LiveQueue::reserve_output_number).
NumbersOwned ==
    LET owners == [n \in 1 .. queue.next - 1 |->
                      {<<"object", s>> : s \in {t \in DOMAIN queue.map : queue.map[t] = n}}
                      \cup {<<"length", s>> : s \in {t \in DOMAIN queue.holders : queue.holders[t] = n}}]
    IN  \A n \in DOMAIN owners : Cardinality(owners[n]) = 1

\* No number is given twice, and a finished file has one row for every number below /Size; the row
\* leads to the bytes of the object with that number, which no other place of the file holds too
\* (open_object, emit_live_object_stream and write_xref_table agree).
RowsExact ==
    /\ NumbersOwned
    /\ phase = "done" =>
        /\ DOMAIN result.rows = 1 .. result.size - 1
        /\ \A n \in DOMAIN result.rows :
              /\ result.rows[n].type # 0
              /\ ReadAt(n).number = n
              /\ {w \in Written : w.number = n} = {ReadAt(n)}
        /\ \A i, j \in DOMAIN out : i # j => out[i].number # out[j].number

\* A trailer reference is the number of its object, or, when a callback attached it too late to be
\* written, a number that no object of the file has, the xref stream included
\* (extend_late_trailer_map).
TrailerSound ==
    phase = "done" =>
        \A i \in DOMAIN result.trailer :
            LET r == result.trailer[i]
            IN  IF r.to \in DOMAIN queue.map
                THEN r.number = queue.map[r.to] /\ ReadAt(r.number).source = r.to
                ELSE r.number = 0 \/ r.number >= result.size

\* The table of member offsets in an object stream finds every member, even when a callback changed
\* a member between the two passes; in QDF only when none did.
TablesExact ==
    \A i \in DOMAIN out :
        (~opt.qdf \/ edits = << >>) => out[i].table = Starts(Sizes(out[i].members))

\* A reference in a finished file leads to the object it stood for in the document, whatever the
\* callbacks changed on the way, and the /Length of a QDF stream to the holder of this very stream;
\* the null reference stands only for a cross-reference stream that QDF leaves out or for a member
\* of a nested object stream (unparse_child, stream_length_holders and the live queue).  A trailer
\* reference leads to its object too, unless it came too late to be written.
ReferencesLead ==
    /\ TrailerSound
    /\ phase = "done" =>
        \A w \in Written :
            /\ \A i \in DOMAIN w.refs :
                  LET r == w.refs[i]
                  IN  IF r.number = 0 THEN r.to \in queue.ignored \cup queue.resolving
                      ELSE r.number \in DOMAIN result.rows /\ ReadAt(r.number).source = r.to
                           /\ ReadAt(r.number).kind # "length"
            /\ w \in Range(out) /\ w.length # 0 =>
                  /\ w.length \in DOMAIN result.rows
                  /\ ReadAt(w.length).kind = "length" /\ ReadAt(w.length).source = w.source

\* Every object that got a number can be read back from the finished file with its kind and, unless
\* a callback changed it, its references in order; nothing is lost between the queue, the two
\* passes over an object stream and the rows.  A stream inside an object stream is a null.
\* The table of member offsets in a container is exact (TablesExact).
NothingLost ==
    /\ TablesExact
    /\ phase = "done" =>
        /\ Root \in DOMAIN result.map
        /\ \A s \in DOMAIN queue.map :
              LET w == ReadAt(queue.map[s])
                  lost == s \in DOMAIN plan.home /\ doc.kind[s] \in Streams
              IN  CASE lost -> w.kind = "null"
                    [] s \in DOMAIN plan.members \ DOMAIN plan.home -> w.kind = "objstm"
                    [] OTHER -> /\ w.kind = doc.kind[s]
                                /\ s \notin ToSet(edits) =>
                                      [i \in DOMAIN w.refs |-> w.refs[i].to] = Shown(doc, s)

\* A sound document is always written unless the output itself fails, whatever references the
\* callbacks add or remove: no lookup of the live writer comes up empty.
SoundSucceeds == phase = "failed" /\ error # "output" => ~Sound

\* Every write ends, in cycles of references and of containers too.
WriteEnds == <>(phase \in {"done", "failed"})
=============================================================================
