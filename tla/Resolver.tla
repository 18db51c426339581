------------------------------ MODULE Resolver ------------------------------
(***************************************************************************)
(* The lazy object cache of a document (crates/flpdf/src/reader/           *)
(* resolver.rs): objects are read on first use, a read may re-enter the    *)
(* resolver through a stream's /Length or an object stream, may rebuild    *)
(* the cross-reference table once, and competes with the client's          *)
(* replacements, swaps, removals and allocations.                          *)
(*                                                                         *)
(* An object of generation 0 has its number as key; -n is the key of a row *)
(* for number n whose generation no reference can name (n 65536).          *)
(***************************************************************************)
EXTENDS Integers, Sequences, FiniteSets

CONSTANTS
    Documents,  \* opened documents: the file's objects, the table, the recovery
                \* option and whether opening rebuilt the table
    Positions,  \* file positions at which an object may start
    MaxNumber,  \* i32::MAX, the largest object number
    MaxEdits    \* bound on the client's edits

References == 1 .. MaxNumber
Keys == -MaxNumber .. MaxNumber

(* QpdfObjGen: the number of a key, and the order of the table.            *)
NumberOf(k) == IF k < 0 THEN -k ELSE k
Before(j, k) == NumberOf(j) < NumberOf(k) \/ (NumberOf(j) = NumberOf(k) /\ k <= j)

(* An object of the file: the number of its header (0: none that can be    *)
(* used), what it is, the object its /Length refers to (0: direct), the    *)
(* references in its body, the members an object stream lists and the      *)
(* first of them that does not parse (0: none).                            *)
ObjectSet ==
    [header : Keys, body : {"int", "stream", "objstm", "broken"},
     length : References \cup {0},
     refs : SUBSET References, members : SUBSET References, bad : References \cup {0}]

(* A row: the position of the object, or the number of its object stream.  *)
EntrySet == [type : {"uncompressed", "compressed", "free"}, at : Nat]
IsTable(t) == DOMAIN t \subseteq Keys /\ \A k \in DOMAIN t : t[k] \in EntrySet

ASSUME NumbersAssumption ==
    Positions \subseteq Nat \ {0} /\ MaxNumber \in Nat \ {0} /\ MaxEdits \in Nat
ASSUME DocumentsAssumption ==
    \A d \in Documents :
        /\ d.objects \in [Positions -> ObjectSet] /\ IsTable(d.table)
        /\ d.recovery \in BOOLEAN /\ d.rebuilt \in BOOLEAN /\ d.edits \in 0 .. MaxEdits
        /\ \A k \in DOMAIN d.table : /\ d.table[k].type = "uncompressed" =>
                                          d.table[k].at \in Positions \cup {0}
                                     /\ d.table[k].type = "compressed" => d.table[k].at \in References

VARIABLES
    objects,            \* the input source
    attempt_recovery,
    xref,               \* the raw rows of XrefRegistration
    default_xref_entries,
    object_cache,       \* the value of every canonical handle
    allocated,          \* allocated_object_refs
    resolving,
    resolved_object_streams,
    reconstructed_xref,
    fixed_dangling_refs,
    stack,              \* the resolver's frames, innermost first
    walk,               \* the walk of resolve_xref_table
    op,                 \* the client's operation in progress
    edits,              \* how many edits the client made
    edited              \* the objects they touched

table == <<xref, default_xref_entries, reconstructed_xref>>
client == <<op, edits, edited>>
vars == <<objects, attempt_recovery, table, object_cache, allocated, resolving,
          resolved_object_streams, fixed_dangling_refs, stack, walk, client>>

-----------------------------------------------------------------------------
Value(kind, at) == [kind |-> kind, at |-> at]
Unresolved == Value("unresolved", 0)
Null == Value("null", 0)
ValueSet == [kind : {"unresolved", "null", "read", "member", "new", "reserved"}, at : Nat]

Resolved(c, k) == k \in DOMAIN c /\ c[k] # Unresolved
Put(c, k, v) == [x \in DOMAIN c \cup {k} |-> IF x = k THEN v ELSE c[x]]
OrNull(c, k) == IF Resolved(c, k) THEN c ELSE Put(c, k, Null)

(* get_object_handle: a number has one handle, unresolved at first.        *)
get_object_handle(c, K) ==
    [x \in DOMAIN c \cup K |-> IF x \in DOMAIN c THEN c[x] ELSE Unresolved]

IsRow(k, type) == k \in DOMAIN xref /\ xref[k].type = type

(* effective_xref_entries: the rows and the type-0 rows lookups created.   *)
effective_xref_entries ==
    [k \in DOMAIN xref \cup default_xref_entries |->
        IF k \in DOMAIN xref THEN xref[k] ELSE [type |-> "free", at |-> 0]]

(* reconstruct_xref_on_owner on an opened document: the last object line   *)
(* of each number, over the rows that were not of type 1.                  *)
Found == {objects[p].header : p \in Positions} \cap References
LastLines ==
    {last \in [Found -> Positions] :
        \A k \in Found : /\ objects[last[k]].header = k
                         /\ \A p \in Positions : objects[p].header = k => p <= last[k]}
reconstruct_xref_on_owner(last) ==
    [k \in Found \cup {j \in DOMAIN xref : xref[j].type # "uncompressed"} |->
        IF k \in Found THEN [type |-> "uncompressed", at |-> last[k]] ELSE xref[k]]

-----------------------------------------------------------------------------
(* Frames. raw marks a read for a row of the walk that no reference names: *)
(* it takes no resolve mark and gives no value to the row's own number.    *)

Frame(fn, k, at, raw) == [fn |-> fn, key |-> k, at |-> at, raw |-> raw]
Top == stack[1]
At(fns) == stack # <<>> /\ Top.fn \in fns
Become(f) == <<f>> \o Tail(stack)
Source == objects[Top.at]

(* Leaving a frame drops its mark. Faulty variant: it stays.               *)
KeepMark(c) == object_cache' = c /\ stack' = Tail(stack) /\ UNCHANGED resolving

Return(c) ==
    /\ object_cache' = c
    /\ stack' = Tail(stack)
    /\ resolving' = IF Top.raw THEN resolving ELSE resolving \ {Top.key}

(* try_dereference: a resolved handle needs no resolution.                 *)
AlreadyResolved ==
    /\ At({"resolve"})
    /\ Resolved(object_cache, Top.key)
    /\ stack' = Tail(stack)
    /\ UNCHANGED <<objects, attempt_recovery, table, object_cache, allocated, resolving,
                   resolved_object_streams, fixed_dangling_refs, walk, client>>

(* ResolveMark::begin: an object met while it is being resolved is null.   *)
LoopDetected ==
    /\ At({"resolve"})
    /\ ~Resolved(object_cache, Top.key)
    /\ Top.key \in resolving
    /\ object_cache' = Put(object_cache, Top.key, Null)
    /\ stack' = Tail(stack)
    /\ UNCHANGED <<objects, attempt_recovery, table, allocated, resolving,
                   resolved_object_streams, fixed_dangling_refs, walk, client>>

(* resolve_indirect_inner: dispatch on the object's row. No row, a free    *)
(* row, a default row and offset 0 are null.                               *)
Dispatch ==
    /\ At({"resolve"})
    /\ ~Resolved(object_cache, Top.key)
    /\ Top.key \notin resolving
    /\ LET k == Top.key
       IN  IF IsRow(k, "uncompressed") /\ xref[k].at # 0
           THEN /\ stack' = Become(Frame("read", k, xref[k].at, FALSE))
                /\ resolving' = resolving \cup {k}
                /\ UNCHANGED object_cache
           ELSE IF IsRow(k, "compressed")
           THEN /\ stack' = Become(Frame("stream", k, xref[k].at, FALSE))
                /\ resolving' = resolving \cup {k}
                /\ UNCHANGED object_cache
           ELSE Return(Put(object_cache, k, Null))
    /\ UNCHANGED <<objects, attempt_recovery, table, allocated,
                   resolved_object_streams, fixed_dangling_refs, walk, client>>

(* read_object_at_offset: only a first read may recover, and one for       *)
(* object 0 never does; then a header that names another object is an      *)
(* error like a header that cannot be read.                                *)
TryRecovery == attempt_recovery /\ Top.fn = "read" /\ Top.key # 0
HeaderError == Source.header = 0 \/ (TryRecovery /\ Source.header # Top.key)

(* A caught error leaves null where nothing else was cached.               *)
Caught(c) == IF Top.raw THEN c ELSE OrNull(c, Top.key)

(* begin_xref_reconstruction                                                *)
MayReconstruct == ~reconstructed_xref

ReadHeaderError ==
    /\ At({"read", "retry"})
    /\ HeaderError
    /\ ~(TryRecovery /\ MayReconstruct)
    /\ Return(Caught(object_cache))
    /\ UNCHANGED <<objects, attempt_recovery, table, allocated,
                   resolved_object_streams, fixed_dangling_refs, walk, client>>

(* reconstruct_xref_and_retry: the object is read once more where the      *)
(* rebuilt table has it, and is null where it has none.                    *)
ReconstructAndRetry ==
    /\ At({"read"})
    /\ HeaderError
    /\ TryRecovery
    /\ MayReconstruct
    /\ reconstructed_xref' = TRUE
    /\ fixed_dangling_refs' = FALSE
    /\ \E last \in LastLines : xref' = reconstruct_xref_on_owner(last)
    /\ LET k == Top.key
       IN  IF k \in DOMAIN xref' /\ xref'[k].type = "uncompressed"
           THEN /\ stack' = Become(Frame("retry", k, xref'[k].at, Top.raw))
                /\ UNCHANGED <<object_cache, resolving>>
           ELSE Return(IF Top.raw THEN object_cache ELSE Put(object_cache, k, Null))
    /\ UNCHANGED <<objects, attempt_recovery, default_xref_entries, allocated,
                   resolved_object_streams, walk, client>>

(* cache_parsed_object_if_unresolved files the object under the number of  *)
(* its header; a requested object that was not found is null. Faulty       *)
(* variants: the object is filed under the number that was asked for, or   *)
(* over a value its handle already has.                                    *)
cache_as_requested(c, ok) ==
    IF ok /\ ~Resolved(c, Top.key) THEN Put(c, Top.key, Value("read", Top.at)) ELSE Caught(c)

cache_over_value(c, ok) ==
    LET filed == Put(c, Source.header, Value("read", Top.at))
    IN  IF ~ok THEN Caught(c)
        ELSE IF Top.raw \/ Source.header = Top.key THEN filed ELSE Put(filed, Top.key, Null)

cache_parsed_object(c, ok) ==
    LET h == Source.header
        filed == IF Resolved(c, h) THEN c ELSE Put(c, h, Value("read", Top.at))
    IN  IF ~ok THEN Caught(c)
        ELSE IF Top.raw \/ h = Top.key THEN filed ELSE Put(filed, Top.key, Null)

(* The body: its references get handles, and a stream's indirect /Length   *)
(* is dereferenced before the object is cached.                            *)
ReadBody ==
    /\ At({"read", "retry"})
    /\ ~HeaderError
    /\ LET indirect == Source.body \in {"stream", "objstm"} /\ Source.length # 0
           c == get_object_handle(object_cache,
                    Source.refs \cup (IF indirect THEN {Source.length} ELSE {}))
       IN  IF indirect
           THEN /\ object_cache' = c
                /\ stack' = <<Frame("resolve", Source.length, 0, FALSE)>>
                                \o Become([Top EXCEPT !.fn = "length"])
                /\ UNCHANGED resolving
           ELSE Return(cache_parsed_object(c, Source.body # "broken"))
    /\ UNCHANGED <<objects, attempt_recovery, table, allocated,
                   resolved_object_streams, fixed_dangling_refs, walk, client>>

(* read_stream after the /Length: one that is no integer, or (a value the  *)
(* client stored) not this stream's, is recovered from the data, or fails  *)
(* the object when recovery is off.                                        *)
RightLength(v) == v.kind = "member" \/ (v.kind = "read" /\ objects[v.at].body = "int")

EndStreamRead ==
    /\ At({"length"})
    /\ Return(cache_parsed_object(object_cache,
                  RightLength(object_cache[Source.length]) \/ attempt_recovery))
    /\ UNCHANGED <<objects, attempt_recovery, table, allocated,
                   resolved_object_streams, fixed_dangling_refs, walk, client>>

(* resolve_object_stream: a stream is expanded once, marked before its own *)
(* resolution.                                                             *)
EnterObjectStream ==
    /\ At({"stream"})
    /\ IF Top.at \in resolved_object_streams
       THEN Return(OrNull(object_cache, Top.key)) /\ UNCHANGED resolved_object_streams
       ELSE /\ resolved_object_streams' = resolved_object_streams \cup {Top.at}
            /\ object_cache' = get_object_handle(object_cache, {Top.at})
            /\ stack' = <<Frame("resolve", Top.at, 0, FALSE)>>
                            \o Become([Top EXCEPT !.fn = "members"])
            /\ UNCHANGED resolving
    /\ UNCHANGED <<objects, attempt_recovery, table, allocated,
                   fixed_dangling_refs, walk, client>>

(* The members a stream gives a value: those whose row is in this stream.  *)
(* Faulty variant: only the one that was asked for.                        *)
RequestedMember(listed) == listed \cap {Top.key}
InstalledMembers(listed) ==
    {m \in listed : IsRow(m, "compressed") /\ xref[m].at = Top.at}

(* The members in order up to one that does not parse; a listed object     *)
(* without a row leaves a type-0 row.                                      *)
EndObjectStream ==
    /\ At({"members"})
    /\ LET v == object_cache[Top.at]
           o == objects[v.at]
           here(m) == IsRow(m, "compressed") /\ xref[m].at = Top.at
           listed == IF v.kind = "read" /\ o.body = "objstm"
                     THEN {m \in o.members : o.bad # 0 /\ here(o.bad) => m < o.bad}
                     ELSE {}
           installed == InstalledMembers(listed)
       IN  /\ Return(OrNull([k \in DOMAIN object_cache \cup installed |->
                                IF k \in installed THEN Value("member", v.at)
                                ELSE object_cache[k]], Top.key))
           /\ default_xref_entries' = default_xref_entries \cup (listed \ DOMAIN xref)
    /\ UNCHANGED <<objects, attempt_recovery, xref, reconstructed_xref, allocated,
                   resolved_object_streams, fixed_dangling_refs, walk, client>>

-----------------------------------------------------------------------------
(* fix_dangling_references: the walk over a snapshot of the table that     *)
(* resolves every row, repeated when a row's resolution rebuilt the table, *)
(* which cannot happen to the second pass.                                 *)

Walk(active, todo, may_change, row) ==
    [active |-> active, todo |-> todo, may_change |-> may_change, row |-> row]
NoWalk == Walk(FALSE, [k \in {} |-> 0], FALSE, "none")
StartWalk == Walk(TRUE, effective_xref_entries, ~reconstructed_xref, "none")
Walking == walk.active /\ stack = <<>>

(* The next row of the snapshot: object 0, a row no reference names, or an *)
(* ordinary object, which is skipped when it is resolved.                  *)
WalkRow ==
    /\ Walking
    /\ walk.row = "none"
    /\ \E k \in DOMAIN walk.todo :
        /\ \A j \in DOMAIN walk.todo : Before(k, j)
        /\ LET e == walk.todo[k]
               read == IF e.type = "uncompressed" /\ e.at # 0
                       THEN <<Frame("read", k, e.at, TRUE)>> ELSE <<>>
               skip == \/ k < 0 /\ e.type # "uncompressed"
                       \/ k > 0 /\ Resolved(object_cache, k)
           IN  /\ walk' = Walk(TRUE, [x \in DOMAIN walk.todo \ {k} |-> walk.todo[x]], walk.may_change,
                               IF skip THEN "none" ELSE IF k = 0 THEN "zero" ELSE "row")
               /\ object_cache' = IF k < 0 THEN object_cache
                                  ELSE get_object_handle(object_cache, {k})
               /\ stack' = IF skip THEN <<>>
                           ELSE IF k > 0 THEN <<Frame("resolve", k, 0, FALSE)>>
                           ELSE IF k = 0 /\ e.type = "compressed"
                           THEN <<Frame("stream", 0, e.at, TRUE)>>
                           ELSE read
    /\ UNCHANGED <<objects, attempt_recovery, table, allocated, resolving,
                   resolved_object_streams, fixed_dangling_refs, client>>

(* After a row: a table rebuilt since the walk began restarts it, except   *)
(* after object 0. Faulty variants: it never does; any rebuilt table does. *)
NeverRestart == FALSE
AlwaysRestart == walk.row # "zero" /\ reconstructed_xref
Restart == walk.row # "zero" /\ walk.may_change /\ reconstructed_xref

WalkNext ==
    /\ Walking
    /\ walk.row # "none"
    /\ object_cache' = IF walk.row = "zero" THEN OrNull(object_cache, 0) ELSE object_cache
    /\ walk' = IF Restart THEN StartWalk ELSE Walk(TRUE, walk.todo, walk.may_change, "none")
    /\ UNCHANGED <<objects, attempt_recovery, table, allocated, resolving,
                   resolved_object_streams, fixed_dangling_refs, stack, client>>

WalkEnd ==
    /\ Walking
    /\ walk.row = "none"
    /\ DOMAIN walk.todo = {}
    /\ fixed_dangling_refs' = TRUE
    /\ walk' = NoWalk
    /\ UNCHANGED <<objects, attempt_recovery, table, object_cache, allocated, resolving,
                   resolved_object_streams, stack, client>>

-----------------------------------------------------------------------------
(* The client's operations.                                                *)

Op(kind, a, b) == [kind |-> kind, a |-> a, b |-> b]
Idle == stack = <<>> /\ ~walk.active /\ op.kind = "idle"
Edit(K) == edits < MaxEdits /\ edits' = edits + 1 /\ edited' = edited \cup K
NewValue == Value("new", edits + 1)

(* get_object_handle.                                                      *)
GetObject(k) ==
    /\ Idle
    /\ object_cache' = get_object_handle(object_cache, {k})
    /\ UNCHANGED <<objects, attempt_recovery, table, allocated, resolving,
                   resolved_object_streams, fixed_dangling_refs, stack, walk, client>>

(* The first use of a handle.                                              *)
Dereference(k) ==
    /\ Idle
    /\ k \in DOMAIN object_cache /\ ~Resolved(object_cache, k)
    /\ stack' = <<Frame("resolve", k, 0, FALSE)>>
    /\ UNCHANGED <<objects, attempt_recovery, table, object_cache, allocated, resolving,
                   resolved_object_streams, fixed_dangling_refs, walk, client>>

(* get_all_objects and get_object_count prepare the cache; a new object    *)
(* then takes the number after the largest one.                            *)
Prepare(kind) ==
    /\ Idle
    /\ kind = "new" => edits < MaxEdits
    /\ op' = Op(kind, 0, 0)
    /\ walk' = IF fixed_dangling_refs THEN NoWalk ELSE StartWalk
    /\ UNCHANGED <<objects, attempt_recovery, table, object_cache, allocated, resolving,
                   resolved_object_streams, fixed_dangling_refs, stack, edits, edited>>

EnumerateObjects ==
    /\ op.kind = "all" /\ stack = <<>> /\ ~walk.active
    /\ op' = Op("idle", 0, 0)
    /\ UNCHANGED <<objects, attempt_recovery, table, object_cache, allocated, resolving,
                   resolved_object_streams, fixed_dangling_refs, stack, walk, edits, edited>>

max_object_number(n) ==
    /\ n \in {NumberOf(k) : k \in DOMAIN object_cache \cup {0}}
    /\ \A k \in DOMAIN object_cache : NumberOf(k) <= n

(* next_obj_gen and make_indirect_from_object_handle, after the largest    *)
(* number n. Faulty variant: the largest number is no limit.               *)
next_obj_gen(n) == n + 1
NumberTooHigh(n) == n > MaxNumber
NumbersExhausted(n) == n >= MaxNumber

AllocateObject ==
    /\ op.kind = "new" /\ stack = <<>> /\ ~walk.active
    /\ op' = Op("idle", 0, 0)
    /\ \E n \in 0 .. MaxNumber :
        /\ max_object_number(n)
        /\ IF NumbersExhausted(n)
           THEN UNCHANGED <<object_cache, allocated, edits, edited>>
           ELSE /\ object_cache' = Put(object_cache, next_obj_gen(n), NewValue)
                /\ allocated' = allocated \cup {next_obj_gen(n)}
                /\ Edit({next_obj_gen(n)})
    /\ UNCHANGED <<objects, attempt_recovery, table, resolving,
                   resolved_object_streams, fixed_dangling_refs, stack, walk>>

(* reserve_object_if_not_exists.                                           *)
ReserveObject(k) ==
    /\ Idle
    /\ IF k \in DOMAIN object_cache \cup DOMAIN xref \cup default_xref_entries
       THEN /\ object_cache' = get_object_handle(object_cache, {k})
            /\ UNCHANGED <<allocated, edits, edited>>
       ELSE /\ object_cache' = Put(object_cache, k, Value("reserved", 0))
            /\ allocated' = allocated \cup {k}
            /\ Edit({k})
    /\ UNCHANGED <<objects, attempt_recovery, table, resolving, resolved_object_streams,
                   fixed_dangling_refs, stack, walk, op>>

(* An object the client gave a value to is noted when no row backs it.     *)
(* Faulty variant: it is not noted.                                        *)
forget_allocation(K) == allocated' = allocated
record_allocated_object(K) == allocated' = allocated \cup (K \ DOMAIN xref)

ReplaceObject(k) ==
    /\ Idle
    /\ Edit({k})
    /\ object_cache' = Put(object_cache, k, NewValue)
    /\ record_allocated_object({k})
    /\ UNCHANGED <<objects, attempt_recovery, table, resolving, resolved_object_streams,
                   fixed_dangling_refs, stack, walk, op>>

(* swap_objects: both are resolved, one after the other, then exchanged.   *)
SwapObjects(a, b) ==
    /\ Idle
    /\ Edit({a, b})
    /\ op' = Op("swap", a, b)
    /\ object_cache' = get_object_handle(object_cache, {a})
    /\ stack' = <<Frame("resolve", a, 0, FALSE)>>
    /\ UNCHANGED <<objects, attempt_recovery, table, allocated, resolving,
                   resolved_object_streams, fixed_dangling_refs, walk>>

SwapSecond ==
    /\ op.kind = "swap" /\ stack = <<>>
    /\ op' = Op("exchange", op.a, op.b)
    /\ object_cache' = get_object_handle(object_cache, {op.b})
    /\ stack' = <<Frame("resolve", op.b, 0, FALSE)>>
    /\ UNCHANGED <<objects, attempt_recovery, table, allocated, resolving,
                   resolved_object_streams, fixed_dangling_refs, walk, edits, edited>>

SwapValues ==
    /\ op.kind = "exchange" /\ stack = <<>>
    /\ op' = Op("idle", 0, 0)
    /\ object_cache' = [object_cache EXCEPT ![op.a] = object_cache[op.b],
                                            ![op.b] = object_cache[op.a]]
    /\ record_allocated_object({op.a, op.b})
    /\ UNCHANGED <<objects, attempt_recovery, table, resolving,
                   resolved_object_streams, fixed_dangling_refs, stack, walk, edits, edited>>

(* remove_object: the row, the handle and the note go.                     *)
drop_allocation(k) == allocated' = allocated \ {k}

RemoveObject(k) ==
    /\ Idle
    /\ Edit({k})
    /\ xref' = [x \in DOMAIN xref \ {k} |-> xref[x]]
    /\ default_xref_entries' = default_xref_entries \ {k}
    /\ object_cache' = [x \in DOMAIN object_cache \ {k} |-> object_cache[x]]
    /\ drop_allocation(k)
    /\ UNCHANGED <<objects, attempt_recovery, reconstructed_xref, resolving,
                   resolved_object_streams, fixed_dangling_refs, stack, walk, op>>

-----------------------------------------------------------------------------
Init ==
    \E d \in Documents :
        /\ objects = d.objects
        /\ attempt_recovery = d.recovery
        /\ xref = d.table
        /\ default_xref_entries = {}
        /\ object_cache = [k \in {} |-> Null]
        /\ allocated = {}
        /\ resolving = {}
        /\ resolved_object_streams = {}
        /\ reconstructed_xref = d.rebuilt
        /\ fixed_dangling_refs = FALSE
        /\ stack = <<>>
        /\ walk = NoWalk
        /\ op = Op("idle", 0, 0)
        /\ edits = MaxEdits - d.edits
        /\ edited = {}

Resolution ==
    \/ AlreadyResolved
    \/ LoopDetected
    \/ Dispatch
    \/ ReadHeaderError
    \/ ReconstructAndRetry
    \/ ReadBody
    \/ EndStreamRead
    \/ EnterObjectStream
    \/ EndObjectStream

Internal ==
    \/ Resolution
    \/ WalkRow
    \/ WalkNext
    \/ WalkEnd
    \/ EnumerateObjects
    \/ AllocateObject
    \/ SwapSecond
    \/ SwapValues

Next ==
    \/ Internal
    \/ \E k \in References :
        \/ GetObject(k)
        \/ Dereference(k)
        \/ ReserveObject(k)
        \/ ReplaceObject(k)
        \/ RemoveObject(k)
    \/ \E a, b \in References : a # b /\ SwapObjects(a, b)
    \/ \E kind \in {"all", "new"} : Prepare(kind)

(* A call into the document runs to its end; the client owes nothing.      *)
Spec == Init /\ [][Next]_vars /\ WF_vars(Internal)

-----------------------------------------------------------------------------
(* Properties.                                                             *)

FrameSet ==
    [fn : {"resolve", "read", "retry", "length", "stream", "members"},
     key : Keys, at : Nat, raw : BOOLEAN]

(* The state stays within its types.                                       *)
TypeOK ==
    /\ IsTable(xref)
    /\ default_xref_entries \subseteq References
    /\ DOMAIN object_cache \subseteq Keys
    /\ \A k \in DOMAIN object_cache : object_cache[k] \in ValueSet
    /\ allocated \subseteq References
    /\ resolving \subseteq Keys
    /\ resolved_object_streams \subseteq References
    /\ reconstructed_xref \in BOOLEAN /\ fixed_dangling_refs \in BOOLEAN
    /\ stack \in Seq(FrameSet)
    /\ IsTable(walk.todo)

(* The marks are exactly the objects whose resolution is on the stack,     *)
(* each once: none is left behind by an error, and no object is resolved   *)
(* inside its own resolution, so the recursion is as deep as there are     *)
(* objects (ResolveMark).                                                  *)
MarksMatchStack ==
    LET marked == {i \in DOMAIN stack : stack[i].fn # "resolve" /\ ~stack[i].raw}
    IN  /\ resolving = {stack[i].key : i \in marked}
        /\ \A i, j \in marked : stack[i].key = stack[j].key => i = j

(* An object read from the file is served only under the number of its own *)
(* header, also when the row led elsewhere.                                *)
ServedUnderOwnNumber ==
    \A k \in DOMAIN object_cache \ edited :
        object_cache[k].kind = "read" => objects[object_cache[k].at].header = k

(* Rows, lengths and object streams as a sound file has them: the object   *)
(* is where its row says and whole, a /Length it refers to is an integer   *)
(* and an object stream lists the member, none of them edited; and the row *)
(* of no other object leads to an object with its number.                  *)
RowObject(j) == objects[xref[j].at]
Indirect(o) == o.body \in {"stream", "objstm"} /\ o.length # 0
Whole(j) ==
    /\ IsRow(j, "uncompressed") /\ xref[j].at # 0
    /\ RowObject(j).header = j /\ RowObject(j).body # "broken"
Claimed(j) ==
    \E i \in DOMAIN xref \ {j} :
        IsRow(i, "uncompressed") /\ xref[i].at # 0 /\ RowObject(i).header = j
Untouched(j) == j \notin edited /\ ~Claimed(j)
Readable(j) ==
    /\ Whole(j)
    /\ Indirect(RowObject(j)) => LET n == RowObject(j).length
                                IN  Whole(n) /\ RowObject(n).body = "int" /\ Untouched(n)
Holds(s, k) ==
    /\ Readable(s) /\ Untouched(s)
    /\ RowObject(s).body = "objstm" /\ k \in RowObject(s).members /\ RowObject(s).bad = 0
SoundRow(k) ==
    /\ Untouched(k)
    /\ IsRow(k, "uncompressed") => Readable(k)
    /\ IsRow(k, "compressed") => Holds(xref[k].at, k)

DeclaredValue(k) ==
    IF IsRow(k, "compressed") THEN Value("member", xref[xref[k].at].at)
    ELSE IF IsRow(k, "uncompressed") THEN Value("read", xref[k].at)
    ELSE Null

(* Whatever the order of first uses, a sound object has the value its row  *)
(* declares: no read, loop or expansion of another object makes it null or *)
(* gives it another value. The client may edit what has a row; it removes  *)
(* none (what that row led to may be cached under another's number).       *)
RowsKept == ~reconstructed_xref /\ edited \subseteq DOMAIN xref
OrderIndependent ==
    RowsKept =>
        \A k \in DOMAIN object_cache \cap References :
            Resolved(object_cache, k) /\ SoundRow(k) => object_cache[k] = DeclaredValue(k)

(* Once prepared, the cache holds every row a reference can name           *)
(* (fix_dangling_references), also when the walk rebuilt the table.        *)
Prepared ==
    fixed_dangling_refs => \A k \in DOMAIN xref \cap References : Resolved(object_cache, k)

(* The note that an object was allocated never outlives its handle.        *)
AllocatedCached == allocated \subseteq DOMAIN object_cache

(* Every call ends.                                                        *)
CallsEnd == ~Idle ~> Idle

(* The doc comment of Pdf::replace_object: outstanding handles observe the *)
(* replacement, and so does the writer. No resolution may overwrite it.    *)
ReplacementKept ==
    [][stack # <<>> => \A k \in DOMAIN object_cache :
            object_cache[k].kind = "new" => object_cache'[k] = object_cache[k]]_vars

(* A replacement is overwritten by nothing but the expansion of the object *)
(* stream that its row names: neither by a read that began before it, nor  *)
(* by one that meets its number in the header of another object.           *)
ReplacementSafe ==
    [][stack # <<>> => \A k \in DOMAIN object_cache :
            object_cache[k].kind = "new" /\ ~IsRow(k, "compressed") =>
                object_cache'[k] = object_cache[k]]_vars

(* As long as no read rebuilt the table, the writer's live view has every  *)
(* value the client stored, wherever replacements, swaps, removals and     *)
(* allocations took it.                                                    *)
LiveUnlessRebuilt ==
    ~reconstructed_xref =>
        \A k \in DOMAIN object_cache :
            object_cache[k].kind \in {"new", "reserved"} =>
                k \in DOMAIN xref \cup default_xref_entries \cup allocated
=============================================================================
