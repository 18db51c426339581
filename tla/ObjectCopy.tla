----------------------------- MODULE ObjectCopy -----------------------------
(***************************************************************************)
(* Copying an object and all it refers to from one document into another   *)
(* (crates/flpdf/src/object_copy.rs). A call first reserves a target       *)
(* object for everything it will copy, following references depth first,   *)
(* then fills the reservations. The map from source to target objects, the *)
(* objects being visited and the ones still to fill stay with the target   *)
(* document between calls, also when a call fails in the middle.           *)
(***************************************************************************)
EXTENDS Naturals, Sequences, FiniteSets

CONSTANTS
    Nodes,        \* the objects of the source, and direct values to copy
    Keys,         \* slots of a dictionary
    Items,        \* slots of an array
    Sources,      \* source documents
    Edits(_),     \* what a client may make of a source
    MaxNumber,    \* i32::MAX: no object number after it
    MaxEdits,
    MaxQueue      \* no call once so many objects wait to be filled

Slots == Keys \cup Items
Kinds == {"dictionary", "stream", "page", "pages", "null", "reserved", "foreign", "unreadable", "direct"}
Routes == {"copy", "stale", "preserve"}

(* A source object: its slots lead to other objects through any number of  *)
(* direct containers; flaw is a direct cycle or a direct stream in them;   *)
(* stale is a lower generation of an object that has a newer one.          *)
Object == UNION {[kind : Kinds, slots : [S -> Nodes], flaw : BOOLEAN, stale : BOOLEAN] : S \in SUBSET Slots}

ASSUME SourcesAssumption ==
    /\ Keys \cap Items = {}
    /\ Nodes # {}
    /\ MaxNumber \in Nat
    /\ MaxEdits \in Nat
    /\ MaxQueue \in Nat
    /\ Sources \subseteq [Nodes -> Object]

VARIABLES
    source,      \* the source document
    target,      \* the objects made in the target, by number
    object_map,  \* source objects and their numbers in the target
    visiting,    \* source objects whose references are being reserved
    to_copy,     \* source objects to fill
    frames,      \* the recursion of reserve_objects
    call,        \* the call in progress or the last one
    blank,       \* history: target objects that are null on purpose
    edits        \* client edits so far

kept == <<object_map, visiting, to_copy>>
vars == <<source, target, kept, frames, call, blank, edits>>

Numbers == 1 .. MaxNumber
Null == [kind |-> "null", slots |-> <<>>, data |-> TRUE]
NewStream == [kind |-> "stream", slots |-> <<>>, data |-> FALSE]
Value == UNION {[kind : Kinds, slots : [S -> 0 .. MaxNumber], data : BOOLEAN] : S \in SUBSET Slots}

Idle == call.phase \in {"returned", "failed"}
Queued == {to_copy[i] : i \in DOMAIN to_copy}
Last == Cardinality(DOMAIN target)

-----------------------------------------------------------------------------
(* reserve_objects                                                         *)

Call(root, route, phase, index, result) ==
    [root |-> root, route |-> route, phase |-> phase, index |-> index, result |-> result]
Ended(phase, result) == Call(CHOOSE n \in Nodes : TRUE, "copy", phase, 0, result)
Frame(n, todo) == [node |-> n, todo |-> todo]
StopsAtPages(route) == route # "preserve"

(* A dictionary's keys with a null are not there.                          *)
Visible(n) == {s \in DOMAIN source[n].slots : s \in Keys => source[source[n].slots[s]].kind # "null"}

(* reserve_children                                                        *)
Children(n) == {source[n].slots[s] : s \in Visible(n)}

Top == Len(frames) = 1   \* the client's own object is on the lowest frame

Unreserved(n) ==
    \/ call.route = "stale" /\ ~Top /\ source[n].kind = "null" /\ source[n].stale
    \/ StopsAtPages(call.route) /\ source[n].kind = "pages"
    \/ n \in visiting

(* Faulty variants: the client's page is copied once more, or never again. *)
MappedInside(n) == n \in DOMAIN object_map /\ ~(Top /\ source[n].kind = "page")
MappedForGood(n) == n \in DOMAIN object_map

(* Already mapped, unless it is a page of the client's whose copy is null. *)
Mapped(n) ==
    /\ n \in DOMAIN object_map
    /\ ~(Top /\ source[n].kind = "page" /\ target[object_map[n]].kind = "null")

Rejected(n) == source[n].kind \in {"reserved", "foreign", "unreadable"}
NestedPage(n) == ~Top /\ source[n].kind = "page"

(* Faulty variant: the loop over the children does not advance.            *)
WithAll(k) == frames
Without(k) == [frames EXCEPT ![Len(frames)].todo = @ \ {k}]
Depth == Len(frames)

Fail == call' = Ended("failed", 0)

(* Nothing to reserve below k.                                             *)
Skip(k) ==
    /\ ~Rejected(k)
    /\ source[k].kind # "direct"
    /\ Unreserved(k) \/ Mapped(k)
    /\ frames' = Without(k)
    /\ UNCHANGED <<source, target, kept, call, blank, edits>>

(* An error unwinds the recursion; visiting keeps what was being visited.  *)
Reject(k) ==
    /\ Rejected(k)
    /\ frames' = <<>>
    /\ Fail
    /\ UNCHANGED <<source, target, kept, blank, edits>>

Needs(k) == ~Rejected(k) /\ source[k].kind # "direct" /\ ~Unreserved(k) /\ ~Mapped(k)

Exhausted == Last = MaxNumber

Reserved(k) == k \in DOMAIN object_map

OutOfNumbers(k) ==
    /\ Needs(k)
    /\ ~Reserved(k)
    /\ Exhausted
    /\ frames' = <<>>
    /\ Fail
    /\ UNCHANGED <<source, target, kept, blank, edits>>

Put(f, x, v) == [y \in DOMAIN f \cup {x} |-> IF y = x THEN v ELSE f[y]]

Reservation(k) == IF source[k].kind = "stream" THEN NewStream ELSE Null

Reserve(k) ==
    /\ Needs(k)
    /\ Reserved(k) \/ ~Exhausted
    /\ IF Reserved(k) THEN UNCHANGED <<target, object_map>>
       ELSE /\ target' = Put(target, Last + 1, Reservation(k))
            /\ object_map' = Put(object_map, k, Last + 1)
    /\ IF NestedPage(k)
       THEN /\ frames' = Without(k)
            /\ blank' = blank \cup {Last + 1}
            /\ UNCHANGED <<visiting, to_copy>>
       ELSE /\ visiting' = visiting \cup {k}
            /\ to_copy' = Append(to_copy, k)
            /\ frames' = Append(Without(k), Frame(k, Children(k)))
            /\ UNCHANGED blank
    /\ UNCHANGED <<source, call, edits>>

(* A direct value has no identity: only what it holds is reserved.         *)
ReserveDirect(k) ==
    /\ source[k].kind = "direct"
    /\ frames' = Append(Without(k), Frame(k, Children(k)))
    /\ UNCHANGED <<source, target, kept, call, blank, edits>>

Descend == \E k \in frames[Depth].todo : Skip(k) \/ Reject(k) \/ OutOfNumbers(k) \/ Reserve(k) \/ ReserveDirect(k)

Leave ==
    /\ frames[Depth].todo = {}
    /\ frames' = SubSeq(frames, 1, Depth - 1)
    /\ IF Depth > 1
       THEN visiting' = visiting \ {frames[Depth].node} /\ UNCHANGED call
       ELSE call' = [call EXCEPT !.phase = "replace", !.index = 1] /\ UNCHANGED visiting
    /\ UNCHANGED <<source, target, object_map, to_copy, blank, edits>>

reserve_objects ==
    /\ call.phase = "reserve"
    /\ Descend \/ Leave

-----------------------------------------------------------------------------
(* replace_foreign_indirect_objects                                        *)

Image(n) == IF n \in DOMAIN object_map THEN object_map[n] ELSE 0

(* A key that holds null or has no copy is left out; an item is null.      *)
Copied(n) ==
    [s \in {t \in Visible(n) : t \in Keys => Image(source[n].slots[t]) # 0} |-> Image(source[n].slots[s])]

(* A stream's dictionary is filled in place, some keys after others: a key *)
(* without a copy is removed, and keys of an earlier attempt that the      *)
(* source no longer shows stay.                                            *)
Over(n, some, old) ==
    [s \in (some \cap DOMAIN Copied(n)) \cup (DOMAIN old \ (some \cap Visible(n))) |->
        IF s \in some \cap DOMAIN Copied(n) THEN Copied(n)[s] ELSE old[s]]
Filled(n, old) ==
    IF source[n].kind = "stream"
    THEN [kind |-> "stream", slots |-> Over(n, Visible(n), old.slots), data |-> TRUE]
    ELSE [kind |-> source[n].kind, slots |-> Copied(n), data |-> TRUE]

Current == to_copy[call.index]

IntoStream(n) == source[n].kind = "stream" /\ target[object_map[n]].kind = "stream"

(* A direct cycle or a direct stream in it, something unreadable, or a     *)
(* stream whose reservation is none.                                       *)
Unfillable(n) ==
    \/ source[n].flaw
    \/ source[n].kind = "unreadable"
    \/ \E s \in DOMAIN source[n].slots : source[source[n].slots[s]].kind = "unreadable"
    \/ source[n].kind = "stream" /\ ~IntoStream(n)

Replace ==
    /\ call.index <= Len(to_copy)
    /\ ~Unfillable(Current)
    /\ target' = [target EXCEPT ![object_map[Current]] = Filled(Current, @)]
    /\ blank' = IF source[Current].kind = "null" THEN blank \cup {object_map[Current]}
                ELSE blank \ {object_map[Current]}
    /\ call' = [call EXCEPT !.index = @ + 1]
    /\ UNCHANGED <<source, kept, frames, edits>>

(* Faulty variant: the queue of a failed call is forgotten.                *)
QueueForgotten == <<>>
QueueKept == to_copy

(* The call fails, a stream may have got some of its keys, and all stays   *)
(* queued.                                                                 *)
ReplaceFails ==
    /\ call.index <= Len(to_copy)
    /\ Unfillable(Current)
    /\ Fail
    /\ IF IntoStream(Current)
       THEN \E some \in SUBSET Visible(Current) :
              target' = [target EXCEPT ![object_map[Current]].slots = Over(Current, some, @)]
       ELSE UNCHANGED target
    /\ to_copy' = QueueKept
    /\ UNCHANGED <<source, object_map, visiting, frames, blank, edits>>

(* The number of the copy, or null for a page tree node; a direct value is *)
(* built last, and fails then.                                             *)
Finish ==
    /\ call.index > Len(to_copy)
    /\ to_copy' = <<>>
    /\ IF source[call.root].kind = "direct" /\ source[call.root].flaw THEN Fail
       ELSE call' = Ended("returned", Image(call.root))
    /\ UNCHANGED <<source, target, object_map, visiting, frames, blank, edits>>

replace_foreign_indirect_objects ==
    /\ call.phase = "replace"
    /\ Replace \/ ReplaceFails \/ Finish

-----------------------------------------------------------------------------
(* The client: copy_foreign_object, copy_foreign_object_for_preserve,      *)
(* copy_foreign_value, and edits of either document between calls.         *)

Poisoned == visiting # {}

RouteOf(n) == IF source[n].kind = "direct" THEN Routes \ {"preserve"} ELSE Routes

copy_foreign_object(n, route) ==
    /\ Idle
    /\ Len(to_copy) <= MaxQueue
    /\ IF Poisoned
       THEN Fail /\ UNCHANGED frames
       ELSE /\ call' = Call(n, route, "reserve", 0, 0)
            /\ frames' = <<Frame(n, {n})>>
    /\ UNCHANGED <<source, target, kept, blank, edits>>

EditSource ==
    /\ Idle
    /\ edits < MaxEdits
    /\ source' \in Edits(source) \cap [Nodes -> Object]
    /\ edits' = edits + 1
    /\ UNCHANGED <<target, kept, frames, call, blank>>

ClearTarget(m) ==
    /\ Idle
    /\ edits < MaxEdits
    /\ target[m].kind = "page"
    /\ target' = [target EXCEPT ![m] = Null]
    /\ blank' = blank \cup {m}
    /\ edits' = edits + 1
    /\ UNCHANGED <<source, kept, frames, call>>

Init ==
    /\ source \in Sources
    /\ target = <<>>
    /\ object_map = <<>>
    /\ visiting = {}
    /\ to_copy = <<>>
    /\ frames = <<>>
    /\ call = Ended("failed", 0)
    /\ blank = {}
    /\ edits = 0

Copying == reserve_objects \/ replace_foreign_indirect_objects

Next ==
    \/ \E n \in Nodes : \E route \in RouteOf(n) : copy_foreign_object(n, route)
    \/ reserve_objects
    \/ replace_foreign_indirect_objects
    \/ EditSource
    \/ \E m \in DOMAIN target : ClearTarget(m)

Spec == Init /\ [][Next]_vars /\ WF_vars(Copying)

-----------------------------------------------------------------------------
(* Properties.                                                             *)

TypeOK ==
    /\ source \in [Nodes -> Object]
    /\ DOMAIN target = 1 .. Last /\ Last <= MaxNumber /\ \A m \in DOMAIN target : target[m] \in Value
    /\ DOMAIN object_map \subseteq Nodes /\ \A n \in DOMAIN object_map : object_map[n] \in DOMAIN target
    /\ visiting \subseteq DOMAIN object_map
    /\ Queued \subseteq DOMAIN object_map
    /\ \A i \in DOMAIN frames : frames[i].node \in Nodes /\ frames[i].todo \subseteq Nodes
    /\ call \in [root : Nodes, route : Routes, phase : {"reserve", "replace", "returned", "failed"},
                 index : Nat, result : 0 .. MaxNumber]

(* Two objects of the source never share a copy, and no object of the      *)
(* target is made for none.                                                *)
OneCopyEach ==
    /\ \A n, k \in DOMAIN object_map : object_map[n] = object_map[k] => n = k
    /\ \A m \in DOMAIN target : \E n \in DOMAIN object_map : object_map[n] = m

(* A call that returns its copy has left no reservation unfilled, whatever *)
(* failed in the middle before it and whatever the client changed since:   *)
(* every object of the map has its value, except pages met inside a graph, *)
(* which stay null until a client copies them, copies of null, and pages   *)
(* that the client cleared. No object is copied twice.                     *)
HasValue(v) == v.kind # "null" /\ (v.kind = "stream" => v.data)
NothingLeftReserved ==
    /\ OneCopyEach
    /\ call.phase = "returned" =>
        \A n \in DOMAIN object_map : HasValue(target[object_map[n]]) \/ object_map[n] \in blank

(* When a call ends, all it filled refers to the copies of what the source *)
(* refers to, cycles and objects reserved later in the traversal included; *)
(* only what has no copy is left out of a dictionary. A page that the      *)
(* client asked for has its value, even if another copy reserved it as     *)
(* null or the client cleared it before.                                   *)
RefersAlike(n) ==
    \A s \in DOMAIN source[n].slots :
        LET k == source[n].slots[s]
            copy == target[object_map[n]].slots
        IN /\ k \in DOMAIN object_map /\ s \in Visible(n) => s \in DOMAIN copy /\ copy[s] = object_map[k]
           /\ k \notin DOMAIN object_map /\ s \in Items => s \in DOMAIN copy /\ copy[s] = 0
           /\ k \notin DOMAIN object_map /\ s \in Keys \cap Visible(n) => s \notin DOMAIN copy
CopyFaithful ==
    [][call'.phase = "returned" /\ call.phase = "replace" =>
          /\ \A n \in Queued : RefersAlike(n)
          /\ source[call.root].kind = "page" => target[call'.result].kind # "null"]_vars

(* What earlier calls completed keeps its identity and is not filled       *)
(* again: the client may have changed it since.                            *)
EarlierCopiesKept ==
    [][\A n \in DOMAIN object_map :
          /\ n \in DOMAIN object_map' /\ object_map'[n] = object_map[n]
          /\ n \notin Queued /\ target[object_map[n]].kind # "null" => n \notin Queued']_vars

(* Every call returns, on cyclic graphs as well.                           *)
CallsEnd == ~Idle ~> Idle
=============================================================================
