# A verification project for flpdf

flpdf is a pure-Rust port of qpdf: it opens a PDF file, keeps its objects in a
lazily filled cache, lets a client edit them, and writes the result. This
directory holds TLA+ models of its core, the TLC configurations that check them
on small instances, and TLAPS proofs of their main invariants for every
instance. `PROJECT.json` maps every definition to the lines it models, and lists
the runs, the hazards and the theorems.

The whole library is single-threaded (`Rc`/`RefCell`). What makes it hard is not
threads but *re-entrancy* (reading one object reads others in the middle),
*laziness* (what an object is may depend on what was used first), *recovery*
(a failure in the middle of a read rebuilds the table everything else is using),
*cycles* in the input, *cursors and caches* that outlive what they refer to,
*callbacks* that may change the document while it is written, promises that are
written before what they are about (linearized files), and *numeric limits*
(object numbers end at `i32::MAX`).

## 1. Inventory

All paths are under `src/crates/flpdf/src/` unless they say otherwise.

| Component | State it keeps | Operations | Interacts with | What makes it correct |
|---|---|---|---|---|
| Cross-reference loading (`xref.rs`) | raw rows, deleted numbers, trailer, visited sections | read a table or stream section, follow `/Prev` and `/XRefStm`, rebuild from the object lines, re-read a candidate stream | calls the resolver's registration; is called again by it during a read | the newest row of every object wins; free rows hide older ones; every load ends; one rebuild; the newest trailer stays |
| Resolver and cache (`reader/resolver.rs`) | rows, default rows, one handle per object, allocation notes, resolve marks, expanded streams, prepared flag | resolve, read at an offset, expand an object stream, prepare, allocate, reserve, replace, swap, remove | called back by every handle's first use; calls the loader to rebuild | an object's value does not depend on the order of first uses; marks balance; edits survive reads |
| Object handles (`object_handle.rs`) | shared value cell with owner and identity | dereference, typed access, mutation | the resolver | identity is stable, one value per number |
| Name and number trees (`nntree.rs`) | nodes in the document, client cursors | find, insert, remove, iterate, repair | allocates objects through the resolver | an ordered map; exact limits; live cursors; nothing lost in a repair |
| Tokenizer, parser (`tokenizer.rs`, `parser.rs`) | token state, container stack, error count | next token, parse object | resolver (handles for references) | every input ends; tokens partition the input |
| Page tree (`pages.rs`, `pages/*`, `page_*`) | cached page list and position map | traverse, flatten, insert, remove, splice | resolver, object copying | cache equals tree; no page twice; loops cut |
| Object copying (`object_copy.rs`) | map from foreign to local objects, reserved objects | reserve, copy, replace | two resolvers | graph isomorphic to the source, each object once, no reservation left |
| Writer (`writer.rs`, `writer/*`) | object queue, renumbering, stream assignment, offsets | enqueue, unparse, write table/stream | resolver's live view | every reachable object once, offsets right, references closed |
| Linearization (`linearization/*`), optimization (`optimization*`) | user maps, parts, hint tables, two-pass layout | plan, renumber, write, back-patch, check | writer | parts partition the objects; the second pass reproduces the first; hints agree with the file |
| Pipelines, filters (`pipeline/*`, `stream_filter.rs`) | per-stage buffers | write, finish | writer, resolver | encode/decode inverse under any chunking; finish once |
| Encryption (`encryption/*`) | keys, per-filter methods | authenticate, derive, encrypt/decrypt | resolver, writer | right method for each string and stream |
| Forms and annotations (`acroform_document_helper.rs`, `form_field_*`, `page_annotation_flatten.rs`) | field/annotation maps | map, copy, rename, flatten | page tree, copying | maps stay inverse of each other |
| Attachments, outlines, labels (`embedded_files.rs`, `outline_*`, `page_label_*`) | trees | clients of the trees | nntree | label ranges over joined documents |
| JSON (`json/*`, `document_json.rs`, `json_inspect.rs`) | reactor states | import, export | resolver | import of an export is the identity on objects |
| QDF repair (`qdf_fix.rs`) | line state machine | fix | none | offsets of the output are right |
| Jobs (`job/*`), command line (`src/crates/flpdf-cli`) | configuration, stage results | parse arguments, run stages | everything above | stage order, exit status, page ranges |

`PROJECT.json` lists the same components with their status, and under
`hazards` the places where this code is hard to test, each with the properties
that would catch it going wrong.

## 2. Modules

```
XrefLoad  <- MCXrefLoad            opening a file
          <- XrefLoadProofs
Resolver  <- MCResolver            the opened document: reads and edits
          <- ResolverProofs
BinarySearch <- NNTree <- MCNNTree name and number trees
             <- BinarySearchProofs
OrderedMap   <- NNTree (INSTANCE)  what they promise
ObjectCopy <- MCObjectCopy         copying objects between documents
          <- ObjectCopyProofs
PageTree  <- PageTreeView <- MCPageTree   the page list and its edits
          <- PageTreeProofs
PageList  <- PageTreeView (INSTANCE)      what the page operations promise
Writer    <- MCWriter              the plain full rewrite
          <- WriterProofs
LinearNumbers <- LinearizedWrite <- MCLinearizedWrite   linearized files
                             <- LinearizedWriteProofs
Induction <- XrefLoadProofs, BinarySearchProofs, PageTreeProofs, LinearizedWriteProofs,
             WriterProofs          induction in a form the provers can use
```

### XrefLoad

One action per step of the loader: `ParseStartxref`, `EnterSection`, one action
per row of a table or stream, the end of either, the deferred free rows,
`FollowPrev`, the end of the load, and for recovery `BeginReconstruction`, one
action per object line, `EndScan`, and the re-read of the candidate stream
(the same section actions with `reentry` set, then `FinishReentry`).
`raw_entries` and `deleted_objects` are the fields of `XrefRegistrationState`.
The bytes a row points at do not matter to the loader; an entry therefore
records the *place it was read from* (section and row), which is what tells the
newest row from an older one. A file is a constant: its sections by offset, its
object lines, whether a trailer line exists, and its startxref. Undecodable
rows, bad heads, missing trailers and every kind of `/Prev` are part of it.

Not modelled: `/Prev`, `/Size` and `/XRefStm` given as references that are
resolved during the load, warnings, the `/Size` plausibility warning, and the
window arithmetic of the byte source.

### Resolver

The stack of frames stands for the recursion of the code: a frame is a call in
progress (`resolve`, `read`, the `retry` after a rebuild, a stream waiting for
its `/Length`, a member waiting for its object stream, a stream's members being
installed), so a re-entrant call is a pushed frame and everything the code keeps
across the call is in the frame. `Return` is the drop of `ResolveMark`. `walk`
is the loop of `resolve_xref_table` over its snapshot. The client's operations
are actions that can begin when no call is in progress; `swap_objects`, which
resolves its two objects one after the other, is three actions.

Values are abstracted to where they came from: read at a position, a member of
the stream at a position, null, reserved, or the n-th value the client stored.
Keys are object numbers; generation 0 throughout, except that a negative key
stands for a row whose generation no reference can name, which only the walk
meets. `Found`/`LastLines` say what the scan of the loader leaves for an opened
document; XrefLoad has its details.

Not modelled: decryption, I/O errors, warnings, references inside the members of
object streams, `discard_cached_generations`, the order list of allocations, and
a change of the recovery option after opening.

### NNTree, OrderedMap, BinarySearch

A tree is a function from object numbers to nodes; every public call of
`NameTree`/`NumberTree` and of their cursors is an action, computed by operators
that follow the code's functions (`find_internal`, `descend`, `increment`,
`reset_limits`, `split_node`, `remove_empty_leaf`, `repair`). `OrderedMap` is
the abstract specification: a finite map, a cursor at a key or at the end, and
calls that may only be refused for lack of object numbers. `NNTree` implements
it (`OrderedMapSpec`). `call` and `view` are derived from the step and the other
variables (the call made, and the map, cursor key and soundness the client could
observe); the runs leave them out of the state with a `VIEW`.
`BinarySearch` is the probing loop that finds a key in a node's array
(`binary_search`), by itself and without recursion: its turns are a
recursive function, so that it can be proved about.

Not modelled: kids that are direct objects and are made indirect first, arrays
of odd length, `max_depth`, the check that a handle belongs to the document, and
cursors that another removal made stale (the API leaves these to its callers;
`kids.values.remove` in `remove_empty_leaf` trusts them).

### ObjectCopy

`copy_foreign_object`, its variants for preserved and for stale objects, and
`copy_foreign_value`. A call reserves target objects depth first (`frames` is the
recursion of `reserve_objects`), then fills them (`replace_foreign_indirect_objects`).
`object_map`, `visiting` and `to_copy` are the fields of the copier that stay with
the target document between calls, also after a failure in the middle: a failed
reservation leaves `visiting` non-empty and refuses every later call, a failed
replacement leaves the queue, and the next call fills it again. A source object
is its kind and its references; `flaw` stands for a direct cycle or a direct
stream inside it, which only the filling detects. The client may mend or change
the source, and clear a copied page in the target, between calls. Stream data is
"copied or not"; whether a provider's data is read later does not matter here.

### PageTree, PageTreeView, PageList

The calls of `PageDocumentHelper` and `Pdf` on the page tree: `get_all_pages`,
`push_inherited_attributes_to_pages`, `add_page`, `add_page_at`, `remove_page`,
`rebuild_page_tree`, `update_all_pages_cache`. A call walks up to the root
(`FindRoot`), repairs the tree kid by kid (`RepairNode`, `RepairPage`), caches the
list, and before an edit pushes the inherited attributes down key by key
(`PushKey`, `PushKid`) and flattens. Each is a step of its own, because each can
fail (a loop, a wrong `/Count`, no object numbers) and leaves what it did so far
in the document, in `page_list_cache` and in `page_tree_flattened`. Positive
numbers are objects, negative ones direct dictionaries. Two of the four
inheritable keys are kept: `/MediaBox`, which the repair adds, and `/Resources`,
which it does not. The dictionaries refer to dictionaries of the document, and one
without `/Kids` has no kids (`AreDictionaries`); a client that changes the tree by
itself keeps to that. A client gives pages to an edit, new ones or those of the
document, but never the root of the tree.

`PageTreeView` defines what any reader sees of the tree (the pages in document
order with the attributes that hold for them, and, during a push, the values the
push holds), and shows that the calls implement `PageList`: a list of pages
changes by exactly the edit that was asked for, at the moment of the edit, and
never by a repair, a push, a flattening or a failure.

The push enters only nodes that are `/Type /Pages` (`IsPages`). The repair gives
that type to every node with `/Kids`, so this matters for a root without them,
which keeps its attributes. `rebuild_page_tree` makes objects of the direct values
of the tree's nodes and then, page by page, of those that a page lacks and finds
along `/Parent` (`Promotions`); when the numbers end in the middle of this, the
objects made so far stay (`HalfPromoted`).

Not modelled: the job variants that work on trees that are flat already,
`page_splice.rs`, page extraction, the page object helper, and that a copied page
shares its direct values with the original until one of them is made an object.

### Writer

`PdfWriter::write` on the plain route. `Setup` decides the membership of object
streams (disable, preserve, generate); the body takes one object after another
from the live queue. A reference that is unparsed for the first time numbers its
object and appends it to the queue (`EnqueueHandle`); a member enqueues its
container, up the chain of containers with the marks of the code that are never
taken back. A container is written in two passes over its members, one action
per member and pass. Before each object the progress reporter may call back, and
the callback may add or remove references anywhere in the document. QDF streams
have a length holder behind them; `WriteXref` writes the rows and the trailer, whose
references a callback may have attached too late. The output may fail before
any step of the body. `out` is the file as a sequence of items; an offset is an index in it. A
written reference carries the source object it stands for, which is how the
properties can tell that it leads to the right one. `WriterAssumption` says only
that documents are documents (`IsDocument`: references lead to objects, members
are held by objects, the catalog is a dictionary): cycles, nested and mutually
holding containers, shared objects and dangling nulls are all allowed.

Not modelled: more than one generation of a number and removed references, PCLm,
content normalization, `/ID`, a direct `/Root`, the incremental route, the guard
against a second write, the preparation of options, and the bytes themselves.

### LinearNumbers, LinearizedWrite

`LinearNumbers` is the numbering of `renumber.rs` as operators on a plan: the
parts in file order, the second half first, the placement of generated and of
source containers among the plain objects, the members last in each half, and
the slot of the encryption dictionary. `LinearizedWrite` writes the body twice:
`WriteClassicFront` or `WriteStreamFront`, then section by section one action per
object or container, with a progress callback that may change the size of an
object, the hint stream, and `EndPass`. `BuildHints` between the passes computes
the page-offset hints, moves the offsets behind the hint stream and patches the
parameter dictionary. Only lengths and positions are kept. `Radix` (256) and
`Wide` (4 bytes) are the widths of cross-reference stream fields; the instance
makes them small so that positions cross a width. `Power[8]` is where a 64-bit
offset ends. `NumberingAssumption` states what `renumber.rs` leaves for the writer
(`Numbered`: every number stands for one thing, the second half has the low
numbers, a first page exists); TLC evaluates it for each of the plans.

Inputs rather than actions: the partition of the objects into parts and the
anchors of the containers (`plan.rs`). Not modelled: objects that the
optimization adds, the shared-object and outline hint tables and their bit
encoding, a changing width of `/ID`, the digit limits of the placeholders,
compression of the cross-reference streams, and callbacks that add references.

## 3. Runs

| Run | Checks | Bounds |
|---|---|---|
| `xref_load` | `ChainTable`: a load without recovery ends with the declaratively defined newest-first table; `RecoveredTable`: a rebuilt table is what the object lines and the surviving rows prescribe; `TypeOK`, `SingleGeneration`, `DocumentReady`; `TrailerStable`; `Terminates` | three section offsets, two objects, generations 0..2 with 2 the first that is no reference; up to two rows per section; all `/Prev` values, loops included |
| `resolver` | `TypeOK`, `MarksMatchStack`, `ServedUnderOwnNumber`, `OrderIndependent`, `Prepared`, `LiveUnlessRebuilt`, `ReplacementSafe`, `CallsEnd` over every order of first uses and edits | three objects at three positions: right, swapped, missing, free and zero rows, broken objects, indirect lengths, object streams in object streams, loops; without edits on all of these documents, and with any two edits on a smaller family (a document says how many its client may make); `MaxNumber` 3 so that numbers run out |
| `resolver_zero` | violation of `Prepared` (finding 1) | one document with a row for object 0 |
| `resolver_replace` | violation of `ReplacementKept` (finding 2) | one edit |
| `nntree_sound` | `TreeSound`, `CursorLive`, `NeverOutOfNumbers`, `SearchExact`, and the refinement `OrderedMapSpec` | threshold 2, keys 1..5, up to ten objects, from a full three-level tree down to the empty one and back |
| `nntree_damaged` | `RepairExact`, `FailureKeepsEntries` | nine damaged trees, keys 1..4, six objects |
| `object_copy` | `NothingLeftReserved`: after a call that returns nothing is still reserved, whatever failed before, and nothing is copied twice; `CopyFaithful`: the copies refer to each other as the originals do; `EarlierCopiesKept`; `CallsEnd` | four nodes in every cyclic shape of the kinds a copy treats differently, three numbers, one edit, any sequence of calls |
| `page_tree` | `KnownExact`: a cached list and the flat flag tell the truth after any call, failed ones included; `CountExact`; `CallsEnd`; the refinement `PageListSpec`; `FlatBare`: a tree that becomes flat has nothing to inherit left on its root, unless the root is not `/Type /Pages` | fifteen documents, two calls, seven numbers |
| `page_tree_end` | violation of `AddedAtEnd` (finding 4) | the same |
| `writer` | `RowsExact`, `ReferencesLead`, `NothingLost`: the finished file, read back through its rows, is the document; `SoundSucceeds`; `WriteEnds` | eight documents of three to five objects, all 24 option sets, containers of two, one change by a callback |
| `linearized` | `RowsExact`, `ParamsExact`, `HintsExact`: what the front promised is true of the finished file; `SoundSucceeds` | four plans of 12 to 18 objects, encrypted or not, two lengths of the hint stream, two changes of size |
| `linearized_length` | violation of `LengthExact` (finding 3) | the same |

Why the bounds are enough. In `xref_load` three sections allow a newest, a
middle and an oldest revision, a hybrid between two tables, and loops of length
one to three; two rows of one number in one section meet each other and the
tombstones. In the resolver three objects allow a stream, its object stream and
the length of either, hence nesting of depth three and cycles of length one to
three; one rebuild is all the code permits; two edits make every ordered pair of
operations meet, with reads between them. In the trees a threshold of two makes
one insertion split a leaf, an inner node and the root; the model's threshold
counts entries, where the code compares the length of the array of keys and
values with twice the threshold. `SearchExact` covers every array length up to
33 (`LargestArray`), one past the default threshold of 32; `SearchRight` has the
other lengths. No
code path looks at a value: at most one entry has the second one, in trees of at
most three entries (`Small`). Object numbers are only names, so trees of the same
shape with the same largest number are one state (the `UpToNames` view).

In `object_copy` two mutually referring objects, a third that is bad or null and a
page-tree node or direct value are what `reserve_objects` distinguishes; the
queue is at most two objects long when a call starts (`MaxQueue`), which allows a
retry that fails again. In `page_tree` two calls suffice for "a failure, then an
edit", since all that outlives a call is the document, the list and the flag; with seven
numbers the repair, the push and the promotion of values run out. In `writer` every object is
reported to the callback (fewer than 100 objects), so a single change meets every
point between two objects and between the passes of a container. `linearized`
keeps widths in base 11, so that files of about a hundred bytes have offsets of
one, two and three digits, and both lengths of the hint stream occur on either
side of such a boundary.

Every property has a mutant in `PROJECT.json`: a plausible fault of the code,
kept in the module as a "faulty variant" beside the definition it replaces,
that makes TLC report the property.

Fairness. `XrefLoad` has weak fairness of `Next` and `Resolver` of its internal
actions: one thread runs a call to its end, so a step of a call in progress
cannot be postponed for ever. The same reason gives weak fairness of `Copying` in
`ObjectCopy`, of `Work` in `PageTree` and of a write's own steps in `Writer`.
Nothing is assumed of the client. `NNTree` and `LinearizedWrite` check no
liveness: a call of the first is one step, and the second removes a number from
a finite set at every object.

Deadlock is not checked for `XrefLoad`, which stops at `loaded` or `failed`, nor
for `ObjectCopy` and `PageTree`, whose clients stop at the bounds on calls, edits
and the queue. `Writer` and `LinearizedWrite` have a step `Finished` that
stutters when the write is over, and are checked for deadlock before that.

## 4. Findings

1. `resolver_zero`. In `resolve_xref_table` the branch for object (0,0)
   continues without testing whether its read rebuilt the table (`resolver.rs`
   1763-1789; the two other branches test it). If object 0's row leads to a
   stream whose `/Length` is damaged, the nested read rebuilds the table, the
   walk finishes over the old snapshot, and the cache is marked prepared without
   the objects that only the rebuilt table has. The comment above the function
   says that the walk is rerun.
2. `resolver_replace`. Expanding an object stream overwrites members that the
   client has replaced (`resolver.rs` 2955), while the documentation of
   `Pdf::replace_object` (`reader.rs` 1322-1336) says that outstanding handles
   and the writer observe the replacement. `ReplacementSafe` is what does hold:
   nothing else overwrites one.
3. `linearized_length`. The main cross-reference stream is padded to a region
   computed from the widths of the pass that writes it
   (`linearization/writer.rs` 2094-2109). If the hint stream moves the stream past
   a power of 256, the field, and with it the region, is wider in pass 2, and the
   file is longer than the `/L` that was computed from pass 1. The comment at
   2088-2090 says that the length does not change. `ParamsExact` states what
   holds: `/L` is exact when both offsets need the same width.
4. `page_tree_end`. The documentation of `add_page` says that the page is added at
   the beginning or the end of the document (`page_document_helper.rs` 177). The
   index of the end is the `/Count` of the node that the catalog names, read
   before the repair and the search for the root (192-196). If the catalog names
   an inner node, or if a call before failed because the root's `/Count` was
   wrong, the page lands in the middle. `PageListSpec` therefore asks for the end
   only where that `/Count` was the number of pages, and leaves the place open
   otherwise.

Noted while modelling, and not checked by a run of their own:

- The rows of a candidate stream are merged by exact key and filtered by deleted
  numbers (`xref.rs` 3058), so a row of the object scan can be dropped; the
  comment at `xref.rs` 2873 says that the scan's rows are kept by number.
- Type-0 rows that an object stream's header creates during the preparing walk
  are not in the walk's snapshot, so the prepared cache lacks their handles.
- `replace_object` and `swap_objects` note an allocation only where no row exists.
  If a later read rebuilds the table without that row, the replaced object is in
  neither the table nor the notes and the live view loses it. `LiveUnlessRebuilt`
  states what holds without such a rebuild.
- An object dereferenced as null before a rebuild stays null after it.
- The attribute push does not enter a direct `/Pages` node below an indirect one
  (`optimization/inherited_attrs.rs` 364), so pages below it get no inherited
  attributes and the flattening loses them. `MCPageTree` has direct nodes below
  direct ones only.
- `rebuild_page_tree` on a root that is neither `/Type /Pages` nor has `/Kids`
  makes it the `/Pages` root of the new tree and leaves its inheritable
  attributes on it, since `collect_page_tree_frame` did not take it for a node of
  the tree (`pages/tree_rebuild.rs` 276-278, 643-655). The comment at 22-24 says
  that the retained root no longer carries them. `FlatBare` states what holds: a
  root that was `/Type /Pages` keeps none.
- Where a page's `/Parent` is not the node that lists it, the values it inherits
  differ between the push, which goes down `/Kids`, and `rebuild_page_tree`, which
  goes up `/Parent`. `MCPageTree` has one such document (`Outside`), for the
  objects that are made of values outside the tree; there both ways find equal
  values. What a page should inherit where they differ is not claimed.
- In QDF a member of an object stream that refers to the source's own
  cross-reference stream, which QDF ignores, makes the write fail
  (`writer/plain/body.rs` 1721), although the comment at 61-62 describes a null
  reference. `Sound` in `Writer` leaves out QDF writes of documents that have both
  object streams and such a stream.
- Containers of the first half take recorded numbers by position
  (`linearization/renumber.rs` 1006, 1244, 1342), so containers that the walk
  emitted in another order exchange their slots, against the documentation at
  156-158.
- A source container of the first page with a number below the page's is placed
  before the page object (`renumber.rs` 1204-1250).
- Between the passes of a linearized write only the main section's offset is
  compared (`linearization/writer.rs` 3224): two changes of size that cancel out
  leave wrong offsets in the front without an error. The properties say
  `Repeated` where they need it.

## 5. Proofs

The proofs hold for every value of the constants: every file and document (any
number of sections, rows, objects and positions), every object-number limit and
every number of edits. They assume only the types stated by the named `ASSUME`s,
which TLC evaluates on its instances.

`XrefLoadProofs`: `TypeCorrect`, `TrailerKept`, `LoadedReady`, `LoadedSingle`, `ChainRight`, `RecoveryExact`. The invariant behind them
(`LoadInv`) adds to the types what is true in the middle of a load: where in the
chain a trailer is already known, that nothing but the snapshot of
`BeginReconstruction` feeds the scan, and that after n lines the table is what
the first n lines leave. The last is needed because `RecoveredTable` speaks only
of the end. `ChainRight` needs the same along a chain (`ChainInv`): the table so
far is the declared table of the part of the chain that was read, and the
deferred rows are those of the section being read. `ChainTable` defines that part
by following `/Prev` as often as there are offsets, so the proof has to show that
a chain that repeats no section is never longer than that; for this the set of
`Offsets`, positions in a file, is assumed to be finite.

`BinarySearchProofs`: `SearchRight`. The loop keeps the place of the target in a
bracket around the index that is as wide as the last step to either side
(`SearchInv`); the steps are powers of two, and the number of turns left and the
counter that ends the loop add up to at most the rounded size. When the step is
one, the last probe decides between the index and the one below it (`LastProbe`).
The sizes that the rounding goes through (`DoublingsAre`, `PowersAre`) and the
turns of the loop (`TurnsAre`) get their values by induction.

`ResolverProofs`: `TypeCorrect`, `MarksExact`, `ServedOwn`, `NotesCached`,
`StoredLive`, `ReplacementsSafe`, `PreparedRight`, `OrderRight`. The argument for all but the last two has two layers.
`CacheStep` says what one step of any resolution may do to the cache: it removes
no handle, stores none of the client's kinds, files an object of the file only
under the number in its header, and changes a replacement only for a member of
an object stream. It is reflexive and transitive, and each of the nine steps is
shown to be one (`...Effect`). On the other side, `Frames` says what each frame
on the stack relies on: where it reads, that the stream it is expanding has a
handle, and that the object it is resolving has not been given a client's value.
`FramesKeep` shows that a `CacheStep` made by the frames above leaves this true,
which is why a nested read cannot disturb an outer one however deep it is.
`MarksOf` relates marks and frames (`MarksPop`, `MarksPush`). `ResolverInv` puts
these together with the soundness of the rows and the state of a swap in
progress; without the frame facts neither `MarksMatchStack` nor
`ReplacementSafe` is inductive, because an error path writes null over the object
of the top frame.

`PreparedRight` and `OrderRight` say what whole reads compute, from how the frames
are nested. For `Prepared` the outermost frame owes its object a value: every
step keeps the values there are, and either leaves that frame or gives its object
one (`Progress`, `Keeps`, `Awaits`). `WalkInv` then says that during the walk every
row that the snapshot no longer holds is resolved or is being resolved
(`Covered`), unless the table was rebuilt and the walk is about to start over
(`RestartDue`). The hypothesis `ZeroUnread`, that the row of object 0 is free or
leads nowhere, as the head of the free list is, is needed: without it the theorem
is false, which is finding 1.

For `OrderIndependent` every frame above the outermost one is the resolution of
what the frame below waits for, a /Length or an object stream (`Nested`); the walk
reads its rows as the table has them (`WalkRows`); a stream that was entered has
given its members their values or is about to (`Expanded`); and what is resolved
and sound has its declared value (`Truthful`). From these a sound object never
meets itself (`NoLoop`) and finds the length or the object stream that it needs
(`LengthOnTop`, `MembersOnTop`). The proof showed what the property has to say of
a sound object: that the object of its /Length, like the object itself and its
object stream, is named by no other object's row, since a read through such a row
would give it a value first (`Claimed`). Documents of three objects do not show
this. `RowsKept` excludes a rebuilt table and the removal of a row, after which
what the row led to may be cached under another number while nothing claims it
any more.

`ObjectCopyProofs`: `TypeCorrect`, `ReservationsFilled`, `CopiesFaithful`,
`EarlierKept`, `NoneMarkedWhenFilling`. The invariant (`CopyInv`) says at every
step which objects are settled: an object of the map is filled, or queued for
this or a later call, or (a page that was only mentioned) blank on purpose
(`Settled`); what this call has filled refers to the images of what its source
refers to (`FilledAlike`); a mark is on an object only while a frame visits it
(`WorkOK`); the map is one to one (`Maps`); and the page that the client asked
for is filled or queued (`RootInHand`). `NothingLeftReserved` speaks only of a call's end and
holds for retries because `Settled` survives failures. `NoneMarkedWhenFilling`
shows that an internal error of the code (302-304) is never raised.

`LinearizedWriteProofs`: `LayoutSound`, `ParamsRight`, `RowsRight`, `HintsRight`, `SoundWrites`.
`LinearInv` has three parts. `FirstPass`: each section is laid out one number
after the other without a gap (`Laid`), from where the previous one ended.
`SecondPass`: what is still to be written keeps the length of pass 1; while all
lengths do (`Repeated`), the offsets that were moved by the length of the hint
stream describe the second pass, and the output is always where the next object
is expected (`Expected`). `Shape` has the types. `RowsInv` adds that the rows of
the front have their offsets as soon as they are written, and that the field of
the main section, as wide as its own offset needs, holds every offset in it,
since these are all smaller. The hypotheses are limits of the code: `Short` says
that offsets are below `Power[8]` (`u64`), `Narrow`, for `SoundWrites`, that the
body ends below `Power[Wide]` (4 bytes), the width that pass 1 reserves for the
first-page stream. A longer file fails with "region exceeded", and
`SoundSucceeds` does not hold for it. `HintsRight` compares sums with stretches of
the file: the lengths of a run of numbers that are laid out one after the other
add up to the distance between its ends (`RunLength`, by induction over the run),
and the page lengths of the hints are those of pass 1 (`HintInv`). It assumes that
what is private to a later page has numbers that follow one another in the second
half (`PagesAssumption`): the parts are in the order of the pages, and
`second_half_container_anchors` (`linearization/writer.rs` 3513-3797) anchors a
container by the rank of its page among the plain objects, so it does not come
between the objects of another page.

`PageTreeProofs`: `TypeCorrect`, `ListRight`, `CountRight`, `RootBare`, for every
document, damaged ones with cycles of `/Kids` and `/Parent` and with roots of any
type included, every page that is added and every number of calls. `ListRight`
states `ListKnown`, the part of `KnownExact` that speaks of the document alone: a
flat tree has the list as the kids of its root and the root as their parent. It
says nothing of attributes, because a root that is not `/Type /Pages` keeps its
own; `RootBare` states `FlatBare`, that any other root loses them by the step that
makes the tree flat. `CountRight` states `CountExact`. The invariant (`PageInv`) says

- between calls (`CacheInv`, `FlatInv`), what the next call relies on: the cached
  list is of the tree that the catalog names, its pages are distinct objects
  without `/Kids`, and a flat tree has exactly them as kids. A failed call needs no
  case of its own, since every conjunct holds after each step that can fail;
- during the repair (`InRepair`), that the pages found so far were all seen, so
  that a page that is met twice gets a number of its own, which no object had;
- during the push (`InPush`), that the root is `/Type /Pages` and that the keys it
  still has are among those that are still to be moved: when the root's frame is
  left it has none (`Bare`). The walk may meet the root again below itself, but a
  node of that type gets no values handed down;
- during the edit (`InEdit`), that the tree is flat, so that the kids of the root
  and the list change by the same position.

The walks up `/Parent` (`ParentsAre`, `RootExists`) and down `/Kids`
(`TreeNodesAre`) end by counting the objects and get their values by induction.
For `rebuild_page_tree` the numbers of copies are shown to be new and distinct
(`NumbersAre`, `LeafsAre`), also when values outside the tree take numbers in
between (`PromotionsAre`), and no page selected is the root of the tree that is
made (`RebuiltIs`).

`WriterProofs`: `Invariant`, `RowsRight`, `ReferencesRight`,
`ObjectsKept`, `SoundWrites`, for every document, set of options, container size
and number of changes by callbacks. The four properties speak of a finished
file, so the invariant (`WriterInv`) has to say what is already true while the
queue, the container in hand, the output and the rows are all growing:

- `PlanOK`: the membership is a partition, each member in one container and
  listed there once. It is proved from the three ways in which `Setup` makes it
  (`Splits`, `BatchesFit`, `Plans`).
- `QueueOK`: every number below `next` has one owner, an object or the length of
  one QDF stream (`Numbers`); members are numbered exactly when their container
  is, and only what is no member waits (`Membership`); without nested containers
  a mark is never left on an object without a number. The last is what
  `SoundSucceeds` needs, since a mark that stays is written as `0 0 R`.
- `WorkOK`: the container in hand has been removed from the queue and not yet
  written; the bodies so far are those of its first members, and as long as no
  callback has changed anything the sizes measured in the first pass are those
  of the bodies that the second one writes, which the table of a QDF container
  depends on.
- `FileOK`: each item in the file is right for its object, and the recorded
  offsets and indices are exactly those of the numbers that are settled, neither
  waiting nor in hand; `FileFinal` is the same when nothing waits any more, with
  `/Encrypt` and the cross-reference stream behind the last number.

`Keeps` and `Grows` say what enqueueing does to a queue: numbers are never changed
or taken back, and everything new that is no member waits. They are what
carries the file across a step: a reference written earlier is still right
because the map only grows (`RefsStay`), and the step lemmas (`SetupStep`,
`SeedStep`, `WriteStep`, `EmitStep`, `XrefStep`, `FailStep`) each show one action.
A callback that changes an object is recorded in `edits`, and the conjuncts about
an object's references speak of the objects that are not in it.

`Induction` gives the provers induction. The library's theorems take an operator
as a parameter, which no installed prover can instantiate; `SetInduction`, a tool
of the other proofs, states
the same of a set of numbers, from the well-foundedness of the order, and
`RecursionExists` and `PartialSumsExist` give recursive functions their values;
`LeastExists` gives a set of numbers its least one.

Only model-checked: all liveness (`Terminates`, `CallsEnd`, `WriteEnds`), which
rests on fairness and ENABLED; the name and number trees (`TreeSound`,
`CursorLive`, `NeverOutOfNumbers`, `RepairExact`, `FailureKeepsEntries`) and what
a reader sees of the page tree (`ListSeen` of `KnownExact`), whose definitions
follow the trees with `RECURSIVE` operators and would need induction over trees;
the two refinements, for the same reason. `SearchExact` is stated in `NNTree`, so
`SearchRight` states its content, `SearchSound(count)`, where `BinarySearch`
defines it.

## 6. Plan

Twelve runs are the budget of the project and all are in use, so new components
join existing runs or replace one.

1. Proofs: the page list as a reader sees it (`ListSeen`), for which the view has
   to be stated without recursion; that `Numbered` follows from a partition of the objects into parts.
2. `Linearization`: the partition of the objects by their users and the
   shared-object hints, in place of the plans given to `LinearizedWrite`.
3. `Tokenizer` and `Parser` as state machines; `Pipeline` with chunked writes.
4. `Job`: stages, exit states, page ranges, splits; `AcroForm` maps; JSON import;
   the QDF line machine.

## 7. Not modelled

The sections on the modules say what each leaves out. Whole components without a
module are listed in `PROJECT.json` with the reason: the tokenizer, the
pipelines, jobs, forms, JSON and QDF repair are state machines that the plan
still has; cryptography and codecs are computation without state; formatting and
logging, the linearization check and display, vendored code and test tools change
no state that a property could be about. The models cover the core of a
repository of which the larger part is tests, typed accessors, the command line
and such clients.

## 8. Running it

```
tlc -config XrefLoad.cfg MCXrefLoad
tlc -config Resolver.cfg MCResolver            (and Resolver_zero.cfg, Resolver_replace.cfg)
tlc -config NNTree_sound.cfg MCNNTree          (and NNTree_damaged.cfg)
tlc -config ObjectCopy.cfg MCObjectCopy
tlc -config PageTree.cfg MCPageTree            (and PageTree_end.cfg)
tlc -config Writer.cfg MCWriter
tlc -config LinearizedWrite.cfg MCLinearizedWrite   (and LinearizedWrite_length.cfg)
tlapm XrefLoadProofs.tla
tlapm ResolverProofs.tla
tlapm BinarySearchProofs.tla
tlapm Induction.tla
tlapm ObjectCopyProofs.tla
tlapm LinearizedWriteProofs.tla
tlapm PageTreeProofs.tla
tlapm WriterProofs.tla
```

The last two take about five and ten minutes.
