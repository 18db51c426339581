------------------------------ MODULE XrefLoad ------------------------------
(***************************************************************************)
(* Loading of the cross-reference table of a PDF file (crates/flpdf/src/   *)
(* xref.rs): the newest section named by startxref, the /Prev chain of     *)
(* older sections, hybrid /XRefStm streams, and, when a section cannot be  *)
(* read, the one reconstruction of the table by a scan of the file.        *)
(*                                                                         *)
(* A row's pointer is abstracted to the place it was written at (section   *)
(* and row, or scanned object position): a table entry thus tells which    *)
(* row of the file supplied it.                                            *)
(***************************************************************************)
EXTENDS Integers, Sequences, FiniteSets, Functions

CONSTANTS
    Files,      \* the files that may be opened
    Offsets,    \* the file positions at which a section may start
    ObjNums,    \* object numbers
    Gens,       \* generation numbers
    GenLimit    \* first generation that is no indirect reference (65535)

Keys == ObjNums \X Gens

(* What a row of a section says: "n" in use, "c" compressed, "f" free, "x" *)
(* not decodable.                                                          *)
RowSet == [kind : {"n", "c", "f", "x"}, key : Keys]

(* A section: "none" where no table and no /Type /XRef stream starts. The  *)
(* head is everything checked before the first row; prev and hybrid are    *)
(* /Prev and /XRefStm, 0 when absent and -1 when not an integer.           *)
SectionSet ==
    [form : {"none", "table", "stream"}, head : BOOLEAN, rows : Seq(RowSet),
     trailer : {"ok", "nosize", "bad"},
     prev : Offsets \cup {-1, 0}, hybrid : Offsets \cup {-1, 0}]

(* lines are the "N G obj" lines in file order with the position of their  *)
(* object; trailerLine says whether a line starts with a usable trailer;   *)
(* startxref is 0 when it is zero, missing, malformed or negative, and -1  *)
(* when the number does not fit an integer.                                *)
LineSet == [key : Keys, pos : Nat \ {0}]

FileSet ==
    [startxref : Offsets \cup {-1, 0}, sections : [Offsets -> SectionSet],
     lines : Seq(LineSet), trailerLine : BOOLEAN]

ASSUME OffsetsAssumption == Offsets \subseteq Nat \ {0} /\ IsFiniteSet(Offsets)
ASSUME NumbersAssumption == ObjNums \subseteq Nat /\ Gens \subseteq Nat /\ 0 \in Gens
ASSUME GenLimitAssumption == GenLimit \in Nat
ASSUME FilesAssumption == Files \subseteq FileSet

VARIABLES
    file,           \* the input source
    opts,           \* attempt_recovery and ignore_xref_streams
    pc,             \* where the loader is
    raw_entries,    \* XrefRegistrationState::raw_entries
    deleted_objects,\* XrefRegistrationState::deleted_objects
    trailer,        \* the section whose dictionary is m->trailer; 0 none, -1 scanned
    visited,        \* sections already followed
    cur,            \* the section being read
    row,            \* the next row of it, or the next scanned line
    reconstructed,  \* ResolverCore::reconstructed_xref
    reentry,        \* reading the candidate xref stream of a reconstruction
    pre             \* the reconstruction request's snapshot: preexisting rows, deleted numbers

vars == <<file, opts, pc, raw_entries, deleted_objects, trailer, visited,
          cur, row, reconstructed, reentry, pre>>

-----------------------------------------------------------------------------
(* Tables: functions from a set of keys to entries.                        *)

Places == (Nat \X Nat)
Entry(t, p) == [type |-> t, at |-> p]
EntrySet == [type : {"uncompressed", "compressed", "free"}, at : Places]
EmptyTable == [k \in {} |-> Entry("free", <<0, 0>>)]
IsTable(t) == DOMAIN t \subseteq Keys /\ \A k \in DOMAIN t : t[k] \in EntrySet

With(t, k, e) == [x \in DOMAIN t \cup {k} |-> IF x = k THEN e ELSE t[x]]
Only(t, P(_)) == [x \in {k \in DOMAIN t : P(k)} |-> t[x]]
OrInsert(t, u) == [x \in DOMAIN t \cup DOMAIN u |-> IF x \in DOMAIN t THEN t[x] ELSE u[x]]

(* Whether a raw key is an indirect reference.                             *)
to_object_ref(k) == k[1] >= 1 /\ k[2] < GenLimit

(* qpdf's insertXrefEntry: a number once free takes no older row, and the  *)
(* first row of a key wins because sections are read newest first.         *)
(* Faulty variant: free rows are ignored.                                  *)
insert_ignoring_free(t, del, k, e) == IF k \in DOMAIN t THEN t ELSE With(t, k, e)

insert_xref_entry(t, del, k, e) ==
    IF k[1] \in del \/ k \in DOMAIN t THEN t ELSE With(t, k, e)

(* A free row is only a tombstone on its number, and none where its exact  *)
(* generation is in use.                                                   *)
insert_free_xref_entry(t, del, k) ==
    IF k \in DOMAIN t THEN del ELSE del \cup {k[1]}

(* A scanned object replaces an earlier one of its key. Faulty variant:    *)
(* the tombstones are not consulted.                                       *)
insert_reconstructed_freed(t, del, k, e) ==
    IF ~to_object_ref(k) THEN t ELSE With(t, k, e)

insert_reconstructed_xref_entry(t, del, k, e) ==
    IF k[1] \in del \/ ~to_object_ref(k) THEN t ELSE With(t, k, e)

remove_uncompressed_entries(t) == Only(t, LAMBDA k : t[k].type # "uncompressed")

(* Only the row of the highest generation of a number is kept. Faulty      *)
(* variant: every row is kept.                                             *)
keep_generations(t) == t

discard_lower_generations(t) ==
    Only(t, LAMBDA k : k[1] = 0 \/ \A j \in DOMAIN t : j[1] = k[1] => j[2] <= k[2])

-----------------------------------------------------------------------------
Section(s) == file.sections[s]

(* The hybrid stream is read as cur with its classic section remembered as *)
(* the second component.                                                   *)
Reading == cur[1]
Classic == cur[2]
InHybrid == Classic # 0

Readable(s) ==
    /\ Section(s).head
    /\ \/ Section(s).form = "table"
       \/ Section(s).form = "stream" /\ ~opts.ignore_xref_streams

(* Faulty variants of the two operators below.                             *)
NeverLoops(p) == FALSE
KeepDeleted == deleted_objects' = deleted_objects
KeepFreeListHead == deleted_objects' = {0}

(* A section already followed is a loop of the /Prev chain.                *)
LoopsTo(p) == p \in visited

(* begin_xref_reconstruction: one reconstruction per document.             *)
MayReconstruct == opts.attempt_recovery /\ ~reconstructed

(* The tombstones only filter registration while sections are read.        *)
clear_deleted_objects == deleted_objects' = {}

(* In a stream the generation field of a free or compressed row is not a   *)
(* generation: both are registered under generation 0.                     *)
StreamKey(r) == IF r.kind \in {"c", "f"} THEN <<r.key[1], 0>> ELSE r.key

StreamType(kind) ==
    IF kind = "n" THEN "uncompressed" ELSE IF kind = "c" THEN "compressed" ELSE "free"

Init ==
    /\ file \in Files
    /\ opts \in [attempt_recovery : BOOLEAN, ignore_xref_streams : BOOLEAN]
    /\ pc = "startxref"
    /\ raw_entries = EmptyTable
    /\ deleted_objects = {}
    /\ trailer = 0
    /\ visited = {}
    /\ cur = <<0, 0>>
    /\ row = 1
    /\ reconstructed = FALSE
    /\ reentry = FALSE
    /\ pre = [raw |-> EmptyTable, deleted |-> {}]

(* parse_startxref: an offset of zero never reads a section, and one out   *)
(* of range is an error that recovery does not see.                        *)
ParseStartxref ==
    /\ pc = "startxref"
    /\ IF file.startxref < 1
       THEN /\ pc' = IF file.startxref = 0 THEN "error" ELSE "failed"
            /\ UNCHANGED <<visited, cur>>
       ELSE /\ pc' = "section"
            /\ cur' = <<file.startxref, 0>>
            /\ visited' = {file.startxref}
    /\ UNCHANGED <<file, opts, raw_entries, deleted_objects, trailer, row,
                   reconstructed, reentry, pre>>

(* parse_xref_from_start / build_xref_stream up to the first row.          *)
EnterSection ==
    /\ pc = "section"
    /\ pc' = IF Readable(Reading) THEN "rows" ELSE "error"
    /\ row' = 1
    /\ UNCHANGED <<file, opts, raw_entries, deleted_objects, trailer, visited,
                   cur, reconstructed, reentry, pre>>

(* parse_xref_table: an in-use row is registered as it is read, a free row *)
(* waits for the end of the section, a bad row fails the section.          *)
ReadTableRow ==
    /\ pc = "rows"
    /\ Section(Reading).form = "table"
    /\ row <= Len(Section(Reading).rows)
    /\ LET r == Section(Reading).rows[row]
       IN  /\ raw_entries' = IF r.kind = "n"
                             THEN insert_xref_entry(raw_entries, deleted_objects, r.key,
                                      Entry("uncompressed", <<Reading, row>>))
                             ELSE raw_entries
           /\ IF r.kind \in {"n", "f"}
              THEN row' = row + 1 /\ pc' = pc
              ELSE row' = row /\ pc' = "error"
    /\ UNCHANGED <<file, opts, deleted_objects, trailer, visited, cur,
                   reconstructed, reentry, pre>>

(* parse_xref_entries: rows of a stream take effect one by one, a row for  *)
(* a deleted number or a registered key is skipped before its type is      *)
(* looked at, and an unknown type leaves a free placeholder and fails.     *)
ReadStreamRow ==
    /\ pc = "rows"
    /\ Section(Reading).form = "stream"
    /\ row <= Len(Section(Reading).rows)
    /\ LET r == Section(Reading).rows[row]
           k == StreamKey(r)
           skip == k[1] \in deleted_objects \/ k \in DOMAIN raw_entries
       IN  /\ raw_entries' = IF r.kind = "f" THEN raw_entries
                             ELSE insert_xref_entry(raw_entries, deleted_objects, k,
                                      Entry(StreamType(r.kind), <<Reading, row>>))
           /\ deleted_objects' = IF r.kind = "f" /\ ~skip
                                 THEN insert_free_xref_entry(raw_entries, deleted_objects, k)
                                 ELSE deleted_objects
           /\ IF r.kind = "x" /\ ~skip
              THEN row' = row /\ pc' = "error"
              ELSE row' = row + 1 /\ pc' = pc
    /\ UNCHANGED <<file, opts, trailer, visited, cur, reconstructed, reentry, pre>>

(* The first trailer read is the document's. Faulty variant: the last one. *)
set_trailer_always(t) == trailer' = t
set_trailer_if_uninitialized(t) == trailer' = IF trailer = 0 THEN t ELSE trailer

(* The end of a classic section: its trailer becomes the document's unless *)
(* one is known, the newest trailer must have /Size, and /XRefStm names a  *)
(* stream to read before the section's free rows count.                    *)
EndTable ==
    /\ pc = "rows"
    /\ Section(Reading).form = "table"
    /\ row > Len(Section(Reading).rows)
    /\ LET s == Section(Reading)
           newest == ~reentry /\ visited = {Reading}
           hybrid == s.hybrid # 0 /\ ~opts.ignore_xref_streams
       IN  IF s.trailer = "bad"
           THEN pc' = "error" /\ UNCHANGED <<trailer, cur, row>>
           ELSE /\ set_trailer_if_uninitialized(Reading)
                /\ IF newest /\ s.trailer = "nosize"
                   THEN pc' = "error" /\ UNCHANGED <<cur, row>>
                   ELSE IF ~hybrid
                   THEN pc' = "free" /\ UNCHANGED <<cur, row>>
                   ELSE IF s.hybrid # -1 /\ Section(s.hybrid).form = "stream" /\ Readable(s.hybrid)
                   THEN pc' = "rows" /\ cur' = <<s.hybrid, Reading>> /\ row' = 1
                   ELSE pc' = "error" /\ UNCHANGED <<cur, row>>
    /\ UNCHANGED <<file, opts, raw_entries, deleted_objects, visited,
                   reconstructed, reentry, pre>>

(* The end of a stream: of the section itself, whose dictionary is its     *)
(* trailer, or of a hybrid, whose dictionary and /Prev are ignored.        *)
EndStream ==
    /\ pc = "rows"
    /\ Section(Reading).form = "stream"
    /\ row > Len(Section(Reading).rows)
    /\ IF InHybrid
       THEN pc' = "free" /\ cur' = <<Classic, 0>> /\ UNCHANGED trailer
       ELSE pc' = "prev" /\ UNCHANGED cur /\ set_trailer_if_uninitialized(Reading)
    /\ UNCHANGED <<file, opts, raw_entries, deleted_objects, visited, row,
                   reconstructed, reentry, pre>>

(* The free rows of a classic section, deferred past its in-use rows and   *)
(* its hybrid stream.                                                      *)
RegisterDeferredFree ==
    /\ pc = "free"
    /\ LET rows == Section(Reading).rows
           free == {rows[i].key : i \in {j \in DOMAIN rows : rows[j].kind = "f"}}
       IN  deleted_objects' = deleted_objects \cup
               UNION {insert_free_xref_entry(raw_entries, {}, k) : k \in free}
    /\ pc' = "prev"
    /\ UNCHANGED <<file, opts, raw_entries, trailer, visited, cur, row,
                   reconstructed, reentry, pre>>

(* resolve_previous_xref_offset and the loop of                            *)
(* merge_previous_xref_sections: a /Prev that is not an integer ends the   *)
(* chain of a stream and fails a table; a section met twice fails.         *)
FollowPrev ==
    /\ pc = "prev"
    /\ LET p == Section(Reading).prev
       IN  IF p = 0 \/ (p = -1 /\ Section(Reading).form = "stream")
           THEN pc' = "finish" /\ UNCHANGED <<cur, visited>>
           ELSE IF p = -1 \/ LoopsTo(p)
           THEN pc' = "error" /\ UNCHANGED <<cur, visited>>
           ELSE pc' = "section" /\ cur' = <<p, 0>> /\ visited' = visited \cup {p}
    /\ UNCHANGED <<file, opts, raw_entries, deleted_objects, trailer, row,
                   reconstructed, reentry, pre>>

(* The end of an ordinary load: the free rows are forgotten and only the   *)
(* highest generation of each object number is kept.                       *)
FinishChain ==
    /\ pc = "finish"
    /\ ~reentry
    /\ clear_deleted_objects
    /\ raw_entries' = discard_lower_generations(raw_entries)
    /\ pc' = "loaded"
    /\ UNCHANGED <<file, opts, trailer, visited, cur, row, reconstructed, reentry, pre>>

(* The end of a candidate's chain: numbers its free rows name lose their   *)
(* scanned rows, the rows that survived the scan come back, and the lower  *)
(* generations go.                                                         *)
Surviving(t, del) ==
    Only(t, LAMBDA k : to_object_ref(k) /\ k[1] \notin del /\ t[k].type # "free")

FinishReentry ==
    /\ pc = "finish"
    /\ reentry
    /\ raw_entries' = discard_lower_generations(
                          OrInsert(Surviving(raw_entries, deleted_objects),
                                   remove_uncompressed_entries(pre.raw)))
    /\ clear_deleted_objects
    /\ pc' = "loaded"
    /\ UNCHANGED <<file, opts, trailer, visited, cur, row, reconstructed, reentry, pre>>

(* An error without recovery, or after the one reconstruction has begun,   *)
(* is the error of the open.                                               *)
ReportError ==
    /\ pc = "error"
    /\ ~MayReconstruct
    /\ pc' = "failed"
    /\ UNCHANGED <<file, opts, raw_entries, deleted_objects, trailer, visited,
                   cur, row, reconstructed, reentry, pre>>

(* reconstruct_xref_on_owner up to the scan: only rows that are not of     *)
(* type 1 survive.                                                         *)
BeginReconstruction ==
    /\ pc = "error"
    /\ MayReconstruct
    /\ reconstructed' = TRUE
    /\ pre' = [raw |-> raw_entries, deleted |-> deleted_objects]
    /\ raw_entries' = remove_uncompressed_entries(raw_entries)
    /\ row' = 1
    /\ pc' = "scan"
    /\ UNCHANGED <<file, opts, deleted_objects, trailer, visited, cur, reentry>>

(* recover_xref_entries_from_source: the last object line of a key wins,   *)
(* unless a free row already read names its number.                        *)
ScanLine ==
    /\ pc = "scan"
    /\ row <= Len(file.lines)
    /\ LET l == file.lines[row]
       IN  raw_entries' = insert_reconstructed_xref_entry(raw_entries, deleted_objects,
                              l.key, Entry("uncompressed", <<l.pos, 0>>))
    /\ row' = row + 1
    /\ UNCHANGED <<file, opts, pc, deleted_objects, trailer, visited, cur,
                   reconstructed, reentry, pre>>

(* Scanned objects that are cross-reference streams, in the order of their *)
(* keys the first supplies the trailer and the last position is re-read.   *)
Position(k) == raw_entries[k].at[1]

Candidates ==
    {k \in DOMAIN raw_entries :
        /\ raw_entries[k].type = "uncompressed"
        /\ Position(k) \in Offsets
        /\ Section(Position(k)).form = "stream"}

KeyLeq(j, k) == j[1] < k[1] \/ (j[1] = k[1] /\ j[2] <= k[2])

(* The end of the scan: the tombstones go, and a trailer is chosen: the    *)
(* one already known, else the first scanned one, else a candidate's.      *)
EndScan ==
    /\ pc = "scan"
    /\ row > Len(file.lines)
    /\ clear_deleted_objects
    /\ IF trailer # 0 \/ file.trailerLine
       THEN /\ set_trailer_if_uninitialized(-1)
            /\ pc' = "loaded"
            /\ UNCHANGED <<visited, cur, reentry>>
       ELSE IF Candidates = {}
       THEN pc' = "failed" /\ UNCHANGED <<trailer, visited, cur, reentry>>
       ELSE \E first, last \in Candidates :
                /\ \A j \in Candidates : KeyLeq(first, j) /\ Position(j) <= Position(last)
                /\ trailer' = Position(first)
                /\ cur' = <<Position(last), 0>>
                /\ visited' = {Position(last)}
                /\ reentry' = TRUE
                /\ pc' = "section"
    /\ UNCHANGED <<file, opts, raw_entries, row, reconstructed, pre>>

Next ==
    \/ ParseStartxref
    \/ EnterSection
    \/ ReadTableRow
    \/ ReadStreamRow
    \/ EndTable
    \/ EndStream
    \/ RegisterDeferredFree
    \/ FollowPrev
    \/ FinishChain
    \/ FinishReentry
    \/ ReportError
    \/ BeginReconstruction
    \/ ScanLine
    \/ EndScan

(* One thread runs the loader to its end.                                  *)
Spec == Init /\ [][Next]_vars /\ WF_vars(Next)

-----------------------------------------------------------------------------
(* What the finished table must be, said without the loader's steps: the   *)
(* rows of the chain with the place each has in the order they count.      *)

ChainLength == Cardinality(Offsets)

(* The chain's sections, newest first, padded with 0.                      *)
Chain ==
    LET c[i \in 1 .. ChainLength] ==
            IF i = 1 THEN file.startxref
            ELSE IF c[i-1] = 0 \/ Section(c[i-1]).prev < 1 THEN 0
            ELSE Section(c[i-1]).prev
    IN  c

(* The rows a section contributes. Rank 1: a table's in-use rows; rank 2:  *)
(* the rows of a stream, hybrid or not; rank 3: a table's free rows.       *)
Occurrence(i, s, rank, j) ==
    LET r == Section(s).rows[j]
    IN  [rank |-> <<i, rank, j>>, at |-> <<s, j>>, kind |-> r.kind,
         key |-> IF rank = 2 THEN StreamKey(r) ELSE r.key]
RowsOf(i, s, rank) ==
    {Occurrence(i, s, rank, j) :
        j \in {x \in DOMAIN Section(s).rows : rank = 2 \/ (rank = 1 <=> Section(s).rows[x].kind = "n")}}

HasHybrid(s) == Section(s).hybrid # 0 /\ ~opts.ignore_xref_streams
HybridRows(i, s) == IF HasHybrid(s) THEN RowsOf(i, Section(s).hybrid, 2) ELSE {}
Contributed(i, s) ==
    IF Section(s).form = "stream" THEN RowsOf(i, s, 2)
    ELSE RowsOf(i, s, 1) \cup HybridRows(i, s) \cup RowsOf(i, s, 3)

Occurrences == UNION {Contributed(i, Chain[i]) : i \in {x \in DOMAIN Chain : Chain[x] # 0}}

Before(a, b) ==
    \/ a.rank[1] < b.rank[1]
    \/ a.rank[1] = b.rank[1] /\ a.rank[2] < b.rank[2]
    \/ a.rank[1] = b.rank[1] /\ a.rank[2] = b.rank[2] /\ a.rank[3] < b.rank[3]

InUse(o) == o.kind \in {"n", "c"}

(* A free row counts unless a newer row uses its exact key.                *)
FreedBefore(occ, o) ==
    \E f \in occ : /\ f.kind = "f" /\ f.key[1] = o.key[1] /\ Before(f, o)
                   /\ ~\E u \in occ : InUse(u) /\ u.key = f.key /\ Before(u, f)

(* The first row in use of every key, if no free row of its number comes   *)
(* before it.                                                              *)
Newest(occ) ==
    {o \in occ : /\ InUse(o)
                 /\ ~FreedBefore(occ, o)
                 /\ ~\E u \in occ : InUse(u) /\ u.key = o.key /\ Before(u, o)}
EntryOf(o) == Entry(IF o.kind = "n" THEN "uncompressed" ELSE "compressed", o.at)

ReferenceTable ==
    LET newest == Newest(Occurrences)
        kept == {o \in newest : o.key[1] = 0 \/
                    \A u \in newest : u.key[1] = o.key[1] => u.key[2] <= o.key[2]}
    IN  [k \in {o.key : o \in kept} |-> EntryOf(CHOOSE o \in kept : o.key = k)]

(* The rows a scan of the lines before n leaves: the last line of each key *)
(* whose number is not in del.                                             *)
LinesOf(lines, k, n) == {i \in DOMAIN lines : i < n /\ lines[i].key = k}
LastOf(S) == CHOOSE i \in S : \A j \in S : j <= i

Scanned(lines, del, n) ==
    [k \in {j \in Keys : LinesOf(lines, j, n) # {} /\ to_object_ref(j) /\ j[1] \notin del}
        |-> Entry("uncompressed", <<lines[LastOf(LinesOf(lines, k, n))].pos, 0>>)]

(* What the whole scan leaves when no free row read before the failure     *)
(* names the number.                                                       *)
ScanTable == Scanned(file.lines, pre.deleted, Len(file.lines) + 1)

-----------------------------------------------------------------------------
(* Properties.                                                             *)

PcSet == {"startxref", "section", "rows", "free", "prev", "finish", "error",
          "scan", "loaded", "failed"}

(* The state stays within its types.                                       *)
TypeOK ==
    /\ file \in Files
    /\ opts \in [attempt_recovery : BOOLEAN, ignore_xref_streams : BOOLEAN]
    /\ pc \in PcSet
    /\ IsTable(raw_entries)
    /\ deleted_objects \subseteq ObjNums
    /\ trailer \in Offsets \cup {-1, 0}
    /\ visited \subseteq Offsets
    /\ cur \in (Offsets \cup {0}) \X (Offsets \cup {0})
    /\ row \in Nat \ {0}
    /\ reconstructed \in BOOLEAN
    /\ reentry \in BOOLEAN
    /\ IsTable(pre.raw) /\ pre.deleted \subseteq ObjNums

(* A load that needed no recovery ends with the declared table: the newest *)
(* row of every key, none older than a free row of its number, of each     *)
(* number the highest generation (load_xref_state_from_window).            *)
ChainTable ==
    pc = "loaded" /\ ~reconstructed => raw_entries = ReferenceTable

(* A recovered table holds the scanned rows and, of the rows read before   *)
(* the failure, those of other types that no scanned row replaced; a       *)
(* number that was free when the failure struck has no scanned row         *)
(* (reconstruct_xref_on_owner).                                            *)
RecoveredTable ==
    pc = "loaded" /\ reconstructed /\ ~reentry =>
        raw_entries = OrInsert(ScanTable, remove_uncompressed_entries(pre.raw))

(* Where generations are pruned, an object number has one row, so lookups  *)
(* by number are unambiguous.                                              *)
SingleGeneration ==
    pc = "loaded" /\ (~reconstructed \/ reentry) =>
        \A j, k \in DOMAIN raw_entries : j[1] = k[1] /\ k[1] # 0 => j = k

(* A document that opens has a trailer and no tombstone left that would    *)
(* silently drop a later registration.                                     *)
DocumentReady == pc = "loaded" => trailer # 0 /\ deleted_objects = {}

(* The trailer, once known, survives older sections, hybrid streams and    *)
(* the recovery scan: the newest revision's /Root is the document's.       *)
TrailerStable == [][trailer # 0 => trailer' = trailer]_vars

(* Every load ends, also over /Prev chains that loop.                      *)
Terminates == <>(pc \in {"loaded", "failed"})
=============================================================================
