--------------------------- MODULE XrefLoadProofs ---------------------------
(***************************************************************************)
(* Proofs about XrefLoad: types, the trailer, the single reconstruction    *)
(* and the single generation per object number, for every file.            *)
(***************************************************************************)
EXTENDS XrefLoad, FiniteSetTheorems, Induction

(* Where the loader is inside a section, cur names one; a hybrid stream is *)
(* only ever read at "rows".                                               *)
PcInv ==
    /\ pc \in {"section", "rows", "free", "prev"} => Reading \in Offsets
    /\ pc = "section" => Classic = 0

TypeInv == TypeOK /\ PcInv

(* Facts about tables.                                                     *)

(* With keeps a table a table.                                             *)
LEMMA WithTable ==
    ASSUME NEW t, NEW k \in Keys, NEW e \in EntrySet, IsTable(t)
    PROVE  IsTable(With(t, k, e))
BY DEF IsTable, With

(* Registering a row keeps a table a table.                                *)
LEMMA InsertTable ==
    ASSUME NEW t, NEW del, NEW k \in Keys, NEW e \in EntrySet, IsTable(t)
    PROVE  /\ IsTable(insert_xref_entry(t, del, k, e))
           /\ IsTable(insert_reconstructed_xref_entry(t, del, k, e))
BY WithTable DEF insert_xref_entry, insert_reconstructed_xref_entry

(* Pruning keeps a table a table.                                          *)
LEMMA PruneTable ==
    ASSUME NEW t, IsTable(t)
    PROVE  /\ IsTable(remove_uncompressed_entries(t))
           /\ IsTable(discard_lower_generations(t))
           /\ \A del : IsTable(Surviving(t, del))
BY DEF IsTable, remove_uncompressed_entries, discard_lower_generations, Surviving, Only

(* Merging two tables gives a table.                                       *)
LEMMA OrInsertTable ==
    ASSUME NEW t, NEW u, IsTable(t), IsTable(u)
    PROVE  IsTable(OrInsert(t, u))
BY DEF IsTable, OrInsert

(* Files and their rows have their types.                                  *)
LEMMA FileTypes ==
    ASSUME TypeOK, NEW s \in Offsets
    PROVE  /\ Section(s) \in SectionSet
           /\ Section(s).prev \in Offsets \cup {-1, 0}
           /\ Section(s).hybrid \in Offsets \cup {-1, 0}
           /\ Section(s).rows \in Seq(RowSet)
           /\ \A i \in DOMAIN Section(s).rows :
                  /\ Section(s).rows[i] \in RowSet
                  /\ Section(s).rows[i].key \in Keys
                  /\ StreamKey(Section(s).rows[i]) \in Keys
<1>1. Section(s) \in SectionSet
  BY FilesAssumption DEF TypeOK, FileSet, Section
<1>2. Section(s).rows \in Seq(RowSet)
  BY <1>1 DEF SectionSet
<1>3. \A i \in DOMAIN Section(s).rows : Section(s).rows[i] \in RowSet
  BY <1>2
<1>4. \A r \in RowSet : r.key \in Keys /\ StreamKey(r) \in Keys
  BY NumbersAssumption DEF RowSet, Keys, StreamKey
<1> QED BY <1>1, <1>2, <1>3, <1>4 DEF SectionSet

(* An entry that points at a place is an entry.                            *)
LEMMA EntryType ==
    ASSUME NEW t \in {"uncompressed", "compressed", "free"}, NEW a \in Nat, NEW b \in Nat
    PROVE  Entry(t, <<a, b>>) \in EntrySet
BY DEF Entry, EntrySet, Places

(* The typing facts are inductive.                                         *)
LEMMA TypeStep == TypeInv /\ [Next]_vars => TypeInv'
<1> SUFFICES ASSUME TypeInv, [Next]_vars
             PROVE  TypeInv'
  OBVIOUS
<1> USE DEF TypeInv
<1>a. TypeOK /\ PcInv
  OBVIOUS
<1>b. Offsets \subseteq Nat /\ 0 \notin Offsets /\ -1 \notin Offsets
  BY OffsetsAssumption
<1>1. CASE ParseStartxref
  <2>1. file.startxref \in Offsets \cup {-1, 0}
    BY <1>a, FilesAssumption DEF TypeOK, FileSet
  <2>2. CASE file.startxref \in {-1, 0}
    BY <1>1, <1>a, <2>2 DEF ParseStartxref, TypeOK, PcInv, PcSet, Reading, Classic
  <2>3. CASE file.startxref \in Offsets
    <3>1. pc' = "section" /\ cur' = <<file.startxref, 0>> /\ visited' = {file.startxref}
      <4>1. \A x \in Offsets : ~(x < 1)
        BY OffsetsAssumption
      <4>2. ~(file.startxref < 1)
        BY <2>3, <4>1
      <4> QED BY <1>1, <4>2 DEF ParseStartxref
    <3> QED BY <1>1, <1>a, <2>3, <3>1 DEF ParseStartxref, TypeOK, PcInv, PcSet, Reading, Classic
  <2> QED BY <2>1, <2>2, <2>3
<1>2. CASE EnterSection
  BY <1>2, <1>a DEF EnterSection, TypeOK, PcInv, PcSet, Reading, Classic
<1>3. CASE ReadTableRow
  <2>1. Reading \in Offsets
    BY <1>3, <1>a DEF ReadTableRow, PcInv
  <2>2. row \in DOMAIN Section(Reading).rows
    BY <1>3, <1>a, <2>1, FileTypes DEF ReadTableRow, TypeOK
  <2> DEFINE r == Section(Reading).rows[row]
  <2>3. r.key \in Keys
    BY <1>a, <2>1, <2>2, FileTypes
  <2>4. Entry("uncompressed", <<Reading, row>>) \in EntrySet
    BY <1>a, <1>b, <2>1, EntryType DEF TypeOK
  <2>5. IsTable(raw_entries')
    BY <1>3, <1>a, <2>3, <2>4, InsertTable DEF ReadTableRow, TypeOK
  <2> QED BY <1>3, <1>a, <2>5 DEF ReadTableRow, TypeOK, PcInv, PcSet, Reading, Classic
<1>4. CASE ReadStreamRow
  <2>1. Reading \in Offsets
    BY <1>4, <1>a DEF ReadStreamRow, PcInv
  <2>2. row \in DOMAIN Section(Reading).rows
    BY <1>4, <1>a, <2>1, FileTypes DEF ReadStreamRow, TypeOK
  <2> DEFINE r == Section(Reading).rows[row]
             k == StreamKey(r)
             type == StreamType(r.kind)
  <2>3. k \in Keys
    BY <1>a, <2>1, <2>2, FileTypes
  <2>4. type \in {"uncompressed", "compressed", "free"}
    BY DEF StreamType
  <2>5. Entry(type, <<Reading, row>>) \in EntrySet
    <3> HIDE DEF type
    <3> QED BY <1>a, <1>b, <2>1, <2>4, EntryType DEF TypeOK
  <2>6. IsTable(raw_entries')
    <3>1. IsTable(insert_xref_entry(raw_entries, deleted_objects, k, Entry(type, <<Reading, row>>)))
      <4> HIDE DEF type, k
      <4> QED BY <1>a, <2>3, <2>5, InsertTable DEF TypeOK
    <3> QED BY <1>4, <1>a, <3>1 DEF ReadStreamRow, TypeOK
  <2>7. deleted_objects' \subseteq ObjNums
    BY <1>4, <1>a, <2>3 DEF ReadStreamRow, TypeOK, insert_free_xref_entry, Keys
  <2> QED BY <1>4, <1>a, <2>6, <2>7 DEF ReadStreamRow, TypeOK, PcInv, PcSet, Reading, Classic
<1>5. CASE EndTable
  <2>1. Reading \in Offsets
    BY <1>5, <1>a DEF EndTable, PcInv
  <2>2. Section(Reading).hybrid \in Offsets \cup {-1, 0}
    BY <1>a, <2>1, FileTypes
  <2> QED BY <1>5, <1>a, <1>b, <2>1, <2>2
          DEF EndTable, TypeOK, PcInv, PcSet, Reading, Classic, set_trailer_if_uninitialized
<1>6. CASE EndStream
  BY <1>6, <1>a, <1>b
  DEF EndStream, TypeOK, PcInv, PcSet, Reading, Classic, InHybrid, set_trailer_if_uninitialized
<1>7. CASE RegisterDeferredFree
  <2>1. Reading \in Offsets
    BY <1>7, <1>a DEF RegisterDeferredFree, PcInv
  <2>2. \A i \in DOMAIN Section(Reading).rows : Section(Reading).rows[i].key[1] \in ObjNums
    BY <1>a, <2>1, FileTypes DEF Keys
  <2>3. deleted_objects' \subseteq ObjNums
    BY <1>7, <1>a, <2>2 DEF RegisterDeferredFree, TypeOK, insert_free_xref_entry
  <2> QED BY <1>7, <1>a, <2>3 DEF RegisterDeferredFree, TypeOK, PcInv, PcSet, Reading, Classic
<1>8. CASE FollowPrev
  <2>1. Reading \in Offsets
    BY <1>8, <1>a DEF FollowPrev, PcInv
  <2>2. Section(Reading).prev \in Offsets \cup {-1, 0}
    BY <1>a, <2>1, FileTypes
  <2>3. CASE cur' = cur
    BY <1>8, <1>a, <2>3 DEF FollowPrev, TypeOK, PcInv, PcSet, Reading, Classic
  <2>4. CASE cur' # cur
    <3>1. /\ Section(Reading).prev \in Offsets
          /\ pc' = "section"
          /\ cur' = <<Section(Reading).prev, 0>>
          /\ visited' = visited \cup {Section(Reading).prev}
      BY <1>8, <1>b, <2>2, <2>4 DEF FollowPrev
    <3> QED BY <1>8, <1>a, <3>1 DEF FollowPrev, TypeOK, PcInv, PcSet, Reading, Classic
  <2> QED BY <2>3, <2>4
<1>9. CASE FinishChain
  BY <1>9, <1>a, PruneTable
  DEF FinishChain, TypeOK, PcInv, PcSet, Reading, Classic, clear_deleted_objects
<1>10. CASE FinishReentry
  <2>2. IsTable(raw_entries')
    BY <1>10, <1>a, PruneTable, OrInsertTable DEF FinishReentry, TypeOK
  <2> QED BY <1>10, <1>a, <2>2
          DEF FinishReentry, TypeOK, PcInv, PcSet, Reading, Classic, clear_deleted_objects
<1>11. CASE ReportError
  BY <1>11, <1>a DEF ReportError, TypeOK, PcInv, PcSet, Reading, Classic
<1>12. CASE BeginReconstruction
  BY <1>12, <1>a, PruneTable DEF BeginReconstruction, TypeOK, PcInv, PcSet, Reading, Classic
<1>13. CASE ScanLine
  <2>1. file.lines \in Seq(LineSet)
    BY <1>a, FilesAssumption DEF TypeOK, FileSet
  <2>2. row \in DOMAIN file.lines
    BY <1>13, <1>a, <2>1 DEF ScanLine, TypeOK
  <2>. DEFINE l == file.lines[row]
  <2>5. l \in LineSet
    BY <2>1, <2>2
  <2>3. Entry("uncompressed", <<file.lines[row].pos, 0>>) \in EntrySet
    BY <2>5, EntryType DEF LineSet
  <2>4. IsTable(raw_entries')
    BY <1>13, <1>a, <2>5, <2>3, InsertTable DEF ScanLine, TypeOK, LineSet
  <2> QED BY <1>13, <1>a, <2>4 DEF ScanLine, TypeOK, PcInv, PcSet, Reading, Classic
<1>14. CASE EndScan
  <2>1. CASE trailer # 0 \/ file.trailerLine \/ Candidates = {}
    BY <1>14, <1>a, <2>1
    DEF EndScan, TypeOK, PcInv, PcSet, Reading, Classic, clear_deleted_objects, set_trailer_if_uninitialized
  <2>2. CASE ~(trailer # 0 \/ file.trailerLine \/ Candidates = {})
    <3>1. PICK first \in Candidates, last \in Candidates :
            /\ trailer' = Position(first)
            /\ cur' = <<Position(last), 0>>
            /\ visited' = {Position(last)}
            /\ reentry' = TRUE
            /\ pc' = "section"
      BY <1>14, <2>2 DEF EndScan
    <3>2. Position(first) \in Offsets /\ Position(last) \in Offsets
      BY <3>1 DEF Candidates
    <3> QED BY <1>14, <1>a, <3>1, <3>2
            DEF EndScan, TypeOK, PcInv, PcSet, Reading, Classic, clear_deleted_objects
  <2> QED BY <2>1, <2>2
<1>15. CASE UNCHANGED vars
  BY <1>15, <1>a DEF vars, TypeOK, PcInv, PcSet, Reading, Classic
<1> QED
  BY <1>1, <1>2, <1>3, <1>4, <1>5, <1>6, <1>7, <1>8, <1>9, <1>10, <1>11, <1>12,
     <1>13, <1>14, <1>15 DEF Next

(* Initial states have their types.                                        *)
LEMMA InitTypes == Init => TypeInv
<1>1. IsTable(EmptyTable)
  BY DEF IsTable, EmptyTable
<1> SUFFICES ASSUME Init
             PROVE  TypeInv
  OBVIOUS
<1>2. IsTable(pre.raw) /\ pre.deleted \subseteq ObjNums
  BY <1>1 DEF Init
<1>3. cur \in (Offsets \cup {0}) \X (Offsets \cup {0})
  BY DEF Init
<1>4. pc = "startxref" /\ pc \in PcSet
  BY DEF Init, PcSet
<1>6. /\ file \in Files
      /\ opts \in [attempt_recovery : BOOLEAN, ignore_xref_streams : BOOLEAN]
      /\ IsTable(raw_entries) /\ deleted_objects \subseteq ObjNums
      /\ visited \subseteq Offsets
  BY <1>1 DEF Init
<1>7. trailer \in Offsets \cup {-1, 0} /\ row \in Nat \ {0}
  BY DEF Init
<1>8. reconstructed \in BOOLEAN /\ reentry \in BOOLEAN
  BY DEF Init
<1>5. TypeOK
  BY <1>2, <1>3, <1>4, <1>6, <1>7, <1>8 DEF TypeOK
<1> QED BY <1>4, <1>5 DEF TypeInv, PcInv

(* The state keeps its types on every file (XrefRegistrationState and the  *)
(* loader's locals).                                                       *)
THEOREM TypeCorrect == Spec => []TypeOK
<1>1. Init => TypeInv
  BY InitTypes
<1>2. TypeInv /\ [Next]_vars => TypeInv'
  BY TypeStep
<1>3. TypeInv => TypeOK
  BY DEF TypeInv
<1> QED BY <1>1, <1>2, <1>3, PTL DEF Spec

(* The trailer a section supplied is the document's for good               *)
(* (set_trailer_if_uninitialized and its callers).                         *)
THEOREM TrailerKept == Spec => TrailerStable
<1>1. [Next]_vars => (trailer # 0 => trailer' = trailer)
  BY DEF Next, vars, ParseStartxref, EnterSection, ReadTableRow, ReadStreamRow, EndTable,
         EndStream, RegisterDeferredFree, FollowPrev, FinishChain, FinishReentry,
         ReportError, BeginReconstruction, ScanLine, EndScan, set_trailer_if_uninitialized
<1> QED BY <1>1, PTL DEF Spec, TrailerStable

-----------------------------------------------------------------------------
(* What a finished load has: a trailer, no tombstone, one generation of    *)
(* each number, and after a plain recovery exactly the scanned table.      *)

(* A trailer is known from the end of the first section on.                *)
TrailerInv ==
    /\ pc \in {"free", "prev", "finish", "loaded"} => trailer # 0
    /\ pc = "rows" /\ InHybrid => trailer # 0
    /\ pc = "loaded" => deleted_objects = {}

(* A candidate is only re-read within the reconstruction.                  *)
PhaseInv ==
    /\ reentry => reconstructed
    /\ pc = "scan" => reconstructed /\ ~reentry
    /\ reconstructed /\ ~reentry => pc \in {"scan", "loaded", "failed"}

(* While the scan runs the table is what the lines before row leave.       *)
ScanInv ==
    pc = "scan" =>
        /\ deleted_objects = pre.deleted
        /\ raw_entries = OrInsert(Scanned(file.lines, pre.deleted, row),
                                  remove_uncompressed_entries(pre.raw))

(* Pruning leaves one generation of each number.                           *)
LEMMA PruneSingle ==
    ASSUME NEW t, IsTable(t), NEW j \in DOMAIN discard_lower_generations(t),
           NEW k \in DOMAIN discard_lower_generations(t), j[1] = k[1], k[1] # 0
    PROVE  j = k
<1>1. j \in DOMAIN t /\ k \in DOMAIN t
  BY DEF discard_lower_generations, Only
<1>2. j \in Keys /\ k \in Keys
  BY <1>1 DEF IsTable
<1>3. j[2] <= k[2] /\ k[2] <= j[2]
  BY <1>1 DEF discard_lower_generations, Only
<1>4. j[2] \in Nat /\ k[2] \in Nat
  BY <1>2, NumbersAssumption DEF Keys
<1>5. j[2] = k[2]
  BY <1>3, <1>4
<1> QED BY <1>2, <1>5 DEF Keys

(* TrailerInv is preserved.                                                *)
LEMMA TrailerStep == TypeInv /\ TrailerInv /\ [Next]_vars => TrailerInv'
<1> SUFFICES ASSUME TypeInv, TrailerInv, [Next]_vars
             PROVE  TrailerInv'
  OBVIOUS
<1>a. 0 \notin Offsets
  BY OffsetsAssumption
<1>b. PcInv
  BY DEF TypeInv
<1>1. CASE EndTable
  BY <1>1, <1>a, <1>b DEF EndTable, TrailerInv, PcInv, set_trailer_if_uninitialized
<1>2. CASE EndStream
  BY <1>2, <1>a, <1>b DEF EndStream, TrailerInv, PcInv, InHybrid, set_trailer_if_uninitialized
<1>3. CASE EnterSection
  BY <1>3, <1>b DEF EnterSection, TrailerInv, PcInv, InHybrid, Classic
<1>4. CASE EndScan
  BY <1>4 DEF EndScan, TrailerInv, set_trailer_if_uninitialized, clear_deleted_objects
<1>5. CASE FinishChain \/ FinishReentry
  BY <1>5 DEF FinishChain, FinishReentry, TrailerInv, clear_deleted_objects
<1>6. CASE ParseStartxref \/ ReportError \/ BeginReconstruction \/ ScanLine
  BY <1>6 DEF ParseStartxref, ReportError, BeginReconstruction, ScanLine, TrailerInv
<1>7. CASE ReadTableRow \/ ReadStreamRow
  BY <1>7 DEF ReadTableRow, ReadStreamRow, TrailerInv, InHybrid, Classic
<1>8. CASE RegisterDeferredFree \/ FollowPrev
  BY <1>8 DEF RegisterDeferredFree, FollowPrev, TrailerInv
<1>9. CASE UNCHANGED vars
  BY <1>9 DEF vars, TrailerInv, InHybrid, Classic
<1> QED BY <1>1, <1>2, <1>3, <1>4, <1>5, <1>6, <1>7, <1>8, <1>9 DEF Next

(* PhaseInv is preserved.                                                  *)
LEMMA PhaseStep == PhaseInv /\ [Next]_vars => PhaseInv'
BY DEF Next, vars, ParseStartxref, EnterSection, ReadTableRow, ReadStreamRow, EndTable,
       EndStream, RegisterDeferredFree, FollowPrev, FinishChain, FinishReentry,
       ReportError, BeginReconstruction, ScanLine, EndScan, MayReconstruct, PhaseInv

(* A load ends only in these three steps.                                  *)
LEMMA LoadedSteps ==
    ASSUME [Next]_vars, pc # "loaded", pc' = "loaded"
    PROVE  FinishChain \/ FinishReentry \/ EndScan
BY DEF Next, vars, ParseStartxref, EnterSection, ReadTableRow, ReadStreamRow, EndTable,
       EndStream, RegisterDeferredFree, FollowPrev, ReportError, BeginReconstruction, ScanLine

(* Nothing changes after the load.                                         *)
LEMMA LoadedStutters ==
    ASSUME [Next]_vars, pc = "loaded"
    PROVE  UNCHANGED vars
BY DEF Next, ParseStartxref, EnterSection, ReadTableRow, ReadStreamRow, EndTable,
       EndStream, RegisterDeferredFree, FollowPrev, FinishChain, FinishReentry,
       ReportError, BeginReconstruction, ScanLine, EndScan

(* SingleGeneration is preserved.                                          *)
LEMMA GenerationStep ==
    TypeInv /\ PhaseInv /\ SingleGeneration /\ [Next]_vars => SingleGeneration'
<1> SUFFICES ASSUME TypeInv, PhaseInv, SingleGeneration, [Next]_vars, pc' = "loaded",
                    (~reconstructed \/ reentry)',
                    NEW j \in DOMAIN raw_entries', NEW k \in DOMAIN raw_entries',
                    j[1] = k[1], k[1] # 0
             PROVE  j = k
  BY DEF SingleGeneration
<1>a. TypeOK
  BY DEF TypeInv
<1>1. CASE pc = "loaded"
  BY <1>1, LoadedStutters DEF vars, SingleGeneration
<1>2. CASE FinishChain
  BY <1>2, <1>a, PruneSingle DEF FinishChain, TypeOK
<1>3. CASE FinishReentry
  <2> DEFINE t == OrInsert(Surviving(raw_entries, deleted_objects),
                           remove_uncompressed_entries(pre.raw))
  <2>1. IsTable(t)
    BY <1>a, PruneTable, OrInsertTable DEF TypeOK
  <2>2. raw_entries' = discard_lower_generations(t)
    BY <1>3 DEF FinishReentry
  <2> HIDE DEF t
  <2> QED BY <2>1, <2>2, PruneSingle
<1>4. CASE pc # "loaded" /\ EndScan
  BY <1>4 DEF EndScan, PhaseInv
<1> QED BY <1>1, <1>2, <1>3, <1>4, LoadedSteps

(* One more line read extends the scanned table by its row.                *)
LEMMA ScannedNext ==
    ASSUME NEW lines \in Seq(LineSet), NEW del, NEW n \in DOMAIN lines
    PROVE  LET l == lines[n]
               e == Entry("uncompressed", <<l.pos, 0>>)
           IN  Scanned(lines, del, n + 1) =
                   insert_reconstructed_xref_entry(Scanned(lines, del, n), del, l.key, e)
<1> DEFINE l == lines[n]
           e == Entry("uncompressed", <<l.pos, 0>>)
           ok(j) == to_object_ref(j) /\ j[1] \notin del
           Of(j, m) == LinesOf(lines, j, m)
<1>0. n \in Nat /\ \A i \in DOMAIN lines : i \in Nat
  OBVIOUS
<1>1. l \in LineSet
  OBVIOUS
<1>2. l.key \in Keys
  BY <1>1 DEF LineSet
<1>3. \A j : j # l.key => Of(j, n + 1) = Of(j, n)
  BY <1>0 DEF LinesOf
<1>4. n \in Of(l.key, n + 1)
  BY <1>0 DEF LinesOf
<1>5. LastOf(Of(l.key, n + 1)) = n
  <2> DEFINE S == Of(l.key, n + 1)
  <2>1. n \in S /\ \A j \in S : j <= n /\ j \in Nat
    BY <1>0 DEF LinesOf
  <2> HIDE DEF S
  <2>2. \A i \in S : (\A j \in S : j <= i) => i = n
    BY <1>0, <2>1
  <2>3. \E i \in S : \A j \in S : j <= i
    BY <2>1
  <2>4. LastOf(S) \in S /\ \A j \in S : j <= LastOf(S)
    BY <2>3 DEF LastOf
  <2> QED BY <2>2, <2>4 DEF S
<1>b. \A j \in Keys : j # l.key \/ ~ok(j) => (Of(j, n) # {} /\ ok(j) <=> Of(j, n + 1) # {} /\ ok(j))
  BY <1>3
<1> DEFINE D(m) == {j \in Keys : Of(j, m) # {} /\ ok(j)}
           v(k, m) == Entry("uncompressed", <<lines[LastOf(Of(k, m))].pos, 0>>)
<1>6. \A m : Scanned(lines, del, m) = [k \in D(m) |-> v(k, m)]
  BY DEF Scanned
<1>7. CASE ~ok(l.key)
  <2>1. D(n + 1) = D(n)
    BY <1>b, <1>7
  <2>2. \A k \in D(n) : v(k, n + 1) = v(k, n)
    BY <1>3, <1>7
  <2>3. Scanned(lines, del, n + 1) = Scanned(lines, del, n)
    <3> HIDE DEF D, v
    <3> QED BY <1>6, <2>1, <2>2
  <2> QED BY <1>7, <2>3 DEF insert_reconstructed_xref_entry
<1>8. CASE ok(l.key)
  <2>1. D(n + 1) = D(n) \cup {l.key}
    BY <1>2, <1>b, <1>4, <1>8
  <2>2. \A k \in D(n + 1) : v(k, n + 1) = IF k = l.key THEN e ELSE v(k, n)
    BY <1>3, <1>5
  <2> HIDE DEF D, v, e, l
  <2>3. With(Scanned(lines, del, n), l.key, e) =
            [k \in D(n) \cup {l.key} |-> IF k = l.key THEN e ELSE v(k, n)]
    BY <1>6 DEF With
  <2>4. Scanned(lines, del, n + 1) = With(Scanned(lines, del, n), l.key, e)
    BY <1>6, <2>1, <2>2, <2>3
  <2> QED BY <1>8, <2>4 DEF l, e, insert_reconstructed_xref_entry
<1> QED BY <1>7, <1>8

(* Putting a row into a merged table puts it into the table that wins.     *)
LEMMA WithOrInsert ==
    ASSUME NEW t, NEW u, NEW k, NEW e
    PROVE  With(OrInsert(t, u), k, e) = OrInsert(With(t, k, e), u)
BY DEF With, OrInsert

(* Before the first line the scanned table is empty.                       *)
LEMMA ScannedFirst ==
    ASSUME NEW lines \in Seq(LineSet), NEW del, NEW t
    PROVE  OrInsert(Scanned(lines, del, 1), remove_uncompressed_entries(t))
               = remove_uncompressed_entries(t)
<1>1. \A j : LinesOf(lines, j, 1) = {}
  BY DEF LinesOf
<1>2. DOMAIN Scanned(lines, del, 1) = {}
  BY <1>1 DEF Scanned
<1> QED BY <1>2 DEF OrInsert, remove_uncompressed_entries, Only

(* After the last line it is the whole scan's.                             *)
LEMMA ScannedLast ==
    ASSUME NEW lines \in Seq(LineSet), NEW del, NEW n \in Nat, n > Len(lines)
    PROVE  Scanned(lines, del, n) = Scanned(lines, del, Len(lines) + 1)
<1>1. \A j : LinesOf(lines, j, n) = LinesOf(lines, j, Len(lines) + 1)
  BY DEF LinesOf
<1> QED BY <1>1 DEF Scanned

(* The scan's invariant and what the recovery leaves.                      *)
LEMMA ScanStep ==
    TypeInv /\ PhaseInv /\ ScanInv /\ RecoveredTable /\ [Next]_vars
        => ScanInv' /\ RecoveredTable'
<1> SUFFICES ASSUME TypeInv, PhaseInv, ScanInv, RecoveredTable, [Next]_vars
             PROVE  ScanInv' /\ RecoveredTable'
  OBVIOUS
<1>a. TypeOK
  BY DEF TypeInv
<1>b. file.lines \in Seq(LineSet) /\ row \in Nat /\ row \in Nat \ {0}
  BY <1>a, FilesAssumption DEF TypeOK, FileSet
<1>1. CASE BeginReconstruction
  <2>1. pc' = "scan" /\ row' = 1 /\ deleted_objects' = (pre').deleted /\ file' = file
    BY <1>1 DEF BeginReconstruction
  <2>2. raw_entries' = remove_uncompressed_entries((pre').raw)
    BY <1>1 DEF BeginReconstruction
  <2>3. raw_entries' = OrInsert(Scanned(file.lines, (pre').deleted, 1),
                                remove_uncompressed_entries((pre').raw))
    BY <1>b, <2>2, ScannedFirst
  <2> QED BY <2>1, <2>3 DEF ScanInv, RecoveredTable
<1>2. CASE ScanLine
  <2> DEFINE l == file.lines[row]
             e == Entry("uncompressed", <<l.pos, 0>>)
             S == Scanned(file.lines, pre.deleted, row)
             U == remove_uncompressed_entries(pre.raw)
  <2>1. row \in DOMAIN file.lines
    BY <1>2, <1>b DEF ScanLine
  <2>2. deleted_objects = pre.deleted /\ raw_entries = OrInsert(S, U)
    BY <1>2 DEF ScanLine, ScanInv
  <2>3. raw_entries' = insert_reconstructed_xref_entry(OrInsert(S, U), pre.deleted, l.key, e)
    BY <1>2, <2>2 DEF ScanLine
  <2>4. Scanned(file.lines, pre.deleted, row + 1) =
            insert_reconstructed_xref_entry(S, pre.deleted, l.key, e)
    BY <1>b, <2>1, ScannedNext
  <2>5. raw_entries' = OrInsert(Scanned(file.lines, pre.deleted, row + 1), U)
    <3> HIDE DEF S, U, l, e
    <3> QED BY <2>3, <2>4, WithOrInsert DEF insert_reconstructed_xref_entry
  <2>6. pc' = "scan" /\ row' = row + 1 /\ deleted_objects' = pre.deleted
        /\ file' = file /\ pre' = pre
    BY <1>2, <2>2 DEF ScanLine
  <2> QED BY <2>5, <2>6 DEF ScanInv, RecoveredTable
<1>3. CASE EndScan
  <2>1. pc' # "scan"
    BY <1>3 DEF EndScan
  <2>2. raw_entries = OrInsert(ScanTable, remove_uncompressed_entries(pre.raw))
    BY <1>3, <1>b, ScannedLast DEF EndScan, ScanInv, ScanTable
  <2>3. raw_entries' = raw_entries /\ pre' = pre /\ file' = file
    BY <1>3 DEF EndScan
  <2> QED BY <2>1, <2>2, <2>3 DEF ScanInv, RecoveredTable, ScanTable
<1>4. CASE pc # "loaded" /\ (FinishChain \/ FinishReentry)
  BY <1>4 DEF FinishChain, FinishReentry, PhaseInv, ScanInv, RecoveredTable
<1>5. CASE pc = "loaded" \/ UNCHANGED vars
  <2>1. UNCHANGED vars
    BY <1>5, LoadedStutters
  <2> QED BY <2>1 DEF vars, ScanInv, RecoveredTable, ScanTable
<1>6. CASE /\ pc # "loaded"
           /\ ~(BeginReconstruction \/ ScanLine \/ EndScan \/ FinishChain \/ FinishReentry)
           /\ Next
  <2>1. pc' # "loaded"
    BY <1>6, LoadedSteps
  <2>2. pc' # "scan"
    BY <1>6 DEF Next, ParseStartxref, EnterSection, ReadTableRow, ReadStreamRow, EndTable,
                EndStream, RegisterDeferredFree, FollowPrev, ReportError
  <2> QED BY <2>1, <2>2 DEF ScanInv, RecoveredTable
<1> QED BY <1>1, <1>2, <1>3, <1>4, <1>5, <1>6

-----------------------------------------------------------------------------
(* A table that was read along the chain.                                  *)

(* The table t and the deleted numbers del are those of the rows occ.      *)
Freeing(occ) ==
    {f \in occ : f.kind = "f" /\ ~\E u \in occ : InUse(u) /\ u.key = f.key /\ Before(u, f)}
Agrees(occ, t, del) ==
    /\ DOMAIN t = {o.key : o \in Newest(occ)}
    /\ \A o \in Newest(occ) : t[o.key] = EntryOf(o)
    /\ del = {f.key[1] : f \in Freeing(occ)}
    /\ \A u \in occ : InUse(u) => u.key \in DOMAIN t \/ u.key[1] \in del

(* The rows of the sections before the k-th, and those of the k-th that    *)
(* have taken effect.                                                      *)
Earlier(k) == UNION {Contributed(i, Chain[i]) : i \in 1 .. k - 1}
ReadRows(i, s, rank, n) == {o \in RowsOf(i, s, rank) : o.rank[3] < n}
Current(k) ==
    CASE pc = "section" -> {}
      [] pc = "rows" /\ ~InHybrid -> ReadRows(k, Reading, IF Section(Reading).form = "stream" THEN 2 ELSE 1, row)
      [] pc = "rows" /\ InHybrid -> RowsOf(k, Classic, 1) \cup ReadRows(k, Reading, 2, row)
      [] pc = "free" -> RowsOf(k, Reading, 1) \cup HybridRows(k, Reading)
      [] OTHER -> Contributed(k, Reading)

(* The rows of a table before n are in use or free.                        *)
Plain(s, n) == \A j \in DOMAIN Section(s).rows : j < n => Section(s).rows[j].kind \in {"n", "f"}
PlainTable(s) == Section(s).form = "table" /\ \A n \in Nat : Plain(s, n)

InSection ==
    /\ pc = "rows" /\ ~InHybrid /\ Section(Reading).form = "table" => Plain(Reading, row)
    /\ pc = "rows" /\ InHybrid =>
          /\ Classic \in Offsets /\ PlainTable(Classic)
          /\ HasHybrid(Classic) /\ Section(Classic).hybrid = Reading /\ Section(Reading).form = "stream"
    /\ pc = "free" => PlainTable(Reading)

(* The k-th section of the chain is being read.                            *)
AtSection(k) ==
    /\ k \in 1 .. ChainLength /\ file.startxref \in Offsets
    /\ visited = {Chain[i] : i \in 1 .. k} /\ Cardinality(visited) = k
    /\ Chain[k] = IF pc = "rows" /\ InHybrid THEN Classic ELSE Reading
    /\ Agrees(Earlier(k) \cup Current(k), raw_entries, deleted_objects)
    /\ InSection
    /\ pc = "finish" => \A i \in k + 1 .. ChainLength : Chain[i] = 0

SomeSection == \E k \in 1 .. ChainLength : AtSection(k)

ChainInv ==
    ~reconstructed =>
        /\ pc = "startxref" => raw_entries = EmptyTable /\ deleted_objects = {}
        /\ pc \in {"section", "rows", "free", "prev", "finish"} => SomeSection
        /\ pc = "loaded" => raw_entries = ReferenceTable

(* A row in use that comes last takes effect as insert_xref_entry does it. *)
LEMMA UseAgrees ==
    ASSUME NEW occ, NEW t, NEW del, Agrees(occ, t, del), NEW o, InUse(o),
           \A u \in occ : Before(u, o) /\ ~Before(o, u), ~Before(o, o)
    PROVE  Agrees(occ \cup {o}, insert_xref_entry(t, del, o.key, EntryOf(o)), del)
<1> DEFINE all == occ \cup {o}
           used == \E u \in occ : InUse(u) /\ u.key = o.key
<1>1. o.kind # "f"
  BY DEF InUse
<1>2. Freeing(all) = Freeing(occ)
  BY <1>1 DEF Freeing
<1>3. \A v \in occ : FreedBefore(all, v) <=> FreedBefore(occ, v)
  BY <1>1 DEF FreedBefore
<1>4. FreedBefore(all, o) <=> o.key[1] \in del
  <2>1. FreedBefore(all, o) <=> \E f \in Freeing(all) : f.key[1] = o.key[1] /\ Before(f, o)
    BY DEF FreedBefore, Freeing
  <2>2. Freeing(occ) \subseteq occ
    BY DEF Freeing
  <2> QED BY <1>2, <2>1, <2>2 DEF Agrees
<1>5. \A v \in occ : v \in Newest(all) <=> v \in Newest(occ)
  BY <1>3 DEF Newest
<1>6. o \in Newest(all) <=> o.key[1] \notin del /\ ~used
  BY <1>4 DEF Newest
<1>7. Newest(occ) \subseteq occ /\ Newest(all) \subseteq all
  BY DEF Newest
<1>8. o.key \in DOMAIN t => used
  BY <1>7 DEF Agrees, Newest
<1>9. used => o.key \in DOMAIN t \/ o.key[1] \in del
  BY DEF Agrees
<1>10. o \notin occ
  OBVIOUS
<1>11. CASE o.key[1] \in del \/ o.key \in DOMAIN t
  <2>1. Newest(all) = Newest(occ)
    BY <1>5, <1>6, <1>7, <1>8, <1>10, <1>11
  <2>2. insert_xref_entry(t, del, o.key, EntryOf(o)) = t
    BY <1>11 DEF insert_xref_entry
  <2> QED BY <1>2, <1>11, <2>1, <2>2 DEF Agrees
<1>12. CASE o.key[1] \notin del /\ o.key \notin DOMAIN t
  <2> DEFINE e == EntryOf(o)
  <2> HIDE DEF e
  <2>1. Newest(all) = Newest(occ) \cup {o}
    BY <1>5, <1>6, <1>7, <1>9, <1>12
  <2>2. insert_xref_entry(t, del, o.key, e) = [x \in DOMAIN t \cup {o.key} |-> IF x = o.key THEN e ELSE t[x]]
    BY <1>12 DEF insert_xref_entry, With
  <2> DEFINE w == insert_xref_entry(t, del, o.key, e)
  <2>3. DOMAIN w = DOMAIN t \cup {o.key} /\ \A x \in DOMAIN w : w[x] = IF x = o.key THEN e ELSE t[x]
    BY <2>2
  <2> HIDE DEF w
  <2>4. DOMAIN w = {v.key : v \in Newest(all)}
    BY ZenonT(30), <2>1, <2>3 DEF Agrees
  <2>5. \A v \in Newest(all) : w[v.key] = EntryOf(v)
    <3> SUFFICES ASSUME NEW v \in Newest(all) PROVE w[v.key] = EntryOf(v)
      OBVIOUS
    <3>1. CASE v = o
      BY <2>3, <3>1 DEF e
    <3>2. CASE v \in Newest(occ)
      <4>1. v.key \in DOMAIN t /\ t[v.key] = EntryOf(v)
        BY <3>2 DEF Agrees
      <4>2. v.key # o.key
        BY <1>12, <4>1
      <4> QED BY <2>3, <4>1, <4>2
    <3> QED BY <2>1, <3>1, <3>2
  <2>6. \A u \in all : InUse(u) => u.key \in DOMAIN w \/ u.key[1] \in del
    BY <2>3 DEF Agrees
  <2>7. del = {f.key[1] : f \in Freeing(all)}
    BY <1>2 DEF Agrees
  <2> QED BY <2>4, <2>5, <2>6, <2>7 DEF Agrees, w, e
<1> QED BY <1>11, <1>12

(* Free rows that come last delete the numbers of those whose key is not   *)
(* in the table (insert_free_xref_entry).                                  *)
LEMMA FreeAgrees ==
    ASSUME NEW occ, NEW t, NEW del, Agrees(occ, t, del), NEW free, \A f \in free : f.kind = "f",
           \A f \in free, u \in occ : Before(u, f) /\ ~Before(f, u)
    PROVE  Agrees(occ \cup free, t, del \cup {f.key[1] : f \in {g \in free : g.key \notin DOMAIN t}})
<1> DEFINE all == occ \cup free
           new == {f.key[1] : f \in {g \in free : g.key \notin DOMAIN t}}
           unused == {f \in free : ~\E u \in occ : InUse(u) /\ u.key = f.key}
<1>1. \A f \in free : ~InUse(f)
  BY DEF InUse
<1>2. \A v \in occ : FreedBefore(all, v) <=> FreedBefore(occ, v)
  BY <1>1 DEF FreedBefore
<1>3. Newest(all) = Newest(occ)
  BY <1>1, <1>2 DEF Newest
<1>4. Freeing(all) = Freeing(occ) \cup unused
  BY <1>1 DEF Freeing
<1>5. \A f \in unused : f.key \notin DOMAIN t
  BY DEF Agrees, Newest
<1>6. \A f \in free : f.key \notin DOMAIN t => f \in unused \/ f.key[1] \in del
  BY DEF Agrees
<1>7. del \cup new = {f.key[1] : f \in Freeing(all)}
  <2>1. del = {f.key[1] : f \in Freeing(occ)}
    BY DEF Agrees
  <2>2. ASSUME NEW n \in new PROVE n \in {f.key[1] : f \in Freeing(all)}
    <3>1. PICK f \in free : f.key \notin DOMAIN t /\ n = f.key[1]
      OBVIOUS
    <3>2. f \in unused \/ n \in del
      BY <1>6, <3>1
    <3> HIDE DEF all, unused, new
    <3> QED BY <1>4, <2>1, <3>1, <3>2
  <2>3. \A f \in unused : f.key[1] \in new
    BY <1>5
  <2> HIDE DEF new, unused, all
  <2> QED BY <1>4, <2>1, <2>2, <2>3
<1>8. \A u \in all : InUse(u) => u.key \in DOMAIN t \/ u.key[1] \in del \cup new
  BY <1>1 DEF Agrees
<1> HIDE DEF all, new
<1>9. Agrees(all, t, del \cup new)
  BY <1>3, <1>7, <1>8 DEF Agrees
<1> QED BY <1>9 DEF all, new

(* A row that does not decode has no effect.                               *)
LEMMA NothingAgrees ==
    ASSUME NEW occ, NEW t, NEW del, Agrees(occ, t, del), NEW o, ~InUse(o), o.kind # "f"
    PROVE  Agrees(occ \cup {o}, t, del)
<1> DEFINE all == occ \cup {o}
<1>1. Freeing(all) = Freeing(occ)
  BY DEF Freeing
<1>2. \A v \in occ : FreedBefore(all, v) <=> FreedBefore(occ, v)
  BY DEF FreedBefore
<1>3. Newest(all) = Newest(occ)
  BY <1>2 DEF Newest
<1> QED BY <1>1, <1>3 DEF Agrees

-----------------------------------------------------------------------------
(* What a row of a section says.                                           *)
LEMMA RowIs ==
    ASSUME NEW i, NEW s, NEW rank, NEW o \in RowsOf(i, s, rank)
    PROVE  \E j \in DOMAIN Section(s).rows :
               /\ rank = 2 \/ (rank = 1 <=> Section(s).rows[j].kind = "n")
               /\ o = Occurrence(i, s, rank, j)
               /\ o.rank[1] = i /\ o.rank[2] = rank /\ o.rank[3] = j
               /\ o.kind = Section(s).rows[j].kind
BY DEF RowsOf, Occurrence

(* The rows of a section are of the section's place in the chain.          *)
LEMMA ContributedRank ==
    ASSUME NEW i, NEW s, NEW o \in Contributed(i, s)
    PROVE  o.rank[1] = i /\ o.rank[2] \in {1, 2, 3}
BY RowIs DEF Contributed, HybridRows

(* Rows of sections that were read before come before those of the k-th.   *)
LEMMA EarlierBefore ==
    ASSUME NEW k \in Nat, NEW u \in Earlier(k), NEW o, o.rank[1] = k
    PROVE  Before(u, o) /\ ~Before(o, u)
<1>1. PICK i \in 1 .. k - 1 : u \in Contributed(i, Chain[i])
  BY DEF Earlier
<1>2. u.rank[1] = i /\ i < k /\ i \in Nat
  BY <1>1, ContributedRank
<1> QED BY <1>2 DEF Before

(* Within a section a row comes after those of lower rank and those before *)
(* it.                                                                     *)
LEMMA SectionBefore ==
    ASSUME NEW u, NEW o, u.rank[1] = o.rank[1], o.rank[1] \in Nat, u.rank[2] \in Nat, o.rank[2] \in Nat,
           u.rank[3] \in Nat, o.rank[3] \in Nat,
           u.rank[2] < o.rank[2] \/ (u.rank[2] = o.rank[2] /\ u.rank[3] < o.rank[3])
    PROVE  Before(u, o) /\ ~Before(o, u)
BY DEF Before

LEMMA NotBeforeItself ==
    ASSUME NEW o, o.rank[1] \in Nat, o.rank[2] \in Nat, o.rank[3] \in Nat
    PROVE  ~Before(o, o)
BY DEF Before

(* One more row read.                                                      *)
LEMMA ReadsNext ==
    ASSUME NEW i, NEW s, NEW rank, NEW n \in DOMAIN Section(s).rows, Section(s).rows \in Seq(RowSet)
    PROVE  ReadRows(i, s, rank, n + 1) =
               ReadRows(i, s, rank, n) \cup
                   IF rank = 2 \/ (rank = 1 <=> Section(s).rows[n].kind = "n")
                   THEN {Occurrence(i, s, rank, n)} ELSE {}
<1>1. DOMAIN Section(s).rows \subseteq Nat
  OBVIOUS
<1>2. \A j \in Nat : j < n + 1 <=> j < n \/ j = n
  BY <1>1
<1>3. \A j : Occurrence(i, s, rank, j).rank[3] = j
  BY DEF Occurrence
<1> QED BY <1>1, <1>2, <1>3 DEF ReadRows, RowsOf

(* The same of a table's rows in use and of a stream's rows.               *)
LEMMA ReadsNextOf ==
    ASSUME NEW i, NEW s, NEW n \in DOMAIN Section(s).rows, Section(s).rows \in Seq(RowSet)
    PROVE  /\ ReadRows(i, s, 1, n + 1) =
                  IF Section(s).rows[n].kind = "n" THEN ReadRows(i, s, 1, n) \cup {Occurrence(i, s, 1, n)}
                  ELSE ReadRows(i, s, 1, n)
           /\ ReadRows(i, s, 2, n + 1) = ReadRows(i, s, 2, n) \cup {Occurrence(i, s, 2, n)}
<1> DEFINE added(rank) == IF rank = 2 \/ (rank = 1 <=> Section(s).rows[n].kind = "n")
                          THEN {Occurrence(i, s, rank, n)} ELSE {}
<1>1. \A rank : ReadRows(i, s, rank, n + 1) = ReadRows(i, s, rank, n) \cup added(rank)
  BY ReadsNext
<1>2. added(1) = (IF Section(s).rows[n].kind = "n" THEN {Occurrence(i, s, 1, n)} ELSE {}) /\ added(2) = {Occurrence(i, s, 2, n)}
  OBVIOUS
<1> HIDE DEF added
<1> QED BY <1>1, <1>2

(* None read, and all read.                                                *)
LEMMA ReadsNoneAll ==
    ASSUME NEW i, NEW s, NEW rank, Section(s).rows \in Seq(RowSet), NEW n \in Nat
    PROVE  /\ ReadRows(i, s, rank, 1) = {}
           /\ n > Len(Section(s).rows) => ReadRows(i, s, rank, n) = RowsOf(i, s, rank)
<1>1. DOMAIN Section(s).rows = 1 .. Len(Section(s).rows) /\ Len(Section(s).rows) \in Nat
  OBVIOUS
<1>2. \A o \in RowsOf(i, s, rank) : o.rank[3] \in 1 .. Len(Section(s).rows)
  BY <1>1, RowIs
<1> QED BY <1>1, <1>2 DEF ReadRows

(* The chain, section by section.                                          *)
LEMMA ChainIs ==
    ASSUME TypeOK, file.startxref \in Offsets
    PROVE  /\ ChainLength \in Nat \ {0} /\ DOMAIN Chain = 1 .. ChainLength
           /\ Chain[1] = file.startxref
           /\ \A i \in 2 .. ChainLength :
                 Chain[i] = IF Chain[i - 1] = 0 \/ Section(Chain[i - 1]).prev < 1 THEN 0
                            ELSE Section(Chain[i - 1]).prev
<1> DEFINE L == ChainLength
           V == Offsets \cup {0}
           next == [v \in V |-> IF v = 0 \/ Section(v).prev < 1 THEN 0 ELSE Section(v).prev]
<1>1. L \in Nat /\ L >= 1
  <2>1. IsFiniteSet(Offsets) /\ Offsets # {}
    BY OffsetsAssumption
  <2> QED BY <2>1, FS_CardinalityType, FS_EmptySet DEF ChainLength
<1>2. next \in [V -> V]
  <2> SUFFICES ASSUME NEW v \in V, v # 0, ~(Section(v).prev < 1) PROVE Section(v).prev \in V
    OBVIOUS
  <2>1. v \in Offsets
    OBVIOUS
  <2>2. Section(v).prev \in Offsets \cup {-1, 0}
    BY <2>1, FileTypes
  <2> QED BY <2>2
<1>3. \A v \in V : next[v] = IF v = 0 \/ Section(v).prev < 1 THEN 0 ELSE Section(v).prev
  OBVIOUS
<1> HIDE DEF next, V
<1> DEFINE step == [i \in 1 .. L - 1 |-> next]
<1>4. file.startxref \in V /\ L - 1 \in Nat /\ step \in [1 .. L - 1 -> [V -> V]]
  BY <1>1, <1>2 DEF V
<1>5. PICK f : f \in [0 .. L - 1 -> V] /\ f[0] = file.startxref /\ \A i \in 1 .. L - 1 : f[i] = step[i][f[i - 1]]
  <2> HIDE DEF step
  <2>1. \E f : Recursion(f, L - 1, V, file.startxref, step)
    BY <1>4, RecursionExists
  <2> QED BY <2>1 DEF Recursion
<1> DEFINE g == [i \in 1 .. L |-> f[i - 1]]
<1>6. \A i \in 1 .. L : g[i] \in V
  BY <1>1, <1>5
<1>7. \A i \in 2 .. L : g[i] = next[g[i - 1]]
  <2> SUFFICES ASSUME NEW i \in 2 .. L PROVE g[i] = next[g[i - 1]]
    OBVIOUS
  <2>1. i - 1 \in 1 .. L - 1 /\ i - 1 \in 1 .. L /\ i \in 1 .. L
    BY <1>1
  <2>2. f[i - 1] = next[f[i - 1 - 1]]
    BY <1>5, <2>1
  <2> QED BY <2>1, <2>2
<1>8. g[1] = file.startxref
  BY <1>1, <1>5
<1> DEFINE body(h, i) == IF i = 1 THEN file.startxref
                         ELSE IF h[i - 1] = 0 \/ Section(h[i - 1]).prev < 1 THEN 0
                         ELSE Section(h[i - 1]).prev
<1>9. \A i \in 1 .. L : g[i] = body(g, i)
  <2> SUFFICES ASSUME NEW i \in 1 .. L, i # 1 PROVE g[i] = next[g[i - 1]] /\ g[i - 1] \in V
    BY <1>3, <1>8
  <2>1. i \in 2 .. L /\ i - 1 \in 1 .. L
    BY <1>1
  <2> HIDE DEF g
  <2> QED BY <1>6, <1>7, <2>1
<1>10. g = [i \in 1 .. L |-> body(g, i)]
  <2>1. g = [i \in 1 .. L |-> g[i]]
    OBVIOUS
  <2> HIDE DEF g, body
  <2> QED BY <1>9, <2>1
<1>11. Chain = CHOOSE c : c = [i \in 1 .. L |-> body(c, i)]
  BY DEF Chain
<1>12. Chain = [i \in 1 .. L |-> body(Chain, i)]
  <2> HIDE DEF g, L, body
  <2> QED BY <1>10, <1>11
<1> QED BY <1>1, <1>12

(* Once the chain has ended it has no more sections.                       *)
LEMMA ChainEnds ==
    ASSUME TypeOK, file.startxref \in Offsets, NEW k \in 1 .. ChainLength,
           k < ChainLength => Chain[k + 1] = 0
    PROVE  \A i \in k + 1 .. ChainLength : Chain[i] = 0
<1> DEFINE S == {n \in Nat : k + 1 + n <= ChainLength => Chain[k + 1 + n] = 0}
<1>1. ChainLength \in Nat
  BY ChainIs
<1>2. 0 \in S
  BY <1>1
<1>3. ASSUME NEW n \in Nat, n \in S PROVE n + 1 \in S
  <2> SUFFICES ASSUME k + 1 + (n + 1) <= ChainLength PROVE Chain[k + 1 + (n + 1)] = 0
    OBVIOUS
  <2>1. k + 1 + (n + 1) \in 2 .. ChainLength /\ k + 1 + (n + 1) - 1 = k + 1 + n /\ k + 1 + n <= ChainLength
    BY <1>1
  <2>2. Chain[k + 1 + n] = 0
    BY <1>3, <2>1
  <2> QED BY <2>1, <2>2, ChainIs
<1>4. Nat \subseteq S
  <2> HIDE DEF S
  <2> QED BY <1>2, <1>3, SetInduction
<1> SUFFICES ASSUME NEW i \in k + 1 .. ChainLength PROVE Chain[i] = 0
  OBVIOUS
<1>5. i - (k + 1) \in Nat /\ k + 1 + (i - (k + 1)) = i /\ i <= ChainLength
  BY <1>1
<1> QED BY <1>4, <1>5

(* What depends only on the file and the options stays.                    *)
LEMMA Steady ==
    ASSUME UNCHANGED <<file, opts>>
    PROVE  /\ Chain' = Chain /\ ReferenceTable' = ReferenceTable
           /\ \A s : Section(s)' = Section(s) /\ HasHybrid(s)' = HasHybrid(s) /\ PlainTable(s)' = PlainTable(s)
           /\ \A s, n : Plain(s, n)' = Plain(s, n)
           /\ \A i, s, rank : RowsOf(i, s, rank)' = RowsOf(i, s, rank)
           /\ \A i, s, rank, n : ReadRows(i, s, rank, n)' = ReadRows(i, s, rank, n)
           /\ \A i, s : HybridRows(i, s)' = HybridRows(i, s) /\ Contributed(i, s)' = Contributed(i, s)
           /\ \A k : Earlier(k)' = Earlier(k)
<1>1. \A s : Section(s)' = Section(s)
  BY DEF Section
<1>2. Chain' = Chain
  BY DEF Chain, Section
<1>3. \A s : HasHybrid(s)' = HasHybrid(s)
  BY <1>1 DEF HasHybrid
<1>4. \A s, n : Plain(s, n)' = Plain(s, n)
  BY <1>1 DEF Plain
<1>5. \A s : PlainTable(s)' = PlainTable(s)
  BY <1>1, <1>4 DEF PlainTable
<1>6. \A i, s, rank : RowsOf(i, s, rank)' = RowsOf(i, s, rank)
  BY <1>1 DEF RowsOf, Occurrence
<1>7. \A i, s, rank, n : ReadRows(i, s, rank, n)' = ReadRows(i, s, rank, n)
  BY <1>6 DEF ReadRows
<1>8. \A i, s : HybridRows(i, s)' = HybridRows(i, s)
  BY <1>1, <1>3, <1>6 DEF HybridRows
<1>9. \A i, s : Contributed(i, s)' = Contributed(i, s)
  BY <1>1, <1>6, <1>8 DEF Contributed
<1>10. \A k : Earlier(k)' = Earlier(k)
  BY <1>2, <1>9 DEF Earlier
<1>11. Occurrences' = Occurrences
  BY <1>2, <1>9 DEF Occurrences
<1>12. ReferenceTable' = ReferenceTable
  BY <1>11 DEF ReferenceTable
<1> QED BY <1>1, <1>2, <1>3, <1>4, <1>5, <1>6, <1>7, <1>8, <1>9, <1>10, <1>12

(* The rows that have taken effect come before the next one.               *)
LEMMA BeforeNext ==
    ASSUME NEW k \in Nat, NEW rank \in {1, 2}, NEW n \in Nat, NEW s, NEW c, Section(s).rows \in Seq(RowSet),
           c \in SUBSET (RowsOf(k, s, rank) \cup {o \in RowsOf(k, Classic, 1) : rank = 2}),
           \A o \in c : o.rank[2] = rank => o.rank[3] < n,
           Section(Classic).rows \in Seq(RowSet) \/ rank = 1,
           NEW u \in Earlier(k) \cup c
    PROVE  Before(u, Occurrence(k, s, rank, n)) /\ ~Before(Occurrence(k, s, rank, n), u)
<1> DEFINE o == Occurrence(k, s, rank, n)
<1>1. o.rank[1] = k /\ o.rank[2] = rank /\ o.rank[3] = n
  BY DEF Occurrence
<1> HIDE DEF o
<1>2. CASE u \in Earlier(k)
  BY <1>1, <1>2, EarlierBefore DEF o
<1>3. CASE u \in c /\ u \in RowsOf(k, s, rank)
  <2>1. u.rank[1] = k /\ u.rank[2] = rank /\ u.rank[3] \in Nat /\ u.rank[3] < n
    BY <1>3, RowIs
  <2> QED BY <1>1, <2>1, SectionBefore DEF o
<1>4. CASE u \in c /\ u \in RowsOf(k, Classic, 1) /\ rank = 2
  <2>1. u.rank[1] = k /\ u.rank[2] = 1 /\ u.rank[3] \in Nat
    BY <1>4, RowIs
  <2> QED BY SMTT(30), <1>1, <1>4, <2>1, SectionBefore DEF o
<1> QED BY <1>2, <1>3, <1>4

(* The occurrence of a row as the loader registers it.                     *)
LEMMA OccurrenceIs ==
    ASSUME NEW k, NEW s, NEW rank, NEW n
    PROVE  LET o == Occurrence(k, s, rank, n)
               r == Section(s).rows[n]
           IN  /\ o.kind = r.kind /\ o.at = <<s, n>>
               /\ o.key = IF rank = 2 THEN StreamKey(r) ELSE r.key
               /\ o.rank[1] = k /\ o.rank[2] = rank /\ o.rank[3] = n
BY DEF Occurrence

(* The first section.                                                      *)
LEMMA FirstSection ==
    ASSUME TypeInv, ChainInv, ~reconstructed, ParseStartxref, pc' = "section"
    PROVE  AtSection(1)'
<1>1. TypeOK /\ file.startxref \in Offsets
  BY OffsetsAssumption, FilesAssumption DEF TypeInv, TypeOK, FileSet, ParseStartxref
<1>2. UNCHANGED <<file, opts>> /\ cur' = <<file.startxref, 0>> /\ visited' = {file.startxref}
  BY <1>1 DEF ParseStartxref
<1>3. raw_entries' = EmptyTable /\ deleted_objects' = {}
  BY DEF ChainInv, ParseStartxref
<1>4. Chain[1] = file.startxref /\ 1 \in 1 .. ChainLength
  BY <1>1, ChainIs
<1>5. Earlier(1) = {}
  BY DEF Earlier
<1>6. Current(1)' = {} /\ InSection'
  BY DEF Current, InSection
<1>7. Agrees({}, EmptyTable, {})
  BY DEF Agrees, EmptyTable, Newest, Freeing
<1>8. Cardinality({file.startxref}) = 1 /\ 1 .. 1 = {1}
  <2>1. Cardinality({file.startxref}) = 1
    BY FS_Singleton
  <2>2. 1 .. 1 = {1}
    OBVIOUS
  <2> QED BY <2>1, <2>2
<1>9. Chain' = Chain /\ Earlier(1)' = Earlier(1)
  BY <1>2, Steady
<1>10. Agrees((Earlier(1) \cup Current(1))', raw_entries', deleted_objects')
  BY <1>3, <1>5, <1>6, <1>7, <1>9
<1>11. Reading' = file.startxref
  BY <1>2 DEF Reading
<1>12. {Chain[i] : i \in 1 .. 1} = {file.startxref}
  BY <1>4, <1>8
<1>13. ChainLength' = ChainLength
  BY DEF ChainLength
<1> QED BY <1>1, <1>2, <1>4, <1>6, <1>8, <1>9, <1>10, <1>11, <1>12, <1>13 DEF AtSection

(* What every section that is being read has.                              *)
LEMMA SectionFacts ==
    ASSUME TypeInv, NEW k, AtSection(k), pc \in {"section", "rows", "free", "prev", "finish"}
    PROVE  /\ k \in Nat \ {0} /\ k \in 1 .. ChainLength /\ ChainLength \in Nat /\ ChainLength' = ChainLength
           /\ file.startxref \in Offsets /\ Chain[k] \in Offsets /\ Section(Chain[k]).rows \in Seq(RowSet)
           /\ pc # "finish" => Reading \in Offsets /\ Section(Reading).rows \in Seq(RowSet)
           /\ visited = {Chain[i] : i \in 1 .. k} /\ Cardinality(visited) = k
           /\ Chain[k] = IF pc = "rows" /\ InHybrid THEN Classic ELSE Reading
           /\ Agrees(Earlier(k) \cup Current(k), raw_entries, deleted_objects)
           /\ InSection
<1>1. TypeOK /\ PcInv /\ IsFiniteSet(Offsets)
  BY OffsetsAssumption DEF TypeInv
<1>2. k \in 1 .. ChainLength /\ ChainLength \in Nat
  BY <1>1, FS_CardinalityType DEF AtSection, ChainLength
<1>3. Chain[k] \in visited
  BY <1>2 DEF AtSection
<1>4. Chain[k] \in Offsets
  BY <1>1, <1>3 DEF TypeOK
<1>5. pc # "finish" => Reading \in Offsets
  BY <1>1 DEF PcInv
<1>6. ChainLength' = ChainLength
  BY DEF ChainLength
<1> QED BY <1>1, <1>2, <1>4, <1>5, <1>6, FileTypes DEF AtSection

(* A step within the k-th section.                                         *)
LEMMA WithinSection ==
    ASSUME TypeInv, NEW k, AtSection(k), pc \in {"section", "rows", "free", "prev"}, pc' # "finish",
           UNCHANGED <<file, opts, visited>>,
           Chain[k] = IF pc' = "rows" /\ InHybrid' THEN Classic' ELSE Reading',
           Agrees(Earlier(k) \cup Current(k)', raw_entries', deleted_objects'), InSection'
    PROVE  AtSection(k)'
<1>1. Chain' = Chain /\ Earlier(k)' = Earlier(k)
  BY Steady
<1>2. ChainLength' = ChainLength /\ visited' = visited /\ file' = file
  BY DEF ChainLength
<1>3. Agrees((Earlier(k) \cup Current(k))', raw_entries', deleted_objects')
  BY <1>1
<1> QED BY <1>1, <1>2, <1>3 DEF AtSection

(* EnterSection, as far as it can enter.                                   *)
LEMMA EntersSection ==
    ASSUME TypeInv, NEW k, AtSection(k), EnterSection, pc' = "rows"
    PROVE  AtSection(k)'
<1>1. pc = "section" /\ row' = 1 /\ UNCHANGED <<file, opts, visited, cur, raw_entries, deleted_objects>>
  BY DEF EnterSection
<1>2. ~InHybrid /\ ~InHybrid' /\ Reading' = Reading
  BY <1>1 DEF TypeInv, PcInv, InHybrid, Classic, Reading
<1>3. Section(Reading).rows \in Seq(RowSet) /\ Chain[k] = Reading /\ Agrees(Earlier(k) \cup Current(k), raw_entries, deleted_objects)
  BY <1>1, SectionFacts
<1>4. Current(k) = {}
  BY <1>1 DEF Current
<1>5. Current(k)' = {}
  <2>1. \A rank : ReadRows(k, Reading, rank, 1) = {}
    BY <1>3, ReadsNoneAll
  <2>2. \A rank : ReadRows(k, Reading, rank, 1)' = {}
    BY <1>1, <2>1, Steady
  <2>3. Current(k)' = ReadRows(k, Reading, IF Section(Reading).form = "stream" THEN 2 ELSE 1, 1)'
    BY <1>1, <1>2 DEF Current
  <2> QED BY <2>2, <2>3
<1>6. Plain(Reading, 1)
  <2>1. DOMAIN Section(Reading).rows = 1 .. Len(Section(Reading).rows)
    BY <1>3
  <2> QED BY <2>1 DEF Plain
<1>7. InSection'
  <2>1. Plain(Reading, 1)'
    BY <1>1, <1>2, <1>6, Steady
  <2> QED BY <1>1, <1>2, <2>1 DEF InSection
<1> QED BY <1>1, <1>2, <1>3, <1>4, <1>5, <1>7, WithinSection

(* ReadTableRow, as far as the row is readable.                            *)
LEMMA ReadsTableRow ==
    ASSUME TypeInv, NEW k, AtSection(k), ReadTableRow, pc' = "rows"
    PROVE  AtSection(k)'
<1> DEFINE r == Section(Reading).rows[row]
           o == Occurrence(k, Reading, 1, row)
           done == ReadRows(k, Reading, 1, row)
           next == ReadRows(k, Reading, 1, row + 1)
<1>1. /\ pc = "rows" /\ row' = row + 1 /\ UNCHANGED <<file, opts, visited, cur, deleted_objects>>
      /\ Section(Reading).form = "table" /\ row <= Len(Section(Reading).rows)
      /\ r.kind \in {"n", "f"}
      /\ raw_entries' = IF r.kind = "n" THEN insert_xref_entry(raw_entries, deleted_objects, r.key,
                                                 Entry("uncompressed", <<Reading, row>>))
                        ELSE raw_entries
  BY DEF ReadTableRow
<1>2. /\ k \in Nat /\ Section(Reading).rows \in Seq(RowSet) /\ InSection
      /\ Chain[k] = IF InHybrid THEN Classic ELSE Reading
      /\ Agrees(Earlier(k) \cup Current(k), raw_entries, deleted_objects)
  BY <1>1, SectionFacts
<1>3. ~InHybrid /\ Plain(Reading, row)
  BY <1>1, <1>2 DEF InSection
<1>4. Current(k) = done
  BY <1>1, <1>3 DEF Current
<1>5. row \in Nat /\ row \in DOMAIN Section(Reading).rows
  BY <1>1, <1>2 DEF TypeInv, TypeOK
<1>6. Reading' = Reading /\ InHybrid' = InHybrid
  BY <1>1 DEF Reading, InHybrid, Classic
<1>7. Current(k)' = next
  <2>1. Section(Reading)' = Section(Reading)
    BY <1>1 DEF Section, Reading
  <2>2. Current(k)' = ReadRows(k, Reading, 1, row)'
    BY <1>1, <1>3, <1>6, <2>1 DEF Current
  <2>3. ReadRows(k, Reading, 1, row)' = ReadRows(k, Reading, 1, row')
    BY <1>1, <1>6, Steady
  <2> QED BY <1>1, <2>2, <2>3
<1>8. next = IF r.kind = "n" THEN done \cup {o} ELSE done
  <2>1. Section(Reading).rows \in Seq(RowSet)
    BY <1>2
  <2> QED BY ZenonT(30), <1>5, <2>1, ReadsNextOf
<1>9. Agrees(Earlier(k) \cup next, raw_entries', deleted_objects)
  <2>1. CASE r.kind = "n"
    <3> DEFINE occ == Earlier(k) \cup done
    <3>1. \A u \in occ : Before(u, o) /\ ~Before(o, u)
      <4>1. done \in SUBSET RowsOf(k, Reading, 1) /\ \A v \in done : v.rank[3] < row
        BY DEF ReadRows
      <4> HIDE DEF done, o
      <4> QED BY <1>2, <1>5, <4>1, BeforeNext DEF o
    <3>2. o.key = r.key /\ o.kind = "n" /\ EntryOf(o) = Entry("uncompressed", <<Reading, row>>)
      BY <2>1, OccurrenceIs DEF EntryOf
    <3>3. ~Before(o, o)
      BY <1>2, <1>5, OccurrenceIs, NotBeforeItself
    <3>4. Agrees(occ, raw_entries, deleted_objects) /\ Earlier(k) \cup next = occ \cup {o}
      BY <1>2, <1>4, <1>8, <2>1
    <3> HIDE DEF o, occ, next
    <3>5. InUse(o)
      BY <3>2 DEF InUse
    <3>6. Agrees(occ \cup {o}, insert_xref_entry(raw_entries, deleted_objects, o.key, EntryOf(o)), deleted_objects)
      BY <3>1, <3>3, <3>4, <3>5, UseAgrees
    <3> QED BY <1>1, <2>1, <3>2, <3>4, <3>6
  <2>2. CASE r.kind # "n"
    BY <1>1, <1>2, <1>4, <1>8, <2>2
  <2> QED BY <2>1, <2>2
<1>10. InSection'
  <2>1. Plain(Reading, row + 1)
    <3> SUFFICES ASSUME NEW j \in DOMAIN Section(Reading).rows, j < row + 1
                 PROVE  Section(Reading).rows[j].kind \in {"n", "f"}
      BY DEF Plain
    <3>1. j \in Nat
      BY <1>2
    <3>2. j < row \/ j = row
      BY <1>5, <3>1
    <3> QED BY <1>1, <1>3, <3>2 DEF Plain
  <2>2. Plain(Reading, row)'
    BY <1>1, <1>6, <2>1, Steady
  <2> QED BY <1>1, <1>3, <1>6, <2>2 DEF InSection
<1> HIDE DEF next
<1>11. Agrees(Earlier(k) \cup Current(k)', raw_entries', deleted_objects')
  BY <1>1, <1>7, <1>9
<1>12. Chain[k] = IF pc' = "rows" /\ InHybrid' THEN Classic' ELSE Reading'
  BY <1>2, <1>3, <1>6
<1> QED BY <1>1, <1>10, <1>11, <1>12, WithinSection

(* The rows of the k-th section that took effect before its stream's.      *)
Behind(k) == IF InHybrid THEN RowsOf(k, Classic, 1) ELSE {}

(* A row of a stream, as far as its type is known: what it changes is what *)
(* it says (parse_xref_entries).                                           *)
LEMMA StreamRowAgrees ==
    ASSUME NEW occ, Agrees(occ, raw_entries, deleted_objects), ReadStreamRow, pc' = "rows",
           NEW o, LET r == Section(Reading).rows[row]
                  IN  o.kind = r.kind /\ o.at = <<Reading, row>> /\ o.key = StreamKey(r),
           Section(Reading).rows[row].kind \in {"n", "c", "f", "x"},
           \A u \in occ : Before(u, o) /\ ~Before(o, u), ~Before(o, o)
    PROVE  Agrees(occ \cup {o}, raw_entries', deleted_objects')
<1> DEFINE r == Section(Reading).rows[row]
           skip == o.key[1] \in deleted_objects \/ o.key \in DOMAIN raw_entries
<1>1. o.kind = r.kind /\ o.at = <<Reading, row>> /\ o.key = StreamKey(r) /\ r.kind \in {"n", "c", "f", "x"}
  OBVIOUS
<1>2. raw_entries' = IF r.kind = "f" THEN raw_entries
                     ELSE insert_xref_entry(raw_entries, deleted_objects, o.key,
                              Entry(StreamType(r.kind), <<Reading, row>>))
  BY <1>1 DEF ReadStreamRow
<1>3. deleted_objects' = IF r.kind = "f" /\ ~skip
                         THEN insert_free_xref_entry(raw_entries, deleted_objects, o.key)
                         ELSE deleted_objects
  BY <1>1 DEF ReadStreamRow
<1>4. r.kind = "x" => skip
  BY <1>1 DEF ReadStreamRow
<1> HIDE DEF r
<1>5. CASE r.kind \in {"n", "c"}
  <2>1. EntryOf(o) = Entry(StreamType(r.kind), <<Reading, row>>)
    BY <1>1, <1>5 DEF EntryOf, StreamType
  <2>2. InUse(o)
    BY <1>1, <1>5 DEF InUse
  <2>3. Agrees(occ \cup {o}, insert_xref_entry(raw_entries, deleted_objects, o.key, EntryOf(o)), deleted_objects)
    BY <2>2, UseAgrees
  <2> QED BY <1>2, <1>3, <1>5, <2>1, <2>3
<1>6. CASE r.kind = "f"
  <2> DEFINE new == {f.key[1] : f \in {g \in {o} : g.key \notin DOMAIN raw_entries}}
  <2>1. Agrees(occ \cup {o}, raw_entries, deleted_objects \cup new)
    <3>1. \A f \in {o} : f.kind = "f"
      BY <1>1, <1>6
    <3>2. \A f \in {o}, u \in occ : Before(u, f) /\ ~Before(f, u)
      OBVIOUS
    <3> QED BY <3>1, <3>2, FreeAgrees
  <2>2. deleted_objects' = deleted_objects \cup new
    <3>1. CASE o.key \in DOMAIN raw_entries
      BY <1>3, <3>1
    <3>2. CASE o.key \notin DOMAIN raw_entries
      <4>1. new = {o.key[1]}
        BY <3>2
      <4> HIDE DEF new
      <4> QED BY <1>3, <1>6, <3>2, <4>1 DEF insert_free_xref_entry
    <3> QED BY <3>1, <3>2
  <2> QED BY <1>2, <1>6, <2>1, <2>2
<1>7. CASE r.kind = "x"
  <2>1. raw_entries' = raw_entries /\ deleted_objects' = deleted_objects
    BY <1>2, <1>3, <1>4, <1>7 DEF insert_xref_entry
  <2>2. ~InUse(o) /\ o.kind # "f"
    BY <1>1, <1>7 DEF InUse
  <2> QED BY <2>1, <2>2, NothingAgrees
<1> QED BY <1>1, <1>5, <1>6, <1>7

(* ReadStreamRow, as far as the row is readable.                           *)
LEMMA ReadsStreamRow ==
    ASSUME TypeInv, NEW k, AtSection(k), ReadStreamRow, pc' = "rows"
    PROVE  AtSection(k)'
<1> DEFINE o == Occurrence(k, Reading, 2, row)
           done == ReadRows(k, Reading, 2, row)
           next == ReadRows(k, Reading, 2, row + 1)
           occ == Earlier(k) \cup (Behind(k) \cup done)
<1>1. /\ pc = "rows" /\ row' = row + 1 /\ UNCHANGED <<file, opts, visited, cur>>
      /\ Section(Reading).form = "stream" /\ row <= Len(Section(Reading).rows)
  BY DEF ReadStreamRow
<1>2. /\ k \in Nat /\ Reading \in Offsets /\ Section(Reading).rows \in Seq(RowSet) /\ InSection
      /\ Chain[k] = IF InHybrid THEN Classic ELSE Reading
      /\ Agrees(Earlier(k) \cup Current(k), raw_entries, deleted_objects)
  BY <1>1, SectionFacts
<1>3. Current(k) = Behind(k) \cup done
  BY <1>1 DEF Current, Behind
<1>4. row \in Nat /\ row \in DOMAIN Section(Reading).rows
  BY <1>1, <1>2 DEF TypeInv, TypeOK
<1>5. Reading' = Reading /\ InHybrid' = InHybrid /\ Classic' = Classic
  BY <1>1 DEF Reading, InHybrid, Classic
<1>6. Current(k)' = Behind(k) \cup next
  <2>1. Section(Reading)' = Section(Reading)
    BY <1>1 DEF Section, Reading
  <2>2. Current(k)' = Behind(k)' \cup ReadRows(k, Reading, 2, row)'
    BY <1>1, <1>5, <2>1 DEF Current, Behind
  <2>3. ReadRows(k, Reading, 2, row)' = ReadRows(k, Reading, 2, row')
    BY <1>1, <1>5, Steady
  <2>4. RowsOf(k, Classic, 1)' = RowsOf(k, Classic, 1)
    BY <1>1, <1>5, Steady
  <2>5. Behind(k)' = Behind(k)
    BY <1>5, <2>4 DEF Behind
  <2> QED BY <1>1, <2>2, <2>3, <2>5
<1>7. next = done \cup {o}
  BY <1>2, <1>4, ReadsNextOf
<1>8. \A u \in occ : Before(u, o) /\ ~Before(o, u)
  <2> DEFINE c == Behind(k) \cup done
  <2>1. done \in SUBSET RowsOf(k, Reading, 2) /\ \A v \in done : v.rank[3] < row
    BY DEF ReadRows
  <2>2. \A v \in Behind(k) : v \in RowsOf(k, Classic, 1) /\ v.rank[2] = 1
    BY RowIs DEF Behind
  <2>3. c \in SUBSET (RowsOf(k, Reading, 2) \cup {v \in RowsOf(k, Classic, 1) : 2 = 2})
    BY <2>1, <2>2
  <2>4. \A v \in c : v.rank[2] = 2 => v.rank[3] < row
    BY <2>1, <2>2
  <2> HIDE DEF c, o
  <2>5. CASE ~InHybrid
    <3>1. c \in SUBSET RowsOf(k, Reading, 2)
      BY <2>1, <2>5 DEF c, Behind
    <3> SUFFICES ASSUME NEW u \in Earlier(k) \cup c PROVE Before(u, o) /\ ~Before(o, u)
      BY DEF c
    <3>2. o.rank[1] = k /\ o.rank[2] = 2 /\ o.rank[3] = row
      BY OccurrenceIs DEF o
    <3>3. CASE u \in Earlier(k)
      BY <1>2, <3>2, <3>3, EarlierBefore
    <3>4. CASE u \in c
      <4>1. u.rank[1] = k /\ u.rank[2] = 2 /\ u.rank[3] \in Nat /\ u.rank[3] < row
        BY <1>2, <2>4, <3>1, <3>4, RowIs
      <4> QED BY <1>2, <1>4, <3>2, <4>1, SectionBefore
    <3> QED BY <3>3, <3>4
  <2>6. CASE InHybrid
    <3>1. Section(Classic).rows \in Seq(RowSet)
      BY <1>1, <1>2, <2>6, FileTypes DEF InSection, TypeInv
    <3> QED BY <1>2, <1>4, <2>3, <2>4, <3>1, BeforeNext DEF c, o
  <2> QED BY <2>5, <2>6
<1>9. Agrees(Earlier(k) \cup (Behind(k) \cup next), raw_entries', deleted_objects')
  <2>1. ~Before(o, o)
    BY <1>2, <1>4, OccurrenceIs, NotBeforeItself
  <2>2. Agrees(occ, raw_entries, deleted_objects)
    BY <1>2, <1>3
  <2>3. LET r == Section(Reading).rows[row]
        IN  o.kind = r.kind /\ o.at = <<Reading, row>> /\ o.key = StreamKey(r)
    BY OccurrenceIs
  <2>4. Section(Reading).rows[row].kind \in {"n", "c", "f", "x"}
    <3>1. Section(Reading).rows[row] \in RowSet
      BY <1>2, <1>4, FileTypes DEF TypeInv
    <3> QED BY <3>1 DEF RowSet
  <2>5. Earlier(k) \cup (Behind(k) \cup next) = occ \cup {o}
    BY <1>7
  <2> HIDE DEF o, occ, next
  <2>6. Agrees(occ \cup {o}, raw_entries', deleted_objects')
    BY <1>8, <2>1, <2>2, <2>3, <2>4, StreamRowAgrees
  <2> QED BY <2>5, <2>6
<1> HIDE DEF next
<1>10. InSection'
  <2>1. CASE ~InHybrid
    <3>1. Section(Reading)' = Section(Reading)
      BY <1>1 DEF Section, Reading
    <3> QED BY <1>1, <1>5, <2>1, <3>1 DEF InSection
  <2>2. CASE InHybrid
    <3>1. /\ Classic \in Offsets /\ PlainTable(Classic)
          /\ HasHybrid(Classic) /\ Section(Classic).hybrid = Reading
      BY <1>1, <1>2, <2>2 DEF InSection
    <3>2. PlainTable(Classic)' /\ HasHybrid(Classic)'
      BY <1>1, <1>5, <3>1, Steady
    <3>3. Section(Classic)' = Section(Classic) /\ Section(Reading)' = Section(Reading)
      BY <1>1 DEF Section, Reading, Classic
    <3> QED BY <1>1, <1>5, <2>2, <3>1, <3>2, <3>3 DEF InSection
  <2> QED BY <2>1, <2>2
<1>11. Agrees(Earlier(k) \cup Current(k)', raw_entries', deleted_objects')
  BY <1>6, <1>9
<1>12. Chain[k] = IF pc' = "rows" /\ InHybrid' THEN Classic' ELSE Reading'
  BY <1>2, <1>5
<1> QED BY <1>1, <1>10, <1>11, <1>12, WithinSection

(* EndTable, to its free rows or to its hybrid stream.                     *)
LEMMA EndsTable ==
    ASSUME TypeInv, NEW k, AtSection(k), EndTable, pc' # "error"
    PROVE  AtSection(k)'
<1> DEFINE s == Reading
<1>1. /\ pc = "rows" /\ UNCHANGED <<file, opts, visited, raw_entries, deleted_objects>>
      /\ Section(s).form = "table" /\ row > Len(Section(s).rows)
  BY DEF EndTable
<1>2. /\ k \in Nat /\ s \in Offsets /\ Section(s).rows \in Seq(RowSet) /\ InSection /\ row \in Nat
      /\ Chain[k] = IF InHybrid THEN Classic ELSE Reading
      /\ Agrees(Earlier(k) \cup Current(k), raw_entries, deleted_objects)
  BY <1>1, SectionFacts DEF TypeInv, TypeOK
<1>3. ~InHybrid /\ Plain(s, row)
  BY <1>1, <1>2 DEF InSection
<1>4. Current(k) = RowsOf(k, s, 1)
  BY <1>1, <1>2, <1>3, ReadsNoneAll DEF Current
<1>5. PlainTable(s)
  <2>1. DOMAIN Section(s).rows = 1 .. Len(Section(s).rows) /\ Len(Section(s).rows) \in Nat
    BY <1>2
  <2>2. \A j \in DOMAIN Section(s).rows : Section(s).rows[j].kind \in {"n", "f"}
    BY <1>1, <1>2, <1>3, <2>1 DEF Plain
  <2> QED BY <1>1, <2>2 DEF PlainTable, Plain
<1>6. CASE pc' = "free" /\ cur' = cur /\ ~HasHybrid(s)
  <2>1. Reading' = Reading
    BY <1>6 DEF Reading
  <2>2. RowsOf(k, Reading, 1)' = RowsOf(k, Reading, 1) /\ HybridRows(k, Reading)' = HybridRows(k, Reading)
    BY <1>1, <2>1, Steady
  <2>3. HybridRows(k, Reading) = {}
    BY <1>6 DEF HybridRows
  <2>4. Current(k)' = Current(k)
    BY <1>4, <1>6, <2>2, <2>3 DEF Current
  <2>5. PlainTable(Reading)'
    BY <1>1, <1>5, <2>1, Steady
  <2>6. InSection'
    BY <1>6, <2>5 DEF InSection
  <2>7. Agrees(Earlier(k) \cup Current(k)', raw_entries', deleted_objects')
    BY <1>1, <1>2, <2>4
  <2> QED BY <1>1, <1>2, <1>3, <1>6, <2>1, <2>6, <2>7, WithinSection
<1>7. CASE /\ pc' = "rows" /\ cur' = <<Section(s).hybrid, s>> /\ row' = 1
           /\ HasHybrid(s) /\ Section(Section(s).hybrid).form = "stream"
           /\ Section(s).hybrid \in Offsets
  <2> DEFINE h == Section(s).hybrid
  <2>1. Reading' = h /\ Classic' = s /\ InHybrid'
    BY <1>2, <1>7, OffsetsAssumption DEF Reading, Classic, InHybrid
  <2>2. Section(h).rows \in Seq(RowSet)
    BY <1>7, FileTypes DEF TypeInv
  <2> HIDE DEF h
  <2>3. ReadRows(k, Reading, 2, row)' = {}
    <3>1. ReadRows(k, h, 2, 1) = {}
      BY <2>2, ReadsNoneAll
    <3>2. ReadRows(k, Reading, 2, row)' = ReadRows(k, h, 2, 1)
      BY <1>1, <1>7, <2>1, Steady
    <3> QED BY <3>1, <3>2
  <2>4. RowsOf(k, Classic, 1)' = RowsOf(k, s, 1)
    BY <1>1, <2>1, Steady
  <2>5. Current(k)' = Current(k)
    BY <1>4, <1>7, <2>1, <2>3, <2>4 DEF Current
  <2>6. InSection'
    <3>1. PlainTable(Classic)' /\ HasHybrid(Classic)'
      BY <1>1, <1>5, <1>7, <2>1, Steady
    <3>2. Section(Classic)' = Section(s) /\ Section(Reading)' = Section(h)
      BY <1>1, <2>1, Steady
    <3>3. Offsets' = Offsets
      OBVIOUS
    <3> QED BY <1>2, <1>7, <2>1, <3>1, <3>2 DEF InSection, h
  <2>7. Agrees(Earlier(k) \cup Current(k)', raw_entries', deleted_objects')
    BY <1>1, <1>2, <2>5
  <2> QED BY <1>1, <1>2, <1>3, <1>7, <2>1, <2>6, <2>7, WithinSection
<1>8. Section(s).hybrid \in Offsets \cup {-1, 0}
  BY <1>2, FileTypes DEF TypeInv
<1> QED BY <1>6, <1>7, <1>8 DEF EndTable, HasHybrid

(* EndStream, of the section itself or of a table's hybrid.                *)
LEMMA EndsStream ==
    ASSUME TypeInv, NEW k, AtSection(k), EndStream
    PROVE  AtSection(k)'
<1>1. /\ pc = "rows" /\ UNCHANGED <<file, opts, visited, raw_entries, deleted_objects>>
      /\ Section(Reading).form = "stream" /\ row > Len(Section(Reading).rows)
      /\ IF InHybrid THEN pc' = "free" /\ cur' = <<Classic, 0>>
         ELSE pc' = "prev" /\ cur' = cur
  BY DEF EndStream
<1>2. /\ k \in Nat /\ Section(Reading).rows \in Seq(RowSet) /\ InSection /\ row \in Nat
      /\ Chain[k] = IF InHybrid THEN Classic ELSE Reading
      /\ Agrees(Earlier(k) \cup Current(k), raw_entries, deleted_objects)
  BY <1>1, SectionFacts DEF TypeInv, TypeOK
<1>3. ReadRows(k, Reading, 2, row) = RowsOf(k, Reading, 2)
  BY <1>1, <1>2, ReadsNoneAll
<1>4. CASE InHybrid
  <2>1. Reading' = Classic /\ ~InHybrid'
    BY <1>1, <1>4 DEF Reading, Classic, InHybrid
  <2>2. PlainTable(Classic) /\ HasHybrid(Classic) /\ Section(Classic).hybrid = Reading
    BY <1>1, <1>2, <1>4 DEF InSection
  <2>3. HybridRows(k, Classic) = RowsOf(k, Reading, 2)
    BY <2>2 DEF HybridRows
  <2>4. RowsOf(k, Reading, 1)' = RowsOf(k, Classic, 1) /\ HybridRows(k, Reading)' = HybridRows(k, Classic)
    BY <1>1, <2>1, Steady
  <2>5. Current(k)' = Current(k)
    BY <1>1, <1>3, <1>4, <2>3, <2>4 DEF Current
  <2>6. PlainTable(Reading)'
    BY <1>1, <2>1, <2>2, Steady
  <2>7. InSection'
    BY <1>1, <1>4, <2>6 DEF InSection
  <2>8. Agrees(Earlier(k) \cup Current(k)', raw_entries', deleted_objects')
    BY <1>1, <1>2, <2>5
  <2> QED BY <1>1, <1>2, <1>4, <2>1, <2>7, <2>8, WithinSection
<1>5. CASE ~InHybrid
  <2>1. Reading' = Reading
    BY <1>1, <1>5 DEF Reading
  <2>2. Contributed(k, Reading)' = Contributed(k, Reading)
    BY <1>1, <2>1, Steady
  <2>3. Contributed(k, Reading) = RowsOf(k, Reading, 2)
    BY <1>1 DEF Contributed
  <2>4. Current(k)' = Current(k)
    BY <1>1, <1>3, <1>5, <2>2, <2>3 DEF Current
  <2>5. InSection'
    BY <1>1, <1>5 DEF InSection
  <2>6. Agrees(Earlier(k) \cup Current(k)', raw_entries', deleted_objects')
    BY <1>1, <1>2, <2>4
  <2> QED BY <1>1, <1>2, <1>5, <2>1, <2>5, <2>6, WithinSection
<1> QED BY <1>4, <1>5

(* RegisterDeferredFree.                                                   *)
LEMMA RegistersFree ==
    ASSUME TypeInv, NEW k, AtSection(k), RegisterDeferredFree
    PROVE  AtSection(k)'
<1> DEFINE rows == Section(Reading).rows
           free == RowsOf(k, Reading, 3)
           occ == Earlier(k) \cup Current(k)
           new == {f.key[1] : f \in {g \in free : g.key \notin DOMAIN raw_entries}}
           keys == {rows[i].key : i \in {j \in DOMAIN rows : rows[j].kind = "f"}}
<1>1. /\ pc = "free" /\ pc' = "prev" /\ UNCHANGED <<file, opts, visited, cur, raw_entries>>
      /\ deleted_objects' = deleted_objects \cup UNION {insert_free_xref_entry(raw_entries, {}, q) : q \in keys}
  BY DEF RegisterDeferredFree
<1>2. /\ k \in Nat /\ rows \in Seq(RowSet) /\ InSection /\ Chain[k] = Reading
      /\ Agrees(occ, raw_entries, deleted_objects)
  BY <1>1, SectionFacts
<1>3. PlainTable(Reading)
  BY <1>1, <1>2 DEF InSection
<1>4. Current(k) = RowsOf(k, Reading, 1) \cup HybridRows(k, Reading)
  BY <1>1 DEF Current
<1>5. \A j \in DOMAIN rows : rows[j].kind \in {"n", "f"}
  <2> SUFFICES ASSUME NEW j \in DOMAIN rows PROVE rows[j].kind \in {"n", "f"}
    OBVIOUS
  <2>1. j \in Nat /\ j + 1 \in Nat /\ j < j + 1
    BY <1>2
  <2>2. Plain(Reading, j + 1)
    BY <1>3, <2>1 DEF PlainTable
  <2> QED BY <2>1, <2>2 DEF Plain
<1>6. \A f \in free : f.kind = "f" /\ f.key \in keys /\ f.rank[1] = k /\ f.rank[2] = 3 /\ f.rank[3] \in Nat
  <2> SUFFICES ASSUME NEW f \in free
               PROVE  f.kind = "f" /\ f.key \in keys /\ f.rank[1] = k /\ f.rank[2] = 3 /\ f.rank[3] \in Nat
    OBVIOUS
  <2>1. PICK j \in DOMAIN rows : rows[j].kind # "n" /\ f = Occurrence(k, Reading, 3, j)
    BY DEF RowsOf
  <2>2. j \in Nat
    BY <1>2
  <2>3. rows[j].kind = "f"
    BY <1>5, <2>1
  <2> QED BY <2>1, <2>2, <2>3, OccurrenceIs
<1>7. \A q \in keys : \E f \in free : f.key = q
  <2> SUFFICES ASSUME NEW j \in DOMAIN rows, rows[j].kind = "f" PROVE \E f \in free : f.key = rows[j].key
    OBVIOUS
  <2>1. Occurrence(k, Reading, 3, j) \in free
    BY DEF RowsOf
  <2>2. Occurrence(k, Reading, 3, j).key = rows[j].key
    BY OccurrenceIs
  <2> QED BY <2>1, <2>2
<1>8. \A f \in free, u \in occ : Before(u, f) /\ ~Before(f, u)
  <2> SUFFICES ASSUME NEW f \in free, NEW u \in occ PROVE Before(u, f) /\ ~Before(f, u)
    OBVIOUS
  <2> HIDE DEF free
  <2>1. f.rank[1] = k /\ f.rank[2] = 3 /\ f.rank[3] \in Nat
    BY <1>6
  <2>2. CASE u \in Earlier(k)
    BY <1>2, <2>1, <2>2, EarlierBefore
  <2>3. CASE u \in Current(k)
    <3>1. u.rank[1] = k /\ u.rank[2] \in {1, 2}
      BY <1>4, <2>3, RowIs DEF HybridRows
    <3> QED BY <1>2, <2>1, <3>1 DEF Before
  <2> QED BY <2>2, <2>3
<1>9. deleted_objects' = deleted_objects \cup new
  <2> DEFINE named == UNION {insert_free_xref_entry(raw_entries, {}, q) : q \in keys}
  <2> HIDE DEF keys, free
  <2>1. ASSUME NEW x \in named PROVE x \in new
    <3>1. PICK q \in keys : x \in insert_free_xref_entry(raw_entries, {}, q)
      OBVIOUS
    <3>2. q \notin DOMAIN raw_entries /\ x = q[1]
      BY <3>1 DEF insert_free_xref_entry
    <3>3. PICK f \in free : f.key = q
      BY <1>7
    <3> QED BY <3>2, <3>3
  <2>2. ASSUME NEW x \in new PROVE x \in named
    <3>1. PICK f \in free : f.key \notin DOMAIN raw_entries /\ x = f.key[1]
      OBVIOUS
    <3>2. f.key \in keys
      BY <1>6
    <3>3. x \in insert_free_xref_entry(raw_entries, {}, f.key)
      BY <3>1 DEF insert_free_xref_entry
    <3> QED BY <3>2, <3>3
  <2> HIDE DEF named, new
  <2>3. named = new
    BY <2>1, <2>2
  <2> QED BY <1>1, <2>3 DEF named
<1>10. Agrees(occ \cup free, raw_entries, deleted_objects \cup new)
  <2>1. \A f \in free : f.kind = "f"
    BY <1>6
  <2> HIDE DEF occ, free
  <2> QED BY <1>2, <1>8, <2>1, FreeAgrees
<1>11. Reading' = Reading
  BY <1>1 DEF Reading
<1>12. Current(k)' = Current(k) \cup free
  <2>1. Contributed(k, Reading)' = Contributed(k, Reading)
    BY <1>1, <1>11, Steady
  <2>2. Contributed(k, Reading) = Current(k) \cup free
    BY <1>3, <1>4 DEF Contributed, PlainTable
  <2>3. Current(k)' = Contributed(k, Reading)'
    BY <1>1 DEF Current
  <2> QED BY <2>1, <2>2, <2>3
<1>13. Agrees(Earlier(k) \cup Current(k)', raw_entries', deleted_objects')
  <2>1. Earlier(k) \cup (Current(k) \cup free) = occ \cup free
    OBVIOUS
  <2> HIDE DEF occ, free, new
  <2> QED BY <1>1, <1>9, <1>10, <1>12, <2>1
<1>14. InSection'
  BY <1>1 DEF InSection
<1> QED BY <1>1, <1>2, <1>11, <1>13, <1>14, WithinSection

(* FollowPrev, to the next section or to the end of the chain.             *)
LEMMA FollowsPrev ==
    ASSUME TypeInv, ~reconstructed, ChainInv, NEW k, AtSection(k), FollowPrev, pc' # "error"
    PROVE  AtSection(k)' \/ (k + 1 \in 1 .. ChainLength /\ AtSection(k + 1)')
<1> DEFINE p == Section(Reading).prev
<1>1. /\ pc = "prev" /\ UNCHANGED <<file, opts, raw_entries, deleted_objects>>
      /\ IF p = 0 \/ p = -1 THEN pc' = "finish" /\ UNCHANGED <<cur, visited>>
         ELSE pc' = "section" /\ cur' = <<p, 0>> /\ visited' = visited \cup {p} /\ p \notin visited
  BY DEF FollowPrev, LoopsTo
<1>2. /\ k \in Nat \ {0} /\ k \in 1 .. ChainLength /\ ChainLength \in Nat /\ ChainLength' = ChainLength
      /\ Reading \in Offsets /\ Chain[k] = Reading
      /\ visited = {Chain[i] : i \in 1 .. k} /\ Cardinality(visited) = k
      /\ Agrees(Earlier(k) \cup Current(k), raw_entries, deleted_objects)
  BY <1>1, SectionFacts
<1>3. TypeOK /\ IsFiniteSet(Offsets) /\ Offsets \subseteq Nat \ {0} /\ visited \subseteq Offsets
  BY OffsetsAssumption DEF TypeInv, TypeOK
<1>4. p \in Offsets \cup {-1, 0}
  BY <1>2, <1>3, FileTypes
<1>5. file.startxref \in Offsets
  BY <1>1, SectionFacts
<1>6. Chain' = Chain /\ Earlier(k)' = Earlier(k) /\ Earlier(k + 1)' = Earlier(k + 1) /\ file' = file
  BY <1>1, Steady
<1>7. \A i \in 2 .. ChainLength :
          Chain[i] = IF Chain[i - 1] = 0 \/ Section(Chain[i - 1]).prev < 1 THEN 0 ELSE Section(Chain[i - 1]).prev
  BY <1>3, <1>5, ChainIs
<1>8. k < ChainLength => k + 1 \in 2 .. ChainLength /\ (k + 1) - 1 = k
  BY <1>2
<1>9. CASE p = 0 \/ p = -1
  <2>1. pc' = "finish" /\ Reading' = Reading /\ visited' = visited
    BY <1>1, <1>9 DEF Reading
  <2>2. k < ChainLength => Chain[k + 1] = 0
    BY <1>2, <1>7, <1>8, <1>9
  <2>3. \A i \in k + 1 .. ChainLength : Chain[i] = 0
    BY <1>2, <1>3, <1>5, <2>2, ChainEnds
  <2>4. Current(k)' = Current(k)
    <3>1. Contributed(k, Reading)' = Contributed(k, Reading)
      BY <1>1, <2>1, Steady
    <3> QED BY <1>1, <2>1, <3>1 DEF Current
  <2>5. InSection'
    BY <2>1 DEF InSection
  <2>6. Agrees((Earlier(k) \cup Current(k))', raw_entries', deleted_objects')
    BY <1>1, <1>2, <1>6, <2>4
  <2> QED BY <1>2, <1>5, <1>6, <2>1, <2>3, <2>5, <2>6 DEF AtSection
<1>10. CASE p # 0 /\ p # -1
  <2>1. pc' = "section" /\ Reading' = p /\ visited' = visited \cup {p} /\ p \notin visited /\ p \in Offsets
    BY <1>1, <1>4, <1>10 DEF Reading
  <2>2. IsFiniteSet(visited) /\ Cardinality(visited \cup {p}) = k + 1
    BY <1>2, <1>3, <2>1, FS_Subset, FS_AddElement
  <2>3. k + 1 <= ChainLength
    <3>1. visited \cup {p} \subseteq Offsets
      BY <1>3, <2>1
    <3>2. Cardinality(visited \cup {p}) <= Cardinality(Offsets)
      BY <1>3, <3>1, FS_Subset
    <3> QED BY <2>2, <3>2 DEF ChainLength
  <2>4. k + 1 \in 1 .. ChainLength /\ k < ChainLength
    BY <1>2, <2>3
  <2>5. Chain[k + 1] = p
    <3>1. ~(p < 1) /\ Chain[k] # 0
      BY <1>2, <1>3, <2>1
    <3> QED BY <1>2, <1>7, <1>8, <2>4, <3>1
  <2>6. 1 .. k + 1 = (1 .. k) \cup {k + 1} /\ 1 .. (k + 1) - 1 = 1 .. k /\ 1 .. k = (1 .. k - 1) \cup {k}
    BY <1>2
  <2>7. visited' = {Chain[i] : i \in 1 .. k + 1}
    <3>1. {Chain[i] : i \in 1 .. k + 1} = {Chain[i] : i \in 1 .. k} \cup {Chain[k + 1]}
      BY <2>6
    <3> QED BY <1>2, <2>1, <2>5, <3>1
  <2>8. Earlier(k + 1) = Earlier(k) \cup Current(k)
    <3>1. Current(k) = Contributed(k, Reading)
      BY <1>1 DEF Current
    <3> QED BY <1>2, <2>6, <3>1 DEF Earlier
  <2>9. Current(k + 1)' = {} /\ InSection'
    BY <2>1 DEF Current, InSection
  <2>10. Agrees((Earlier(k + 1) \cup Current(k + 1))', raw_entries', deleted_objects')
    BY <1>1, <1>2, <1>6, <2>8, <2>9
  <2> QED BY <1>2, <1>5, <1>6, <2>1, <2>2, <2>4, <2>5, <2>7, <2>9, <2>10 DEF AtSection
<1> QED BY <1>9, <1>10

(* The table of all rows of the chain, pruned, is the declared one.        *)
LEMMA AgreedTable ==
    ASSUME NEW t, NEW del, Agrees(Occurrences, t, del)
    PROVE  discard_lower_generations(t) = ReferenceTable
<1> DEFINE newest == Newest(Occurrences)
           kept == {o \in newest : o.key[1] = 0 \/
                        \A u \in newest : u.key[1] = o.key[1] => u.key[2] <= o.key[2]}
           keys == {q \in DOMAIN t : q[1] = 0 \/ \A j \in DOMAIN t : j[1] = q[1] => j[2] <= q[2]}
<1>1. DOMAIN t = {o.key : o \in newest} /\ \A o \in newest : t[o.key] = EntryOf(o)
  BY DEF Agrees
<1> HIDE DEF newest
<1>2. keys = {o.key : o \in kept}
  <2>1. \A o \in kept : o.key \in keys
    BY <1>1
  <2>2. ASSUME NEW q \in keys PROVE \E o \in kept : o.key = q
    <3>1. PICK o \in newest : o.key = q
      BY <1>1
    <3>2. \A u \in newest : u.key \in DOMAIN t
      BY <1>1
    <3> QED BY <3>1, <3>2
  <2> HIDE DEF keys, kept
  <2> QED BY <2>1, <2>2
<1>3. \A q \in keys : t[q] = EntryOf(CHOOSE o \in kept : o.key = q)
  <2> SUFFICES ASSUME NEW q \in keys PROVE t[q] = EntryOf(CHOOSE o \in kept : o.key = q)
    OBVIOUS
  <2> DEFINE c == CHOOSE o \in kept : o.key = q
  <2>1. kept \subseteq newest
    OBVIOUS
  <2>2. \E o \in kept : o.key = q
    BY <1>2
  <2> HIDE DEF kept, keys
  <2>3. c \in kept /\ c.key = q
    BY <2>2
  <2> HIDE DEF c
  <2>4. t[c.key] = EntryOf(c)
    BY <1>1, <2>1, <2>3
  <2> QED BY <2>3, <2>4 DEF c
<1>4. discard_lower_generations(t) = [q \in keys |-> t[q]]
  BY DEF discard_lower_generations, Only
<1>5. ReferenceTable = [q \in {o.key : o \in kept} |-> EntryOf(CHOOSE o \in kept : o.key = q)]
  BY DEF ReferenceTable, newest
<1> DEFINE entry == [q \in keys |-> EntryOf(CHOOSE o \in kept : o.key = q)]
<1> HIDE DEF keys, kept
<1>6. [q \in keys |-> t[q]] = entry
  BY <1>3
<1>7. ReferenceTable = entry
  BY <1>2, <1>5
<1> QED BY <1>4, <1>6, <1>7

(* FinishChain: the whole chain has been read.                             *)
LEMMA FinishesChain ==
    ASSUME TypeInv, NEW k, AtSection(k), FinishChain
    PROVE  raw_entries' = ReferenceTable /\ ReferenceTable' = ReferenceTable
<1>1. /\ pc = "finish" /\ UNCHANGED <<file, opts>>
      /\ raw_entries' = discard_lower_generations(raw_entries)
  BY DEF FinishChain
<1>2. /\ k \in Nat \ {0} /\ k \in 1 .. ChainLength /\ ChainLength \in Nat /\ file.startxref \in Offsets
      /\ visited = {Chain[i] : i \in 1 .. k} /\ Chain[k] = Reading
      /\ Agrees(Earlier(k) \cup Current(k), raw_entries, deleted_objects)
  BY <1>1, SectionFacts
<1>3. \A i \in k + 1 .. ChainLength : Chain[i] = 0
  BY <1>1 DEF AtSection
<1>4. \A i \in 1 .. k : Chain[i] # 0
  BY <1>2, OffsetsAssumption DEF TypeInv, TypeOK
<1>5. DOMAIN Chain = 1 .. ChainLength
  BY <1>2, ChainIs DEF TypeInv
<1>6. {x \in DOMAIN Chain : Chain[x] # 0} = 1 .. k
  BY <1>2, <1>3, <1>4, <1>5
<1>7. Current(k) = Contributed(k, Chain[k])
  BY <1>1, <1>2 DEF Current
<1>8. 1 .. k = (1 .. k - 1) \cup {k}
  BY <1>2
<1>9. Occurrences = Earlier(k) \cup Current(k)
  BY <1>6, <1>7, <1>8 DEF Occurrences, Earlier
<1> QED BY <1>1, <1>2, <1>9, AgreedTable, Steady

(* ChainInv is preserved.                                                  *)
LEMMA ChainStep == TypeInv /\ PhaseInv /\ ChainInv /\ [Next]_vars => ChainInv'
<1> SUFFICES ASSUME TypeInv, PhaseInv, ChainInv, [Next]_vars, ~reconstructed'
             PROVE  /\ pc' = "startxref" => raw_entries' = EmptyTable /\ deleted_objects' = {}
                    /\ pc' \in {"section", "rows", "free", "prev", "finish"} => SomeSection'
                    /\ pc' = "loaded" => raw_entries' = ReferenceTable'
  BY DEF ChainInv
<1>1. ~reconstructed /\ ~reentry /\ pc # "scan"
  BY DEF Next, vars, ParseStartxref, EnterSection, ReadTableRow, ReadStreamRow, EndTable,
         EndStream, RegisterDeferredFree, FollowPrev, FinishChain, FinishReentry,
         ReportError, BeginReconstruction, ScanLine, EndScan, PhaseInv
<1>2. ChainLength' = ChainLength
  BY DEF ChainLength
<1>3. \A k \in 1 .. ChainLength : AtSection(k)' => SomeSection'
  BY <1>2 DEF SomeSection
<1>4. pc \in {"section", "rows", "free", "prev", "finish"} => \E k \in 1 .. ChainLength : AtSection(k)
  BY <1>1 DEF ChainInv, SomeSection
<1>5. CASE ParseStartxref
  <2>1. pc' \in {"error", "failed", "section"}
    BY <1>5 DEF ParseStartxref
  <2>2. pc' = "section" => AtSection(1)'
    BY <1>1, <1>5, FirstSection
  <2>3. Offsets # {} => 1 \in 1 .. ChainLength
    <3>1. IsFiniteSet(Offsets)
      BY OffsetsAssumption
    <3>2. Cardinality(Offsets) \in Nat /\ (Offsets # {} => Cardinality(Offsets) # 0)
      BY <3>1, FS_EmptySet, FS_CardinalityType
    <3> QED BY <3>2 DEF ChainLength
  <2>4. pc' = "section" => Offsets # {}
    BY <1>5, FilesAssumption DEF ParseStartxref, TypeInv, TypeOK, FileSet
  <2> QED BY <1>3, <2>1, <2>2, <2>3, <2>4
<1>6. CASE EnterSection
  <2>1. pc = "section" /\ pc' \in {"rows", "error"}
    BY <1>6 DEF EnterSection
  <2>2. PICK k \in 1 .. ChainLength : AtSection(k)
    BY <1>4, <2>1
  <2> QED BY <1>3, <1>6, <2>1, <2>2, EntersSection
<1>7. CASE ReadTableRow
  <2>1. pc = "rows" /\ pc' \in {"rows", "error"}
    BY <1>7 DEF ReadTableRow
  <2>2. PICK k \in 1 .. ChainLength : AtSection(k)
    BY <1>4, <2>1
  <2> QED BY <1>3, <1>7, <2>1, <2>2, ReadsTableRow
<1>8. CASE ReadStreamRow
  <2>1. pc = "rows" /\ pc' \in {"rows", "error"}
    BY <1>8 DEF ReadStreamRow
  <2>2. PICK k \in 1 .. ChainLength : AtSection(k)
    BY <1>4, <2>1
  <2> QED BY <1>3, <1>8, <2>1, <2>2, ReadsStreamRow
<1>9. CASE EndTable
  <2>1. pc = "rows" /\ pc' \in {"rows", "free", "error"}
    BY <1>9 DEF EndTable
  <2>2. PICK k \in 1 .. ChainLength : AtSection(k)
    BY <1>4, <2>1
  <2> QED BY <1>3, <1>9, <2>1, <2>2, EndsTable
<1>10. CASE EndStream
  <2>1. pc = "rows" /\ pc' \in {"free", "prev"}
    BY <1>10 DEF EndStream
  <2>2. PICK k \in 1 .. ChainLength : AtSection(k)
    BY <1>4, <2>1
  <2> QED BY <1>3, <1>10, <2>1, <2>2, EndsStream
<1>11. CASE RegisterDeferredFree
  <2>1. pc = "free" /\ pc' = "prev"
    BY <1>11 DEF RegisterDeferredFree
  <2>2. PICK k \in 1 .. ChainLength : AtSection(k)
    BY <1>4, <2>1
  <2> QED BY <1>3, <1>11, <2>1, <2>2, RegistersFree
<1>12. CASE FollowPrev
  <2>1. pc = "prev" /\ pc' \in {"finish", "section", "error"}
    BY <1>12 DEF FollowPrev
  <2>2. PICK k \in 1 .. ChainLength : AtSection(k)
    BY <1>4, <2>1
  <2>3. pc' # "error" => AtSection(k)' \/ (k + 1 \in 1 .. ChainLength /\ AtSection(k + 1)')
    BY <1>1, <1>12, <2>2, FollowsPrev
  <2> QED BY <1>3, <2>1, <2>2, <2>3
<1>13. CASE FinishChain
  <2>1. pc = "finish" /\ pc' = "loaded"
    BY <1>13 DEF FinishChain
  <2>2. PICK k \in 1 .. ChainLength : AtSection(k)
    BY <1>4, <2>1
  <2> QED BY <1>13, <2>1, <2>2, FinishesChain
<1>14. CASE FinishReentry \/ ReportError \/ BeginReconstruction \/ ScanLine \/ EndScan
  BY <1>1, <1>14 DEF FinishReentry, ReportError, BeginReconstruction, ScanLine, EndScan
<1>15. CASE UNCHANGED vars
  <2>1. UNCHANGED <<file, opts, pc, raw_entries, deleted_objects, visited, cur, row, reconstructed>>
    BY <1>15 DEF vars
  <2>2. pc = "startxref" => raw_entries = EmptyTable /\ deleted_objects = {}
    BY <1>1 DEF ChainInv
  <2>3. pc = "loaded" => raw_entries = ReferenceTable
    BY <1>1 DEF ChainInv
  <2>4. pc \in {"section", "rows", "free", "prev", "finish"} => SomeSection'
    <3> SUFFICES ASSUME NEW k \in 1 .. ChainLength, AtSection(k) PROVE SomeSection'
      BY <1>4
    <3>1. Reading' = Reading /\ Classic' = Classic /\ InHybrid' = InHybrid
      BY <2>1 DEF Reading, Classic, InHybrid
    <3>2. Chain' = Chain /\ Earlier(k)' = Earlier(k)
      BY <2>1, Steady
    <3>3. Section(Reading)' = Section(Reading) /\ Section(Classic)' = Section(Classic)
      BY <2>1 DEF Section, Reading, Classic
    <3>4. HasHybrid(Classic)' = HasHybrid(Classic) /\ PlainTable(Classic)' = PlainTable(Classic)
          /\ PlainTable(Reading)' = PlainTable(Reading)
      BY <2>1, <3>1, Steady
    <3>5. Plain(Reading, row)' = Plain(Reading, row)
      BY <2>1, <3>1, Steady
    <3>6. InSection' = InSection
      BY <2>1, <3>1, <3>3, <3>4, <3>5 DEF InSection
    <3>7. /\ RowsOf(k, Classic, 1)' = RowsOf(k, Classic, 1) /\ RowsOf(k, Reading, 1)' = RowsOf(k, Reading, 1)
          /\ HybridRows(k, Reading)' = HybridRows(k, Reading) /\ Contributed(k, Reading)' = Contributed(k, Reading)
          /\ ReadRows(k, Reading, 1, row)' = ReadRows(k, Reading, 1, row)
          /\ ReadRows(k, Reading, 2, row)' = ReadRows(k, Reading, 2, row)
      BY <2>1, <3>1, Steady
    <3>8. Current(k)' = Current(k)
      BY <2>1, <3>1, <3>3, <3>7 DEF Current
    <3>9. AtSection(k)' = AtSection(k)
      BY <1>2, <2>1, <3>1, <3>2, <3>6, <3>8 DEF AtSection
    <3> QED BY <1>3, <3>9
  <2>5. ReferenceTable' = ReferenceTable
    BY <2>1, Steady
  <2> QED BY <2>1, <2>2, <2>3, <2>4, <2>5
<1> QED BY <1>5, <1>6, <1>7, <1>8, <1>9, <1>10, <1>11, <1>12, <1>13, <1>14, <1>15 DEF Next

LoadInv == TypeInv /\ TrailerInv /\ PhaseInv /\ ScanInv /\ SingleGeneration /\ RecoveredTable /\ ChainInv

(* The whole invariant is inductive.                                       *)
LEMMA LoadStep == LoadInv /\ [Next]_vars => LoadInv'
BY TypeStep, TrailerStep, PhaseStep, GenerationStep, ScanStep, ChainStep DEF LoadInv

(* It holds of every reachable state.                                      *)
LEMMA LoadInvariant == Spec => []LoadInv
<1>1. Init => LoadInv
  <2>1. Init => TypeInv
    BY InitTypes
  <2> QED BY <2>1 DEF Init, LoadInv, TrailerInv, PhaseInv, ScanInv, SingleGeneration, RecoveredTable, ChainInv
<1> QED BY <1>1, LoadStep, PTL DEF Spec

(* A document that opens has a trailer, and no tombstone is left           *)
(* (load_xref_state_from_window, reconstruct_xref_on_owner).               *)
THEOREM LoadedReady == Spec => []DocumentReady
<1>1. LoadInv => DocumentReady
  BY DEF LoadInv, TrailerInv, DocumentReady
<1> QED BY <1>1, LoadInvariant, PTL

(* Where generations are pruned, one row per object number is left         *)
(* (discard_lower_generations).                                            *)
THEOREM LoadedSingle == Spec => []SingleGeneration
<1>1. LoadInv => SingleGeneration
  BY DEF LoadInv
<1> QED BY <1>1, LoadInvariant, PTL

(* A plain recovery leaves exactly the scanned rows, the last of each key  *)
(* and none of a freed number, over the rows of other types read before    *)
(* the failure (reconstruct_xref_on_owner,                                 *)
(* recover_xref_entries_from_source).                                      *)
THEOREM RecoveryExact == Spec => []RecoveredTable
<1>1. LoadInv => RecoveredTable
  BY DEF LoadInv
<1> QED BY <1>1, LoadInvariant, PTL

(* A load that needed no recovery ends with the declared table: of every   *)
(* key the newest row, none older than a free row of its number, and of    *)
(* each number the highest generation; over tables, streams and hybrids,   *)
(* whatever the order of their rows (load_xref_state_from_window).         *)
THEOREM ChainRight == Spec => []ChainTable
<1>1. LoadInv => ChainTable
  BY DEF LoadInv, ChainInv, ChainTable
<1> QED BY <1>1, LoadInvariant, PTL

=============================================================================
