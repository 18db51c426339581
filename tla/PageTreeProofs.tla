--------------------------- MODULE PageTreeProofs ---------------------------
(***************************************************************************)
(* Proofs about PageTree: what the cached list and the flag of a flat tree *)
(* say is true after every call, whatever failed in it, for every document *)
(* and every sequence of calls.                                            *)
(***************************************************************************)
EXTENDS PageTree, FiniteSetTheorems, SequenceTheorems, Induction

-----------------------------------------------------------------------------
(* The inductive invariant.                                                *)

Edits == {"add_page", "add_page_at", "remove_page"}
Ops == Edits \cup {"get_all_pages", "update_all_pages_cache", "push", "rebuild_page_tree"}
Phases == {"idle", "root", "repair", "push", "flatten", "edit"}
Outcomes == {"ok", "running", "loop", "numbers", "count", "missing", "range"}
CallSet ==
    [op : Ops, page : Int, new : NewPages \cup {Blank}, index : Int, other : Int, selected : Seq(Int),
     phase : Phases, outcome : Outcomes]
GivenOf(c) == ({c.page} \ {0}) \cup Elements(c.selected)

(* The document, and what outlives a call.                                 *)
DocInv ==
    /\ last \in 0 .. MaxNumber
    /\ AreDictionaries(objects, last)
    /\ catalog \in DOMAIN objects
    /\ cache = [root |-> cache.root, pages |-> cache.pages]
    /\ cache.pages \in Seq(DOMAIN objects)
    /\ flattened \in BOOLEAN /\ stale \in BOOLEAN

CacheInv ==
    ~stale /\ cache.pages # <<>> =>
        cache.root = catalog /\ OwnPages(objects, cache.pages) /\ objects[catalog].has_kids
FlatInv == ~stale /\ flattened => cache.pages # <<>> /\ IsFlat(objects, catalog, cache.pages)

(* The call: what it was given are pages and not the root.                 *)
CallInv ==
    /\ call \in CallSet
    /\ ~Idle => /\ ~stale /\ call.outcome = "running"
                /\ \A n \in GivenOf(call) :
                      IsLeaf(objects, n) /\ n # IF call.phase = "root" THEN PageTreeRoot(catalog) ELSE catalog

RepairFrames == [node : DOMAIN objects, next : Nat \ {0}, box : BOOLEAN]
PushFrames == [node : DOMAIN objects, todo : Seq(KeySet), next : Nat \ {0}, own : SUBSET KeySet]

WalkTypes ==
    /\ pages \in Seq(DOMAIN objects)
    /\ met = [seen |-> met.seen, visited |-> met.visited] /\ met.seen \subseteq DOMAIN objects
    /\ above \in [KeySet -> Seq(Values)]
    /\ CASE call.phase = "repair" -> frames \in Seq(RepairFrames) /\ frames # <<>>
         [] call.phase = "push" -> frames \in Seq(PushFrames) /\ frames # <<>>
         [] OTHER -> frames = <<>>

InRepair ==
    /\ cache.pages = <<>>
    /\ objects[catalog].has_kids /\ objects[catalog].type = "Pages"
    /\ OwnPages(objects, pages) /\ Elements(pages) \subseteq met.seen
(* From here on the call has its list.                                     *)
HasList == pages = cache.pages /\ OwnPages(objects, pages)
(* A root that a push entered has nothing left to inherit.                 *)
Bare == IsPages(catalog) => DOMAIN objects[catalog].attrs = {}
(* A push meets the root again, but enters it only once.                   *)
InPush ==
    /\ HasList
    /\ frames[1].node = catalog
    /\ DOMAIN objects[catalog].attrs \subseteq Elements(frames[1].todo)
    /\ IsPages(catalog)
    /\ call.op = "push" \/ (call.op \in Edits /\ ~flattened)
InFlatten == HasList /\ Bare /\ call.op \in Edits /\ ~flattened
InEdit ==
    /\ HasList
    /\ \/ call.op = "rebuild_page_tree"
       \/ /\ call.op \in Edits /\ objects[catalog].has_kids /\ IsFlat(objects, catalog, pages)
          /\ flattened \/ Bare

PhaseInv ==
    /\ call.phase = "root" => cache.pages = <<>>
    /\ call.phase = "repair" => InRepair
    /\ call.phase = "push" => InPush
    /\ call.phase = "flatten" => InFlatten
    /\ call.phase = "edit" => InEdit

PageInv == DocInv /\ CacheInv /\ FlatInv /\ CallInv /\ WalkTypes /\ PhaseInv
-----------------------------------------------------------------------------
(* Dictionaries.                                                           *)

AttrSet == UNION {[S -> Values] : S \in SUBSET KeySet}

LEMMA AttrsAre ==
    ASSUME NEW a
    PROVE  a \in AttrSet <=> /\ a = [k \in DOMAIN a |-> a[k]]
                             /\ DOMAIN a \subseteq KeySet
                             /\ \A k \in DOMAIN a : a[k] \in Values
<1>1. ASSUME a \in AttrSet
      PROVE  a = [k \in DOMAIN a |-> a[k]] /\ DOMAIN a \subseteq KeySet /\ \A k \in DOMAIN a : a[k] \in Values
  <2>1. PICK S \in SUBSET KeySet : a \in [S -> Values]
    BY <1>1 DEF AttrSet
  <2> QED BY <2>1
<1>2. ASSUME a = [k \in DOMAIN a |-> a[k]], DOMAIN a \subseteq KeySet, \A k \in DOMAIN a : a[k] \in Values
      PROVE  a \in AttrSet
  <2>1. a \in [DOMAIN a -> Values]
    BY <1>2
  <2> QED BY <1>2, <2>1 DEF AttrSet
<1> QED BY <1>1, <1>2

LEMMA NodeIs ==
    Node = [type : {"Page", "Pages", "other"}, has_kids : BOOLEAN, kids : Seq(Ids), parent : Ids,
            count : Int, attrs : AttrSet, data : Contents]
BY DEF Node, AttrSet

LEMMA NoAttrs == <<>> \in AttrSet
<1>1. <<>> \in [{} -> Values]
  OBVIOUS
<1> QED BY <1>1 DEF AttrSet

(* A dictionary with a part changed is one.                                *)
LEMMA DictionaryAttrs ==
    ASSUME NEW d, NEW D, IsDictionary(d, D), NEW a \in AttrSet
    PROVE  IsDictionary([d EXCEPT !.attrs = a], D)
BY NodeIs DEF IsDictionary

LEMMA DictionaryType ==
    ASSUME NEW d, NEW D, IsDictionary(d, D), NEW t \in {"Page", "Pages", "other"}
    PROVE  IsDictionary([d EXCEPT !.type = t], D)
BY NodeIs DEF IsDictionary

LEMMA DictionaryParent ==
    ASSUME NEW d, NEW D \in SUBSET Ids, IsDictionary(d, D), NEW p \in D
    PROVE  IsDictionary([d EXCEPT !.parent = p], D)
BY NodeIs DEF IsDictionary

LEMMA DictionaryKids ==
    ASSUME NEW d, NEW D \in SUBSET Ids, IsDictionary(d, D), NEW kids \in Seq(D), d.has_kids
    PROVE  IsDictionary([d EXCEPT !.kids = kids], D)
BY NodeIs DEF IsDictionary, Elements

LEMMA DictionaryCount ==
    ASSUME NEW d, NEW D, IsDictionary(d, D), NEW c \in Int
    PROVE  IsDictionary([d EXCEPT !.count = c], D)
BY NodeIs DEF IsDictionary

LEMMA DictionaryMore ==
    ASSUME NEW d, NEW D, NEW E, D \subseteq E, IsDictionary(d, D)
    PROVE  IsDictionary(d, E)
BY DEF IsDictionary

LEMMA NewPage ==
    ASSUME NEW p \in NewPages \cup {Blank}, NEW D
    PROVE  IsDictionary(p, D) /\ p.type = "Page" /\ ~p.has_kids
<1>1. CASE p = Blank
  <2>1. <<>> \in Seq(Ids) /\ Elements(<<>>) = {}
    BY DEF Elements
  <2>2. 0 \in Ids
    BY NumbersAssumption DEF Ids
  <2>3. Blank \in Node
    BY <2>1, <2>2, NodeIs, NoAttrs, ContentsAssumption DEF Blank
  <2> QED BY <1>1, <2>1, <2>3 DEF Blank, IsDictionary
<1>2. CASE p \in NewPages
  <2>1. Elements(<<>>) = {}
    BY DEF Elements
  <2> QED BY <1>2, <2>1, NewPagesAssumption DEF IsDictionary
<1> QED BY <1>1, <1>2

-----------------------------------------------------------------------------
(* Lists of pages.                                                         *)

LEMMA Appended ==
    ASSUME NEW S, NEW s \in Seq(S), NEW x \in S
    PROVE  /\ Append(s, x) \in Seq(S) /\ Append(s, x) # <<>>
           /\ Len(Append(s, x)) = Len(s) + 1
           /\ \A i \in 1 .. Len(s) : Append(s, x)[i] = s[i]
           /\ Append(s, x)[Len(s) + 1] = x
           /\ Elements(Append(s, x)) = Elements(s) \cup {x}
<1> DEFINE t == Append(s, x)
<1>1. t \in Seq(S) /\ Len(t) = Len(s) + 1 /\ (\A i \in 1 .. Len(s) : t[i] = s[i]) /\ t[Len(s) + 1] = x
  OBVIOUS
<1> HIDE DEF t
<1>2. DOMAIN t = 1 .. Len(s) + 1 /\ DOMAIN s = 1 .. Len(s) /\ Len(s) \in Nat
  BY <1>1
<1>3. Elements(t) = Elements(s) \cup {x}
  <2>1. \A n \in Elements(t) : n \in Elements(s) \cup {x}
    BY <1>1, <1>2 DEF Elements
  <2>2. \A i \in DOMAIN s : i \in DOMAIN t /\ s[i] = t[i]
    BY <1>1, <1>2
  <2>3. x = t[Len(s) + 1] /\ Len(s) + 1 \in DOMAIN t
    BY <1>1, <1>2
  <2> QED BY <2>1, <2>2, <2>3 DEF Elements
<1>4. t # <<>>
  BY <1>2
<1> QED BY <1>1, <1>3, <1>4 DEF t

LEMMA InsertedIs ==
    ASSUME NEW S, NEW s \in Seq(S), NEW i \in 0 .. Len(s), NEW x \in S
    PROVE  /\ Inserted(s, i, x) \in Seq(S)
           /\ Len(Inserted(s, i, x)) = Len(s) + 1
           /\ \A j \in 1 .. Len(s) + 1 :
                 Inserted(s, i, x)[j] = IF j <= i THEN s[j] ELSE IF j = i + 1 THEN x ELSE s[j - 1]
           /\ Elements(Inserted(s, i, x)) = Elements(s) \cup {x}
<1> DEFINE t == Inserted(s, i, x)
<1>1. /\ t \in Seq(S) /\ Len(t) = Len(s) + 1
      /\ \A j \in 1 .. Len(s) + 1 : t[j] = IF j <= i THEN s[j] ELSE IF j = i + 1 THEN x ELSE s[j - 1]
  <2> DEFINE a == SubSeq(s, 1, i)
             b == SubSeq(s, i + 1, Len(s))
  <2>1. a \in Seq(S) /\ Len(a) = i /\ \A j \in 1 .. i : a[j] = s[j]
    OBVIOUS
  <2>2. b \in Seq(S) /\ Len(b) = Len(s) - i /\ \A j \in 1 .. Len(s) - i : b[j] = s[i + j]
    OBVIOUS
  <2>3. t = (a \o <<x>>) \o b
    BY DEF Inserted
  <2> HIDE DEF a, b, t
  <2>4. a \o <<x>> \in Seq(S) /\ Len(a \o <<x>>) = i + 1
        /\ \A j \in 1 .. i + 1 : (a \o <<x>>)[j] = IF j <= i THEN s[j] ELSE x
    BY <2>1
  <2> DEFINE c == a \o <<x>>
  <2> HIDE DEF c
  <2>5. c \in Seq(S) /\ Len(c) = i + 1 /\ \A j \in 1 .. i + 1 : c[j] = IF j <= i THEN s[j] ELSE x
    BY <2>4 DEF c
  <2>6. t = c \o b
    BY <2>3 DEF c
  <2>7. /\ t \in Seq(S) /\ Len(t) = Len(c) + Len(b)
        /\ \A j \in 1 .. Len(c) + Len(b) : t[j] = IF j <= Len(c) THEN c[j] ELSE b[j - Len(c)]
    BY <2>2, <2>5, <2>6, ConcatProperties
  <2>8. \A j \in 1 .. Len(s) + 1 : t[j] = IF j <= i + 1 THEN c[j] ELSE b[j - (i + 1)]
    BY <2>2, <2>5, <2>7
  <2>9. ASSUME NEW j \in 1 .. Len(s) + 1
        PROVE  t[j] = IF j <= i THEN s[j] ELSE IF j = i + 1 THEN x ELSE s[j - 1]
    <3>1. CASE j <= i + 1
      BY <2>5, <2>8, <3>1
    <3>2. CASE j > i + 1
      <4>1. j - (i + 1) \in 1 .. Len(s) - i /\ i + (j - (i + 1)) = j - 1
        BY <3>2
      <4> QED BY <2>2, <2>8, <3>2, <4>1
    <3> QED BY <3>1, <3>2
  <2> QED BY <2>2, <2>5, <2>7, <2>9
<1>2. Elements(t) = Elements(s) \cup {x}
  <2> HIDE DEF t
  <2>1. DOMAIN t = 1 .. Len(s) + 1 /\ DOMAIN s = 1 .. Len(s)
    BY <1>1
  <2>2. \A n \in Elements(t) : n \in Elements(s) \cup {x}
    BY <1>1, <2>1 DEF Elements
  <2>3. \A j \in DOMAIN s : s[j] \in Elements(t)
    <3> SUFFICES ASSUME NEW j \in DOMAIN s PROVE s[j] \in Elements(t)
      OBVIOUS
    <3>1. s[j] = t[IF j <= i THEN j ELSE j + 1]
      BY <1>1, <2>1
    <3>2. (IF j <= i THEN j ELSE j + 1) \in DOMAIN t
      BY <2>1
    <3> QED BY <3>1, <3>2 DEF Elements
  <2>4. x = t[i + 1] /\ i + 1 \in DOMAIN t
    BY <1>1, <2>1
  <2> QED BY <2>2, <2>3, <2>4 DEF Elements
<1> QED BY <1>1, <1>2

LEMMA ErasedIs ==
    ASSUME NEW S, NEW s \in Seq(S), NEW i \in 1 .. Len(s)
    PROVE  /\ Erased(s, i) \in Seq(S)
           /\ Len(Erased(s, i)) = Len(s) - 1
           /\ \A j \in 1 .. Len(s) - 1 : Erased(s, i)[j] = IF j < i THEN s[j] ELSE s[j + 1]
<1> DEFINE a == SubSeq(s, 1, i - 1)
           b == SubSeq(s, i + 1, Len(s))
<1>1. a \in Seq(S) /\ Len(a) = i - 1 /\ \A j \in 1 .. i - 1 : a[j] = s[j]
  OBVIOUS
<1>2. b \in Seq(S) /\ Len(b) = Len(s) - i /\ \A j \in 1 .. Len(s) - i : b[j] = s[i + j]
  OBVIOUS
<1>3. Erased(s, i) = a \o b
  BY DEF Erased
<1> HIDE DEF a, b
<1>4. a \o b \in Seq(S) /\ Len(a \o b) = Len(s) - 1
  BY <1>1, <1>2
<1>5. \A j \in 1 .. Len(s) - 1 : (a \o b)[j] = IF j <= i - 1 THEN a[j] ELSE b[j - (i - 1)]
  BY <1>1, <1>2
<1> QED BY <1>1, <1>2, <1>3, <1>4, <1>5

LEMMA OwnInserted ==
    ASSUME NEW o, NEW s \in Seq(DOMAIN o), OwnPages(o, s), NEW i \in 0 .. Len(s),
           NEW x \in DOMAIN o, IsLeaf(o, x), x \notin Elements(s)
    PROVE  OwnPages(o, Inserted(s, i, x))
<1> DEFINE t == Inserted(s, i, x)
<1>1. /\ t \in Seq(DOMAIN o) /\ Len(t) = Len(s) + 1
      /\ \A j \in 1 .. Len(s) + 1 : t[j] = IF j <= i THEN s[j] ELSE IF j = i + 1 THEN x ELSE s[j - 1]
      /\ Elements(t) = Elements(s) \cup {x}
  <2> DEFINE D == DOMAIN o
  <2>1. s \in Seq(D) /\ x \in D
    OBVIOUS
  <2> HIDE DEF D
  <2>2. t \in Seq(D) /\ Len(t) = Len(s) + 1
    BY <2>1, InsertedIs
  <2>3. \A j \in 1 .. Len(s) + 1 : t[j] = IF j <= i THEN s[j] ELSE IF j = i + 1 THEN x ELSE s[j - 1]
    BY <2>1, InsertedIs
  <2>4. Elements(t) = Elements(s) \cup {x}
    BY <2>1, InsertedIs
  <2> QED BY <2>2, <2>3, <2>4 DEF D
<1> HIDE DEF t
<1>2. \A j \in 1 .. Len(s) : s[j] # x
  BY DEF Elements
<1>3. \A j, k \in 1 .. Len(s) : s[j] = s[k] => j = k
  BY DEF OwnPages
<1>4. ASSUME NEW j \in 1 .. Len(s) + 1, NEW k \in 1 .. Len(s) + 1, t[j] = t[k]
      PROVE  j = k
  <2> DEFINE at(m) == IF m <= i THEN m ELSE m - 1
  <2>1. \A m \in 1 .. Len(s) + 1 : m # i + 1 => at(m) \in 1 .. Len(s) /\ t[m] = s[at(m)]
    BY <1>1
  <2>2. t[i + 1] = x
    BY <1>1
  <2>3. CASE j = i + 1 \/ k = i + 1
    BY <1>2, <1>4, <2>1, <2>2, <2>3
  <2>4. CASE j # i + 1 /\ k # i + 1
    <3>1. at(j) = at(k)
      <4>1. at(j) \in 1 .. Len(s) /\ at(k) \in 1 .. Len(s) /\ s[at(j)] = s[at(k)]
        BY <1>4, <2>1, <2>4
      <4> HIDE DEF at
      <4> QED BY <1>3, <4>1
    <3> QED BY <2>4, <3>1
  <2> QED BY <2>3, <2>4
<1>5. \A n \in Elements(t) : IsLeaf(o, n)
  BY <1>1 DEF OwnPages
<1> QED BY <1>1, <1>4, <1>5 DEF OwnPages, t

LEMMA OwnErased ==
    ASSUME NEW o, NEW s \in Seq(DOMAIN o), OwnPages(o, s), NEW i \in 1 .. Len(s)
    PROVE  OwnPages(o, Erased(s, i)) /\ Elements(Erased(s, i)) \subseteq Elements(s)
<1> DEFINE t == Erased(s, i)
<1>1. /\ t \in Seq(DOMAIN o) /\ Len(t) = Len(s) - 1
      /\ \A j \in 1 .. Len(s) - 1 : t[j] = IF j < i THEN s[j] ELSE s[j + 1]
  BY ErasedIs
<1> HIDE DEF t
<1>2. \A j, k \in 1 .. Len(s) : s[j] = s[k] => j = k
  BY DEF OwnPages
<1>3. \A j, k \in 1 .. Len(s) - 1 : t[j] = t[k] => j = k
  BY <1>1, <1>2
<1>4. Elements(t) \subseteq Elements(s)
  BY <1>1 DEF Elements
<1> QED BY <1>1, <1>3, <1>4 DEF OwnPages, t

(* The same numbers are pages when no dictionary gained or lost its /Kids. *)
Alike(o, p) == DOMAIN o \subseteq DOMAIN p /\ \A n \in DOMAIN o : p[n].has_kids = o[n].has_kids

LEMMA OwnAlike ==
    ASSUME NEW o, NEW p, NEW list, OwnPages(o, list),
           \A n \in Elements(list) : n \in DOMAIN p /\ p[n].has_kids = o[n].has_kids
    PROVE  OwnPages(p, list)
BY DEF OwnPages, IsLeaf

LEMMA OwnAppended ==
    ASSUME NEW o, NEW D, NEW s \in Seq(D), OwnPages(o, s), NEW x \in D, IsLeaf(o, x), x \notin Elements(s)
    PROVE  OwnPages(o, Append(s, x))
<1> DEFINE t == Append(s, x)
<1>1. /\ t \in Seq(D) /\ Len(t) = Len(s) + 1 /\ t[Len(s) + 1] = x
      /\ \A i \in 1 .. Len(s) : t[i] = s[i]
      /\ Elements(t) = Elements(s) \cup {x}
  BY Appended
<1> HIDE DEF t
<1>2. DOMAIN t = 1 .. Len(s) + 1 /\ DOMAIN s = 1 .. Len(s) /\ Len(s) \in Nat
  BY <1>1
<1>3. \A j, k \in 1 .. Len(s) : s[j] = s[k] => j = k
  BY <1>2 DEF OwnPages
<1>4. \A j \in 1 .. Len(s) : s[j] # x
  BY <1>2 DEF Elements
<1>5. ASSUME NEW j \in DOMAIN t, NEW k \in DOMAIN t, t[j] = t[k] PROVE j = k
  <2>1. \A m \in DOMAIN t : m \in 1 .. Len(s) \/ m = Len(s) + 1
    BY <1>2
  <2> QED BY <1>1, <1>3, <1>4, <1>5, <2>1
<1>6. \A n \in Elements(t) : IsLeaf(o, n)
  BY <1>1 DEF OwnPages
<1> QED BY <1>5, <1>6 DEF OwnPages, t

-----------------------------------------------------------------------------
(* The way up from a node, and where it ends.                              *)

LEMMA DocumentFinite ==
    ASSUME last \in 0 .. MaxNumber, AreDictionaries(objects, last)
    PROVE  /\ IsFiniteSet(DOMAIN objects) /\ Cardinality(DOMAIN objects) \in Nat
           /\ DOMAIN objects \subseteq Ids \ {0} /\ last + 1 \notin DOMAIN objects
<1>1. MaxNumber \in Nat
  BY NumbersAssumption
<1>2. IsFiniteSet((-MaxNumber) .. last)
  BY <1>1, FS_Interval
<1>3. DOMAIN objects \subseteq (-MaxNumber) .. last /\ 0 \notin DOMAIN objects
  BY DEF AreDictionaries
<1>4. IsFiniteSet(DOMAIN objects)
  BY <1>2, <1>3, FS_Subset
<1>5. Cardinality(DOMAIN objects) \in Nat
  BY <1>4, FS_CardinalityType
<1> QED BY <1>1, <1>3, <1>4, <1>5 DEF Ids

LEMMA WalkIs ==
    ASSUME NEW N, N \in Nat, NEW V, NEW m, m \in V, NEW step, step \in [V -> V],
           NEW up, up = [k \in 0 .. N |-> IF k = 0 THEN m ELSE step[up[k - 1]]]
    PROVE  up \in [0 .. N -> V]
<1>1. DOMAIN up = 0 .. N
  OBVIOUS
<1>2. up[0] = m
  OBVIOUS
<1>3. \A k \in 1 .. N : up[k] = step[up[k - 1]]
  OBVIOUS
<1> DEFINE S == {k \in Nat : k <= N => up[k] \in V}
<1>4. 0 \in S
  BY <1>2
<1>5. ASSUME NEW k \in Nat, k \in S PROVE k + 1 \in S
  <2> SUFFICES ASSUME k + 1 <= N PROVE up[k + 1] \in V
    OBVIOUS
  <2>1. k + 1 \in 1 .. N /\ (k + 1) - 1 = k /\ up[k] \in V
    BY <1>5
  <2> QED BY <1>3, <2>1
<1>6. Nat \subseteq S
  <2> HIDE DEF S
  <2> QED BY <1>4, <1>5, SetInduction
<1>7. \A k \in 0 .. N : up[k] \in V
  BY <1>6
<1>8. up = [k \in 0 .. N |-> up[k]]
  OBVIOUS
<1> QED BY ONLY <1>7, <1>8

(* As many steps as there are nodes.                                       *)
WalkOf(N, m, step) == CHOOSE up : up = [k \in 0 .. N |-> IF k = 0 THEN m ELSE step[up[k - 1]]]

LEMMA WalkChosen ==
    ASSUME NEW N, N \in Nat, NEW V, NEW m, m \in V, NEW step, step \in [V -> V]
    PROVE  /\ WalkOf(N, m, step) \in [0 .. N -> V] /\ WalkOf(N, m, step)[0] = m
           /\ \A k \in 1 .. N : WalkOf(N, m, step)[k] = step[WalkOf(N, m, step)[k - 1]]
<1> DEFINE Is(up) == up = [k \in 0 .. N |-> IF k = 0 THEN m ELSE step[up[k - 1]]]
<1>1. \E f : Is(f)
  <2>1. \E f \in [0 .. N -> V] : f = [k \in 0 .. N |-> IF k = 0 THEN m ELSE step[f[k - 1]]]
    BY IterationExists
  <2> QED BY <2>1
<1>2. PICK up : up = CHOOSE u : Is(u)
  OBVIOUS
<1>3. Is(up)
  <2> HIDE DEF Is
  <2> QED BY <1>1, <1>2
<1>4. up \in [0 .. N -> V]
  <2>1. up = [k \in 0 .. N |-> IF k = 0 THEN m ELSE step[up[k - 1]]]
    BY <1>3
  <2> QED BY <2>1, WalkIs
<1>5. up[0] = m
  BY <1>3
<1>6. ASSUME NEW k \in 1 .. N PROVE up[k] = step[up[k - 1]]
  <2>1. k \in 0 .. N /\ k # 0
    OBVIOUS
  <2> QED BY <1>3, <2>1
<1>7. up = WalkOf(N, m, step)
  BY <1>2 DEF WalkOf
<1> HIDE DEF Is
<1> QED BY <1>4, <1>5, <1>6, <1>7

IsWalk(f, N, m, step) == f[0] = m /\ \A k \in 1 .. N : f[k] = step[f[k - 1]]

LEMMA WalkExists ==
    ASSUME NEW N, N \in Nat, NEW V, NEW m, m \in V, NEW step, step \in [V -> V]
    PROVE  \E f \in [0 .. N -> V] : IsWalk(f, N, m, step)
<1>1. PICK f \in [0 .. N -> V] : f = [k \in 0 .. N |-> IF k = 0 THEN m ELSE step[f[k - 1]]]
  BY IterationExists
<1>2. f[0] = m
  BY <1>1
<1>3. ASSUME NEW k \in 1 .. N PROVE f[k] = step[f[k - 1]]
  <2>1. k \in 0 .. N /\ k # 0
    OBVIOUS
  <2> QED BY <1>1, <2>1
<1>4. IsWalk(f, N, m, step)
  BY <1>2, <1>3 DEF IsWalk
<1> QED BY <1>2, <1>4

LEMMA ParentsAre ==
    ASSUME last \in 0 .. MaxNumber, AreDictionaries(objects, last), NEW m \in DOMAIN objects
    PROVE  Parents(m) \in [0 .. Cardinality(DOMAIN objects) -> DOMAIN objects]
<1> DEFINE V == DOMAIN objects
           N == Cardinality(V)
           step == Up
<1>1. N \in Nat /\ m \in V
  BY DocumentFinite
<1>2. step \in [V -> V]
  BY DEF Up, AreDictionaries, IsDictionary
<1>3. Parents(m) = WalkOf(N, m, step)
  BY DEF Parents, WalkOf
<1> HIDE DEF V, N, step
<1>4. WalkOf(N, m, step) \in [0 .. N -> V]
  BY <1>1, <1>2, WalkChosen
<1>5. Parents(m) \in [0 .. N -> V]
  BY <1>3, <1>4
<1> QED BY <1>5 DEF N, V

(* The loop over /Parent ends: there are more steps than nodes.            *)
LEMMA RootExists ==
    ASSUME last \in 0 .. MaxNumber, AreDictionaries(objects, last), NEW n \in DOMAIN objects
    PROVE  PageTreeRoot(n) \in DOMAIN objects
<1> DEFINE V == DOMAIN objects
           N == Cardinality(V)
           up == Parents(n)
<1>1. N \in Nat /\ IsFiniteSet(V)
  BY DocumentFinite
<1>2. up \in [0 .. N -> V]
  BY ParentsAre
<1> HIDE DEF V, N, up
<1>3. PICK x, y \in 0 .. N : x # y /\ up[x] = up[y]
  <2>1. IsFiniteSet(0 .. N) /\ Cardinality(0 .. N) = N + 1
    BY <1>1, FS_Interval
  <2>2. Cardinality(V) < Cardinality(0 .. N)
    BY <1>1, <2>1 DEF N
  <2> QED BY <1>1, <1>2, <2>1, <2>2, FS_PigeonHole
<1> DEFINE K == {k \in 0 .. N : ComesBack(up, k)}
<1>4. K # {}
  <2>1. CASE x < y
    BY <1>1, <1>3, <2>1 DEF ComesBack
  <2>2. CASE y < x
    BY <1>1, <1>3, <2>2 DEF ComesBack
  <2> QED BY <1>1, <1>3, <2>1, <2>2
<1>5. PICK k \in K : \A j \in K : k <= j
  <2>1. K \subseteq Nat
    BY <1>1
  <2> HIDE DEF K
  <2> QED BY <1>4, <2>1, LeastExists
<1>6. /\ k \in DOMAIN up /\ ComesBack(up, k) /\ up[k] \in V
      /\ \A j \in 0 .. k - 1 : ~ComesBack(up, j)
  BY <1>1, <1>2, <1>5
<1>7. \E r \in V : \E u \in {up} : \E i \in DOMAIN u : /\ r = u[i] /\ ComesBack(u, i)
                                                     /\ \A j \in 0 .. i - 1 : ~ComesBack(u, j)
  BY <1>6
<1> QED BY <1>7 DEF PageTreeRoot, V, up

-----------------------------------------------------------------------------
(* What starts and what ends a call.                                       *)

LEMMA CallIs ==
    ASSUME NEW op \in Ops, NEW page \in Int, NEW new \in NewPages \cup {Blank}, NEW index \in Int,
           NEW other \in Int, NEW selected \in Seq(Int)
    PROVE  /\ Call(op, page, new, index, other, selected) \in CallSet
           /\ Call(op, page, new, index, other, selected).phase = "root"
           /\ Call(op, page, new, index, other, selected).outcome = "running"
BY DEF Call, CallSet, Phases, Outcomes

LEMMA EndedIs ==
    ASSUME call \in CallSet, NEW why \in Outcomes
    PROVE  Ended(why) \in CallSet /\ Ended(why).phase = "idle" /\ Ended(why).outcome = why
<1>1. call.op \in Ops /\ <<>> \in Seq(Int)
  BY DEF CallSet
<1> DEFINE c == Call(call.op, 0, Blank, 0, 0, <<>>)
<1>2. c \in CallSet
  BY <1>1 DEF Call, CallSet, Phases, Outcomes
<1>3. Ended(why) = [c EXCEPT !.phase = "idle", !.outcome = why]
  BY DEF Ended
<1> HIDE DEF c
<1> QED BY <1>2, <1>3 DEF CallSet, Phases

LEMMA EmptyIs == Empty \in [KeySet -> Seq(Values)]
BY DEF Empty

LEMMA FinishKeeps ==
    ASSUME call \in CallSet, NEW why \in Outcomes, Finish(why)
    PROVE  CallInv' /\ WalkTypes' /\ PhaseInv' /\ call'.phase = "idle" /\ call'.outcome = why
<1>1. call' = Ended(why) /\ frames' = <<>> /\ pages' = <<>>
      /\ met' = [seen |-> {}, visited |-> {}] /\ above' = Empty
  BY DEF Finish
<1>2. call' \in CallSet /\ call'.phase = "idle" /\ call'.outcome = why
  BY <1>1, EndedIs
<1>3. CallInv'
  BY <1>2 DEF CallInv, Idle
<1>4. WalkTypes'
  BY <1>1, <1>2, EmptyIs DEF WalkTypes
<1>5. PhaseInv'
  BY <1>2 DEF PhaseInv
<1> QED BY <1>2, <1>3, <1>4, <1>5

LEMMA KeysAre == Keys \in Seq(KeySet) /\ Elements(Keys) = KeySet
<1>1. Keys \in Seq(KeySet) /\ DOMAIN Keys = 1 .. 2
  BY DEF Keys, KeySet
<1>2. Keys[1] = "MediaBox" /\ Keys[2] = "Resources"
  BY DEF Keys
<1> QED BY <1>1, <1>2 DEF Elements, KeySet

LEMMA RootAttrs ==
    ASSUME NEW d, NEW D, IsDictionary(d, D)
    PROVE  DOMAIN d.attrs \subseteq KeySet
<1>1. d.attrs \in AttrSet
  BY NodeIs DEF IsDictionary
<1> QED BY <1>1, AttrsAre

(* The list of a tree without a page, or the one that is cached.           *)
LEMMA ContinueKeeps ==
    ASSUME NEW c \in CallSet, c.outcome = "running", NEW r, NEW list, Continue(c, r, list), UNCHANGED objects,
           DocInv', CacheInv', FlatInv', ~stale', flattened' = flattened,
           r = catalog', list = cache'.pages, OwnPages(objects', list),
           \A n \in GivenOf(c) : IsLeaf(objects', n) /\ n # r, call \in CallSet
    PROVE  CallInv' /\ WalkTypes' /\ PhaseInv'
<1> DEFINE Reads == c.op \in {"get_all_pages", "update_all_pages_cache"} \/ (c.op = "push" /\ ~IsPages(r))
           Pushes == (c.op = "push" \/ Flattens(c)) /\ IsPages(r)
<1>1. Flattens(c) <=> c.op \in Edits /\ ~flattened
  BY DEF Flattens, Edits
<1>2. IsPages(catalog)' = IsPages(r)
  BY DEF IsPages
<1>3. CASE Reads
  <2>1. Finish("ok")
    <3>1. CASE c.op \in {"get_all_pages", "update_all_pages_cache"}
      BY <3>1 DEF Continue, Flattens
    <3>2. CASE c.op = "push" /\ ~IsPages(r)
      BY <3>2 DEF Continue, Flattens
    <3> QED BY <1>3, <3>1, <3>2
  <2> QED BY <2>1, FinishKeeps DEF Outcomes
<1>4. CASE ~Reads /\ Pushes
  <2> DEFINE f == [node |-> r, todo |-> Keys, next |-> 1, own |-> {}]
  <2>1. /\ call' = [c EXCEPT !.phase = "push"]
        /\ pages' = list
        /\ frames' = <<f>>
        /\ met' = [seen |-> {}, visited |-> {r}]
        /\ above' = Empty
    BY <1>4 DEF Continue
  <2>2. call' \in CallSet /\ call'.phase = "push" /\ call'.outcome = "running" /\ call'.op = c.op
        /\ call'.page = c.page /\ call'.selected = c.selected
    BY <2>1 DEF CallSet, Phases
  <2>3. f \in PushFrames' /\ frames' \in Seq(PushFrames') /\ Len(frames') = 1 /\ frames'[1] = f
    <3>1. f \in PushFrames'
      BY KeysAre DEF PushFrames, DocInv
    <3> HIDE DEF f
    <3> QED BY <2>1, <3>1
  <2>4. CallInv'
    BY <2>2 DEF CallInv, Idle, GivenOf
  <2>5. WalkTypes'
    BY <2>1, <2>2, <2>3, EmptyIs DEF WalkTypes, DocInv
  <2>6. InPush'
    <3>1. IsDictionary(objects'[r], DOMAIN objects')
      BY DEF DocInv, AreDictionaries
    <3>2. DOMAIN objects'[r].attrs \subseteq KeySet
      BY <3>1, RootAttrs
    <3>3. f.node = r /\ f.todo = Keys
      OBVIOUS
    <3> HIDE DEF f
    <3>4. HasList'
      BY <2>1 DEF HasList
    <3>5. (frames[1].node = catalog)' /\ (DOMAIN objects[catalog].attrs \subseteq Elements(frames[1].todo))'
      BY <2>3, <3>2, <3>3, KeysAre
    <3>6. (call.op = "push" \/ (call.op \in Edits /\ ~flattened))'
      BY <1>1, <1>4, <2>2
    <3> QED BY <1>2, <1>4, <3>4, <3>5, <3>6 DEF InPush
  <2>7. PhaseInv'
    BY <2>2, <2>6 DEF PhaseInv
  <2> QED BY <2>4, <2>5, <2>7
<1>5. CASE ~Reads /\ ~Pushes
  <2>1. /\ call' = [c EXCEPT !.phase = IF Flattens(c) THEN "flatten" ELSE "edit"]
        /\ pages' = list
        /\ frames' = <<>>
        /\ met' = [seen |-> {}, visited |-> {}]
        /\ above' = Empty
    BY <1>5 DEF Continue
  <2>2. call' \in CallSet /\ call'.phase = (IF Flattens(c) THEN "flatten" ELSE "edit")
        /\ call'.outcome = "running" /\ call'.op = c.op /\ call'.page = c.page /\ call'.selected = c.selected
    BY <2>1 DEF CallSet, Phases
  <2>3. CallInv'
    BY <2>2 DEF CallInv, Idle, GivenOf
  <2>4. WalkTypes'
    BY <2>1, <2>2, EmptyIs DEF WalkTypes, DocInv
  <2>5. HasList'
    BY <2>1 DEF HasList
  <2>6. CASE Flattens(c)
    <3>1. Bare'
      BY <1>2, <1>5, <2>6 DEF Bare
    <3>2. InFlatten'
      BY <1>1, <2>2, <2>5, <2>6, <3>1 DEF InFlatten
    <3> QED BY <2>2, <2>3, <2>4, <2>6, <3>2 DEF PhaseInv
  <2>7. CASE ~Flattens(c)
    <3>1. c.op = "rebuild_page_tree" \/ (c.op \in Edits /\ flattened)
      <4>1. c.op \in Ops
        BY DEF CallSet
      <4> QED BY <1>1, <1>5, <2>7, <4>1 DEF Ops
    <3>2. InEdit'
      <4>1. CASE c.op = "rebuild_page_tree"
        BY <2>2, <2>5, <4>1 DEF InEdit
      <4>2. CASE c.op \in Edits /\ flattened
        <5>1. (cache.pages # <<>> /\ IsFlat(objects, catalog, cache.pages))'
          BY <4>2 DEF FlatInv
        <5>2. (objects[catalog].has_kids)'
          BY <5>1 DEF CacheInv
        <5> QED BY <2>1, <2>2, <2>5, <4>2, <5>1, <5>2 DEF InEdit
      <4> QED BY <3>1, <4>1, <4>2
    <3> QED BY <2>2, <2>3, <2>4, <2>7, <3>2 DEF PhaseInv
  <2> QED BY <2>6, <2>7
<1> QED BY <1>3, <1>4, <1>5

-----------------------------------------------------------------------------
(* A call begins.                                                          *)

LEMMA SameRoot ==
    ASSUME UNCHANGED <<objects, catalog>>
    PROVE  PageTreeRoot(catalog)' = PageTreeRoot(catalog)
BY DEF PageTreeRoot, Parents, Up

LEMMA StartKeeps ==
    ASSUME PageInv, NEW op \in Ops, NEW page \in Int, NEW new \in NewPages \cup {Blank}, NEW index \in Int,
           NEW other \in Int, NEW selected \in Seq(Int), Start(op, page, new, index, other, selected),
           \A n \in ({page} \ {0}) \cup Elements(selected) :
              IsLeaf(objects, n) /\ n # IF cache.pages # <<>> THEN catalog ELSE PageTreeRoot(catalog)
    PROVE  PageInv'
<1> DEFINE c == Call(op, page, new, index, other, selected)
<1>1. c \in CallSet /\ c.phase = "root" /\ c.outcome = "running"
  <2>1. c \in CallSet
    BY CallIs
  <2>2. c.phase = "root" /\ c.outcome = "running"
    BY DEF Call
  <2> QED BY <2>1, <2>2
<1>2. c.page = page /\ c.selected = selected
  BY DEF Call
<1> HIDE DEF c
<1>3. /\ Idle /\ ~stale /\ UNCHANGED <<objects, catalog, last, cache, flattened, stale>>
      /\ IF cache.pages # <<>> THEN Continue(c, cache.root, cache.pages) ELSE call' = c /\ UNCHANGED walk
  <2>1. /\ Idle /\ ~stale /\ UNCHANGED <<doc, known, stale>>
        /\ IF cache.pages # <<>> THEN Continue(Call(op, page, new, index, other, selected), cache.root, cache.pages)
           ELSE call' = Call(op, page, new, index, other, selected) /\ UNCHANGED walk
    BY DEF Start
  <2>2. UNCHANGED <<objects, catalog, last, cache, flattened, stale>>
    BY <2>1 DEF doc, known
  <2> QED BY <2>1, <2>2 DEF c
<1>4. DocInv' /\ CacheInv' /\ FlatInv'
  <2>1. DocInv'
    BY <1>3 DEF PageInv, DocInv
  <2>2. CacheInv'
    BY <1>3 DEF PageInv, CacheInv
  <2>3. FlatInv'
    BY <1>3 DEF PageInv, FlatInv
  <2> QED BY <2>1, <2>2, <2>3
<1>5. CASE cache.pages # <<>>
  <2>1. Continue(c, cache.root, cache.pages)
    BY <1>3, <1>5
  <2>2. cache.root = catalog' /\ OwnPages(objects', cache.pages)
    BY <1>3, <1>5 DEF PageInv, CacheInv
  <2>3. \A n \in GivenOf(c) : IsLeaf(objects', n) /\ n # cache.root
    BY <1>2, <1>3, <1>5, <2>2 DEF GivenOf
  <2>4. call \in CallSet
    BY DEF PageInv, CallInv
  <2>5. CallInv' /\ WalkTypes' /\ PhaseInv'
    BY <1>1, <1>3, <1>4, <2>1, <2>2, <2>3, <2>4, ContinueKeeps
  <2> QED BY <1>4, <2>5 DEF PageInv
<1>6. CASE cache.pages = <<>>
  <2>1. call' = c /\ UNCHANGED <<pages, frames, met, above>>
    BY <1>3, <1>6 DEF walk
  <2>2. CallInv'
    <3>1. ASSUME NEW n \in GivenOf(c) PROVE IsLeaf(objects', n) /\ n # PageTreeRoot(catalog)'
      <4>1. n \in ({page} \ {0}) \cup Elements(selected)
        BY <1>2 DEF GivenOf
      <4>2. IsLeaf(objects, n) /\ n # PageTreeRoot(catalog)
        BY <1>6, <4>1
      <4>3. PageTreeRoot(catalog)' = PageTreeRoot(catalog)
        BY <1>3, SameRoot
      <4> QED BY <1>3, <4>2, <4>3
    <3>2. GivenOf(call)' = GivenOf(c)
      BY <2>1 DEF GivenOf
    <3> QED BY <1>1, <1>3, <2>1, <3>1, <3>2 DEF CallInv
  <2>3. WalkTypes'
    BY <1>1, <1>3, <2>1 DEF PageInv, WalkTypes, Idle
  <2>4. PhaseInv'
    BY <1>1, <1>3, <1>6, <2>1 DEF PhaseInv
  <2> QED BY <1>4, <2>2, <2>3, <2>4 DEF PageInv
<1> QED BY <1>5, <1>6

LEMMA ListedIs ==
    ASSUME PageInv, NEW n \in Listed
    PROVE  n \in Int /\ n # 0 /\ IsLeaf(objects, n) /\ n # catalog /\ n # PageTreeRoot(catalog)
<1>1. DOMAIN objects \subseteq Ids
  BY DocumentFinite DEF PageInv, DocInv
<1> QED BY <1>1, NumbersAssumption DEF Listed, IsLeaf, Ids

LEMMA GivenIs ==
    ASSUME PageInv, NEW g \in Given
    PROVE  /\ g[1] \in Int /\ g[2] \in NewPages \cup {Blank}
           /\ g[1] # 0 => IsLeaf(objects, g[1]) /\ g[1] # catalog /\ g[1] # PageTreeRoot(catalog)
<1>1. CASE g \in {<<0, p>> : p \in NewPages}
  BY <1>1
<1>2. CASE g \in Listed \X {Blank}
  <2>1. g[1] \in Listed /\ g[2] = Blank
    BY <1>2
  <2> QED BY <2>1, ListedIs
<1> QED BY <1>1, <1>2 DEF Given

LEMMA SelectionIs ==
    ASSUME PageInv, ~stale, NEW selected \in Selections
    PROVE  /\ selected \in Seq(Int)
           /\ \A n \in Elements(selected) :
                 IsLeaf(objects, n) /\ n # IF cache.pages # <<>> THEN catalog ELSE PageTreeRoot(catalog)
<1> DEFINE Good(n) == n \in Int /\ IsLeaf(objects, n) /\ n # IF cache.pages # <<>> THEN catalog ELSE PageTreeRoot(catalog)
<1>1. ASSUME NEW n \in Elements(cache.pages) PROVE Good(n)
  <2>1. cache.pages # <<>>
    BY DEF Elements
  <2>2. IsLeaf(objects, n) /\ objects[catalog].has_kids
    BY <2>1 DEF PageInv, CacheInv, OwnPages
  <2>3. DOMAIN objects \subseteq Ids
    BY DocumentFinite DEF PageInv, DocInv
  <2> QED BY <2>1, <2>2, <2>3, NumbersAssumption DEF IsLeaf, Ids
<1>2. ASSUME NEW n \in Listed PROVE Good(n)
  BY ListedIs
<1> HIDE DEF Good
<1>3. \A n, m : Elements(<<n>>) = {n} /\ Elements(<<n, m>>) = {n, m} /\ Elements(<<>>) = {}
  BY DEF Elements
<1>4. \A n, m : Good(n) /\ Good(m) => <<n, m>> \in Seq(Int) /\ <<n>> \in Seq(Int)
  BY DEF Good
<1>5. CASE selected = <<>>
  BY <1>3, <1>5
<1>6. CASE \E n \in Elements(cache.pages) : selected = <<n>>
  BY <1>1, <1>3, <1>4, <1>6 DEF Good
<1>7. CASE \E n \in Elements(cache.pages), m \in Elements(cache.pages) \cup Listed : selected = <<n, m>>
  <2>1. PICK n \in Elements(cache.pages), m \in Elements(cache.pages) \cup Listed : selected = <<n, m>>
    BY <1>7
  <2>2. Good(n) /\ Good(m)
    BY <1>1, <1>2
  <2>3. selected \in Seq(Int) /\ Elements(selected) = {n, m}
    BY <1>3, <1>4, <2>1, <2>2
  <2> QED BY <2>2, <2>3 DEF Good
<1> QED BY <1>5, <1>6, <1>7 DEF Selections

LEMMA Kept ==
    ASSUME PageInv, UNCHANGED vars
    PROVE  PageInv'
<1>1. UNCHANGED <<objects, catalog, last, cache, flattened, call, pages, frames, met, above, stale>>
  BY DEF vars, doc, known, walk
<1>2. PageTreeRoot(catalog)' = PageTreeRoot(catalog)
  BY <1>1, SameRoot
<1>3. DocInv' /\ CacheInv' /\ FlatInv'
  BY <1>1 DEF PageInv, DocInv, CacheInv, FlatInv
<1>4. CallInv'
  BY <1>1, <1>2 DEF PageInv, CallInv, Idle
<1>5. WalkTypes'
  BY <1>1 DEF PageInv, WalkTypes, PushFrames, RepairFrames
<1>6. PhaseInv'
  BY <1>1 DEF PageInv, PhaseInv, InRepair, InPush, InFlatten, InEdit, HasList, Bare, IsPages
<1> QED BY <1>3, <1>4, <1>5, <1>6 DEF PageInv

LEMMA UpdateKeeps ==
    ASSUME PageInv, update_all_pages_cache
    PROVE  PageInv'
<1> DEFINE c == Call("update_all_pages_cache", 0, Blank, 0, 0, <<>>)
<1>1. c \in CallSet /\ c.phase = "root" /\ c.outcome = "running" /\ c.page = 0 /\ c.selected = <<>>
  BY DEF Call, CallSet, Ops, Phases, Outcomes
<1> HIDE DEF c
<1>2. /\ Idle /\ UNCHANGED <<objects, catalog, last, pages, frames, met, above>>
      /\ cache' = NoCache /\ flattened' = FALSE /\ call' = c /\ stale' = FALSE
  BY DEF update_all_pages_cache, Invalidated, doc, walk, c
<1>3. NoCache.pages = <<>>
  BY DEF NoCache
<1>4. DocInv'
  <2>1. NoCache = [root |-> NoCache.root, pages |-> NoCache.pages] /\ NoCache.pages \in Seq(DOMAIN objects)
    BY DEF NoCache
  <2> QED BY <1>2, <2>1 DEF PageInv, DocInv
<1>5. CacheInv' /\ FlatInv'
  BY <1>2, <1>3 DEF CacheInv, FlatInv
<1>6. CallInv'
  <2>1. GivenOf(c) = {}
    BY <1>1 DEF GivenOf, Elements
  <2> QED BY <1>1, <1>2, <2>1 DEF CallInv
<1>7. WalkTypes'
  BY <1>1, <1>2 DEF PageInv, WalkTypes, Idle
<1>8. PhaseInv'
  BY <1>1, <1>2, <1>3 DEF PhaseInv
<1> QED BY <1>4, <1>5, <1>6, <1>7, <1>8 DEF PageInv

LEMMA ChangeKeeps ==
    ASSUME PageInv, ChangeTree
    PROVE  PageInv'
<1>1. /\ Idle /\ UNCHANGED <<catalog, last, cache, flattened, call, pages, frames, met, above>>
      /\ stale' = TRUE /\ DOMAIN objects' = DOMAIN objects /\ AreDictionaries(objects', last')
  BY DEF ChangeTree, known, walk
<1>2. DocInv'
  BY <1>1 DEF PageInv, DocInv
<1>3. CacheInv' /\ FlatInv'
  BY <1>1 DEF CacheInv, FlatInv
<1>4. CallInv'
  BY <1>1 DEF PageInv, CallInv, Idle
<1>5. WalkTypes'
  BY <1>1 DEF PageInv, WalkTypes, Idle
<1>6. PhaseInv'
  BY <1>1 DEF PhaseInv, Idle
<1> QED BY <1>2, <1>3, <1>4, <1>5, <1>6 DEF PageInv

-----------------------------------------------------------------------------
(* Documents with a dictionary changed or added.                           *)

LEMMA MergedAttrs ==
    ASSUME NEW a \in AttrSet, NEW b \in AttrSet
    PROVE  Over(a, b) \in AttrSet
<1>1. DOMAIN a \subseteq KeySet /\ DOMAIN b \subseteq KeySet
      /\ (\A k \in DOMAIN a : a[k] \in Values) /\ (\A k \in DOMAIN b : b[k] \in Values)
  BY AttrsAre
<1> DEFINE c == Over(a, b)
<1>2. c = [k \in DOMAIN c |-> c[k]] /\ DOMAIN c \subseteq KeySet /\ \A k \in DOMAIN c : c[k] \in Values
  BY <1>1 DEF Over
<1> HIDE DEF c
<1>3. c \in AttrSet
  BY <1>2, AttrsAre
<1> QED BY <1>3 DEF c

LEMMA WithAttr ==
    ASSUME NEW a \in AttrSet, NEW k \in KeySet, NEW v \in Values
    PROVE  With(a, k, v) \in AttrSet
<1>1. DOMAIN a \subseteq KeySet /\ \A j \in DOMAIN a : a[j] \in Values
  BY AttrsAre
<1> DEFINE c == With(a, k, v)
<1>2. c = [j \in DOMAIN c |-> c[j]] /\ DOMAIN c \subseteq KeySet /\ \A j \in DOMAIN c : c[j] \in Values
  BY <1>1 DEF With
<1> HIDE DEF c
<1>3. c \in AttrSet
  BY <1>2, AttrsAre
<1> QED BY <1>3 DEF c

LEMMA DocumentChanged ==
    ASSUME NEW o, NEW n, AreDictionaries(o, n), NEW m \in DOMAIN o, NEW d, IsDictionary(d, DOMAIN o)
    PROVE  /\ AreDictionaries([o EXCEPT ![m] = d], n)
           /\ DOMAIN [o EXCEPT ![m] = d] = DOMAIN o
           /\ [o EXCEPT ![m] = d][m] = d
           /\ \A k \in DOMAIN o : k # m => [o EXCEPT ![m] = d][k] = o[k]
BY DEF AreDictionaries

LEMMA DocumentPut ==
    ASSUME NEW o, NEW n, AreDictionaries(o, n), NEW m \in DOMAIN o, NEW d, IsDictionary(d, DOMAIN o)
    PROVE  /\ AreDictionaries(With(o, m, d), n)
           /\ DOMAIN With(o, m, d) = DOMAIN o
           /\ With(o, m, d)[m] = d
           /\ \A k \in DOMAIN o : k # m => With(o, m, d)[k] = o[k]
<1>1. /\ DOMAIN With(o, m, d) = DOMAIN o /\ With(o, m, d)[m] = d
      /\ \A k \in DOMAIN o : k # m => With(o, m, d)[k] = o[k]
  BY DEF With
<1> QED BY <1>1 DEF AreDictionaries

LEMMA DocumentGrown ==
    ASSUME NEW o, NEW n \in Nat, AreDictionaries(o, n), NEW d, IsDictionary(d, DOMAIN o \cup {n + 1})
    PROVE  /\ AreDictionaries(With(o, n + 1, d), n + 1)
           /\ DOMAIN With(o, n + 1, d) = DOMAIN o \cup {n + 1}
           /\ With(o, n + 1, d)[n + 1] = d
           /\ \A k \in DOMAIN o : k # n + 1 /\ With(o, n + 1, d)[k] = o[k]
<1> DEFINE p == With(o, n + 1, d)
<1>1. DOMAIN p = {n + 1} \cup DOMAIN o /\ p[n + 1] = d /\ \A k \in DOMAIN o : k # n + 1 => p[k] = o[k]
  BY DEF With
<1> HIDE DEF p
<1>2. DOMAIN o \subseteq ((-MaxNumber) .. n) \ {0} /\ MaxNumber \in Nat
  BY NumbersAssumption DEF AreDictionaries
<1>3. n + 1 \notin DOMAIN o
  BY <1>2
<1>4. DOMAIN p \subseteq ((-MaxNumber) .. n + 1) \ {0}
  BY <1>1, <1>2
<1>5. ASSUME NEW k \in DOMAIN p PROVE IsDictionary(p[k], DOMAIN p)
  <2>1. CASE k = n + 1
    BY <1>1, <2>1
  <2>2. CASE k \in DOMAIN o
    <3>1. IsDictionary(o[k], DOMAIN o)
      BY <2>2 DEF AreDictionaries
    <3>2. p[k] = o[k]
      BY <1>1, <1>3, <2>2
    <3> QED BY <1>1, <3>1, <3>2, DictionaryMore
  <2> QED BY <1>1, <2>1, <2>2
<1>6. AreDictionaries(p, n + 1)
  BY <1>4, <1>5 DEF AreDictionaries
<1> QED BY <1>1, <1>3, <1>6 DEF p

-----------------------------------------------------------------------------
(* prepare_for_optimization.                                               *)

LEMMA DocumentKeeps ==
    ASSUME DocInv, last' \in 0 .. MaxNumber, AreDictionaries(objects', last'),
           DOMAIN objects \subseteq DOMAIN objects', catalog' \in DOMAIN objects', UNCHANGED <<known, stale>>
    PROVE  DocInv'
<1>1. UNCHANGED <<cache, flattened, stale>>
  BY DEF known
<1>2. cache'.pages \in Seq(DOMAIN objects')
  BY <1>1 DEF DocInv
<1> QED BY <1>1, <1>2 DEF DocInv

LEMMA CallKeeps ==
    ASSUME CallInv, ~Idle, call.phase # "root", Alike(objects, objects'), UNCHANGED <<call, catalog, stale>>
    PROVE  CallInv'
<1>1. \A n : IsLeaf(objects, n) => IsLeaf(objects', n)
  BY DEF Alike, IsLeaf
<1>2. GivenOf(call)' = GivenOf(call)
  BY DEF GivenOf
<1> QED BY <1>1, <1>2 DEF CallInv, Idle

(* A call without a cached list starts from a tree that is not flat.       *)
LEMMA NotKnown ==
    ASSUME PageInv, ~Idle, cache.pages = <<>>, UNCHANGED <<known, stale>>
    PROVE  ~stale /\ ~flattened /\ cache'.pages = <<>> /\ CacheInv' /\ FlatInv'
<1>1. UNCHANGED <<cache, flattened, stale>>
  BY DEF known
<1>2. ~stale /\ ~flattened
  BY DEF PageInv, CallInv, FlatInv
<1> QED BY <1>1, <1>2 DEF CacheInv, FlatInv

LEMMA BoxIs ==
    ASSUME NEW n \in DOMAIN objects, NEW box \in BOOLEAN
    PROVE  RepairFrame(n, box) \in RepairFrames /\ RepairFrame(n, box).node = n
<1>1. (box \/ Rectangle(n)) \in BOOLEAN
  OBVIOUS
<1> QED BY <1>1 DEF RepairFrame, RepairFrames

LEMMA FindRootKeeps ==
    ASSUME PageInv, FindRoot
    PROVE  PageInv'
<1> DEFINE r == PageTreeRoot(catalog)
<1>1. DocInv /\ call.phase = "root" /\ ~Idle /\ cache.pages = <<>>
  BY DEF PageInv, PhaseInv, FindRoot, Idle
<1>2. r \in DOMAIN objects
  BY <1>1, RootExists DEF DocInv
<1>3. /\ catalog' = r /\ UNCHANGED <<last, known, stale>>
      /\ \/ /\ objects[r].has_kids
            /\ objects' = [objects EXCEPT ![r].type = "Pages"]
            /\ call' = [call EXCEPT !.phase = "repair"]
            /\ frames' = <<RepairFrame(r, FALSE)>>
            /\ met' = [seen |-> {}, visited |-> {r}]
            /\ pages' = <<>>
            /\ above' = Empty
         \/ /\ ~objects[r].has_kids
            /\ Continue(call, r, <<>>) /\ UNCHANGED objects
  BY DEF FindRoot
<1>4. call \in CallSet /\ call.outcome = "running" /\ \A n \in GivenOf(call) : IsLeaf(objects, n) /\ n # r
  BY <1>1 DEF PageInv, CallInv
<1> HIDE DEF r
<1>5. ~stale' /\ ~flattened /\ cache'.pages = <<>> /\ CacheInv' /\ FlatInv' /\ flattened' = flattened
  BY <1>1, <1>3, NotKnown DEF known
<1>6. CASE objects[r].has_kids
  <2>1. /\ objects' = [objects EXCEPT ![r].type = "Pages"]
        /\ call' = [call EXCEPT !.phase = "repair"]
        /\ frames' = <<RepairFrame(r, FALSE)>>
        /\ met' = [seen |-> {}, visited |-> {r}]
        /\ pages' = <<>>
        /\ above' = Empty
    BY <1>3, <1>6
  <2>2. AreDictionaries(objects', last) /\ DOMAIN objects' = DOMAIN objects
    <3> DEFINE d == [objects[r] EXCEPT !.type = "Pages"]
    <3>1. IsDictionary(d, DOMAIN objects)
      BY <1>1, <1>2, DictionaryType DEF DocInv, AreDictionaries
    <3>2. objects' = [objects EXCEPT ![r] = d]
      BY <2>1
    <3> HIDE DEF d
    <3> QED BY <1>1, <1>2, <3>1, <3>2, DocumentChanged DEF DocInv
  <2>3. DocInv'
    BY <1>1, <1>2, <1>3, <2>2, DocumentKeeps DEF DocInv
  <2>4. objects'[r].type = "Pages" /\ Alike(objects, objects')
    BY <1>1, <1>2, <2>1 DEF Alike, DocInv, AreDictionaries, IsDictionary, Node
  <2>5. call' \in CallSet /\ call'.phase = "repair" /\ call'.outcome = "running" /\ GivenOf(call') = GivenOf(call)
    BY <1>4, <2>1 DEF CallSet, Phases, GivenOf
  <2>6. CallInv'
    <3>1. \A n : IsLeaf(objects, n) => IsLeaf(objects', n)
      BY <2>4 DEF Alike, IsLeaf
    <3> QED BY <1>3, <1>4, <1>5, <2>5, <3>1 DEF CallInv
  <2>7. WalkTypes'
    <3>1. RepairFrame(r, FALSE) \in RepairFrames
      BY <1>2, BoxIs
    <3>2. RepairFrames' = RepairFrames
      BY <2>2 DEF RepairFrames
    <3>3. \A f \in RepairFrames : <<f>> \in Seq(RepairFrames) /\ <<f>> # <<>>
      OBVIOUS
    <3>4. frames' \in Seq(RepairFrames') /\ frames' # <<>>
      BY <2>1, <3>1, <3>2, <3>3
    <3>5. pages' \in Seq(DOMAIN objects') /\ met' = [seen |-> met'.seen, visited |-> met'.visited] /\ met'.seen = {}
      BY <2>1
    <3> QED BY <2>1, <2>5, <3>4, <3>5, EmptyIs DEF WalkTypes
  <2>8. InRepair'
    <3>1. OwnPages(objects', <<>>) /\ Elements(<<>>) = {}
      BY DEF OwnPages, Elements
    <3> QED BY <1>2, <1>3, <1>5, <1>6, <2>1, <2>4, <3>1 DEF InRepair, Alike
  <2>9. PhaseInv'
    BY <2>5, <2>8 DEF PhaseInv
  <2> QED BY <1>5, <2>3, <2>6, <2>7, <2>9 DEF PageInv
<1>7. CASE ~objects[r].has_kids
  <2>1. Continue(call, r, <<>>) /\ UNCHANGED objects
    BY <1>3, <1>7
  <2>2. DocInv'
    BY <1>1, <1>2, <1>3, <2>1, DocumentKeeps DEF DocInv
  <2>3. OwnPages(objects', <<>>)
    BY DEF OwnPages, Elements
  <2>4. \A n \in GivenOf(call) : IsLeaf(objects', n) /\ n # r
    BY <1>4, <2>1
  <2>5. CallInv' /\ WalkTypes' /\ PhaseInv'
    BY <1>3, <1>4, <1>5, <2>1, <2>2, <2>3, <2>4, ContinueKeeps
  <2> QED BY <1>5, <2>2, <2>5 DEF PageInv
<1> QED BY <1>6, <1>7

(* The top of the walk over the tree, and its next kid.                    *)
LEMMA RepairTop ==
    ASSUME PageInv, call.phase = "repair"
    PROVE  /\ DocInv /\ InRepair /\ ~Idle /\ frames \in Seq(RepairFrames)
           /\ Len(frames) \in Nat \ {0} /\ Top \in RepairFrames /\ Top.node \in DOMAIN objects
           /\ AtKid => Kid \in DOMAIN objects /\ Top.next \in DOMAIN Kids(Top.node) /\ objects[Top.node].has_kids
<1>1. DocInv /\ InRepair /\ ~Idle /\ frames \in Seq(RepairFrames) /\ frames # <<>>
  BY DEF PageInv, PhaseInv, WalkTypes, Idle
<1>2. Len(frames) \in Nat \ {0} /\ Top \in RepairFrames
  BY <1>1 DEF Top
<1>3. Top.node \in DOMAIN objects /\ Top.next \in Nat \ {0}
  BY <1>2 DEF RepairFrames
<1>4. ASSUME AtKid PROVE Kid \in DOMAIN objects /\ Top.next \in DOMAIN Kids(Top.node) /\ objects[Top.node].has_kids
  <2> DEFINE kids == Kids(Top.node)
  <2>1. /\ kids \in Seq(Ids) /\ Elements(kids) \subseteq DOMAIN objects
        /\ ~objects[Top.node].has_kids => kids = <<>>
    BY <1>1, <1>3 DEF DocInv, AreDictionaries, IsDictionary, Node, Kids
  <2>2. Top.next <= Len(kids)
    BY <1>4 DEF AtKid
  <2> HIDE DEF kids
  <2>3. Top.next \in DOMAIN kids /\ kids # <<>>
    BY <1>3, <2>1, <2>2
  <2>4. kids[Top.next] \in Elements(kids)
    BY <2>3 DEF Elements
  <2>5. kids = Kids(Top.node) /\ Kid = kids[Top.next]
    BY DEF Kid, kids
  <2> QED BY <2>1, <2>3, <2>4, <2>5
<1> QED BY <1>1, <1>2, <1>3, <1>4

LEMMA RepairAdvance ==
    ASSUME PageInv, call.phase = "repair"
    PROVE  Advance \in Seq(RepairFrames) /\ Advance # <<>>
<1>1. frames \in Seq(RepairFrames) /\ Len(frames) \in Nat \ {0} /\ Top \in RepairFrames
  BY RepairTop
<1> DEFINE f == [Top EXCEPT !.next = @ + 1]
<1>2. f \in RepairFrames
  BY <1>1 DEF RepairFrames
<1>3. Advance = [frames EXCEPT ![Len(frames)] = f]
  BY <1>1 DEF Advance, Top
<1> HIDE DEF f
<1> QED BY <1>1, <1>2, <1>3

LEMMA FramesGrow ==
    ASSUME DOMAIN objects \subseteq DOMAIN objects', NEW s \in Seq(RepairFrames)
    PROVE  s \in Seq(RepairFrames')
<1>1. \A f \in RepairFrames : f \in RepairFrames'
  BY DEF RepairFrames
<1> QED BY <1>1

LEMMA RepairNodeKeeps ==
    ASSUME PageInv, call.phase = "repair", RepairNode
    PROVE  PageInv'
<1>1. /\ DocInv /\ InRepair /\ ~Idle /\ Kid \in DOMAIN objects
  BY RepairTop DEF RepairNode
<1>2. UNCHANGED <<catalog, last, known, stale>> /\ objects[Kid].has_kids
  BY DEF RepairNode
<1>3. ~stale' /\ CacheInv' /\ FlatInv' /\ cache'.pages = <<>> /\ call \in CallSet
  BY <1>1, <1>2, NotKnown DEF InRepair, PageInv, CallInv
<1>4. CASE Loops(Kid)
  <2>1. Finish("loop") /\ UNCHANGED objects
    BY <1>4 DEF RepairNode
  <2>2. DocInv'
    BY <1>1, <1>2, <2>1, DocumentKeeps DEF DocInv
  <2>3. CallInv' /\ WalkTypes' /\ PhaseInv'
    BY <1>3, <2>1, FinishKeeps DEF Outcomes
  <2> QED BY <1>3, <2>2, <2>3 DEF PageInv
<1>5. CASE ~Loops(Kid)
  <2>1. /\ objects' = [objects EXCEPT ![Kid].type = "Pages"]
        /\ frames' = Append(Advance, RepairFrame(Kid, Top.box))
        /\ met' = [met EXCEPT !.visited = @ \cup {Kid}]
        /\ UNCHANGED <<call, pages, above>>
    BY <1>5 DEF RepairNode
  <2> DEFINE k == Kid
             d == [objects[k] EXCEPT !.type = "Pages"]
  <2>2. k \in DOMAIN objects /\ objects[k].has_kids /\ objects' = [objects EXCEPT ![k] = d]
    BY <1>1, <1>2, <2>1
  <2>3. IsDictionary(d, DOMAIN objects) /\ d.type = "Pages" /\ d.has_kids = objects[k].has_kids
    <3> HIDE DEF k
    <3>1. IsDictionary(objects[k], DOMAIN objects)
      BY <1>1, <2>2 DEF DocInv, AreDictionaries
    <3>2. IsDictionary(d, DOMAIN objects)
      BY <3>1, DictionaryType
    <3> QED BY <3>1, <3>2 DEF IsDictionary, Node
  <2> HIDE DEF k, d
  <2>4. /\ AreDictionaries(objects', last) /\ DOMAIN objects' = DOMAIN objects
        /\ objects'[k] = d /\ \A n \in DOMAIN objects : n # k => objects'[n] = objects[n]
    BY <1>1, <2>2, <2>3, DocumentChanged DEF DocInv
  <2>5. DocInv' /\ Alike(objects, objects')
    <3>1. Alike(objects, objects')
      BY <2>3, <2>4 DEF Alike
    <3> QED BY <1>1, <1>2, <2>4, <3>1, DocumentKeeps DEF DocInv
  <2>6. CallInv'
    BY <1>1, <1>2, <2>1, <2>5, CallKeeps DEF PageInv, PhaseInv, InRepair, Idle
  <2>7. WalkTypes'
    <3>1. Append(Advance, RepairFrame(Kid, Top.box)) \in Seq(RepairFrames)
          /\ Append(Advance, RepairFrame(Kid, Top.box)) # <<>>
      <4>1. Advance \in Seq(RepairFrames)
        BY RepairAdvance
      <4>2. RepairFrame(Kid, Top.box) \in RepairFrames
        BY <1>1, RepairTop, BoxIs DEF RepairFrames
      <4> QED BY <4>1, <4>2, Appended
    <3>2. frames' \in Seq(RepairFrames') /\ frames' # <<>>
      BY <2>1, <2>4, <3>1, FramesGrow
    <3>3. met' = [seen |-> met'.seen, visited |-> met'.visited] /\ met'.seen = met.seen
      BY <2>1 DEF PageInv, WalkTypes
    <3> QED BY <2>1, <2>4, <3>2, <3>3 DEF PageInv, WalkTypes
  <2>8. InRepair'
    <3>1. OwnPages(objects', pages)
      <4>1. pages \in Seq(DOMAIN objects)
        BY DEF PageInv, WalkTypes
      <4>2. \A n \in Elements(pages) : n \in DOMAIN objects
        BY <4>1 DEF Elements
      <4> QED BY <1>1, <2>5, <4>2, OwnAlike DEF Alike, InRepair
    <3>2. met'.seen = met.seen
      BY <2>1 DEF PageInv, WalkTypes
    <3>3. objects'[catalog].has_kids /\ objects'[catalog].type = "Pages"
      BY <1>1, <2>3, <2>4, <2>5 DEF InRepair, DocInv, Alike
    <3> QED BY <1>1, <1>2, <1>3, <2>1, <3>1, <3>2, <3>3 DEF InRepair
  <2>9. PhaseInv'
    BY <2>1, <2>8 DEF PhaseInv
  <2> QED BY <1>3, <2>5, <2>6, <2>7, <2>9 DEF PageInv
<1> QED BY <1>4, <1>5

LEMMA BoxedIs ==
    ASSUME NEW n \in DOMAIN objects, NEW D, IsDictionary(objects[n], D)
    PROVE  IsDictionary(WithBox(n), D) /\ WithBox(n).has_kids = objects[n].has_kids
<1>1. CASE Top.box \/ Rectangle(n)
  BY <1>1 DEF WithBox
<1>2. CASE ~(Top.box \/ Rectangle(n))
  <2> DEFINE a == With(objects[n].attrs, "MediaBox", Letter)
  <2>1. objects[n].attrs \in AttrSet /\ Letter \in Values /\ "MediaBox" \in KeySet
    BY NodeIs DEF IsDictionary, Letter, Values, Rectangles, KeySet
  <2>2. a \in AttrSet
    BY <2>1, WithAttr
  <2>3. WithBox(n) = [objects[n] EXCEPT !.attrs = a]
    BY <1>2 DEF WithBox, Set
  <2> HIDE DEF a
  <2>4. IsDictionary(WithBox(n), D)
    BY <2>2, <2>3, DictionaryAttrs
  <2>5. objects[n] \in Node
    BY DEF IsDictionary
  <2> QED BY <2>3, <2>4, <2>5 DEF Node
<1> QED BY <1>1, <1>2

LEMMA RepairPageKeeps ==
    ASSUME PageInv, call.phase = "repair", RepairPage
    PROVE  PageInv'
<1> DEFINE k == Kid
           w == WithBox(k)
           t == Top.node
           i == Top.next
<1>1. /\ DocInv /\ InRepair /\ ~Idle /\ k \in DOMAIN objects /\ ~objects[k].has_kids
      /\ t \in DOMAIN objects /\ objects[t].has_kids /\ i \in DOMAIN objects[t].kids
      /\ UNCHANGED <<catalog, known, stale>>
  BY RepairTop DEF RepairPage, Kids
<1>2. \/ /\ Finish("numbers") /\ objects' = [objects EXCEPT ![k] = w] /\ UNCHANGED last
      \/ /\ last < MaxNumber
         /\ objects' = With([objects EXCEPT ![k] = w, ![t].kids[i] = last + 1], last + 1, [w EXCEPT !.type = "Page"])
         /\ last' = last + 1
         /\ pages' = Append(pages, last + 1)
         /\ met' = [met EXCEPT !.seen = @ \cup {last + 1}]
         /\ frames' = Advance
         /\ UNCHANGED <<call, above>>
      \/ /\ k >= 0 /\ k \notin met.seen
         /\ objects' = [objects EXCEPT ![k] = [w EXCEPT !.type = "Page"]]
         /\ pages' = Append(pages, k)
         /\ met' = [met EXCEPT !.seen = @ \cup {k}]
         /\ frames' = Advance
         /\ UNCHANGED <<last, call, above>>
  <2>1. last \in Int /\ MaxNumber \in Int /\ k \in Int
    BY <1>1, DocumentFinite, NumbersAssumption DEF DocInv, Ids
  <2> QED BY <2>1 DEF RepairPage, NeedsObject, IsDirect, Exhausted
<1>3. IsDictionary(w, DOMAIN objects) /\ w.has_kids = objects[k].has_kids
  BY <1>1, BoxedIs DEF DocInv, AreDictionaries
<1>4. /\ ~stale' /\ CacheInv' /\ FlatInv' /\ cache'.pages = <<>> /\ call \in CallSet
  BY <1>1, NotKnown DEF InRepair, PageInv, CallInv
<1>5. /\ Advance \in Seq(RepairFrames) /\ Advance # <<>> /\ pages \in Seq(DOMAIN objects)
      /\ met = [seen |-> met.seen, visited |-> met.visited] /\ met.seen \subseteq DOMAIN objects
      /\ above \in [KeySet -> Seq(Values)] /\ call.phase = "repair"
  BY RepairAdvance DEF PageInv, WalkTypes
<1>6. last \in Nat /\ MaxNumber \in Nat /\ AreDictionaries(objects, last) /\ last + 1 \notin DOMAIN objects
      /\ DOMAIN objects \subseteq Ids \ {0}
  BY <1>1, DocumentFinite, NumbersAssumption DEF DocInv
<1> HIDE DEF k, w, t, i
<1> DEFINE d == [w EXCEPT !.type = "Page"]
<1>7. IsDictionary(d, DOMAIN objects) /\ d.has_kids = objects[k].has_kids
  <2>1. IsDictionary(d, DOMAIN objects)
    BY <1>3, DictionaryType
  <2> QED BY <1>3, <2>1 DEF IsDictionary, Node
<1> HIDE DEF d
(* A page appended to the list.                                            *)
<1>8. ASSUME NEW x, x \in DOMAIN objects', x > 0, ~objects'[x].has_kids, x \notin met.seen, last' \in 0 .. MaxNumber,
             AreDictionaries(objects', last'), Alike(objects, objects'), objects'[catalog].type = "Pages",
             pages' = Append(pages, x), met' = [met EXCEPT !.seen = @ \cup {x}],
             frames' = Advance, UNCHANGED <<call, above>>
      PROVE  PageInv'
  <2>1. DocInv'
    BY <1>1, <1>8, DocumentKeeps DEF DocInv, Alike
  <2>2. CallInv'
    BY <1>1, <1>5, <1>8, CallKeeps DEF PageInv
  <2>3. DOMAIN objects \subseteq DOMAIN objects'
    BY <1>8 DEF Alike
  <2>4. pages \in Seq(DOMAIN objects') /\ Elements(pages) \subseteq DOMAIN objects
    BY <1>5, <2>3 DEF Elements
  <2>5. pages' \in Seq(DOMAIN objects') /\ Elements(pages') = Elements(pages) \cup {x}
    BY <1>8, <2>4, Appended
  <2>6. met' = [seen |-> met'.seen, visited |-> met'.visited] /\ met'.seen = met.seen \cup {x}
    BY <1>5, <1>8
  <2>7. frames' \in Seq(RepairFrames') /\ frames' # <<>>
    BY <1>5, <1>8, <2>3, FramesGrow
  <2>8. WalkTypes'
    BY <1>5, <1>8, <2>3, <2>5, <2>6, <2>7 DEF WalkTypes
  <2>9. OwnPages(objects', pages')
    <3>1. OwnPages(objects', pages)
      BY <1>1, <1>8, <2>4, OwnAlike DEF InRepair, Alike
    <3>2. x \notin Elements(pages) /\ IsLeaf(objects', x)
      BY <1>1, <1>8 DEF InRepair, IsLeaf
    <3>3. OwnPages(objects', Append(pages, x))
      BY <1>8, <2>4, <3>1, <3>2, OwnAppended
    <3> QED BY <1>8, <3>3
  <2>10. InRepair'
    <3>1. objects'[catalog].has_kids
      BY <1>1, <1>8 DEF InRepair, DocInv, Alike
    <3>2. Elements(pages') \subseteq met'.seen
      BY <1>1, <2>5, <2>6 DEF InRepair
    <3> QED BY <1>1, <1>4, <1>8, <2>9, <3>1, <3>2 DEF InRepair
  <2>11. PhaseInv'
    BY <1>5, <1>8, <2>10 DEF PhaseInv
  <2> QED BY <1>4, <2>1, <2>2, <2>8, <2>11 DEF PageInv
<1>9. CASE Finish("numbers") /\ objects' = [objects EXCEPT ![k] = w] /\ UNCHANGED last
  <2>1. AreDictionaries(objects', last) /\ DOMAIN objects' = DOMAIN objects
    BY <1>1, <1>3, <1>6, <1>9, DocumentChanged
  <2>2. DocInv'
    BY <1>1, <1>9, <2>1, DocumentKeeps DEF DocInv
  <2>3. CallInv' /\ WalkTypes' /\ PhaseInv'
    BY <1>4, <1>9, FinishKeeps DEF Outcomes
  <2> QED BY <1>4, <2>2, <2>3 DEF PageInv
<1>10. CASE /\ last < MaxNumber
            /\ objects' = With([objects EXCEPT ![k] = w, ![t].kids[i] = last + 1], last + 1, d)
            /\ last' = last + 1
            /\ pages' = Append(pages, last + 1)
            /\ met' = [met EXCEPT !.seen = @ \cup {last + 1}]
            /\ frames' = Advance
            /\ UNCHANGED <<call, above>>
  <2> DEFINE o == [objects EXCEPT ![k] = w]
             g == With(o, last + 1, d)
             n == [objects[t] EXCEPT !.kids[i] = last + 1]
             D == DOMAIN objects \cup {last + 1}
  <2>1. /\ AreDictionaries(o, last) /\ DOMAIN o = DOMAIN objects /\ o[k] = w
        /\ \A m \in DOMAIN objects : m # k => o[m] = objects[m]
    BY <1>1, <1>3, <1>6, DocumentChanged
  <2> HIDE DEF o
  <2>2. IsDictionary(d, DOMAIN o \cup {last + 1})
    BY <1>7, <2>1, DictionaryMore
  <2>3. /\ AreDictionaries(g, last + 1) /\ DOMAIN g = D /\ g[last + 1] = d
        /\ \A m \in DOMAIN objects : g[m] = o[m]
    <3>1. last \in Nat /\ AreDictionaries(o, last)
      BY <1>6, <2>1
    <3>2. /\ AreDictionaries(With(o, last + 1, d), last + 1)
          /\ DOMAIN With(o, last + 1, d) = DOMAIN o \cup {last + 1}
          /\ With(o, last + 1, d)[last + 1] = d
          /\ \A m \in DOMAIN o : m # last + 1 /\ With(o, last + 1, d)[m] = o[m]
      BY <2>2, <3>1, DocumentGrown
    <3> QED BY <2>1, <3>2
  <2>4. IsDictionary(n, D) /\ n.has_kids = objects[t].has_kids /\ n.type = objects[t].type
    <3> DEFINE kids == [objects[t].kids EXCEPT ![i] = last + 1]
    <3>1. IsDictionary(objects[t], D) /\ objects[t] \in Node
      BY <1>1, <1>6, DictionaryMore DEF AreDictionaries, IsDictionary
    <3>2. D \subseteq Ids
      BY <1>6, <1>10 DEF Ids
    <3>3. kids \in Seq(D)
      <4>1. objects[t].kids \in Seq(Ids) /\ Elements(objects[t].kids) \subseteq D
        BY <3>1 DEF IsDictionary, Node
      <4> DEFINE s == objects[t].kids
      <4>2. s \in Seq(Ids) /\ i \in DOMAIN s /\ last + 1 \in D /\ \A j \in 1 .. Len(s) : s[j] \in D
        BY <1>1, <4>1 DEF Elements
      <4> HIDE DEF s
      <4>3. s \in Seq(D)
        BY <4>2
      <4>4. [s EXCEPT ![i] = last + 1] \in Seq(D)
        BY <4>2, <4>3
      <4> QED BY <4>4 DEF s
    <3>4. n = [objects[t] EXCEPT !.kids = kids]
      OBVIOUS
    <3> HIDE DEF kids
    <3>5. IsDictionary(n, D)
      BY <1>1, <3>1, <3>2, <3>3, <3>4, DictionaryKids
    <3> QED BY <3>1, <3>4, <3>5 DEF Node
  <2>5. objects' = [g EXCEPT ![t] = n]
    <3>1. t # k /\ t # last + 1
      BY <1>1, <1>6
    <3>2. o[t] = objects[t]
      BY <1>1, <2>1, <3>1
    <3>3. objects' = With([o EXCEPT ![t].kids[i] = last + 1], last + 1, d)
      BY <1>10 DEF o
    <3>4. [o EXCEPT ![t].kids[i] = last + 1] = [o EXCEPT ![t] = n]
      BY <3>2
    <3> HIDE DEF n
    <3>5. objects' = With([o EXCEPT ![t] = n], last + 1, d)
      BY <3>3, <3>4
    <3>6. o = [m \in DOMAIN o |-> o[m]]
      BY DEF o
    <3> QED BY <1>1, <2>1, <3>1, <3>5, <3>6 DEF With
  <2> HIDE DEF n
  <2>6. t \in DOMAIN g
    BY <1>1, <2>3
  <2> HIDE DEF g, D
  <2>7. /\ AreDictionaries(objects', last + 1) /\ DOMAIN objects' = D /\ objects'[t] = n
        /\ \A m \in D : m # t => objects'[m] = g[m]
    BY <2>3, <2>4, <2>5, <2>6, DocumentChanged
  <2>8. t # last + 1 /\ objects'[last + 1] = d
    BY <1>1, <1>6, <2>3, <2>7 DEF D
  <2>9. Alike(objects, objects')
    <3> SUFFICES ASSUME NEW m \in DOMAIN objects PROVE objects'[m].has_kids = objects[m].has_kids
      BY <2>7 DEF Alike, D
    <3>1. CASE m = t
      BY <2>4, <2>7, <3>1
    <3>2. CASE m # t
      BY <1>3, <2>1, <2>3, <2>7, <3>2 DEF D
    <3> QED BY <3>1, <3>2
  <2>10. objects'[catalog].type = "Pages"
    <3>1. catalog # k /\ catalog \in DOMAIN objects /\ objects[catalog].type = "Pages"
      BY <1>1 DEF InRepair, DocInv
    <3>2. CASE catalog = t
      BY <2>4, <2>7, <3>1, <3>2
    <3>3. CASE catalog # t
      BY <2>1, <2>3, <2>7, <3>1, <3>3 DEF D
    <3> QED BY <3>2, <3>3
  <2>11. last + 1 \in DOMAIN objects' /\ last + 1 > 0 /\ ~objects'[last + 1].has_kids /\ last + 1 \notin met.seen
         /\ last' \in 0 .. MaxNumber
    BY <1>1, <1>5, <1>6, <1>7, <1>10, <2>7, <2>8 DEF D
  <2> QED BY <1>8, <1>10, <2>7, <2>9, <2>10, <2>11
<1>11. CASE /\ k >= 0 /\ k \notin met.seen
            /\ objects' = [objects EXCEPT ![k] = d]
            /\ pages' = Append(pages, k)
            /\ met' = [met EXCEPT !.seen = @ \cup {k}]
            /\ frames' = Advance
            /\ UNCHANGED <<last, call, above>>
  <2>1. /\ AreDictionaries(objects', last) /\ DOMAIN objects' = DOMAIN objects /\ objects'[k] = d
        /\ \A m \in DOMAIN objects : m # k => objects'[m] = objects[m]
    BY <1>1, <1>6, <1>7, <1>11, DocumentChanged
  <2>2. Alike(objects, objects')
    BY <1>7, <2>1 DEF Alike
  <2>3. objects'[catalog].type = "Pages"
    <3>1. catalog # k
      BY <1>1 DEF InRepair
    <3> QED BY <1>1, <2>1, <3>1 DEF InRepair, DocInv
  <2>4. k > 0 /\ ~objects'[k].has_kids /\ last' \in 0 .. MaxNumber
    BY <1>1, <1>6, <1>7, <1>11, <2>1 DEF DocInv, Ids
  <2> QED BY <1>1, <1>8, <1>11, <2>1, <2>2, <2>3, <2>4
<1> QED BY <1>2, <1>9, <1>10, <1>11 DEF d

LEMMA CachedIs ==
    ASSUME cache.pages = <<>>, cache = [root |-> cache.root, pages |-> cache.pages], NEW r, NEW D, NEW list \in Seq(D),
           cache' = Cached(r, list)
    PROVE  /\ cache' = [root |-> cache'.root, pages |-> cache'.pages] /\ cache'.pages = list
           /\ list # <<>> => cache'.root = r
BY DEF Cached

LEMMA RepairUpKeeps ==
    ASSUME PageInv, call.phase = "repair", RepairUp
    PROVE  PageInv'
<1>1. /\ DocInv /\ InRepair /\ ~Idle /\ frames \in Seq(RepairFrames) /\ Len(frames) \in Nat \ {0}
  BY RepairTop
<1>2. UNCHANGED <<objects, catalog, last, flattened, stale>>
  BY DEF RepairUp, doc
<1>3. ~stale /\ ~flattened /\ call \in CallSet /\ pages \in Seq(DOMAIN objects)
  BY <1>1 DEF PageInv, CallInv, FlatInv, InRepair, WalkTypes
<1>4. CASE Len(frames) > 1
  <2>1. UNCHANGED <<call, pages, met, above, cache>> /\ frames' = Lower
    BY <1>4 DEF RepairUp
  <2>2. Lower \in Seq(RepairFrames) /\ Lower # <<>>
    <3> DEFINE t == SubSeq(frames, 1, Len(frames) - 1)
    <3>1. t \in Seq(RepairFrames) /\ Len(t) = Len(frames) - 1
      BY <1>1, <1>4
    <3>2. Len(frames) - 1 > 0
      BY <1>1, <1>4
    <3> HIDE DEF t
    <3>3. t # <<>>
      BY <3>1, <3>2
    <3> QED BY <3>1, <3>3 DEF Lower, t
  <2>3. DocInv' /\ CacheInv' /\ FlatInv'
    <3>1. UNCHANGED known
      BY <1>2, <2>1 DEF known
    <3>2. CacheInv' /\ FlatInv'
      BY <1>1, <1>2, <3>1, NotKnown DEF InRepair
    <3> QED BY <1>1, <1>2, <3>1, <3>2, DocumentKeeps DEF DocInv
  <2>4. CallInv'
    BY <1>1, <1>2, <2>1, CallKeeps DEF PageInv, Alike
  <2>5. WalkTypes'
    <3>1. frames' \in Seq(RepairFrames') /\ frames' # <<>>
      BY <1>2, <2>1, <2>2, FramesGrow
    <3> QED BY <1>2, <2>1, <3>1 DEF PageInv, WalkTypes
  <2>6. PhaseInv'
    BY <1>1, <1>2, <2>1 DEF PhaseInv, InRepair
  <2> QED BY <2>3, <2>4, <2>5, <2>6 DEF PageInv
<1>5. CASE ~(Len(frames) > 1)
  <2>1. cache' = Cached(catalog, pages) /\ Continue(call, catalog, pages)
    BY <1>5 DEF RepairUp
  <2>2. /\ cache' = [root |-> cache'.root, pages |-> cache'.pages] /\ cache'.pages = pages
        /\ pages # <<>> => cache'.root = catalog
    BY <1>1, <1>3, <2>1, CachedIs DEF InRepair, DocInv
  <2>3. DocInv'
    BY <1>1, <1>2, <1>3, <2>2 DEF DocInv
  <2>4. OwnPages(objects', pages) /\ objects'[catalog].has_kids
    BY <1>1, <1>2 DEF InRepair
  <2>5. CacheInv' /\ FlatInv'
    BY <1>2, <1>3, <2>2, <2>4 DEF CacheInv, FlatInv
  <2>6. call.outcome = "running" /\ \A n \in GivenOf(call) : IsLeaf(objects', n) /\ n # catalog
    BY <1>1, <1>2 DEF PageInv, CallInv, Idle
  <2>7. CallInv' /\ WalkTypes' /\ PhaseInv'
    BY <1>2, <1>3, <2>1, <2>2, <2>3, <2>4, <2>5, <2>6, ContinueKeeps
  <2> QED BY <2>3, <2>5, <2>7 DEF PageInv
<1> QED BY <1>4, <1>5

-----------------------------------------------------------------------------
(* push: dictionaries change in their attributes alone.                    *)

SameTree(o, p) ==
    /\ DOMAIN p = DOMAIN o
    /\ \A n \in DOMAIN o : /\ p[n].has_kids = o[n].has_kids /\ p[n].type = o[n].type
                           /\ p[n].kids = o[n].kids /\ p[n].parent = o[n].parent

LEMMA AttrsChanged ==
    ASSUME NEW o, NEW k, AreDictionaries(o, k), NEW n \in DOMAIN o, NEW a \in AttrSet
    PROVE  /\ AreDictionaries([o EXCEPT ![n].attrs = a], k) /\ SameTree(o, [o EXCEPT ![n].attrs = a])
           /\ [o EXCEPT ![n].attrs = a][n].attrs = a
           /\ \A m \in DOMAIN o : m # n => [o EXCEPT ![n].attrs = a][m] = o[m]
<1> DEFINE d == [o[n] EXCEPT !.attrs = a]
<1>1. IsDictionary(o[n], DOMAIN o) /\ o[n] \in Node
  BY DEF AreDictionaries, IsDictionary
<1>2. IsDictionary(d, DOMAIN o)
  BY <1>1, DictionaryAttrs
<1>3. /\ d.attrs = a /\ d.has_kids = o[n].has_kids /\ d.type = o[n].type
      /\ d.kids = o[n].kids /\ d.parent = o[n].parent
  BY <1>1 DEF Node
<1>4. [o EXCEPT ![n].attrs = a] = [o EXCEPT ![n] = d]
  OBVIOUS
<1> HIDE DEF d
<1>5. /\ AreDictionaries([o EXCEPT ![n] = d], k) /\ DOMAIN [o EXCEPT ![n] = d] = DOMAIN o
      /\ [o EXCEPT ![n] = d][n] = d
      /\ \A m \in DOMAIN o : m # n => [o EXCEPT ![n] = d][m] = o[m]
  BY <1>2, DocumentChanged
<1>6. SameTree(o, [o EXCEPT ![n] = d])
  BY <1>3, <1>5 DEF SameTree
<1> QED BY <1>3, <1>4, <1>5, <1>6

LEMMA MoreNumbers ==
    ASSUME NEW o, NEW n \in Nat, AreDictionaries(o, n)
    PROVE  AreDictionaries(o, n + 1)
<1>1. (-MaxNumber) .. n \subseteq (-MaxNumber) .. n + 1
  BY NumbersAssumption
<1> QED BY <1>1 DEF AreDictionaries

LEMMA PushKeeps ==
    ASSUME PageInv, call.phase = "push", UNCHANGED <<catalog, known, stale>>, last' \in 0 .. MaxNumber,
           AreDictionaries(objects', last'), SameTree(objects, objects'),
           DOMAIN objects'[catalog].attrs \subseteq DOMAIN objects[catalog].attrs
    PROVE  /\ DocInv' /\ CacheInv' /\ FlatInv' /\ (UNCHANGED call => CallInv')
           /\ OwnPages(objects', pages) /\ IsPages(catalog)'
<1>1. /\ DocInv /\ CacheInv /\ FlatInv /\ CallInv /\ InPush /\ ~Idle /\ ~stale
      /\ UNCHANGED <<cache, flattened, stale>>
  BY DEF PageInv, PhaseInv, CallInv, Idle, known
<1>2. DOMAIN objects' = DOMAIN objects /\ Alike(objects, objects')
  BY DEF SameTree, Alike
<1>3. DocInv'
  BY <1>1, <1>2, DocumentKeeps DEF DocInv
<1>4. \A n \in Elements(cache.pages) : n \in DOMAIN objects
  BY <1>1 DEF DocInv, Elements
<1>5. IsPages(catalog)'
  BY <1>1 DEF InPush, DocInv, IsPages, SameTree
<1>6. OwnPages(objects', pages) /\ OwnPages(objects', cache.pages)
  BY <1>1, <1>2, <1>4, OwnAlike DEF InPush, HasList, Alike
<1>7. CacheInv'
  <2>1. cache.pages # <<>> => cache.root = catalog /\ objects[catalog].has_kids
    BY <1>1 DEF CacheInv
  <2>2. objects'[catalog].has_kids = objects[catalog].has_kids
    BY <1>1 DEF SameTree, DocInv
  <2> QED BY <1>1, <1>6, <2>1, <2>2 DEF CacheInv
<1>8. FlatInv'
  <2> SUFFICES ASSUME flattened PROVE cache.pages # <<>> /\ IsFlat(objects', catalog, cache.pages)
    BY <1>1 DEF FlatInv
  <2>1. cache.pages # <<>> /\ IsFlat(objects, catalog, cache.pages)
    BY <1>1 DEF FlatInv
  <2> QED BY <1>1, <1>4, <2>1 DEF IsFlat, SameTree, DocInv
<1>9. UNCHANGED call => CallInv'
  BY <1>1, <1>2, CallKeeps
<1> QED BY <1>3, <1>5, <1>6, <1>7, <1>8, <1>9

LEMMA PushTop ==
    ASSUME PageInv, call.phase = "push"
    PROVE  /\ DocInv /\ InPush /\ ~Idle /\ frames \in Seq(PushFrames)
           /\ Len(frames) \in Nat \ {0} /\ Top \in PushFrames /\ Top.node \in DOMAIN objects
           /\ AtKid => /\ Kid \in DOMAIN objects /\ objects[Top.node].has_kids
                       /\ Kid \in Elements(objects[Top.node].kids)
<1>1. DocInv /\ InPush /\ ~Idle /\ frames \in Seq(PushFrames) /\ frames # <<>>
  BY DEF PageInv, PhaseInv, WalkTypes, Idle
<1>2. Len(frames) \in Nat \ {0} /\ Top \in PushFrames
  BY <1>1 DEF Top
<1>3. Top.node \in DOMAIN objects /\ Top.next \in Nat \ {0}
  BY <1>2 DEF PushFrames
<1>4. ASSUME AtKid PROVE Kid \in DOMAIN objects /\ objects[Top.node].has_kids /\ Kid \in Elements(objects[Top.node].kids)
  <2> DEFINE kids == Kids(Top.node)
  <2>1. /\ kids \in Seq(Ids) /\ Elements(kids) \subseteq DOMAIN objects
        /\ ~objects[Top.node].has_kids => kids = <<>>
    BY <1>1, <1>3 DEF DocInv, AreDictionaries, IsDictionary, Node, Kids
  <2>2. Top.next <= Len(kids)
    BY <1>4 DEF AtKid
  <2>3. kids = objects[Top.node].kids /\ Kid = kids[Top.next]
    BY DEF Kid, Kids
  <2> HIDE DEF kids
  <2>4. Top.next \in DOMAIN kids /\ kids # <<>>
    BY <1>3, <2>1, <2>2
  <2>5. kids[Top.next] \in Elements(kids)
    BY <2>4 DEF Elements
  <2> QED BY <2>1, <2>3, <2>4, <2>5
<1> QED BY <1>1, <1>2, <1>3, <1>4

LEMMA PushFramesSame ==
    ASSUME DOMAIN objects' = DOMAIN objects
    PROVE  PushFrames' = PushFrames
BY DEF PushFrames

(* The top frame replaced.                                                 *)
LEMMA TopChanged ==
    ASSUME NEW s \in Seq(PushFrames), s # <<>>, NEW f \in PushFrames
    PROVE  /\ [s EXCEPT ![Len(s)] = f] \in Seq(PushFrames) /\ [s EXCEPT ![Len(s)] = f] # <<>>
           /\ DOMAIN [s EXCEPT ![Len(s)] = f] = DOMAIN s
           /\ \A i \in DOMAIN s : [s EXCEPT ![Len(s)] = f][i] = IF i = Len(s) THEN f ELSE s[i]
<1> DEFINE t == [s EXCEPT ![Len(s)] = f]
<1>1. t \in Seq(PushFrames) /\ DOMAIN t = DOMAIN s /\ \A i \in DOMAIN s : t[i] = IF i = Len(s) THEN f ELSE s[i]
  OBVIOUS
<1>2. 1 \in DOMAIN t
  OBVIOUS
<1> HIDE DEF t
<1>3. t # <<>>
  BY <1>2
<1> QED BY <1>1, <1>3 DEF t

LEMMA TailIs ==
    ASSUME NEW S, NEW s \in Seq(S), s # <<>>
    PROVE  Head(s) \in S /\ Tail(s) \in Seq(S) /\ Elements(s) \subseteq {Head(s)} \cup Elements(Tail(s))
<1>1. /\ Tail(s) \in Seq(S) /\ Len(Tail(s)) = Len(s) - 1 /\ Head(s) = s[1] /\ Head(s) \in S
      /\ \A i \in 1 .. Len(s) - 1 : Tail(s)[i] = s[i + 1]
  OBVIOUS
<1> DEFINE t == Tail(s)
           h == Head(s)
<1> HIDE DEF t, h
<1>2. DOMAIN t = 1 .. Len(s) - 1 /\ h = s[1] /\ (\A i \in 1 .. Len(s) - 1 : t[i] = s[i + 1]) /\ Len(s) \in Nat
      /\ DOMAIN s = 1 .. Len(s)
  BY <1>1 DEF t, h
<1>3. ASSUME NEW i \in DOMAIN s PROVE s[i] \in {h} \cup Elements(t)
  <2>1. CASE i = 1
    BY <1>2, <2>1
  <2>2. CASE i # 1
    <3>1. i - 1 \in DOMAIN t /\ t[i - 1] = s[i]
      BY <1>2, <2>2
    <3> QED BY <3>1 DEF Elements
  <2> QED BY <2>1, <2>2
<1>4. Elements(s) \subseteq {h} \cup Elements(t)
  BY <1>3 DEF Elements
<1> QED BY <1>1, <1>4 DEF t, h

(* push_node_attributes                                                    *)
LEMMA PushKeyKeeps ==
    ASSUME PageInv, call.phase = "push", PushKey
    PROVE  PageInv'
<1> DEFINE n == Top.node
           key == Head(Top.todo)
<1>1. /\ DocInv /\ InPush /\ frames \in Seq(PushFrames) /\ frames # <<>> /\ Len(frames) \in Nat \ {0}
      /\ Top \in PushFrames /\ n \in DOMAIN objects /\ Top.todo # <<>> /\ UNCHANGED <<catalog, known, stale>>
      /\ call \in CallSet
  BY PushTop DEF PushKey, PageInv, CallInv
<1>2. key \in KeySet /\ Tail(Top.todo) \in Seq(KeySet) /\ Elements(Top.todo) \subseteq {key} \cup Elements(Tail(Top.todo))
  BY <1>1, TailIs DEF PushFrames
<1>3. last \in Nat /\ MaxNumber \in Nat /\ last <= MaxNumber /\ AreDictionaries(objects, last)
  BY <1>1, NumbersAssumption DEF DocInv
<1>4. objects[n].attrs \in AttrSet /\ catalog \in DOMAIN objects
  BY <1>1, NodeIs DEF DocInv, AreDictionaries, IsDictionary
<1> DEFINE f == [Top EXCEPT !.todo = Tail(@)]
           g == [Top EXCEPT !.todo = Tail(@), !.own = @ \cup {key}]
           less == [k \in DOMAIN objects[n].attrs \ {key} |-> objects[n].attrs[k]]
           removed == [objects EXCEPT ![n].attrs = less]
<1>5. /\ f \in PushFrames /\ f.node = n /\ f.todo = Tail(Top.todo)
      /\ g \in PushFrames /\ g.node = n /\ g.todo = Tail(Top.todo)
  BY <1>1, <1>2 DEF PushFrames
<1>6. less \in AttrSet
  <2>1. DOMAIN objects[n].attrs \subseteq KeySet /\ \A k \in DOMAIN objects[n].attrs : objects[n].attrs[k] \in Values
    BY <1>4, AttrsAre
  <2> DEFINE a == less
  <2>2. a = [k \in DOMAIN a |-> a[k]] /\ DOMAIN a \subseteq KeySet /\ \A k \in DOMAIN a : a[k] \in Values
    BY <2>1
  <2> HIDE DEF a
  <2>3. a \in AttrSet
    BY <2>2, AttrsAre
  <2> QED BY <2>3 DEF a
<1>7. Removed(objects, n, {key}) = removed
  BY DEF Removed
<1>8. DOMAIN less = DOMAIN objects[n].attrs \ {key}
  OBVIOUS
<1>9. Own(objects, n, key) <=> key \in DOMAIN objects[n].attrs
  BY DEF Own
<1>10. \/ /\ key \notin DOMAIN objects[n].attrs
          /\ frames' = [frames EXCEPT ![Len(frames)] = f]
          /\ UNCHANGED <<objects, last, call, pages, met, above>>
       \/ /\ objects' = removed /\ Finish("numbers") /\ UNCHANGED last
       \/ /\ key \in DOMAIN objects[n].attrs /\ objects' = removed
          /\ last' = IF objects[n].attrs[key].ref THEN last ELSE last + 1
          /\ objects[n].attrs[key].ref \/ last < MaxNumber
          /\ above' = [above EXCEPT ![key] = Append(@, [objects[n].attrs[key] EXCEPT !.ref = TRUE])]
          /\ frames' = [frames EXCEPT ![Len(frames)] = g]
          /\ UNCHANGED <<call, pages, met>>
  <2>1. [frames EXCEPT ![Len(frames)].todo = Tail(@)] = [frames EXCEPT ![Len(frames)] = f]
    BY DEF Top
  <2>2. [frames EXCEPT ![Len(frames)].todo = Tail(@), ![Len(frames)].own = @ \cup {key}]
        = [frames EXCEPT ![Len(frames)] = g]
    BY <1>1 DEF Top
  <2> HIDE DEF f, g, less, removed
  <2>3. \/ /\ ~Own(objects, n, key)
           /\ frames' = [frames EXCEPT ![Len(frames)].todo = Tail(@)]
           /\ UNCHANGED <<objects, last, call, pages, met, above>>
        \/ /\ Own(objects, n, key) /\ objects' = Removed(objects, n, {key})
           /\ IF ~objects[n].attrs[key].ref /\ Exhausted
              THEN Finish("numbers") /\ UNCHANGED last
              ELSE /\ last' = IF objects[n].attrs[key].ref THEN last ELSE last + 1
                   /\ above' = [above EXCEPT ![key] = Append(@, [objects[n].attrs[key] EXCEPT !.ref = TRUE])]
                   /\ frames' = [frames EXCEPT ![Len(frames)].todo = Tail(@), ![Len(frames)].own = @ \cup {key}]
                   /\ UNCHANGED <<call, pages, met>>
    BY DEF PushKey
  <2> HIDE DEF n, key
  <2>4. CASE /\ ~Own(objects, n, key)
             /\ frames' = [frames EXCEPT ![Len(frames)].todo = Tail(@)]
             /\ UNCHANGED <<objects, last, call, pages, met, above>>
    BY <1>9, <2>1, <2>4
  <2>5. CASE Own(objects, n, key) /\ objects' = Removed(objects, n, {key})
    <3>1. Exhausted <=> last >= MaxNumber
      BY DEF Exhausted
    <3>2. CASE ~objects[n].attrs[key].ref /\ Exhausted
      BY <1>7, <1>9, <2>3, <2>5, <3>2
    <3>3. CASE objects[n].attrs[key].ref \/ ~Exhausted
      <4>1. objects[n].attrs[key].ref \/ last < MaxNumber
        BY <1>3, <3>1, <3>3
      <4>2. /\ last' = IF objects[n].attrs[key].ref THEN last ELSE last + 1
            /\ above' = [above EXCEPT ![key] = Append(@, [objects[n].attrs[key] EXCEPT !.ref = TRUE])]
            /\ frames' = [frames EXCEPT ![Len(frames)].todo = Tail(@), ![Len(frames)].own = @ \cup {key}]
            /\ UNCHANGED <<call, pages, met>>
        BY ONLY <2>3, <2>5, <3>3
      <4> QED BY <1>7, <1>9, <2>2, <2>5, <4>1, <4>2
    <3> QED BY <3>2, <3>3
  <2> QED BY <2>3, <2>4, <2>5
<1> HIDE DEF n, key, f, g, less, removed
(* The frame on top loses the key, and the node it is of had it no longer. *)
<1>11. ASSUME NEW h \in PushFrames, h.node = n, h.todo = Tail(Top.todo), frames' = [frames EXCEPT ![Len(frames)] = h],
              SameTree(objects, objects'), DOMAIN objects'[catalog].attrs \subseteq DOMAIN objects[catalog].attrs,
              DOMAIN objects'[n].attrs \subseteq DOMAIN objects[n].attrs \ {key},
              last' \in 0 .. MaxNumber, AreDictionaries(objects', last'),
              above' \in [KeySet -> Seq(Values)], UNCHANGED <<call, pages, met>>
       PROVE  PageInv'
  <2>1. /\ DocInv' /\ CacheInv' /\ FlatInv' /\ CallInv' /\ OwnPages(objects', pages) /\ IsPages(catalog)'
    BY <1>1, <1>11, PushKeeps
  <2>2. /\ frames' \in Seq(PushFrames) /\ frames' # <<>> /\ DOMAIN frames' = DOMAIN frames
        /\ \A i \in DOMAIN frames : frames'[i] = IF i = Len(frames) THEN h ELSE frames[i]
    BY <1>1, <1>11, TopChanged
  <2>3. DOMAIN objects' = DOMAIN objects
    BY <1>11 DEF SameTree
  <2>4. WalkTypes'
    <3>1. frames' \in Seq(PushFrames')
      BY <2>2, <2>3, PushFramesSame
    <3> QED BY <1>11, <2>2, <2>3, <3>1 DEF PageInv, WalkTypes
  <2>5. HasList'
    BY <1>1, <1>11, <2>1 DEF InPush, HasList, known
  <2>6. 1 \in DOMAIN frames /\ Top = frames[Len(frames)] /\ Len(frames) \in DOMAIN frames
    BY <1>1 DEF Top
  <2>7. frames'[1].node = catalog' /\ DOMAIN objects'[catalog].attrs \subseteq Elements(frames'[1].todo)
    <3>1. CASE Len(frames) = 1
      <4>1. n = catalog /\ frames'[1] = h
        BY <1>1, <2>2, <2>6, <3>1 DEF InPush, n
      <4>2. DOMAIN objects[n].attrs \subseteq Elements(Top.todo)
        BY <1>1, <2>6, <3>1, <4>1 DEF InPush
      <4> QED BY <1>1, <1>2, <1>11, <4>1, <4>2
    <3>2. CASE Len(frames) # 1
      BY <1>1, <1>11, <2>2, <2>6, <3>2 DEF InPush
    <3> QED BY <3>1, <3>2
  <2>8. InPush'
    BY <1>1, <1>11, <2>1, <2>5, <2>7 DEF InPush, known
  <2>9. PhaseInv'
    BY <1>11, <2>8 DEF PhaseInv
  <2> QED BY <2>1, <2>4, <2>9 DEF PageInv
<1>12. /\ SameTree(objects, removed) /\ AreDictionaries(removed, last)
       /\ DOMAIN removed[n].attrs = DOMAIN objects[n].attrs \ {key}
       /\ DOMAIN removed[catalog].attrs \subseteq DOMAIN objects[catalog].attrs
  <2>1. /\ AreDictionaries(removed, last) /\ SameTree(objects, removed) /\ removed[n].attrs = less
        /\ \A m \in DOMAIN objects : m # n => removed[m] = objects[m]
    BY <1>1, <1>3, <1>6, AttrsChanged DEF removed
  <2> QED BY <1>4, <1>8, <2>1
<1>13. CASE /\ key \notin DOMAIN objects[n].attrs
            /\ frames' = [frames EXCEPT ![Len(frames)] = f]
            /\ UNCHANGED <<objects, last, call, pages, met, above>>
  <2>1. above' \in [KeySet -> Seq(Values)] /\ SameTree(objects, objects')
    BY <1>13 DEF PageInv, WalkTypes, SameTree
  <2>2. /\ DOMAIN objects'[n].attrs \subseteq DOMAIN objects[n].attrs \ {key}
        /\ DOMAIN objects'[catalog].attrs \subseteq DOMAIN objects[catalog].attrs
        /\ last' \in 0 .. MaxNumber /\ AreDictionaries(objects', last')
    BY <1>3, <1>13
  <2> QED BY <1>5, <1>11, <1>13, <2>1, <2>2
<1>14. CASE objects' = removed /\ Finish("numbers") /\ UNCHANGED last
  <2>1. DocInv' /\ CacheInv' /\ FlatInv'
    BY <1>1, <1>3, <1>12, <1>14, PushKeeps
  <2>2. CallInv' /\ WalkTypes' /\ PhaseInv'
    BY <1>1, <1>14, FinishKeeps DEF Outcomes
  <2> QED BY <2>1, <2>2 DEF PageInv
<1>15. CASE /\ key \in DOMAIN objects[n].attrs /\ objects' = removed
            /\ last' = IF objects[n].attrs[key].ref THEN last ELSE last + 1
            /\ objects[n].attrs[key].ref \/ last < MaxNumber
            /\ above' = [above EXCEPT ![key] = Append(@, [objects[n].attrs[key] EXCEPT !.ref = TRUE])]
            /\ frames' = [frames EXCEPT ![Len(frames)] = g]
            /\ UNCHANGED <<call, pages, met>>
  <2>1. last' \in 0 .. MaxNumber /\ AreDictionaries(objects', last')
    <3>1. CASE objects[n].attrs[key].ref
      BY <1>3, <1>12, <1>15, <3>1
    <3>2. CASE ~objects[n].attrs[key].ref
      BY <1>3, <1>12, <1>15, <3>2, MoreNumbers
    <3> QED BY <3>1, <3>2
  <2>2. above' \in [KeySet -> Seq(Values)]
    <3> DEFINE v == [objects[n].attrs[key] EXCEPT !.ref = TRUE]
    <3>1. v \in Values
      <4>1. objects[n].attrs[key] \in Values
        BY <1>4, <1>15, AttrsAre
      <4> QED BY <4>1 DEF Values
    <3>2. above \in [KeySet -> Seq(Values)]
      BY DEF PageInv, WalkTypes
    <3>3. above' = [above EXCEPT ![key] = Append(@, v)]
      BY <1>15
    <3> HIDE DEF v
    <3> QED BY <1>2, <3>1, <3>2, <3>3
  <2>3. /\ SameTree(objects, objects') /\ DOMAIN objects'[n].attrs \subseteq DOMAIN objects[n].attrs \ {key}
        /\ DOMAIN objects'[catalog].attrs \subseteq DOMAIN objects[catalog].attrs
    BY <1>12, <1>15
  <2> QED BY <1>5, <1>11, <1>15, <2>1, <2>2, <2>3
<1> QED BY <1>10, <1>13, <1>14, <1>15

LEMMA PushAdvance ==
    ASSUME PageInv, call.phase = "push"
    PROVE  /\ Advance \in Seq(PushFrames) /\ Advance # <<>> /\ DOMAIN Advance = DOMAIN frames
           /\ \A i \in DOMAIN frames : Advance[i].node = frames[i].node /\ Advance[i].todo = frames[i].todo
<1>1. frames \in Seq(PushFrames) /\ frames # <<>> /\ Len(frames) \in Nat \ {0} /\ Top \in PushFrames
  BY PushTop
<1> DEFINE f == [Top EXCEPT !.next = @ + 1]
<1>2. f \in PushFrames /\ f.node = Top.node /\ f.todo = Top.todo
  <2>1. PICK m : m = Top.next + 1
    OBVIOUS
  <2>2. m \in Nat \ {0}
    BY <1>1, <2>1 DEF PushFrames
  <2>3. f = [Top EXCEPT !.next = m]
    BY <2>1
  <2> QED BY <1>1, <2>2, <2>3 DEF PushFrames
<1>3. Advance = [frames EXCEPT ![Len(frames)] = f]
  BY <1>1 DEF Advance, Top
<1> HIDE DEF f
<1>4. /\ Advance \in Seq(PushFrames) /\ Advance # <<>> /\ DOMAIN Advance = DOMAIN frames
      /\ \A i \in DOMAIN frames : Advance[i] = IF i = Len(frames) THEN f ELSE frames[i]
  BY <1>1, <1>2, <1>3, TopChanged
<1> QED BY <1>2, <1>4 DEF Top

LEMMA NearestAttrs ==
    ASSUME above \in [KeySet -> Seq(Values)]
    PROVE  [k \in {j \in KeySet : above[j] # <<>>} |-> Nearest(k)] \in AttrSet
<1> DEFINE a == [k \in {j \in KeySet : above[j] # <<>>} |-> Nearest(k)]
<1>1. ASSUME NEW k \in DOMAIN a PROVE a[k] \in Values
  <2>1. above[k] \in Seq(Values) /\ above[k] # <<>> /\ a[k] = above[k][Len(above[k])]
    BY DEF Nearest
  <2> QED BY <2>1
<1>2. a = [k \in DOMAIN a |-> a[k]] /\ DOMAIN a \subseteq KeySet
  OBVIOUS
<1> HIDE DEF a
<1>3. a \in AttrSet
  BY <1>1, <1>2, AttrsAre
<1> QED BY <1>3 DEF a

LEMMA PushKidKeeps ==
    ASSUME PageInv, call.phase = "push", PushKid
    PROVE  PageInv'
<1>1. /\ DocInv /\ InPush /\ frames \in Seq(PushFrames) /\ Len(frames) \in Nat \ {0} /\ 1 \in DOMAIN frames
      /\ Kid \in DOMAIN objects /\ UNCHANGED <<catalog, known, stale, last, call, pages, above>>
  BY PushTop DEF PushKid
<1>2. /\ Advance \in Seq(PushFrames) /\ Advance # <<>> /\ DOMAIN Advance = DOMAIN frames
      /\ \A i \in DOMAIN frames : Advance[i].node = frames[i].node /\ Advance[i].todo = frames[i].todo
  BY PushAdvance
<1>3. last \in 0 .. MaxNumber /\ AreDictionaries(objects, last) /\ catalog \in DOMAIN objects
      /\ above \in [KeySet -> Seq(Values)] /\ pages \in Seq(DOMAIN objects)
      /\ met = [seen |-> met.seen, visited |-> met.visited] /\ met.seen \subseteq DOMAIN objects
  BY <1>1 DEF DocInv, PageInv, WalkTypes
(* What follows for the longer walk and the changed kid alike.             *)
<1>4. ASSUME SameTree(objects, objects'), AreDictionaries(objects', last'), objects'[catalog] = objects[catalog],
             frames' \in Seq(PushFrames), frames' # <<>>, frames'[1].node = frames[1].node, frames'[1].todo = frames[1].todo,
             met' = [seen |-> met'.seen, visited |-> met'.visited], met'.seen = met.seen
      PROVE  PageInv'
  <2>1. /\ DocInv' /\ CacheInv' /\ FlatInv' /\ CallInv' /\ OwnPages(objects', pages) /\ IsPages(catalog)'
    BY <1>1, <1>3, <1>4, PushKeeps
  <2>2. DOMAIN objects' = DOMAIN objects
    BY <1>4 DEF SameTree
  <2>3. WalkTypes'
    <3>1. frames' \in Seq(PushFrames')
      BY <1>4, <2>2, PushFramesSame
    <3> QED BY <1>1, <1>3, <1>4, <2>2, <3>1 DEF PageInv, WalkTypes
  <2>4. HasList'
    BY <1>1, <2>1 DEF InPush, HasList, known
  <2>5. InPush'
    BY <1>1, <1>4, <2>1, <2>4 DEF InPush, known
  <2>6. PhaseInv'
    BY <1>1, <2>5 DEF PhaseInv
  <2> QED BY <2>1, <2>3, <2>6 DEF PageInv
<1>5. CASE PushesTo(Top.node, Kid) /\ objects[Kid].type = "Pages" /\ (IsDirect(Kid) \/ Kid \notin met.visited)
  <2> DEFINE f == [node |-> Kid, todo |-> Keys, next |-> 1, own |-> {}]
  <2>1. frames' = Append(Advance, f) /\ met' = [met EXCEPT !.visited = @ \cup {Kid}] /\ UNCHANGED objects /\ AtKid
    BY <1>5 DEF PushKid
  <2>2. f \in PushFrames /\ f.node = Kid
    BY <1>1, KeysAre DEF PushFrames
  <2> HIDE DEF f
  <2>3. /\ frames' \in Seq(PushFrames) /\ frames' # <<>> /\ Len(frames') = Len(frames) + 1
        /\ \A i \in 1 .. Len(frames) : frames'[i] = Advance[i]
        /\ frames'[Len(frames) + 1] = f
    <3>1. Len(Advance) = Len(frames) /\ Advance \in Seq(PushFrames)
      BY <1>1, <1>2
    <3>2. /\ Append(Advance, f) \in Seq(PushFrames) /\ Append(Advance, f) # <<>>
          /\ Len(Append(Advance, f)) = Len(Advance) + 1
          /\ \A i \in 1 .. Len(Advance) : Append(Advance, f)[i] = Advance[i]
          /\ Append(Advance, f)[Len(Advance) + 1] = f
      BY <2>2, <3>1, Appended
    <3> QED BY <2>1, <3>1, <3>2
  <2>4. frames'[1].node = frames[1].node /\ frames'[1].todo = frames[1].todo
    BY <1>1, <1>2, <2>3
  <2>5. met' = [seen |-> met'.seen, visited |-> met'.visited] /\ met'.seen = met.seen
    BY <1>3, <2>1
  <2>6. SameTree(objects, objects') /\ AreDictionaries(objects', last') /\ objects'[catalog] = objects[catalog]
    BY <1>1, <1>3, <2>1 DEF SameTree
  <2> QED BY <1>4, <2>3, <2>4, <2>5, <2>6
<1>6. CASE ~(PushesTo(Top.node, Kid) /\ objects[Kid].type = "Pages" /\ (IsDirect(Kid) \/ Kid \notin met.visited))
  <2> DEFINE near == [k \in {j \in KeySet : above[j] # <<>>} |-> Nearest(k)]
             a == Over(objects[Kid].attrs, near)
             k0 == Kid
  <2>1. /\ frames' = Advance /\ met' = met /\ AtKid
        /\ objects' = IF PushesTo(Top.node, Kid) /\ objects[Kid].type # "Pages"
                      THEN [objects EXCEPT ![k0].attrs = a] ELSE objects
    BY <1>6 DEF PushKid, Passed
  <2>2. a \in AttrSet
    <3>1. near \in AttrSet
      BY <1>3, NearestAttrs
    <3> HIDE DEF near
    <3>2. objects[Kid].attrs \in AttrSet
      BY <1>1, <1>3, NodeIs DEF AreDictionaries, IsDictionary
    <3> QED BY <3>1, <3>2, MergedAttrs
  <2>3. objects[k0].type # "Pages" => k0 # catalog
    BY <1>1 DEF InPush, IsPages
  <2>4. k0 \in DOMAIN objects
    BY <1>1
  <2> HIDE DEF a
  <2>5. SameTree(objects, objects') /\ AreDictionaries(objects', last') /\ objects'[catalog] = objects[catalog]
    <3>1. CASE PushesTo(Top.node, Kid) /\ objects[Kid].type # "Pages"
      <4>1. objects' = [objects EXCEPT ![k0].attrs = a] /\ k0 # catalog /\ last' = last
        BY <1>1, <2>1, <2>3, <3>1
      <4> HIDE DEF k0
      <4> QED BY <1>3, <2>2, <2>4, <4>1, AttrsChanged
    <3>2. CASE ~(PushesTo(Top.node, Kid) /\ objects[Kid].type # "Pages")
      BY <1>1, <1>3, <2>1, <3>2 DEF SameTree
    <3> QED BY <3>1, <3>2
  <2>6. /\ frames' \in Seq(PushFrames) /\ frames' # <<>> /\ frames'[1].node = frames[1].node
        /\ frames'[1].todo = frames[1].todo
    BY <1>1, <1>2, <2>1
  <2>7. met' = [seen |-> met'.seen, visited |-> met'.visited] /\ met'.seen = met.seen
    BY <1>3, <2>1
  <2> QED BY <1>4, <2>5, <2>6, <2>7
<1> QED BY <1>5, <1>6

LEMMA PushUpKeeps ==
    ASSUME PageInv, call.phase = "push", PushUp
    PROVE  PageInv'
<1>1. /\ DocInv /\ InPush /\ frames \in Seq(PushFrames) /\ Len(frames) \in Nat \ {0} /\ 1 \in DOMAIN frames
      /\ Top.todo = <<>> /\ UNCHANGED <<objects, catalog, last, known, pages, met, stale>> /\ frames' = Lower
      /\ call' = IF Len(frames) > 1 THEN call
                 ELSE IF call.op = "push" THEN Ended("ok") ELSE [call EXCEPT !.phase = "flatten"]
  BY PushTop DEF PushUp, doc
<1>2. /\ last \in 0 .. MaxNumber /\ AreDictionaries(objects, last) /\ call \in CallSet
      /\ above \in [KeySet -> Seq(Values)] /\ pages \in Seq(DOMAIN objects)
      /\ met = [seen |-> met.seen, visited |-> met.visited] /\ met.seen \subseteq DOMAIN objects
  BY <1>1 DEF DocInv, PageInv, WalkTypes, CallInv
<1>3. /\ DocInv' /\ CacheInv' /\ FlatInv' /\ (UNCHANGED call => CallInv')
      /\ OwnPages(objects', pages) /\ IsPages(catalog)'
  <2>1. SameTree(objects, objects') /\ DOMAIN objects'[catalog].attrs \subseteq DOMAIN objects[catalog].attrs
    BY <1>1 DEF SameTree
  <2> QED BY <1>1, <1>2, <2>1, PushKeeps
<1>4. above' \in [KeySet -> Seq(Values)]
  <2>1. above' = [k \in KeySet |-> IF k \in Top.own THEN SubSeq(above[k], 1, Len(above[k]) - 1) ELSE above[k]]
    BY DEF PushUp
  <2>2. ASSUME NEW s \in Seq(Values) PROVE SubSeq(s, 1, Len(s) - 1) \in Seq(Values)
    OBVIOUS
  <2> QED BY <1>2, <2>1, <2>2
<1>5. CASE Len(frames) > 1
  <2> DEFINE t == SubSeq(frames, 1, Len(frames) - 1)
  <2>1. t \in Seq(PushFrames) /\ Len(t) = Len(frames) - 1 /\ \A i \in 1 .. Len(frames) - 1 : t[i] = frames[i]
    BY <1>1, <1>5
  <2>2. 1 \in 1 .. Len(frames) - 1
    BY <1>1, <1>5
  <2> HIDE DEF t
  <2>3. frames' = t
    BY <1>1 DEF Lower, t
  <2>4. t # <<>> /\ DOMAIN t \subseteq DOMAIN frames /\ (\A i \in DOMAIN t : t[i] = frames[i]) /\ t[1] = frames[1]
    BY <1>1, <2>1, <2>2
  <2>5. call' = call
    BY <1>1, <1>5
  <2>6. WalkTypes'
    <3>1. frames' \in Seq(PushFrames')
      BY <1>1, <2>1, <2>3, PushFramesSame
    <3> QED BY <1>1, <1>2, <1>4, <2>3, <2>4, <2>5, <3>1 DEF PageInv, WalkTypes
  <2>7. HasList'
    BY <1>1, <1>3 DEF InPush, HasList, known
  <2>8. InPush'
    BY <1>1, <1>3, <2>3, <2>4, <2>5, <2>7 DEF InPush, known
  <2>9. PhaseInv'
    BY <1>1, <2>5, <2>8 DEF PhaseInv
  <2> QED BY <1>3, <2>5, <2>6, <2>9 DEF PageInv
<1>6. CASE ~(Len(frames) > 1)
  <2>1. frames' = <<>>
    BY <1>1, <1>6 DEF Lower
  <2>2. frames[1] = Top
    BY <1>1, <1>6 DEF Top
  <2>3. Bare'
    <3>1. DOMAIN objects[catalog].attrs = {}
      BY <1>1, <2>2 DEF InPush, Elements
    <3> QED BY <1>1, <3>1 DEF Bare
  <2>4. CASE call.op = "push"
    <3>1. call' = Ended("ok")
      BY <1>1, <1>6, <2>4
    <3>2. call' \in CallSet /\ call'.phase = "idle"
      BY <1>2, <3>1, EndedIs DEF Outcomes
    <3>3. CallInv' /\ WalkTypes' /\ PhaseInv'
      BY <1>1, <1>2, <1>4, <2>1, <3>2 DEF CallInv, Idle, WalkTypes, PhaseInv
    <3> QED BY <1>3, <3>3 DEF PageInv
  <2>5. CASE call.op # "push"
    <3>1. call' = [call EXCEPT !.phase = "flatten"]
      BY <1>1, <1>6, <2>5
    <3>2. call' \in CallSet /\ call'.phase = "flatten" /\ call'.outcome = call.outcome /\ call'.op = call.op
          /\ GivenOf(call') = GivenOf(call)
      BY <1>2, <3>1 DEF CallSet, Phases, GivenOf
    <3>3. CallInv'
      BY <1>1, <3>2 DEF PageInv, CallInv, Idle
    <3>4. WalkTypes'
      BY <1>1, <1>2, <1>4, <2>1, <3>2 DEF WalkTypes
    <3>5. InFlatten'
      BY <1>1, <1>3, <2>3, <2>5, <3>2 DEF InFlatten, InPush, HasList, known
    <3>6. PhaseInv'
      BY <3>2, <3>5 DEF PhaseInv
    <3> QED BY <1>3, <3>3, <3>4, <3>6 DEF PageInv
  <2> QED BY <2>4, <2>5
<1> QED BY <1>5, <1>6

-----------------------------------------------------------------------------
(* The edits of a flat tree.                                               *)

(* A step that makes the tree flat leaves nothing to inherit on the root.  *)
Bared ==
    flattened' /\ (flattened => call.phase = "edit" /\ call.op = "rebuild_page_tree") /\ IsPages(catalog) =>
        DOMAIN objects'[catalog].attrs = {}

LEMMA FlattenKeeps ==
    ASSUME PageInv, flatten_pages_tree
    PROVE  PageInv' /\ Bared
<1>1. /\ DocInv /\ InFlatten /\ CacheInv /\ CallInv /\ ~Idle /\ ~stale /\ call.phase = "flatten" /\ frames = <<>>
      /\ UNCHANGED <<catalog, last, stale>> /\ flattened' = (pages # <<>>) /\ cache' = Cached(catalog, pages)
  BY DEF flatten_pages_tree, PageInv, PhaseInv, WalkTypes, CallInv, Idle
<1>2. /\ pages \in Seq(DOMAIN objects) /\ catalog \in DOMAIN objects /\ DOMAIN objects \subseteq Ids /\ call \in CallSet
      /\ pages = cache.pages /\ OwnPages(objects, pages) /\ Bare
      /\ pages # <<>> => objects[catalog].has_kids /\ cache.root = catalog
  BY <1>1, DocumentFinite DEF PageInv, WalkTypes, DocInv, InFlatten, HasList, CacheInv, CallInv
<1>3. \A n \in Elements(pages) : n \in DOMAIN objects /\ n # catalog /\ ~objects[n].has_kids
  <2>1. \A n \in Elements(pages) : pages # <<>>
    BY DEF Elements
  <2> QED BY <1>2, <2>1 DEF OwnPages, IsLeaf
<1> DEFINE root == [objects[catalog] EXCEPT !.kids = pages, !.has_kids = TRUE]
<1>4. /\ objects' = [n \in DOMAIN objects |-> IF n = catalog THEN root ELSE IF n \in Elements(pages) THEN Flat(n) ELSE objects[n]]
  BY DEF flatten_pages_tree
<1>5. \A n \in DOMAIN objects : IsDictionary(objects[n], DOMAIN objects) /\ objects[n] \in Node
  BY <1>1 DEF DocInv, AreDictionaries, IsDictionary
<1>6. /\ IsDictionary(root, DOMAIN objects) /\ root.kids = pages /\ root.has_kids /\ root.attrs = objects[catalog].attrs
      /\ root.type = objects[catalog].type
  <2>1. objects[catalog] \in Node /\ IsDictionary(objects[catalog], DOMAIN objects)
    BY <1>2, <1>5
  <2>2. pages \in Seq(Ids) /\ Elements(pages) \subseteq DOMAIN objects
    BY <1>2, <1>3
  <2>3. root \in Node /\ root.kids = pages /\ root.has_kids /\ root.attrs = objects[catalog].attrs
        /\ root.parent = objects[catalog].parent /\ root.type = objects[catalog].type
    BY <2>1, <2>2, NodeIs
  <2> HIDE DEF root
  <2> QED BY <2>1, <2>2, <2>3 DEF IsDictionary
<1> HIDE DEF root
<1>7. \A n \in Elements(pages) : /\ IsDictionary(Flat(n), DOMAIN objects) /\ Flat(n).parent = catalog
                                 /\ Flat(n).has_kids = objects[n].has_kids
  <2> SUFFICES ASSUME NEW n \in Elements(pages)
               PROVE  /\ IsDictionary(Flat(n), DOMAIN objects) /\ Flat(n).parent = catalog
                      /\ Flat(n).has_kids = objects[n].has_kids
    OBVIOUS
  <2>1. IsDictionary(objects[n], DOMAIN objects) /\ objects[n] \in Node
    BY <1>3, <1>5
  <2>2. IsDictionary(Flat(n), DOMAIN objects)
    BY <1>2, <2>1, DictionaryParent DEF Flat
  <2> QED BY <2>1, <2>2 DEF Flat, Node
<1>8. /\ DOMAIN objects' = DOMAIN objects /\ objects'[catalog] = root
      /\ \A n \in Elements(pages) : objects'[n] = Flat(n)
      /\ \A n \in DOMAIN objects : n # catalog => objects'[n].has_kids = objects[n].has_kids
  BY <1>2, <1>3, <1>4, <1>7
<1>9. AreDictionaries(objects', last')
  BY <1>1, <1>3, <1>4, <1>5, <1>6, <1>7 DEF AreDictionaries, DocInv
<1>10. /\ cache' = [root |-> cache'.root, pages |-> cache'.pages] /\ cache'.pages = pages
       /\ pages # <<>> => cache'.root = catalog
  BY <1>1, <1>2 DEF Cached, DocInv
<1>11. DocInv'
  BY <1>1, <1>2, <1>8, <1>9, <1>10 DEF DocInv
<1>12. OwnPages(objects', pages) /\ IsFlat(objects', catalog, pages)
  <2>1. OwnPages(objects', pages)
    BY <1>2, <1>3, <1>8, OwnAlike
  <2>2. IsFlat(objects', catalog, pages)
    BY <1>2, <1>6, <1>7, <1>8 DEF IsFlat
  <2> QED BY <2>1, <2>2
<1>13. CacheInv' /\ FlatInv'
  BY <1>1, <1>6, <1>8, <1>10, <1>12 DEF CacheInv, FlatInv
<1>14. Bare' /\ Bared
  BY <1>1, <1>2, <1>6, <1>8 DEF Bare, Bared, IsPages
<1>15. CASE DeclaredCount(catalog) = Len(pages)
  <2>1. call' = [call EXCEPT !.phase = "edit"] /\ UNCHANGED <<pages, frames, met, above>>
    BY <1>15 DEF flatten_pages_tree, walk
  <2>2. call' \in CallSet /\ call'.phase = "edit" /\ call'.outcome = call.outcome /\ call'.op = call.op
        /\ GivenOf(call') = GivenOf(call)
    BY <1>2, <2>1 DEF CallSet, Phases, GivenOf
  <2>3. CallInv'
    <3>1. ASSUME NEW n \in GivenOf(call) PROVE IsLeaf(objects', n) /\ n # catalog
      <4>1. IsLeaf(objects, n) /\ n # catalog
        BY <1>1 DEF CallInv
      <4> QED BY <1>8, <4>1 DEF IsLeaf
    <3> QED BY <1>1, <2>2, <3>1 DEF CallInv
  <2>4. WalkTypes'
    BY <1>1, <1>2, <1>8, <2>1, <2>2 DEF PageInv, WalkTypes
  <2>5. InEdit'
    BY <1>1, <1>6, <1>8, <1>10, <1>12, <1>14, <2>1, <2>2 DEF InEdit, HasList, InFlatten
  <2>6. PhaseInv'
    BY <2>2, <2>5 DEF PhaseInv
  <2> QED BY <1>11, <1>13, <1>14, <2>3, <2>4, <2>6 DEF PageInv
<1>16. CASE DeclaredCount(catalog) # Len(pages)
  <2>1. Finish("count")
    BY <1>16 DEF flatten_pages_tree
  <2>2. CallInv' /\ WalkTypes' /\ PhaseInv'
    BY <1>2, <2>1, FinishKeeps DEF Outcomes
  <2> QED BY <1>11, <1>13, <1>14, <2>2 DEF PageInv
<1> QED BY <1>15, <1>16

(* A document that only gained dictionaries.                               *)
LEMMA KnownKeeps ==
    ASSUME PageInv, UNCHANGED <<catalog, known, stale>>, last' \in 0 .. MaxNumber, AreDictionaries(objects', last'),
           \A n \in DOMAIN objects : n \in DOMAIN objects' /\ objects'[n] = objects[n]
    PROVE  DocInv' /\ CacheInv' /\ FlatInv'
<1>1. DocInv /\ CacheInv /\ FlatInv /\ UNCHANGED <<cache, flattened, stale>>
  BY DEF PageInv, known
<1>2. catalog \in DOMAIN objects /\ cache.pages \in Seq(DOMAIN objects)
  BY <1>1 DEF DocInv
<1>3. DocInv'
  BY <1>1, <1>2, DocumentKeeps DEF DocInv
<1>4. \A n \in Elements(cache.pages) : n \in DOMAIN objects
  BY <1>2 DEF Elements
<1>5. CacheInv'
  <2> SUFFICES ASSUME ~stale, cache.pages # <<>>
               PROVE  cache.root = catalog /\ OwnPages(objects', cache.pages) /\ objects'[catalog].has_kids
    BY <1>1 DEF CacheInv
  <2>1. cache.root = catalog /\ OwnPages(objects, cache.pages) /\ objects[catalog].has_kids
    BY <1>1 DEF CacheInv
  <2>2. OwnPages(objects', cache.pages)
    BY <1>4, <2>1, OwnAlike
  <2> QED BY <1>2, <2>1, <2>2
<1>6. FlatInv'
  BY <1>1, <1>2, <1>4 DEF FlatInv, IsFlat
<1> QED BY <1>3, <1>5, <1>6

LEMMA EditIs ==
    ASSUME PageInv, call.phase = "edit", call.op \in Edits
    PROVE  /\ DocInv /\ ~stale /\ ~Idle /\ call \in CallSet /\ frames = <<>>
           /\ pages \in Seq(DOMAIN objects) /\ pages = cache.pages /\ OwnPages(objects, pages)
           /\ catalog \in DOMAIN objects /\ objects[catalog].has_kids /\ IsFlat(objects, catalog, pages)
           /\ flattened \/ Bare
           /\ last \in Nat /\ MaxNumber \in Nat /\ last <= MaxNumber /\ last + 1 \notin DOMAIN objects
           /\ AreDictionaries(objects, last) /\ DOMAIN objects \subseteq Ids \ {0}
           /\ call.page # 0 => IsLeaf(objects, call.page) /\ call.page # catalog
           /\ call.new \in NewPages \cup {Blank}
<1>1. DocInv /\ ~stale /\ ~Idle /\ call \in CallSet /\ frames = <<>> /\ pages \in Seq(DOMAIN objects) /\ InEdit
  BY DEF PageInv, CallInv, Idle, WalkTypes, PhaseInv
<1>2. /\ pages = cache.pages /\ OwnPages(objects, pages) /\ objects[catalog].has_kids /\ IsFlat(objects, catalog, pages)
      /\ flattened \/ Bare
  BY <1>1 DEF InEdit, HasList, Edits
<1>3. /\ catalog \in DOMAIN objects /\ last \in Nat /\ MaxNumber \in Nat /\ last <= MaxNumber
      /\ last + 1 \notin DOMAIN objects /\ AreDictionaries(objects, last) /\ DOMAIN objects \subseteq Ids \ {0}
  BY <1>1, NumbersAssumption, DocumentFinite DEF DocInv
<1>4. call.page # 0 => IsLeaf(objects, call.page) /\ call.page # catalog
  BY <1>1 DEF PageInv, CallInv, GivenOf
<1>5. call.new \in NewPages \cup {Blank}
  BY <1>1 DEF CallSet
<1> QED BY <1>1, <1>2, <1>3, <1>4, <1>5

(* A successful edit leaves /Count right.                                  *)
Exactly == call'.outcome = "ok" => objects'[catalog'].count = Len(objects'[catalog'].kids)

(* The tree after an edit: the root has the kids and the list.             *)
LEMMA EditedKeeps ==
    ASSUME PageInv, call.phase = "edit", UNCHANGED <<catalog, stale>>,
           Finish("ok"), last' \in 0 .. MaxNumber, AreDictionaries(objects', last'),
           DOMAIN objects \subseteq DOMAIN objects',
           NEW list \in Seq(DOMAIN objects'), OwnPages(objects', list), objects'[catalog].kids = list,
           objects'[catalog].has_kids,
           \A n \in Elements(list) : objects'[n].parent = catalog,
           \/ Invalidated
           \/ cache' = [root |-> catalog, pages |-> list] /\ flattened' = TRUE /\ list # <<>>
    PROVE  PageInv'
<1>1. /\ ~stale /\ call \in CallSet /\ catalog \in DOMAIN objects /\ stale \in BOOLEAN
  BY DEF PageInv, DocInv, CallInv, Idle
<1>2. CallInv' /\ WalkTypes' /\ PhaseInv'
  BY <1>1, FinishKeeps DEF Outcomes
<1>3. IsFlat(objects', catalog, list)
  BY DEF IsFlat
<1>4. CASE Invalidated
  <2>1. NoCache = [root |-> NoCache.root, pages |-> NoCache.pages] /\ NoCache.pages = <<>>
    BY DEF NoCache
  <2>2. cache' = NoCache /\ flattened' = FALSE
    BY <1>4 DEF Invalidated
  <2>3. DocInv'
    <3>1. cache'.pages \in Seq(DOMAIN objects') /\ cache' = [root |-> cache'.root, pages |-> cache'.pages]
      <4>1. NoCache.pages \in Seq(DOMAIN objects')
        BY <2>1
      <4> QED BY <2>1, <2>2, <4>1
    <3>2. catalog' \in DOMAIN objects' /\ stale' \in BOOLEAN /\ flattened' \in BOOLEAN
      BY <1>1, <2>2
    <3> QED BY <3>1, <3>2 DEF DocInv
  <2>4. CacheInv' /\ FlatInv'
    BY <2>1, <2>2 DEF CacheInv, FlatInv
  <2> QED BY <1>2, <2>3, <2>4 DEF PageInv
<1>5. CASE cache' = [root |-> catalog, pages |-> list] /\ flattened' = TRUE /\ list # <<>>
  <2>1. cache' = [root |-> cache'.root, pages |-> cache'.pages] /\ cache'.pages = list /\ cache'.root = catalog
    BY <1>5
  <2>2. DocInv'
    BY <1>1, <1>5, <2>1 DEF DocInv
  <2>3. CacheInv' /\ FlatInv'
    BY <1>3, <1>5, <2>1 DEF CacheInv, FlatInv
  <2> QED BY <1>2, <2>2, <2>3 DEF PageInv
<1> QED BY <1>4, <1>5

(* The kids and the count of the root replaced in a document.              *)
Rooted(o, r, kids, c) == [o EXCEPT ![r].kids = kids, ![r].count = c]

LEMMA RootChanged ==
    ASSUME NEW o, NEW n, AreDictionaries(o, n), DOMAIN o \subseteq Ids, NEW r \in DOMAIN o, o[r].has_kids,
           NEW kids \in Seq(DOMAIN o), NEW c \in Int,
           NEW p, p = Rooted(o, r, kids, c)
    PROVE  /\ AreDictionaries(p, n) /\ DOMAIN p = DOMAIN o
           /\ p[r].kids = kids /\ p[r].count = c /\ p[r].has_kids /\ p[r].attrs = o[r].attrs
           /\ \A m \in DOMAIN o : m # r => p[m] = o[m]
<1> DEFINE d == [o[r] EXCEPT !.kids = kids]
           e == [d EXCEPT !.count = c]
<1>1. IsDictionary(o[r], DOMAIN o) /\ o[r] \in Node
  BY DEF AreDictionaries, IsDictionary
<1>2. IsDictionary(d, DOMAIN o) /\ d \in Node
  BY <1>1, DictionaryKids DEF IsDictionary
<1>3. d.kids = kids /\ d.has_kids /\ d.attrs = o[r].attrs
  BY <1>1, NodeIs
<1>4. p = [o EXCEPT ![r] = e]
  BY DEF Rooted
<1> HIDE DEF d
<1>5. IsDictionary(e, DOMAIN o)
  BY <1>2, DictionaryCount
<1>6. e.kids = kids /\ e.count = c /\ e.has_kids /\ e.attrs = o[r].attrs
  BY <1>2, <1>3, NodeIs
<1> HIDE DEF e
<1>7. /\ AreDictionaries([o EXCEPT ![r] = e], n) /\ DOMAIN [o EXCEPT ![r] = e] = DOMAIN o
      /\ [o EXCEPT ![r] = e][r] = e
      /\ \A m \in DOMAIN o : m # r => [o EXCEPT ![r] = e][m] = o[m]
  BY <1>5, DocumentChanged
<1> QED BY <1>4, <1>6, <1>7

LEMMA InsertKeeps ==
    ASSUME PageInv, call.phase = "edit", call.op \in Edits, UNCHANGED <<catalog, stale>>,
           Position \in 0 .. Len(pages), NEW new, NEW made, InsertPage(new, made),
           \/ new = last + 1 /\ made = last + 1 /\ last < MaxNumber
           \/ new = call.page /\ call.page # 0 /\ made = last /\ new \notin Elements(pages)
    PROVE  PageInv' /\ Exactly /\ Bared
<1>1. /\ call \in CallSet /\ pages \in Seq(DOMAIN objects) /\ OwnPages(objects, pages)
      /\ catalog \in DOMAIN objects /\ objects[catalog].has_kids /\ IsFlat(objects, catalog, pages)
      /\ flattened \/ Bare
      /\ last \in Nat /\ MaxNumber \in Nat /\ last <= MaxNumber /\ last + 1 \notin DOMAIN objects
      /\ AreDictionaries(objects, last) /\ DOMAIN objects \subseteq Ids \ {0}
      /\ call.page # 0 => IsLeaf(objects, call.page) /\ call.page # catalog
      /\ call.new \in NewPages \cup {Blank}
  BY EditIs
<1>2. \A n \in Elements(pages) : n \in DOMAIN objects /\ n # last + 1
  BY <1>1 DEF Elements
<1>3. new # catalog /\ new \notin Elements(pages)
  BY <1>1, <1>2
<1> DEFINE from == IF call.page = 0 THEN call.new ELSE objects[call.page]
           d == [from EXCEPT !.parent = catalog]
           o == With(objects, new, d)
           list == Inserted(pages, Position, new)
<1>4. /\ objects' = [o EXCEPT ![catalog].kids = Inserted(@, Position, new), ![catalog].count = Counted(1)]
      /\ last' = made
      /\ cache' = [root |-> catalog, pages |-> list]
      /\ flattened' = TRUE
      /\ Finish("ok")
  BY DEF InsertPage
<1>5. /\ IsDictionary(d, DOMAIN objects) /\ d.parent = catalog /\ ~d.has_kids
  <2>1. IsDictionary(from, DOMAIN objects) /\ ~from.has_kids
    <3>1. CASE call.page = 0
      BY <1>1, <3>1, NewPage
    <3>2. CASE call.page # 0
      BY <1>1, <3>2 DEF IsLeaf, AreDictionaries
    <3> QED BY <3>1, <3>2
  <2> HIDE DEF from
  <2>2. IsDictionary(d, DOMAIN objects)
    BY <1>1, <2>1, DictionaryParent
  <2> QED BY <2>1, <2>2 DEF IsDictionary, Node
<1> HIDE DEF d
<1>6. /\ AreDictionaries(o, made) /\ DOMAIN o = DOMAIN objects \cup {new} /\ o[new] = d
      /\ \A m \in DOMAIN objects : m # new => o[m] = objects[m]
      /\ made \in 0 .. MaxNumber /\ new > 0 /\ new \in Ids
  <2>1. CASE new = last + 1 /\ made = last + 1 /\ last < MaxNumber
    <3>0. last \in Nat /\ AreDictionaries(objects, last)
      BY <1>1
    <3>1. IsDictionary(d, DOMAIN objects \cup {last + 1})
      BY <1>5, DictionaryMore
    <3>2. /\ AreDictionaries(With(objects, last + 1, d), last + 1)
          /\ DOMAIN With(objects, last + 1, d) = DOMAIN objects \cup {last + 1}
          /\ With(objects, last + 1, d)[last + 1] = d
          /\ \A m \in DOMAIN objects : m # last + 1 /\ With(objects, last + 1, d)[m] = objects[m]
      BY <3>0, <3>1, DocumentGrown
    <3>3. last + 1 \in 0 .. MaxNumber /\ last + 1 > 0 /\ last + 1 \in Ids
      BY <1>1, <2>1 DEF Ids
    <3> QED BY <2>1, <3>2, <3>3
  <2>2. CASE new = call.page /\ call.page # 0 /\ made = last
    <3>1. new \in DOMAIN objects /\ new > 0 /\ new \in Ids
      BY <1>1, <2>2 DEF IsLeaf
    <3>2. AreDictionaries(objects, last) /\ IsDictionary(d, DOMAIN objects)
      BY <1>1, <1>5
    <3>3. /\ AreDictionaries(o, last) /\ DOMAIN o = DOMAIN objects /\ o[new] = d
          /\ \A m \in DOMAIN objects : m # new => o[m] = objects[m]
      BY <3>1, <3>2, DocumentPut
    <3>4. DOMAIN objects = DOMAIN objects \cup {new}
      BY <3>1
    <3>5. made \in 0 .. MaxNumber
      BY <1>1, <2>2
    <3> QED BY <2>2, <3>1, <3>3, <3>4, <3>5
  <2> QED BY <2>1, <2>2
<1> HIDE DEF o
<1>7. /\ o[catalog] = objects[catalog] /\ catalog \in DOMAIN o /\ DOMAIN o \subseteq Ids
      /\ objects[catalog].kids = pages /\ Counted(1) = Len(pages) + 1
  BY <1>1, <1>3, <1>6 DEF IsFlat, Counted, Kids
<1>8. /\ list \in Seq(DOMAIN o) /\ Len(list) = Len(pages) + 1 /\ Elements(list) = Elements(pages) \cup {new}
  <2>1. pages \in Seq(DOMAIN o) /\ new \in DOMAIN o
    BY <1>1, <1>6
  <2> QED BY <2>1, InsertedIs
<1>9. OwnPages(o, list)
  <2>1. OwnPages(o, pages)
    BY <1>1, <1>2, <1>3, <1>6, OwnAlike
  <2>2. IsLeaf(o, new) /\ new \in DOMAIN o
    BY <1>5, <1>6 DEF IsLeaf
  <2>3. pages \in Seq(DOMAIN o)
    BY <1>1, <1>6
  <2> QED BY <1>3, <2>1, <2>2, <2>3, OwnInserted
<1>10. objects' = Rooted(o, catalog, list, Len(pages) + 1)
  BY <1>4, <1>7 DEF Rooted
<1> HIDE DEF list
<1>11. Len(pages) + 1 \in Int /\ Len(pages) \in Nat
  BY <1>1
<1>12. /\ AreDictionaries(objects', made) /\ DOMAIN objects' = DOMAIN o
       /\ objects'[catalog].kids = list /\ objects'[catalog].count = Len(pages) + 1
       /\ objects'[catalog].has_kids /\ objects'[catalog].attrs = o[catalog].attrs
       /\ \A m \in DOMAIN o : m # catalog => objects'[m] = o[m]
  <2>1. AreDictionaries(o, made) /\ DOMAIN o \subseteq Ids /\ catalog \in DOMAIN o /\ o[catalog].has_kids
        /\ list \in Seq(DOMAIN o) /\ Len(pages) + 1 \in Int
    BY <1>1, <1>6, <1>7, <1>8, <1>11
  <2> QED BY <1>10, <2>1, RootChanged
<1>13. \A n \in Elements(list) : n \in DOMAIN o /\ n # catalog
  BY <1>1, <1>2, <1>3, <1>6, <1>8 DEF OwnPages, IsLeaf
<1>14. OwnPages(objects', list)
  BY <1>9, <1>12, <1>13, OwnAlike
<1>15. \A n \in Elements(list) : objects'[n].parent = catalog
  BY <1>1, <1>2, <1>5, <1>6, <1>8, <1>12, <1>13 DEF IsFlat
<1>16. list # <<>>
  <2>1. Len(list) > 0
    BY <1>8, <1>11
  <2> QED BY <2>1
<1>17. PageInv'
  <2>1. DOMAIN objects \subseteq DOMAIN objects' /\ last' \in 0 .. MaxNumber /\ list \in Seq(DOMAIN objects')
    BY <1>4, <1>6, <1>8, <1>12
  <2>2. /\ Finish("ok") /\ AreDictionaries(objects', last') /\ objects'[catalog].kids = list
        /\ objects'[catalog].has_kids
        /\ cache' = [root |-> catalog, pages |-> list] /\ flattened' = TRUE
    BY <1>4, <1>7, <1>12 DEF list
  <2> QED BY <1>14, <1>15, <1>16, <2>1, <2>2, EditedKeeps
<1>18. Exactly
  BY <1>8, <1>12 DEF Exactly
<1>19. Bared
  <2>1. ASSUME flattened => call.op = "rebuild_page_tree", IsPages(catalog) PROVE DOMAIN objects[catalog].attrs = {}
    BY <1>1, <2>1 DEF Bare, Edits
  <2>2. objects'[catalog].attrs = objects[catalog].attrs
    BY <1>7, <1>12
  <2> QED BY <2>1, <2>2 DEF Bared
<1> QED BY <1>17, <1>18, <1>19

LEMMA InsertPageKeeps ==
    ASSUME PageInv, insert_page
    PROVE  PageInv' /\ Exactly /\ Bared
<1>1. call.phase = "edit" /\ call.op \in Edits /\ UNCHANGED <<catalog, stale>>
  BY DEF insert_page, Edits
<1>2. /\ call \in CallSet /\ last \in Nat /\ MaxNumber \in Nat /\ last <= MaxNumber /\ last + 1 \notin DOMAIN objects
      /\ AreDictionaries(objects, last) /\ call.new \in NewPages \cup {Blank}
  BY <1>1, EditIs
<1>3. Exhausted <=> ~(last < MaxNumber)
  BY <1>2 DEF Exhausted
(* A call that fails leaves what is known, and may leave a new page.       *)
<1>4. ASSUME NEW why \in Outcomes, why # "ok", Finish(why), UNCHANGED known, last' \in 0 .. MaxNumber,
             AreDictionaries(objects', last'),
             \A n \in DOMAIN objects : n \in DOMAIN objects' /\ objects'[n] = objects[n]
      PROVE  PageInv' /\ Exactly /\ Bared
  <2>1. DocInv' /\ CacheInv' /\ FlatInv'
    BY <1>1, <1>4, KnownKeeps
  <2>2. CallInv' /\ WalkTypes' /\ PhaseInv' /\ call'.outcome = why
    BY <1>2, <1>4, FinishKeeps
  <2>3. Bared
    BY <1>1, <1>4 DEF Bared, known, Edits
  <2> QED BY <1>4, <2>1, <2>2, <2>3 DEF PageInv, Exactly
<1>5. ASSUME NEW why \in {"missing", "numbers", "range"}, Finish(why), UNCHANGED <<objects, last, known>>
      PROVE  PageInv' /\ Exactly /\ Bared
  <2>1. why \in Outcomes /\ why # "ok" /\ last' \in 0 .. MaxNumber /\ AreDictionaries(objects', last')
        /\ UNCHANGED known
    BY <1>2, <1>5 DEF Outcomes
  <2>2. \A n \in DOMAIN objects : n \in DOMAIN objects' /\ objects'[n] = objects[n]
    BY <1>5
  <2> QED BY <1>4, <1>5, <2>1, <2>2
<1>6. CASE Finish("missing") /\ UNCHANGED <<objects, last, known>>
  BY <1>5, <1>6
<1>7. CASE Finish("numbers") /\ UNCHANGED <<objects, last, known>>
  BY <1>5, <1>7
<1>8. CASE /\ call.page = 0 => ~Exhausted
           /\ Finish("range")
           /\ objects' = IF call.page = 0 THEN With(objects, last + 1, call.new) ELSE objects
           /\ last' = IF call.page = 0 THEN last + 1 ELSE last
           /\ UNCHANGED known
  <2>1. CASE call.page # 0
    <3>1. Finish("range") /\ UNCHANGED <<objects, last, known>>
      BY <1>8, <2>1
    <3> QED BY <1>5, <3>1
  <2>2. CASE call.page = 0
    <3> DEFINE d == call.new
    <3>1. IsDictionary(d, DOMAIN objects \cup {last + 1})
      BY <1>2, NewPage
    <3>2. last \in Nat /\ AreDictionaries(objects, last)
      BY <1>2
    <3> HIDE DEF d
    <3>3. /\ AreDictionaries(With(objects, last + 1, d), last + 1)
          /\ \A k \in DOMAIN objects : k # last + 1 /\ With(objects, last + 1, d)[k] = objects[k]
          /\ DOMAIN With(objects, last + 1, d) = DOMAIN objects \cup {last + 1}
      BY <3>1, <3>2, DocumentGrown
    <3>4. objects' = With(objects, last + 1, d) /\ last' = last + 1 /\ Finish("range") /\ UNCHANGED known
      BY <1>8, <2>2 DEF d
    <3>5. last' \in 0 .. MaxNumber /\ "range" \in Outcomes
      BY <1>2, <1>3, <1>8, <2>2 DEF Outcomes
    <3>6. AreDictionaries(objects', last')
      BY <3>3, <3>4
    <3>7. \A n \in DOMAIN objects : n \in DOMAIN objects' /\ objects'[n] = objects[n]
      BY <3>3, <3>4
    <3> QED BY <1>4, <3>4, <3>5, <3>6, <3>7
  <2> QED BY <2>1, <2>2
<1>9. CASE /\ call.page = 0 => ~Exhausted
           /\ Position \in 0 .. Len(pages) /\ ~Repeated
           /\ InsertPage(Page0, IF call.page = 0 THEN last + 1 ELSE last)
  <2>1. CASE call.page = 0
    <3>1. InsertPage(last + 1, last + 1) /\ last < MaxNumber /\ Position \in 0 .. Len(pages)
      BY <1>3, <1>9, <2>1 DEF Page0
    <3> QED BY <1>1, <3>1, InsertKeeps
  <2>2. CASE call.page # 0
    <3>1. InsertPage(call.page, last) /\ call.page \notin Elements(pages) /\ Position \in 0 .. Len(pages)
      BY <1>9, <2>2 DEF Page0, Repeated
    <3> QED BY <1>1, <2>2, <3>1, InsertKeeps
  <2> QED BY <2>1, <2>2
<1>10. CASE ~Exhausted /\ Position \in 0 .. Len(pages) /\ InsertPage(last + 1, last + 1)
  BY <1>1, <1>3, <1>10, InsertKeeps
<1> QED BY <1>6, <1>7, <1>8, <1>9, <1>10 DEF insert_page

LEMMA RemovePageKeeps ==
    ASSUME PageInv, remove_page
    PROVE  PageInv' /\ Exactly /\ Bared
<1>1. call.phase = "edit" /\ call.op \in Edits /\ UNCHANGED <<catalog, last, stale>>
  BY DEF remove_page, Edits
<1>2. /\ call \in CallSet /\ pages \in Seq(DOMAIN objects) /\ OwnPages(objects, pages) /\ pages = cache.pages
      /\ catalog \in DOMAIN objects /\ objects[catalog].has_kids /\ IsFlat(objects, catalog, pages)
      /\ flattened \/ Bare
      /\ AreDictionaries(objects, last) /\ DOMAIN objects \subseteq Ids /\ last \in 0 .. MaxNumber
  BY <1>1, EditIs
<1>3. CASE call.page \notin Elements(pages)
  <2>1. Finish("missing") /\ UNCHANGED <<objects, known>>
    BY <1>3 DEF remove_page
  <2>2. DocInv' /\ CacheInv' /\ FlatInv'
    <3>1. last' \in 0 .. MaxNumber /\ AreDictionaries(objects', last') /\ UNCHANGED known
      BY <1>1, <1>2, <2>1
    <3>2. \A n \in DOMAIN objects : n \in DOMAIN objects' /\ objects'[n] = objects[n]
      BY <2>1
    <3> QED BY <1>1, <3>1, <3>2, KnownKeeps
  <2>3. CallInv' /\ WalkTypes' /\ PhaseInv' /\ call'.outcome = "missing"
    BY <1>2, <2>1, FinishKeeps DEF Outcomes
  <2>4. Bared
    BY <1>1, <2>1 DEF Bared, known, Edits
  <2> QED BY <2>2, <2>3, <2>4 DEF PageInv, Exactly
<1>4. CASE call.page \in Elements(pages)
  <2> DEFINE S == Positions(pages, call.page)
             i == Least(S)
             list == Erased(pages, i)
  <2>1. i \in 1 .. Len(pages)
    <3>1. S \subseteq 1 .. Len(pages) /\ S # {}
      BY <1>2, <1>4 DEF Positions, Elements
    <3>2. S \subseteq Nat
      BY <1>2, <3>1
    <3> HIDE DEF S
    <3>3. \E x \in S : \A y \in S : x <= y
      BY <3>1, <3>2, LeastExists
    <3>4. i \in S
      BY <3>3 DEF Least
    <3> QED BY <3>1, <3>4
  <2>2. /\ objects' = [objects EXCEPT ![catalog].kids = Erased(@, i), ![catalog].count = Counted(-1)]
        /\ IF Len(pages) = 1 THEN Invalidated
           ELSE cache' = [root |-> catalog, pages |-> list] /\ flattened' = TRUE
        /\ Finish("ok")
    BY <1>4 DEF remove_page
  <2> HIDE DEF i
  <2>3. list \in Seq(DOMAIN objects) /\ Len(list) = Len(pages) - 1
    BY <1>2, <2>1, ErasedIs
  <2>4. OwnPages(objects, list) /\ Elements(list) \subseteq Elements(pages)
    BY <1>2, <2>1, OwnErased
  <2>5. objects[catalog].kids = pages /\ Counted(-1) = Len(pages) - 1 /\ Len(pages) \in Nat
    BY <1>2 DEF IsFlat, Counted, Kids
  <2>6. objects' = Rooted(objects, catalog, list, Len(pages) - 1)
    BY <2>2, <2>5 DEF Rooted
  <2> HIDE DEF list
  <2>7. /\ AreDictionaries(objects', last) /\ DOMAIN objects' = DOMAIN objects
        /\ objects'[catalog].kids = list /\ objects'[catalog].count = Len(pages) - 1
        /\ objects'[catalog].has_kids /\ objects'[catalog].attrs = objects[catalog].attrs
        /\ \A m \in DOMAIN objects : m # catalog => objects'[m] = objects[m]
    <3>1. Len(pages) - 1 \in Int
      BY <2>5
    <3>2. /\ AreDictionaries(objects, last) /\ DOMAIN objects \subseteq Ids /\ catalog \in DOMAIN objects
          /\ objects[catalog].has_kids
      BY <1>2
    <3> QED BY <2>3, <2>6, <3>1, <3>2, RootChanged
  <2>8. \A n \in Elements(list) : n \in DOMAIN objects /\ n # catalog /\ objects[n].parent = catalog
    BY <1>2, <2>4 DEF OwnPages, IsLeaf, IsFlat
  <2>9. OwnPages(objects', list)
    BY <2>4, <2>7, <2>8, OwnAlike
  <2>10. \A n \in Elements(list) : objects'[n].parent = catalog
    BY <2>7, <2>8
  <2>11. \/ Invalidated
         \/ cache' = [root |-> catalog, pages |-> list] /\ flattened' = TRUE /\ list # <<>>
    <3>1. CASE Len(pages) = 1
      BY <2>2, <3>1
    <3>2. CASE Len(pages) # 1
      <4>1. Len(list) # 0
        BY <2>3, <2>5, <3>2
      <4>2. list # <<>>
        BY <4>1
      <4> QED BY <2>2, <3>2, <4>2 DEF list
    <3> QED BY <3>1, <3>2
  <2>12. PageInv'
    <3>1. /\ Finish("ok") /\ last' \in 0 .. MaxNumber /\ AreDictionaries(objects', last')
          /\ DOMAIN objects \subseteq DOMAIN objects' /\ list \in Seq(DOMAIN objects')
      BY <1>1, <1>2, <2>2, <2>3, <2>7
    <3> QED BY <1>1, <2>7, <2>9, <2>10, <2>11, <3>1, EditedKeeps
  <2>13. Exactly
    BY <1>1, <2>3, <2>7 DEF Exactly
  <2>14. Bared
    <3>1. ASSUME flattened => call.op = "rebuild_page_tree", IsPages(catalog) PROVE DOMAIN objects[catalog].attrs = {}
      BY <1>1, <1>2, <3>1 DEF Bare, Edits
    <3>2. objects'[catalog].attrs = objects[catalog].attrs
      BY <2>7
    <3> QED BY <3>1, <3>2 DEF Bared
  <2> QED BY <2>12, <2>13, <2>14
<1> QED BY <1>3, <1>4

-----------------------------------------------------------------------------
(* rebuild_page_tree: its parts.                                           *)

(* The nodes of the tree are the root, if a push enters it, and            *)
(* dictionaries with /Kids below it.                                       *)
LEMMA TreeNodesAre ==
    ASSUME last \in 0 .. MaxNumber, AreDictionaries(objects, last), catalog \in DOMAIN objects
    PROVE  /\ \A n \in TreeNodes : n \in DOMAIN objects /\ (n = catalog \/ objects[n].has_kids)
           /\ IsPages(catalog) => catalog \in TreeNodes
<1> DEFINE N == Cardinality(DOMAIN objects)
           V == {n \in DOMAIN objects : n = catalog \/ objects[n].has_kids}
           W == {X \in SUBSET V : IsPages(catalog) => catalog \in X}
           first == {n \in {catalog} : IsPages(n)}
           below(n) == {n} \cup {m \in Elements(Kids(n)) : objects[m].has_kids /\ IsPages(m)}
           next(X) == UNION {below(n) : n \in X}
           body(f, k) == IF k = 0 THEN first ELSE next(f[k - 1])
           step == [X \in W |-> next(X)]
           reach == CHOOSE f : f = [k \in 0 .. N |-> body(f, k)]
<1>1. N \in Nat /\ first \in W
  BY DocumentFinite
<1>2. \A X \in W : next(X) \in W
  <2> SUFFICES ASSUME NEW X \in W PROVE next(X) \in W
    OBVIOUS
  <2>1. ASSUME NEW n \in X, NEW m \in below(n) PROVE m \in V
    <3>1. CASE m = n
      BY <3>1
    <3>2. CASE m # n
      <4>1. m \in Elements(objects[n].kids) /\ objects[m].has_kids /\ n \in DOMAIN objects
        BY <2>1, <3>2 DEF Kids
      <4>2. Elements(objects[n].kids) \subseteq DOMAIN objects
        BY <4>1 DEF AreDictionaries, IsDictionary
      <4> QED BY <4>1, <4>2
    <3> QED BY <3>1, <3>2
  <2>2. X \subseteq next(X)
    OBVIOUS
  <2>3. next(X) \subseteq V
    <3> HIDE DEF below, V
    <3> QED BY <2>1
  <2> HIDE DEF next, V
  <2> QED BY <2>2, <2>3
<1>3. step \in [W -> W] /\ \A X \in W : step[X] = next(X)
  <2> HIDE DEF W, next
  <2> QED BY <1>2
<1>4. TreeNodes = reach[N]
  BY DEF TreeNodes
<1> HIDE DEF N, V, W, first, next, step
<1>5. PICK f \in [0 .. N -> W] : f[0] = first /\ \A k \in 1 .. N : f[k] = step[f[k - 1]]
  <2>1. N \in Nat /\ first \in W /\ step \in [W -> W]
    BY <1>1, <1>3
  <2>2. PICK f \in [0 .. N -> W] : IsWalk(f, N, first, step)
    BY <2>1, WalkExists
  <2> QED BY <2>2 DEF IsWalk
<1>6. f = [k \in 0 .. N |-> body(f, k)]
  <2>1. \A k \in 0 .. N : f[k] = body(f, k)
    <3> SUFFICES ASSUME NEW k \in 0 .. N PROVE f[k] = body(f, k)
      OBVIOUS
    <3>1. CASE k = 0
      BY <1>5, <3>1
    <3>2. CASE k # 0
      <4>1. k - 1 \in 0 .. N /\ k \in 1 .. N
        BY <1>1, <3>2
      <4>2. f[k - 1] \in W
        BY <1>5, <4>1
      <4> QED BY <1>3, <1>5, <3>2, <4>1, <4>2
    <3> QED BY <3>1, <3>2
  <2>2. f = [k \in 0 .. N |-> f[k]]
    BY <1>5
  <2> HIDE DEF body
  <2> QED BY <2>1, <2>2
<1>7. reach = [k \in 0 .. N |-> body(reach, k)]
  <2> HIDE DEF body
  <2> QED BY <1>6
<1> HIDE DEF reach
<1> DEFINE S == {k \in Nat : k <= N => reach[k] \in W}
<1>8. 0 \in S
  BY <1>1, <1>7
<1>9. ASSUME NEW k \in Nat, k \in S PROVE k + 1 \in S
  <2> SUFFICES ASSUME k + 1 <= N PROVE reach[k + 1] \in W
    OBVIOUS
  <2>1. reach[k] \in W /\ k + 1 \in 0 .. N /\ (k + 1) - 1 = k /\ k + 1 # 0
    BY <1>1, <1>9
  <2>2. reach[k + 1] = next(reach[k])
    BY <1>7, <2>1
  <2> QED BY <1>2, <2>1, <2>2
<1>10. Nat \subseteq S
  <2> HIDE DEF S
  <2> QED BY <1>8, <1>9, SetInduction
<1>11. reach[N] \in W
  BY <1>1, <1>10
<1> QED BY <1>4, <1>11 DEF W, V

(* Where the values that a page inherits are kept.                         *)
LEMMA OwnersAre ==
    ASSUME last \in 0 .. MaxNumber, AreDictionaries(objects, last), NEW n \in DOMAIN objects, NEW key
    PROVE  \A m \in Owners(n, key) : m \in DOMAIN objects /\ key \in DOMAIN objects[m].attrs
<1> DEFINE up == Parents(n)
<1>1. up \in [0 .. Cardinality(DOMAIN objects) -> DOMAIN objects]
  BY ParentsAre
<1>2. Owners(n, key) = {up[k] : k \in FirstOwn(up, key)}
  BY DEF Owners
<1> HIDE DEF up
<1>3. ASSUME NEW k \in FirstOwn(up, key) PROVE up[k] \in DOMAIN objects /\ key \in DOMAIN objects[up[k]].attrs
  BY <1>1 DEF FirstOwn, Own
<1> QED BY <1>2, <1>3

(* As far as the pages selected are pages of the document.                 *)
LEMMA PromotionsAre ==
    ASSUME last \in 0 .. MaxNumber, AreDictionaries(objects, last), catalog \in DOMAIN objects,
           NEW N \in Nat, \A i \in 1 .. N : call.selected[i] \in DOMAIN objects
    PROVE  /\ \A j \in 0 .. N : Cardinality(Promotions(j)) \in Nat
           /\ \A i, j \in 0 .. N : i <= j => Cardinality(Promotions(i)) <= Cardinality(Promotions(j))
           /\ Promotions(0) = DirectValues
<1>7. PICK D : D = DOMAIN objects
  OBVIOUS
<1> DEFINE all == D \X KeySet
<1>1. IsFiniteSet(all)
  <2>1. IsFiniteSet({"MediaBox"}) /\ IsFiniteSet({"Resources"})
    BY FS_Singleton
  <2>2. IsFiniteSet({"MediaBox"} \cup {"Resources"})
    BY <2>1, FS_Union
  <2>3. KeySet = {"MediaBox"} \cup {"Resources"}
    BY DEF KeySet
  <2>4. IsFiniteSet(D)
    BY <1>7, DocumentFinite
  <2>5. IsFiniteSet(KeySet)
    BY <2>2, <2>3
  <2> QED BY <2>4, <2>5, FS_Product
<1>2. DirectValues \subseteq all
  <2>1. TreeNodes \subseteq D
    BY <1>7, TreeNodesAre
  <2>2. TreeNodes \X KeySet \subseteq all
    BY <2>1
  <2>3. DirectValues \subseteq TreeNodes \X KeySet
    BY DEF DirectValues
  <2> QED BY <2>2, <2>3
<1>3. ASSUME NEW i \in 1 .. N PROVE Needed(call.selected[i]) \subseteq all
  <2> DEFINE n == call.selected[i]
  <2>1. \A k \in KeySet : Owners(n, k) \X {k} \subseteq all
    <3>1. n \in DOMAIN objects
      OBVIOUS
    <3> HIDE DEF n
    <3>2. ASSUME NEW k \in KeySet PROVE Owners(n, k) \subseteq D
      BY <1>7, <3>1, OwnersAre
    <3> QED BY <3>2
  <2> HIDE DEF all, n
  <2>2. UNION {Owners(n, k) \X {k} : k \in KeySet} \subseteq all
    BY <2>1
  <2>3. Needed(n) \subseteq all
    BY <2>2 DEF Needed
  <2> QED BY <2>3 DEF n
<1> HIDE DEF all
<1>4. ASSUME NEW j \in 0 .. N PROVE IsFiniteSet(Promotions(j)) /\ Cardinality(Promotions(j)) \in Nat
  <2>1. Promotions(j) \subseteq all
    BY <1>2, <1>3 DEF Promotions
  <2> QED BY <1>1, <2>1, FS_Subset, FS_CardinalityType
<1>5. ASSUME NEW i \in 0 .. N, NEW j \in 0 .. N, i <= j
      PROVE  Cardinality(Promotions(i)) <= Cardinality(Promotions(j))
  <2>1. Promotions(i) \subseteq Promotions(j)
    <3>1. 1 .. i \subseteq 1 .. j
      BY <1>5
    <3> QED BY <3>1 DEF Promotions
  <2> QED BY <1>4, <2>1, FS_Subset
<1>6. Promotions(0) = DirectValues
  <2>1. 1 .. 0 = {}
    OBVIOUS
  <2> QED BY <2>1 DEF Promotions
<1> QED BY <1>4, <1>5, <1>6

(* promote_page_tree_inheritable_values: the attributes keep their keys.   *)
LEMMA PromotedIs ==
    ASSUME AreDictionaries(objects, last), NEW some
    PROVE  /\ AreDictionaries(Promoted(some), last) /\ SameTree(objects, Promoted(some))
           /\ \A n \in DOMAIN objects : DOMAIN Promoted(some)[n].attrs = DOMAIN objects[n].attrs
<1> DEFINE a(n) == [k \in DOMAIN objects[n].attrs |->
                      IF <<n, k>> \in some THEN [objects[n].attrs[k] EXCEPT !.ref = TRUE] ELSE objects[n].attrs[k]]
           d(n) == [objects[n] EXCEPT !.attrs = a(n)]
<1>1. Promoted(some) = [n \in DOMAIN objects |-> d(n)]
  BY DEF Promoted
<1>2. ASSUME NEW n \in DOMAIN objects
      PROVE  /\ IsDictionary(d(n), DOMAIN objects) /\ DOMAIN d(n).attrs = DOMAIN objects[n].attrs
             /\ d(n).has_kids = objects[n].has_kids /\ d(n).type = objects[n].type
             /\ d(n).kids = objects[n].kids /\ d(n).parent = objects[n].parent
  <2>1. IsDictionary(objects[n], DOMAIN objects) /\ objects[n] \in Node
    BY DEF AreDictionaries, IsDictionary
  <2>2. DOMAIN objects[n].attrs \subseteq KeySet /\ \A k \in DOMAIN objects[n].attrs : objects[n].attrs[k] \in Values
    BY <2>1, NodeIs, AttrsAre
  <2> DEFINE b == a(n)
  <2>3. \A k \in DOMAIN objects[n].attrs : b[k] \in Values
    BY <2>2 DEF Values
  <2>4. b = [k \in DOMAIN b |-> b[k]] /\ DOMAIN b = DOMAIN objects[n].attrs
    OBVIOUS
  <2> HIDE DEF b
  <2>5. b \in AttrSet
    BY <2>2, <2>3, <2>4, AttrsAre
  <2>6. d(n) = [objects[n] EXCEPT !.attrs = b]
    BY DEF b
  <2> HIDE DEF d
  <2>7. IsDictionary(d(n), DOMAIN objects)
    BY <2>1, <2>5, <2>6, DictionaryAttrs
  <2> QED BY <2>1, <2>4, <2>6, <2>7, NodeIs
<1> HIDE DEF d
<1>3. DOMAIN Promoted(some) = DOMAIN objects /\ \A n \in DOMAIN objects : Promoted(some)[n] = d(n)
  BY <1>1
<1>4. SameTree(objects, Promoted(some))
  BY <1>2, <1>3 DEF SameTree
<1>5. AreDictionaries(Promoted(some), last)
  BY <1>2, <1>3 DEF AreDictionaries
<1>6. \A n \in DOMAIN objects : DOMAIN Promoted(some)[n].attrs = DOMAIN objects[n].attrs
  BY <1>2, <1>3
<1> QED BY <1>4, <1>5, <1>6

(* resolve_inherited_handle_with_max_depth finds a value on the way up.    *)
LEMMA InheritedIs ==
    ASSUME last \in 0 .. MaxNumber, AreDictionaries(objects, last), NEW o, AreDictionaries(o, last),
           DOMAIN o = DOMAIN objects, \A n \in DOMAIN objects : DOMAIN o[n].attrs = DOMAIN objects[n].attrs,
           NEW n \in DOMAIN objects
    PROVE  Inherited(o, n) \in AttrSet
<1> DEFINE a == Inherited(o, n)
           owner(key) == CHOOSE m \in Owners(n, key) : TRUE
<1>1. ASSUME NEW key \in KeySet, Owners(n, key) # {} PROVE o[owner(key)].attrs[key] \in Values
  <2>1. owner(key) \in Owners(n, key)
    BY <1>1
  <2> HIDE DEF owner
  <2>2. owner(key) \in DOMAIN objects /\ key \in DOMAIN objects[owner(key)].attrs
    BY <2>1, OwnersAre
  <2>3. o[owner(key)].attrs \in AttrSet /\ key \in DOMAIN o[owner(key)].attrs
    BY <2>2, NodeIs DEF AreDictionaries, IsDictionary
  <2> QED BY <2>3, AttrsAre
<1>2. a = [key \in {k \in KeySet : Owners(n, k) # {}} |-> o[owner(key)].attrs[key]]
  BY DEF Inherited
<1> HIDE DEF a, owner
<1>3. a = [k \in DOMAIN a |-> a[k]] /\ DOMAIN a \subseteq KeySet /\ \A k \in DOMAIN a : a[k] \in Values
  BY <1>1, <1>2
<1>4. a \in AttrSet
  BY <1>3, AttrsAre
<1> QED BY <1>4 DEF a

(* The pages selected again so far.                                        *)
LEMMA CopiesAre ==
    /\ \A j \in Nat : Copies(j) \in Nat
    /\ \A j \in Nat : Copies(j + 1) = IF Again(j + 1) THEN Copies(j) + 1 ELSE Copies(j)
    /\ \A i, j \in Nat : i <= j => Copies(i) <= Copies(j)
    /\ \A i, j \in Nat : i < j /\ Again(j) => Copies(i) < Copies(j)
<1> DEFINE S(j) == {i \in 1 .. j : Again(i)}
<1>1. \A j \in Nat : IsFiniteSet(S(j)) /\ Copies(j) = Cardinality(S(j)) /\ Copies(j) \in Nat
  <2> SUFFICES ASSUME NEW j \in Nat
               PROVE  IsFiniteSet(S(j)) /\ Copies(j) = Cardinality(S(j)) /\ Copies(j) \in Nat
    OBVIOUS
  <2>1. IsFiniteSet(1 .. j)
    BY FS_Interval
  <2>2. IsFiniteSet(S(j))
    BY <2>1, FS_Subset
  <2>3. Copies(j) = Cardinality(S(j))
    BY DEF Copies
  <2> QED BY <2>2, <2>3, FS_CardinalityType
<1>2. ASSUME NEW j \in Nat
      PROVE  Copies(j + 1) = IF Again(j + 1) THEN Copies(j) + 1 ELSE Copies(j)
  <2>1. CASE Again(j + 1)
    <3>1. S(j + 1) = S(j) \cup {j + 1} /\ j + 1 \notin S(j)
      BY <2>1
    <3> HIDE DEF S
    <3>2. Cardinality(S(j) \cup {j + 1}) = Cardinality(S(j)) + 1
      BY <1>1, <3>1, FS_AddElement
    <3>3. Copies(j) = Cardinality(S(j)) /\ j + 1 \in Nat
      BY <1>1
    <3>4. Copies(j + 1) = Cardinality(S(j + 1))
      BY <1>1, <3>3
    <3> QED BY <2>1, <3>1, <3>2, <3>3, <3>4
  <2>2. CASE ~Again(j + 1)
    <3>1. S(j + 1) = S(j)
      <4>1. \A i \in 1 .. j + 1 : i \in 1 .. j \/ i = j + 1
        OBVIOUS
      <4> QED BY <2>2, <4>1
    <3> HIDE DEF S
    <3> QED BY <1>1, <2>2, <3>1
  <2> QED BY <2>1, <2>2
<1>3. ASSUME NEW i \in Nat, NEW j \in Nat, i <= j
      PROVE  Copies(i) <= Copies(j)
  <2>1. S(i) \subseteq S(j)
    BY <1>3
  <2> HIDE DEF S
  <2> QED BY <1>1, <2>1, FS_Subset
<1>4. ASSUME NEW i \in Nat, NEW j \in Nat, i < j, Again(j)
      PROVE  Copies(i) < Copies(j)
  <2>1. PICK k : k = j - 1
    OBVIOUS
  <2>2. k \in Nat /\ j = k + 1 /\ i <= k
    BY <1>4, <2>1
  <2>3. Copies(j) = Copies(k) + 1
    BY <1>2, <1>4, <2>2
  <2>4. Copies(i) <= Copies(k) /\ Copies(i) \in Nat /\ Copies(k) \in Nat
    BY <1>1, <1>3, <2>2
  <2> QED BY <2>3, <2>4
<1> QED BY <1>1, <1>2, <1>3, <1>4

LEMMA StopIs ==
    ASSUME call.selected \in Seq(Int)
    PROVE  /\ Stop \in 1 .. Len(call.selected) + 1
           /\ \A j \in 1 .. Stop - 1 : j \in DOMAIN call.selected /\ Accepted(j)
<1> DEFINE n == Len(call.selected)
           S == {j \in DOMAIN call.selected : ~Accepted(j)} \cup {n + 1}
<1>1. n \in Nat /\ DOMAIN call.selected = 1 .. n
  OBVIOUS
<1> HIDE DEF n
<1>2. S \subseteq 1 .. n + 1 /\ S \subseteq Nat /\ n + 1 \in S
  BY <1>1
<1>3. Stop = Least(S)
  BY DEF Stop, n
<1> HIDE DEF S
<1>4. \E x \in S : \A y \in S : x <= y
  BY <1>2, LeastExists
<1>5. Stop \in S /\ \A y \in S : Stop <= y
  BY <1>3, <1>4 DEF Least
<1>6. Stop \in 1 .. n + 1
  BY <1>2, <1>5
<1>7. ASSUME NEW j \in 1 .. Stop - 1 PROVE j \in DOMAIN call.selected /\ Accepted(j)
  <2>1. j \in 1 .. n /\ j < Stop
    BY <1>1, <1>6
  <2>2. j \notin S
    BY <1>5, <1>6, <2>1
  <2> QED BY <1>1, <2>1, <2>2 DEF S
<1> QED BY <1>6, <1>7 DEF n

(* What is known of a call of rebuild_page_tree that has numbers left.     *)
Rebuilding ==
    /\ last \in Nat /\ MaxNumber \in Nat /\ last <= MaxNumber /\ catalog \in DOMAIN objects
    /\ AreDictionaries(objects, last) /\ DOMAIN objects \subseteq Ids \ {0}
    /\ call.selected \in Seq(Int)
    /\ \A n \in Elements(call.selected) : IsLeaf(objects, n) /\ n # catalog
    /\ last + Cardinality(DirectValues) <= MaxNumber

LEMMA NumbersAre ==
    ASSUME Rebuilding
    PROVE  /\ \A j \in 1 .. Stop - 1 : Number(j) \in Nat
           /\ Number(Stop - 1) \in last .. MaxNumber
           /\ \A j \in 1 .. Stop - 1 : Again(j) => last < Number(j) /\ Number(j) <= Number(Stop - 1)
           /\ \A i, j \in 1 .. Stop - 1 : i < j /\ Again(j) => Number(i) < Number(j)
<1>1. last \in Nat /\ MaxNumber \in Nat
  BY DEF Rebuilding
<1>2. Stop - 1 \in Nat /\ \A j \in 1 .. Stop - 1 : j \in DOMAIN call.selected /\ Accepted(j)
  BY StopIs DEF Rebuilding
<1>3. PICK N \in Nat : N = Stop - 1
  BY <1>2
<1> DEFINE P(j) == Cardinality(Promotions(j))
<1>4. /\ \A j \in 0 .. N : P(j) \in Nat
      /\ \A i, j \in 0 .. N : i <= j => P(i) <= P(j)
      /\ last + P(0) <= MaxNumber
  <2>1. \A i \in 1 .. N : call.selected[i] \in DOMAIN objects
    <3> SUFFICES ASSUME NEW i \in 1 .. N PROVE call.selected[i] \in DOMAIN objects
      OBVIOUS
    <3>1. call.selected[i] \in Elements(call.selected)
      BY <1>2, <1>3 DEF Elements
    <3> QED BY <3>1 DEF Rebuilding, IsLeaf
  <2>2. last \in 0 .. MaxNumber /\ AreDictionaries(objects, last) /\ catalog \in DOMAIN objects
    BY DEF Rebuilding
  <2> QED BY <2>1, <2>2, PromotionsAre DEF Rebuilding
<1>5. \A j : Number(j) = last + P(j) + Copies(j)
  BY DEF Number
<1> HIDE DEF P
<1>6. \A j \in 0 .. N : Copies(j) \in Nat
  BY CopiesAre
<1>7. \A j \in 0 .. N : Number(j) \in Nat /\ last <= Number(j)
  BY <1>1, <1>4, <1>5, <1>6
<1>8. ASSUME NEW i \in 0 .. N, NEW j \in 0 .. N, i <= j PROVE Number(i) <= Number(j)
  <2>1. Copies(i) <= Copies(j) /\ P(i) <= P(j)
    <3>1. i \in Nat /\ j \in Nat /\ i <= j
      BY <1>8
    <3>2. Copies(i) <= Copies(j)
      BY <1>8, <3>1, CopiesAre
    <3>3. P(i) <= P(j)
      BY <1>4, <3>1
    <3> QED BY <3>2, <3>3
  <2>2. Copies(i) \in Nat /\ Copies(j) \in Nat /\ P(i) \in Nat /\ P(j) \in Nat
    BY <1>4, <1>6
  <2> QED BY <1>1, <1>5, <2>1, <2>2
<1>9. ASSUME NEW i \in 0 .. N, NEW j \in 0 .. N, i < j, Again(j) PROVE Number(i) < Number(j)
  <2>1. Copies(i) < Copies(j) /\ P(i) <= P(j)
    <3>1. i \in Nat /\ j \in Nat /\ i <= j
      BY <1>9
    <3>2. Copies(i) < Copies(j)
      BY <1>9, <3>1, CopiesAre
    <3>3. P(i) <= P(j)
      BY <1>4, <3>1
    <3> QED BY <3>2, <3>3
  <2>2. Copies(i) \in Nat /\ Copies(j) \in Nat /\ P(i) \in Nat /\ P(j) \in Nat
    BY <1>4, <1>6
  <2> QED BY <1>1, <1>5, <2>1, <2>2
<1>10. Number(N) \in last .. MaxNumber
  <2>1. CASE N = 0
    <3>1. Copies(0) = 0
      <4>1. {i \in 1 .. 0 : Again(i)} = {}
        OBVIOUS
      <4> QED BY <4>1, FS_EmptySet DEF Copies
    <3>2. Number(0) <= MaxNumber
      <4>1. 0 \in 0 .. N
        OBVIOUS
      <4> QED BY <1>1, <1>4, <1>5, <3>1, <4>1
    <3> QED BY <1>1, <1>7, <2>1, <3>2
  <2>2. CASE N # 0
    <3>1. N \in 1 .. N
      BY <2>2
    <3>2. Number(N) <= MaxNumber
      BY <1>2, <1>3, <3>1 DEF Accepted
    <3> QED BY <1>1, <1>7, <3>2
  <2> QED BY <2>1, <2>2
<1>11. ASSUME NEW j \in 1 .. N, Again(j) PROVE last < Number(j) /\ Number(j) <= Number(N)
  <2>1. j \in 0 .. N /\ 0 \in 0 .. N /\ N \in 0 .. N /\ 0 < j /\ j <= N
    OBVIOUS
  <2>2. Number(0) < Number(j) /\ Number(j) <= Number(N)
    BY <1>8, <1>9, <1>11, <2>1
  <2> QED BY <1>1, <1>7, <2>1, <2>2
<1>12. \A i, j \in 1 .. N : i < j /\ Again(j) => Number(i) < Number(j)
  <2>1. 1 .. N \subseteq 0 .. N
    OBVIOUS
  <2> QED BY <1>9, <2>1
<1>13. \A j \in 1 .. N : Number(j) \in Nat
  BY <1>7
<1> QED BY <1>3, <1>10, <1>11, <1>12, <1>13

(* The pages selected are objects of their own, and none is the root.      *)
LEMMA LeafsAre ==
    ASSUME Rebuilding
    PROVE  /\ \A j \in 1 .. Stop - 1 :
                 /\ Leaf(j) \in Int /\ Leaf(j) > 0 /\ Leaf(j) # catalog
                 /\ Leaf(j) \in DOMAIN objects => ~objects[Leaf(j)].has_kids
                 /\ Leaf(j) \in DOMAIN objects \/ Leaf(j) \in last + 1 .. Number(Stop - 1)
           /\ \A i, j \in 1 .. Stop - 1 : Leaf(i) = Leaf(j) => i = j
<1> DEFINE to == Number(Stop - 1)
<1>1. /\ DOMAIN call.selected = 1 .. Len(call.selected) /\ Len(call.selected) \in Nat
      /\ Stop \in 1 .. Len(call.selected) + 1
  BY StopIs DEF Rebuilding
<1>2. last \in Nat /\ MaxNumber \in Nat /\ catalog \in DOMAIN objects /\ DOMAIN objects \subseteq Ids
      /\ \A m \in DOMAIN objects : m <= last
  BY DEF Rebuilding, AreDictionaries
<1>3. ASSUME NEW j \in 1 .. Stop - 1
      PROVE  /\ j \in DOMAIN call.selected /\ call.selected[j] \in Int /\ call.selected[j] # catalog
             /\ call.selected[j] \in DOMAIN objects /\ call.selected[j] > 0 /\ ~objects[call.selected[j]].has_kids
  <2>1. j \in DOMAIN call.selected
    BY <1>1
  <2>2. call.selected[j] \in Elements(call.selected)
    BY <2>1 DEF Elements
  <2> QED BY <1>2, <2>1, <2>2 DEF Rebuilding, IsLeaf, Ids
<1>4. ASSUME NEW j \in 1 .. Stop - 1, Again(j)
      PROVE  /\ Leaf(j) = Number(j) /\ Number(j) \in Int /\ Number(j) > last /\ Number(j) <= to
             /\ Number(j) \notin DOMAIN objects
  <2>1. j \in Nat
    BY <1>1
  <2>2. Number(j) \in Nat /\ last < Number(j) /\ Number(j) <= to
    BY <1>4, <2>1, NumbersAre
  <2>3. Number(j) \notin DOMAIN objects
    BY <1>2, <2>2
  <2> QED BY <1>2, <1>4, <2>2, <2>3 DEF Leaf
<1>5. \A j \in 1 .. Stop - 1 : ~Again(j) => Leaf(j) = call.selected[j]
  BY DEF Leaf
<1>6. to \in Int
  BY <1>2, NumbersAre
<1> HIDE DEF to
<1>7. ASSUME NEW j \in 1 .. Stop - 1
      PROVE  /\ Leaf(j) \in Int /\ Leaf(j) > 0 /\ Leaf(j) # catalog
             /\ Leaf(j) \in DOMAIN objects => ~objects[Leaf(j)].has_kids
             /\ Leaf(j) \in DOMAIN objects \/ Leaf(j) \in last + 1 .. to
  <2>1. CASE Again(j)
    <3>1. Leaf(j) \in last + 1 .. to
      BY <1>2, <1>4, <1>6, <2>1
    <3> QED BY <1>2, <1>4, <2>1, <3>1
  <2>2. CASE ~Again(j)
    BY <1>3, <1>5, <2>2
  <2> QED BY <2>1, <2>2
<1>8. ASSUME NEW i \in 1 .. Stop - 1, NEW j \in 1 .. Stop - 1, i < j PROVE Leaf(i) # Leaf(j)
  <2>1. CASE Again(j) /\ Again(i)
    <3>1. Number(i) < Number(j)
      BY <1>8, <2>1, NumbersAre
    <3> QED BY <1>4, <2>1, <3>1
  <2>2. CASE Again(j) /\ ~Again(i)
    BY <1>3, <1>4, <1>5, <2>2
  <2>3. CASE ~Again(j) /\ Again(i)
    BY <1>3, <1>4, <1>5, <2>3
  <2>4. CASE ~Again(j) /\ ~Again(i)
    <3>1. i \in 1 .. j - 1
      BY <1>1, <1>8
    <3>2. call.selected[i] # call.selected[j]
      BY <2>4, <3>1 DEF Again
    <3> QED BY <1>5, <2>4, <3>2
  <2> QED BY <2>1, <2>2, <2>3, <2>4
<1>9. ASSUME NEW i \in 1 .. Stop - 1, NEW j \in 1 .. Stop - 1, Leaf(i) = Leaf(j) PROVE i = j
  <2>1. i \in Int /\ j \in Int
    BY <1>1
  <2>2. ~(i < j) /\ ~(j < i)
    BY <1>8, <1>9
  <2> QED BY <2>1, <2>2
<1> QED BY <1>7, <1>9 DEF to

(* What the document is once the pages selected have their attributes.     *)
LEMMA MaterializedIs ==
    ASSUME Rebuilding, NEW some, NEW m, m = Materialized(Promoted(some), Stop)
    PROVE  /\ AreDictionaries(m, Number(Stop - 1))
           /\ DOMAIN m = DOMAIN objects \cup {Leaf(j) : j \in 1 .. Stop - 1}
           /\ \A n \in DOMAIN objects : m[n].has_kids = objects[n].has_kids
           /\ \A j \in 1 .. Stop - 1 : ~m[Leaf(j)].has_kids
<1> DEFINE P == Promoted(some)
           L == {Leaf(j) : j \in 1 .. Stop - 1}
           at(n) == CHOOSE j \in 1 .. Stop - 1 : Leaf(j) = n
           f == [n \in L |-> WithInherited(P, at(n))]
           to == Number(Stop - 1)
<1>1. /\ last \in Nat /\ MaxNumber \in Nat /\ last \in 0 .. MaxNumber /\ AreDictionaries(objects, last)
      /\ DOMAIN objects \subseteq Ids \ {0} /\ to \in Nat /\ last <= to
  <2>1. /\ last \in Nat /\ MaxNumber \in Nat /\ last <= MaxNumber /\ AreDictionaries(objects, last)
        /\ DOMAIN objects \subseteq Ids \ {0}
    BY DEF Rebuilding
  <2>2. to \in last .. MaxNumber
    BY NumbersAre
  <2> QED BY <2>1, <2>2
<1>2. /\ AreDictionaries(P, last) /\ DOMAIN P = DOMAIN objects
      /\ \A n \in DOMAIN objects : P[n].has_kids = objects[n].has_kids
      /\ \A n \in DOMAIN objects : DOMAIN P[n].attrs = DOMAIN objects[n].attrs
  BY <1>1, PromotedIs DEF SameTree
<1>3. m = Over(f, P)
  BY DEF Materialized
<1> HIDE DEF P, L, at, f, to
<1>4. DOMAIN f = L /\ \A n \in L : f[n] = WithInherited(P, at(n))
  BY DEF f
<1>5. ASSUME NEW j \in 1 .. Stop - 1
      PROVE  IsDictionary(WithInherited(P, j), DOMAIN objects) /\ ~WithInherited(P, j).has_kids
  <2> DEFINE n == call.selected[j]
  <2>1. n \in DOMAIN objects /\ ~objects[n].has_kids
    <3>1. j \in DOMAIN call.selected
      BY StopIs DEF Rebuilding
    <3>2. n \in Elements(call.selected)
      BY <3>1 DEF Elements
    <3> QED BY <3>2 DEF Rebuilding, IsLeaf
  <2> DEFINE a == Over(P[n].attrs, Inherited(P, n))
  <2>2. WithInherited(P, j) = [P[n] EXCEPT !.attrs = a]
    BY DEF WithInherited
  <2> HIDE DEF n
  <2>3. IsDictionary(P[n], DOMAIN objects) /\ P[n] \in Node /\ ~P[n].has_kids
    BY <1>2, <2>1 DEF AreDictionaries, IsDictionary
  <2>4. P[n].attrs \in AttrSet
    BY <2>3, NodeIs
  <2>5. Inherited(P, n) \in AttrSet
    BY <1>1, <1>2, <2>1, InheritedIs
  <2>6. a \in AttrSet
    BY <2>4, <2>5, MergedAttrs
  <2> HIDE DEF a
  <2>7. IsDictionary([P[n] EXCEPT !.attrs = a], DOMAIN objects)
    BY <2>3, <2>6, DictionaryAttrs
  <2>8. ~[P[n] EXCEPT !.attrs = a].has_kids
    BY <2>3, NodeIs
  <2> QED BY <2>2, <2>7, <2>8
<1>6. ASSUME NEW n \in L PROVE at(n) \in 1 .. Stop - 1 /\ Leaf(at(n)) = n
  <2>1. \E j \in 1 .. Stop - 1 : Leaf(j) = n
    BY DEF L
  <2> QED BY <2>1 DEF at
<1>7. \A n \in L : IsDictionary(f[n], DOMAIN objects) /\ ~f[n].has_kids
  BY <1>4, <1>5, <1>6
<1>8. DOMAIN m = DOMAIN objects \cup L
      /\ (\A n \in L : m[n] = f[n]) /\ (\A n \in DOMAIN objects : n \notin L => m[n] = P[n])
  BY <1>2, <1>3, <1>4 DEF Over
<1>9. \A n \in DOMAIN objects : m[n].has_kids = objects[n].has_kids
  <2>1. ASSUME NEW n \in DOMAIN objects, n \in L PROVE ~objects[n].has_kids
    <3>1. PICK j \in 1 .. Stop - 1 : Leaf(j) = n
      BY <2>1 DEF L
    <3> QED BY <3>1, LeafsAre
  <2>2. \A n \in DOMAIN objects : objects[n].has_kids \in BOOLEAN
    BY <1>1 DEF AreDictionaries, IsDictionary, Node
  <2>3. \A n \in L : m[n].has_kids = FALSE
    <3>1. \A n \in L : f[n].has_kids \in BOOLEAN
      BY <1>7 DEF IsDictionary, Node
    <3> QED BY <1>7, <1>8, <3>1
  <2> QED BY <1>2, <1>8, <2>1, <2>2, <2>3
<1>10. AreDictionaries(m, to)
  <2>1. ASSUME NEW n \in DOMAIN m PROVE n \in ((-MaxNumber) .. to) \ {0}
    <3>1. \A k \in DOMAIN objects : k \in ((-MaxNumber) .. to) \ {0}
      BY <1>1 DEF AreDictionaries
    <3>2. CASE n \in L
      <4>1. PICK j \in 1 .. Stop - 1 : Leaf(j) = n
        BY <3>2 DEF L
      <4>2. n \in DOMAIN objects \/ n \in last + 1 .. to
        BY <4>1, LeafsAre DEF to
      <4> QED BY <1>1, <3>1, <4>2
    <3> QED BY <1>8, <3>1, <3>2
  <2>2. ASSUME NEW n \in DOMAIN m PROVE IsDictionary(m[n], DOMAIN m)
    <3>1. IsDictionary(m[n], DOMAIN objects)
      BY <1>2, <1>7, <1>8 DEF AreDictionaries
    <3> QED BY <1>8, <3>1, DictionaryMore
  <2> QED BY <2>1, <2>2 DEF AreDictionaries
<1>11. \A j \in 1 .. Stop - 1 : ~m[Leaf(j)].has_kids
  BY <1>7, <1>8 DEF L
<1> QED BY <1>8, <1>9, <1>10, <1>11 DEF L, to

(* The record of the root in the tree that is made.                        *)
RootOf(d, list, a) ==
    [d EXCEPT !.kids = list, !.has_kids = TRUE, !.type = "Pages", !.count = Len(list), !.parent = 0, !.attrs = a]

LEMMA RootOfIs ==
    ASSUME NEW D \in SUBSET Ids, NEW d, IsDictionary(d, D), NEW list \in Seq(D), NEW a \in AttrSet
    PROVE  /\ IsDictionary(RootOf(d, list, a), D)
           /\ RootOf(d, list, a).kids = list /\ RootOf(d, list, a).has_kids /\ RootOf(d, list, a).type = "Pages"
           /\ RootOf(d, list, a).count = Len(list) /\ RootOf(d, list, a).attrs = a
<1>1. d \in Node /\ list \in Seq(Ids) /\ Len(list) \in Int /\ 0 \in Ids /\ Elements(list) \subseteq D
  <2>1. d \in Node
    BY DEF IsDictionary
  <2>2. 0 \in Ids
    BY NumbersAssumption DEF Ids
  <2>3. Elements(list) \subseteq D
    BY DEF Elements
  <2> QED BY <2>1, <2>2, <2>3
<1> DEFINE e == RootOf(d, list, a)
<1>2. /\ e.kids = list /\ e.has_kids = TRUE /\ e.type = "Pages" /\ e.count = Len(list) /\ e.parent = 0
      /\ e.attrs = a /\ e \in Node
  BY <1>1, NodeIs DEF RootOf
<1> HIDE DEF e
<1>3. IsDictionary(e, D)
  BY <1>1, <1>2 DEF IsDictionary
<1> QED BY <1>2, <1>3 DEF e

LEMMA StrippedIs ==
    ASSUME NEW a \in AttrSet, NEW n
    PROVE  Stripped(a, n) \in AttrSet /\ (n \in TreeNodes => DOMAIN Stripped(a, n) = {})
<1>1. DOMAIN <<>> = {}
  OBVIOUS
<1> QED BY <1>1, NoAttrs DEF Stripped

(* The tree that is made of the pages selected.                            *)
Leaves == [j \in DOMAIN call.selected |-> Leaf(j)]
RebuiltTo(o, list) ==
    /\ AreDictionaries(o, Number(Stop - 1))
    /\ DOMAIN objects \subseteq DOMAIN o
    /\ list \in Seq(DOMAIN o)
    /\ OwnPages(o, list)
    /\ Len(list) = Len(call.selected)
    /\ o[catalog].kids = list /\ o[catalog].has_kids /\ o[catalog].type = "Pages"
    /\ IsPages(catalog) => DOMAIN o[catalog].attrs = {}
    /\ o[catalog].count = Len(list)
    /\ \A n \in Elements(list) : o[n].parent = catalog

LEMMA RebuiltIs ==
    ASSUME Rebuilding, Stop = Len(call.selected) + 1, NEW some, NEW m, m = Materialized(Promoted(some), Stop),
           NEW list, list = Leaves, NEW o, o = Rebuilt(m)
    PROVE  RebuiltTo(o, list)
<1> DEFINE to == Number(Stop - 1)
           N == Len(call.selected)
           L == {Leaf(j) : j \in 1 .. Stop - 1}
           picked(n) == \E j \in DOMAIN call.selected : Leaf(j) = n
<1>1. N \in Nat /\ DOMAIN call.selected = 1 .. N /\ 1 .. Stop - 1 = 1 .. N
  BY DEF Rebuilding
<1>2. /\ AreDictionaries(m, to) /\ DOMAIN m = DOMAIN objects \cup L
      /\ \A n \in DOMAIN objects : m[n].has_kids = objects[n].has_kids
      /\ \A j \in 1 .. N : ~m[Leaf(j)].has_kids
  BY <1>1, MaterializedIs
<1>3. /\ \A j \in 1 .. N : Leaf(j) > 0 /\ Leaf(j) # catalog /\ Leaf(j) \in L
      /\ \A i, j \in 1 .. N : Leaf(i) = Leaf(j) => i = j
  <2>1. \A j \in 1 .. N : Leaf(j) > 0 /\ Leaf(j) # catalog
    BY <1>1, LeafsAre
  <2>2. \A i, j \in 1 .. N : Leaf(i) = Leaf(j) => i = j
    BY <1>1, LeafsAre
  <2> QED BY <1>1, <2>1, <2>2
<1>4. catalog \in DOMAIN objects /\ DOMAIN objects \subseteq Ids /\ last \in 0 .. MaxNumber /\ AreDictionaries(objects, last)
  BY DEF Rebuilding
<1>5. DOMAIN m \subseteq Ids
  <2>1. to \in last .. MaxNumber
    BY NumbersAre
  <2> QED BY <1>2, <1>4, <2>1, NumbersAssumption DEF AreDictionaries, Ids
<1>6. list \in Seq(DOMAIN m) /\ Len(list) = N /\ \A j \in 1 .. N : list[j] = Leaf(j)
  <2>1. list \in [1 .. N -> DOMAIN m]
    BY <1>1, <1>2, <1>3 DEF Leaves
  <2> QED BY <1>1, <2>1 DEF Leaves
<1>7. \A n \in DOMAIN m : picked(n) => n \in L
  BY <1>1
<1> DEFINE strip(n) == [m[n] EXCEPT !.attrs = Stripped(@, n)]
           bare == Stripped(m[catalog].attrs, catalog)
           root == RootOf(m[catalog], list, bare)
           d(n) == IF n = catalog THEN root
                   ELSE IF picked(n) THEN [m[n] EXCEPT !.parent = catalog]
                   ELSE strip(n)
<1>8. o = [n \in DOMAIN m |-> d(n)]
  <2>1. root = [m[catalog] EXCEPT !.kids = [j \in DOMAIN call.selected |-> Leaf(j)], !.has_kids = TRUE, !.type = "Pages",
                                  !.count = Len(call.selected), !.parent = 0, !.attrs = Stripped(@, catalog)]
    BY <1>6 DEF RootOf, Leaves
  <2> HIDE DEF root
  <2> QED BY <2>1 DEF Rebuilt
<1>9. \A n \in DOMAIN m : m[n].attrs \in AttrSet
  BY <1>2, NodeIs DEF AreDictionaries, IsDictionary
<1>10. /\ IsDictionary(root, DOMAIN m) /\ root.kids = list /\ root.has_kids /\ root.type = "Pages"
       /\ root.count = Len(list) /\ (IsPages(catalog) => DOMAIN root.attrs = {})
  <2>1. IsDictionary(m[catalog], DOMAIN m) /\ catalog \in DOMAIN m
    BY <1>2, <1>4 DEF AreDictionaries
  <2>2. bare \in AttrSet /\ (IsPages(catalog) => DOMAIN bare = {})
    <3>1. m[catalog].attrs \in AttrSet
      BY <1>9, <2>1
    <3>2. IsPages(catalog) => catalog \in TreeNodes
      BY <1>4, TreeNodesAre
    <3> QED BY <3>1, <3>2, StrippedIs
  <2> HIDE DEF bare
  <2> QED BY <1>5, <1>6, <2>1, <2>2, RootOfIs
<1> HIDE DEF root, L, picked
<1>11. ASSUME NEW n \in DOMAIN m
       PROVE  /\ IsDictionary(d(n), DOMAIN m)
              /\ picked(n) => d(n).parent = catalog /\ d(n).has_kids = m[n].has_kids
  <2>1. IsDictionary(m[n], DOMAIN m) /\ m[n] \in Node
    BY <1>2 DEF AreDictionaries, IsDictionary
  <2>2. catalog \in DOMAIN m
    BY <1>2, <1>4
  <2>3. CASE n = catalog
    <3>1. ~picked(n)
      BY <1>1, <1>3, <2>3 DEF picked
    <3> QED BY <1>10, <2>3, <3>1
  <2>4. CASE n # catalog /\ picked(n)
    <3>1. IsDictionary([m[n] EXCEPT !.parent = catalog], DOMAIN m)
      BY <1>5, <2>1, <2>2, DictionaryParent
    <3>2. [m[n] EXCEPT !.parent = catalog].parent = catalog /\ [m[n] EXCEPT !.parent = catalog].has_kids = m[n].has_kids
      BY <2>1, NodeIs
    <3> QED BY <2>4, <3>1, <3>2
  <2>5. CASE n # catalog /\ ~picked(n)
    <3> DEFINE a == Stripped(m[n].attrs, n)
    <3>1. a \in AttrSet
      BY <1>9, StrippedIs
    <3>2. strip(n) = [m[n] EXCEPT !.attrs = a]
      OBVIOUS
    <3> HIDE DEF a, strip
    <3>3. IsDictionary(strip(n), DOMAIN m)
      BY <2>1, <3>1, <3>2, DictionaryAttrs
    <3> QED BY <2>5, <3>3
  <2> QED BY <2>3, <2>4, <2>5
<1>12. d(catalog) = root
  OBVIOUS
<1> HIDE DEF d
<1>13. DOMAIN o = DOMAIN m /\ \A n \in DOMAIN m : o[n] = d(n)
  BY <1>8
<1>14. o[catalog] = root
  BY <1>2, <1>4, <1>12, <1>13
<1>15. AreDictionaries(o, to)
  BY <1>2, <1>11, <1>13 DEF AreDictionaries
<1>16. \A n \in Elements(list) : n \in DOMAIN o /\ n > 0 /\ ~o[n].has_kids /\ o[n].parent = catalog
  <2> SUFFICES ASSUME NEW j \in 1 .. N
               PROVE  Leaf(j) \in DOMAIN o /\ Leaf(j) > 0 /\ ~o[Leaf(j)].has_kids /\ o[Leaf(j)].parent = catalog
    BY <1>1, <1>6 DEF Elements
  <2>1. Leaf(j) \in DOMAIN m /\ picked(Leaf(j)) /\ Leaf(j) > 0
    BY <1>1, <1>2, <1>3 DEF picked
  <2> QED BY <1>2, <1>11, <1>13, <2>1
<1>17. OwnPages(o, list)
  <2>1. \A i, j \in DOMAIN list : list[i] = list[j] => i = j
    BY <1>1, <1>3, <1>6
  <2> QED BY <1>16, <2>1 DEF OwnPages, IsLeaf
<1>18. list \in Seq(DOMAIN o) /\ DOMAIN objects \subseteq DOMAIN o
  BY <1>2, <1>6, <1>13
<1> QED BY <1>6, <1>10, <1>14, <1>15, <1>16, <1>17, <1>18 DEF to, RebuiltTo

LEMMA DocumentReaches ==
    ASSUME NEW o, NEW i \in Int, NEW j \in Int, i <= j, AreDictionaries(o, i)
    PROVE  AreDictionaries(o, j)
<1>1. ASSUME NEW m \in DOMAIN o PROVE m \in ((-MaxNumber) .. j) \ {0}
  <2>1. m \in ((-MaxNumber) .. i) \ {0}
    BY DEF AreDictionaries
  <2> QED BY <2>1, NumbersAssumption
<1> QED BY <1>1 DEF AreDictionaries

(* A call that fails after a change of the tree forgets what was known.    *)
LEMMA Forgotten ==
    ASSUME PageInv, call.phase = "edit", UNCHANGED <<catalog, stale>>, Invalidated, NEW why \in Outcomes, Finish(why),
           last' \in 0 .. MaxNumber, AreDictionaries(objects', last'), catalog \in DOMAIN objects'
    PROVE  PageInv' /\ call'.outcome = why
<1>1. call \in CallSet /\ stale \in BOOLEAN
  BY DEF PageInv, CallInv, DocInv
<1>2. CallInv' /\ WalkTypes' /\ PhaseInv' /\ call'.outcome = why
  BY <1>1, FinishKeeps
<1>3. NoCache = [root |-> NoCache.root, pages |-> NoCache.pages] /\ NoCache.pages = <<>>
  BY DEF NoCache
<1>4. cache' = NoCache /\ flattened' = FALSE
  BY DEF Invalidated
<1>5. NoCache.pages \in Seq(DOMAIN objects')
  BY <1>3
<1>6. DocInv'
  BY <1>1, <1>3, <1>4, <1>5 DEF DocInv
<1>7. CacheInv' /\ FlatInv'
  BY <1>3, <1>4 DEF CacheInv, FlatInv
<1> QED BY <1>2, <1>6, <1>7 DEF PageInv

LEMMA RebuildKeeps ==
    ASSUME PageInv, rebuild_page_tree
    PROVE  PageInv' /\ Exactly /\ Bared
<1>1. call.phase = "edit" /\ UNCHANGED <<catalog, stale>>
  BY DEF rebuild_page_tree
<1>2. /\ last \in 0 .. MaxNumber /\ last \in Nat /\ MaxNumber \in Nat /\ last <= MaxNumber
      /\ catalog \in DOMAIN objects /\ AreDictionaries(objects, last)
  BY NumbersAssumption DEF PageInv, DocInv
<1>3. DOMAIN objects \subseteq Ids \ {0}
  BY <1>2, DocumentFinite
<1>4. call.selected \in Seq(Int) /\ \A n \in Elements(call.selected) : IsLeaf(objects, n) /\ n # catalog
  BY <1>1 DEF PageInv, CallInv, CallSet, GivenOf, Idle
<1>6. CASE last + Cardinality(DirectValues) > MaxNumber
  <2>1. PICK some : objects' = Promoted(some)
    BY <1>6 DEF rebuild_page_tree
  <2>2. last' = MaxNumber /\ Invalidated /\ Finish("numbers")
    BY <1>6 DEF rebuild_page_tree
  <2>3. AreDictionaries(objects', last) /\ DOMAIN objects' = DOMAIN objects
    BY <1>2, <2>1, PromotedIs DEF SameTree
  <2>4. AreDictionaries(objects', MaxNumber)
    BY <1>2, <2>3, DocumentReaches
  <2>5. PageInv' /\ call'.outcome = "numbers"
    <3>1. last' \in 0 .. MaxNumber /\ AreDictionaries(objects', last') /\ catalog \in DOMAIN objects'
      BY <1>2, <2>2, <2>3, <2>4
    <3> QED BY <1>1, <2>2, <3>1, Forgotten DEF Outcomes
  <2> QED BY <2>2, <2>5 DEF Exactly, Bared, Invalidated
<1>7. CASE ~(last + Cardinality(DirectValues) > MaxNumber)
  <2>1. Rebuilding
    <3>1. Cardinality(DirectValues) \in Nat
      <4>1. Cardinality(Promotions(0)) \in Nat /\ Promotions(0) = DirectValues
        <5>1. last \in 0 .. MaxNumber /\ AreDictionaries(objects, last) /\ catalog \in DOMAIN objects
          BY <1>2
        <5>2. \E n \in Nat : n = 0 /\ \A i \in 1 .. n : call.selected[i] \in DOMAIN objects
          OBVIOUS
        <5> QED BY <5>1, <5>2, PromotionsAre
      <4> QED BY <4>1
    <3> QED BY <1>2, <1>3, <1>4, <1>7, <3>1 DEF Rebuilding
  <2>2. Number(Stop - 1) \in last .. MaxNumber
    BY <2>1, NumbersAre
  <2>3. Stop \in 1 .. Len(call.selected) + 1
    BY <1>4, StopIs
  <2>4. CASE /\ Stop <= Len(call.selected)
             /\ \E o \in {Promoted(some) : some \in HalfPromoted(Stop)} : objects' = Materialized(o, Stop)
             /\ last' = IF IsPage(Stop) THEN MaxNumber ELSE Number(Stop - 1)
             /\ Invalidated
             /\ Finish(IF IsPage(Stop) THEN "numbers" ELSE "missing")
    <3>1. PICK some : objects' = Materialized(Promoted(some), Stop)
      BY <2>4
    <3>2. AreDictionaries(objects', Number(Stop - 1)) /\ catalog \in DOMAIN objects'
      BY <1>2, <2>1, <3>1, MaterializedIs
    <3>3. PICK why \in {"numbers", "missing"} : Finish(why)
      BY <2>4
    <3>4. last' \in 0 .. MaxNumber /\ AreDictionaries(objects', last')
      <4>1. CASE IsPage(Stop)
        <5>1. last' = MaxNumber
          BY <2>4, <4>1
        <5> QED BY <1>2, <2>2, <3>2, <5>1, DocumentReaches
      <4>2. CASE ~IsPage(Stop)
        BY <1>2, <2>2, <2>4, <3>2, <4>2
      <4> QED BY <4>1, <4>2
    <3>5. PageInv' /\ call'.outcome = why
      BY <1>1, <2>4, <3>2, <3>3, <3>4, Forgotten DEF Outcomes
    <3> QED BY <2>4, <3>5 DEF Exactly, Bared, Invalidated
  <2>5. CASE /\ Stop > Len(call.selected)
             /\ last' = Number(Stop - 1)
             /\ \E o \in {Promoted(Promotions(Stop - 1))} : \E m \in {Materialized(o, Stop)} : objects' = Rebuilt(m)
             /\ cache' = IF call.selected = <<>> THEN NoCache
                         ELSE [root |-> catalog, pages |-> [j \in DOMAIN call.selected |-> Leaf(j)]]
             /\ flattened' = (call.selected # <<>>)
             /\ Finish("ok")
    <3>8. PICK m : m = Materialized(Promoted(Promotions(Stop - 1)), Stop)
      OBVIOUS
    <3>9. PICK list : list = Leaves
      OBVIOUS
    <3>10. PICK o : o = Rebuilt(m)
      OBVIOUS
    <3>1. /\ objects' = o /\ Finish("ok")
          /\ cache' = IF call.selected = <<>> THEN NoCache ELSE [root |-> catalog, pages |-> list]
          /\ flattened' = (call.selected # <<>>) /\ last' = Number(Stop - 1)
      BY <2>5, <3>8, <3>9, <3>10 DEF Leaves
    <3>2. Stop = Len(call.selected) + 1
      BY <1>4, <2>3, <2>5
    <3>3. RebuiltTo(o, list)
      BY <2>1, <3>2, <3>8, <3>9, <3>10, RebuiltIs
    <3>4. \/ Invalidated
          \/ cache' = [root |-> catalog, pages |-> list] /\ flattened' = TRUE /\ list # <<>>
      <4>1. CASE call.selected = <<>>
        BY <3>1, <4>1 DEF Invalidated
      <4>2. CASE call.selected # <<>>
        <5>1. Len(call.selected) > 0
          BY <1>4, <4>2
        <5>2. list # <<>>
          BY <3>3, <5>1 DEF RebuiltTo
        <5> QED BY <3>1, <4>2, <5>2
      <4> QED BY <4>1, <4>2
    <3>5. PageInv'
      <4>1. /\ AreDictionaries(objects', last') /\ DOMAIN objects \subseteq DOMAIN objects'
            /\ list \in Seq(DOMAIN objects') /\ OwnPages(objects', list) /\ objects'[catalog].kids = list
            /\ objects'[catalog].has_kids
        BY <3>1, <3>3 DEF RebuiltTo
      <4>2. last' \in 0 .. MaxNumber
        BY <1>2, <2>2, <3>1
      <4>3. \A n \in Elements(list) : objects'[n].parent = catalog
        BY <3>1, <3>3 DEF RebuiltTo
      <4> QED BY <1>1, <3>1, <3>4, <4>1, <4>2, <4>3, EditedKeeps
    <3>6. Exactly
      BY <1>1, <3>1, <3>3 DEF Exactly, RebuiltTo
    <3>7. Bared
      BY <3>1, <3>3 DEF Bared, RebuiltTo
    <3> QED BY <3>5, <3>6, <3>7
  <2> QED BY <1>7, <2>4, <2>5 DEF rebuild_page_tree
<1> QED BY <1>6, <1>7

-----------------------------------------------------------------------------
(* Every step.                                                             *)

(* What a call may be given.                                               *)
MayBeGiven(n) == IsLeaf(objects, n) /\ n # IF cache.pages # <<>> THEN catalog ELSE PageTreeRoot(catalog)

LEMMA StartedWell ==
    ASSUME PageInv, NEW op \in Ops, NEW page \in Int, NEW new \in NewPages \cup {Blank}, NEW index \in Int,
           NEW other \in Int, NEW selected \in Seq(Int), Start(op, page, new, index, other, selected),
           page # 0 => MayBeGiven(page), \A n \in Elements(selected) : MayBeGiven(n)
    PROVE  PageInv'
<1>1. \A n \in ({page} \ {0}) \cup Elements(selected) :
         IsLeaf(objects, n) /\ n # IF cache.pages # <<>> THEN catalog ELSE PageTreeRoot(catalog)
  BY DEF MayBeGiven
<1> QED BY <1>1, StartKeeps

LEMMA ClientKeeps ==
    ASSUME PageInv, Client
    PROVE  PageInv'
<1>1. Blank \in NewPages \cup {Blank} /\ <<>> \in Seq(Int) /\ Elements(<<>>) = {}
  BY DEF Elements
<1> DEFINE None == <<>>
<1>0. None \in Seq(Int) /\ \A n \in Elements(None) : MayBeGiven(n)
  BY <1>1
<1> HIDE DEF None
<1>2. ASSUME NEW op \in Ops, Start(op, 0, Blank, 0, 0, <<>>) PROVE PageInv'
  <2>1. PICK page \in Int : page = 0
    OBVIOUS
  <2>2. Start(op, page, Blank, page, page, None)
    BY <1>2, <2>1 DEF None
  <2>3. page # 0 => MayBeGiven(page)
    BY <2>1
  <2> QED BY <1>0, <1>1, <2>2, <2>3, StartedWell
<1>3. ASSUME NEW op \in Ops, NEW g \in Given, NEW index \in Int, NEW other \in Int,
             Start(op, g[1], g[2], index, other, <<>>)
      PROVE  PageInv'
  <2>1. g[1] \in Int /\ g[2] \in NewPages \cup {Blank}
    BY GivenIs
  <2>2. g[1] # 0 => MayBeGiven(g[1])
    BY GivenIs DEF MayBeGiven
  <2>3. Start(op, g[1], g[2], index, other, None)
    BY <1>3 DEF None
  <2> QED BY <1>0, <2>1, <2>2, <2>3, StartedWell
<1>4. EndIndex \in Int
  BY DEF EndIndex, PageInv, DocInv, AreDictionaries, IsDictionary, Node
<1>5. CASE get_all_pages
  BY <1>2, <1>5 DEF get_all_pages, Ops
<1>6. CASE push_inherited_attributes_to_pages
  BY <1>2, <1>6 DEF push_inherited_attributes_to_pages, Ops
<1>7. ASSUME NEW g \in Given, NEW first \in BOOLEAN, add_page(g, first) PROVE PageInv'
  <2>1. PICK index : index = IF first THEN 0 ELSE EndIndex
    OBVIOUS
  <2>2. PICK other : other = IF first THEN 0 ELSE ToEnd
    OBVIOUS
  <2>3. Start("add_page", g[1], g[2], index, other, <<>>)
    BY <1>7, <2>1, <2>2 DEF add_page
  <2>4. index \in Int /\ other \in Int /\ "add_page" \in Ops
    BY <1>4, <2>1, <2>2 DEF Ops, Edits, ToEnd
  <2> QED BY <1>3, <2>3, <2>4
<1>8. ASSUME NEW g \in Given, NEW before \in BOOLEAN, NEW ref \in Listed, add_page_at(g, before, ref) PROVE PageInv'
  <2>1. PICK index : index = IF before THEN 0 ELSE 1
    OBVIOUS
  <2>2. Start("add_page_at", g[1], g[2], index, ref, <<>>)
    BY <1>8, <2>1 DEF add_page_at
  <2>3. index \in Int /\ "add_page_at" \in Ops /\ ref \in Int
    BY <2>1, ListedIs DEF Ops, Edits
  <2> QED BY <1>3, <2>2, <2>3
<1>9. ASSUME NEW n \in Listed, RemovePage(n) PROVE PageInv'
  <2>1. Start("remove_page", n, Blank, 0, 0, <<>>) /\ "remove_page" \in Ops /\ n \in Int
    BY <1>9, ListedIs DEF RemovePage, Ops, Edits
  <2>2. MayBeGiven(n)
    BY ListedIs DEF MayBeGiven
  <2>3. PICK zero \in Int : zero = 0
    OBVIOUS
  <2>4. Start("remove_page", n, Blank, zero, zero, None)
    BY <2>1, <2>3 DEF None
  <2> QED BY <1>0, <1>1, <2>1, <2>2, <2>4, StartedWell
<1>10. ASSUME NEW selected \in Selections, Rebuild(selected) PROVE PageInv'
  <2>1. Start("rebuild_page_tree", 0, Blank, 0, 0, selected) /\ "rebuild_page_tree" \in Ops /\ ~stale
    BY <1>10 DEF Rebuild, Start, Ops
  <2>2. selected \in Seq(Int)
    BY <2>1, SelectionIs
  <2>3. \A n \in Elements(selected) : MayBeGiven(n)
    BY <2>1, SelectionIs DEF MayBeGiven
  <2>4. PICK zero \in Int : zero = 0
    OBVIOUS
  <2>5. Start("rebuild_page_tree", zero, Blank, zero, zero, selected) /\ (zero # 0 => MayBeGiven(zero))
    BY <2>1, <2>4
  <2> QED BY <1>1, <2>1, <2>2, <2>3, <2>5, StartedWell
<1> QED BY <1>5, <1>6, <1>7, <1>8, <1>9, <1>10, UpdateKeeps, ChangeKeeps DEF Client

LEMMA InitIs ==
    ASSUME Init
    PROVE  PageInv
<1>1. PICK d \in Documents : objects = d.objects /\ catalog = d.catalog /\ last = d.last
  BY DEF Init
<1>2. last \in 0 .. MaxNumber /\ AreDictionaries(objects, last) /\ catalog \in DOMAIN objects
  BY <1>1, DocumentsAssumption
<1>3. cache = NoCache /\ flattened = FALSE /\ stale = FALSE /\ frames = <<>> /\ pages = <<>>
      /\ met = [seen |-> {}, visited |-> {}] /\ above = Empty
  BY DEF Init
<1>4. NoCache = [root |-> NoCache.root, pages |-> NoCache.pages] /\ NoCache.pages = <<>>
  BY DEF NoCache
<1>5. NoCache.pages \in Seq(DOMAIN objects)
  BY <1>4
<1>6. DocInv
  BY <1>2, <1>3, <1>4, <1>5 DEF DocInv
<1>7. CacheInv /\ FlatInv
  BY <1>3, <1>4 DEF CacheInv, FlatInv
<1>8. call \in CallSet /\ call.phase = "idle"
  <2> DEFINE c == Call("get_all_pages", 0, Blank, 0, 0, <<>>)
  <2>1. <<>> \in Seq(Int) /\ Blank \in NewPages \cup {Blank}
    OBVIOUS
  <2>2. c \in CallSet
    BY <2>1 DEF Call, CallSet, Ops, Phases, Outcomes
  <2>3. call = [c EXCEPT !.phase = "idle", !.outcome = "ok"]
    BY DEF Init
  <2> HIDE DEF c
  <2> QED BY <2>2, <2>3 DEF CallSet, Phases, Outcomes
<1>9. CallInv /\ PhaseInv
  BY <1>8 DEF CallInv, PhaseInv, Idle
<1>10. WalkTypes
  BY <1>3, <1>8, EmptyIs DEF WalkTypes
<1> QED BY <1>6, <1>7, <1>9, <1>10 DEF PageInv

LEMMA NextKeeps ==
    ASSUME PageInv, [Next]_vars
    PROVE  PageInv'
<1>1. CASE Client
  BY <1>1, ClientKeeps
<1>2. CASE prepare_for_optimization
  BY <1>2, FindRootKeeps, RepairNodeKeeps, RepairPageKeeps, RepairUpKeeps DEF prepare_for_optimization
<1>3. CASE push
  BY <1>3, PushKeyKeeps, PushKidKeeps, PushUpKeeps DEF push
<1>4. CASE flatten_pages_tree \/ insert_page \/ remove_page \/ rebuild_page_tree
  BY <1>4, FlattenKeeps, InsertPageKeeps, RemovePageKeeps, RebuildKeeps
<1>5. CASE UNCHANGED vars
  BY <1>5, Kept
<1> QED BY <1>1, <1>2, <1>3, <1>4, <1>5 DEF Next, Work

LEMMA Always == Spec => []PageInv
<1>1. Init => PageInv
  BY InitIs
<1>2. PageInv /\ [Next]_vars => PageInv'
  BY NextKeeps
<1> QED BY <1>1, <1>2, PTL DEF Spec

-----------------------------------------------------------------------------
(* The theorems.                                                           *)

(* The document always has its type, and the lists of pages and the walks  *)
(* over the tree lead to objects that it has.                              *)
THEOREM TypeCorrect == Spec => []TypeOK
<1>1. PageInv => TypeOK
  <2> SUFFICES ASSUME PageInv PROVE TypeOK
    OBVIOUS
  <2>1. DocInv /\ WalkTypes
    BY DEF PageInv
  <2>2. Elements(pages) \cup Elements(cache.pages) \subseteq DOMAIN objects
    BY <2>1 DEF DocInv, WalkTypes, Elements
  <2>3. \A i \in DOMAIN frames : frames[i].node \in DOMAIN objects
    <3>1. CASE call.phase = "repair"
      <4>1. \A i \in DOMAIN frames : frames[i] \in RepairFrames
        BY <2>1, <3>1 DEF WalkTypes
      <4> QED BY <4>1 DEF RepairFrames
    <3>2. CASE call.phase = "push"
      <4>1. \A i \in DOMAIN frames : frames[i] \in PushFrames
        BY <2>1, <3>2 DEF WalkTypes
      <4> QED BY <4>1 DEF PushFrames
    <3>3. CASE call.phase \notin {"repair", "push"}
      BY <2>1, <3>3 DEF WalkTypes
    <3> QED BY <3>1, <3>2, <3>3
  <2> QED BY <2>1, <2>2, <2>3 DEF TypeOK, DocInv
<1> QED BY <1>1, Always, PTL

(* Between calls the cached list is of the tree that the catalog names,    *)
(* without a page twice, and a tree marked as flat is flat, whatever       *)
(* failed in the calls before (page_list_cache, page_tree_flattened).      *)
THEOREM ListRight == Spec => []ListKnown
<1>1. PageInv => ListKnown
  BY DEF PageInv, CacheInv, FlatInv, ListKnown
<1> QED BY <1>1, Always, PTL

(* insert_page, remove_page and rebuild_page_tree leave /Count of the root *)
(* equal to the number of its kids whenever they succeed.                  *)
THEOREM CountRight == Spec => CountExact
<1>1. ASSUME PageInv, Next, call.phase = "edit", call'.outcome = "ok"
      PROVE  objects'[catalog'].count = Len(objects'[catalog'].kids)
  <2>1. ~Client
    BY <1>1 DEF Client, get_all_pages, push_inherited_attributes_to_pages, add_page, add_page_at, RemovePage, Rebuild,
                update_all_pages_cache, ChangeTree, Start, Idle
  <2>2. ~prepare_for_optimization /\ ~push /\ ~flatten_pages_tree
    BY <1>1 DEF prepare_for_optimization, FindRoot, push, flatten_pages_tree
  <2>3. insert_page \/ remove_page \/ rebuild_page_tree
    BY <1>1, <2>1, <2>2 DEF Next, Work
  <2>4. Exactly
    BY <1>1, <2>3, InsertPageKeeps, RemovePageKeeps, RebuildKeeps
  <2> QED BY <1>1, <2>4 DEF Exactly
<1>2. PageInv /\ [Next]_vars =>
        [call.phase = "edit" /\ call'.outcome = "ok" => objects'[catalog'].count = Len(objects'[catalog'].kids)]_vars
  BY <1>1
<1> QED BY <1>2, Always, PTL DEF Spec, CountExact

(* flatten_pages_tree, insert_page, remove_page, rebuild_page_tree: no     *)
(* page of a tree marked flat inherits a thing from a root of /Type        *)
(* /Pages, whatever calls failed before and whichever of the first two     *)
(* made it flat; the other roots keep what they have.                      *)
THEOREM RootBare == Spec => FlatBare
<1> DEFINE A == flattened' /\ (flattened => call.phase = "edit" /\ call.op = "rebuild_page_tree") /\ IsPages(catalog) =>
                    DOMAIN objects'[catalog].attrs = {}
<1>1. ASSUME PageInv, Next PROVE Bared
  <2>1. CASE Client
    <3>1. flattened' => flattened /\ call.phase = "idle"
      BY <2>1 DEF Client, get_all_pages, push_inherited_attributes_to_pages, add_page, add_page_at, RemovePage, Rebuild,
                  update_all_pages_cache, ChangeTree, Start, Idle, Invalidated, known
    <3> QED BY <3>1 DEF Bared
  <2>2. CASE prepare_for_optimization \/ push
    <3>1. flattened' => flattened /\ call.phase # "edit"
      BY <2>2 DEF prepare_for_optimization, FindRoot, RepairNode, RepairPage, RepairUp, push, PushKey, PushKid, PushUp, known
    <3> QED BY <3>1 DEF Bared
  <2>3. CASE flatten_pages_tree \/ insert_page \/ remove_page \/ rebuild_page_tree
    BY <1>1, <2>3, FlattenKeeps, InsertPageKeeps, RemovePageKeeps, RebuildKeeps
  <2> QED BY <1>1, <2>1, <2>2, <2>3 DEF Next, Work
<1>2. PageInv /\ [Next]_vars => [A]_vars
  BY <1>1 DEF Bared
<1> QED BY <1>2, Always, PTL DEF Spec, FlatBare
=============================================================================
