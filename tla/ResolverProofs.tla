--------------------------- MODULE ResolverProofs ---------------------------
(***************************************************************************)
(* Proofs about Resolver. A resolution, however deeply nested, changes the *)
(* cache only in the ways of CacheStep: it gives a value to handles that   *)
(* have none, never one of the client's kinds, and an object of the file   *)
(* only under its own number. What the walk prepares and what a sound      *)
(* object becomes follow from how the frames on the stack are nested: what *)
(* the outermost one owes, and what each of the others was begun for.      *)
(***************************************************************************)
EXTENDS Resolver, TLAPS

(* What a resolution may do to the cache c; the keys of M may lose a value *)
(* of the client.                                                          *)
IsCache(c) ==
    /\ DOMAIN c \subseteq Keys
    /\ \A k \in DOMAIN c : c[k] \in ValueSet /\ (c[k].kind = "read" => c[k].at \in Positions)

ClientKinds == {"new", "reserved"}
OwnNumber(v, k) == objects[v.at].header = k
CacheStep(c, d, M) ==
    /\ IsCache(d)
    /\ DOMAIN c \subseteq DOMAIN d
    /\ \A k \in DOMAIN d : d[k].kind \in ClientKinds => k \in DOMAIN c /\ d[k] = c[k]
    /\ \A k \in DOMAIN c \ M : c[k].kind = "new" => d[k] = c[k]
    /\ \A k \in DOMAIN d : d[k].kind = "read" /\ ~(k \in DOMAIN c /\ d[k] = c[k]) => OwnNumber(d[k], k)

(* A value that a resolution may store.                                    *)
FileValue(v) ==
    v \in ValueSet /\ v.kind \notin ClientKinds /\ (v.kind = "read" => v.at \in Positions)
NotNew(c, k) == k \in DOMAIN c => c[k].kind # "new"

LEMMA ValueFields == ASSUME NEW kind, NEW at PROVE Value(kind, at).kind = kind /\ Value(kind, at).at = at
BY DEF Value

LEMMA FileValues ==
    /\ FileValue(Unresolved)
    /\ FileValue(Null) /\ Null.kind # "read" /\ Unresolved.kind # "read"
    /\ \A p \in Nat : FileValue(Value("member", p))
    /\ \A p \in Positions : FileValue(Value("read", p))
BY NumbersAssumption DEF FileValue, Unresolved, Null, Value, ValueSet, ClientKinds

LEMMA StepRefl == ASSUME NEW c, IsCache(c) PROVE CacheStep(c, c, {})
BY DEF CacheStep

LEMMA StepTrans ==
    ASSUME NEW c, NEW d, NEW e, NEW M, CacheStep(c, d, M), CacheStep(d, e, {}) PROVE CacheStep(c, e, M)
BY DEF CacheStep

LEMMA PutStep ==
    ASSUME NEW c, IsCache(c), NEW k \in Keys, NEW v, FileValue(v), NotNew(c, k),
           v.kind = "read" => OwnNumber(v, k)
    PROVE  CacheStep(c, Put(c, k, v), {}) /\ k \in DOMAIN Put(c, k, v)
<1>1. DOMAIN Put(c, k, v) = DOMAIN c \cup {k}
  BY DEF Put
<1>2. \A x \in DOMAIN c \cup {k} : Put(c, k, v)[x] = IF x = k THEN v ELSE c[x]
  BY DEF Put
<1> QED BY <1>1, <1>2 DEF CacheStep, IsCache, FileValue, NotNew, ClientKinds

LEMMA HandlesStep ==
    ASSUME NEW c, IsCache(c), NEW K \in SUBSET Keys
    PROVE  CacheStep(c, get_object_handle(c, K), {}) /\ K \subseteq DOMAIN get_object_handle(c, K)
<1>1. DOMAIN get_object_handle(c, K) = DOMAIN c \cup K
  BY DEF get_object_handle
<1>2. \A x \in DOMAIN c \cup K : get_object_handle(c, K)[x] = IF x \in DOMAIN c THEN c[x] ELSE Unresolved
  BY DEF get_object_handle
<1> QED BY <1>1, <1>2, FileValues DEF CacheStep, IsCache, FileValue, ClientKinds

LEMMA OrNullStep ==
    ASSUME NEW c, IsCache(c), NEW k \in Keys PROVE CacheStep(c, OrNull(c, k), {})
<1>1. CASE Resolved(c, k)
  BY <1>1, StepRefl DEF OrNull
<1>2. CASE ~Resolved(c, k)
  <2>1. NotNew(c, k)
    BY <1>2, ValueFields DEF Resolved, NotNew, Unresolved
  <2> QED BY <1>2, <2>1, PutStep, FileValues DEF OrNull
<1> QED BY <1>1, <1>2

LEMMA StepWiden ==
    ASSUME NEW c, NEW d, NEW M, CacheStep(c, d, {}) PROVE CacheStep(c, d, M)
BY DEF CacheStep

-----------------------------------------------------------------------------
(* The stack: what a frame says of the cache, and the marks it stands for. *)

FrameSound(f, c) ==
    /\ f.fn \in {"read", "retry", "length"} => f.at \in Positions
    /\ f.fn \in {"stream", "members"} => f.at \in References
    /\ f.fn = "members" => f.at \in DOMAIN c
    /\ f.fn # "resolve" /\ ~f.raw => NotNew(c, f.key)
Frames(s, c) == s \in Seq(FrameSet) /\ \A i \in DOMAIN s : FrameSound(s[i], c)

Marked(f) == f.fn # "resolve" /\ ~f.raw
MarksOf(s, R) ==
    /\ \A i \in DOMAIN s : Marked(s[i]) => s[i].key \in R
    /\ \A x \in R : \E i \in DOMAIN s : Marked(s[i]) /\ s[i].key = x
    /\ \A i, j \in DOMAIN s : Marked(s[i]) /\ Marked(s[j]) /\ s[i].key = s[j].key => i = j

LEMMA FramesKeep ==
    ASSUME NEW s, NEW c, NEW d, NEW M, Frames(s, c), CacheStep(c, d, M) PROVE Frames(s, d)
BY DEF Frames, FrameSound, CacheStep, NotNew, ClientKinds

LEMMA TailElements ==
    ASSUME NEW S, NEW s \in Seq(S), s # <<>>
    PROVE  /\ Tail(s) \in Seq(S)
           /\ s[1] \in S
           /\ Len(s) \in Nat /\ Len(s) # 0
           /\ DOMAIN s = 1 .. Len(s)
           /\ DOMAIN Tail(s) = 1 .. Len(s) - 1
           /\ \A i \in 1 .. Len(s) - 1 : Tail(s)[i] = s[i + 1]
OBVIOUS

LEMMA PushElements ==
    ASSUME NEW S, NEW s \in Seq(S), NEW f \in S
    PROVE  /\ <<f>> \o s \in Seq(S)
           /\ Len(s) \in Nat
           /\ DOMAIN s = 1 .. Len(s)
           /\ DOMAIN (<<f>> \o s) = 1 .. Len(s) + 1
           /\ (<<f>> \o s)[1] = f
           /\ \A i \in 1 .. Len(s) : (<<f>> \o s)[i + 1] = s[i]
OBVIOUS

LEMMA FramesPop ==
    ASSUME NEW s, NEW c, Frames(s, c), s # <<>> PROVE Frames(Tail(s), c)
<1>1. s \in Seq(FrameSet)
  BY DEF Frames
<1>2. \A i \in DOMAIN Tail(s) : i + 1 \in DOMAIN s /\ Tail(s)[i] = s[i + 1]
  BY <1>1, TailElements
<1> QED BY <1>1, <1>2, TailElements DEF Frames

LEMMA FramesPush ==
    ASSUME NEW s, NEW c, Frames(s, c), NEW f \in FrameSet, FrameSound(f, c)
    PROVE  Frames(<<f>> \o s, c)
<1>1. s \in Seq(FrameSet)
  BY DEF Frames
<1> DEFINE t == <<f>> \o s
<1>2. \A i \in DOMAIN t : i = 1 \/ (i - 1 \in DOMAIN s /\ t[i] = s[i - 1])
  <2> SUFFICES ASSUME NEW i \in 1 .. Len(s) + 1, i # 1 PROVE i - 1 \in 1 .. Len(s) /\ t[i] = s[i - 1]
    BY <1>1, PushElements
  <2>1. i - 1 \in 1 .. Len(s) /\ (i - 1) + 1 = i
    BY <1>1, PushElements
  <2> QED BY <1>1, <2>1, PushElements
<1>3. t \in Seq(FrameSet) /\ t[1] = f
  BY <1>1, PushElements
<1>4. \A i \in DOMAIN t : FrameSound(t[i], c)
  <2> SUFFICES ASSUME NEW i \in DOMAIN t PROVE FrameSound(t[i], c)
    OBVIOUS
  <2> QED BY <1>2, <1>3 DEF Frames
<1> QED BY <1>3, <1>4 DEF Frames

LEMMA MarksPop ==
    ASSUME NEW s \in Seq(FrameSet), s # <<>>, NEW R, MarksOf(s, R)
    PROVE  MarksOf(Tail(s), IF Marked(s[1]) THEN R \ {s[1].key} ELSE R)
<1>1. /\ Len(s) \in Nat /\ Len(s) # 0 /\ DOMAIN s = 1 .. Len(s)
      /\ DOMAIN Tail(s) = 1 .. Len(s) - 1
      /\ \A i \in 1 .. Len(s) - 1 : Tail(s)[i] = s[i + 1]
  BY TailElements
<1>2. \A i \in DOMAIN s : i = 1 \/ (i - 1 \in DOMAIN Tail(s) /\ Tail(s)[i - 1] = s[i])
  <2> SUFFICES ASSUME NEW i \in 1 .. Len(s), i # 1
               PROVE  i - 1 \in 1 .. Len(s) - 1 /\ Tail(s)[i - 1] = s[i]
    BY <1>1
  <2>1. i - 1 \in 1 .. Len(s) - 1 /\ (i - 1) + 1 = i
    BY <1>1
  <2> QED BY <1>1, <2>1
<1>3. \A i \in DOMAIN Tail(s) : i + 1 \in DOMAIN s /\ i + 1 # 1 /\ Tail(s)[i] = s[i + 1]
  BY <1>1
<1>4. 1 \in DOMAIN s
  BY <1>1
<1>5. \A i, j \in DOMAIN Tail(s) : i + 1 = j + 1 => i = j
  BY <1>1
<1> DEFINE t == Tail(s)
           Q == IF Marked(s[1]) THEN R \ {s[1].key} ELSE R
<1>6. \A i \in DOMAIN t : Marked(t[i]) => t[i].key \in Q
  BY <1>3, <1>4 DEF MarksOf
<1>7. \A x \in Q : \E i \in DOMAIN t : Marked(t[i]) /\ t[i].key = x
  <2> SUFFICES ASSUME NEW x \in Q PROVE \E i \in DOMAIN t : Marked(t[i]) /\ t[i].key = x
    OBVIOUS
  <2>1. PICK i \in DOMAIN s : Marked(s[i]) /\ s[i].key = x
    BY DEF MarksOf
  <2>2. i # 1
    BY <2>1
  <2> QED BY <1>2, <2>1, <2>2
<1>8. \A i, j \in DOMAIN t : Marked(t[i]) /\ Marked(t[j]) /\ t[i].key = t[j].key => i = j
  BY <1>3, <1>5 DEF MarksOf
<1> QED BY <1>6, <1>7, <1>8 DEF MarksOf

LEMMA MarksPush ==
    ASSUME NEW s \in Seq(FrameSet), NEW R, MarksOf(s, R), NEW f \in FrameSet,
           Marked(f) => f.key \notin R
    PROVE  MarksOf(<<f>> \o s, IF Marked(f) THEN R \cup {f.key} ELSE R)
<1> DEFINE t == <<f>> \o s
<1>1. /\ Len(s) \in Nat /\ DOMAIN s = 1 .. Len(s) /\ DOMAIN t = 1 .. Len(s) + 1
      /\ t[1] = f /\ \A i \in 1 .. Len(s) : t[i + 1] = s[i]
  BY PushElements
<1>2. \A i \in DOMAIN t : i = 1 \/ (i - 1 \in DOMAIN s /\ t[i] = s[i - 1])
  <2> SUFFICES ASSUME NEW i \in 1 .. Len(s) + 1, i # 1 PROVE i - 1 \in 1 .. Len(s) /\ t[i] = s[i - 1]
    BY <1>1
  <2>1. i - 1 \in 1 .. Len(s) /\ (i - 1) + 1 = i
    BY <1>1
  <2> QED BY <1>1, <2>1
<1>3. \A i \in DOMAIN s : i + 1 \in DOMAIN t /\ t[i + 1] = s[i]
  BY <1>1
<1>4. 1 \in DOMAIN t /\ t[1] = f
  BY <1>1
<1>5. \A i, j \in DOMAIN t : i - 1 = j - 1 => i = j
  BY <1>1
<1> DEFINE Q == IF Marked(f) THEN R \cup {f.key} ELSE R
<1> HIDE DEF t
<1>6. \A i \in DOMAIN t : Marked(t[i]) => t[i].key \in Q
  BY <1>2, <1>4 DEF MarksOf
<1>7. \A x \in Q : \E i \in DOMAIN t : Marked(t[i]) /\ t[i].key = x
  BY <1>3, <1>4 DEF MarksOf
<1>8. \A i, j \in DOMAIN t : Marked(t[i]) /\ Marked(t[j]) /\ t[i].key = t[j].key => i = j
  BY <1>2, <1>4, <1>5 DEF MarksOf
<1> QED BY <1>6, <1>7, <1>8 DEF MarksOf, t

-----------------------------------------------------------------------------
(* The inductive invariant.                                                *)

RowsSound(t) ==
    /\ IsTable(t)
    /\ \A k \in DOMAIN t : /\ t[k].type = "uncompressed" => t[k].at \in Positions \cup {0}
                           /\ t[k].type = "compressed" => t[k].at \in References

InputOK == objects \in [Positions -> ObjectSet] /\ attempt_recovery \in BOOLEAN
RowsOK == RowsSound(xref) /\ RowsSound(walk.todo)
SetsOK ==
    /\ default_xref_entries \subseteq References
    /\ allocated \subseteq References /\ AllocatedCached
    /\ resolved_object_streams \subseteq References
    /\ reconstructed_xref \in BOOLEAN /\ fixed_dangling_refs \in BOOLEAN
StackOK == Frames(stack, object_cache) /\ MarksOf(stack, resolving)
ClientOK ==
    /\ edits \in Nat
    /\ op.kind \in {"swap", "exchange"} =>
          op.a \in References \cap DOMAIN object_cache /\ op.b \in References
    /\ op.kind = "exchange" => op.b \in DOMAIN object_cache
    /\ op.kind \in {"swap", "exchange"} => {op.a, op.b} \subseteq edited

ResolverInv ==
    /\ InputOK /\ RowsOK /\ IsCache(object_cache) /\ SetsOK /\ StackOK /\ ClientOK
    /\ LiveUnlessRebuilt /\ ServedUnderOwnNumber

(* The effect of a step of a resolution on the cache, the stack and marks. *)
CompressedRows == {k \in DOMAIN xref : xref[k].type = "compressed"}
Effect ==
    /\ CacheStep(object_cache, object_cache', CompressedRows)
    /\ Frames(stack', object_cache')
    /\ MarksOf(stack', resolving')

LEMMA TopFrame ==
    ASSUME ResolverInv, stack # <<>>
    PROVE  /\ stack \in Seq(FrameSet)
           /\ Top \in FrameSet /\ Top.key \in Keys
           /\ FrameSound(Top, object_cache)
           /\ Marked(Top) => Top.key \in resolving /\ NotNew(object_cache, Top.key)
<1>1. stack \in Seq(FrameSet) /\ 1 \in DOMAIN stack
  BY TailElements DEF ResolverInv, StackOK, Frames
<1>2. Top \in FrameSet
  BY <1>1, TailElements DEF Top
<1> QED BY <1>1, <1>2 DEF ResolverInv, StackOK, Frames, MarksOf, Top, FrameSet, FrameSound, Marked

LEMMA ReturnEffect ==
    ASSUME ResolverInv, stack # <<>>, NEW c, Return(c),
           CacheStep(object_cache, c, CompressedRows),
           Top.fn # "resolve" \/ Top.key \notin resolving
    PROVE  Effect
<1>1. Frames(Tail(stack), c)
  BY FramesPop, FramesKeep DEF ResolverInv, StackOK
<1>2. MarksOf(Tail(stack), IF Marked(Top) THEN resolving \ {Top.key} ELSE resolving)
  BY TopFrame, MarksPop DEF ResolverInv, StackOK, Top
<1>3. resolving' = IF Marked(Top) THEN resolving \ {Top.key} ELSE resolving
  BY DEF Return, Marked
<1> QED BY <1>1, <1>2, <1>3 DEF Return, Effect

(* A frame in place of the top one, with the same mark.                    *)
LEMMA BecomeEffect ==
    ASSUME ResolverInv, stack # <<>>, NEW c, CacheStep(object_cache, c, CompressedRows),
           NEW f \in FrameSet, FrameSound(f, c), f.key = Top.key, Marked(f) <=> Marked(Top)
    PROVE  Frames(Become(f), c) /\ MarksOf(Become(f), resolving)
<1>1. Frames(Tail(stack), c)
  BY FramesPop, FramesKeep DEF ResolverInv, StackOK
<1>2. Frames(Become(f), c)
  BY <1>1, FramesPush DEF Become
<1> DEFINE R == IF Marked(Top) THEN resolving \ {Top.key} ELSE resolving
<1>3. MarksOf(Tail(stack), R)
  BY TopFrame, MarksPop DEF ResolverInv, StackOK, Top
<1>4. Tail(stack) \in Seq(FrameSet)
  BY <1>1 DEF Frames
<1>5. (IF Marked(f) THEN R \cup {f.key} ELSE R) = resolving
  BY TopFrame
<1>6. MarksOf(Become(f), IF Marked(f) THEN R \cup {f.key} ELSE R)
  BY <1>3, <1>4, MarksPush DEF Become
<1> QED BY <1>2, <1>5, <1>6

(* A nested resolution on top.                                             *)
LEMMA NestedEffect ==
    ASSUME NEW s, NEW c, NEW R, Frames(s, c), MarksOf(s, R), NEW k \in References
    PROVE  /\ Frames(<<Frame("resolve", k, 0, FALSE)>> \o s, c)
           /\ MarksOf(<<Frame("resolve", k, 0, FALSE)>> \o s, R)
<1> DEFINE f == Frame("resolve", k, 0, FALSE)
<1>1. f \in FrameSet /\ f.fn = "resolve" /\ ~Marked(f)
  BY NumbersAssumption DEF Frame, FrameSet, Marked, References, Keys
<1>2. FrameSound(f, c)
  BY <1>1 DEF FrameSound
<1> HIDE DEF f
<1>3. Frames(<<f>> \o s, c)
  BY <1>1, <1>2, FramesPush
<1>4. MarksOf(<<f>> \o s, R)
  BY <1>1, MarksPush DEF Frames
<1> QED BY <1>3, <1>4 DEF f

-----------------------------------------------------------------------------
(* The steps of a resolution.                                              *)

LEMMA NumbersAreKeys == References \subseteq Keys /\ References \subseteq Nat /\ Positions \subseteq Nat /\ 0 \in Keys
BY NumbersAssumption DEF References, Keys

LEMMA AlreadyResolvedEffect == ASSUME ResolverInv, AlreadyResolved PROVE Effect
<1>1. stack # <<>> /\ Top.fn = "resolve" /\ ~Marked(Top)
  BY DEF AlreadyResolved, At, Marked
<1>2. Frames(Tail(stack), object_cache)
  BY <1>1, FramesPop DEF ResolverInv, StackOK
<1>3. MarksOf(Tail(stack), resolving)
  BY <1>1, TopFrame, MarksPop DEF ResolverInv, StackOK, Top
<1>4. CacheStep(object_cache, object_cache, CompressedRows)
  BY StepRefl, StepWiden DEF ResolverInv
<1> QED BY <1>2, <1>3, <1>4 DEF AlreadyResolved, Effect

LEMMA LoopDetectedEffect == ASSUME ResolverInv, LoopDetected PROVE Effect
<1>1. stack # <<>> /\ Top.fn = "resolve" /\ ~Marked(Top)
  BY DEF LoopDetected, At, Marked
<1>2. NotNew(object_cache, Top.key)
  BY ValueFields DEF LoopDetected, Resolved, NotNew, Unresolved
<1>3. CacheStep(object_cache, Put(object_cache, Top.key, Null), CompressedRows)
  BY <1>1, <1>2, TopFrame, PutStep, FileValues, StepWiden DEF ResolverInv
<1>4. Frames(Tail(stack), object_cache')
  BY <1>1, <1>3, FramesPop, FramesKeep DEF ResolverInv, StackOK, LoopDetected
<1>5. MarksOf(Tail(stack), resolving)
  BY <1>1, TopFrame, MarksPop DEF ResolverInv, StackOK, Top
<1> QED BY <1>3, <1>4, <1>5 DEF LoopDetected, Effect

(* The frame that begins to resolve the object of the top frame.           *)
LEMMA BeginEffect ==
    ASSUME ResolverInv, stack # <<>>, Top.fn = "resolve", Top.key \notin resolving,
           NEW f \in FrameSet, FrameSound(f, object_cache), f.key = Top.key, Marked(f)
    PROVE  Frames(Become(f), object_cache) /\ MarksOf(Become(f), resolving \cup {Top.key})
<1>1. Frames(Tail(stack), object_cache)
  BY FramesPop DEF ResolverInv, StackOK
<1>2. MarksOf(Tail(stack), resolving)
  BY TopFrame, MarksPop DEF ResolverInv, StackOK, Top, Marked
<1>3. Tail(stack) \in Seq(FrameSet)
  BY <1>1 DEF Frames
<1>4. MarksOf(<<f>> \o Tail(stack), resolving \cup {Top.key})
  BY <1>2, <1>3, MarksPush
<1> QED BY <1>1, <1>4, FramesPush DEF Become

LEMMA DispatchEffect == ASSUME ResolverInv, Dispatch PROVE Effect
<1> DEFINE k == Top.key
<1>1. /\ stack # <<>> /\ Top.fn = "resolve" /\ k \notin resolving
      /\ NotNew(object_cache, k)
  BY ValueFields DEF Dispatch, At, Resolved, NotNew, Unresolved
<1>2. k \in Keys
  BY <1>1, TopFrame
<1>3. CacheStep(object_cache, object_cache, CompressedRows)
  BY StepRefl, StepWiden DEF ResolverInv
<1>4. CASE IsRow(k, "uncompressed") /\ xref[k].at # 0
  <2> DEFINE f == Frame("read", k, xref[k].at, FALSE)
  <2>1. xref[k].at \in Positions
    BY <1>4 DEF ResolverInv, RowsOK, RowsSound, IsRow
  <2>2. f \in FrameSet /\ f.key = k /\ Marked(f) /\ FrameSound(f, object_cache)
    BY <1>1, <1>2, <2>1, NumbersAreKeys DEF Frame, FrameSet, Marked, FrameSound
  <2>3. stack' = Become(f) /\ resolving' = resolving \cup {k} /\ object_cache' = object_cache
    BY <1>4 DEF Dispatch
  <2> HIDE DEF f
  <2>4. Frames(Become(f), object_cache) /\ MarksOf(Become(f), resolving \cup {k})
    BY <1>1, <2>2, BeginEffect
  <2> QED BY <1>3, <2>3, <2>4 DEF Effect
<1>5. CASE ~(IsRow(k, "uncompressed") /\ xref[k].at # 0) /\ IsRow(k, "compressed")
  <2> DEFINE f == Frame("stream", k, xref[k].at, FALSE)
  <2>1. xref[k].at \in References
    BY <1>5 DEF ResolverInv, RowsOK, RowsSound, IsRow
  <2>2. f \in FrameSet /\ f.key = k /\ Marked(f) /\ FrameSound(f, object_cache)
    BY <1>1, <1>2, <2>1, NumbersAreKeys DEF Frame, FrameSet, Marked, FrameSound
  <2>3. stack' = Become(f) /\ resolving' = resolving \cup {k} /\ object_cache' = object_cache
    BY <1>5 DEF Dispatch
  <2> HIDE DEF f
  <2>4. Frames(Become(f), object_cache) /\ MarksOf(Become(f), resolving \cup {k})
    BY <1>1, <2>2, BeginEffect
  <2> QED BY <1>3, <2>3, <2>4 DEF Effect
<1>6. CASE ~(IsRow(k, "uncompressed") /\ xref[k].at # 0) /\ ~IsRow(k, "compressed")
  <2>1. Return(Put(object_cache, k, Null))
    BY <1>6 DEF Dispatch
  <2>2. CacheStep(object_cache, Put(object_cache, k, Null), CompressedRows)
    BY <1>1, <1>2, PutStep, FileValues, StepWiden DEF ResolverInv
  <2> QED BY <1>1, <2>1, <2>2, ReturnEffect
<1> QED BY <1>4, <1>5, <1>6

(* What a caught error and a parsed object do to a cache c.                *)
LEMMA CaughtStep ==
    ASSUME NEW c, IsCache(c), Top.key \in Keys PROVE CacheStep(c, Caught(c), {})
BY StepRefl, OrNullStep DEF Caught

LEMMA ParsedStep ==
    ASSUME NEW c, IsCache(c), NEW ok, Top.key \in Keys, Top.at \in Positions,
           Source.header \in Keys, ~Top.raw => NotNew(c, Top.key)
    PROVE  CacheStep(c, cache_parsed_object(c, ok), {})
<1> DEFINE h == Source.header
           filed == IF Resolved(c, h) THEN c ELSE Put(c, h, Value("read", Top.at))
<1>1. CacheStep(c, filed, {})
  <2>1. CASE Resolved(c, h)
    BY <2>1, StepRefl
  <2>2. CASE ~Resolved(c, h)
    <3>1. NotNew(c, h)
      BY <2>2, ValueFields DEF Resolved, NotNew, Unresolved
    <3>2. OwnNumber(Value("read", Top.at), h)
      BY ValueFields DEF OwnNumber, Source
    <3> QED BY <2>2, <3>1, <3>2, PutStep, FileValues
  <2> QED BY <2>1, <2>2
<1>2. IsCache(filed)
  BY <1>1 DEF CacheStep
<1>3. ~Top.raw => NotNew(filed, Top.key)
  BY <1>1 DEF CacheStep, NotNew, ClientKinds
<1>4. CASE ~ok
  BY <1>4, CaughtStep DEF cache_parsed_object
<1>5. CASE ok /\ (Top.raw \/ h = Top.key)
  BY <1>1, <1>5 DEF cache_parsed_object
<1>6. CASE ok /\ ~Top.raw /\ h # Top.key
  <2>1. cache_parsed_object(c, ok) = Put(filed, Top.key, Null)
    BY <1>6 DEF cache_parsed_object
  <2> HIDE DEF filed
  <2>2. CacheStep(filed, Put(filed, Top.key, Null), {})
    BY <1>2, <1>3, <1>6, PutStep, FileValues
  <2> QED BY <1>1, <2>1, <2>2, StepTrans
<1> QED BY <1>4, <1>5, <1>6

LEMMA ReadHeaderErrorEffect == ASSUME ResolverInv, ReadHeaderError PROVE Effect
<1>1. stack # <<>> /\ Top.fn # "resolve"
  BY DEF ReadHeaderError, At
<1>2. CacheStep(object_cache, Caught(object_cache), CompressedRows)
  BY <1>1, TopFrame, CaughtStep, StepWiden DEF ResolverInv
<1> QED BY <1>1, <1>2, ReturnEffect DEF ReadHeaderError

LEMMA RebuiltRows ==
    ASSUME ResolverInv, NEW last \in LastLines
    PROVE  RowsSound(reconstruct_xref_on_owner(last))
<1> DEFINE old == {j \in DOMAIN xref : xref[j].type # "uncompressed"}
           r == reconstruct_xref_on_owner(last)
<1>1. Found \subseteq References /\ \A k \in Found : last[k] \in Positions
  BY DEF LastLines, Found
<1>2. DOMAIN r = Found \cup old
  BY DEF reconstruct_xref_on_owner
<1>3. \A k \in Found \cup old :
          r[k] = IF k \in Found THEN [type |-> "uncompressed", at |-> last[k]] ELSE xref[k]
  BY DEF reconstruct_xref_on_owner
<1>4. \A k \in Found : r[k] \in EntrySet /\ r[k].type = "uncompressed" /\ r[k].at \in Positions
  <2> SUFFICES ASSUME NEW k \in Found
               PROVE  r[k] \in EntrySet /\ r[k].type = "uncompressed" /\ r[k].at \in Positions
    OBVIOUS
  <2>1. r[k] = [type |-> "uncompressed", at |-> last[k]]
    BY <1>3
  <2>2. last[k] \in Positions /\ last[k] \in Nat
    BY <1>1, NumbersAreKeys
  <2> HIDE DEF r
  <2> QED BY <2>1, <2>2 DEF EntrySet
<1>5. \A k \in old \ Found : k \in DOMAIN xref /\ r[k] = xref[k]
  BY <1>3
<1> HIDE DEF r, old
<1>6. DOMAIN r \subseteq Keys
  BY <1>1, <1>2, <1>5, NumbersAreKeys DEF ResolverInv, RowsOK, RowsSound, IsTable
<1> QED BY <1>2, <1>4, <1>5, <1>6 DEF ResolverInv, RowsOK, RowsSound, IsTable, r

LEMMA ReconstructEffect == ASSUME ResolverInv, ReconstructAndRetry PROVE Effect
<1> DEFINE k == Top.key
<1>1. stack # <<>> /\ Top.fn = "read" /\ k \in Keys /\ Top \in FrameSet
  BY TopFrame DEF ReconstructAndRetry, At
<1>2. ~Top.raw => NotNew(object_cache, k)
  BY <1>1, TopFrame DEF Marked
<1>3. RowsSound(xref')
  BY RebuiltRows DEF ReconstructAndRetry
<1>4. CacheStep(object_cache, object_cache, CompressedRows)
  BY StepRefl, StepWiden DEF ResolverInv
<1>5. CASE k \in DOMAIN xref' /\ xref'[k].type = "uncompressed"
  <2> DEFINE f == Frame("retry", k, xref'[k].at, Top.raw)
  <2>1. stack' = Become(f) /\ object_cache' = object_cache /\ resolving' = resolving
    BY <1>5 DEF ReconstructAndRetry
  <2>2. xref'[k].at \in Positions
    <3>1. PICK last \in LastLines : xref' = reconstruct_xref_on_owner(last)
      BY DEF ReconstructAndRetry
    <3>2. k \in Found
      BY <1>5, <3>1 DEF reconstruct_xref_on_owner
    <3> QED BY <3>1, <3>2 DEF reconstruct_xref_on_owner, LastLines
  <2>3. f \in FrameSet /\ f.key = k /\ (Marked(f) <=> Marked(Top)) /\ FrameSound(f, object_cache)
    BY <1>1, <1>2, <2>2, NumbersAreKeys DEF Frame, FrameSet, Marked, FrameSound
  <2> HIDE DEF f
  <2>4. Frames(Become(f), object_cache) /\ MarksOf(Become(f), resolving)
    BY <1>1, <1>4, <2>3, BecomeEffect
  <2> QED BY <1>4, <2>1, <2>4 DEF Effect
<1>6. CASE ~(k \in DOMAIN xref' /\ xref'[k].type = "uncompressed")
  <2> DEFINE c == IF Top.raw THEN object_cache ELSE Put(object_cache, k, Null)
  <2>1. Return(c)
    BY <1>6 DEF ReconstructAndRetry
  <2>2. CacheStep(object_cache, c, CompressedRows)
    BY <1>1, <1>2, <1>4, PutStep, FileValues, StepWiden DEF ResolverInv
  <2> QED BY <1>1, <2>1, <2>2, ReturnEffect
<1> QED BY <1>5, <1>6

(* What the frames of a read say of the object it reads.                   *)
LEMMA SourceObject ==
    ASSUME ResolverInv, At({"read", "retry", "length"})
    PROVE  /\ stack # <<>> /\ Top.fn # "resolve" /\ Top.at \in Positions /\ Source \in ObjectSet
           /\ ~Top.raw => NotNew(object_cache, Top.key)
<1>1. stack # <<>> /\ Top.fn \in {"read", "retry", "length"}
  BY DEF At
<1>2. Top.at \in Positions
  BY <1>1, TopFrame DEF FrameSound
<1> QED BY <1>1, <1>2, TopFrame DEF ResolverInv, InputOK, Source, Marked

LEMMA ReadBodyEffect == ASSUME ResolverInv, ReadBody PROVE Effect
<1> DEFINE indirect == Source.body \in {"stream", "objstm"} /\ Source.length # 0
           K == Source.refs \cup (IF indirect THEN {Source.length} ELSE {})
           c == get_object_handle(object_cache, K)
<1>1. /\ stack # <<>> /\ Top.fn # "resolve" /\ Top.at \in Positions /\ Source \in ObjectSet
      /\ Top.fn \in {"read", "retry"} /\ Top \in FrameSet /\ Top.key \in Keys
      /\ ~Top.raw => NotNew(object_cache, Top.key)
  BY SourceObject, TopFrame DEF ReadBody, At
<1>2. Source.refs \subseteq References /\ Source.length \in References \cup {0} /\ Source.header \in Keys
  BY <1>1 DEF ObjectSet
<1>3. K \in SUBSET Keys
  BY <1>2, NumbersAreKeys
<1>4. CacheStep(object_cache, c, {})
  BY <1>3, HandlesStep DEF ResolverInv
<1>5. IsCache(c) /\ (~Top.raw => NotNew(c, Top.key))
  BY <1>1, <1>4 DEF CacheStep, NotNew, ClientKinds
<1>6. CASE indirect
  <2> DEFINE f == [Top EXCEPT !.fn = "length"]
  <2>1. /\ object_cache' = c /\ resolving' = resolving
        /\ stack' = <<Frame("resolve", Source.length, 0, FALSE)>> \o Become(f)
    BY <1>6 DEF ReadBody
  <2>2. f \in FrameSet /\ f.key = Top.key /\ (Marked(f) <=> Marked(Top)) /\ FrameSound(f, c)
    BY <1>1, <1>5 DEF FrameSet, Marked, FrameSound
  <2>3. Source.length \in References
    BY <1>2, <1>6
  <2>4. CacheStep(object_cache, c, CompressedRows)
    BY <1>4, StepWiden
  <2> HIDE DEF f, c
  <2>5. Frames(Become(f), c) /\ MarksOf(Become(f), resolving)
    BY <1>1, <2>2, <2>4, BecomeEffect
  <2> QED BY <2>1, <2>3, <2>4, <2>5, NestedEffect DEF Effect
<1>7. CASE ~indirect
  <2> DEFINE d == cache_parsed_object(c, Source.body # "broken")
  <2>1. Return(d)
    BY <1>7 DEF ReadBody
  <2> HIDE DEF c
  <2>2. CacheStep(c, d, {})
    BY <1>1, <1>2, <1>5, ParsedStep
  <2>3. CacheStep(object_cache, d, CompressedRows)
    BY <1>4, <2>2, StepTrans, StepWiden
  <2> QED BY <1>1, <2>1, <2>3, ReturnEffect
<1> QED BY <1>6, <1>7

LEMMA EndStreamReadEffect == ASSUME ResolverInv, EndStreamRead PROVE Effect
<1> DEFINE ok == RightLength(object_cache[Source.length]) \/ attempt_recovery
           d == cache_parsed_object(object_cache, ok)
<1>1. /\ stack # <<>> /\ Top.fn # "resolve" /\ Top.at \in Positions /\ Source \in ObjectSet
      /\ Top.key \in Keys /\ (~Top.raw => NotNew(object_cache, Top.key))
  BY SourceObject, TopFrame DEF EndStreamRead, At
<1>2. Return(d)
  BY DEF EndStreamRead
<1>3. Source.header \in Keys
  BY <1>1 DEF ObjectSet
<1> HIDE DEF ok
<1>4. CacheStep(object_cache, d, CompressedRows)
  BY <1>1, <1>3, ParsedStep, StepWiden DEF ResolverInv
<1> QED BY <1>1, <1>2, <1>4, ReturnEffect

LEMMA EnterObjectStreamEffect == ASSUME ResolverInv, EnterObjectStream PROVE Effect
<1>1. /\ stack # <<>> /\ Top.fn = "stream" /\ Top \in FrameSet /\ Top.key \in Keys /\ Top.at \in References
      /\ ~Top.raw => NotNew(object_cache, Top.key)
  BY TopFrame DEF EnterObjectStream, At, FrameSound, Marked
<1>2. CASE Top.at \in resolved_object_streams
  <2>1. Return(OrNull(object_cache, Top.key))
    BY <1>2 DEF EnterObjectStream
  <2>2. CacheStep(object_cache, OrNull(object_cache, Top.key), CompressedRows)
    BY <1>1, OrNullStep, StepWiden DEF ResolverInv
  <2> QED BY <1>1, <2>1, <2>2, ReturnEffect
<1>3. CASE Top.at \notin resolved_object_streams
  <2> DEFINE f == [Top EXCEPT !.fn = "members"]
             c == get_object_handle(object_cache, {Top.at})
  <2>1. /\ object_cache' = c /\ resolving' = resolving
        /\ stack' = <<Frame("resolve", Top.at, 0, FALSE)>> \o Become(f)
    BY <1>3 DEF EnterObjectStream
  <2>2. {Top.at} \in SUBSET Keys
    BY <1>1, NumbersAreKeys
  <2>3. CacheStep(object_cache, c, {}) /\ Top.at \in DOMAIN c
    BY <2>2, HandlesStep DEF ResolverInv
  <2>4. ~Top.raw => NotNew(c, Top.key)
    BY <1>1, <2>3 DEF CacheStep, NotNew, ClientKinds
  <2>5. f \in FrameSet /\ f.key = Top.key /\ (Marked(f) <=> Marked(Top)) /\ FrameSound(f, c)
    BY <1>1, <2>3, <2>4 DEF FrameSet, Marked, FrameSound
  <2>6. CacheStep(object_cache, c, CompressedRows)
    BY <2>3, StepWiden
  <2> HIDE DEF f, c
  <2>7. Frames(Become(f), c) /\ MarksOf(Become(f), resolving)
    BY <1>1, <2>5, <2>6, BecomeEffect
  <2> QED BY <1>1, <2>1, <2>6, <2>7, NestedEffect DEF Effect
<1> QED BY <1>2, <1>3

LEMMA EndObjectStreamEffect ==
    ASSUME ResolverInv, EndObjectStream
    PROVE  Effect /\ default_xref_entries' \subseteq References
<1> DEFINE v == object_cache[Top.at]
           o == objects[v.at]
           here(m) == IsRow(m, "compressed") /\ xref[m].at = Top.at
           listed == IF v.kind = "read" /\ o.body = "objstm"
                     THEN {m \in o.members : o.bad # 0 /\ here(o.bad) => m < o.bad}
                     ELSE {}
           installed == InstalledMembers(listed)
           g == [k \in DOMAIN object_cache \cup installed |->
                    IF k \in installed THEN Value("member", v.at) ELSE object_cache[k]]
<1>1. /\ stack # <<>> /\ Top.fn = "members" /\ Top.key \in Keys
      /\ Top.at \in DOMAIN object_cache
  BY TopFrame DEF EndObjectStream, At, FrameSound
<1>2. v \in ValueSet /\ v.at \in Nat /\ (v.kind = "read" => v.at \in Positions)
  BY <1>1 DEF ResolverInv, IsCache, ValueSet
<1>3. listed \subseteq References
  BY <1>2 DEF ResolverInv, InputOK, ObjectSet
<1>4. Return(OrNull(g, Top.key)) /\ default_xref_entries' = default_xref_entries \cup (listed \ DOMAIN xref)
  BY DEF EndObjectStream
<1> HIDE DEF listed
<1>5. installed \subseteq listed /\ installed \subseteq CompressedRows
  BY DEF InstalledMembers, IsRow, CompressedRows
<1> HIDE DEF installed
<1>6. FileValue(Value("member", v.at)) /\ Value("member", v.at).kind # "read"
  BY <1>2, FileValues, ValueFields
<1>7. DOMAIN g = DOMAIN object_cache \cup installed
  OBVIOUS
<1>8. \A k \in DOMAIN g : g[k] = IF k \in installed THEN Value("member", v.at) ELSE object_cache[k]
  OBVIOUS
<1> HIDE DEF g
<1>9. IsCache(g)
  BY <1>3, <1>5, <1>6, <1>7, <1>8, NumbersAreKeys DEF ResolverInv, IsCache, FileValue
<1>10. CacheStep(object_cache, g, CompressedRows)
  BY <1>5, <1>6, <1>7, <1>8, <1>9 DEF CacheStep, FileValue, ClientKinds
<1>11. CacheStep(object_cache, OrNull(g, Top.key), CompressedRows)
  BY <1>1, <1>9, <1>10, OrNullStep, StepTrans
<1>12. Effect
  BY <1>1, <1>4, <1>11, ReturnEffect
<1>13. default_xref_entries' \subseteq References
  BY <1>3, <1>4 DEF ResolverInv, SetsOK
<1> QED BY <1>12, <1>13

(* A step of a resolution: the table changes only when it is rebuilt.      *)
ResolutionStep ==
    /\ stack # <<>>
    /\ Effect
    /\ RowsSound(xref')
    /\ default_xref_entries \subseteq default_xref_entries' /\ default_xref_entries' \subseteq References
    /\ resolved_object_streams' \subseteq References
    /\ reconstructed_xref' \in BOOLEAN /\ fixed_dangling_refs' \in BOOLEAN
    /\ ~reconstructed_xref' => xref' = xref /\ ~reconstructed_xref
    /\ xref' # xref => ~reconstructed_xref
    /\ UNCHANGED <<objects, attempt_recovery, allocated, walk, client>>

LEMMA ResolutionSteps == ASSUME ResolverInv, Resolution PROVE ResolutionStep
<1>0. /\ RowsSound(xref) /\ default_xref_entries \subseteq References
      /\ resolved_object_streams \subseteq References
      /\ reconstructed_xref \in BOOLEAN /\ fixed_dangling_refs \in BOOLEAN
  BY DEF ResolverInv, RowsOK, SetsOK
<1>1. CASE AlreadyResolved
  BY <1>0, <1>1, AlreadyResolvedEffect DEF AlreadyResolved, At, ResolutionStep, table, client
<1>2. CASE LoopDetected
  BY <1>0, <1>2, LoopDetectedEffect DEF LoopDetected, At, ResolutionStep, table, client
<1>3. CASE Dispatch
  BY <1>0, <1>3, DispatchEffect DEF Dispatch, At, ResolutionStep, table, client
<1>4. CASE ReadHeaderError
  BY <1>0, <1>4, ReadHeaderErrorEffect DEF ReadHeaderError, At, ResolutionStep, table, client
<1>5. CASE ReconstructAndRetry
  <2>1. RowsSound(xref')
    BY <1>5, RebuiltRows DEF ReconstructAndRetry
  <2>2. ~reconstructed_xref /\ reconstructed_xref' = TRUE /\ fixed_dangling_refs' = FALSE
    BY <1>5 DEF ReconstructAndRetry, MayReconstruct
  <2>3. /\ stack # <<>>
        /\ UNCHANGED <<objects, attempt_recovery, default_xref_entries, allocated,
                       resolved_object_streams, walk, client>>
    BY <1>5 DEF ReconstructAndRetry, At
  <2> QED BY <1>0, <1>5, <2>1, <2>2, <2>3, ReconstructEffect DEF ResolutionStep, client
<1>6. CASE ReadBody
  BY <1>0, <1>6, ReadBodyEffect DEF ReadBody, At, ResolutionStep, table, client
<1>7. CASE EndStreamRead
  BY <1>0, <1>7, EndStreamReadEffect DEF EndStreamRead, At, ResolutionStep, table, client
<1>8. CASE EnterObjectStream
  <2>1. resolved_object_streams' \subseteq References
    <3>1. Top.at \in References
      BY <1>8, TopFrame DEF EnterObjectStream, At, FrameSound
    <3> QED BY <1>0, <1>8, <3>1 DEF EnterObjectStream
  <2> QED BY <1>0, <1>8, <2>1, EnterObjectStreamEffect DEF EnterObjectStream, At, ResolutionStep, table, client
<1>9. CASE EndObjectStream
  <2>1. default_xref_entries \subseteq default_xref_entries'
    BY <1>9 DEF EndObjectStream
  <2> QED BY <1>0, <1>9, <2>1, EndObjectStreamEffect DEF EndObjectStream, At, ResolutionStep, client
<1> QED BY <1>1, <1>2, <1>3, <1>4, <1>5, <1>6, <1>7, <1>8, <1>9 DEF Resolution

LEMMA ResolutionInv == ASSUME ResolverInv, Resolution PROVE ResolverInv'
<1>1. ResolutionStep
  BY ResolutionSteps
<1>2. CacheStep(object_cache, object_cache', CompressedRows)
  BY <1>1 DEF ResolutionStep, Effect
<1>3. InputOK' /\ RowsOK'
  BY <1>1 DEF ResolutionStep, ResolverInv, InputOK, RowsOK
<1>4. IsCache(object_cache)' /\ SetsOK'
  BY <1>1, <1>2 DEF ResolutionStep, CacheStep, ResolverInv, SetsOK, AllocatedCached
<1>5. StackOK'
  BY <1>1 DEF ResolutionStep, Effect, StackOK
<1>6. ClientOK'
  BY <1>1, <1>2 DEF ResolutionStep, CacheStep, ResolverInv, ClientOK, client
<1>7. LiveUnlessRebuilt'
  BY <1>1, <1>2 DEF ResolutionStep, CacheStep, ClientKinds, ResolverInv, LiveUnlessRebuilt
<1>8. ServedUnderOwnNumber'
  BY <1>1, <1>2 DEF ResolutionStep, CacheStep, OwnNumber, ResolverInv, ServedUnderOwnNumber, client
<1> QED BY <1>3, <1>4, <1>5, <1>6, <1>7, <1>8 DEF ResolverInv

-----------------------------------------------------------------------------
(* Between resolutions the stack is empty and no mark is set.              *)

LEMMA EmptyStack ==
    ASSUME ResolverInv, stack = <<>>, NEW c PROVE Frames(<<>>, c) /\ MarksOf(<<>>, resolving)
BY DEF ResolverInv, StackOK, Frames

LEMMA OneFrame ==
    ASSUME ResolverInv, stack = <<>>, NEW c, NEW f \in FrameSet, FrameSound(f, c), ~Marked(f)
    PROVE  Frames(<<f>>, c) /\ MarksOf(<<f>>, resolving)
<1>1. Frames(<<>>, c) /\ MarksOf(<<>>, resolving) /\ <<>> \in Seq(FrameSet)
  BY EmptyStack
<1>2. <<f>> \o <<>> = <<f>>
  OBVIOUS
<1>3. Frames(<<f>> \o <<>>, c)
  BY <1>1, FramesPush
<1>4. MarksOf(<<f>> \o <<>>, resolving)
  BY <1>1, MarksPush
<1> QED BY <1>2, <1>3, <1>4

LEMMA ResolveFrame ==
    ASSUME ResolverInv, stack = <<>>, NEW c, NEW k \in References
    PROVE  /\ Frames(<<Frame("resolve", k, 0, FALSE)>>, c)
           /\ MarksOf(<<Frame("resolve", k, 0, FALSE)>>, resolving)
<1> DEFINE f == Frame("resolve", k, 0, FALSE)
<1>1. f \in FrameSet /\ FrameSound(f, c) /\ ~Marked(f)
  BY NumbersAreKeys DEF Frame, FrameSet, Marked, FrameSound
<1> QED BY <1>1, OneFrame

(* A step of the walk: handles and nulls for object 0.                     *)
LEMMA WalkRowInv == ASSUME ResolverInv, WalkRow PROVE ResolverInv'
<1>1. PICK k \in DOMAIN walk.todo :
        LET e == walk.todo[k]
            read == IF e.type = "uncompressed" /\ e.at # 0
                    THEN <<Frame("read", k, e.at, TRUE)>> ELSE <<>>
            skip == \/ k < 0 /\ e.type # "uncompressed"
                    \/ k > 0 /\ Resolved(object_cache, k)
        IN  /\ walk' = Walk(TRUE, [x \in DOMAIN walk.todo \ {k} |-> walk.todo[x]], walk.may_change,
                            IF skip THEN "none" ELSE IF k = 0 THEN "zero" ELSE "row")
            /\ object_cache' = IF k < 0 THEN object_cache ELSE get_object_handle(object_cache, {k})
            /\ stack' = IF skip THEN <<>>
                        ELSE IF k > 0 THEN <<Frame("resolve", k, 0, FALSE)>>
                        ELSE IF k = 0 /\ e.type = "compressed" THEN <<Frame("stream", 0, e.at, TRUE)>>
                        ELSE read
  BY DEF WalkRow
<1>2. stack = <<>> /\ UNCHANGED <<objects, attempt_recovery, table, allocated, resolving,
                                  resolved_object_streams, fixed_dangling_refs, client>>
  BY DEF WalkRow, Walking
<1>3. k \in Keys /\ walk.todo[k] \in EntrySet
  BY DEF ResolverInv, RowsOK, RowsSound, IsTable
<1>4. CacheStep(object_cache, object_cache', {})
  <2>1. {k} \in SUBSET Keys
    BY <1>3
  <2> QED BY <1>1, <2>1, HandlesStep, StepRefl DEF ResolverInv
<1>5. InputOK' /\ RowsOK'
  <2> DEFINE w == [x \in DOMAIN walk.todo \ {k} |-> walk.todo[x]]
  <2>1. walk'.todo = w
    BY <1>1 DEF Walk
  <2>2. RowsSound(w)
    BY DEF ResolverInv, RowsOK, RowsSound, IsTable
  <2> QED BY <1>2, <2>1, <2>2 DEF ResolverInv, InputOK, RowsOK, table
<1>6. IsCache(object_cache)' /\ SetsOK' /\ ClientOK' /\ LiveUnlessRebuilt' /\ ServedUnderOwnNumber'
  BY <1>2, <1>4 DEF ResolverInv, CacheStep, SetsOK, AllocatedCached, ClientOK, ClientKinds,
                    LiveUnlessRebuilt, ServedUnderOwnNumber, OwnNumber, table, client
<1>7. StackOK'
  <2>1. CASE stack' = <<>>
    BY <1>2, <2>1, EmptyStack DEF StackOK
  <2>2. CASE k > 0 /\ stack' = <<Frame("resolve", k, 0, FALSE)>>
    <3>1. k \in References
      BY <1>3, <2>2, NumbersAssumption DEF Keys, References
    <3> QED BY <1>2, <2>2, <3>1, ResolveFrame DEF StackOK
  <2>3. CASE walk.todo[k].type = "compressed" /\ stack' = <<Frame("stream", 0, walk.todo[k].at, TRUE)>>
    <3> DEFINE f == Frame("stream", 0, walk.todo[k].at, TRUE)
    <3>1. walk.todo[k].at \in References
      BY <2>3 DEF ResolverInv, RowsOK, RowsSound
    <3>2. f \in FrameSet /\ FrameSound(f, object_cache') /\ ~Marked(f)
      BY <3>1, NumbersAreKeys DEF Frame, FrameSet, Marked, FrameSound
    <3> QED BY <1>2, <2>3, <3>2, OneFrame DEF StackOK
  <2>4. CASE /\ walk.todo[k].type = "uncompressed" /\ walk.todo[k].at # 0
             /\ stack' = <<Frame("read", k, walk.todo[k].at, TRUE)>>
    <3> DEFINE f == Frame("read", k, walk.todo[k].at, TRUE)
    <3>1. walk.todo[k].at \in Positions
      BY <2>4 DEF ResolverInv, RowsOK, RowsSound
    <3>2. f \in FrameSet /\ FrameSound(f, object_cache') /\ ~Marked(f)
      BY <1>3, <3>1, NumbersAreKeys DEF Frame, FrameSet, Marked, FrameSound
    <3> QED BY <1>2, <2>4, <3>2, OneFrame DEF StackOK
  <2> QED BY <1>1, <2>1, <2>2, <2>3, <2>4
<1> QED BY <1>5, <1>6, <1>7 DEF ResolverInv

LEMMA StartWalkRows == ASSUME ResolverInv PROVE RowsSound(StartWalk.todo)
<1> DEFINE e == effective_xref_entries
<1>1. StartWalk.todo = e
  BY DEF StartWalk, Walk
<1>2. DOMAIN e = DOMAIN xref \cup default_xref_entries
  BY DEF effective_xref_entries
<1>3. \A k \in DOMAIN e : e[k] = IF k \in DOMAIN xref THEN xref[k] ELSE [type |-> "free", at |-> 0]
  BY DEF effective_xref_entries
<1> HIDE DEF e
<1>4. DOMAIN e \subseteq Keys
  BY <1>2, NumbersAreKeys DEF ResolverInv, RowsOK, RowsSound, IsTable, SetsOK
<1>5. [type |-> "free", at |-> 0] \in EntrySet
  BY DEF EntrySet
<1> QED BY <1>1, <1>3, <1>4, <1>5 DEF ResolverInv, RowsOK, RowsSound, IsTable

LEMMA NoWalkRows == RowsSound(NoWalk.todo)
<1>1. NoWalk.todo = [k \in {} |-> 0]
  BY DEF NoWalk, Walk
<1> QED BY <1>1 DEF RowsSound, IsTable

LEMMA WalkNextInv == ASSUME ResolverInv, WalkNext PROVE ResolverInv'
<1>1. stack = <<>> /\ UNCHANGED <<objects, attempt_recovery, table, allocated, resolving,
                                  resolved_object_streams, fixed_dangling_refs, stack, client>>
  BY DEF WalkNext, Walking
<1>2. CacheStep(object_cache, object_cache', {})
  BY NumbersAreKeys, OrNullStep, StepRefl DEF WalkNext, ResolverInv
<1>3. InputOK' /\ RowsOK'
  <2>1. Walk(TRUE, walk.todo, walk.may_change, "none").todo = walk.todo
    BY DEF Walk
  <2> QED BY <1>1, <2>1, StartWalkRows DEF WalkNext, ResolverInv, InputOK, RowsOK, table
<1>4. IsCache(object_cache)' /\ SetsOK' /\ ClientOK' /\ LiveUnlessRebuilt' /\ ServedUnderOwnNumber'
  BY <1>1, <1>2 DEF ResolverInv, CacheStep, SetsOK, AllocatedCached, ClientOK, ClientKinds,
                    LiveUnlessRebuilt, ServedUnderOwnNumber, OwnNumber, table, client
<1>5. StackOK'
  BY <1>1, EmptyStack DEF StackOK
<1> QED BY <1>3, <1>4, <1>5 DEF ResolverInv

LEMMA WalkEndInv == ASSUME ResolverInv, WalkEnd PROVE ResolverInv'
BY NoWalkRows DEF WalkEnd, ResolverInv, InputOK, RowsOK, SetsOK, AllocatedCached, StackOK, ClientOK,
                  LiveUnlessRebuilt, ServedUnderOwnNumber, table, client

(* The client's operations. One that is idle has no resolution running.    *)
LEMMA PrepareInv == ASSUME ResolverInv, NEW kind \in {"all", "new"}, Prepare(kind) PROVE ResolverInv'
<1>1. RowsOK'
  BY StartWalkRows, NoWalkRows DEF Prepare, ResolverInv, RowsOK, table
<1>2. ClientOK'
  BY DEF Prepare, Op, ResolverInv, ClientOK
<1> QED BY <1>1, <1>2 DEF Prepare, ResolverInv, InputOK, SetsOK, AllocatedCached, StackOK,
                          LiveUnlessRebuilt, ServedUnderOwnNumber, table

LEMMA EnumerateInv == ASSUME ResolverInv, EnumerateObjects PROVE ResolverInv'
<1>1. ClientOK'
  BY DEF EnumerateObjects, Op, ResolverInv, ClientOK
<1> QED BY <1>1 DEF EnumerateObjects, ResolverInv, InputOK, RowsOK, SetsOK, AllocatedCached, StackOK,
                    LiveUnlessRebuilt, ServedUnderOwnNumber, table

(* The client stores a value of its own under k.                           *)
LEMMA PutClient ==
    ASSUME NEW c, IsCache(c), NEW k \in Keys, NEW v \in ValueSet, v.kind # "read"
    PROVE  /\ IsCache(Put(c, k, v))
           /\ DOMAIN Put(c, k, v) = DOMAIN c \cup {k}
           /\ \A x \in DOMAIN c : x # k => Put(c, k, v)[x] = c[x]
<1>1. DOMAIN Put(c, k, v) = DOMAIN c \cup {k}
  BY DEF Put
<1>2. \A x \in DOMAIN c \cup {k} : Put(c, k, v)[x] = IF x = k THEN v ELSE c[x]
  BY DEF Put
<1> QED BY <1>1, <1>2 DEF IsCache

LEMMA ClientValues ==
    ASSUME ResolverInv
    PROVE  /\ NewValue \in ValueSet /\ NewValue.kind # "read"
           /\ Value("reserved", 0) \in ValueSet /\ Value("reserved", 0).kind # "read"
BY DEF NewValue, Value, ValueSet, ResolverInv, ClientOK

LEMMA StoreInv ==
    ASSUME ResolverInv, stack = <<>>, op'.kind = "idle", NEW k \in References, NEW v \in ValueSet, v.kind # "read",
           object_cache' = Put(object_cache, k, v), allocated \subseteq allocated',
           allocated' \subseteq allocated \cup {k}, k \in DOMAIN xref \cup allocated', Edit({k}),
           UNCHANGED <<objects, attempt_recovery, table, resolving, resolved_object_streams,
                       fixed_dangling_refs, stack, walk>>
    PROVE  ResolverInv'
<1>1. /\ IsCache(object_cache')
      /\ DOMAIN object_cache' = DOMAIN object_cache \cup {k}
      /\ \A x \in DOMAIN object_cache : x # k => object_cache'[x] = object_cache[x]
  BY NumbersAreKeys, PutClient DEF ResolverInv
<1>2. InputOK' /\ RowsOK' /\ SetsOK'
  BY <1>1 DEF ResolverInv, InputOK, RowsOK, SetsOK, AllocatedCached, table
<1>3. StackOK'
  BY EmptyStack DEF StackOK
<1>4. ClientOK'
  BY DEF ResolverInv, ClientOK, Edit
<1>5. LiveUnlessRebuilt'
  BY <1>1 DEF ResolverInv, LiveUnlessRebuilt, table
<1>6. ServedUnderOwnNumber'
  BY <1>1 DEF ResolverInv, ServedUnderOwnNumber, Edit
<1> QED BY <1>1, <1>2, <1>3, <1>4, <1>5, <1>6 DEF ResolverInv

(* Handles of one more object.                                             *)
LEMMA HandleInv ==
    ASSUME ResolverInv, stack = <<>>, NEW k \in References, ClientOK', edited \subseteq edited',
           object_cache' = get_object_handle(object_cache, {k}), Frames(stack', object_cache'),
           MarksOf(stack', resolving),
           UNCHANGED <<objects, attempt_recovery, table, allocated, resolving, resolved_object_streams,
                       fixed_dangling_refs, walk>>
    PROVE  ResolverInv'
<1>1. CacheStep(object_cache, object_cache', {})
  BY NumbersAreKeys, HandlesStep DEF ResolverInv
<1>2. IsCache(object_cache)' /\ SetsOK' /\ LiveUnlessRebuilt' /\ ServedUnderOwnNumber'
  BY <1>1 DEF ResolverInv, CacheStep, SetsOK, AllocatedCached, ClientKinds, LiveUnlessRebuilt,
              ServedUnderOwnNumber, OwnNumber, table
<1> QED BY <1>2 DEF ResolverInv, InputOK, RowsOK, StackOK, table

LEMMA AllocateInv == ASSUME ResolverInv, AllocateObject PROVE ResolverInv'
<1>1. PICK n \in 0 .. MaxNumber :
        IF NumbersExhausted(n)
        THEN UNCHANGED <<object_cache, allocated, edits, edited>>
        ELSE /\ object_cache' = Put(object_cache, next_obj_gen(n), NewValue)
             /\ allocated' = allocated \cup {next_obj_gen(n)}
             /\ Edit({next_obj_gen(n)})
  BY DEF AllocateObject
<1>2. /\ stack = <<>> /\ op'.kind = "idle"
      /\ UNCHANGED <<objects, attempt_recovery, table, resolving,
                     resolved_object_streams, fixed_dangling_refs, stack, walk>>
  BY DEF AllocateObject, Op
<1>3. CASE NumbersExhausted(n)
  <2>1. UNCHANGED <<object_cache, allocated, edits, edited>>
    BY <1>1, <1>3
  <2> QED BY <1>2, <2>1 DEF ResolverInv, InputOK, RowsOK, SetsOK, AllocatedCached, StackOK, ClientOK,
                            LiveUnlessRebuilt, ServedUnderOwnNumber, table
<1>4. CASE ~NumbersExhausted(n)
  <2>1. next_obj_gen(n) \in References
    BY <1>4, NumbersAssumption DEF NumbersExhausted, next_obj_gen, References
  <2> QED BY <1>1, <1>2, <1>4, <2>1, ClientValues, StoreInv
<1> QED BY <1>3, <1>4

LEMMA ReserveInv == ASSUME ResolverInv, NEW k \in References, ReserveObject(k) PROVE ResolverInv'
<1>1. /\ stack = <<>> /\ op.kind = "idle" /\ op' = op
      /\ UNCHANGED <<objects, attempt_recovery, table, resolving, resolved_object_streams,
                     fixed_dangling_refs, stack, walk>>
  BY DEF ReserveObject, Idle
<1>2. CASE k \in DOMAIN object_cache \cup DOMAIN xref \cup default_xref_entries
  <2>1. object_cache' = get_object_handle(object_cache, {k}) /\ UNCHANGED <<allocated, edits, edited>>
    BY <1>2 DEF ReserveObject
  <2>2. ClientOK'
    BY <1>1, <2>1 DEF ResolverInv, ClientOK
  <2> QED BY <1>1, <2>1, <2>2, EmptyStack, HandleInv
<1>3. CASE k \notin DOMAIN object_cache \cup DOMAIN xref \cup default_xref_entries
  <2>1. /\ object_cache' = Put(object_cache, k, Value("reserved", 0))
        /\ allocated' = allocated \cup {k} /\ Edit({k})
    BY <1>3 DEF ReserveObject
  <2> QED BY <1>1, <2>1, ClientValues, StoreInv
<1> QED BY <1>2, <1>3

LEMMA ReplaceInv == ASSUME ResolverInv, NEW k \in References, ReplaceObject(k) PROVE ResolverInv'
<1>1. /\ stack = <<>> /\ op'.kind = "idle" /\ Edit({k})
      /\ object_cache' = Put(object_cache, k, NewValue)
      /\ UNCHANGED <<objects, attempt_recovery, table, resolving, resolved_object_streams,
                     fixed_dangling_refs, stack, walk>>
  BY DEF ReplaceObject, Idle
<1>2. allocated' = allocated \cup ({k} \ DOMAIN xref)
  BY DEF ReplaceObject, record_allocated_object
<1> QED BY <1>1, <1>2, ClientValues, StoreInv

LEMMA GetInv == ASSUME ResolverInv, NEW k \in References, GetObject(k) PROVE ResolverInv'
<1>1. /\ stack = <<>> /\ op.kind = "idle" /\ object_cache' = get_object_handle(object_cache, {k})
      /\ UNCHANGED <<objects, attempt_recovery, table, allocated, resolving,
                     resolved_object_streams, fixed_dangling_refs, stack, walk, client>>
  BY DEF GetObject, Idle
<1>2. ClientOK'
  BY <1>1 DEF ResolverInv, ClientOK, client
<1> QED BY <1>1, <1>2, EmptyStack, HandleInv DEF client

LEMMA DereferenceInv == ASSUME ResolverInv, NEW k \in References, Dereference(k) PROVE ResolverInv'
<1>1. StackOK'
  BY ResolveFrame DEF Dereference, Idle, StackOK
<1> QED BY <1>1 DEF Dereference, ResolverInv, InputOK, RowsOK, SetsOK, AllocatedCached, ClientOK,
                    LiveUnlessRebuilt, ServedUnderOwnNumber, table, client

LEMMA SwapInv ==
    ASSUME ResolverInv, NEW a \in References, NEW b \in References, SwapObjects(a, b) PROVE ResolverInv'
<1>1. stack = <<>> /\ op' = Op("swap", a, b) /\ edits' = edits + 1 /\ edited' = edited \cup {a, b}
  BY DEF SwapObjects, Idle, Edit
<1>2. ClientOK'
  <2>1. a \in DOMAIN object_cache'
    BY NumbersAreKeys, HandlesStep DEF SwapObjects, ResolverInv
  <2>2. op'.kind = "swap" /\ op'.a = a /\ op'.b = b
    BY <1>1 DEF Op
  <2> QED BY <1>1, <2>1, <2>2 DEF ResolverInv, ClientOK
<1>3. Frames(stack', object_cache') /\ MarksOf(stack', resolving)
  BY <1>1, ResolveFrame DEF SwapObjects
<1> QED BY <1>1, <1>2, <1>3, HandleInv DEF SwapObjects

LEMMA SwapSecondInv == ASSUME ResolverInv, SwapSecond PROVE ResolverInv'
<1>1. stack = <<>> /\ op' = Op("exchange", op.a, op.b) /\ edits' = edits /\ edited' = edited
  BY DEF SwapSecond
<1>2. op.b \in References /\ op.a \in References \cap DOMAIN object_cache /\ {op.a, op.b} \subseteq edited
  BY DEF SwapSecond, ResolverInv, ClientOK
<1>3. CacheStep(object_cache, object_cache', {}) /\ op.b \in DOMAIN object_cache'
  BY <1>2, NumbersAreKeys, HandlesStep DEF SwapSecond, ResolverInv
<1>4. ClientOK'
  <2>1. op'.kind = "exchange" /\ op'.a = op.a /\ op'.b = op.b
    BY <1>1 DEF Op
  <2> QED BY <1>1, <1>2, <1>3, <2>1 DEF ResolverInv, ClientOK, CacheStep
<1>5. Frames(stack', object_cache') /\ MarksOf(stack', resolving)
  BY <1>1, <1>2, ResolveFrame DEF SwapSecond
<1> QED BY <1>1, <1>2, <1>4, <1>5, HandleInv DEF SwapSecond

LEMMA SwapValuesInv == ASSUME ResolverInv, SwapValues PROVE ResolverInv'
<1>1. /\ stack = <<>> /\ op'.kind = "idle" /\ edits' = edits /\ edited' = edited
      /\ UNCHANGED <<objects, attempt_recovery, table, resolving,
                     resolved_object_streams, fixed_dangling_refs, stack, walk>>
  BY DEF SwapValues, Op
<1>2. /\ op.a \in References \cap DOMAIN object_cache /\ op.b \in References \cap DOMAIN object_cache
      /\ {op.a, op.b} \subseteq edited
  BY DEF SwapValues, ResolverInv, ClientOK
<1>3. allocated' = allocated \cup ({op.a, op.b} \ DOMAIN xref)
  BY DEF SwapValues, record_allocated_object
<1>4. DOMAIN object_cache' = DOMAIN object_cache
  BY DEF SwapValues
<1>5. \A x \in DOMAIN object_cache :
        \/ object_cache'[x] = object_cache[x]
        \/ x = op.a /\ object_cache'[x] = object_cache[op.b]
        \/ x = op.b /\ object_cache'[x] = object_cache[op.a]
  BY <1>2 DEF SwapValues
<1>6. IsCache(object_cache)'
  BY <1>2, <1>4, <1>5 DEF ResolverInv, IsCache
<1>7. InputOK' /\ RowsOK' /\ SetsOK'
  BY <1>1, <1>2, <1>3, <1>4 DEF ResolverInv, InputOK, RowsOK, SetsOK, AllocatedCached, table
<1>8. StackOK' /\ ClientOK'
  BY <1>1, EmptyStack DEF StackOK, ResolverInv, ClientOK
<1>9. LiveUnlessRebuilt'
  BY <1>1, <1>2, <1>3, <1>4, <1>5 DEF ResolverInv, LiveUnlessRebuilt, table
<1>10. ServedUnderOwnNumber'
  BY <1>1, <1>2, <1>4, <1>5 DEF ResolverInv, ServedUnderOwnNumber
<1> QED BY <1>6, <1>7, <1>8, <1>9, <1>10 DEF ResolverInv

LEMMA RemoveInv == ASSUME ResolverInv, NEW k \in References, RemoveObject(k) PROVE ResolverInv'
<1>1. /\ stack = <<>> /\ op.kind = "idle" /\ op' = op /\ edits' = edits + 1 /\ edited' = edited \cup {k}
      /\ UNCHANGED <<objects, attempt_recovery, reconstructed_xref, resolving,
                     resolved_object_streams, fixed_dangling_refs, stack, walk>>
      /\ default_xref_entries' = default_xref_entries \ {k}
      /\ allocated' = allocated \ {k}
  BY DEF RemoveObject, Idle, Edit, drop_allocation
<1>2. /\ DOMAIN xref' = DOMAIN xref \ {k}
      /\ \A x \in DOMAIN xref' : xref'[x] = xref[x]
      /\ DOMAIN object_cache' = DOMAIN object_cache \ {k}
      /\ \A x \in DOMAIN object_cache' : object_cache'[x] = object_cache[x]
  BY DEF RemoveObject
<1>3. InputOK' /\ RowsOK' /\ IsCache(object_cache)' /\ SetsOK'
  BY <1>1, <1>2 DEF ResolverInv, InputOK, RowsOK, RowsSound, IsTable, IsCache, SetsOK, AllocatedCached
<1>4. StackOK' /\ ClientOK'
  BY <1>1, EmptyStack DEF StackOK, ResolverInv, ClientOK
<1>5. LiveUnlessRebuilt'
  BY <1>1, <1>2 DEF ResolverInv, LiveUnlessRebuilt
<1>6. ServedUnderOwnNumber'
  BY <1>1, <1>2 DEF ResolverInv, ServedUnderOwnNumber
<1> QED BY <1>3, <1>4, <1>5, <1>6 DEF ResolverInv

-----------------------------------------------------------------------------
LEMMA InitInv == Init => ResolverInv
<1> SUFFICES ASSUME Init PROVE ResolverInv
  OBVIOUS
<1>1. PICK d \in Documents :
        /\ objects = d.objects /\ attempt_recovery = d.recovery /\ xref = d.table
        /\ reconstructed_xref = d.rebuilt /\ edits = MaxEdits - d.edits
  BY DEF Init
<1>2. /\ default_xref_entries = {} /\ object_cache = [k \in {} |-> Null] /\ allocated = {}
      /\ resolving = {} /\ resolved_object_streams = {} /\ fixed_dangling_refs = FALSE
      /\ stack = <<>> /\ walk = NoWalk /\ op = Op("idle", 0, 0)
  BY DEF Init
<1>3. InputOK /\ RowsOK
  BY <1>1, <1>2, DocumentsAssumption, NoWalkRows DEF InputOK, RowsOK, RowsSound
<1>4. DOMAIN object_cache = {}
  BY <1>2
<1>5. IsCache(object_cache) /\ LiveUnlessRebuilt /\ ServedUnderOwnNumber
  BY <1>4 DEF IsCache, LiveUnlessRebuilt, ServedUnderOwnNumber
<1>6. SetsOK
  BY <1>1, <1>2, DocumentsAssumption DEF SetsOK, AllocatedCached
<1>7. StackOK
  BY <1>2 DEF StackOK, Frames, MarksOf
<1>8. ClientOK
  <2>1. d.edits \in 0 .. MaxEdits /\ MaxEdits \in Nat
    BY DocumentsAssumption, NumbersAssumption
  <2>2. edits \in Nat
    BY <1>1, <2>1
  <2> QED BY <1>2, <2>2 DEF ClientOK, Op
<1> QED BY <1>3, <1>5, <1>6, <1>7, <1>8 DEF ResolverInv

LEMMA NextInv == ResolverInv /\ [Next]_vars => ResolverInv'
<1> SUFFICES ASSUME ResolverInv, [Next]_vars PROVE ResolverInv'
  OBVIOUS
<1>1. CASE Internal
  BY <1>1, ResolutionInv, WalkRowInv, WalkNextInv, WalkEndInv, EnumerateInv, AllocateInv,
     SwapSecondInv, SwapValuesInv DEF Internal
<1>2. CASE \E k \in References : \/ GetObject(k) \/ Dereference(k) \/ ReserveObject(k)
                                 \/ ReplaceObject(k) \/ RemoveObject(k)
  BY <1>2, GetInv, DereferenceInv, ReserveInv, ReplaceInv, RemoveInv
<1>3. CASE \E a, b \in References : a # b /\ SwapObjects(a, b)
  BY <1>3, SwapInv
<1>4. CASE \E kind \in {"all", "new"} : Prepare(kind)
  BY <1>4, PrepareInv
<1>5. CASE UNCHANGED vars
  BY <1>5 DEF vars, table, client, ResolverInv, InputOK, RowsOK, SetsOK, AllocatedCached, StackOK,
              ClientOK, LiveUnlessRebuilt, ServedUnderOwnNumber
<1> QED BY <1>1, <1>2, <1>3, <1>4, <1>5 DEF Next

LEMMA Inductive == Spec => []ResolverInv
BY InitInv, NextInv, PTL DEF Spec

(* While a resolution runs, every step is a step of it.                    *)
LEMMA OnlyResolution == ASSUME Next, stack # <<>> PROVE Resolution
BY DEF Next, Internal, WalkRow, WalkNext, WalkEnd, Walking, EnumerateObjects, AllocateObject,
       SwapSecond, SwapValues, GetObject, Dereference, ReserveObject, ReplaceObject, RemoveObject,
       SwapObjects, Prepare, Idle

(* The state of the resolver (CurrentObjectResolver and the registrations  *)
(* it shares) keeps its types, whatever the file, the order of the         *)
(* client's calls and the depth to which reads nest.                       *)
THEOREM TypeCorrect == Spec => []TypeOK
<1>1. ResolverInv => TypeOK
  <2> SUFFICES ASSUME ResolverInv PROVE TypeOK
    OBVIOUS
  <2>1. resolving \subseteq Keys
    <3> SUFFICES ASSUME NEW x \in resolving PROVE x \in Keys
      OBVIOUS
    <3>1. PICK i \in DOMAIN stack : stack[i].key = x
      BY DEF ResolverInv, StackOK, MarksOf
    <3>2. stack[i] \in FrameSet
      BY DEF ResolverInv, StackOK, Frames
    <3> QED BY <3>1, <3>2 DEF FrameSet
  <2> QED BY <2>1 DEF ResolverInv, RowsOK, RowsSound, IsCache, SetsOK, StackOK, Frames, TypeOK
<1> QED BY <1>1, Inductive, PTL

(* ResolveMark: the marks are the objects being resolved, each once, in    *)
(* every nest of reads, errors and retries; a loop is always cut.          *)
THEOREM MarksExact == Spec => []MarksMatchStack
<1>1. ResolverInv => MarksMatchStack
  BY DEF ResolverInv, StackOK, MarksOf, Marked, MarksMatchStack
<1> QED BY <1>1, Inductive, PTL

(* record_allocated_object and remove_object: no allocation note without a *)
(* handle.                                                                 *)
THEOREM NotesCached == Spec => []AllocatedCached
<1>1. ResolverInv => AllocatedCached
  BY DEF ResolverInv, SetsOK
<1> QED BY <1>1, Inductive, PTL

(* The writer's live view (live_object_refs) has every value the client    *)
(* stored, as long as no read rebuilt the table.                           *)
THEOREM StoredLive == Spec => []LiveUnlessRebuilt
<1>1. ResolverInv => LiveUnlessRebuilt
  BY DEF ResolverInv
<1> QED BY <1>1, Inductive, PTL

(* cache_parsed_object_if_unresolved files an object under the number its  *)
(* header names: no reader is ever given another object of the file.       *)
THEOREM ServedOwn == Spec => []ServedUnderOwnNumber
<1>1. ResolverInv => ServedUnderOwnNumber
  BY DEF ResolverInv
<1> QED BY <1>1, Inductive, PTL

(* cache_parsed_object_if_unresolved, ResolveMark::begin and the retry     *)
(* after a reconstruction overwrite no replacement of the client; only     *)
(* resolve_object_stream may.                                              *)
THEOREM ReplacementsSafe == Spec => ReplacementSafe
<1> DEFINE Safe == stack # <<>> => \A k \in DOMAIN object_cache :
              object_cache[k].kind = "new" /\ ~IsRow(k, "compressed") => object_cache'[k] = object_cache[k]
<1>1. ResolverInv /\ [Next]_vars => [Safe]_vars
  <2> SUFFICES ASSUME ResolverInv, Next, stack # <<>> PROVE Safe
    BY DEF vars
  <2>1. CacheStep(object_cache, object_cache', CompressedRows)
    BY OnlyResolution, ResolutionSteps DEF ResolutionStep, Effect
  <2> QED BY <2>1 DEF CacheStep, CompressedRows, IsRow
<1> QED BY <1>1, Inductive, PTL DEF Spec, ReplacementSafe

-----------------------------------------------------------------------------
(* What a resolution owes: the object whose resolution is the outermost    *)
(* frame has a value when the stack is empty again, and no object loses    *)
(* its own on the way. A raw read owes its row's number nothing.           *)

Keeps(c, d) == \A k \in DOMAIN c : Resolved(c, k) => Resolved(d, k)
Owing(f) == f.fn = "resolve" \/ ~f.raw
Outermost == stack[Len(stack)]
Awaits(k) ==
    Resolved(object_cache, k) \/ (stack # <<>> /\ Outermost.key = k /\ Owing(Outermost))

(* The object that a frame waits for, and what a frame's row says of it as *)
(* long as the rows are the file's own.                                    *)
Child(f) == IF f.fn = "length" THEN objects[f.at].length ELSE f.at
RowFrame(f) ==
    /\ f.fn # "retry"
    /\ f.fn = "resolve" => f.key \in References
    /\ f.fn \in {"read", "length"} =>
          IsRow(f.key, "uncompressed") /\ xref[f.key].at = f.at /\ f.at # 0
    /\ f.fn \in {"stream", "members"} => IsRow(f.key, "compressed") /\ xref[f.key].at = f.at
    /\ f.fn = "length" => Indirect(objects[f.at])

(* How a step of a resolution leaves the frame on top: it returns, begins  *)
(* a read, or waits for another object.                                    *)
Begun(f) ==
    \/ f.fn = "retry" /\ reconstructed_xref'
    \/ f.fn \in {"read", "stream"} /\ RowFrame(f)
Waits(f) ==
    f.fn \in {"length", "members"} /\ Child(f) \in References /\ (RowFrame(Top) => RowFrame(f))
Progress ==
    /\ stack # <<>>
    /\ Keeps(object_cache, object_cache')
    /\ \/ stack' = Tail(stack) /\ (Owing(Top) => Resolved(object_cache', Top.key))
       \/ \E f \in FrameSet :
            /\ f.key = Top.key /\ (Owing(Top) => Owing(f))
            /\ \/ stack' = Become(f) /\ Begun(f)
               \/ stack' = <<Frame("resolve", Child(f), 0, FALSE)>> \o Become(f) /\ Waits(f)

LEMMA KeepsRefl == ASSUME NEW c PROVE Keeps(c, c)
BY DEF Keeps

LEMMA KeepsTrans ==
    ASSUME NEW c, NEW d, NEW e, Keeps(c, d), Keeps(d, e) PROVE Keeps(c, e)
BY DEF Keeps, Resolved

LEMMA Values ==
    /\ Null # Unresolved
    /\ \A p : Value("read", p) # Unresolved /\ Value("member", p) # Unresolved
    /\ \A p : Value("new", p) # Unresolved /\ Value("reserved", p) # Unresolved
BY ValueFields DEF Null, Unresolved

LEMMA PutKeeps ==
    ASSUME NEW c, NEW k, NEW v, v # Unresolved
    PROVE  Keeps(c, Put(c, k, v)) /\ Resolved(Put(c, k, v), k)
<1>1. DOMAIN Put(c, k, v) = DOMAIN c \cup {k}
  BY DEF Put
<1>2. \A x \in DOMAIN c \cup {k} : Put(c, k, v)[x] = IF x = k THEN v ELSE c[x]
  BY DEF Put
<1> QED BY <1>1, <1>2 DEF Keeps, Resolved

LEMMA HandlesKeep ==
    ASSUME NEW c, NEW K
    PROVE  Keeps(c, get_object_handle(c, K)) /\ K \subseteq DOMAIN get_object_handle(c, K)
<1>1. DOMAIN get_object_handle(c, K) = DOMAIN c \cup K
  BY DEF get_object_handle
<1>2. \A x \in DOMAIN c \cup K : get_object_handle(c, K)[x] = IF x \in DOMAIN c THEN c[x] ELSE Unresolved
  BY DEF get_object_handle
<1> QED BY <1>1, <1>2 DEF Keeps, Resolved

LEMMA OrNullKeeps ==
    ASSUME NEW c, NEW k PROVE Keeps(c, OrNull(c, k)) /\ Resolved(OrNull(c, k), k)
BY PutKeeps, KeepsRefl, Values DEF OrNull

LEMMA CaughtKeeps ==
    ASSUME NEW c PROVE Keeps(c, Caught(c)) /\ (~Top.raw => Resolved(Caught(c), Top.key))
BY OrNullKeeps, KeepsRefl DEF Caught

LEMMA ParsedKeeps ==
    ASSUME NEW c, NEW ok
    PROVE  /\ Keeps(c, cache_parsed_object(c, ok))
           /\ ~Top.raw => Resolved(cache_parsed_object(c, ok), Top.key)
<1> DEFINE h == Source.header
           filed == IF Resolved(c, h) THEN c ELSE Put(c, h, Value("read", Top.at))
<1>1. Keeps(c, filed) /\ Resolved(filed, h)
  BY PutKeeps, KeepsRefl, Values
<1>2. cache_parsed_object(c, ok) = IF ~ok THEN Caught(c)
                                   ELSE IF Top.raw \/ h = Top.key THEN filed ELSE Put(filed, Top.key, Null)
  BY DEF cache_parsed_object
<1> HIDE DEF filed, h
<1>3. Keeps(c, Put(filed, Top.key, Null)) /\ Resolved(Put(filed, Top.key, Null), Top.key)
  BY <1>1, PutKeeps, KeepsTrans, Values
<1> QED BY <1>1, <1>2, <1>3, CaughtKeeps

LEMMA MembersKeep ==
    ASSUME NEW c, NEW K, NEW p,
           NEW d, d = [k \in DOMAIN c \cup K |-> IF k \in K THEN Value("member", p) ELSE c[k]]
    PROVE  Keeps(c, d)
<1>1. DOMAIN d = DOMAIN c \cup K
  OBVIOUS
<1>2. \A k \in DOMAIN c \cup K : d[k] = IF k \in K THEN Value("member", p) ELSE c[k]
  OBVIOUS
<1> QED BY <1>1, <1>2, Values DEF Keeps, Resolved

LEMMA NestedFrame == ASSUME NEW k \in References PROVE Frame("resolve", k, 0, FALSE) \in FrameSet
BY NumbersAreKeys DEF Frame, FrameSet

LEMMA ReturnProgress ==
    ASSUME stack # <<>>, NEW c, Return(c), Keeps(object_cache, c),
           Owing(Top) => Resolved(c, Top.key)
    PROVE  Progress
BY DEF Return, Progress

LEMMA DispatchProgress == ASSUME ResolverInv, Dispatch PROVE Progress
<1> DEFINE k == Top.key
<1>1. stack # <<>> /\ Top.fn = "resolve" /\ k \in Keys
  BY TopFrame DEF Dispatch, At
<1>2. Keeps(object_cache, object_cache)
  BY KeepsRefl
<1>3. ASSUME NEW fn \in {"read", "stream"}, k \in DOMAIN xref,
             fn = "read" => IsRow(k, "uncompressed") /\ xref[k].at # 0,
             fn = "stream" => IsRow(k, "compressed"),
             stack' = Become(Frame(fn, k, xref[k].at, FALSE)), object_cache' = object_cache
      PROVE  Progress
  <2>1. xref[k].at \in Nat
    BY <1>3 DEF ResolverInv, RowsOK, RowsSound, IsTable, EntrySet
  <2> DEFINE f == Frame(fn, k, xref[k].at, FALSE)
  <2>2. f \in FrameSet /\ f.key = k /\ Owing(f) /\ Begun(f)
    BY <1>1, <1>3, <2>1 DEF Frame, FrameSet, Owing, Begun, RowFrame
  <2> HIDE DEF f
  <2> QED BY <1>1, <1>2, <1>3, <2>2 DEF Progress, f
<1>4. CASE IsRow(k, "uncompressed") /\ xref[k].at # 0
  BY <1>3, <1>4 DEF Dispatch, IsRow
<1>5. CASE ~(IsRow(k, "uncompressed") /\ xref[k].at # 0) /\ IsRow(k, "compressed")
  BY <1>3, <1>5 DEF Dispatch, IsRow
<1>6. CASE ~(IsRow(k, "uncompressed") /\ xref[k].at # 0) /\ ~IsRow(k, "compressed")
  <2>1. Return(Put(object_cache, k, Null))
    BY <1>6 DEF Dispatch
  <2> QED BY <1>1, <2>1, PutKeeps, Values, ReturnProgress
<1> QED BY <1>4, <1>5, <1>6

LEMMA ReconstructProgress == ASSUME ResolverInv, ReconstructAndRetry PROVE Progress
<1> DEFINE k == Top.key
<1>1. stack # <<>> /\ Top.fn = "read" /\ k \in Keys /\ Top \in FrameSet
  BY TopFrame DEF ReconstructAndRetry, At
<1>2. RowsSound(xref')
  BY RebuiltRows DEF ReconstructAndRetry
<1>3. CASE k \in DOMAIN xref' /\ xref'[k].type = "uncompressed"
  <2> DEFINE f == Frame("retry", k, xref'[k].at, Top.raw)
  <2>1. stack' = Become(f) /\ object_cache' = object_cache
    BY <1>3 DEF ReconstructAndRetry
  <2>2. xref'[k].at \in Nat
    BY <1>2, <1>3 DEF RowsSound, IsTable, EntrySet
  <2>3. f \in FrameSet /\ f.key = k /\ (Owing(Top) => Owing(f)) /\ Begun(f)
    BY <1>1, <2>2 DEF Frame, FrameSet, Owing, Begun, ReconstructAndRetry
  <2> HIDE DEF f
  <2> QED BY <1>1, <2>1, <2>3, KeepsRefl DEF Progress
<1>4. CASE ~(k \in DOMAIN xref' /\ xref'[k].type = "uncompressed")
  <2> DEFINE c == IF Top.raw THEN object_cache ELSE Put(object_cache, k, Null)
  <2>1. Return(c)
    BY <1>4 DEF ReconstructAndRetry
  <2>2. Keeps(object_cache, c) /\ (~Top.raw => Resolved(c, k))
    BY PutKeeps, KeepsRefl, Values
  <2> QED BY <1>1, <2>1, <2>2, ReturnProgress DEF Owing
<1> QED BY <1>3, <1>4

LEMMA ReadBodyProgress == ASSUME ResolverInv, ReadBody PROVE Progress
<1> DEFINE indirect == Source.body \in {"stream", "objstm"} /\ Source.length # 0
           c == get_object_handle(object_cache,
                    Source.refs \cup (IF indirect THEN {Source.length} ELSE {}))
<1>1. /\ stack # <<>> /\ Top.fn \in {"read", "retry"} /\ Top \in FrameSet /\ Source \in ObjectSet
  BY SourceObject, TopFrame DEF ReadBody, At
<1>2. Keeps(object_cache, c)
  BY HandlesKeep
<1>3. CASE indirect
  <2> DEFINE f == [Top EXCEPT !.fn = "length"]
             g == Frame("resolve", Source.length, 0, FALSE)
  <2>1. object_cache' = c /\ stack' = <<g>> \o Become(f)
    BY <1>3 DEF ReadBody
  <2>2. /\ f \in FrameSet /\ f.key = Top.key /\ f.fn = "length" /\ f.at = Top.at
        /\ Owing(Top) => Owing(f)
    BY <1>1 DEF FrameSet, Owing
  <2> HIDE DEF f
  <2>3. Child(f) = Source.length /\ Indirect(objects[f.at])
    BY <1>3, <2>2 DEF Child, Source, Indirect
  <2>4. Waits(f)
    BY <1>1, <1>3, <2>2, <2>3 DEF Waits, RowFrame, ObjectSet
  <2>5. g = Frame("resolve", Child(f), 0, FALSE)
    BY <2>3
  <2> HIDE DEF g, c
  <2> QED BY <1>1, <1>2, <2>1, <2>2, <2>4, <2>5 DEF Progress
<1>4. CASE ~indirect
  <2> DEFINE d == cache_parsed_object(c, Source.body # "broken")
  <2>1. Return(d)
    BY <1>4 DEF ReadBody
  <2> HIDE DEF c
  <2>2. Keeps(object_cache, d) /\ (~Top.raw => Resolved(d, Top.key))
    BY <1>2, ParsedKeeps, KeepsTrans
  <2> QED BY <1>1, <2>1, <2>2, ReturnProgress DEF Owing
<1> QED BY <1>3, <1>4

LEMMA EnterProgress == ASSUME ResolverInv, EnterObjectStream PROVE Progress
<1>1. stack # <<>> /\ Top.fn = "stream" /\ Top \in FrameSet /\ Top.at \in References
  BY TopFrame DEF EnterObjectStream, At, FrameSound
<1>2. CASE Top.at \in resolved_object_streams
  <2>1. Return(OrNull(object_cache, Top.key))
    BY <1>2 DEF EnterObjectStream
  <2> QED BY <1>1, <2>1, OrNullKeeps, ReturnProgress
<1>3. CASE Top.at \notin resolved_object_streams
  <2> DEFINE f == [Top EXCEPT !.fn = "members"]
             g == Frame("resolve", Top.at, 0, FALSE)
             c == get_object_handle(object_cache, {Top.at})
  <2>1. object_cache' = c /\ stack' = <<g>> \o Become(f)
    BY <1>3 DEF EnterObjectStream
  <2>2. /\ f \in FrameSet /\ f.key = Top.key /\ f.fn = "members" /\ f.at = Top.at
        /\ Owing(Top) => Owing(f)
    BY <1>1 DEF FrameSet, Owing
  <2> HIDE DEF f
  <2>3. Waits(f) /\ g = Frame("resolve", Child(f), 0, FALSE)
    BY <1>1, <2>2 DEF Waits, RowFrame, Child
  <2>4. Keeps(object_cache, c)
    BY HandlesKeep
  <2> HIDE DEF g, c
  <2> QED BY <1>1, <2>1, <2>2, <2>3, <2>4 DEF Progress
<1> QED BY <1>2, <1>3

LEMMA EndProgress == ASSUME ResolverInv, EndObjectStream PROVE Progress
<1> DEFINE v == object_cache[Top.at]
           o == objects[v.at]
           here(m) == IsRow(m, "compressed") /\ xref[m].at = Top.at
           listed == IF v.kind = "read" /\ o.body = "objstm"
                     THEN {m \in o.members : o.bad # 0 /\ here(o.bad) => m < o.bad}
                     ELSE {}
           installed == InstalledMembers(listed)
           g == [k \in DOMAIN object_cache \cup installed |->
                    IF k \in installed THEN Value("member", v.at) ELSE object_cache[k]]
<1>1. stack # <<>>
  BY DEF EndObjectStream, At
<1>2. Return(OrNull(g, Top.key))
  BY DEF EndObjectStream
<1> HIDE DEF installed
<1>3. Keeps(object_cache, g)
  BY MembersKeep
<1> HIDE DEF g
<1> QED BY <1>1, <1>2, <1>3, OrNullKeeps, KeepsTrans, ReturnProgress

LEMMA ResolutionProgress == ASSUME ResolverInv, Resolution PROVE Progress
<1>1. CASE AlreadyResolved
  BY <1>1, KeepsRefl DEF AlreadyResolved, At, Progress
<1>2. CASE LoopDetected
  BY <1>2, PutKeeps, Values DEF LoopDetected, At, Progress
<1>3. CASE ReadHeaderError
  <2>1. stack # <<>> /\ Top.fn # "resolve" /\ Return(Caught(object_cache))
    BY <1>3 DEF ReadHeaderError, At
  <2> QED BY <2>1, CaughtKeeps, ReturnProgress DEF Owing
<1>4. CASE EndStreamRead
  <2> DEFINE ok == RightLength(object_cache[Source.length]) \/ attempt_recovery
  <2>1. stack # <<>> /\ Top.fn # "resolve" /\ Return(cache_parsed_object(object_cache, ok))
    BY <1>4 DEF EndStreamRead, At
  <2> HIDE DEF ok
  <2> QED BY <2>1, ParsedKeeps, ReturnProgress DEF Owing
<1> QED BY <1>1, <1>2, <1>3, <1>4, DispatchProgress, ReconstructProgress, ReadBodyProgress,
           EnterProgress, EndProgress DEF Resolution

LEMMA AwaitsKept == ASSUME ResolverInv, Progress, NEW k, Awaits(k) PROVE Awaits(k)'
<1>1. Keeps(object_cache, object_cache')
  BY DEF Progress
<1>2. CASE Resolved(object_cache, k)
  BY <1>1, <1>2 DEF Keeps, Resolved, Awaits
<1>3. CASE ~Resolved(object_cache, k)
  <2> DEFINE n == Len(stack)
  <2>1. stack # <<>> /\ Outermost.key = k /\ Owing(Outermost)
    BY <1>3 DEF Awaits
  <2>2. /\ stack \in Seq(FrameSet)
        /\ Tail(stack) \in Seq(FrameSet) /\ n \in Nat /\ n # 0
        /\ DOMAIN stack = 1 .. n /\ DOMAIN Tail(stack) = 1 .. n - 1 /\ Len(Tail(stack)) = n - 1
        /\ \A i \in 1 .. n - 1 : Tail(stack)[i] = stack[i + 1]
    BY <2>1, TopFrame, TailElements
  <2>3. n = 1 => Outermost = Top
    BY DEF Outermost, Top
  <2>4. n > 1 => Tail(stack)[n - 1] = Outermost
    BY <2>2 DEF Outermost
  <2>5. CASE stack' = Tail(stack) /\ (Owing(Top) => Resolved(object_cache', Top.key))
    <3>1. CASE n = 1
      BY <2>1, <2>3, <2>5, <3>1 DEF Awaits
    <3>2. CASE n > 1
      <4>1. stack' # <<>> /\ Len(stack') = n - 1
        BY <2>2, <2>5, <3>2
      <4> QED BY <2>1, <2>4, <2>5, <3>2, <4>1 DEF Awaits, Outermost
    <3> QED BY <2>2, <3>1, <3>2
  <2>6. ASSUME NEW f \in FrameSet, f.key = Top.key, Owing(Top) => Owing(f),
               \/ stack' = Become(f)
               \/ stack' = <<Frame("resolve", Child(f), 0, FALSE)>> \o Become(f) /\ Waits(f)
        PROVE  Awaits(k)'
    <3> DEFINE s == Become(f)
    <3>1. /\ s \in Seq(FrameSet) /\ Len(s) = n /\ s[1] = f
          /\ \A i \in 1 .. n - 1 : s[i + 1] = Tail(stack)[i]
      BY <2>2, PushElements DEF Become
    <3>2. s[n].key = k /\ Owing(s[n])
      <4>1. CASE n = 1
        BY <2>1, <2>3, <2>6, <3>1, <4>1
      <4>2. CASE n > 1
        <5>1. n - 1 \in 1 .. n - 1 /\ (n - 1) + 1 = n
          BY <2>2, <4>2
        <5> QED BY <2>1, <2>4, <3>1, <4>2, <5>1
      <4> QED BY <2>2, <4>1, <4>2
    <3> HIDE DEF s
    <3>3. CASE stack' = s
      BY <2>2, <3>1, <3>2, <3>3 DEF Awaits, Outermost
    <3>4. CASE stack' = <<Frame("resolve", Child(f), 0, FALSE)>> \o s /\ Waits(f)
      <4> DEFINE g == Frame("resolve", Child(f), 0, FALSE)
      <4>0. g \in FrameSet
        BY <3>4, NestedFrame DEF Waits
      <4> HIDE DEF g
      <4>1. Len(stack') = n + 1 /\ stack'[n + 1] = s[n] /\ stack' # <<>>
        BY <2>2, <3>1, <3>4, <4>0, PushElements DEF g
      <4> QED BY <3>2, <4>1 DEF Awaits, Outermost
    <3> QED BY <2>6, <3>3, <3>4 DEF s
  <2> QED BY <2>5, <2>6 DEF Progress
<1> QED BY <1>2, <1>3

-----------------------------------------------------------------------------
(* The walk: a row that its snapshot does not hold any more is resolved or *)
(* being resolved, unless the table was rebuilt and the walk starts over.  *)

ZeroUnread(t) ==
    0 \in DOMAIN t => t[0].type = "free" \/ (t[0].type = "uncompressed" /\ t[0].at = 0)
Covered == \A k \in DOMAIN xref \cap References : k \in DOMAIN walk.todo \/ Awaits(k)
RestartDue == walk.row = "row" /\ walk.may_change /\ reconstructed_xref
WalkOK ==
    walk.active =>
        /\ op.kind \in {"all", "new"}
        /\ walk.may_change \/ reconstructed_xref
        /\ stack # <<>> => walk.row = "row"
        /\ Covered \/ RestartDue
SwapOK ==
    /\ op.kind = "swap" => Awaits(op.a)
    /\ op.kind = "exchange" => Resolved(object_cache, op.a) /\ Awaits(op.b)
WalkInv == ZeroUnread(xref) /\ ZeroUnread(walk.todo) /\ WalkOK /\ SwapOK /\ Prepared

(* A resolution rebuilds the table or leaves it, and what was prepared.    *)
LEMMA RebuildOrKeep ==
    ASSUME Resolution
    PROVE  ReconstructAndRetry \/ UNCHANGED <<xref, reconstructed_xref, fixed_dangling_refs>>
BY DEF Resolution, AlreadyResolved, LoopDetected, Dispatch, ReadHeaderError, ReadBody, EndStreamRead,
       EnterObjectStream, EndObjectStream, table

LEMMA RebuiltZero == ASSUME ZeroUnread(xref), ReconstructAndRetry PROVE ZeroUnread(xref')
<1>1. PICK last \in LastLines : xref' = reconstruct_xref_on_owner(last)
  BY DEF ReconstructAndRetry
<1>2. 0 \notin Found
  BY NumbersAssumption DEF Found, References
<1>3. 0 \in DOMAIN xref' => 0 \in DOMAIN xref /\ xref'[0] = xref[0]
  BY <1>1, <1>2 DEF reconstruct_xref_on_owner
<1> QED BY <1>3 DEF ZeroUnread

LEMMA ResolutionWalk == ASSUME ResolverInv, WalkInv, Resolution PROVE WalkInv'
<1>1. Progress /\ stack # <<>> /\ Keeps(object_cache, object_cache')
  BY ResolutionProgress DEF Progress
<1>2. walk' = walk /\ op' = op
  BY ResolutionSteps DEF ResolutionStep, client
<1>3. \A k : Awaits(k) => Awaits(k)'
  BY <1>1, AwaitsKept
<1>4. \A k : Resolved(object_cache, k) => Resolved(object_cache', k)
  BY <1>1 DEF Keeps, Resolved
<1>5. SwapOK'
  BY <1>2, <1>3, <1>4 DEF WalkInv, SwapOK
<1>6. CASE ReconstructAndRetry
  <2>1. ~reconstructed_xref /\ reconstructed_xref' /\ ~fixed_dangling_refs'
    BY <1>6 DEF ReconstructAndRetry, MayReconstruct
  <2>2. WalkOK'
    BY <1>1, <1>2, <2>1 DEF WalkInv, WalkOK, RestartDue
  <2> QED BY <1>2, <1>5, <1>6, <2>1, <2>2, RebuiltZero DEF WalkInv, Prepared
<1>7. CASE UNCHANGED <<xref, reconstructed_xref, fixed_dangling_refs>>
  <2>1. Covered => Covered'
    BY <1>2, <1>3, <1>7 DEF Covered
  <2>2. WalkOK'
    BY <1>1, <1>2, <1>7, <2>1 DEF WalkInv, WalkOK, RestartDue
  <2> QED BY <1>2, <1>4, <1>5, <1>7, <2>2 DEF WalkInv, Prepared
<1> QED BY <1>6, <1>7, RebuildOrKeep

LEMMA WalkRowWalk == ASSUME ResolverInv, WalkInv, WalkRow PROVE WalkInv'
<1>1. PICK k \in DOMAIN walk.todo :
        LET e == walk.todo[k]
            read == IF e.type = "uncompressed" /\ e.at # 0
                    THEN <<Frame("read", k, e.at, TRUE)>> ELSE <<>>
            skip == \/ k < 0 /\ e.type # "uncompressed"
                    \/ k > 0 /\ Resolved(object_cache, k)
        IN  /\ walk' = Walk(TRUE, [x \in DOMAIN walk.todo \ {k} |-> walk.todo[x]], walk.may_change,
                            IF skip THEN "none" ELSE IF k = 0 THEN "zero" ELSE "row")
            /\ object_cache' = IF k < 0 THEN object_cache ELSE get_object_handle(object_cache, {k})
            /\ stack' = IF skip THEN <<>>
                        ELSE IF k > 0 THEN <<Frame("resolve", k, 0, FALSE)>>
                        ELSE IF k = 0 /\ e.type = "compressed" THEN <<Frame("stream", 0, e.at, TRUE)>>
                        ELSE read
  BY DEF WalkRow
<1>2. /\ stack = <<>> /\ walk.active /\ walk.row = "none"
      /\ UNCHANGED <<xref, reconstructed_xref, fixed_dangling_refs, op>>
  BY DEF WalkRow, Walking, table, client
<1>3. k \in Keys /\ k \in Int
  BY NumbersAssumption DEF ResolverInv, RowsOK, RowsSound, IsTable, Keys
<1> DEFINE skip == \/ k < 0 /\ walk.todo[k].type # "uncompressed"
                   \/ k > 0 /\ Resolved(object_cache, k)
           w == [x \in DOMAIN walk.todo \ {k} |-> walk.todo[x]]
           row == IF skip THEN "none" ELSE IF k = 0 THEN "zero" ELSE "row"
<1>4. walk' = Walk(TRUE, w, walk.may_change, row)
  BY <1>1
<1>5. walk'.active /\ walk'.todo = w /\ walk'.may_change = walk.may_change /\ walk'.row = row
  BY <1>4 DEF Walk
<1>6. DOMAIN w = DOMAIN walk.todo \ {k} /\ \A x \in DOMAIN w : w[x] = walk.todo[x]
  OBVIOUS
<1>7. ZeroUnread(walk'.todo)
  BY <1>5, <1>6 DEF WalkInv, ZeroUnread
<1>8. \A x : Resolved(object_cache, x) => Resolved(object_cache', x)
  BY <1>1, HandlesKeep, KeepsRefl DEF Keeps, Resolved
<1>9. stack' # <<>> => row = "row"
  <2>1. CASE k = 0
    <3>1. stack' = <<>>
      BY <1>1, <2>1 DEF WalkInv, ZeroUnread
    <3> QED BY <3>1
  <2>2. CASE k # 0 /\ ~skip
    BY <2>2
  <2>3. CASE k # 0 /\ skip
    BY <1>1, <2>3
  <2> QED BY <2>1, <2>2, <2>3
<1>10. k \in References => Awaits(k)'
  <2> SUFFICES ASSUME k \in References PROVE Awaits(k)'
    OBVIOUS
  <2>1. k > 0
    BY NumbersAssumption DEF References
  <2>2. CASE Resolved(object_cache, k)
    BY <1>8, <2>2 DEF Awaits
  <2>3. CASE ~Resolved(object_cache, k)
    <3>1. ~skip /\ k > 0
      BY <1>3, <2>1, <2>3
    <3>2. stack' = <<Frame("resolve", k, 0, FALSE)>>
      BY <1>1, <3>1
    <3> QED BY <3>2 DEF Awaits, Outermost, Owing, Frame
  <2> QED BY <2>2, <2>3
<1> HIDE DEF w, row
<1>11. Covered'
  BY <1>2, <1>5, <1>6, <1>8, <1>10 DEF WalkInv, WalkOK, Covered, RestartDue, Awaits
<1>12. WalkOK'
  BY <1>2, <1>5, <1>9, <1>11 DEF WalkInv, WalkOK
<1> QED BY <1>2, <1>7, <1>8, <1>12 DEF WalkInv, WalkOK, SwapOK, Prepared

LEMMA StartWalkOK ==
    ASSUME ResolverInv, ZeroUnread(xref), stack' = <<>>, op'.kind \in {"all", "new"},
           walk' = StartWalk, UNCHANGED <<xref, reconstructed_xref>>
    PROVE  ZeroUnread(walk.todo)' /\ WalkOK'
<1> DEFINE e == effective_xref_entries
<1>1. walk'.todo = e /\ walk'.may_change = ~reconstructed_xref
  BY DEF StartWalk, Walk
<1>2. /\ DOMAIN e = DOMAIN xref \cup default_xref_entries
      /\ \A k \in DOMAIN xref : e[k] = xref[k]
  BY DEF effective_xref_entries
<1> HIDE DEF e
<1>3. 0 \notin default_xref_entries
  BY NumbersAssumption DEF ResolverInv, SetsOK, References
<1> QED BY <1>1, <1>2, <1>3 DEF ZeroUnread, WalkOK, Covered

LEMMA WalkNextWalk == ASSUME ResolverInv, WalkInv, WalkNext PROVE WalkInv'
<1>1. /\ stack = <<>> /\ stack' = <<>> /\ walk.active /\ walk.row # "none"
      /\ UNCHANGED <<xref, reconstructed_xref, fixed_dangling_refs, op>>
  BY DEF WalkNext, Walking, table, client
<1>2. \A x : Resolved(object_cache, x) => Resolved(object_cache', x)
  BY OrNullKeeps, KeepsRefl DEF WalkNext, Keeps, Resolved
<1>3. SwapOK' /\ Prepared'
  BY <1>1, <1>2 DEF WalkInv, WalkOK, SwapOK, Prepared
<1>4. CASE Restart
  BY <1>1, <1>3, <1>4, StartWalkOK DEF WalkNext, WalkInv, WalkOK
<1>5. CASE ~Restart
  <2> DEFINE w == Walk(TRUE, walk.todo, walk.may_change, "none")
  <2>1. walk' = w /\ w.active /\ w.todo = walk.todo /\ w.may_change = walk.may_change
    BY <1>5 DEF WalkNext, Walk
  <2>2. Covered
    BY <1>1, <1>5 DEF WalkInv, WalkOK, RestartDue, Restart
  <2>3. Covered'
    BY <1>1, <1>2, <2>1, <2>2 DEF Covered, Awaits
  <2> QED BY <1>1, <1>3, <2>1, <2>3 DEF WalkInv, WalkOK
<1> QED BY <1>4, <1>5

LEMMA WalkEndWalk == ASSUME ResolverInv, WalkInv, WalkEnd PROVE WalkInv'
<1>1. /\ stack = <<>> /\ walk.active /\ walk.row = "none" /\ DOMAIN walk.todo = {} /\ walk' = NoWalk
      /\ UNCHANGED <<xref, object_cache, op>>
  BY DEF WalkEnd, Walking, table, client
<1>2. ~NoWalk.active /\ NoWalk.todo = [k \in {} |-> 0]
  BY DEF NoWalk, Walk
<1>3. Covered
  BY <1>1 DEF WalkInv, WalkOK, RestartDue
<1>4. Prepared'
  BY <1>1, <1>3 DEF Covered, Awaits, Prepared
<1>5. ZeroUnread(walk.todo)'
  BY <1>1, <1>2 DEF ZeroUnread
<1> QED BY <1>1, <1>2, <1>4, <1>5 DEF WalkInv, WalkOK, SwapOK

-----------------------------------------------------------------------------
(* The client's operations. No walk is active, and no row loses its value  *)
(* that keeps its place in the table.                                      *)
LEMMA ClientWalk ==
    ASSUME ResolverInv, WalkInv, ~walk.active, walk' = walk, SwapOK',
           fixed_dangling_refs' = fixed_dangling_refs,
           DOMAIN xref' \subseteq DOMAIN xref, \A k \in DOMAIN xref' : xref'[k] = xref[k],
           \A k \in DOMAIN xref' : Resolved(object_cache, k) => Resolved(object_cache', k)
    PROVE  WalkInv'
BY DEF WalkInv, ZeroUnread, WalkOK, Prepared

LEMMA PrepareWalk ==
    ASSUME ResolverInv, WalkInv, NEW kind \in {"all", "new"}, Prepare(kind) PROVE WalkInv'
<1>1. /\ stack = <<>> /\ op'.kind = kind /\ walk' = IF fixed_dangling_refs THEN NoWalk ELSE StartWalk
      /\ UNCHANGED <<xref, reconstructed_xref, object_cache, fixed_dangling_refs, stack>>
  BY DEF Prepare, Idle, Op, table
<1>2. ~NoWalk.active /\ NoWalk.todo = [k \in {} |-> 0]
  BY DEF NoWalk, Walk
<1>3. ZeroUnread(walk.todo)' /\ WalkOK'
  <2>1. CASE fixed_dangling_refs
    BY <1>1, <1>2, <2>1 DEF ZeroUnread, WalkOK
  <2>2. CASE ~fixed_dangling_refs
    BY <1>1, <2>2, StartWalkOK DEF WalkInv
  <2> QED BY <2>1, <2>2
<1> QED BY <1>1, <1>3 DEF WalkInv, SwapOK, Prepared

LEMMA AllocateWalk == ASSUME ResolverInv, WalkInv, AllocateObject PROVE WalkInv'
<1>1. /\ ~walk.active /\ walk' = walk /\ op'.kind = "idle"
      /\ UNCHANGED <<xref, fixed_dangling_refs>>
  BY DEF AllocateObject, Op, table
<1>2. \A k : Resolved(object_cache, k) => Resolved(object_cache', k)
  BY PutKeeps, Values DEF AllocateObject, NewValue, Keeps, Resolved
<1> QED BY <1>1, <1>2, ClientWalk DEF SwapOK

LEMMA ReserveWalk == ASSUME ResolverInv, WalkInv, NEW k \in References, ReserveObject(k) PROVE WalkInv'
<1>1. /\ ~walk.active /\ walk' = walk /\ op'.kind = "idle"
      /\ UNCHANGED <<xref, fixed_dangling_refs>>
  BY DEF ReserveObject, Idle, table
<1>2. \A x : Resolved(object_cache, x) => Resolved(object_cache', x)
  BY PutKeeps, HandlesKeep, Values DEF ReserveObject, Keeps, Resolved
<1> QED BY <1>1, <1>2, ClientWalk DEF SwapOK

LEMMA ReplaceWalk == ASSUME ResolverInv, WalkInv, NEW k \in References, ReplaceObject(k) PROVE WalkInv'
<1>1. /\ ~walk.active /\ walk' = walk /\ op'.kind = "idle"
      /\ UNCHANGED <<xref, fixed_dangling_refs>>
  BY DEF ReplaceObject, Idle, table
<1>2. \A x : Resolved(object_cache, x) => Resolved(object_cache', x)
  BY PutKeeps, Values DEF ReplaceObject, NewValue, Keeps, Resolved
<1> QED BY <1>1, <1>2, ClientWalk DEF SwapOK

LEMMA ReadOnlyWalk ==
    ASSUME ResolverInv, WalkInv, NEW k \in References, GetObject(k) \/ Dereference(k) PROVE WalkInv'
<1>1. /\ ~walk.active /\ walk' = walk /\ op'.kind = "idle"
      /\ UNCHANGED <<xref, fixed_dangling_refs>>
  BY DEF GetObject, Dereference, Idle, table, client
<1>2. \A x : Resolved(object_cache, x) => Resolved(object_cache', x)
  BY HandlesKeep DEF GetObject, Dereference, Keeps, Resolved
<1> QED BY <1>1, <1>2, ClientWalk DEF SwapOK

LEMMA SwapWalk ==
    ASSUME ResolverInv, WalkInv, NEW a \in References, NEW b \in References, SwapObjects(a, b)
    PROVE  WalkInv'
<1>1. /\ ~walk.active /\ walk' = walk /\ op' = Op("swap", a, b)
      /\ stack' = <<Frame("resolve", a, 0, FALSE)>>
      /\ UNCHANGED <<xref, fixed_dangling_refs>>
  BY DEF SwapObjects, Idle, table
<1>2. \A x : Resolved(object_cache, x) => Resolved(object_cache', x)
  BY HandlesKeep DEF SwapObjects, Keeps, Resolved
<1>3. SwapOK'
  BY <1>1 DEF Op, SwapOK, Awaits, Outermost, Owing, Frame
<1> QED BY <1>1, <1>2, <1>3, ClientWalk

LEMMA SwapSecondWalk == ASSUME ResolverInv, WalkInv, SwapSecond PROVE WalkInv'
<1>1. /\ op.kind = "swap" /\ stack = <<>> /\ walk' = walk /\ op' = Op("exchange", op.a, op.b)
      /\ stack' = <<Frame("resolve", op.b, 0, FALSE)>>
      /\ UNCHANGED <<xref, fixed_dangling_refs>>
  BY DEF SwapSecond, table
<1>2. ~walk.active
  BY <1>1 DEF WalkInv, WalkOK
<1>3. \A x : Resolved(object_cache, x) => Resolved(object_cache', x)
  BY HandlesKeep DEF SwapSecond, Keeps, Resolved
<1>4. Resolved(object_cache, op.a)
  BY <1>1 DEF WalkInv, SwapOK, Awaits
<1>5. SwapOK'
  BY <1>1, <1>3, <1>4 DEF Op, SwapOK, Awaits, Outermost, Owing, Frame
<1> QED BY <1>1, <1>2, <1>3, <1>5, ClientWalk

LEMMA SwapValuesWalk == ASSUME ResolverInv, WalkInv, SwapValues PROVE WalkInv'
<1>1. /\ op.kind = "exchange" /\ stack = <<>> /\ walk' = walk /\ op'.kind = "idle"
      /\ UNCHANGED <<xref, fixed_dangling_refs>>
      /\ object_cache' = [object_cache EXCEPT ![op.a] = object_cache[op.b], ![op.b] = object_cache[op.a]]
  BY DEF SwapValues, Op, table
<1>2. ~walk.active
  BY <1>1 DEF WalkInv, WalkOK
<1>3. /\ op.a \in DOMAIN object_cache /\ object_cache[op.a] # Unresolved
      /\ op.b \in DOMAIN object_cache /\ object_cache[op.b] # Unresolved
  BY <1>1 DEF WalkInv, SwapOK, Awaits, Resolved
<1>4. /\ DOMAIN object_cache' = DOMAIN object_cache
      /\ \A x \in DOMAIN object_cache :
            \/ object_cache'[x] = object_cache[x]
            \/ object_cache'[x] = object_cache[op.b]
            \/ object_cache'[x] = object_cache[op.a]
  BY <1>1
<1>5. \A x : Resolved(object_cache, x) => Resolved(object_cache', x)
  BY <1>3, <1>4 DEF Resolved
<1> QED BY <1>1, <1>2, <1>5, ClientWalk DEF SwapOK

LEMMA RemoveWalk == ASSUME ResolverInv, WalkInv, NEW k \in References, RemoveObject(k) PROVE WalkInv'
<1>1. /\ ~walk.active /\ walk' = walk /\ op'.kind = "idle" /\ fixed_dangling_refs' = fixed_dangling_refs
  BY DEF RemoveObject, Idle
<1>2. /\ DOMAIN xref' = DOMAIN xref \ {k}
      /\ \A x \in DOMAIN xref' : xref'[x] = xref[x]
      /\ DOMAIN object_cache' = DOMAIN object_cache \ {k}
      /\ \A x \in DOMAIN object_cache' : object_cache'[x] = object_cache[x]
  BY DEF RemoveObject
<1>3. \A x \in DOMAIN xref' : Resolved(object_cache, x) => Resolved(object_cache', x)
  BY <1>2 DEF Resolved
<1> QED BY <1>1, <1>2, <1>3, ClientWalk DEF SwapOK

LEMMA NextWalk == ResolverInv /\ WalkInv /\ [Next]_vars => WalkInv'
<1> SUFFICES ASSUME ResolverInv, WalkInv, [Next]_vars PROVE WalkInv'
  OBVIOUS
<1>1. CASE EnumerateObjects
  <2>1. /\ ~walk.active /\ walk' = walk /\ op'.kind = "idle"
        /\ UNCHANGED <<xref, object_cache, fixed_dangling_refs>>
    BY <1>1 DEF EnumerateObjects, Op, table
  <2> QED BY <2>1, ClientWalk DEF SwapOK
<1>2. CASE Internal
  BY <1>1, <1>2, ResolutionWalk, WalkRowWalk, WalkNextWalk, WalkEndWalk, AllocateWalk,
     SwapSecondWalk, SwapValuesWalk DEF Internal
<1>3. CASE \E k \in References : \/ GetObject(k) \/ Dereference(k) \/ ReserveObject(k)
                                 \/ ReplaceObject(k) \/ RemoveObject(k)
  BY <1>3, ReadOnlyWalk, ReserveWalk, ReplaceWalk, RemoveWalk
<1>4. CASE \E a, b \in References : a # b /\ SwapObjects(a, b)
  BY <1>4, SwapWalk
<1>5. CASE \E kind \in {"all", "new"} : Prepare(kind)
  BY <1>5, PrepareWalk
<1>6. CASE UNCHANGED vars
  BY <1>6 DEF vars, table, client, WalkInv, ZeroUnread, WalkOK, Covered, Awaits, Outermost,
              RestartDue, SwapOK, Prepared
<1> QED BY <1>2, <1>3, <1>4, <1>5, <1>6 DEF Next

(* Once fix_dangling_references has run, every object that a row names has *)
(* a value, also when a row's resolution rebuilt the table, for every file *)
(* whose row for object 0 names no object (the head of the free list): an  *)
(* object 0 in use can rebuild the table behind the walk.                  *)
THEOREM PreparedRight ==
    ASSUME \A d \in Documents : ZeroUnread(d.table)
    PROVE  Spec => []Prepared
<1>1. Init => WalkInv
  <2> SUFFICES ASSUME Init PROVE WalkInv
    OBVIOUS
  <2>1. /\ ZeroUnread(xref) /\ fixed_dangling_refs = FALSE /\ walk = NoWalk /\ op.kind = "idle"
    BY DEF Init, Op
  <2>2. ~NoWalk.active /\ NoWalk.todo = [k \in {} |-> 0]
    BY DEF NoWalk, Walk
  <2> QED BY <2>1, <2>2 DEF WalkInv, ZeroUnread, WalkOK, SwapOK, Prepared
<1>2. WalkInv => Prepared
  BY DEF WalkInv
<1> QED BY <1>1, <1>2, NextWalk, Inductive, PTL DEF Spec

-----------------------------------------------------------------------------
(* Independence of the order of first uses. While the rows are the file's  *)
(* own, every frame above the outermost one is the resolution of what the  *)
(* frame below it waits for, so that a sound object never meets itself and *)
(* finds the length or the object stream that it needs.                    *)

Truthful(c) ==
    \A k \in DOMAIN c \cap References : Resolved(c, k) /\ SoundRow(k) => c[k] = DeclaredValue(k)
Nested ==
    /\ \A i \in DOMAIN stack : RowFrame(stack[i])
    /\ \A i \in 1 .. Len(stack) - 1 :
          /\ stack[i + 1].fn \in {"length", "members"}
          /\ stack[i].key = Child(stack[i + 1]) /\ Owing(stack[i])
    /\ At({"length", "members"}) => Resolved(object_cache, Child(Top))
WalkRows ==
    walk.active => \A k \in DOMAIN walk.todo :
        k \in DOMAIN xref \/ k \notin References => k \in DOMAIN xref /\ walk.todo[k] = xref[k]

(* A stream that was entered has given its members their values, or waits  *)
(* for its own.                                                            *)
Expanding(s) == \E i \in DOMAIN stack : stack[i].fn = "members" /\ stack[i].at = s
Expanded ==
    \A k \in References :
        SoundRow(k) /\ IsRow(k, "compressed") /\ xref[k].at \in resolved_object_streams =>
            Resolved(object_cache, k) \/ Expanding(xref[k].at)
OrderInv == RowsKept => Nested /\ WalkRows /\ Expanded /\ Truthful(object_cache)

SameRows == UNCHANGED <<objects, xref, reconstructed_xref>> /\ edited \subseteq edited'

(* More edits leave fewer sound rows, and the same declared values.        *)
LEMMA SoundBefore ==
    ASSUME SameRows, NEW k, SoundRow(k)' PROVE SoundRow(k) /\ DeclaredValue(k)' = DeclaredValue(k)
<1> USE DEF SameRows
<1>1. \A j, type : IsRow(j, type)' = IsRow(j, type)
  BY DEF IsRow
<1>2. \A j : RowObject(j)' = RowObject(j)
  BY DEF RowObject
<1>3. \A j : (Whole(j)' = Whole(j)) /\ (Claimed(j)' = Claimed(j))
  BY <1>1, <1>2 DEF Whole, Claimed
<1>4. \A j : Untouched(j)' => Untouched(j)
  BY <1>3 DEF Untouched
<1>5. \A j : Readable(j)' => Readable(j)
  BY <1>2, <1>3, <1>4 DEF Readable
<1>6. \A s : Holds(s, k)' => Holds(s, k)
  BY <1>2, <1>4, <1>5 DEF Holds
<1>7. SoundRow(k)
  BY <1>1, <1>4, <1>5, <1>6 DEF SoundRow
<1>8. DeclaredValue(k)' = DeclaredValue(k)
  BY DEF DeclaredValue, IsRow
<1> QED BY <1>7, <1>8

LEMMA KeptBefore == ASSUME SameRows, RowsKept' PROVE RowsKept
BY DEF SameRows, RowsKept

LEMMA FrameBefore == ASSUME SameRows, NEW f PROVE RowFrame(f)' = RowFrame(f) /\ Child(f)' = Child(f)
BY DEF SameRows, RowFrame, Child, IsRow

LEMMA NestedKept ==
    ASSUME ResolverInv, RowsKept, Nested, Progress, SameRows PROVE Nested'
<1> DEFINE n == Len(stack)
           t == Tail(stack)
<1>1. /\ stack \in Seq(FrameSet) /\ t \in Seq(FrameSet) /\ n \in Nat /\ n # 0
      /\ DOMAIN stack = 1 .. n /\ DOMAIN t = 1 .. n - 1 /\ Len(t) = n - 1
      /\ \A i \in 1 .. n - 1 : t[i] = stack[i + 1]
  BY TopFrame, TailElements DEF Progress
<1>2. \A i \in 1 .. n : RowFrame(stack[i])
  BY <1>1 DEF Nested
<1>3. \A i \in 1 .. n - 1 : /\ stack[i + 1].fn \in {"length", "members"}
                            /\ stack[i].key = Child(stack[i + 1]) /\ Owing(stack[i])
  BY DEF Nested
<1>4. Top = stack[1]
  BY DEF Top
<1> HIDE DEF n, t
<1>5. ASSUME stack' = t, Owing(Top) => Resolved(object_cache', Top.key) PROVE Nested'
  <2>1. \A i \in 1 .. n - 1 : RowFrame(t[i])
    BY <1>1, <1>2
  <2>2. \A i \in 1 .. (n - 1) - 1 : /\ t[i + 1].fn \in {"length", "members"}
                                    /\ t[i].key = Child(t[i + 1]) /\ Owing(t[i])
    <3> SUFFICES ASSUME NEW i \in 1 .. (n - 1) - 1
                 PROVE  /\ t[i + 1].fn \in {"length", "members"}
                        /\ t[i].key = Child(t[i + 1]) /\ Owing(t[i])
      OBVIOUS
    <3>1. i \in 1 .. n - 1 /\ i + 1 \in 1 .. n - 1
      BY <1>1
    <3>2. t[i] = stack[i + 1] /\ t[i + 1] = stack[(i + 1) + 1]
      BY <1>1, <3>1
    <3> QED BY <1>3, <3>1, <3>2
  <2>3. n > 1 => t[1] = stack[2] /\ Resolved(object_cache', Child(t[1]))
    BY <1>1, <1>3, <1>4, <1>5
  <2>4. At({"length", "members"})' => n > 1 /\ Top' = t[1]
    BY <1>1, <1>5 DEF At, Top
  <2> QED BY <1>1, <1>5, <2>1, <2>2, <2>3, <2>4, FrameBefore DEF Nested
<1>6. ASSUME NEW f \in FrameSet, f.key = Top.key, Owing(Top) => Owing(f), RowFrame(f)
      PROVE  /\ Become(f) \in Seq(FrameSet) /\ Len(Become(f)) = n /\ DOMAIN Become(f) = 1 .. n
             /\ Become(f)[1] = f /\ \A i \in 1 .. n - 1 : Become(f)[i + 1] = stack[i + 1]
             /\ \A i \in 1 .. n : RowFrame(Become(f)[i])
             /\ \A i \in 1 .. n - 1 : /\ Become(f)[i + 1].fn \in {"length", "members"}
                                      /\ Become(f)[i].key = Child(Become(f)[i + 1])
                                      /\ Owing(Become(f)[i])
  <2> DEFINE s == Become(f)
  <2>1. /\ s \in Seq(FrameSet) /\ Len(s) = n /\ DOMAIN s = 1 .. n
        /\ s[1] = f /\ \A i \in 1 .. n - 1 : s[i + 1] = t[i]
    BY <1>1, PushElements DEF Become, t
  <2> HIDE DEF s
  <2>2. \A i \in 1 .. n - 1 : s[i + 1] = stack[i + 1]
    BY <1>1, <2>1
  <2>3. \A i \in 1 .. n : i = 1 \/ s[i] = stack[i]
    <3> SUFFICES ASSUME NEW i \in 1 .. n, i # 1 PROVE s[i] = stack[i]
      OBVIOUS
    <3>1. i - 1 \in 1 .. n - 1 /\ (i - 1) + 1 = i
      BY <1>1
    <3> QED BY <2>2, <3>1
  <2>4. \A i \in 1 .. n : RowFrame(s[i])
    BY <1>2, <1>6, <2>1, <2>3
  <2>5. \A i \in 1 .. n : s[i].key = stack[i].key /\ (Owing(stack[i]) => Owing(s[i]))
    BY <1>4, <1>6, <2>1, <2>3
  <2>6. \A i \in 1 .. n - 1 : i \in 1 .. n
    BY <1>1
  <2> QED BY <1>3, <2>1, <2>2, <2>4, <2>5, <2>6 DEF s
<1>7. ASSUME NEW f \in FrameSet, f.key = Top.key, Owing(Top) => Owing(f), stack' = Become(f), Begun(f)
      PROVE  Nested'
  <2>1. RowFrame(f) /\ f.fn \in {"read", "stream"}
    BY <1>7 DEF Begun, RowsKept, SameRows
  <2>2. ~At({"length", "members"})'
    BY <1>6, <1>7, <2>1 DEF At, Top
  <2> QED BY <1>1, <1>6, <1>7, <2>1, <2>2, FrameBefore DEF Nested
<1>8. ASSUME NEW f \in FrameSet, f.key = Top.key, Owing(Top) => Owing(f), Waits(f),
             stack' = <<Frame("resolve", Child(f), 0, FALSE)>> \o Become(f)
      PROVE  Nested'
  <2> DEFINE g == Frame("resolve", Child(f), 0, FALSE)
             s == Become(f)
             u == <<g>> \o s
  <2>1. RowFrame(f) /\ f.fn \in {"length", "members"}
    BY <1>1, <1>2, <1>4, <1>8 DEF Waits
  <2>2. g \in FrameSet /\ g.key = Child(f) /\ g.fn = "resolve" /\ RowFrame(g) /\ Owing(g)
    BY <1>8, NestedFrame DEF Waits, Frame, RowFrame, Owing
  <2>3. /\ s \in Seq(FrameSet) /\ Len(s) = n
        /\ s[1] = f
        /\ \A i \in 1 .. n : RowFrame(s[i])
        /\ \A i \in 1 .. n - 1 : /\ s[i + 1].fn \in {"length", "members"}
                                 /\ s[i].key = Child(s[i + 1]) /\ Owing(s[i])
    BY <1>6, <1>8, <2>1
  <2> HIDE DEF g, s
  <2>4. /\ u \in Seq(FrameSet) /\ Len(u) = n + 1 /\ DOMAIN u = 1 .. n + 1 /\ u[1] = g
        /\ \A i \in 1 .. n : u[i + 1] = s[i]
    BY <1>1, <2>2, <2>3, PushElements
  <2> HIDE DEF u
  <2>5. \A i \in 1 .. n + 1 : i = 1 \/ (i - 1 \in 1 .. n /\ u[i] = s[i - 1])
    <3> SUFFICES ASSUME NEW i \in 1 .. n + 1, i # 1 PROVE i - 1 \in 1 .. n /\ u[i] = s[i - 1]
      OBVIOUS
    <3>1. i - 1 \in 1 .. n /\ (i - 1) + 1 = i
      BY <1>1
    <3> QED BY <2>4, <3>1
  <2>6. \A i \in 1 .. n + 1 : RowFrame(u[i])
    BY <2>2, <2>3, <2>4, <2>5
  <2>7. \A i \in 1 .. (n + 1) - 1 : /\ u[i + 1].fn \in {"length", "members"}
                                    /\ u[i].key = Child(u[i + 1]) /\ Owing(u[i])
    <3> SUFFICES ASSUME NEW i \in 1 .. (n + 1) - 1
                 PROVE  /\ u[i + 1].fn \in {"length", "members"}
                        /\ u[i].key = Child(u[i + 1]) /\ Owing(u[i])
      OBVIOUS
    <3>1. i \in 1 .. n /\ i \in 1 .. n + 1 /\ u[i + 1] = s[i]
      BY <1>1, <2>4
    <3>2. CASE i = 1
      BY <2>1, <2>2, <2>3, <2>4, <3>1, <3>2
    <3>3. CASE i # 1
      <4>1. i - 1 \in 1 .. n - 1 /\ (i - 1) + 1 = i /\ u[i] = s[i - 1]
        BY <1>1, <2>5, <3>1, <3>3
      <4> QED BY <2>3, <3>1, <4>1
    <3> QED BY <3>2, <3>3
  <2>8. stack' = u
    BY <1>8 DEF u, g, s
  <2>9. ~At({"length", "members"})'
    BY <2>2, <2>4, <2>8 DEF At, Top
  <2> QED BY <1>1, <2>4, <2>6, <2>7, <2>8, <2>9, FrameBefore DEF Nested
<1> QED BY <1>5, <1>7, <1>8 DEF Progress, t

(* The frames below the top one stay.                                      *)
LEMMA LowerFrames ==
    ASSUME ResolverInv, Progress, NEW i \in DOMAIN stack, i # 1
    PROVE  \E j \in DOMAIN stack' : stack'[j] = stack[i]
<1> DEFINE n == Len(stack)
           t == Tail(stack)
<1>1. /\ stack \in Seq(FrameSet) /\ t \in Seq(FrameSet) /\ n \in Nat /\ n # 0
      /\ DOMAIN stack = 1 .. n /\ DOMAIN t = 1 .. n - 1 /\ Len(t) = n - 1
      /\ \A j \in 1 .. n - 1 : t[j] = stack[j + 1]
  BY TopFrame, TailElements DEF Progress
<1>2. i - 1 \in 1 .. n - 1 /\ (i - 1) + 1 = i /\ t[i - 1] = stack[i]
  BY <1>1
<1> HIDE DEF n, t
<1>3. CASE stack' = t
  BY <1>1, <1>2, <1>3
<1>4. ASSUME NEW f \in FrameSet
      PROVE  /\ Become(f) \in Seq(FrameSet) /\ Len(Become(f)) = n /\ DOMAIN Become(f) = 1 .. n
             /\ Become(f)[i] = stack[i]
  BY <1>1, <1>2, PushElements DEF Become, t
<1>5. ASSUME NEW f \in FrameSet, stack' = Become(f) PROVE \E j \in DOMAIN stack' : stack'[j] = stack[i]
  BY <1>1, <1>4, <1>5
<1>6. ASSUME NEW f \in FrameSet, Waits(f),
             stack' = <<Frame("resolve", Child(f), 0, FALSE)>> \o Become(f)
      PROVE  \E j \in DOMAIN stack' : stack'[j] = stack[i]
  <2> DEFINE g == Frame("resolve", Child(f), 0, FALSE)
             s == Become(f)
  <2>1. g \in FrameSet
    BY <1>6, NestedFrame DEF Waits
  <2>2. s \in Seq(FrameSet) /\ Len(s) = n /\ s[i] = stack[i]
    BY <1>4
  <2> HIDE DEF g, s
  <2>3. i \in 1 .. n /\ i + 1 \in 1 .. n + 1
    BY <1>1
  <2>4. i + 1 \in DOMAIN (<<g>> \o s) /\ (<<g>> \o s)[i + 1] = s[i]
    BY <2>1, <2>2, <2>3, PushElements
  <2> QED BY <1>6, <2>2, <2>4 DEF g, s
<1> QED BY <1>3, <1>5, <1>6 DEF Progress, t

-----------------------------------------------------------------------------
(* What a sound object can rely on.                                        *)

(* Only its own row leads to an object with its number.                    *)
LEMMA OwnRow ==
    ASSUME NEW k, SoundRow(k), At({"read", "length"}), RowFrame(Top), Source.header = k
    PROVE  Top.key = k /\ DeclaredValue(k) = Value("read", Top.at)
<1>1. IsRow(Top.key, "uncompressed") /\ xref[Top.key].at = Top.at /\ Top.at # 0
  BY DEF At, RowFrame
<1>2. RowObject(Top.key).header = k
  BY <1>1 DEF RowObject, Source
<1>3. Top.key = k
  BY <1>1, <1>2 DEF SoundRow, Untouched, Claimed, IsRow
<1> QED BY <1>1, <1>3 DEF DeclaredValue, IsRow

(* A read for it finds it.                                                 *)
LEMMA OwnSource ==
    ASSUME SoundRow(Top.key), At({"read", "length"}), RowFrame(Top)
    PROVE  /\ Source.header = Top.key /\ Source.body # "broken"
           /\ Readable(Top.key) /\ Source = RowObject(Top.key)
<1>1. IsRow(Top.key, "uncompressed") /\ xref[Top.key].at = Top.at
  BY DEF At, RowFrame
<1>2. Readable(Top.key) /\ Source = RowObject(Top.key)
  BY <1>1 DEF SoundRow, RowObject, Source
<1> QED BY <1>2 DEF Readable, Whole

(* The object that a whole stream needs for its length is an integer.      *)
LEMMA LengthFrame ==
    ASSUME NEW f, RowFrame(f), f.fn = "length", Readable(f.key)
    PROVE  /\ Whole(Child(f)) /\ RowObject(Child(f)).body = "int" /\ Untouched(Child(f))
           /\ SoundRow(Child(f)) /\ Indirect(RowObject(f.key))
<1>1. IsRow(f.key, "uncompressed") /\ xref[f.key].at = f.at /\ Indirect(objects[f.at])
  BY DEF RowFrame
<1>2. RowObject(f.key) = objects[f.at] /\ Child(f) = RowObject(f.key).length
  BY <1>1 DEF RowObject, Child
<1>3. Whole(Child(f)) /\ RowObject(Child(f)).body = "int" /\ Untouched(Child(f))
  BY <1>1, <1>2 DEF Readable
<1>4. Readable(Child(f))
  BY <1>3 DEF Readable, Indirect
<1>5. IsRow(Child(f), "uncompressed") /\ ~IsRow(Child(f), "compressed")
  BY <1>3 DEF Whole, IsRow
<1> QED BY <1>1, <1>2, <1>3, <1>4, <1>5 DEF SoundRow

(* A frame of an integer waits for nothing: a stream that waits for one    *)
(* has at most the resolution of the integer above it.                     *)
LEMMA IntegerOnTop ==
    ASSUME ResolverInv, Nested, NEW i \in DOMAIN stack, i # 1, NEW j, Whole(j), RowObject(j).body = "int",
           stack[i - 1].key = j
    PROVE  i = 2 /\ Top.key = j
<1>1. /\ stack \in Seq(FrameSet) /\ Len(stack) \in Nat /\ DOMAIN stack = 1 .. Len(stack)
  BY DEF ResolverInv, StackOK, Frames
<1>2. CASE i = 2
  BY <1>2 DEF Top
<1>3. CASE i # 2
  <2>1. i - 2 \in 1 .. Len(stack) - 1 /\ (i - 2) + 1 = i - 1 /\ i - 1 \in DOMAIN stack
    BY <1>1, <1>3
  <2>2. stack[i - 1].fn \in {"length", "members"} /\ RowFrame(stack[i - 1])
    BY <2>1 DEF Nested
  <2>3. IsRow(j, "uncompressed") /\ ~IsRow(j, "compressed")
    BY DEF Whole, IsRow
  <2>4. Indirect(objects[xref[j].at])
    BY <2>2, <2>3 DEF RowFrame
  <2> QED BY <2>4 DEF RowObject, Indirect
<1> QED BY <1>2, <1>3

LEMMA LengthOnTop ==
    ASSUME ResolverInv, Nested, NEW i \in DOMAIN stack, i # 1, stack[i].fn = "length",
           Readable(stack[i].key)
    PROVE  i = 2 /\ Whole(Top.key) /\ RowObject(Top.key).body = "int"
<1>1. /\ stack \in Seq(FrameSet) /\ Len(stack) \in Nat /\ DOMAIN stack = 1 .. Len(stack)
  BY DEF ResolverInv, StackOK, Frames
<1>2. i - 1 \in 1 .. Len(stack) - 1 /\ (i - 1) + 1 = i
  BY <1>1
<1>3. stack[i - 1].key = Child(stack[i]) /\ RowFrame(stack[i])
  BY <1>2 DEF Nested
<1> DEFINE j == Child(stack[i])
<1>4. Whole(j) /\ RowObject(j).body = "int"
  BY <1>3, LengthFrame
<1> HIDE DEF j
<1>5. stack[i - 1].key = j
  BY <1>3 DEF j
<1> QED BY <1>4, <1>5, IntegerOnTop

(* An object stream with a sound member has only its own resolution above  *)
(* it, down to its length.                                                 *)
LEMMA MembersOnTop ==
    ASSUME ResolverInv, Nested, NEW i \in DOMAIN stack, i # 1, stack[i].fn = "members",
           Readable(stack[i].at)
    PROVE  Whole(Top.key)
<1>1. /\ stack \in Seq(FrameSet) /\ Len(stack) \in Nat /\ DOMAIN stack = 1 .. Len(stack)
  BY DEF ResolverInv, StackOK, Frames
<1>2. i - 1 \in 1 .. Len(stack) - 1 /\ (i - 1) + 1 = i /\ i - 1 \in DOMAIN stack
  BY <1>1
<1> DEFINE s == stack[i].at
<1>3. stack[i - 1].key = s
  BY <1>2 DEF Nested, Child
<1>4. Whole(s)
  BY DEF Readable
<1>5. CASE i = 2
  BY <1>3, <1>4, <1>5 DEF Top
<1>6. CASE i # 2
  <2>1. i - 2 \in 1 .. Len(stack) - 1 /\ (i - 2) + 1 = i - 1 /\ i - 1 # 1
    BY <1>1, <1>6
  <2>2. stack[i - 1].fn \in {"length", "members"} /\ RowFrame(stack[i - 1])
    BY <1>2, <2>1 DEF Nested
  <2>3. stack[i - 1].fn = "length"
    BY <1>3, <1>4, <2>2 DEF RowFrame, Whole, IsRow
  <2> QED BY <1>2, <1>3, <2>1, <2>3, LengthOnTop
<1> QED BY <1>5, <1>6

(* A sound object is not met while it is being resolved.                   *)
LEMMA NoLoop ==
    ASSUME ResolverInv, Nested, LoopDetected, SoundRow(Top.key) PROVE FALSE
<1>1. stack # <<>> /\ Top.fn = "resolve" /\ Top.key \in resolving
  BY DEF LoopDetected, At
<1>2. PICK i \in DOMAIN stack : Marked(stack[i]) /\ stack[i].key = Top.key
  BY <1>1 DEF ResolverInv, StackOK, MarksOf
<1>3. i # 1 /\ stack[i].fn # "resolve"
  BY <1>1, <1>2 DEF Marked, Top
<1>4. i - 1 \in 1 .. Len(stack) - 1 /\ (i - 1) + 1 = i
  BY <1>3 DEF ResolverInv, StackOK, Frames
<1>5. stack[i].fn \in {"length", "members"} /\ RowFrame(stack[i])
  BY <1>4 DEF Nested
<1>6. CASE stack[i].fn = "length"
  <2>1. IsRow(Top.key, "uncompressed") /\ Readable(Top.key)
    BY <1>2, <1>5, <1>6 DEF RowFrame, SoundRow
  <2>2. RowObject(Top.key).body = "int"
    BY <1>2, <1>3, <1>6, <2>1, LengthOnTop
  <2>3. Indirect(RowObject(Top.key))
    BY <1>2, <1>5, <1>6, <2>1, LengthFrame
  <2> QED BY <2>2, <2>3 DEF Indirect
<1>7. CASE stack[i].fn = "members"
  <2>1. IsRow(Top.key, "compressed") /\ xref[Top.key].at = stack[i].at
    BY <1>2, <1>5, <1>7 DEF RowFrame
  <2>2. Readable(stack[i].at)
    BY <2>1 DEF SoundRow, Holds
  <2>3. Whole(Top.key)
    BY <1>3, <1>7, <2>2, MembersOnTop
  <2> QED BY <2>1, <2>3 DEF Whole, IsRow
<1> QED BY <1>5, <1>6, <1>7

(* Its length is right, and a member's stream is the declared one.         *)
LEMMA SoundValue ==
    ASSUME Truthful(object_cache), NEW k \in References, Resolved(object_cache, k), SoundRow(k)
    PROVE  k \in DOMAIN object_cache /\ object_cache[k] = DeclaredValue(k)
BY DEF Truthful, Resolved

LEMMA SoundLength ==
    ASSUME ResolverInv, Nested, Truthful(object_cache), At({"length"}), SoundRow(Top.key)
    PROVE  RightLength(object_cache[Source.length])
<1>1. /\ stack # <<>> /\ Top.fn = "length" /\ Source \in ObjectSet
  BY SourceObject DEF At
<1>2. RowFrame(Top)
  BY <1>1, TailElements DEF Nested, Top, ResolverInv, StackOK, Frames
<1> DEFINE n == Source.length
<1>3. n = Child(Top) /\ n \in References
  <2>1. Indirect(Source) /\ n = Child(Top)
    BY <1>1, <1>2 DEF RowFrame, Source, Child
  <2> QED BY <1>1, <2>1 DEF Indirect, ObjectSet
<1>4. Readable(Top.key)
  BY <1>1, <1>2, OwnSource DEF At
<1>5. Whole(n) /\ RowObject(n).body = "int" /\ SoundRow(n)
  BY <1>1, <1>2, <1>3, <1>4, LengthFrame
<1>6. Resolved(object_cache, n)
  BY <1>1, <1>3 DEF Nested, At
<1>7. object_cache[n] = Value("read", xref[n].at)
  BY <1>3, <1>5, <1>6, SoundValue DEF DeclaredValue, Whole, IsRow
<1> QED BY <1>5, <1>7, ValueFields DEF RightLength, RowObject

LEMMA SoundStream ==
    ASSUME ResolverInv, Nested, Truthful(object_cache), At({"members"}), NEW k \in References,
           SoundRow(k), IsRow(k, "compressed"), xref[k].at = Top.at
    PROVE  /\ object_cache[Top.at] = Value("read", xref[Top.at].at)
           /\ DeclaredValue(k) = Value("member", xref[Top.at].at)
<1>1. stack # <<>> /\ Top.fn = "members" /\ Top.at \in References
  BY TopFrame DEF At, FrameSound
<1>2. Readable(Top.at) /\ Untouched(Top.at)
  BY DEF SoundRow, Holds
<1>3. IsRow(Top.at, "uncompressed") /\ ~IsRow(Top.at, "compressed")
  BY <1>2 DEF Readable, Whole, IsRow
<1>4. SoundRow(Top.at)
  BY <1>2, <1>3 DEF SoundRow
<1>5. Resolved(object_cache, Top.at)
  BY <1>1 DEF Nested, At, Child
<1> QED BY <1>1, <1>3, <1>4, <1>5, SoundValue DEF DeclaredValue

-----------------------------------------------------------------------------
(* What a resolution stores is true.                                       *)

LEMMA PutTruthful ==
    ASSUME NEW c, Truthful(c), NEW k, NEW v, k \in References /\ SoundRow(k) => v = DeclaredValue(k)
    PROVE  Truthful(Put(c, k, v))
<1>1. DOMAIN Put(c, k, v) = DOMAIN c \cup {k}
  BY DEF Put
<1>2. \A x \in DOMAIN c \cup {k} : Put(c, k, v)[x] = IF x = k THEN v ELSE c[x]
  BY DEF Put
<1> QED BY <1>1, <1>2 DEF Truthful, Resolved

LEMMA HandlesTruthful ==
    ASSUME NEW c, Truthful(c), NEW K PROVE Truthful(get_object_handle(c, K))
<1>1. DOMAIN get_object_handle(c, K) = DOMAIN c \cup K
  BY DEF get_object_handle
<1>2. \A x \in DOMAIN c \cup K : get_object_handle(c, K)[x] = IF x \in DOMAIN c THEN c[x] ELSE Unresolved
  BY DEF get_object_handle
<1> QED BY <1>1, <1>2 DEF Truthful, Resolved

LEMMA OrNullTruthful ==
    ASSUME NEW c, Truthful(c), NEW k, k \in References /\ SoundRow(k) => Resolved(c, k)
    PROVE  Truthful(OrNull(c, k))
BY PutTruthful DEF OrNull

LEMMA ParsedTruthful ==
    ASSUME At({"read", "length"}), RowFrame(Top), NEW c, Truthful(c), NEW ok, SoundRow(Top.key) => ok
    PROVE  Truthful(cache_parsed_object(c, ok))
<1> DEFINE h == Source.header
           filed == IF Resolved(c, h) THEN c ELSE Put(c, h, Value("read", Top.at))
<1>1. Truthful(filed)
  BY OwnRow, PutTruthful
<1>2. ~ok => Truthful(Caught(c))
  BY OrNullTruthful DEF Caught
<1>3. h # Top.key => Truthful(Put(filed, Top.key, Null))
  <2> HIDE DEF filed
  <2> QED BY <1>1, OwnSource, PutTruthful
<1>4. cache_parsed_object(c, ok) = IF ~ok THEN Caught(c)
                                   ELSE IF Top.raw \/ h = Top.key THEN filed ELSE Put(filed, Top.key, Null)
  BY DEF cache_parsed_object
<1> HIDE DEF filed, h
<1> QED BY <1>1, <1>2, <1>3, <1>4

Ordered == Nested /\ WalkRows /\ Expanded /\ Truthful(object_cache)

LEMMA TopRow == ASSUME ResolverInv, Nested, stack # <<>> PROVE RowFrame(Top)
BY TailElements DEF Nested, Top, ResolverInv, StackOK, Frames

LEMMA DispatchTruthful ==
    ASSUME ResolverInv, Ordered, Dispatch PROVE Truthful(object_cache')
<1> DEFINE k == Top.key
<1>1. Truthful(object_cache)
  BY DEF Ordered
<1>2. CASE (IsRow(k, "uncompressed") /\ xref[k].at # 0) \/ IsRow(k, "compressed")
  BY <1>1, <1>2 DEF Dispatch
<1>3. CASE ~(IsRow(k, "uncompressed") /\ xref[k].at # 0) /\ ~IsRow(k, "compressed")
  <2>1. object_cache' = Put(object_cache, k, Null)
    BY <1>3 DEF Dispatch, Return
  <2>2. SoundRow(k) => Null = DeclaredValue(k)
    BY <1>3 DEF SoundRow, Readable, Whole, DeclaredValue
  <2> QED BY <1>1, <2>1, <2>2, PutTruthful
<1> QED BY <1>2, <1>3

LEMMA HeaderErrorTruthful ==
    ASSUME ResolverInv, Ordered, ReadHeaderError PROVE Truthful(object_cache')
<1>1. object_cache' = Caught(object_cache) /\ At({"read", "retry"}) /\ HeaderError /\ stack # <<>>
  BY DEF ReadHeaderError, Return, At
<1>2. RowFrame(Top)
  BY <1>1, TopRow DEF Ordered
<1>3. Top.key \in References => ~SoundRow(Top.key)
  <2> SUFFICES ASSUME Top.key \in References, SoundRow(Top.key) PROVE FALSE
    OBVIOUS
  <2>1. At({"read", "length"})
    BY <1>1, <1>2 DEF At, RowFrame
  <2>2. Source.header = Top.key
    BY <1>2, <2>1, OwnSource
  <2>3. Top.key # 0
    BY NumbersAssumption DEF References
  <2> QED BY <1>1, <2>2, <2>3 DEF HeaderError
<1> QED BY <1>1, <1>3, OrNullTruthful DEF Ordered, Caught

LEMMA ReadBodyTruthful ==
    ASSUME ResolverInv, Ordered, ReadBody PROVE Truthful(object_cache')
<1> DEFINE indirect == Source.body \in {"stream", "objstm"} /\ Source.length # 0
           c == get_object_handle(object_cache,
                    Source.refs \cup (IF indirect THEN {Source.length} ELSE {}))
<1>1. At({"read", "retry"}) /\ stack # <<>>
  BY DEF ReadBody, At
<1>2. RowFrame(Top)
  BY <1>1, TopRow DEF Ordered
<1>3. At({"read", "length"})
  BY <1>1, <1>2 DEF At, RowFrame
<1>4. Truthful(c)
  BY HandlesTruthful DEF Ordered
<1>5. CASE indirect
  BY <1>4, <1>5 DEF ReadBody
<1>6. CASE ~indirect
  <2>1. object_cache' = cache_parsed_object(c, Source.body # "broken")
    BY <1>6 DEF ReadBody, Return
  <2>2. SoundRow(Top.key) => Source.body # "broken"
    BY <1>2, <1>3, OwnSource
  <2> HIDE DEF c
  <2> QED BY <1>2, <1>3, <1>4, <2>1, <2>2, ParsedTruthful
<1> QED BY <1>5, <1>6

LEMMA EndReadTruthful ==
    ASSUME ResolverInv, Ordered, EndStreamRead PROVE Truthful(object_cache')
<1> DEFINE ok == RightLength(object_cache[Source.length]) \/ attempt_recovery
<1>1. At({"length"}) /\ stack # <<>> /\ object_cache' = cache_parsed_object(object_cache, ok)
  BY DEF EndStreamRead, At, Return
<1>2. RowFrame(Top) /\ At({"read", "length"})
  BY <1>1, TopRow DEF Ordered, At
<1>3. SoundRow(Top.key) => ok
  BY <1>1, SoundLength DEF Ordered
<1> HIDE DEF ok
<1> QED BY <1>1, <1>2, <1>3, ParsedTruthful DEF Ordered

(* A stream that was entered before has given its sound members their      *)
(* values: it cannot be waiting for its own below one of them.             *)
LEMMA EnterTruthful ==
    ASSUME ResolverInv, Ordered, EnterObjectStream PROVE Truthful(object_cache')
<1>1. At({"stream"}) /\ stack # <<>> /\ Top.fn = "stream"
  BY DEF EnterObjectStream, At
<1>2. CASE Top.at \in resolved_object_streams
  <2>1. object_cache' = OrNull(object_cache, Top.key)
    BY <1>2 DEF EnterObjectStream, Return
  <2>2. IsRow(Top.key, "compressed") /\ xref[Top.key].at = Top.at
    BY <1>1, TopRow DEF Ordered, RowFrame
  <2>3. ASSUME Top.key \in References, SoundRow(Top.key) PROVE Resolved(object_cache, Top.key)
    <3>1. Readable(Top.at)
      BY <2>2, <2>3 DEF SoundRow, Holds
    <3>2. ~Whole(Top.key)
      BY <2>2 DEF Whole, IsRow
    <3>3. ~Expanding(Top.at)
      <4> SUFFICES ASSUME NEW i \in DOMAIN stack, stack[i].fn = "members", stack[i].at = Top.at
                   PROVE  FALSE
        BY DEF Expanding
      <4>1. i # 1
        BY <1>1 DEF Top
      <4> QED BY <3>1, <3>2, <4>1, MembersOnTop DEF Ordered
    <3> QED BY <1>2, <2>2, <2>3, <3>3 DEF Ordered, Expanded
  <2> QED BY <2>1, <2>3, OrNullTruthful DEF Ordered
<1>3. CASE Top.at \notin resolved_object_streams
  BY <1>3, HandlesTruthful DEF EnterObjectStream, Ordered
<1> QED BY <1>2, <1>3

(* The end of an object stream: every sound member gets its declared value.*)
LEMMA EndStreamTruthful ==
    ASSUME ResolverInv, Ordered, EndObjectStream
    PROVE  /\ Truthful(object_cache')
           /\ \A k \in References : SoundRow(k) /\ IsRow(k, "compressed") /\ xref[k].at = Top.at =>
                  Resolved(object_cache', k)
<1> DEFINE v == object_cache[Top.at]
           o == objects[v.at]
           here(m) == IsRow(m, "compressed") /\ xref[m].at = Top.at
           listed == IF v.kind = "read" /\ o.body = "objstm"
                     THEN {m \in o.members : o.bad # 0 /\ here(o.bad) => m < o.bad}
                     ELSE {}
           installed == InstalledMembers(listed)
           g == [k \in DOMAIN object_cache \cup installed |->
                    IF k \in installed THEN Value("member", v.at) ELSE object_cache[k]]
<1>1. At({"members"}) /\ stack # <<>> /\ Top.fn = "members" /\ object_cache' = OrNull(g, Top.key)
  BY DEF EndObjectStream, At, Return
<1>2. IsRow(Top.key, "compressed") /\ xref[Top.key].at = Top.at
  BY <1>1, TopRow DEF Ordered, RowFrame
<1>3. ASSUME NEW k \in References, SoundRow(k), IsRow(k, "compressed"), xref[k].at = Top.at
      PROVE  k \in installed /\ DeclaredValue(k) = Value("member", v.at)
  <2>1. v = Value("read", xref[Top.at].at) /\ DeclaredValue(k) = Value("member", xref[Top.at].at)
    BY <1>1, <1>3, SoundStream DEF Ordered
  <2>2. v.kind = "read" /\ v.at = xref[Top.at].at
    BY <2>1, ValueFields
  <2>3. o = RowObject(Top.at) /\ Holds(Top.at, k)
    BY <1>3, <2>2 DEF RowObject, SoundRow
  <2>4. o.body = "objstm" /\ k \in o.members /\ o.bad = 0
    BY <2>3 DEF Holds
  <2>5. k \in listed
    BY <2>2, <2>4
  <2> QED BY <1>3, <2>1, <2>2, <2>5 DEF InstalledMembers
<1>4. \A k \in installed : IsRow(k, "compressed") /\ xref[k].at = Top.at
  BY DEF InstalledMembers
<1>5. DOMAIN g = DOMAIN object_cache \cup installed
  OBVIOUS
<1>6. \A k \in DOMAIN g : g[k] = IF k \in installed THEN Value("member", v.at) ELSE object_cache[k]
  OBVIOUS
<1> HIDE DEF installed, g
<1>7. Truthful(g)
  BY <1>3, <1>4, <1>5, <1>6 DEF Truthful, Resolved, Ordered
<1>8. \A k \in installed : Resolved(g, k)
  BY <1>5, <1>6, Values DEF Resolved
<1>9. Truthful(object_cache')
  BY <1>1, <1>2, <1>3, <1>7, <1>8, OrNullTruthful
<1>10. Keeps(g, object_cache')
  BY <1>1, OrNullKeeps
<1> QED BY <1>3, <1>8, <1>9, <1>10 DEF Keeps, Resolved

LEMMA ResolutionTruthful ==
    ASSUME ResolverInv, Ordered, Resolution, ~ReconstructAndRetry PROVE Truthful(object_cache')
<1>1. CASE AlreadyResolved
  BY <1>1 DEF AlreadyResolved, Ordered
<1>2. CASE LoopDetected
  <2>1. ~SoundRow(Top.key)
    BY <1>2, NoLoop DEF Ordered
  <2> QED BY <1>2, <2>1, PutTruthful DEF LoopDetected, Ordered
<1> QED BY <1>1, <1>2, DispatchTruthful, HeaderErrorTruthful, ReadBodyTruthful, EndReadTruthful,
           EnterTruthful, EndStreamTruthful DEF Resolution

(* The frame of a stream that waits stays until its members have values.   *)
LEMMA ResolutionExpanded ==
    ASSUME ResolverInv, Ordered, Resolution, ~ReconstructAndRetry, SameRows PROVE Expanded'
<1>1. Progress /\ stack # <<>>
  BY ResolutionProgress DEF Progress
<1>2. \A k : Resolved(object_cache, k) => Resolved(object_cache', k)
  BY <1>1 DEF Progress, Keeps, Resolved
<1> SUFFICES ASSUME NEW k \in References, SoundRow(k)', IsRow(k, "compressed")',
                    xref'[k].at \in resolved_object_streams', ~Resolved(object_cache', k)
             PROVE  \E j \in DOMAIN stack' : stack'[j].fn = "members" /\ stack'[j].at = xref'[k].at
  BY DEF Expanded, Expanding
<1>3. xref' = xref /\ SoundRow(k) /\ IsRow(k, "compressed") /\ ~Resolved(object_cache, k)
  BY <1>2, SoundBefore DEF SameRows, IsRow
<1> DEFINE s == xref[k].at
<1>4. CASE s \in resolved_object_streams
  <2>1. PICK i \in DOMAIN stack : stack[i].fn = "members" /\ stack[i].at = s
    BY <1>3, <1>4 DEF Ordered, Expanded, Expanding
  <2>2. CASE i = 1
    <3>1. At({"members"}) /\ Top.at = s
      BY <1>1, <2>1, <2>2 DEF At, Top
    <3>2. EndObjectStream
      BY <3>1 DEF Resolution, AlreadyResolved, LoopDetected, Dispatch, ReadHeaderError, ReadBody,
                  EndStreamRead, EnterObjectStream, ReconstructAndRetry, At
    <3> QED BY <1>3, <3>1, <3>2, EndStreamTruthful
  <2>3. CASE i # 1
    BY <1>1, <1>3, <2>1, <2>3, LowerFrames
  <2> QED BY <2>2, <2>3
<1>5. CASE s \notin resolved_object_streams
  <2>1. EnterObjectStream /\ s = Top.at /\ Top.at \notin resolved_object_streams
    BY <1>3, <1>5 DEF Resolution, AlreadyResolved, LoopDetected, Dispatch, ReadHeaderError, ReadBody,
                EndStreamRead, EndObjectStream, EnterObjectStream, ReconstructAndRetry
  <2> DEFINE f == [Top EXCEPT !.fn = "members"]
             g == Frame("resolve", Top.at, 0, FALSE)
  <2>2. stack' = <<g>> \o Become(f)
    BY <2>1 DEF EnterObjectStream
  <2>3. Top \in FrameSet /\ Top.at \in References /\ stack \in Seq(FrameSet)
    BY <1>1, <2>1, TopFrame DEF EnterObjectStream, At, FrameSound
  <2>4. f \in FrameSet /\ f.fn = "members" /\ f.at = Top.at
    BY <2>3 DEF FrameSet
  <2>5. g \in FrameSet
    BY <2>3, NestedFrame
  <2> HIDE DEF f, g
  <2>6. Tail(stack) \in Seq(FrameSet)
    BY <1>1, <2>3, TailElements
  <2>7. Become(f) \in Seq(FrameSet) /\ Len(Become(f)) \in Nat /\ Len(Become(f)) # 0 /\ Become(f)[1] = f
    BY <2>4, <2>6, PushElements DEF Become
  <2>8. 2 \in DOMAIN stack' /\ stack'[2] = f
    <3>1. 1 \in 1 .. Len(Become(f)) /\ 1 + 1 = 2 /\ 2 \in 1 .. Len(Become(f)) + 1
      BY <2>7
    <3> QED BY <2>2, <2>5, <2>7, <3>1, PushElements
  <2> QED BY <1>3, <2>1, <2>4, <2>8
<1> QED BY <1>4, <1>5

LEMMA ResolutionOrder ==
    ASSUME ResolverInv, OrderInv, Resolution PROVE OrderInv'
<1> SUFFICES ASSUME RowsKept' PROVE Ordered'
  BY DEF OrderInv, Ordered
<1>1. ~ReconstructAndRetry
  BY DEF ReconstructAndRetry, RowsKept
<1>2. SameRows /\ walk' = walk
  BY <1>1, ResolutionSteps, RebuildOrKeep DEF ResolutionStep, SameRows, client
<1>3. RowsKept /\ Ordered
  BY <1>2, KeptBefore DEF OrderInv, Ordered
<1>4. Nested'
  BY <1>2, <1>3, NestedKept, ResolutionProgress DEF Ordered
<1>5. WalkRows'
  BY <1>2, <1>3 DEF Ordered, WalkRows, SameRows
<1>6. Expanded'
  BY <1>1, <1>2, <1>3, ResolutionExpanded
<1>7. Truthful(object_cache)'
  BY <1>1, <1>2, <1>3, ResolutionTruthful, SoundBefore DEF Truthful
<1> QED BY <1>4, <1>5, <1>6, <1>7 DEF Ordered

(* Between resolutions: what is not edited keeps its value.                *)
SameValues(c, d) ==
    \A k \in References \ edited' :
        (Resolved(c, k) <=> Resolved(d, k)) /\ (Resolved(d, k) => d[k] = c[k])

LEMMA IdleOrder ==
    ASSUME Ordered, SameRows, stack = <<>>, resolved_object_streams' = resolved_object_streams,
           Nested', WalkRows', SameValues(object_cache, object_cache')
    PROVE  Ordered'
<1>1. \A k : SoundRow(k)' => k \notin edited'
  BY DEF SoundRow, Untouched
<1>2. \A k : SoundRow(k)' => SoundRow(k) /\ DeclaredValue(k)' = DeclaredValue(k)
  BY SoundBefore
<1>3. Truthful(object_cache)'
  BY <1>1, <1>2 DEF Ordered, Truthful, SameValues, Resolved
<1>4. \A s : ~Expanding(s)
  BY DEF Expanding
<1>5. ASSUME NEW k \in References, SoundRow(k)', IsRow(k, "compressed")',
             xref'[k].at \in resolved_object_streams'
      PROVE  Resolved(object_cache', k)
  <2>1. IsRow(k, "compressed") /\ xref[k].at \in resolved_object_streams
    BY <1>5 DEF IsRow, SameRows
  <2>2. Resolved(object_cache, k)
    BY <1>2, <1>4, <1>5, <2>1 DEF Ordered, Expanded
  <2> QED BY <1>1, <1>5, <2>2 DEF SameValues
<1>6. Expanded'
  BY <1>5 DEF Expanded
<1> QED BY <1>3, <1>6 DEF Ordered

LEMMA IdleStack ==
    ASSUME SameRows,
           \/ stack' = <<>>
           \/ \E f \in FrameSet : stack' = <<f>> /\ f.fn \notin {"length", "members"} /\ RowFrame(f)
    PROVE  Nested'
<1>1. CASE stack' = <<>>
  BY <1>1 DEF Nested, At
<1>2. ASSUME NEW f \in FrameSet, stack' = <<f>>, f.fn \notin {"length", "members"}, RowFrame(f) PROVE Nested'
  <2>1. Len(stack') = 1 /\ DOMAIN stack' = {1} /\ stack'[1] = f
    BY <1>2
  <2>2. RowFrame(f)'
    BY <1>2, FrameBefore
  <2> QED BY <1>2, <2>1, <2>2 DEF Nested, At, Top
<1> QED BY <1>1, <1>2

LEMMA ResolveStack ==
    ASSUME SameRows, NEW k \in References, stack' = <<Frame("resolve", k, 0, FALSE)>> PROVE Nested'
<1> DEFINE f == Frame("resolve", k, 0, FALSE)
<1>1. f \in FrameSet /\ f.fn = "resolve" /\ f.key = k
  BY NestedFrame DEF Frame
<1>2. RowFrame(f)
  BY <1>1 DEF RowFrame
<1> QED BY <1>1, <1>2, IdleStack

LEMMA HandlesSame == ASSUME NEW c, NEW K PROVE SameValues(c, get_object_handle(c, K))
<1>1. DOMAIN get_object_handle(c, K) = DOMAIN c \cup K
  BY DEF get_object_handle
<1>2. \A x \in DOMAIN c \cup K : get_object_handle(c, K)[x] = IF x \in DOMAIN c THEN c[x] ELSE Unresolved
  BY DEF get_object_handle
<1> QED BY <1>1, <1>2 DEF SameValues, Resolved

LEMMA PutSame ==
    ASSUME NEW c, NEW k, NEW v, k \in edited' \/ k \notin References PROVE SameValues(c, Put(c, k, v))
<1>1. DOMAIN Put(c, k, v) = DOMAIN c \cup {k}
  BY DEF Put
<1>2. \A x \in DOMAIN c \cup {k} : Put(c, k, v)[x] = IF x = k THEN v ELSE c[x]
  BY DEF Put
<1> QED BY <1>1, <1>2 DEF SameValues, Resolved

LEMMA SameSame == ASSUME NEW c PROVE SameValues(c, c)
BY DEF SameValues

LEMMA WalkRowOrder == ASSUME ResolverInv, OrderInv, WalkRow PROVE OrderInv'
<1> SUFFICES ASSUME RowsKept' PROVE Ordered'
  BY DEF OrderInv, Ordered
<1>1. PICK k \in DOMAIN walk.todo :
        LET e == walk.todo[k]
            read == IF e.type = "uncompressed" /\ e.at # 0
                    THEN <<Frame("read", k, e.at, TRUE)>> ELSE <<>>
            skip == \/ k < 0 /\ e.type # "uncompressed"
                    \/ k > 0 /\ Resolved(object_cache, k)
        IN  /\ walk' = Walk(TRUE, [x \in DOMAIN walk.todo \ {k} |-> walk.todo[x]], walk.may_change,
                            IF skip THEN "none" ELSE IF k = 0 THEN "zero" ELSE "row")
            /\ object_cache' = IF k < 0 THEN object_cache ELSE get_object_handle(object_cache, {k})
            /\ stack' = IF skip THEN <<>>
                        ELSE IF k > 0 THEN <<Frame("resolve", k, 0, FALSE)>>
                        ELSE IF k = 0 /\ e.type = "compressed" THEN <<Frame("stream", 0, e.at, TRUE)>>
                        ELSE read
  BY DEF WalkRow
<1>2. /\ stack = <<>> /\ walk.active /\ SameRows
      /\ resolved_object_streams' = resolved_object_streams
  BY DEF WalkRow, Walking, SameRows, table, client
<1>3. RowsKept /\ Ordered
  BY <1>2, KeptBefore DEF OrderInv, Ordered
<1>4. /\ k \in Keys /\ k \in Int /\ walk.todo[k].at \in Nat
      /\ walk.todo[k].type = "uncompressed" => walk.todo[k].at \in Positions \cup {0}
      /\ walk.todo[k].type = "compressed" => walk.todo[k].at \in References
  BY NumbersAssumption DEF ResolverInv, RowsOK, RowsSound, IsTable, Keys, EntrySet
<1>5. k \notin References => k \in DOMAIN xref /\ walk.todo[k] = xref[k]
  BY <1>2, <1>3 DEF Ordered, WalkRows
<1>6. SameValues(object_cache, object_cache')
  BY <1>1, HandlesSame, SameSame
<1>7. WalkRows'
  <2> DEFINE w == [x \in DOMAIN walk.todo \ {k} |-> walk.todo[x]]
  <2>1. walk'.todo = w
    BY <1>1 DEF Walk
  <2>2. DOMAIN w = DOMAIN walk.todo \ {k} /\ \A x \in DOMAIN w : w[x] = walk.todo[x]
    OBVIOUS
  <2> HIDE DEF w
  <2> QED BY <1>2, <1>3, <2>1, <2>2 DEF Ordered, WalkRows, SameRows
<1>8. Nested'
  <2>1. CASE stack' = <<>>
    BY <1>2, <2>1, IdleStack
  <2>2. CASE k > 0 /\ stack' = <<Frame("resolve", k, 0, FALSE)>>
    <3>1. k \in References
      BY <1>4, <2>2, NumbersAssumption DEF Keys, References
    <3> QED BY <1>2, <2>2, <3>1, ResolveStack
  <2>3. CASE /\ k = 0 /\ walk.todo[k].type = "compressed"
             /\ stack' = <<Frame("stream", 0, walk.todo[k].at, TRUE)>>
    <3> DEFINE f == Frame("stream", 0, walk.todo[k].at, TRUE)
    <3>1. k \notin References
      BY <2>3, NumbersAssumption DEF References
    <3>2. f \in FrameSet /\ f.fn = "stream" /\ f.key = k /\ f.at = walk.todo[k].at
      BY <1>4, <2>3, NumbersAreKeys DEF Frame, FrameSet
    <3> HIDE DEF f
    <3>3. RowFrame(f)
      BY <1>5, <2>3, <3>1, <3>2 DEF RowFrame, IsRow
    <3> QED BY <1>2, <2>3, <3>2, <3>3, IdleStack DEF f
  <2>4. CASE /\ ~(k > 0) /\ walk.todo[k].type = "uncompressed" /\ walk.todo[k].at # 0
             /\ stack' = <<Frame("read", k, walk.todo[k].at, TRUE)>>
    <3> DEFINE f == Frame("read", k, walk.todo[k].at, TRUE)
    <3>1. k \notin References
      BY <1>4, <2>4, NumbersAssumption DEF References
    <3>2. f \in FrameSet /\ f.fn = "read" /\ f.key = k /\ f.at = walk.todo[k].at
      BY <1>4 DEF Frame, FrameSet
    <3> HIDE DEF f
    <3>3. RowFrame(f)
      BY <1>5, <2>4, <3>1, <3>2 DEF RowFrame, IsRow
    <3> QED BY <1>2, <2>4, <3>2, <3>3, IdleStack DEF f
  <2> QED BY <1>1, <2>1, <2>2, <2>3, <2>4
<1> QED BY <1>2, <1>3, <1>6, <1>7, <1>8, IdleOrder

LEMMA StartRows ==
    ASSUME ResolverInv, SameRows, walk' = StartWalk \/ walk' = NoWalk PROVE WalkRows'
<1>1. CASE walk' = NoWalk
  BY <1>1 DEF NoWalk, Walk, WalkRows
<1>2. CASE walk' = StartWalk
  <2> DEFINE e == effective_xref_entries
  <2>1. walk'.todo = e
    BY <1>2 DEF StartWalk, Walk
  <2>2. DOMAIN e = DOMAIN xref \cup default_xref_entries /\ \A k \in DOMAIN xref : e[k] = xref[k]
    BY DEF effective_xref_entries
  <2> HIDE DEF e
  <2>3. default_xref_entries \subseteq References
    BY DEF ResolverInv, SetsOK
  <2> QED BY <2>1, <2>2, <2>3 DEF WalkRows, SameRows
<1> QED BY <1>1, <1>2

LEMMA WalkNextOrder == ASSUME ResolverInv, OrderInv, WalkNext PROVE OrderInv'
<1> SUFFICES ASSUME RowsKept' PROVE Ordered'
  BY DEF OrderInv, Ordered
<1>1. /\ stack = <<>> /\ stack' = <<>> /\ SameRows /\ walk.active
      /\ resolved_object_streams' = resolved_object_streams
  BY DEF WalkNext, Walking, SameRows, table, client
<1>2. RowsKept /\ Ordered
  BY <1>1, KeptBefore DEF OrderInv, Ordered
<1>3. 0 \notin References
  BY NumbersAssumption DEF References
<1>4. SameValues(object_cache, object_cache')
  BY <1>3, PutSame, SameSame DEF WalkNext, OrNull
<1>5. CASE Restart
  BY <1>1, <1>2, <1>4, <1>5, StartRows, IdleStack, IdleOrder DEF WalkNext
<1>6. CASE ~Restart
  <2>1. walk'.todo = walk.todo
    BY <1>6 DEF WalkNext, Walk
  <2>2. WalkRows'
    BY <1>1, <1>2, <2>1 DEF Ordered, WalkRows, SameRows
  <2> QED BY <1>1, <1>2, <1>4, <2>2, IdleStack, IdleOrder
<1> QED BY <1>5, <1>6

(* The operations that leave the rows alone, as the walk's end does.       *)
LEMMA CallOrder ==
    ASSUME ResolverInv, OrderInv, stack = <<>>, SameRows,
           resolved_object_streams' = resolved_object_streams,
           walk' \in {walk, StartWalk, NoWalk}, SameValues(object_cache, object_cache'),
           stack' = <<>> \/ \E k \in References : stack' = <<Frame("resolve", k, 0, FALSE)>>
    PROVE  OrderInv'
<1> SUFFICES ASSUME RowsKept' PROVE Ordered'
  BY DEF OrderInv, Ordered
<1>1. Ordered
  BY KeptBefore DEF OrderInv, Ordered
<1>2. Nested'
  BY IdleStack, ResolveStack
<1>3. WalkRows'
  <2>1. CASE walk' = walk
    BY <1>1, <2>1 DEF Ordered, WalkRows, SameRows
  <2> QED BY <2>1, StartRows
<1> QED BY <1>1, <1>2, <1>3, IdleOrder

LEMMA RemoveOrder == ASSUME NEW k \in References, RemoveObject(k) PROVE OrderInv'
<1>1. k \in edited' /\ k \notin DOMAIN xref'
  BY DEF RemoveObject, Edit
<1> QED BY <1>1 DEF OrderInv, RowsKept

LEMMA NextOrder == ResolverInv /\ OrderInv /\ [Next]_vars => OrderInv'
<1> SUFFICES ASSUME ResolverInv, OrderInv, [Next]_vars PROVE OrderInv'
  OBVIOUS
<1>1. CASE WalkEnd \/ EnumerateObjects
  BY <1>1, CallOrder, SameSame DEF WalkEnd, Walking, EnumerateObjects, SameRows, table, client
<1>2. CASE AllocateObject
  <2>1. SameValues(object_cache, object_cache') /\ edited \subseteq edited'
    BY <1>2, PutSame, SameSame DEF AllocateObject, Edit
  <2> QED BY <1>2, <2>1, CallOrder DEF AllocateObject, SameRows, table
<1>3. CASE SwapSecond
  <2>1. op.b \in References
    BY <1>3 DEF SwapSecond, ResolverInv, ClientOK
  <2> QED BY <1>3, <2>1, CallOrder, HandlesSame DEF SwapSecond, SameRows, table
<1>4. CASE SwapValues
  <2>1. op.a \in edited' /\ op.b \in edited' /\ edited' = edited
    BY <1>4 DEF SwapValues, ResolverInv, ClientOK
  <2>2. SameValues(object_cache, object_cache')
    BY <1>4, <2>1 DEF SwapValues, SameValues, Resolved
  <2> QED BY <1>4, <2>1, <2>2, CallOrder DEF SwapValues, SameRows, table
<1>5. CASE Internal
  BY <1>1, <1>2, <1>3, <1>4, <1>5, ResolutionOrder, WalkRowOrder, WalkNextOrder DEF Internal
<1>6. ASSUME NEW k \in References, GetObject(k) \/ Dereference(k) PROVE OrderInv'
  BY <1>6, CallOrder, HandlesSame, SameSame DEF GetObject, Dereference, Idle, SameRows, table, client
<1>7. ASSUME NEW k \in References, ReserveObject(k) PROVE OrderInv'
  <2>1. SameValues(object_cache, object_cache') /\ edited \subseteq edited'
    BY <1>7, PutSame, HandlesSame DEF ReserveObject, Edit
  <2> QED BY <1>7, <2>1, CallOrder DEF ReserveObject, Idle, SameRows, table
<1>8. ASSUME NEW k \in References, ReplaceObject(k) PROVE OrderInv'
  <2>1. SameValues(object_cache, object_cache') /\ edited \subseteq edited'
    BY <1>8, PutSame DEF ReplaceObject, Edit
  <2> QED BY <1>8, <2>1, CallOrder DEF ReplaceObject, Idle, SameRows, table
<1>9. ASSUME NEW a \in References, NEW b \in References, SwapObjects(a, b) PROVE OrderInv'
  BY <1>9, CallOrder, HandlesSame DEF SwapObjects, Idle, Edit, SameRows, table
<1>10. ASSUME NEW kind \in {"all", "new"}, Prepare(kind) PROVE OrderInv'
  BY <1>10, CallOrder, SameSame DEF Prepare, Idle, SameRows, table
<1>11. CASE UNCHANGED vars
  <2>1. UNCHANGED <<objects, xref, reconstructed_xref, edited, stack, walk, object_cache,
                    resolved_object_streams>>
    BY <1>11 DEF vars, table, client
  <2> SUFFICES ASSUME RowsKept' PROVE Ordered'
    BY DEF OrderInv, Ordered
  <2>2. SameRows /\ Ordered
    BY <2>1, KeptBefore DEF SameRows, OrderInv, Ordered
  <2>3. Nested' /\ WalkRows'
    BY <2>1, <2>2, FrameBefore DEF Ordered, Nested, WalkRows, At, Top
  <2>4. \A s : Expanding(s)' = Expanding(s)
    BY <2>1 DEF Expanding
  <2>5. Expanded'
    BY <2>1, <2>2, <2>4, SoundBefore DEF Ordered, Expanded, IsRow
  <2>6. Truthful(object_cache)'
    BY <2>1, <2>2, SoundBefore DEF Ordered, Truthful
  <2> QED BY <2>3, <2>5, <2>6 DEF Ordered
<1> QED BY <1>5, <1>6, <1>7, <1>8, <1>9, <1>10, <1>11, RemoveOrder DEF Next

(* As long as the rows are the file's own (no read rebuilt the table, and  *)
(* the client edited only what has a row), a sound object has the value    *)
(* that its row declares, whatever the client used, replaced or swapped    *)
(* before it and however the reads nested: no ResolveMark, no expansion of *)
(* resolve_object_stream and no header of another object makes it null or  *)
(* gives it another value.                                                 *)
THEOREM OrderRight == Spec => []OrderIndependent
<1>1. Init => OrderInv
  <2> SUFFICES ASSUME Init PROVE OrderInv
    OBVIOUS
  <2>1. /\ stack = <<>> /\ walk = NoWalk /\ resolved_object_streams = {}
        /\ object_cache = [k \in {} |-> Null]
    BY DEF Init
  <2>2. DOMAIN object_cache = {} /\ ~NoWalk.active
    BY <2>1 DEF NoWalk, Walk
  <2> QED BY <2>1, <2>2 DEF OrderInv, Nested, At, WalkRows, Expanded, Truthful
<1>2. OrderInv => OrderIndependent
  BY DEF OrderInv, OrderIndependent, Truthful
<1> QED BY <1>1, <1>2, NextOrder, Inductive, PTL DEF Spec
=============================================================================
