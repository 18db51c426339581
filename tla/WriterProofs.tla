---------------------------- MODULE WriterProofs ----------------------------
(***************************************************************************)
(* Proofs about Writer, for every document, every combination of options   *)
(* and every change that the callbacks make: each number has one owner,    *)
(* and the rows, references and objects of a finished file are those of    *)
(* the document.                                                           *)
(***************************************************************************)
EXTENDS Writer, FiniteSetTheorems, SequenceTheorems, Induction

-----------------------------------------------------------------------------
(* What the parts of a write promise, and the lemmas that they keep the    *)
(* promise: the membership of object streams, the live queue, references   *)
(* as they are unparsed, the changes of a callback, and what is in the     *)
(* file.  The operators take the state they speak of as arguments.         *)

(* The object-stream membership P fits the objects K.                      *)
PlanOK(K, P) ==
    /\ P = [members |-> P.members, home |-> P.home, generated |-> P.generated]
    /\ DOMAIN P.members \subseteq DOMAIN K /\ DOMAIN P.home \subseteq DOMAIN K
    /\ \A c \in DOMAIN P.members :
          /\ P.members[c] \in Seq(DOMAIN P.home) /\ P.members[c] # << >>
          /\ \A i, j \in DOMAIN P.members[c] : P.members[c][i] = P.members[c][j] => i = j
          /\ \A i \in DOMAIN P.members[c] : P.home[P.members[c][i]] = c
    /\ \A m \in DOMAIN P.home :
          /\ P.home[m] \in DOMAIN P.members
          /\ \E i \in DOMAIN P.members[P.home[m]] : P.members[P.home[m]][i] = m

(* Sound, of the parts it depends on.                                      *)
Unnested(P) == \A m \in DOMAIN P.home : P.home[m] \notin DOMAIN P.home
SoundPlan(K, P, o) ==
    /\ Unnested(P)
    /\ ~(o.qdf /\ DOMAIN P.members # {} /\ \E s \in DOMAIN K : K[s] = "xref")

(* Partial functions from S to numbers, and the queues over objects S.     *)
IsPartial(f, S) == DOMAIN f \subseteq S /\ f \in [DOMAIN f -> Nat]
IsQueue(q, S) ==
    /\ q = [next |-> q.next, map |-> q.map, pending |-> q.pending, resolving |-> q.resolving,
            holders |-> q.holders, ignored |-> q.ignored]
    /\ q.next \in Nat /\ IsPartial(q.map, S) /\ q.pending \in Seq(S) /\ q.resolving \subseteq S
    /\ IsPartial(q.holders, S) /\ q.ignored \subseteq S

Waiting(q) == {q.pending[i] : i \in DOMAIN q.pending}

(* Numbers: every one below q.next belongs to one object, or to the length *)
(* of one stream.                                                          *)
Numbers(q) ==
    /\ q.next >= 1
    /\ \A s \in DOMAIN q.map : q.map[s] \in 1 .. q.next - 1
    /\ \A s, t \in DOMAIN q.map : q.map[s] = q.map[t] => s = t
    /\ \A s \in DOMAIN q.holders : s \in DOMAIN q.map /\ q.holders[s] = q.map[s] + 1 /\ q.holders[s] < q.next
    /\ \A s \in DOMAIN q.holders, t \in DOMAIN q.map : q.holders[s] # q.map[t]
    /\ \A n \in 1 .. q.next - 1 :
          (\E s \in DOMAIN q.map : q.map[s] = n) \/ (\E s \in DOMAIN q.holders : q.holders[s] = n)

(* Members are numbered with their container, and only containers and      *)
(* objects that are no members wait.                                       *)
Membership(K, q, P, o) ==
    /\ DOMAIN q.holders = {s \in DOMAIN q.map \ DOMAIN P.home :
                              s \notin DOMAIN P.members /\ o.qdf /\ K[s] \in Streams}
    /\ \A i \in DOMAIN q.pending : q.pending[i] \in DOMAIN q.map \ DOMAIN P.home
    /\ \A i, j \in DOMAIN q.pending : q.pending[i] = q.pending[j] => i = j
    /\ \A m \in DOMAIN P.home : m \in DOMAIN q.map <=> P.home[m] \in DOMAIN q.map \ DOMAIN P.home
    /\ q.resolving \subseteq DOMAIN P.home

QueueCore(K, q, P, o) == IsQueue(q, DOMAIN K) /\ Numbers(q) /\ Membership(K, q, P, o)
QueueOK(K, q, P, o) == QueueCore(K, q, P, o) /\ (SoundPlan(K, P, o) => q.resolving \subseteq DOMAIN q.map)

(* What enqueueing may do to a queue.                                      *)
Keeps(q, r) ==
    /\ DOMAIN q.map \subseteq DOMAIN r.map /\ \A s \in DOMAIN q.map : r.map[s] = q.map[s]
    /\ DOMAIN q.holders \subseteq DOMAIN r.holders
    /\ q.resolving \subseteq r.resolving /\ q.ignored \subseteq r.ignored
Grows(q, r, P) ==
    /\ Keeps(q, r)
    /\ Waiting(r) = Waiting(q) \cup ((DOMAIN r.map \ DOMAIN q.map) \ DOMAIN P.home)

(* A written reference.                                                    *)
RefOK(r, q) ==
    \/ r.number = 0 /\ r.to \in q.ignored \cup q.resolving
    \/ r.to \in DOMAIN q.map /\ r.number = q.map[r.to]
IsSeq(s) == s \in Seq({s[i] : i \in DOMAIN s})
RefsOK(refs, q) == IsSeq(refs) /\ \A i \in DOMAIN refs : RefOK(refs[i], q)
Targets(refs) == [i \in DOMAIN refs |-> refs[i].to]

-----------------------------------------------------------------------------
(* The body.                                                               *)

Edited0(edits0) == {edits0[i] : i \in DOMAIN edits0}

MemberKind(d, m) == IF d.kind[m] \in Streams THEN "null" ELSE d.kind[m]
MemberShown(d, m) == IF d.kind[m] \in Streams THEN << >> ELSE Shown(d, m)
BodyOf(b, m, d, q, ed) ==
    /\ b.number = q.map[m] /\ b.source = m /\ b.kind = MemberKind(d, m)
    /\ RefsOK(b.refs, q)
    /\ m \notin Edited0(ed) => Targets(b.refs) = MemberShown(d, m)

BodiesOf(bodies, c, d, q, P, ed) ==
    /\ IsSeq(bodies) /\ Len(bodies) <= Len(P.members[c])
    /\ \A k \in DOMAIN bodies : BodyOf(bodies[k], P.members[c][k], d, q, ed)

(* The three kinds of items that the body writes for object s.             *)
PlainItem(item, s, d, q, P, ed) ==
    /\ s \notin DOMAIN P.members
    /\ item.number = q.map[s] /\ item.kind = d.kind[s] /\ item.members = << >> /\ item.table = << >>
    /\ RefsOK(item.refs, q)
    /\ IF s \in DOMAIN q.holders THEN item.length = q.holders[s] ELSE item.length = 0
    /\ s \notin Edited0(ed) => Targets(item.refs) = Shown(d, s)
HolderItem(item, s, q) ==
    /\ s \in DOMAIN q.holders
    /\ item.number = q.holders[s] /\ item.kind = "length" /\ item.members = << >> /\ item.table = << >>
    /\ item.refs = << >> /\ item.length = 0
ContainerItem(item, s, d, q, P, o, ed) ==
    /\ s \in DOMAIN P.members
    /\ item.number = q.map[s] /\ item.kind = "objstm" /\ item.length = 0
    /\ RefsOK(item.refs, q)
    /\ BodiesOf(item.members, s, d, q, P, ed) /\ Len(item.members) = Len(P.members[s])
    /\ ~o.qdf \/ ed = << >> => item.table = Starts(Sizes(item.members))

(* The objects that are in the file.                                       *)
Settled(q, w, P) == (DOMAIN q.map \ DOMAIN P.home) \ (Waiting(q) \cup {w.obj})

ItemOK(item, d, q, w, P, o, ed) ==
    /\ item.source \in Settled(q, w, P)
    /\ \/ PlainItem(item, item.source, d, q, P, ed)
       \/ HolderItem(item, item.source, q)
       \/ ContainerItem(item, item.source, d, q, P, o, ed)

WorkOK(w, d, q, P, o, ed) ==
    \/ w = Idle
    \/ /\ w = [obj |-> w.obj, pass |-> w.pass, sizes |-> w.sizes, bodies |-> w.bodies]
       /\ w.obj \in (DOMAIN q.map \ DOMAIN P.home) \ Waiting(q) /\ w.obj \in DOMAIN P.members
       /\ BodiesOf(w.bodies, w.obj, d, q, P, ed) /\ Len(w.bodies) < Len(P.members[w.obj])
       /\ w.sizes \in Seq(Nat)
       /\ ed = << >> => \A k \in DOMAIN w.sizes : w.sizes[k] = 1 + Len(MemberShown(d, P.members[w.obj][k]))
       /\ \/ w.pass = 1 /\ w.bodies = << >> /\ Len(w.sizes) < Len(P.members[w.obj])
          \/ w.pass = 2 /\ Len(w.sizes) = Len(P.members[w.obj])

(* The rows that the body recorded.                                        *)
Direct(u, q, w, P, file) ==
    /\ \A i \in 2 .. Len(file) : file[i].number \in DOMAIN u /\ u[file[i].number] = i
    /\ \A n \in DOMAIN u : u[n] \in 2 .. Len(file) /\ file[u[n]].number = n
    /\ \A s \in Settled(q, w, P) : q.map[s] \in DOMAIN u /\ (s \in DOMAIN q.holders => q.holders[s] \in DOMAIN u)
Inside(c, q, w, P) ==
    /\ \A n \in DOMAIN c : \E m \in DOMAIN P.home \cap DOMAIN q.map : n = q.map[m] /\ P.home[m] \in Settled(q, w, P)
    /\ \A m \in DOMAIN P.home \cap DOMAIN q.map :
          P.home[m] \in Settled(q, w, P) =>
              /\ q.map[m] \in DOMAIN c
              /\ c[q.map[m]].container = q.map[P.home[m]]
              /\ c[q.map[m]].index + 1 \in DOMAIN P.members[P.home[m]]
              /\ P.members[P.home[m]][c[q.map[m]].index + 1] = m

FileOK(file, lay, d, q, w, P, o, ed) ==
    /\ IsSeq(file) /\ Len(file) >= 1
    /\ file[1] = Item(0, 0, "header", << >>)
    /\ \A i \in 2 .. Len(file) : ItemOK(file[i], d, q, w, P, o, ed)
    /\ lay = [uncompressed |-> lay.uncompressed, compressed |-> lay.compressed]
    /\ Direct(lay.uncompressed, q, w, P, file)
    /\ Inside(lay.compressed, q, w, P)

DocOK(d) ==
    /\ d = [kind |-> d.kind, kids |-> d.kids, home |-> d.home, extends |-> d.extends,
            before |-> d.before, after |-> d.after]
    /\ d.kind \in Seq(Kinds) /\ d.kind # << >> /\ d.kind[Root] = "dict"
    /\ d.kids \in [DOMAIN d.kind -> Seq(DOMAIN d.kind)]
    /\ d.extends \in [DOMAIN d.kind -> DOMAIN d.kind \cup {0}]
    /\ d.before \in Seq(DOMAIN d.kind) /\ d.after \in Seq(DOMAIN d.kind)

-----------------------------------------------------------------------------
(* Enumerations and sums.                                                  *)

(* The rank of an element is between 1 and the size of the set.            *)
LEMMA RankBounds ==
    ASSUME NEW S, IsFiniteSet(S), S \subseteq Int, NEW x \in S
    PROVE  Rank(S, x) \in 1 .. Cardinality(S)
<1> DEFINE A == {y \in S : y <= x}
<1>1. A \in SUBSET S /\ x \in A
  OBVIOUS
<1> HIDE DEF A
<1>2. IsFiniteSet(A) /\ Cardinality(A) <= Cardinality(S)
  BY <1>1, FS_Subset
<1>3. Cardinality(A) \in Nat /\ Cardinality(S) \in Nat
  BY <1>2, FS_CardinalityType
<1>4. Cardinality(A) # 0
  BY <1>1, <1>2, FS_EmptySet
<1> QED BY <1>2, <1>3, <1>4 DEF Rank, A

(* Different elements have different ranks.                                *)
LEMMA RankGrows ==
    ASSUME NEW S, IsFiniteSet(S), S \subseteq Int, NEW x \in S, NEW y \in S, x < y
    PROVE  Rank(S, x) # Rank(S, y)
<1> DEFINE A == {z \in S : z <= x}
           B == {z \in S : z <= y}
<1>0. x \in Int /\ y \in Int /\ \A z \in S : z \in Int
  OBVIOUS
<1>1. A \in SUBSET B /\ B \in SUBSET S /\ y \in B /\ y \notin A
  <2>1. ASSUME NEW z \in A PROVE z \in B
    BY <1>0
  <2>2. y \in B /\ B \subseteq S /\ y \notin A
    BY <1>0
  <2> HIDE DEF A, B
  <2> QED BY <2>1, <2>2
<1> HIDE DEF A, B
<1>2. IsFiniteSet(B)
  BY <1>1, FS_Subset
<1>3. Cardinality(B) # Cardinality(A)
  BY <1>1, <1>2, FS_Subset
<1> QED BY <1>3 DEF Rank, A, B

(* The rank tells the element.                                             *)
LEMMA RankInjective ==
    ASSUME NEW S, IsFiniteSet(S), S \subseteq Int, NEW x \in S, NEW y \in S, Rank(S, x) = Rank(S, y)
    PROVE  x = y
<1>1. x \in Int /\ y \in Int
  OBVIOUS
<1>2. ~(x < y) /\ ~(y < x)
  BY RankGrows
<1> QED BY <1>1, <1>2

(* Every rank up to the size of the set is taken.                          *)
LEMMA RankOnto ==
    ASSUME NEW S, IsFiniteSet(S), S \subseteq Int, NEW i \in 1 .. Cardinality(S)
    PROVE  \E x \in S : Rank(S, x) = i
<1> DEFINE n == Cardinality(S)
           r == [x \in S |-> Rank(S, x)]
<1>1. n \in Nat
  BY FS_CardinalityType
<1>2. r \in [S -> 1 .. n]
  BY RankBounds
<1>3. \A x, y \in S : r[x] = r[y] => x = y
  BY RankInjective
<1> HIDE DEF r
<1>4. r \in Injection(S, 1 .. n)
  BY <1>2, <1>3 DEF Injection, IsInjective
<1>5. IsFiniteSet(1 .. n) /\ Cardinality(1 .. n) = n
  BY <1>1, FS_Interval
<1>6. r \in Surjection(S, 1 .. n)
  BY <1>4, <1>5, FS_Injection
<1> QED BY <1>6 DEF Surjection, r

(* Ascending lists all of a finite set of numbers, each at its rank.       *)
LEMMA Ascends ==
    ASSUME NEW S, IsFiniteSet(S), S \subseteq Int
    PROVE  /\ Cardinality(S) \in Nat
           /\ Ascending(S) \in [1 .. Cardinality(S) -> S]
           /\ \A i \in 1 .. Cardinality(S) : Rank(S, Ascending(S)[i]) = i
           /\ \A x \in S : \E i \in 1 .. Cardinality(S) : Ascending(S)[i] = x
<1>1. Cardinality(S) \in Nat
  BY FS_CardinalityType
<1>2. \A i \in 1 .. Cardinality(S) : Ascending(S)[i] \in S /\ Rank(S, Ascending(S)[i]) = i
  BY RankOnto DEF Ascending
<1>3. Ascending(S) \in [1 .. Cardinality(S) -> S]
  BY <1>2 DEF Ascending
<1>4. ASSUME NEW x \in S PROVE Ascending(S)[Rank(S, x)] = x
  <2>1. Rank(S, x) \in 1 .. Cardinality(S)
    BY RankBounds
  <2> QED BY <1>2, <2>1, RankInjective
<1> QED BY <1>1, <1>2, <1>3, <1>4, RankBounds

(* A sum of numbers is a number.                                           *)
LEMMA SumNat ==
    ASSUME NEW last \in Nat, NEW x \in [1 .. last -> Nat]
    PROVE  SumTo(x, last) \in Nat
<1> DEFINE sum == CHOOSE f : f = [i \in 0 .. last |-> IF i = 0 THEN 0 ELSE f[i - 1] + x[i]]
<1>1. SumTo(x, last) = sum[last]
  BY DEF SumTo
<1>2. sum = [i \in 0 .. last |-> IF i = 0 THEN 0 ELSE sum[i - 1] + x[i]]
  BY PartialSumsExist
<1> HIDE DEF sum
<1> DEFINE S == {n \in Nat : n <= last => sum[n] \in Nat}
<1>3. 0 \in S
  BY <1>2
<1>4. ASSUME NEW n \in Nat, n \in S PROVE n + 1 \in S
  <2> SUFFICES ASSUME n + 1 <= last PROVE sum[n + 1] \in Nat
    OBVIOUS
  <2>1. n \in 0 .. last /\ n + 1 \in 0 .. last /\ n + 1 \in 1 .. last /\ sum[n] \in Nat
        /\ n + 1 # 0 /\ (n + 1) - 1 = n
    BY <1>4
  <2>2. sum[n + 1] = sum[n] + x[n + 1]
    BY <1>2, <2>1
  <2> QED BY <2>1, <2>2
<1>5. last \in S
  <2> HIDE DEF S
  <2> QED BY <1>3, <1>4, SetInduction
<1> QED BY <1>1, <1>5

-----------------------------------------------------------------------------
(* Sequences, partial functions and what an object shows.                  *)

(* Length and domain of a sequence.                                        *)
LEMMA SeqFacts ==
    ASSUME NEW s, IsSeq(s)
    PROVE  Len(s) \in Nat /\ DOMAIN s = 1 .. Len(s)
BY DEF IsSeq

(* A sequence over any set is one over its own elements.                   *)
LEMMA SeqIs ==
    ASSUME NEW T, NEW s \in Seq(T)
    PROVE  IsSeq(s)
<1>1. Len(s) \in Nat /\ s = [i \in 1 .. Len(s) |-> s[i]] /\ DOMAIN s = 1 .. Len(s)
  OBVIOUS
<1> DEFINE R == {s[i] : i \in DOMAIN s}
<1>2. s \in [1 .. Len(s) -> R]
  BY <1>1
<1>3. s \in Seq(R)
  BY SMTT(60), <1>1, <1>2, SeqDef
<1> QED BY <1>3 DEF IsSeq

(* What Append does.                                                       *)
LEMMA AppendFacts ==
    ASSUME NEW s, IsSeq(s), NEW x
    PROVE  /\ IsSeq(Append(s, x)) /\ Len(Append(s, x)) = Len(s) + 1
           /\ DOMAIN Append(s, x) = 1 .. Len(s) + 1
           /\ \A i \in 1 .. Len(s) : Append(s, x)[i] = s[i]
           /\ Append(s, x)[Len(s) + 1] = x
<1> DEFINE R == {s[i] : i \in DOMAIN s} \cup {x}
<1>1. s \in Seq(R)
  BY SeqMonotonic DEF IsSeq
<1>2. x \in R
  OBVIOUS
<1> HIDE DEF R
<1>3. Append(s, x) \in Seq(R) /\ Len(Append(s, x)) = Len(s) + 1
  BY <1>1, <1>2
<1>4. \A i \in 1 .. Len(s) : Append(s, x)[i] = s[i]
  BY <1>1, <1>2
<1>5. Append(s, x)[Len(s) + 1] = x
  BY <1>1, <1>2
<1>6. IsSeq(Append(s, x)) /\ DOMAIN Append(s, x) = 1 .. Len(Append(s, x))
  <2> DEFINE a == Append(s, x)
  <2>1. a \in Seq(R)
    BY <1>3
  <2> HIDE DEF a
  <2>2. IsSeq(a)
    BY <2>1, SeqIs
  <2>3. DOMAIN a = 1 .. Len(a)
    BY <2>1
  <2> QED BY <2>2, <2>3 DEF a
<1> QED BY <1>3, <1>4, <1>5, <1>6

IsAppend(t, s, x) ==
    /\ IsSeq(t) /\ Len(t) = Len(s) + 1 /\ DOMAIN t = 1 .. Len(s) + 1
    /\ \A i \in 1 .. Len(s) : t[i] = s[i]
    /\ t[Len(s) + 1] = x

(* The same, as one predicate.                                             *)
LEMMA Appends ==
    ASSUME NEW s, IsSeq(s), NEW x
    PROVE  IsAppend(Append(s, x), s, x)
BY AppendFacts DEF IsAppend

(* The same, over a given set of elements.                                 *)
LEMMA Appended ==
    ASSUME NEW S, NEW s \in Seq(S), NEW x \in S
    PROVE  Append(s, x) \in Seq(S) /\ IsAppend(Append(s, x), s, x)
<1>1. Append(s, x) \in Seq(S)
  OBVIOUS
<1>2. IsSeq(s)
  BY SeqIs
<1> QED BY <1>1, <1>2, Appends

(* Put keeps a partial function one.                                       *)
LEMMA PutPartial ==
    ASSUME NEW S, NEW f, IsPartial(f, S), NEW x \in S, NEW v \in Nat
    PROVE  IsPartial(Put(f, x, v), S)
BY DEF IsPartial, Put

(* So does Over.                                                           *)
LEMMA OverPartial ==
    ASSUME NEW S, NEW f, IsPartial(f, S), NEW g, IsPartial(g, S)
    PROVE  IsPartial(Over(g, f), S)
BY DEF IsPartial, Over

(* Leaving out nulls keeps references to objects.                          *)
LEMMA Filtered ==
    ASSUME NEW d, DocOK(d), NEW refs \in Seq(DOMAIN d.kind)
    PROVE  WithoutNulls(d, refs) \in Seq(DOMAIN d.kind)
<1> DEFINE N == NotNull(d, refs)
<1>1. Len(refs) \in Nat /\ DOMAIN refs = 1 .. Len(refs) /\ \A i \in DOMAIN refs : refs[i] \in DOMAIN d.kind
  OBVIOUS
<1>2. IsFiniteSet(1 .. Len(refs))
  BY <1>1, FS_Interval
<1>3. N \in SUBSET (1 .. Len(refs))
  BY <1>1 DEF NotNull
<1> HIDE DEF N
<1>4. IsFiniteSet(N) /\ N \subseteq Int
  <2>1. IsFiniteSet(N)
    BY <1>2, <1>3, FS_Subset
  <2> QED BY <1>3, <2>1
<1>5. Cardinality(N) \in Nat /\ Ascending(N) \in [1 .. Cardinality(N) -> N]
  BY <1>4, Ascends
<1>6. \A i \in 1 .. Cardinality(N) : refs[Ascending(N)[i]] \in DOMAIN d.kind
  BY <1>1, <1>3, <1>5
<1>7. WithoutNulls(d, refs) = [i \in 1 .. Cardinality(N) |-> refs[Ascending(N)[i]]]
  BY DEF WithoutNulls, N
<1>8. WithoutNulls(d, refs) \in [1 .. Cardinality(N) -> DOMAIN d.kind]
  BY <1>6, <1>7
<1> QED BY SMTT(60), <1>5, <1>8, SeqDef

(* An object shows references to objects.                                  *)
LEMMA ShownSeq ==
    ASSUME NEW d, DocOK(d), NEW s \in DOMAIN d.kind
    PROVE  Shown(d, s) \in Seq(DOMAIN d.kind)
<1>1. d.kids[s] \in Seq(DOMAIN d.kind)
  BY DEF DocOK
<1> QED BY <1>1, Filtered DEF Shown

(* So does a member of an object stream.                                   *)
LEMMA MemberShownSeq ==
    ASSUME NEW d, DocOK(d), NEW s \in DOMAIN d.kind
    PROVE  MemberShown(d, s) \in Seq(DOMAIN d.kind)
<1>1. << >> \in Seq(DOMAIN d.kind) /\ Shown(d, s) \in Seq(DOMAIN d.kind)
  BY ShownSeq
<1> QED BY <1>1 DEF MemberShown

-----------------------------------------------------------------------------
(* Enqueueing an object that is no member.                                 *)

(* Marks change nothing else.                                              *)
LEMMA MarksKeep ==
    ASSUME NEW K, NEW P, NEW o, NEW q, QueueCore(K, q, P, o), NEW r, IsQueue(r, DOMAIN K),
           r.next = q.next, r.map = q.map, r.pending = q.pending, r.holders = q.holders,
           q.resolving \subseteq r.resolving, r.resolving \subseteq DOMAIN P.home, q.ignored \subseteq r.ignored
    PROVE  QueueCore(K, r, P, o) /\ Grows(q, r, P)
<1>1. Numbers(r)
  BY DEF QueueCore, Numbers
<1>2. Membership(K, r, P, o)
  BY DEF QueueCore, Membership
<1>3. Waiting(r) = Waiting(q)
  BY DEF Waiting
<1>4. Grows(q, r, P)
  BY <1>3 DEF Grows, Keeps
<1> QED BY <1>1, <1>2, <1>4 DEF QueueCore

(* One object, and perhaps the holder of its length.                       *)
LEMMA ReservesPlain ==
    ASSUME NEW d, DocOK(d), PlanOK(d.kind, plan), NEW q, QueueCore(d.kind, q, plan, opt),
           NEW s \in DOMAIN d.kind, s \notin DOMAIN plan.home, s \notin DOMAIN q.map, s \notin DOMAIN plan.members
    PROVE  /\ QueueCore(d.kind, Reserve(d, q, s), plan, opt)
           /\ Grows(q, Reserve(d, q, s), plan)
           /\ s \in DOMAIN Reserve(d, q, s).map
           /\ Reserve(d, q, s).resolving = q.resolving
<1> DEFINE r == Reserve(d, q, s)
           held == opt.qdf /\ d.kind[s] \in Streams
<1>1. IsQueue(q, DOMAIN d.kind) /\ q.next \in Nat /\ q.next >= 1
  BY DEF QueueCore, IsQueue, Numbers
<1>2. /\ r.next = IF held THEN q.next + 2 ELSE q.next + 1
      /\ r.map = Put(q.map, s, q.next)
      /\ r.pending = Append(q.pending, s)
      /\ r.holders = IF held THEN Put(q.holders, s, q.next + 1) ELSE q.holders
      /\ r.resolving = q.resolving /\ r.ignored = q.ignored
      /\ r = [next |-> r.next, map |-> r.map, pending |-> r.pending, resolving |-> r.resolving,
              holders |-> r.holders, ignored |-> r.ignored]
  <2>1. r = [q EXCEPT !.next = @ + (IF held THEN 2 ELSE 1), !.map = Put(@, s, q.next),
                      !.pending = Append(@, s), !.holders = IF held THEN Put(@, s, q.next + 1) ELSE @]
    BY DEF Reserve, HasHolder
  <2> HIDE DEF r, held
  <2>2. CASE held
    BY <1>1, <2>1, <2>2 DEF IsQueue
  <2>3. CASE ~held
    BY <1>1, <2>1, <2>3 DEF IsQueue
  <2> QED BY <2>2, <2>3
<1> HIDE DEF r
<1>3. /\ DOMAIN r.map = DOMAIN q.map \cup {s}
      /\ r.map[s] = q.next
      /\ \A x \in DOMAIN q.map : r.map[x] = q.map[x]
  BY <1>2 DEF Put
<1>4. /\ DOMAIN r.holders = IF held THEN DOMAIN q.holders \cup {s} ELSE DOMAIN q.holders
      /\ held => r.holders[s] = q.next + 1
      /\ \A x \in DOMAIN q.holders : r.holders[x] = q.holders[x]
  <2>1. s \notin DOMAIN q.holders
    BY DEF QueueCore, Membership
  <2> QED BY <1>2, <2>1 DEF Put
<1>5. q.pending \in Seq(DOMAIN d.kind) /\ Len(q.pending) \in Nat /\ DOMAIN q.pending = 1 .. Len(q.pending)
  BY <1>1 DEF IsQueue
<1>6. /\ r.pending \in Seq(DOMAIN d.kind) /\ DOMAIN r.pending = 1 .. Len(q.pending) + 1
      /\ \A i \in 1 .. Len(q.pending) : r.pending[i] = q.pending[i]
      /\ r.pending[Len(q.pending) + 1] = s
  <2>1. r.pending \in Seq(DOMAIN d.kind) /\ IsAppend(r.pending, q.pending, s)
    BY <1>2, <1>5, Appended
  <2> QED BY <2>1 DEF IsAppend
<1>7. IsQueue(r, DOMAIN d.kind)
  <2>1. IsPartial(r.map, DOMAIN d.kind)
    BY <1>1, <1>2, PutPartial DEF IsQueue
  <2>2. IsPartial(r.holders, DOMAIN d.kind)
    <3>1. q.next + 1 \in Nat /\ IsPartial(q.holders, DOMAIN d.kind)
      BY <1>1 DEF IsQueue
    <3>2. IsPartial(Put(q.holders, s, q.next + 1), DOMAIN d.kind)
      BY <3>1, PutPartial
    <3> QED BY <1>2, <3>1, <3>2
  <2>3. r.next \in Nat /\ r.resolving \subseteq DOMAIN d.kind /\ r.ignored \subseteq DOMAIN d.kind
    BY <1>1, <1>2 DEF IsQueue
  <2> QED BY <1>2, <1>6, <2>1, <2>2, <2>3 DEF IsQueue
<1>8. Numbers(q) /\ Membership(d.kind, q, plan, opt)
  BY DEF QueueCore
<1>9. Numbers(r)
  <2>1. r.next \in Nat /\ q.next < r.next /\ (held => q.next + 1 < r.next) /\ \A n \in Nat : n < r.next => n <= q.next \/ (held /\ n = q.next + 1)
    BY <1>1, <1>2
  <2>2. \A x \in DOMAIN q.map : q.map[x] \in Nat /\ q.map[x] >= 1 /\ q.map[x] < q.next
    BY <1>1, <1>8 DEF Numbers
  <2>3. \A x \in DOMAIN q.holders : q.holders[x] \in Nat /\ q.holders[x] < q.next
    BY <1>1, <1>8, <2>2 DEF Numbers
  <2>4. \A x \in DOMAIN r.map : r.map[x] \in 1 .. r.next - 1
    BY <1>1, <1>3, <2>1, <2>2
  <2>5. \A x, y \in DOMAIN r.map : r.map[x] = r.map[y] => x = y
    BY <1>1, <1>3, <1>8, <2>2 DEF Numbers
  <2>6. \A x \in DOMAIN r.holders : x \in DOMAIN r.map /\ r.holders[x] = r.map[x] + 1 /\ r.holders[x] < r.next
    BY <1>1, <1>3, <1>4, <1>8, <2>1, <2>2, <2>3 DEF Numbers
  <2>7. \A x \in DOMAIN r.holders, y \in DOMAIN r.map : r.holders[x] # r.map[y]
    BY <1>1, <1>3, <1>4, <1>8, <2>2, <2>3 DEF Numbers
  <2>8. ASSUME NEW n \in 1 .. r.next - 1
        PROVE  (\E x \in DOMAIN r.map : r.map[x] = n) \/ (\E x \in DOMAIN r.holders : r.holders[x] = n)
    <3>1. CASE n < q.next
      <4>1. n \in 1 .. q.next - 1
        BY <1>1, <3>1
      <4> QED BY <1>3, <1>4, <1>8, <4>1 DEF Numbers
    <3>2. CASE n = q.next
      BY <1>3, <3>2
    <3>3. CASE held /\ n = q.next + 1
      BY <1>4, <3>3
    <3> QED BY <1>1, <2>1, <3>1, <3>2, <3>3
  <2> QED BY <1>1, <2>1, <2>4, <2>5, <2>6, <2>7, <2>8 DEF Numbers
<1>10. Membership(d.kind, r, plan, opt)
  <2>1. DOMAIN r.holders = {x \in DOMAIN r.map \ DOMAIN plan.home :
                               x \notin DOMAIN plan.members /\ opt.qdf /\ d.kind[x] \in Streams}
    BY <1>3, <1>4, <1>8 DEF Membership
  <2>2. \A i \in DOMAIN r.pending : r.pending[i] \in DOMAIN r.map \ DOMAIN plan.home
    BY <1>3, <1>5, <1>6, <1>8 DEF Membership
  <2>3. ASSUME NEW i \in DOMAIN r.pending, NEW j \in DOMAIN r.pending, r.pending[i] = r.pending[j] PROVE i = j
    <3>1. \A k \in 1 .. Len(q.pending) : q.pending[k] # s
      BY <1>5, <1>8 DEF Membership
    <3>2. \A k \in DOMAIN r.pending : k \in 1 .. Len(q.pending) \/ k = Len(q.pending) + 1
      BY <1>5, <1>6
    <3> QED BY ZenonT(60), <1>5, <1>6, <1>8, <2>3, <3>1, <3>2 DEF Membership
  <2>4. \A m \in DOMAIN plan.home : m \in DOMAIN r.map <=> plan.home[m] \in DOMAIN r.map \ DOMAIN plan.home
    <3>1. \A m \in DOMAIN plan.home : plan.home[m] # s
      BY DEF PlanOK
    <3> QED BY <1>3, <1>8, <3>1 DEF Membership
  <2> QED BY <1>2, <1>8, <2>1, <2>2, <2>3, <2>4 DEF Membership
<1>11. Grows(q, r, plan)
  <2>1. Waiting(r) = Waiting(q) \cup {s}
    <3>1. \A i \in DOMAIN r.pending : i \in 1 .. Len(q.pending) \/ i = Len(q.pending) + 1
      BY <1>5, <1>6
    <3>2. Len(q.pending) + 1 \in DOMAIN r.pending /\ \A i \in DOMAIN q.pending : i \in DOMAIN r.pending
      BY <1>5, <1>6
    <3> QED BY ZenonT(60), <1>5, <1>6, <3>1, <3>2 DEF Waiting
  <2> QED BY <1>2, <1>3, <1>4, <2>1 DEF Grows, Keeps
<1> QED BY <1>2, <1>3, <1>7, <1>9, <1>10, <1>11 DEF QueueCore, r

(* A container, with all its members.                                      *)
LEMMA FreshMembers ==
    ASSUME NEW d, DocOK(d), PlanOK(d.kind, plan), NEW q, QueueCore(d.kind, q, plan, opt),
           NEW s \in DOMAIN plan.members, s \notin DOMAIN plan.home, s \notin DOMAIN q.map
    PROVE  /\ Fresh(q, s) = {m \in DOMAIN plan.home : plan.home[m] = s}
           /\ IsFiniteSet(Fresh(q, s)) /\ Fresh(q, s) \subseteq Int
           /\ Cardinality(Fresh(q, s)) \in Nat
<1>1. ToSet(plan.members[s]) = {m \in DOMAIN plan.home : plan.home[m] = s}
  <2>1. \A i \in DOMAIN plan.members[s] : plan.members[s][i] \in DOMAIN plan.home /\ plan.home[plan.members[s][i]] = s
    BY DEF PlanOK
  <2>2. \A m \in DOMAIN plan.home : plan.home[m] = s => \E i \in DOMAIN plan.members[s] : plan.members[s][i] = m
    BY DEF PlanOK
  <2> QED BY <2>1, <2>2 DEF ToSet
<1>2. \A m \in DOMAIN plan.home : plan.home[m] = s => m \notin DOMAIN q.map
  BY DEF QueueCore, Membership
<1>3. Fresh(q, s) = {m \in DOMAIN plan.home : plan.home[m] = s}
  BY <1>1, <1>2 DEF Fresh
<1> DEFINE F == Fresh(q, s)
           n == Len(d.kind)
<1>4. n \in Nat /\ DOMAIN d.kind = 1 .. n
  BY DEF DocOK
<1>5. F \in SUBSET (1 .. n)
  BY <1>3, <1>4 DEF PlanOK
<1> HIDE DEF F, n
<1>6. IsFiniteSet(1 .. n)
  BY <1>4, FS_Interval
<1>7. IsFiniteSet(F)
  BY <1>5, <1>6, FS_Subset
<1>8. Cardinality(F) \in Nat
  BY <1>7, FS_CardinalityType
<1>9. F \subseteq Int
  BY <1>5
<1> QED BY <1>3, <1>7, <1>8, <1>9 DEF F

(* A container that is numbered with its fresh members.                    *)
LEMMA ReservesContainer ==
    ASSUME NEW d, DocOK(d), PlanOK(d.kind, plan), NEW q, QueueCore(d.kind, q, plan, opt),
           NEW s \in DOMAIN plan.members, s \notin DOMAIN plan.home, s \notin DOMAIN q.map
    PROVE  /\ QueueCore(d.kind, Reserve(d, q, s), plan, opt)
           /\ Grows(q, Reserve(d, q, s), plan)
           /\ s \in DOMAIN Reserve(d, q, s).map
           /\ Reserve(d, q, s).resolving = q.resolving
<1> DEFINE r == Reserve(d, q, s)
           F == Fresh(q, s)
           k == Cardinality(F)
           g == [m \in F |-> q.next + Rank(F, m)]
<1>1. IsQueue(q, DOMAIN d.kind) /\ q.next \in Nat /\ q.next >= 1
  BY DEF QueueCore, IsQueue, Numbers
<1>2. F = {m \in DOMAIN plan.home : plan.home[m] = s} /\ k \in Nat /\ s \in DOMAIN d.kind /\ F \subseteq DOMAIN d.kind
      /\ IsFiniteSet(F) /\ F \subseteq Int /\ F \cap DOMAIN q.map = {}
  <2>1. F = {m \in DOMAIN plan.home : plan.home[m] = s} /\ k \in Nat /\ IsFiniteSet(F) /\ F \subseteq Int
    BY FreshMembers
  <2>2. F \cap DOMAIN q.map = {}
    BY DEF Fresh
  <2>3. s \in DOMAIN d.kind /\ DOMAIN plan.home \subseteq DOMAIN d.kind
    BY DEF PlanOK
  <2> HIDE DEF F
  <2> QED BY <2>1, <2>2, <2>3
<1>3. /\ r.next = q.next + 1 + k
      /\ r.map = Over(g, Put(q.map, s, q.next))
      /\ r.pending = Append(q.pending, s)
      /\ r.holders = q.holders /\ r.resolving = q.resolving /\ r.ignored = q.ignored
      /\ r = [next |-> r.next, map |-> r.map, pending |-> r.pending, resolving |-> r.resolving,
              holders |-> r.holders, ignored |-> r.ignored]
  <2>1. r = [q EXCEPT !.next = @ + 1 + k, !.pending = Append(@, s), !.map = Over(g, Put(@, s, q.next))]
    BY DEF Reserve, ReserveContainer
  <2> HIDE DEF r, k, g, F
  <2> QED BY <1>1, <2>1 DEF IsQueue
<1>4. \A m \in F : Rank(F, m) \in 1 .. k
  BY <1>2, RankBounds
<1>5. \A x, y \in F : Rank(F, x) = Rank(F, y) => x = y
  BY <1>2, RankInjective
<1>6. \A i \in 1 .. k : \E m \in F : Rank(F, m) = i
  BY <1>2, RankOnto
<1> HIDE DEF r, k, F
<1>7. /\ DOMAIN r.map = DOMAIN q.map \cup {s} \cup F
      /\ r.map[s] = q.next
      /\ \A x \in DOMAIN q.map : r.map[x] = q.map[x]
      /\ \A m \in F : r.map[m] = q.next + Rank(F, m)
  <2>1. s \notin F
    BY <1>2
  <2> QED BY <1>2, <1>3, <2>1 DEF Put, Over
<1>8. q.pending \in Seq(DOMAIN d.kind) /\ Len(q.pending) \in Nat /\ DOMAIN q.pending = 1 .. Len(q.pending)
  BY <1>1 DEF IsQueue
<1>9. /\ r.pending \in Seq(DOMAIN d.kind) /\ DOMAIN r.pending = 1 .. Len(q.pending) + 1
      /\ \A i \in 1 .. Len(q.pending) : r.pending[i] = q.pending[i]
      /\ r.pending[Len(q.pending) + 1] = s
  <2>1. r.pending \in Seq(DOMAIN d.kind) /\ IsAppend(r.pending, q.pending, s)
    BY <1>2, <1>3, <1>8, Appended
  <2> QED BY <2>1 DEF IsAppend
<1>10. IsQueue(r, DOMAIN d.kind)
  <2>1. IsPartial(q.map, DOMAIN d.kind) /\ IsPartial(q.holders, DOMAIN d.kind)
    BY <1>1 DEF IsQueue
  <2>2. IsPartial(Put(q.map, s, q.next), DOMAIN d.kind)
    BY <1>1, <1>2, <2>1, PutPartial
  <2>3. IsPartial(g, DOMAIN d.kind)
    BY <1>1, <1>2, <1>4 DEF IsPartial
  <2> HIDE DEF g
  <2>4. IsPartial(r.map, DOMAIN d.kind)
    BY <1>3, <2>2, <2>3, OverPartial
  <2>5. r.next \in Nat /\ r.resolving \subseteq DOMAIN d.kind /\ r.ignored \subseteq DOMAIN d.kind
    BY <1>1, <1>2, <1>3 DEF IsQueue
  <2> QED BY <1>3, <1>9, <2>1, <2>4, <2>5 DEF IsQueue
<1> HIDE DEF g
<1>11. Numbers(q) /\ Membership(d.kind, q, plan, opt)
  BY DEF QueueCore
<1>12. Numbers(r)
  <2>1. r.next \in Nat /\ q.next < r.next
    BY <1>1, <1>2, <1>3
  <2>2. \A x \in DOMAIN q.map : q.map[x] \in Nat /\ q.map[x] >= 1 /\ q.map[x] < q.next
    BY <1>1, <1>11 DEF Numbers
  <2>3. \A x \in DOMAIN q.holders : q.holders[x] \in Nat /\ q.holders[x] < q.next
    BY <1>1, <1>11, <2>2 DEF Numbers
  <2>4. ASSUME NEW m \in F PROVE r.map[m] \in Nat /\ r.map[m] > q.next /\ r.map[m] < r.next
    <3>1. Rank(F, m) \in Nat /\ Rank(F, m) >= 1 /\ Rank(F, m) <= k /\ k \in Nat
      BY <1>2, <1>4
    <3>2. r.map[m] = q.next + Rank(F, m) /\ r.next = q.next + 1 + k
      BY <1>3, <1>7
    <3> QED BY <1>1, <3>1, <3>2
  <2>5. ASSUME NEW x \in DOMAIN r.map PROVE r.map[x] \in 1 .. r.next - 1
    BY <1>1, <1>7, <2>1, <2>2, <2>4
  <2>6. ASSUME NEW x \in DOMAIN r.map, NEW y \in DOMAIN r.map, r.map[x] = r.map[y] PROVE x = y
    <3>1. CASE x \in F /\ y \in F
      <4>1. Rank(F, x) = Rank(F, y)
        BY <1>1, <1>4, <1>7, <2>6, <3>1
      <4> QED BY <1>5, <3>1, <4>1
    <3>2. CASE x \notin F \/ y \notin F
      BY <1>1, <1>7, <1>11, <2>2, <2>4, <2>6, <3>2 DEF Numbers
    <3> QED BY <3>1, <3>2
  <2>7. ASSUME NEW x \in DOMAIN r.holders
        PROVE  x \in DOMAIN r.map /\ r.holders[x] = r.map[x] + 1 /\ r.holders[x] < r.next
    BY <1>1, <1>3, <1>7, <1>11, <2>1, <2>3 DEF Numbers
  <2>8. ASSUME NEW x \in DOMAIN r.holders, NEW y \in DOMAIN r.map PROVE r.holders[x] # r.map[y]
    BY <1>1, <1>3, <1>7, <1>11, <2>3, <2>4 DEF Numbers
  <2>9. ASSUME NEW n \in 1 .. r.next - 1
        PROVE  (\E x \in DOMAIN r.map : r.map[x] = n) \/ (\E x \in DOMAIN r.holders : r.holders[x] = n)
    <3>1. CASE n < q.next
      <4>1. n \in 1 .. q.next - 1
        BY <1>1, <3>1
      <4> QED BY <1>3, <1>7, <1>11, <4>1 DEF Numbers
    <3>2. CASE n = q.next
      BY <1>7, <3>2
    <3>3. CASE n > q.next
      <4>1. n - q.next \in 1 .. k
        BY <1>1, <1>2, <1>3, <3>3
      <4>2. PICK m \in F : Rank(F, m) = n - q.next
        BY <1>6, <4>1
      <4>3. r.map[m] = n
        BY <1>1, <1>7, <4>2
      <4> QED BY <1>7, <4>3
    <3> QED BY <1>1, <3>1, <3>2, <3>3
  <2> QED BY <1>1, <2>1, <2>5, <2>6, <2>7, <2>8, <2>9 DEF Numbers
<1>13. Membership(d.kind, r, plan, opt)
  <2>1. DOMAIN r.holders = {x \in DOMAIN r.map \ DOMAIN plan.home :
                               x \notin DOMAIN plan.members /\ opt.qdf /\ d.kind[x] \in Streams}
    BY <1>2, <1>3, <1>7, <1>11 DEF Membership
  <2>2. \A i \in DOMAIN r.pending : r.pending[i] \in DOMAIN r.map \ DOMAIN plan.home
    BY <1>7, <1>8, <1>9, <1>11 DEF Membership
  <2>3. ASSUME NEW i \in DOMAIN r.pending, NEW j \in DOMAIN r.pending, r.pending[i] = r.pending[j] PROVE i = j
    <3>1. \A x \in 1 .. Len(q.pending) : q.pending[x] # s
      BY <1>8, <1>11 DEF Membership
    <3>2. \A x \in DOMAIN r.pending : x \in 1 .. Len(q.pending) \/ x = Len(q.pending) + 1
      BY <1>8, <1>9
    <3> QED BY SMTT(60), <1>8, <1>9, <1>11, <2>3, <3>1, <3>2 DEF Membership
  <2>4. ASSUME NEW m \in DOMAIN plan.home
        PROVE  m \in DOMAIN r.map <=> plan.home[m] \in DOMAIN r.map \ DOMAIN plan.home
    <3>1. m \in DOMAIN q.map <=> plan.home[m] \in DOMAIN q.map \ DOMAIN plan.home
      BY <1>11 DEF Membership
    <3>2. m \in F <=> plan.home[m] = s
      BY <1>2
    <3>3. \A x \in F : x \in DOMAIN plan.home
      BY <1>2
    <3> QED BY <1>7, <3>1, <3>2, <3>3
  <2> QED BY <1>3, <1>11, <2>1, <2>2, <2>3, <2>4 DEF Membership
<1>14. Grows(q, r, plan)
  <2>1. Waiting(r) = Waiting(q) \cup {s}
    <3>1. \A i \in DOMAIN r.pending : i \in 1 .. Len(q.pending) \/ i = Len(q.pending) + 1
      BY <1>8, <1>9
    <3>2. Len(q.pending) + 1 \in DOMAIN r.pending /\ \A i \in DOMAIN q.pending : i \in DOMAIN r.pending
      BY <1>8, <1>9
    <3> QED BY SMTT(60), <1>8, <1>9, <3>1, <3>2 DEF Waiting
  <2>2. (DOMAIN r.map \ DOMAIN q.map) \ DOMAIN plan.home = {s}
    BY <1>2, <1>7
  <2> QED BY <1>3, <1>7, <2>1, <2>2 DEF Grows, Keeps
<1> QED BY <1>3, <1>7, <1>10, <1>12, <1>13, <1>14 DEF QueueCore, r

(* A queue that stays the same grows by nothing.                           *)
LEMMA GrowsNot ==
    ASSUME NEW q, NEW P
    PROVE  Grows(q, q, P)
BY DEF Grows, Keeps

(* Growth adds up.                                                         *)
LEMMA GrowsOn ==
    ASSUME NEW q, NEW r, NEW t, NEW P, Grows(q, r, P), Grows(r, t, P)
    PROVE  Grows(q, t, P)
<1>1. DOMAIN q.map \subseteq DOMAIN r.map /\ DOMAIN r.map \subseteq DOMAIN t.map
  BY DEF Grows, Keeps
<1>2. \A s \in DOMAIN q.map : t.map[s] = q.map[s]
  BY <1>1 DEF Grows, Keeps
<1>3. Waiting(t) = Waiting(q) \cup ((DOMAIN t.map \ DOMAIN q.map) \ DOMAIN P.home)
  BY <1>1 DEF Grows, Keeps
<1>4. DOMAIN q.holders \subseteq DOMAIN t.holders /\ q.resolving \subseteq t.resolving /\ q.ignored \subseteq t.ignored
  BY DEF Grows, Keeps
<1> QED BY <1>1, <1>2, <1>3, <1>4 DEF Grows, Keeps

(* A reference stays what it is.                                           *)
LEMMA RefStays ==
    ASSUME NEW x, NEW q, NEW r, Keeps(q, r), RefOK(x, q)
    PROVE  RefOK(x, r)
BY DEF Keeps, RefOK

(* Written references stay right when the queue grows.                     *)
LEMMA RefsStay ==
    ASSUME NEW refs, NEW q, NEW r, Keeps(q, r), RefsOK(refs, q)
    PROVE  RefsOK(refs, r)
BY RefStays DEF RefsOK

(* EnqueuePlain.                                                           *)
LEMMA EnqueuesPlain ==
    ASSUME NEW d, DocOK(d), PlanOK(d.kind, plan), NEW q, QueueCore(d.kind, q, plan, opt),
           NEW s \in DOMAIN d.kind, s \notin DOMAIN plan.home \/ s \in DOMAIN q.map \/ IgnoredByQdf(d, s)
    PROVE  /\ QueueCore(d.kind, EnqueuePlain(d, q, s), plan, opt)
           /\ Grows(q, EnqueuePlain(d, q, s), plan)
           /\ EnqueuePlain(d, q, s).resolving = q.resolving
           /\ s \in DOMAIN EnqueuePlain(d, q, s).map \/ (IgnoredByQdf(d, s) /\ s \in EnqueuePlain(d, q, s).ignored)
<1> DEFINE r == EnqueuePlain(d, q, s)
<1>1. CASE IgnoredByQdf(d, s)
  <2>1. r = [q EXCEPT !.ignored = @ \cup {s}]
    BY <1>1 DEF EnqueuePlain
  <2>2. IsQueue(q, DOMAIN d.kind)
    BY DEF QueueCore
  <2> HIDE DEF r
  <2>3. /\ r = [next |-> q.next, map |-> q.map, pending |-> q.pending, resolving |-> q.resolving,
                holders |-> q.holders, ignored |-> q.ignored \cup {s}]
    BY <2>1, <2>2 DEF IsQueue
  <2>4. IsQueue(r, DOMAIN d.kind)
    BY <2>2, <2>3 DEF IsQueue
  <2>5. q.resolving \subseteq DOMAIN plan.home
    BY DEF QueueCore, Membership
  <2>6. QueueCore(d.kind, r, plan, opt) /\ Grows(q, r, plan)
    BY <2>3, <2>4, <2>5, MarksKeep
  <2> QED BY <1>1, <2>3, <2>6 DEF r
<1>2. CASE ~IgnoredByQdf(d, s) /\ s \in DOMAIN q.map
  <2>1. r = q
    BY <1>2 DEF EnqueuePlain
  <2> QED BY <1>2, <2>1, GrowsNot
<1>3. CASE ~IgnoredByQdf(d, s) /\ s \notin DOMAIN q.map
  <2>1. r = Reserve(d, q, s)
    BY <1>3 DEF EnqueuePlain
  <2>2. CASE s \in DOMAIN plan.members
    BY <1>3, <2>1, <2>2, ReservesContainer
  <2>3. CASE s \notin DOMAIN plan.members
    BY <1>3, <2>1, <2>3, ReservesPlain
  <2> QED BY <2>2, <2>3
<1> QED BY <1>1, <1>2, <1>3

-----------------------------------------------------------------------------
(* Climbing the chain of containers.                                       *)

(* The chain of containers above an object exists, step by step.           *)
LEMMA ChainClimbs ==
    ASSUME NEW d, DocOK(d), PlanOK(d.kind, plan), NEW s \in DOMAIN d.kind
    PROVE  /\ Chain(d, s) \in [0 .. Len(d.kind) -> DOMAIN d.kind] /\ Chain(d, s)[0] = s
           /\ \A i \in 1 .. Len(d.kind) : Chain(d, s)[i] = Up(Chain(d, s)[i - 1])
<1> DEFINE n == Len(d.kind)
           V == DOMAIN d.kind
           step == [i \in 1 .. n |-> [v \in V |-> Up(v)]]
<1>1. n \in Nat
  BY DEF DocOK
<1>2. \A v \in V : Up(v) \in V
  BY DEF Up, PlanOK
<1>3. step \in [1 .. n -> [V -> V]] /\ \A i \in 1 .. n : \A v \in V : step[i][v] = Up(v)
  BY <1>2
<1>4. Chain(d, s) = CHOOSE f : f = [i \in 0 .. n |-> IF i = 0 THEN s ELSE Up(f[i - 1])]
  BY DEF Chain
<1> HIDE DEF step, n, V
<1>5. s \in V
  BY DEF V
<1>6. PICK f : f \in [0 .. n -> V] /\ f[0] = s /\ \A i \in 1 .. n : f[i] = step[i][f[i - 1]]
  <2>1. \E f : Recursion(f, n, V, s, step)
    BY <1>1, <1>3, <1>5, RecursionExists
  <2> QED BY <2>1 DEF Recursion
<1>7. \A i \in 0 .. n : f[i] = IF i = 0 THEN s ELSE Up(f[i - 1])
  <2>1. ASSUME NEW i \in 0 .. n, i # 0 PROVE f[i] = Up(f[i - 1])
    <3>1. i \in 1 .. n /\ i - 1 \in 0 .. n
      BY <1>1, <2>1
    <3> QED BY <1>3, <1>6, <3>1
  <2> QED BY <1>6, <2>1
<1>8. f = [i \in 0 .. n |-> IF i = 0 THEN s ELSE Up(f[i - 1])]
  BY <1>6, <1>7
<1>9. Chain(d, s) = [i \in 0 .. n |-> IF i = 0 THEN s ELSE Up(Chain(d, s)[i - 1])]
  BY <1>4, <1>8
<1> DEFINE c == Chain(d, s)
<1> HIDE DEF c
<1>10. c = [i \in 0 .. n |-> IF i = 0 THEN s ELSE Up(c[i - 1])]
  BY <1>9 DEF c
<1>11. c[0] = s /\ \A i \in 1 .. n : c[i] = Up(c[i - 1])
  BY <1>1, <1>10
<1> DEFINE S == {i \in Nat : i <= n => c[i] \in V}
<1>12. 0 \in S
  BY <1>5, <1>11
<1>13. ASSUME NEW i \in Nat, i \in S PROVE i + 1 \in S
  <2> SUFFICES ASSUME i + 1 <= n PROVE c[i + 1] \in V
    OBVIOUS
  <2>1. i + 1 \in 1 .. n /\ (i + 1) - 1 = i /\ c[i] \in V
    BY <1>1, <1>13
  <2> QED BY <1>2, <1>11, <2>1 DEF V
<1>14. \A i \in Nat : i \in S
  <2> HIDE DEF S
  <2> QED BY <1>12, <1>13, SetInduction
<1>15. c \in [0 .. n -> V]
  BY <1>1, <1>10, <1>14
<1> QED BY <1>11, <1>15 DEF c, n, V

(* Where the climb ends.                                                   *)
LEMMA ClimbEnds ==
    ASSUME NEW d, DocOK(d), PlanOK(d.kind, plan), NEW q, NEW s \in DOMAIN d.kind
    PROVE  /\ LastOf(d, q, Chain(d, s)) \in 0 .. Len(d.kind)
           /\ Ends(d, q, Chain(d, s), LastOf(d, q, Chain(d, s)))
           /\ \A i \in 0 .. Len(d.kind) : Ends(d, q, Chain(d, s), i) => LastOf(d, q, Chain(d, s)) <= i
<1> DEFINE n == Len(d.kind)
           c == Chain(d, s)
           E == {i \in 0 .. n : Ends(d, q, c, i)}
<1>1. n \in Nat /\ DOMAIN d.kind = 1 .. n
  BY DEF DocOK
<1>2. c \in [0 .. n -> 1 .. n]
  BY <1>1, ChainClimbs
<1>3. LastOf(d, q, c) = Min(E)
  <2>1. DOMAIN c = 0 .. n
    BY <1>2
  <2> QED BY <2>1 DEF LastOf
<1> HIDE DEF n, c
<1>4. IsFiniteSet(0 .. n) /\ Cardinality(0 .. n) = n + 1 /\ IsFiniteSet(1 .. n) /\ Cardinality(1 .. n) = n
  <2>1. IsFiniteSet(0 .. n) /\ Cardinality(0 .. n) = n - 0 + 1
    BY <1>1, FS_Interval
  <2>2. (IsFiniteSet(1 .. n) /\ Cardinality(1 .. n) = n - 1 + 1) \/ n = 0
    BY <1>1, FS_Interval
  <2>3. n = 0 => 1 .. n = {}
    OBVIOUS
  <2> QED BY <1>1, <2>1, <2>2, <2>3, FS_Interval
<1>5. PICK x \in 0 .. n, y \in 0 .. n : x # y /\ c[x] = c[y]
  <2>1. Cardinality(1 .. n) < Cardinality(0 .. n)
    BY <1>1, <1>4
  <2> QED BY <1>2, <1>4, <2>1, FS_PigeonHole
<1>6. E # {}
  <2>1. CASE x < y
    BY <1>5, <2>1 DEF Ends
  <2>2. CASE y < x
    BY <1>5, <2>2 DEF Ends
  <2> QED BY <1>5, <2>1, <2>2
<1>7. E \subseteq Nat
  OBVIOUS
<1>8. Min(E) \in E /\ \A y2 \in E : Min(E) <= y2
  <2> HIDE DEF E
  <2> QED BY <1>6, <1>7, LeastExists DEF Min
<1> QED BY <1>3, <1>8 DEF c, n

(* EnqueueContainer.                                                       *)
LEMMA EnqueuesContainer ==
    ASSUME NEW d, DocOK(d), PlanOK(d.kind, plan), NEW q, QueueOK(d.kind, q, plan, opt),
           NEW s \in DOMAIN plan.home, s \notin DOMAIN q.map, s \notin q.resolving, ~IgnoredByQdf(d, s)
    PROVE  /\ QueueOK(d.kind, EnqueueContainer(d, q, s), plan, opt)
           /\ Grows(q, EnqueueContainer(d, q, s), plan)
           /\ SoundPlan(d.kind, plan, opt) => s \in DOMAIN EnqueueContainer(d, q, s).map
<1> DEFINE n == Len(d.kind)
           c == Chain(d, s)
           last == LastOf(d, q, c)
           M == {c[i] : i \in 0 .. last - 1}
           marked == [q EXCEPT !.resolving = @ \cup M]
           r == EnqueueContainer(d, q, s)
<1>1. r = IF c[last] \in DOMAIN plan.home /\ ~IgnoredByQdf(d, c[last]) THEN marked
          ELSE EnqueuePlain(d, marked, c[last])
  BY DEF EnqueueContainer, Once, Enter
<1>2. n \in Nat /\ DOMAIN d.kind = 1 .. n /\ n # 0 /\ s \in DOMAIN d.kind
  BY DEF DocOK, PlanOK
<1>3. c \in [0 .. n -> DOMAIN d.kind] /\ c[0] = s /\ \A i \in 1 .. n : c[i] = Up(c[i - 1])
  BY <1>2, ChainClimbs
<1>4. last \in 0 .. n /\ Ends(d, q, c, last) /\ \A i \in 0 .. n : Ends(d, q, c, i) => last <= i
  BY <1>2, ClimbEnds
<1>5. QueueCore(d.kind, q, plan, opt) /\ IsQueue(q, DOMAIN d.kind) /\ q.resolving \subseteq DOMAIN plan.home
  BY DEF QueueOK, QueueCore, Membership
<1> HIDE DEF c, last, n
<1>6. \A i \in 0 .. last - 1 : c[i] \in DOMAIN plan.home
  <2> SUFFICES ASSUME NEW i \in 0 .. last - 1 PROVE ~Ends(d, q, c, i)
    BY DEF Ends
  <2>1. i \in 0 .. n /\ ~(last <= i)
    BY <1>2, <1>4
  <2> QED BY <1>4, <2>1
<1>7. M \subseteq DOMAIN plan.home /\ DOMAIN plan.home \subseteq DOMAIN d.kind
  <2>1. ASSUME NEW x \in M PROVE x \in DOMAIN plan.home
    <3>1. PICK i \in 0 .. last - 1 : x = c[i]
      OBVIOUS
    <3> QED BY <1>6, <3>1
  <2> HIDE DEF M
  <2> QED BY <2>1 DEF PlanOK
<1> HIDE DEF M
<1>8. /\ marked = [next |-> q.next, map |-> q.map, pending |-> q.pending, resolving |-> q.resolving \cup M,
                   holders |-> q.holders, ignored |-> q.ignored]
  <2>1. marked = [q EXCEPT !.resolving = @ \cup M]
    OBVIOUS
  <2> HIDE DEF marked
  <2> QED BY <1>5, <2>1 DEF IsQueue
<1> HIDE DEF marked
<1>9. IsQueue(marked, DOMAIN d.kind)
  BY <1>5, <1>7, <1>8 DEF IsQueue
<1>10. QueueCore(d.kind, marked, plan, opt) /\ Grows(q, marked, plan)
  BY <1>5, <1>7, <1>8, <1>9, MarksKeep
<1>11. /\ QueueCore(d.kind, r, plan, opt) /\ Grows(q, r, plan) /\ r.resolving = q.resolving \cup M
       /\ c[last] \in DOMAIN r.map \/ c[last] \in DOMAIN plan.home \/ IgnoredByQdf(d, c[last])
  <2>1. CASE c[last] \in DOMAIN plan.home /\ ~IgnoredByQdf(d, c[last])
    BY <1>1, <1>8, <1>10, <2>1
  <2>2. CASE ~(c[last] \in DOMAIN plan.home /\ ~IgnoredByQdf(d, c[last]))
    <3>1. r = EnqueuePlain(d, marked, c[last])
      BY <1>1, <2>2
    <3>2. c[last] \in DOMAIN d.kind
      BY <1>3, <1>4
    <3>3. QueueCore(d.kind, r, plan, opt) /\ Grows(marked, r, plan) /\ r.resolving = marked.resolving
      BY <1>10, <2>2, <3>1, <3>2, EnqueuesPlain
    <3>4. c[last] \in DOMAIN r.map \/ IgnoredByQdf(d, c[last])
      BY <1>10, <2>2, <3>1, <3>2, EnqueuesPlain
    <3>5. Grows(q, r, plan)
      BY <1>10, <3>3, GrowsOn
    <3> QED BY <1>8, <3>3, <3>4, <3>5
  <2> QED BY <2>1, <2>2
<1>12. ASSUME SoundPlan(d.kind, plan, opt) PROVE s \in DOMAIN r.map /\ r.resolving \subseteq DOMAIN r.map
  <2>1. plan.home[s] \notin DOMAIN plan.home /\ plan.home[s] \in DOMAIN plan.members /\ plan.home[s] \in DOMAIN d.kind
    BY <1>12 DEF SoundPlan, Unnested, PlanOK
  <2>2. ~IgnoredByQdf(d, plan.home[s])
    BY <1>12, <2>1 DEF SoundPlan, IgnoredByQdf
  <2>3. 1 \in 1 .. n /\ 1 - 1 = 0
    BY <1>2
  <2>4. c[1] = plan.home[s]
    BY <1>3, <2>3 DEF Up
  <2>5. Ends(d, q, c, 1)
    BY <2>1, <2>4 DEF Ends
  <2>6. ~Ends(d, q, c, 0)
    <3>1. ~\E j \in 0 .. 0 - 1 : c[j] = c[0]
      OBVIOUS
    <3> QED BY <1>3, <3>1 DEF Ends
  <2>7. last = 1
    <3>1. last <= 1
      BY <1>2, <1>4, <2>5
    <3>2. last # 0
      BY <1>4, <2>6
    <3> QED BY <1>4, <3>1, <3>2
  <2>8. M = {s}
    <3>1. 0 .. last - 1 = {0}
      BY <2>7
    <3> QED BY <1>3, <3>1 DEF M
  <2>9. plan.home[s] \in DOMAIN r.map
    BY <1>11, <2>1, <2>2, <2>4, <2>7
  <2>10. s \in DOMAIN r.map
    BY <1>11, <2>1, <2>9 DEF QueueCore, Membership
  <2>11. q.resolving \subseteq DOMAIN r.map
    BY <1>11, <1>12 DEF QueueOK, Grows, Keeps
  <2> QED BY <1>11, <2>8, <2>10, <2>11
<1> QED BY <1>11, <1>12 DEF QueueOK

-----------------------------------------------------------------------------
(* Enqueueing any reference.                                               *)

(* What the queue r after a reference to s says, when n was written for it. *)
Answered(d, q, s, r, n) ==
    /\ QueueOK(d.kind, r, plan, opt) /\ Grows(q, r, plan)
    /\ n = Missing \/ RefOK([to |-> s, number |-> n], r)
    /\ s \in DOMAIN r.map => n = r.map[s] \/ n = 0
    /\ SoundPlan(d.kind, plan, opt) => s \in DOMAIN r.map \/ (IgnoredByQdf(d, s) /\ s \in r.ignored)

(* EnqueueHandle keeps the queue right and answers with the number of s,   *)
(* with 0 where it must, or with Missing for a plan that is not sound.     *)
LEMMA EnqueuesHandle ==
    ASSUME NEW d, DocOK(d), PlanOK(d.kind, plan), NEW q, QueueOK(d.kind, q, plan, opt), NEW s \in DOMAIN d.kind
    PROVE  Answered(d, q, s, EnqueueHandle(d, q, s).queue, EnqueueHandle(d, q, s).number)
<1> DEFINE e == EnqueueHandle(d, q, s)
<1>1. QueueCore(d.kind, q, plan, opt)
  BY DEF QueueOK
<1>2. CASE s \notin DOMAIN plan.home \/ s \in DOMAIN q.map \/ IgnoredByQdf(d, s)
  <2> DEFINE r == EnqueuePlain(d, q, s)
  <2>1. e.queue = r /\ e.number = NumberIn(r, s, Missing)
    <3>1. e = [queue |-> r, number |-> NumberIn(r, s, Missing)]
      BY <1>2 DEF EnqueueHandle, Once
    <3> HIDE DEF e, r
    <3> QED BY <3>1
  <2>2. /\ QueueCore(d.kind, r, plan, opt) /\ Grows(q, r, plan) /\ r.resolving = q.resolving
        /\ s \in DOMAIN r.map \/ (IgnoredByQdf(d, s) /\ s \in r.ignored)
    BY <1>1, <1>2, EnqueuesPlain
  <2> HIDE DEF r, e
  <2>3. QueueOK(d.kind, r, plan, opt)
    BY <2>2 DEF QueueOK, Grows, Keeps
  <2> QED BY <2>1, <2>2, <2>3 DEF Answered, NumberIn, RefOK, e
<1>3. CASE ~(s \notin DOMAIN plan.home \/ s \in DOMAIN q.map \/ IgnoredByQdf(d, s)) /\ s \in q.resolving
  <2>1. e.queue = q /\ e.number = 0
    BY <1>3 DEF EnqueueHandle
  <2>2. ~SoundPlan(d.kind, plan, opt)
    BY <1>3 DEF QueueOK
  <2> HIDE DEF e
  <2> QED BY <1>3, <2>1, <2>2, GrowsNot DEF Answered, RefOK, e
<1>4. CASE ~(s \notin DOMAIN plan.home \/ s \in DOMAIN q.map \/ IgnoredByQdf(d, s)) /\ s \notin q.resolving
  <2> DEFINE r == EnqueueContainer(d, q, s)
  <2>1. e.queue = r /\ e.number = NumberIn(r, s, Missing)
    <3>1. e = [queue |-> r, number |-> NumberIn(r, s, Missing)]
      BY <1>4 DEF EnqueueHandle, Once
    <3> HIDE DEF e, r
    <3> QED BY <3>1
  <2>2. QueueOK(d.kind, r, plan, opt) /\ Grows(q, r, plan) /\ (SoundPlan(d.kind, plan, opt) => s \in DOMAIN r.map)
    BY <1>4, EnqueuesContainer
  <2> HIDE DEF r, e
  <2> QED BY <2>1, <2>2 DEF Answered, NumberIn, RefOK, e
<1> QED BY <1>2, <1>3, <1>4

-----------------------------------------------------------------------------
(* Enqueueing and writing sequences of references.                         *)

Partial(S) == UNION {[D -> Nat] : D \in SUBSET S}
Queues(S) == [next : Nat, map : Partial(S), pending : Seq(S), resolving : SUBSET S,
              holders : Partial(S), ignored : SUBSET S]
GoodQueues(d) == {q \in Queues(DOMAIN d.kind) : QueueOK(d.kind, q, plan, opt)}

(* The set of partial functions.                                           *)
LEMMA PartialIs ==
    ASSUME NEW f, NEW S
    PROVE  f \in Partial(S) <=> IsPartial(f, S)
BY DEF Partial, IsPartial

(* The set of queues.                                                      *)
LEMMA QueueIs ==
    ASSUME NEW q, NEW S, IsQueue(q, S)
    PROVE  q \in Queues(S)
<1>1. q.map \in Partial(S) /\ q.holders \in Partial(S)
  BY PartialIs DEF IsQueue
<1> QED BY <1>1 DEF IsQueue, Queues

(* The set of queues that are right.                                       *)
LEMMA GoodQueueIs ==
    ASSUME NEW d, NEW q
    PROVE  q \in GoodQueues(d) <=> QueueOK(d.kind, q, plan, opt)
BY QueueIs DEF GoodQueues, QueueOK, QueueCore

(* The queue r after the first n references.                               *)
AllAnswered(d, q, refs, n, r) ==
    /\ QueueOK(d.kind, r, plan, opt) /\ Grows(q, r, plan)
    /\ SoundPlan(d.kind, plan, opt) =>
          \A i \in 1 .. n : refs[i] \in DOMAIN r.map \/ (IgnoredByQdf(d, refs[i]) /\ refs[i] \in r.ignored)

(* EnqueueAll keeps the queue right and numbers every reference of a sound *)
(* plan.                                                                   *)
LEMMA EnqueuesAll ==
    ASSUME NEW d, DocOK(d), PlanOK(d.kind, plan), NEW q, QueueOK(d.kind, q, plan, opt),
           NEW refs \in Seq(DOMAIN d.kind)
    PROVE  AllAnswered(d, q, refs, Len(refs), EnqueueAll(d, q, refs))
<1> DEFINE n == Len(refs)
           V == GoodQueues(d)
           Go(i, x) == EnqueueHandle(d, x, refs[i]).queue
           step == [i \in 1 .. n |-> [v \in V |-> Go(i, v)]]
           c == CHOOSE f : f = [i \in 0 .. n |->
                    IF i = 0 THEN q ELSE Once(LAMBDA before : EnqueueHandle(d, before, refs[i]).queue, f[i - 1])]
<1>1. n \in Nat /\ \A i \in 1 .. n : refs[i] \in DOMAIN d.kind
  OBVIOUS
<1>2. EnqueueAll(d, q, refs) = c[n]
  BY DEF EnqueueAll
<1>3. ASSUME NEW i \in 1 .. n, NEW v \in V PROVE Go(i, v) \in V /\ Answered(d, v, refs[i], Go(i, v), EnqueueHandle(d, v, refs[i]).number)
  <2>1. QueueOK(d.kind, v, plan, opt) /\ refs[i] \in DOMAIN d.kind
    BY <1>1, GoodQueueIs
  <2>2. Answered(d, v, refs[i], Go(i, v), EnqueueHandle(d, v, refs[i]).number)
    BY <2>1, EnqueuesHandle
  <2>3. QueueOK(d.kind, Go(i, v), plan, opt)
    BY <2>2 DEF Answered
  <2> QED BY <2>2, <2>3, GoodQueueIs
<1>4. \A x : \A i \in 1 .. n : Once(LAMBDA before : EnqueueHandle(d, before, refs[i]).queue, x) = Go(i, x)
  BY DEF Once
<1>5. step \in [1 .. n -> [V -> V]] /\ \A i \in 1 .. n : \A v \in V : step[i][v] = Go(i, v)
  BY <1>3
<1>6. q \in V
  BY GoodQueueIs
<1> HIDE DEF step, n, V, Go
<1>7. PICK f : f \in [0 .. n -> V] /\ f[0] = q /\ \A i \in 1 .. n : f[i] = step[i][f[i - 1]]
  <2>1. \E f : Recursion(f, n, V, q, step)
    BY <1>1, <1>5, <1>6, RecursionExists
  <2> QED BY <2>1 DEF Recursion
<1>8. f = [i \in 0 .. n |->
               IF i = 0 THEN q ELSE Once(LAMBDA before : EnqueueHandle(d, before, refs[i]).queue, f[i - 1])]
  <2>1. ASSUME NEW i \in 0 .. n, i # 0
        PROVE  f[i] = Once(LAMBDA before : EnqueueHandle(d, before, refs[i]).queue, f[i - 1])
    <3>1. i \in 1 .. n /\ i - 1 \in 0 .. n
      BY <1>1, <2>1
    <3>2. f[i] = Go(i, f[i - 1])
      BY <1>5, <1>7, <3>1
    <3> QED BY <1>4, <3>1, <3>2
  <2> QED BY <1>7, <2>1
<1>9. c = [i \in 0 .. n |->
               IF i = 0 THEN q ELSE Once(LAMBDA before : EnqueueHandle(d, before, refs[i]).queue, c[i - 1])]
  BY <1>8
<1> HIDE DEF c
<1>10. c[0] = q /\ \A i \in 1 .. n : c[i] = Go(i, c[i - 1])
  <2>1. ASSUME NEW i \in 1 .. n PROVE c[i] = Go(i, c[i - 1])
    <3>1. i \in 0 .. n /\ i # 0
      BY <1>1
    <3>2. c[i] = Once(LAMBDA before : EnqueueHandle(d, before, refs[i]).queue, c[i - 1])
      BY <1>9, <3>1
    <3> QED BY <1>4, <3>2
  <2> QED BY SMTT(60), <1>1, <1>9, <2>1
<1> DEFINE S == {i \in Nat : i <= n => c[i] \in V /\ AllAnswered(d, q, refs, i, c[i])}
<1>11. 0 \in S
  <2>1. AllAnswered(d, q, refs, 0, q)
    BY GrowsNot DEF AllAnswered
  <2> QED BY <1>6, <1>10, <2>1
<1>12. ASSUME NEW i \in Nat, i \in S PROVE i + 1 \in S
  <2> SUFFICES ASSUME i + 1 <= n PROVE c[i + 1] \in V /\ AllAnswered(d, q, refs, i + 1, c[i + 1])
    OBVIOUS
  <2> DEFINE u == c[i]
             v == c[i + 1]
  <2>1. i + 1 \in 1 .. n /\ (i + 1) - 1 = i /\ u \in V /\ AllAnswered(d, q, refs, i, u)
    BY <1>1, <1>12
  <2>2. v = Go(i + 1, u)
    BY <1>10, <2>1
  <2>3. v \in V
    BY <1>3, <2>1, <2>2
  <2>4. PICK m : Answered(d, u, refs[i + 1], v, m)
    BY <1>3, <2>1, <2>2
  <2> HIDE DEF u, v
  <2>5. QueueOK(d.kind, v, plan, opt) /\ Grows(u, v, plan) /\ Grows(q, u, plan)
    BY <2>1, <2>4 DEF Answered, AllAnswered
  <2>6. Grows(q, v, plan)
    BY <2>5, GrowsOn
  <2>7. ASSUME SoundPlan(d.kind, plan, opt), NEW j \in 1 .. i + 1
        PROVE  refs[j] \in DOMAIN v.map \/ (IgnoredByQdf(d, refs[j]) /\ refs[j] \in v.ignored)
    <3>1. CASE j = i + 1
      BY <2>4, <2>7, <3>1 DEF Answered
    <3>2. CASE j # i + 1
      <4>1. j \in 1 .. i
        BY <3>2
      <4>2. refs[j] \in DOMAIN u.map \/ (IgnoredByQdf(d, refs[j]) /\ refs[j] \in u.ignored)
        BY <2>1, <2>7, <4>1 DEF AllAnswered
      <4> QED BY <2>5, <4>2 DEF Grows, Keeps
    <3> QED BY <3>1, <3>2
  <2>8. AllAnswered(d, q, refs, i + 1, v)
    BY <2>5, <2>6, <2>7 DEF AllAnswered
  <2> QED BY <2>3, <2>8 DEF v
<1>13. n \in S
  <2> HIDE DEF S
  <2> QED BY <1>1, <1>11, <1>12, SetInduction
<1> QED BY <1>1, <1>2, <1>13 DEF n

(* What unparsing with references refs must answer.                        *)
Unparsed(d, q, refs, r) ==
    /\ QueueOK(d.kind, r.queue, plan, opt) /\ Grows(q, r.queue, plan)
    /\ r.error = "" => RefsOK(r.refs, r.queue) /\ Targets(r.refs) = refs

(* StaticRefs.                                                             *)
LEMMA WritesStatic ==
    ASSUME NEW d, DocOK(d), PlanOK(d.kind, plan), NEW q, QueueOK(d.kind, q, plan, opt),
           NEW refs \in Seq(DOMAIN d.kind)
    PROVE  /\ Unparsed(d, q, refs, StaticRefs(d, q, refs))
           /\ SoundPlan(d.kind, plan, opt) => StaticRefs(d, q, refs).error = ""
<1> DEFINE a == EnqueueAll(d, q, refs)
           Number(s) == NumberIn(a, s, IF s \in a.ignored THEN 0 ELSE Missing)
           rr == [i \in DOMAIN refs |-> [to |-> refs[i], number |-> Number(refs[i])]]
           er == IF \E i \in DOMAIN refs : Number(refs[i]) = Missing THEN "absent" ELSE ""
           r == StaticRefs(d, q, refs)
<1>1. AllAnswered(d, q, refs, Len(refs), a)
  BY EnqueuesAll
<1>2. r = [queue |-> a, refs |-> rr, error |-> er]
  <2> DEFINE Entry(v, s) == NumberIn(v, s, IF s \in v.ignored THEN 0 ELSE Missing)
             Write(v) == [queue |-> v,
                          refs |-> [i \in DOMAIN refs |-> [to |-> refs[i], number |-> Entry(v, refs[i])]],
                          error |-> IF \E i \in DOMAIN refs : Entry(v, refs[i]) = Missing THEN "absent" ELSE ""]
  <2>1. r = Once(Write, a)
    BY DEF StaticRefs
  <2>2. Write(a) = [queue |-> a, refs |-> rr, error |-> er]
    OBVIOUS
  <2> HIDE DEF Write, r, a, rr, er
  <2>3. r = Write(a)
    BY <2>1 DEF Once
  <2> QED BY <2>2, <2>3
<1>3. Len(refs) \in Nat /\ DOMAIN refs = 1 .. Len(refs) /\ refs = [i \in DOMAIN refs |-> refs[i]]
  OBVIOUS
<1> HIDE DEF r, a
<1>4. QueueOK(d.kind, a, plan, opt) /\ Grows(q, a, plan)
  BY <1>1 DEF AllAnswered
<1>5. IsSeq(rr)
  <2>1. rr \in [1 .. Len(refs) -> {rr[i] : i \in DOMAIN rr}]
    BY <1>3
  <2> QED BY <1>3, <2>1, SeqDef DEF IsSeq
<1>6. Targets(rr) = refs
  BY <1>3 DEF Targets
<1>7. ASSUME er = "", NEW i \in DOMAIN refs PROVE RefOK(rr[i], a)
  <2>1. Number(refs[i]) # Missing
    BY <1>7
  <2>2. rr[i].to = refs[i] /\ rr[i].number = Number(refs[i])
    OBVIOUS
  <2> QED BY <2>1, <2>2 DEF RefOK, NumberIn
<1>8. er = "" => RefsOK(rr, a)
  BY <1>5, <1>7 DEF RefsOK
<1>9. SoundPlan(d.kind, plan, opt) => er = ""
  <2> SUFFICES ASSUME SoundPlan(d.kind, plan, opt), NEW i \in DOMAIN refs PROVE Number(refs[i]) # Missing
    OBVIOUS
  <2>1. refs[i] \in DOMAIN a.map \/ refs[i] \in a.ignored
    BY <1>1, <1>3 DEF AllAnswered
  <2>2. refs[i] \in DOMAIN a.map => a.map[refs[i]] \in Nat
    BY <1>4 DEF QueueOK, QueueCore, IsQueue, IsPartial
  <2> QED BY <2>1, <2>2 DEF NumberIn, Missing
<1> HIDE DEF rr, er
<1>10. r.queue = a /\ r.refs = rr /\ r.error = er
  BY <1>2
<1>11. Unparsed(d, q, refs, r)
  BY <1>4, <1>6, <1>8, <1>10 DEF Unparsed
<1> QED BY <1>9, <1>10, <1>11 DEF r

(* DynamicRefs, reference by reference.                                    *)
Reference(d) == [to : DOMAIN d.kind, number : Int]
Accs(d) == [queue : GoodQueues(d), refs : Seq(Reference(d)), error : {"", "child"}]
NoneIgnored(d) == \A s \in DOMAIN d.kind : ~IgnoredByQdf(d, s)
WrittenTo(d, q, refs, n, acc) ==
    /\ acc \in Accs(d) /\ Grows(q, acc.queue, plan)
    /\ acc.error = "" =>
          Len(acc.refs) = n /\ \A j \in 1 .. n : acc.refs[j].to = refs[j] /\ RefOK(acc.refs[j], acc.queue)
    /\ SoundPlan(d.kind, plan, opt) /\ NoneIgnored(d) => acc.error = ""

(* One more reference, without the empty string.                           *)
LEMMA ChildIs ==
    ASSUME NEW d, NEW acc, NEW s, acc.error = ""
    PROVE  Child(d, acc, s) =
              [queue |-> EnqueueHandle(d, acc.queue, s).queue,
               refs |-> Append(acc.refs, [to |-> s, number |-> EnqueueHandle(d, acc.queue, s).number]),
               error |-> IF EnqueueHandle(d, acc.queue, s).number = Missing THEN "child" ELSE ""]
<1> DEFINE e == EnqueueHandle(d, acc.queue, s)
           Write(v) == [queue |-> v.queue, refs |-> Append(acc.refs, [to |-> s, number |-> v.number]),
                        error |-> IF v.number = Missing THEN "child" ELSE ""]
<1>1. Child(d, acc, s) = Once(Write, e)
  BY DEF Child
<1>2. Child(d, acc, s) = Write(e)
  <2> HIDE DEF Write, e
  <2> QED BY <1>1 DEF Once
<1> QED BY <1>2

(* One more reference, written as it is enqueued, is right.                *)
LEMMA WritesChild ==
    ASSUME NEW d, DocOK(d), PlanOK(d.kind, plan), NEW acc \in Accs(d), NEW s \in DOMAIN d.kind
    PROVE  /\ Child(d, acc, s) \in Accs(d)
           /\ acc.error # "" => Child(d, acc, s) = acc
           /\ acc.error = "" =>
                /\ Grows(acc.queue, Child(d, acc, s).queue, plan)
                /\ IsAppend(Child(d, acc, s).refs, acc.refs, Child(d, acc, s).refs[Len(acc.refs) + 1])
                /\ Child(d, acc, s).refs[Len(acc.refs) + 1].to = s
                /\ Child(d, acc, s).error = "" =>
                      RefOK(Child(d, acc, s).refs[Len(acc.refs) + 1], Child(d, acc, s).queue)
                /\ SoundPlan(d.kind, plan, opt) /\ NoneIgnored(d) => Child(d, acc, s).error = ""
<1> DEFINE e == EnqueueHandle(d, acc.queue, s)
           x == [to |-> s, number |-> e.number]
           c == Child(d, acc, s)
<1>1. CASE acc.error # ""
  BY <1>1 DEF Child
<1>2. CASE acc.error = ""
  <2>1. acc.queue \in GoodQueues(d) /\ acc.refs \in Seq(Reference(d))
    BY DEF Accs
  <2>2. QueueOK(d.kind, acc.queue, plan, opt)
    BY <2>1, GoodQueueIs
  <2>3. Answered(d, acc.queue, s, e.queue, e.number)
    BY <2>2, EnqueuesHandle
  <2>4. c = [queue |-> e.queue, refs |-> Append(acc.refs, x), error |-> IF e.number = Missing THEN "child" ELSE ""]
    BY <1>2, ChildIs
  <2> HIDE DEF c, e
  <2>5. QueueOK(d.kind, e.queue, plan, opt) /\ Grows(acc.queue, e.queue, plan)
    BY <2>3 DEF Answered
  <2>6. e.number \in Int
    <3>1. \A t \in DOMAIN e.queue.map : e.queue.map[t] \in Nat
      BY <2>5 DEF QueueOK, QueueCore, IsQueue, IsPartial
    <3>2. e.number = Missing \/ e.number = 0 \/ (s \in DOMAIN e.queue.map /\ e.number = e.queue.map[s])
      BY <2>3 DEF Answered, RefOK
    <3> QED BY <3>1, <3>2 DEF Missing
  <2>7. x \in Reference(d) /\ x.to = s /\ x.number = e.number
    BY <2>6 DEF Reference
  <2>8. e.number # Missing => RefOK(x, e.queue)
    BY <2>3 DEF Answered
  <2>9. SoundPlan(d.kind, plan, opt) /\ NoneIgnored(d) => e.number # Missing
    <3> SUFFICES ASSUME SoundPlan(d.kind, plan, opt), NoneIgnored(d) PROVE e.number # Missing
      OBVIOUS
    <3>1. s \in DOMAIN e.queue.map
      BY <2>3 DEF Answered, NoneIgnored
    <3>2. e.queue.map[s] \in Nat
      BY <2>5, <3>1 DEF QueueOK, QueueCore, IsQueue, IsPartial
    <3>3. e.number = e.queue.map[s] \/ e.number = 0
      BY <2>3, <3>1 DEF Answered
    <3> QED BY <3>2, <3>3 DEF Missing
  <2> HIDE DEF x
  <2>10. Append(acc.refs, x) \in Seq(Reference(d)) /\ IsAppend(Append(acc.refs, x), acc.refs, x)
    BY <2>1, <2>7, Appended
  <2> DEFINE a == Append(acc.refs, x)
  <2> HIDE DEF a
  <2>11. a \in Seq(Reference(d)) /\ IsAppend(a, acc.refs, x) /\ a[Len(acc.refs) + 1] = x
    BY <2>10 DEF a, IsAppend
  <2>12. c.queue = e.queue /\ c.refs = a /\ c.error = IF e.number = Missing THEN "child" ELSE ""
    BY <2>4 DEF a
  <2>13. c \in Accs(d)
    <3>1. e.queue \in GoodQueues(d)
      BY <2>5, GoodQueueIs
    <3>2. c = [queue |-> e.queue, refs |-> a, error |-> IF e.number = Missing THEN "child" ELSE ""]
      BY <2>4 DEF a
    <3> QED BY <3>1, <3>2, <2>11 DEF Accs
  <2>14. c.refs[Len(acc.refs) + 1] = x /\ IsAppend(c.refs, acc.refs, x)
    BY <2>11, <2>12
  <2> QED BY <1>2, <2>5, <2>7, <2>8, <2>9, <2>12, <2>13, <2>14 DEF c
<1> QED BY <1>1, <1>2

(* References written one after the other are right.                       *)
LEMMA WritesOn ==
    ASSUME NEW d, DocOK(d), PlanOK(d.kind, plan), NEW q, NEW refs \in Seq(DOMAIN d.kind),
           NEW i \in Nat, i + 1 \in 1 .. Len(refs), NEW acc, WrittenTo(d, q, refs, i, acc)
    PROVE  WrittenTo(d, q, refs, i + 1, Child(d, acc, refs[i + 1]))
<1> DEFINE s == refs[i + 1]
           c == Child(d, acc, s)
<1>1. s \in DOMAIN d.kind /\ acc \in Accs(d) /\ Grows(q, acc.queue, plan)
  <2>1. \A j \in 1 .. Len(refs) : refs[j] \in DOMAIN d.kind
    OBVIOUS
  <2>2. acc \in Accs(d) /\ Grows(q, acc.queue, plan)
    BY DEF WrittenTo
  <2> QED BY <2>1, <2>2
<1>2. c \in Accs(d)
  BY <1>1, WritesChild
<1>3. CASE acc.error # ""
  <2>1. c = acc
    BY ZenonT(60), <1>1, <1>3, WritesChild
  <2> HIDE DEF c
  <2> QED BY <1>3, <2>1 DEF WrittenTo, c
<1>4. CASE acc.error = ""
  <2>1. /\ Grows(acc.queue, c.queue, plan)
        /\ IsAppend(c.refs, acc.refs, c.refs[Len(acc.refs) + 1])
        /\ c.refs[Len(acc.refs) + 1].to = s
        /\ c.error = "" => RefOK(c.refs[Len(acc.refs) + 1], c.queue)
        /\ SoundPlan(d.kind, plan, opt) /\ NoneIgnored(d) => c.error = ""
    BY <1>1, <1>4, WritesChild
  <2>2. Len(acc.refs) = i /\ \A j \in 1 .. i : acc.refs[j].to = refs[j] /\ RefOK(acc.refs[j], acc.queue)
    BY <1>4 DEF WrittenTo
  <2> HIDE DEF c
  <2>3. Grows(q, c.queue, plan)
    BY <1>1, <2>1, GrowsOn
  <2>4. Len(c.refs) = i + 1
    BY <2>1, <2>2 DEF IsAppend
  <2>5. ASSUME c.error = "", NEW j \in 1 .. i + 1 PROVE c.refs[j].to = refs[j] /\ RefOK(c.refs[j], c.queue)
    <3>1. CASE j = i + 1
      BY <2>1, <2>2, <2>5, <3>1
    <3>2. CASE j # i + 1
      <4>1. j \in 1 .. i
        BY <3>2
      <4>2. c.refs[j] = acc.refs[j]
        BY <2>1, <2>2, <4>1 DEF IsAppend
      <4>3. RefOK(acc.refs[j], c.queue)
        BY <2>1, <2>2, <4>1, RefStays DEF Grows
      <4> QED BY <2>2, <4>1, <4>2, <4>3
    <3> QED BY <3>1, <3>2
  <2> QED BY <1>2, <2>1, <2>3, <2>4, <2>5 DEF WrittenTo, c
<1> QED BY <1>3, <1>4

(* DynamicRefs writes every reference, or fails because the plan is not    *)
(* sound.                                                                  *)
LEMMA WritesDynamic ==
    ASSUME NEW d, DocOK(d), PlanOK(d.kind, plan), NEW q, QueueOK(d.kind, q, plan, opt),
           NEW refs \in Seq(DOMAIN d.kind)
    PROVE  /\ Unparsed(d, q, refs, DynamicRefs(d, q, refs))
           /\ SoundPlan(d.kind, plan, opt) /\ NoneIgnored(d) => DynamicRefs(d, q, refs).error = ""
           /\ DynamicRefs(d, q, refs) \in Accs(d)
<1> DEFINE n == Len(refs)
           V == Accs(d)
           base == [queue |-> q, refs |-> << >>, error |-> ""]
           step == [i \in 1 .. n |-> [v \in V |-> Child(d, v, refs[i])]]
           c == CHOOSE f : f = [i \in 0 .. n |->
                    IF i = 0 THEN [queue |-> q, refs |-> << >>, error |-> ""]
                    ELSE Once(LAMBDA acc : Child(d, acc, refs[i]), f[i - 1])]
<1>1. n \in Nat /\ \A i \in 1 .. n : refs[i] \in DOMAIN d.kind
  OBVIOUS
<1>2. DynamicRefs(d, q, refs) = c[n]
  BY DEF DynamicRefs
<1>3. ASSUME NEW i \in 1 .. n, NEW v \in V PROVE Child(d, v, refs[i]) \in V
  BY <1>1, WritesChild
<1>4. \A x : \A i \in 1 .. n : Once(LAMBDA acc : Child(d, acc, refs[i]), x) = Child(d, x, refs[i])
  BY DEF Once
<1>5. step \in [1 .. n -> [V -> V]] /\ \A i \in 1 .. n : \A v \in V : step[i][v] = Child(d, v, refs[i])
  BY <1>3
<1>6. base \in V
  <2>1. q \in GoodQueues(d) /\ << >> \in Seq(Reference(d))
    BY GoodQueueIs
  <2> QED BY <2>1 DEF Accs
<1>7. WrittenTo(d, q, refs, 0, base)
  <2>1. base.queue = q /\ base.error = "" /\ Len(base.refs) = 0 /\ 1 .. 0 = {}
    OBVIOUS
  <2> HIDE DEF base
  <2> QED BY <1>6, <2>1, GrowsNot DEF WrittenTo
<1>8. base = [queue |-> q, refs |-> << >>, error |-> ""]
  OBVIOUS
<1> HIDE DEF step, n, V, base
<1>9. PICK f : f \in [0 .. n -> V] /\ f[0] = base /\ \A i \in 1 .. n : f[i] = step[i][f[i - 1]]
  <2>1. \E f : Recursion(f, n, V, base, step)
    BY <1>1, <1>5, <1>6, RecursionExists
  <2> QED BY <2>1 DEF Recursion
<1>10. f = [i \in 0 .. n |-> IF i = 0 THEN [queue |-> q, refs |-> << >>, error |-> ""]
                             ELSE Once(LAMBDA acc : Child(d, acc, refs[i]), f[i - 1])]
  <2>1. ASSUME NEW i \in 0 .. n, i # 0 PROVE f[i] = Once(LAMBDA acc : Child(d, acc, refs[i]), f[i - 1])
    <3>1. i \in 1 .. n /\ i - 1 \in 0 .. n
      BY <1>1, <2>1
    <3>2. f[i] = Child(d, f[i - 1], refs[i])
      BY <1>5, <1>9, <3>1
    <3> QED BY <1>4, <3>1, <3>2
  <2> QED BY <1>8, <1>9, <2>1
<1>11. c = [i \in 0 .. n |-> IF i = 0 THEN [queue |-> q, refs |-> << >>, error |-> ""]
                             ELSE Once(LAMBDA acc : Child(d, acc, refs[i]), c[i - 1])]
  BY <1>10
<1> HIDE DEF c
<1>12. c[0] = base /\ \A i \in 1 .. n : c[i] = Child(d, c[i - 1], refs[i])
  <2>1. ASSUME NEW i \in 1 .. n PROVE c[i] = Child(d, c[i - 1], refs[i])
    <3>1. i \in 0 .. n /\ i # 0
      BY <1>1
    <3>2. c[i] = Once(LAMBDA acc : Child(d, acc, refs[i]), c[i - 1])
      BY <1>11, <3>1
    <3> QED BY <1>4, <3>2
  <2>2. 0 \in 0 .. n
    BY <1>1
  <2>3. c[0] = [queue |-> q, refs |-> << >>, error |-> ""]
    BY <1>11, <2>2, Zenon
  <2> QED BY <1>8, <2>1, <2>3
<1> DEFINE S == {i \in Nat : i <= n => WrittenTo(d, q, refs, i, c[i])}
<1>13. 0 \in S
  BY <1>7, <1>12
<1>14. ASSUME NEW i \in Nat, i \in S PROVE i + 1 \in S
  <2> SUFFICES ASSUME i + 1 <= n PROVE WrittenTo(d, q, refs, i + 1, c[i + 1])
    OBVIOUS
  <2>1. i + 1 \in 1 .. n /\ (i + 1) - 1 = i /\ WrittenTo(d, q, refs, i, c[i])
    BY <1>1, <1>14
  <2>2. c[i + 1] = Child(d, c[i], refs[i + 1])
    BY <1>12, <2>1
  <2>3. WrittenTo(d, q, refs, i + 1, Child(d, c[i], refs[i + 1]))
    BY <2>1, WritesOn DEF n
  <2> QED BY <2>2, <2>3
<1>15. n \in S
  <2> HIDE DEF S
  <2> QED BY <1>1, <1>13, <1>14, SetInduction
<1> DEFINE r == DynamicRefs(d, q, refs)
<1>16. WrittenTo(d, q, refs, n, r)
  BY <1>1, <1>2, <1>15
<1> HIDE DEF r
<1>17. r \in Accs(d) /\ Grows(q, r.queue, plan) /\ (SoundPlan(d.kind, plan, opt) /\ NoneIgnored(d) => r.error = "")
  BY <1>16 DEF WrittenTo
<1>18. QueueOK(d.kind, r.queue, plan, opt) /\ r.refs \in Seq(Reference(d))
  <2>1. r.queue \in GoodQueues(d) /\ r.refs \in Seq(Reference(d))
    BY <1>17 DEF Accs
  <2> QED BY <2>1, GoodQueueIs
<1>19. ASSUME r.error = "" PROVE RefsOK(r.refs, r.queue) /\ Targets(r.refs) = refs
  <2>1. Len(r.refs) = n /\ \A j \in 1 .. n : r.refs[j].to = refs[j] /\ RefOK(r.refs[j], r.queue)
    BY <1>16, <1>19 DEF WrittenTo
  <2>2. DOMAIN r.refs = 1 .. n /\ DOMAIN refs = 1 .. n /\ refs = [i \in 1 .. n |-> refs[i]]
    BY <1>18, <2>1 DEF n
  <2>3. IsSeq(r.refs)
    BY <1>18, SeqIs
  <2>4. Targets(r.refs) = refs
    BY <2>1, <2>2 DEF Targets
  <2> QED BY <2>1, <2>2, <2>3, <2>4 DEF RefsOK
<1> QED BY <1>17, <1>18, <1>19 DEF Unparsed, r

-----------------------------------------------------------------------------
(* Unparsing objects, members and the /Extends of a container.             *)

(* References that are unparsed after the queue grew.                      *)
LEMMA UnparsedOn ==
    ASSUME NEW d, NEW q, NEW p, NEW refs, NEW r, Grows(q, p, plan), Unparsed(d, p, refs, r)
    PROVE  Unparsed(d, q, refs, r)
<1>1. Grows(q, r.queue, plan)
  BY GrowsOn DEF Unparsed
<1> QED BY <1>1 DEF Unparsed

(* UnparseObject writes what the object shows.                             *)
LEMMA UnparsesObject ==
    ASSUME NEW d, DocOK(d), PlanOK(d.kind, plan), NEW q, QueueOK(d.kind, q, plan, opt), NEW s \in DOMAIN d.kind
    PROVE  /\ Unparsed(d, q, Shown(d, s), UnparseObject(d, q, s))
           /\ SoundPlan(d.kind, plan, opt) => UnparseObject(d, q, s).error = ""
<1> DEFINE refs == Shown(d, s)
           r == UnparseObject(d, q, s)
           a == EnqueueAll(d, q, refs)
<1>1. refs \in Seq(DOMAIN d.kind)
  BY ShownSeq
<1>2. CASE d.kind[s] \in Streams \/ opt.qdf
  <2>1. r = StaticRefs(d, q, refs)
    BY <1>2 DEF UnparseObject
  <2> HIDE DEF r, refs
  <2> QED BY <1>1, <2>1, WritesStatic DEF r, refs
<1>3. CASE ~(d.kind[s] \in Streams \/ opt.qdf)
  <2>1. NoneIgnored(d)
    BY <1>3 DEF NoneIgnored, IgnoredByQdf
  <2>2. r = DynamicRefs(d, IF opt.encrypt THEN a ELSE q, refs)
    BY <1>3 DEF UnparseObject
  <2>3. CASE opt.encrypt
    <3>1. r = DynamicRefs(d, a, refs)
      BY <2>2, <2>3
    <3> HIDE DEF refs, r
    <3>2. QueueOK(d.kind, a, plan, opt) /\ Grows(q, a, plan)
      BY <1>1, EnqueuesAll DEF AllAnswered
    <3> HIDE DEF a
    <3>3. Unparsed(d, a, refs, r) /\ (SoundPlan(d.kind, plan, opt) => r.error = "")
      BY <1>1, <2>1, <3>1, <3>2, WritesDynamic
    <3>4. Unparsed(d, q, refs, r)
      BY <3>2, <3>3, UnparsedOn
    <3> QED BY <3>3, <3>4 DEF refs, r
  <2>4. CASE ~opt.encrypt
    <3>1. r = DynamicRefs(d, q, refs)
      BY <2>2, <2>4
    <3> HIDE DEF refs, r
    <3>2. Unparsed(d, q, refs, r) /\ (SoundPlan(d.kind, plan, opt) => r.error = "")
      BY <1>1, <2>1, <3>1, WritesDynamic
    <3> QED BY <3>2 DEF refs, r
  <2> QED BY <2>3, <2>4
<1> QED BY <1>2, <1>3

(* With object streams, a sound QDF write meets no cross-reference stream. *)
LEMMA SoundIgnoresNone ==
    ASSUME NEW d, SoundPlan(d.kind, plan, opt), DOMAIN plan.members # {}
    PROVE  NoneIgnored(d)
BY DEF SoundPlan, NoneIgnored, IgnoredByQdf

(* UnparseMember writes what the member shows.                             *)
LEMMA UnparsesMember ==
    ASSUME NEW d, DocOK(d), PlanOK(d.kind, plan), NEW q, QueueOK(d.kind, q, plan, opt), NEW m \in DOMAIN d.kind,
           DOMAIN plan.members # {}
    PROVE  /\ Unparsed(d, q, MemberShown(d, m), UnparseMember(d, q, m))
           /\ SoundPlan(d.kind, plan, opt) => UnparseMember(d, q, m).error = ""
<1> DEFINE refs == MemberShown(d, m)
           r == UnparseMember(d, q, m)
<1>1. refs \in Seq(DOMAIN d.kind)
  BY MemberShownSeq
<1>2. r = DynamicRefs(d, q, refs)
  BY DEF UnparseMember, MemberShown
<1> HIDE DEF refs, r
<1> QED BY <1>1, <1>2, WritesDynamic, SoundIgnoresNone DEF refs, r

(* The write stops with an error.                                          *)
Failed(r) == r.error # ""

(* The container's /Extends is written like any reference.                 *)
LEMMA ExtendsWritten ==
    ASSUME NEW d, DocOK(d), PlanOK(d.kind, plan), NEW q, QueueOK(d.kind, q, plan, opt), NEW s \in DOMAIN plan.members
    PROVE  /\ QueueOK(d.kind, Extends(d, q, s).queue, plan, opt) /\ Grows(q, Extends(d, q, s).queue, plan)
           /\ ~Failed(Extends(d, q, s)) => RefsOK(Extends(d, q, s).refs, Extends(d, q, s).queue)
           /\ SoundPlan(d.kind, plan, opt) => ~Failed(Extends(d, q, s))
<1> DEFINE e == Extends(d, q, s)
           refs == <<d.extends[s]>>
           r == DynamicRefs(d, q, refs)
<1>1. CASE d.kind[s] = "stream" /\ d.extends[s] # 0
  <2>1. e = [r EXCEPT !.error = IF @ = "" THEN "" ELSE "extends"]
    BY <1>1 DEF Extends
  <2>2. d.extends[s] \in DOMAIN d.kind
    BY <1>1 DEF DocOK, PlanOK
  <2>3. refs \in Seq(DOMAIN d.kind)
    <3> DEFINE x == d.extends[s]
               S == DOMAIN d.kind
    <3> HIDE DEF x, S
    <3>1. x \in S => <<x>> \in Seq(S)
      OBVIOUS
    <3> QED BY <2>2, <3>1 DEF x, S
  <2> HIDE DEF refs
  <2>4. /\ Unparsed(d, q, refs, r) /\ r \in Accs(d)
        /\ SoundPlan(d.kind, plan, opt) => r.error = ""
    BY <2>3, WritesDynamic, SoundIgnoresNone
  <2> HIDE DEF r, e
  <2>5. e.queue = r.queue /\ e.refs = r.refs /\ (e.error = "" <=> r.error = "")
    BY <2>1, <2>4 DEF Accs
  <2> QED BY <2>4, <2>5 DEF Unparsed, Failed, e
<1>2. CASE ~(d.kind[s] = "stream" /\ d.extends[s] # 0)
  <2>1. e = [queue |-> q, refs |-> << >>, error |-> ""]
    BY <1>2 DEF Extends
  <2>2. RefsOK(<< >>, q)
    <3>1. IsSeq(<< >>)
      BY DEF IsSeq
    <3> QED BY <3>1 DEF RefsOK
  <2> HIDE DEF e
  <2>3. e.queue = q /\ e.refs = << >> /\ e.error = ""
    BY <2>1
  <2>4. QueueOK(d.kind, e.queue, plan, opt) /\ Grows(q, e.queue, plan) /\ RefsOK(e.refs, e.queue)
    BY <2>2, <2>3, GrowsNot
  <2> QED BY <2>3, <2>4 DEF Failed, e
<1> QED BY <1>1, <1>2

(* The first object of the queue leaves it.                                *)
Popped(q) == [q EXCEPT !.pending = Tail(@)]

(* Taking the first object off the queue.                                  *)
LEMMA Pops ==
    ASSUME NEW K, NEW P, NEW o, NEW q, QueueOK(K, q, P, o), q.pending # << >>
    PROVE  /\ QueueOK(K, Popped(q), P, o)
           /\ Head(q.pending) \in DOMAIN q.map \ DOMAIN P.home /\ Head(q.pending) \in DOMAIN K
           /\ Waiting(Popped(q)) = Waiting(q) \ {Head(q.pending)}
           /\ Head(q.pending) \in Waiting(q)
           /\ Popped(q).map = q.map /\ Popped(q).holders = q.holders /\ Popped(q).next = q.next
           /\ Popped(q).resolving = q.resolving /\ Popped(q).ignored = q.ignored
<1> DEFINE r == Popped(q)
           p == q.pending
           n == Len(p)
<1>1. IsQueue(q, DOMAIN K) /\ Numbers(q) /\ Membership(K, q, P, o)
  BY DEF QueueOK, QueueCore
<1>2. r = [next |-> q.next, map |-> q.map, pending |-> Tail(q.pending), resolving |-> q.resolving,
           holders |-> q.holders, ignored |-> q.ignored]
  <2>1. r = [q EXCEPT !.pending = Tail(@)]
    BY DEF Popped
  <2> HIDE DEF r
  <2> QED BY <1>1, <2>1 DEF IsQueue
<1> HIDE DEF r
<1>3. p \in Seq(DOMAIN K) /\ p # << >>
  BY <1>1 DEF IsQueue
<1>4. n \in Nat /\ n # 0 /\ DOMAIN p = 1 .. n /\ Head(p) = p[1] /\ Head(p) \in DOMAIN K
  <2> HIDE DEF p
  <2> QED BY <1>3
<1>5. Tail(p) \in Seq(DOMAIN K) /\ DOMAIN Tail(p) = 1 .. n - 1 /\ \A i \in 1 .. n - 1 : Tail(p)[i] = p[i + 1]
  <2> HIDE DEF p
  <2> QED BY <1>3
<1> HIDE DEF n
<1>6. r.map = q.map /\ r.holders = q.holders /\ r.next = q.next /\ r.resolving = q.resolving /\ r.ignored = q.ignored
      /\ r.pending = Tail(p)
  BY <1>2
<1>7. IsQueue(r, DOMAIN K)
  BY <1>1, <1>2, <1>5 DEF IsQueue
<1>8. Numbers(r)
  BY <1>1, <1>6 DEF Numbers
<1>9. \A i \in 1 .. n - 1 : i + 1 \in 1 .. n
  BY <1>4
<1>10. \A i, j \in DOMAIN p : p[i] = p[j] => i = j
  BY <1>1 DEF Membership
<1>11. \A i \in DOMAIN p : p[i] \in DOMAIN q.map \ DOMAIN P.home
  BY <1>1 DEF Membership
<1>12. Membership(K, r, P, o)
  <2>1. \A i \in DOMAIN r.pending : r.pending[i] \in DOMAIN r.map \ DOMAIN P.home
    BY <1>4, <1>5, <1>6, <1>9, <1>11
  <2>2. ASSUME NEW i \in DOMAIN r.pending, NEW j \in DOMAIN r.pending, r.pending[i] = r.pending[j] PROVE i = j
    <3>1. i \in 1 .. n - 1 /\ j \in 1 .. n - 1 /\ p[i + 1] = p[j + 1]
      BY <1>5, <1>6, <2>2
    <3>2. i + 1 = j + 1
      BY <1>4, <1>9, <1>10, <3>1
    <3> QED BY <3>1, <3>2
  <2> QED BY <1>1, <1>6, <2>1, <2>2 DEF Membership
<1>13. Waiting(r) = Waiting(q) \ {Head(p)}
  <2>1. ASSUME NEW x \in Waiting(r) PROVE x \in Waiting(q) /\ x # Head(p)
    <3>1. PICK i \in 1 .. n - 1 : x = p[i + 1]
      BY <1>5, <1>6 DEF Waiting
    <3>2. i + 1 \in 1 .. n /\ i + 1 # 1 /\ 1 \in 1 .. n
      BY <1>4
    <3> QED BY <1>4, <1>10, <3>1, <3>2 DEF Waiting
  <2>2. ASSUME NEW x \in Waiting(q), x # Head(p) PROVE x \in Waiting(r)
    <3>1. PICK i \in 1 .. n : x = p[i]
      BY <1>4 DEF Waiting
    <3>2. i - 1 \in 1 .. n - 1 /\ (i - 1) + 1 = i
      BY <1>4, <2>2, <3>1
    <3>3. r.pending[i - 1] = x /\ i - 1 \in DOMAIN r.pending
      BY <1>5, <1>6, <3>1, <3>2
    <3> QED BY <3>3 DEF Waiting
  <2> QED BY <2>1, <2>2
<1>14. Head(p) \in DOMAIN q.map \ DOMAIN P.home /\ Head(p) \in Waiting(q)
  <2>1. 1 \in DOMAIN p
    BY <1>4
  <2> QED BY <1>4, <1>11, <2>1 DEF Waiting
<1>15. QueueOK(K, r, P, o)
  BY <1>6, <1>7, <1>8, <1>12 DEF QueueOK, QueueCore
<1> QED BY <1>4, <1>6, <1>13, <1>14, <1>15 DEF r

-----------------------------------------------------------------------------
(* What the callbacks do to the document.                                  *)

(* Document d2 and changes e2 come after d and e.                          *)
Follows(d, e, d2, e2) ==
    /\ DocOK(d2) /\ d2.kind = d.kind /\ e2 \in Seq(Nat)
    /\ Edited0(e) \subseteq Edited0(e2)
    /\ \A s \in DOMAIN d.kind : s \notin Edited0(e2) => Shown(d2, s) = Shown(d, s)
    /\ e2 = << >> => e = << >> /\ d2 = d

(* What one change of a callback leaves alone.                             *)
LEMMA Changes ==
    ASSUME NEW d, DocOK(d), NEW x \in Edited(d)
    PROVE  /\ DocOK(x.doc) /\ x.doc.kind = d.kind /\ x.at \in Nat
           /\ \A s \in DOMAIN d.kind : s # x.at => x.doc.kids[s] = d.kids[s]
<1> DEFINE Src == DOMAIN d.kind
           H == {s \in Src : d.kind[s] # "null"}
<1>0. d = [kind |-> d.kind, kids |-> d.kids, home |-> d.home, extends |-> d.extends,
           before |-> d.before, after |-> d.after] /\ d.kids \in [Src -> Seq(Src)]
      /\ d.after \in Seq(Src) /\ d.kind \in Seq(Kinds) /\ Src \subseteq Nat
  BY DEF DocOK
<1>1. CASE \E s \in H, k \in H : x = [doc |-> [d EXCEPT !.kids[s] = Append(@, k)], at |-> s]
  <2>1. PICK s \in H, k \in H : x = [doc |-> [d EXCEPT !.kids[s] = Append(@, k)], at |-> s]
    BY <1>1
  <2> DEFINE g == [d.kids EXCEPT ![s] = Append(@, k)]
  <2>2. x.doc = [kind |-> d.kind, kids |-> g, home |-> d.home, extends |-> d.extends,
                 before |-> d.before, after |-> d.after] /\ x.at = s
    <3>1. x.doc = [d EXCEPT !.kids = g] /\ x.at = s
      BY <2>1
    <3> HIDE DEF g
    <3> QED BY <1>0, <3>1
  <2>3. g \in [Src -> Seq(Src)] /\ \A t \in Src : t # s => g[t] = d.kids[t]
    BY <1>0
  <2> HIDE DEF g
  <2> QED BY SMTT(60), <1>0, <2>2, <2>3 DEF DocOK
<1>2. CASE \E s \in H : d.kids[s] # << >> /\ x = [doc |-> [d EXCEPT !.kids[s] = Tail(@)], at |-> s]
  <2>1. PICK s \in H : d.kids[s] # << >> /\ x = [doc |-> [d EXCEPT !.kids[s] = Tail(@)], at |-> s]
    BY <1>2
  <2> DEFINE g == [d.kids EXCEPT ![s] = Tail(@)]
  <2>2. x.doc = [kind |-> d.kind, kids |-> g, home |-> d.home, extends |-> d.extends,
                 before |-> d.before, after |-> d.after] /\ x.at = s
    <3>1. x.doc = [d EXCEPT !.kids = g] /\ x.at = s
      BY <2>1
    <3> HIDE DEF g
    <3> QED BY <1>0, <3>1
  <2>3. g \in [Src -> Seq(Src)] /\ \A t \in Src : t # s => g[t] = d.kids[t]
    <3>1. Tail(d.kids[s]) \in Seq(Src)
      <4> DEFINE y == d.kids[s]
      <4>1. y \in Seq(Src) /\ y # << >>
        BY <1>0, <2>1
      <4> HIDE DEF y, Src
      <4>2. Tail(y) \in Seq(Src)
        BY <4>1
      <4> QED BY <4>2 DEF y
    <3> QED BY <1>0, <3>1
  <2> HIDE DEF g
  <2> QED BY <1>0, <2>2, <2>3 DEF DocOK
<1>3. CASE \E k \in H : x = [doc |-> [d EXCEPT !.after = Append(@, k)], at |-> 0]
  <2>1. PICK k \in H : x = [doc |-> [d EXCEPT !.after = Append(@, k)], at |-> 0]
    BY <1>3
  <2> DEFINE g == Append(d.after, k)
  <2>2. x.doc = [kind |-> d.kind, kids |-> d.kids, home |-> d.home, extends |-> d.extends,
                 before |-> d.before, after |-> g] /\ x.at = 0
    <3>1. x.doc = [d EXCEPT !.after = g] /\ x.at = 0
      BY <2>1
    <3> HIDE DEF g
    <3> QED BY <1>0, <3>1
  <2>3. g \in Seq(Src)
    BY <1>0
  <2> HIDE DEF g
  <2> QED BY <1>0, <2>2, <2>3 DEF DocOK
<1>4. \/ \E s \in H, k \in H : x = [doc |-> [d EXCEPT !.kids[s] = Append(@, k)], at |-> s]
      \/ \E s \in H : d.kids[s] # << >> /\ x = [doc |-> [d EXCEPT !.kids[s] = Tail(@)], at |-> s]
      \/ \E k \in H : x = [doc |-> [d EXCEPT !.after = Append(@, k)], at |-> 0]
  <2> DEFINE Attach(s, k) == [d EXCEPT !.kids[s] = Append(@, k)]
             Detach(s) == [d EXCEPT !.kids[s] = Tail(@)]
             Trail(k) == [d EXCEPT !.after = Append(@, k)]
             room == {s \in H : Len(d.kids[s]) < MaxKids}
             full == {s \in H : d.kids[s] # << >>}
             A == UNION {{[doc |-> Attach(s, k), at |-> s] : s \in room} : k \in H}
             B == {[doc |-> Detach(s), at |-> s] : s \in full}
             C == {[doc |-> Trail(k), at |-> 0] : k \in H}
  <2>1. Edited(d) = A \cup B \cup C
    BY DEF Edited, Source
  <2> HIDE DEF Attach, Detach, Trail, H
  <2>2. \/ \E s \in H, k \in H : x = [doc |-> Attach(s, k), at |-> s]
        \/ \E s \in H : d.kids[s] # << >> /\ x = [doc |-> Detach(s), at |-> s]
        \/ \E k \in H : x = [doc |-> Trail(k), at |-> 0]
    <3>1. x \in A \/ x \in B \/ x \in C
      <4> HIDE DEF A, B, C
      <4> QED BY <2>1
    <3>2. CASE x \in A
      <4>1. PICK k \in H : x \in {[doc |-> Attach(s, k), at |-> s] : s \in room}
        BY <3>2
      <4>2. PICK s \in room : x = [doc |-> Attach(s, k), at |-> s]
        BY <4>1
      <4> QED BY <4>2
    <3>3. CASE x \in B
      BY <3>3
    <3>4. CASE x \in C
      BY <3>4
    <3> QED BY <3>1, <3>2, <3>3, <3>4
  <2> QED BY <2>2 DEF Attach, Detach, Trail
<1> QED BY <1>1, <1>2, <1>3, <1>4

(* Whatever a callback does, the document is a later version of itself.    *)
LEMMA CallbackFollows ==
    ASSUME NEW p, DocOK(doc), edits \in Seq(Nat), NEW c \in Callback(p)
    PROVE  Follows(doc, edits, c.doc, c.edits)
<1>1. CASE c = [doc |-> doc, edits |-> edits]
  <2>1. c.doc = doc /\ c.edits = edits
    BY <1>1
  <2> QED BY <2>1 DEF Follows
<1>2. CASE \E x \in Edited(doc) : c = [doc |-> x.doc, edits |-> Append(edits, x.at)]
  <2>1. PICK x \in Edited(doc) : c = [doc |-> x.doc, edits |-> Append(edits, x.at)]
    BY <1>2
  <2>2. /\ DocOK(x.doc) /\ x.doc.kind = doc.kind /\ x.at \in Nat
        /\ \A s \in DOMAIN doc.kind : s # x.at => x.doc.kids[s] = doc.kids[s]
    BY Changes
  <2> DEFINE a == Append(edits, x.at)
  <2>3. a \in Seq(Nat) /\ IsAppend(a, edits, x.at)
    BY <2>2, Appended
  <2>4. c.doc = x.doc /\ c.edits = a
    BY <2>1
  <2> HIDE DEF a
  <2>5. Len(edits) \in Nat /\ DOMAIN edits = 1 .. Len(edits)
    OBVIOUS
  <2>6. DOMAIN a = 1 .. Len(edits) + 1 /\ a[Len(edits) + 1] = x.at /\ \A i \in 1 .. Len(edits) : a[i] = edits[i]
    BY <2>3 DEF IsAppend
  <2>7. Len(edits) + 1 \in DOMAIN a /\ \A i \in 1 .. Len(edits) : i \in DOMAIN a
    BY <2>5, <2>6
  <2>8. Edited0(edits) \subseteq Edited0(a) /\ x.at \in Edited0(a)
    BY <2>5, <2>6, <2>7 DEF Edited0
  <2>9. a # << >>
    BY <2>7
  <2>10. \A s \in DOMAIN doc.kind : s \notin Edited0(a) => Shown(x.doc, s) = Shown(doc, s)
    <3> SUFFICES ASSUME NEW s \in DOMAIN doc.kind, s \notin Edited0(a) PROVE Shown(x.doc, s) = Shown(doc, s)
      OBVIOUS
    <3>1. x.doc.kids[s] = doc.kids[s] /\ x.doc.kind = doc.kind
      BY <2>2, <2>8
    <3>2. NotNull(x.doc, doc.kids[s]) = NotNull(doc, doc.kids[s])
      BY <3>1 DEF NotNull
    <3>3. WithoutNulls(x.doc, doc.kids[s]) = WithoutNulls(doc, doc.kids[s])
      BY <3>2 DEF WithoutNulls
    <3> QED BY <3>1, <3>3 DEF Shown
  <2> QED BY <2>2, <2>3, <2>4, <2>8, <2>9, <2>10 DEF Follows
<1> QED BY <1>1, <1>2 DEF Callback

-----------------------------------------------------------------------------
(* What is written stays right while the queue grows and the document changes. *)

(* The queues and documents before and after.                              *)
Onward(d, q, ed, d2, r, ed2, P, o) ==
    /\ DocOK(d) /\ PlanOK(d.kind, P) /\ QueueOK(d.kind, q, P, o) /\ QueueOK(d.kind, r, P, o)
    /\ Keeps(q, r) /\ Follows(d, ed, d2, ed2)

(* An object that was not changed shows what it showed.                    *)
LEMMA ShownStays ==
    ASSUME NEW d, NEW ed, NEW d2, NEW ed2, Follows(d, ed, d2, ed2), NEW m \in DOMAIN d.kind
    PROVE  /\ MemberKind(d2, m) = MemberKind(d, m)
           /\ m \notin Edited0(ed2) => MemberShown(d2, m) = MemberShown(d, m) /\ m \notin Edited0(ed)
BY DEF Follows, MemberKind, MemberShown

(* A member that was written stays right.                                  *)
LEMMA BodyStays ==
    ASSUME NEW d, NEW q, NEW ed, NEW d2, NEW r, NEW ed2, NEW P, NEW o, Onward(d, q, ed, d2, r, ed2, P, o),
           NEW m \in DOMAIN q.map, NEW b, BodyOf(b, m, d, q, ed)
    PROVE  BodyOf(b, m, d2, r, ed2)
<1>1. m \in DOMAIN d.kind /\ r.map[m] = q.map[m]
  BY DEF Onward, QueueOK, QueueCore, IsQueue, IsPartial, Grows, Keeps
<1>2. RefsOK(b.refs, r)
  BY RefsStay DEF Onward, BodyOf
<1>3. /\ MemberKind(d2, m) = MemberKind(d, m)
      /\ m \notin Edited0(ed2) => MemberShown(d2, m) = MemberShown(d, m) /\ m \notin Edited0(ed)
  BY <1>1, ShownStays DEF Onward
<1> QED BY <1>1, <1>2, <1>3 DEF BodyOf

(* The members of a numbered container have numbers.                       *)
LEMMA MembersNumbered ==
    ASSUME NEW K, NEW q, NEW P, NEW o, PlanOK(K, P), QueueOK(K, q, P, o),
           NEW c \in DOMAIN P.members, c \in DOMAIN q.map \ DOMAIN P.home
    PROVE  \A k \in DOMAIN P.members[c] : P.members[c][k] \in DOMAIN q.map \cap DOMAIN P.home
<1> SUFFICES ASSUME NEW k \in DOMAIN P.members[c] PROVE P.members[c][k] \in DOMAIN q.map \cap DOMAIN P.home
  OBVIOUS
<1>1. P.members[c] \in Seq(DOMAIN P.home) /\ P.home[P.members[c][k]] = c
  BY DEF PlanOK
<1>2. P.members[c][k] \in DOMAIN P.home
  BY <1>1
<1> QED BY <1>1, <1>2 DEF QueueOK, QueueCore, Membership

(* So do all members that were written.                                    *)
LEMMA BodiesStay ==
    ASSUME NEW d, NEW q, NEW ed, NEW d2, NEW r, NEW ed2, NEW P, NEW o, Onward(d, q, ed, d2, r, ed2, P, o),
           NEW c \in DOMAIN P.members, c \in DOMAIN q.map \ DOMAIN P.home, NEW bodies, BodiesOf(bodies, c, d, q, P, ed)
    PROVE  BodiesOf(bodies, c, d2, r, P, ed2)
<1>1. \A k \in DOMAIN P.members[c] : P.members[c][k] \in DOMAIN q.map
  BY MembersNumbered DEF Onward
<1>2. DOMAIN bodies \subseteq DOMAIN P.members[c]
  <2>1. Len(P.members[c]) \in Nat /\ DOMAIN P.members[c] = 1 .. Len(P.members[c])
    <3>1. P.members[c] \in Seq(DOMAIN P.home)
      BY DEF Onward, PlanOK
    <3> QED BY <3>1
  <2>2. Len(bodies) \in Nat /\ DOMAIN bodies = 1 .. Len(bodies) /\ Len(bodies) <= Len(P.members[c])
    BY SeqFacts DEF BodiesOf
  <2> QED BY <2>1, <2>2
<1>3. \A k \in DOMAIN bodies : BodyOf(bodies[k], P.members[c][k], d2, r, ed2)
  BY <1>1, <1>2, BodyStays DEF BodiesOf
<1> QED BY <1>3 DEF BodiesOf

(* The length of a stream that was written keeps its number.               *)
LEMMA HoldersStay ==
    ASSUME NEW d, NEW q, NEW ed, NEW d2, NEW r, NEW ed2, NEW P, NEW o, Onward(d, q, ed, d2, r, ed2, P, o),
           NEW s \in DOMAIN q.map
    PROVE  /\ r.map[s] = q.map[s]
           /\ s \in DOMAIN r.holders <=> s \in DOMAIN q.holders
           /\ s \in DOMAIN q.holders => r.holders[s] = q.holders[s]
<1>1. r.map[s] = q.map[s] /\ s \in DOMAIN r.map
  BY DEF Onward, Grows, Keeps
<1>2. s \in DOMAIN r.holders <=> s \in DOMAIN q.holders
  BY <1>1 DEF Onward, QueueOK, QueueCore, Membership
<1>3. s \in DOMAIN q.holders => q.holders[s] = q.map[s] + 1
  BY DEF Onward, QueueOK, QueueCore, Numbers
<1>4. s \in DOMAIN r.holders => r.holders[s] = r.map[s] + 1
  BY DEF Onward, QueueOK, QueueCore, Numbers
<1> QED BY <1>1, <1>2, <1>3, <1>4

(* Any item.                                                               *)
LEMMA ItemStays ==
    ASSUME NEW d, NEW q, NEW ed, NEW d2, NEW r, NEW ed2, NEW P, NEW o, Onward(d, q, ed, d2, r, ed2, P, o),
           NEW w, NEW v, Settled(q, w, P) \subseteq Settled(r, v, P), NEW item, ItemOK(item, d, q, w, P, o, ed)
    PROVE  ItemOK(item, d2, r, v, P, o, ed2)
<1> DEFINE s == item.source
<1>1. s \in Settled(q, w, P) /\ s \in Settled(r, v, P)
  BY DEF ItemOK
<1>2. s \in DOMAIN q.map \ DOMAIN P.home
  BY <1>1 DEF Settled
<1>3. s \in DOMAIN d.kind /\ d2.kind = d.kind
  BY <1>2 DEF Onward, QueueOK, QueueCore, IsQueue, IsPartial, Follows
<1> HIDE DEF s
<1>4. /\ r.map[s] = q.map[s]
      /\ s \in DOMAIN r.holders <=> s \in DOMAIN q.holders
      /\ s \in DOMAIN q.holders => r.holders[s] = q.holders[s]
  BY <1>2, HoldersStay
<1>5. Keeps(q, r)
  BY DEF Onward
<1>6. s \notin Edited0(ed2) => Shown(d2, s) = Shown(d, s) /\ s \notin Edited0(ed)
  BY <1>3 DEF Onward, Follows
<1>7. CASE PlainItem(item, s, d, q, P, ed)
  <2>1. RefsOK(item.refs, r)
    BY <1>5, <1>7, RefsStay DEF PlainItem
  <2>2. PlainItem(item, s, d2, r, P, ed2)
    BY <1>3, <1>4, <1>6, <1>7, <2>1 DEF PlainItem
  <2> QED BY <1>1, <2>2 DEF ItemOK, s
<1>8. CASE HolderItem(item, s, q)
  <2>1. HolderItem(item, s, r)
    BY <1>4, <1>8 DEF HolderItem
  <2> QED BY <1>1, <2>1 DEF ItemOK, s
<1>9. CASE ContainerItem(item, s, d, q, P, o, ed)
  <2>1. RefsOK(item.refs, r)
    BY <1>5, <1>9, RefsStay DEF ContainerItem
  <2>2. BodiesOf(item.members, s, d2, r, P, ed2)
    BY <1>2, <1>9, BodiesStay DEF ContainerItem
  <2>3. ed2 = << >> => ed = << >>
    BY DEF Onward, Follows
  <2>4. ContainerItem(item, s, d2, r, P, o, ed2)
    BY <1>4, <1>9, <2>1, <2>2, <2>3 DEF ContainerItem
  <2> QED BY <1>1, <2>4 DEF ItemOK, s
<1> QED BY <1>7, <1>8, <1>9 DEF ItemOK, s

(* While the queue grows, the same objects are in the file.                *)
LEMMA SettledStays ==
    ASSUME NEW q, NEW r, NEW P, Grows(q, r, P), NEW w
    PROVE  Settled(r, w, P) = Settled(q, w, P)
BY DEF Grows, Keeps, Settled

(* The rows in the layout point to items.                                  *)
LEMMA FileMoves ==
    ASSUME NEW d, NEW q, NEW ed, NEW d2, NEW r, NEW ed2, NEW P, NEW o, Onward(d, q, ed, d2, r, ed2, P, o),
           NEW w, NEW v, Settled(r, v, P) = Settled(q, w, P), NEW file, NEW lay, FileOK(file, lay, d, q, w, P, o, ed)
    PROVE  FileOK(file, lay, d2, r, v, P, o, ed2)
<1> DEFINE T == Settled(q, w, P)
<1>0. T \subseteq DOMAIN q.map \ DOMAIN P.home
  BY DEF Settled
<1>1. \A i \in 2 .. Len(file) : ItemOK(file[i], d2, r, v, P, o, ed2)
  BY ItemStays DEF FileOK
<1>2. Direct(lay.uncompressed, r, v, P, file)
  <2>1. Direct(lay.uncompressed, q, w, P, file)
    BY DEF FileOK
  <2>2. ASSUME NEW s \in T
        PROVE  r.map[s] \in DOMAIN lay.uncompressed
               /\ (s \in DOMAIN r.holders => r.holders[s] \in DOMAIN lay.uncompressed)
    <3>1. s \in DOMAIN q.map
      BY <1>0
    <3>2. /\ r.map[s] = q.map[s] /\ (s \in DOMAIN r.holders <=> s \in DOMAIN q.holders)
          /\ (s \in DOMAIN q.holders => r.holders[s] = q.holders[s])
      BY SMTT(60), <3>1, HoldersStay
    <3> QED BY <2>1, <3>2 DEF Direct
  <2> QED BY <2>1, <2>2 DEF Direct
<1>3. Inside(lay.compressed, r, v, P)
  <2> DEFINE c == lay.compressed
  <2>1. Inside(c, q, w, P)
    BY DEF FileOK
  <2>2. \A m \in DOMAIN P.home : P.home[m] \in T => m \in DOMAIN q.map /\ m \in DOMAIN r.map /\ r.map[m] = q.map[m]
                                                   /\ r.map[P.home[m]] = q.map[P.home[m]]
    <3> SUFFICES ASSUME NEW m \in DOMAIN P.home, P.home[m] \in T
                 PROVE  m \in DOMAIN q.map /\ m \in DOMAIN r.map /\ r.map[m] = q.map[m]
                        /\ r.map[P.home[m]] = q.map[P.home[m]]
      OBVIOUS
    <3>1. P.home[m] \in DOMAIN q.map \ DOMAIN P.home
      BY <1>0
    <3>2. m \in DOMAIN q.map
      BY <3>1 DEF Onward, QueueOK, QueueCore, Membership
    <3> QED BY <3>1, <3>2 DEF Onward, Keeps
  <2> HIDE DEF c, T
  <2>3. ASSUME NEW n \in DOMAIN c
        PROVE  \E m \in DOMAIN P.home \cap DOMAIN r.map : n = r.map[m] /\ P.home[m] \in T
    BY <2>1, <2>2 DEF Inside, T
  <2>4. ASSUME NEW m \in DOMAIN P.home \cap DOMAIN r.map, P.home[m] \in T
        PROVE  /\ r.map[m] \in DOMAIN c /\ c[r.map[m]].container = r.map[P.home[m]]
               /\ c[r.map[m]].index + 1 \in DOMAIN P.members[P.home[m]]
               /\ P.members[P.home[m]][c[r.map[m]].index + 1] = m
    <3>1. m \in DOMAIN q.map /\ r.map[m] = q.map[m] /\ r.map[P.home[m]] = q.map[P.home[m]]
      BY SMTT(60), <2>2, <2>4
    <3>2. /\ q.map[m] \in DOMAIN c /\ c[q.map[m]].container = q.map[P.home[m]]
          /\ c[q.map[m]].index + 1 \in DOMAIN P.members[P.home[m]]
          /\ P.members[P.home[m]][c[q.map[m]].index + 1] = m
      BY <2>1, <2>4, <3>1 DEF Inside, T
    <3> QED BY <3>1, <3>2
  <2>5. Settled(r, v, P) = T
    BY DEF T
  <2> QED BY <2>3, <2>4, <2>5 DEF Inside, c
<1> QED BY <1>1, <1>2, <1>3 DEF FileOK

(* The object stream in hand stays right while the queue grows.            *)
LEMMA WorkMoves ==
    ASSUME NEW d, NEW q, NEW ed, NEW d2, NEW r, NEW ed2, NEW P, NEW o, Onward(d, q, ed, d2, r, ed2, P, o),
           NEW w, WorkOK(w, d, q, P, o, ed), w.obj \notin Waiting(r)
    PROVE  WorkOK(w, d2, r, P, o, ed2)
<1> SUFFICES ASSUME w # Idle PROVE WorkOK(w, d2, r, P, o, ed2)
  BY DEF WorkOK
<1>1. w.obj \in DOMAIN q.map \ DOMAIN P.home /\ w.obj \in DOMAIN P.members /\ BodiesOf(w.bodies, w.obj, d, q, P, ed)
  BY DEF WorkOK
<1>2. BodiesOf(w.bodies, w.obj, d2, r, P, ed2)
  BY <1>1, BodiesStay
<1>3. w.obj \in DOMAIN r.map
  BY <1>1 DEF Onward, Keeps
<1>4. ed2 = << >> => ed = << >> /\ d2 = d
  BY DEF Onward, Follows
<1>5. ed2 = << >> => \A k \in DOMAIN w.sizes : w.sizes[k] = 1 + Len(MemberShown(d2, P.members[w.obj][k]))
  BY <1>4 DEF WorkOK
<1>6. /\ w = [obj |-> w.obj, pass |-> w.pass, sizes |-> w.sizes, bodies |-> w.bodies]
      /\ w.sizes \in Seq(Nat) /\ Len(w.bodies) < Len(P.members[w.obj])
      /\ \/ w.pass = 1 /\ w.bodies = << >> /\ Len(w.sizes) < Len(P.members[w.obj])
         \/ w.pass = 2 /\ Len(w.sizes) = Len(P.members[w.obj])
  BY DEF WorkOK
<1> QED BY <1>1, <1>2, <1>3, <1>5, <1>6 DEF WorkOK

-----------------------------------------------------------------------------
(* New items.                                                              *)

(* file2 is file with more items, and u2 has their rows.                   *)
Longer(file, file2) ==
    /\ IsSeq(file) /\ IsSeq(file2) /\ Len(file) <= Len(file2) /\ \A i \in 1 .. Len(file) : file2[i] = file[i]
NewAt(file, file2) == Len(file) + 1 .. Len(file2)
NewRows(u, u2, file, file2) ==
    /\ \A n \in DOMAIN u : n \in DOMAIN u2 /\ u2[n] = u[n]
    /\ \A i \in NewAt(file, file2) : file2[i].number \in DOMAIN u2 /\ u2[file2[i].number] = i
    /\ \A n \in DOMAIN u2 \ DOMAIN u : \E i \in NewAt(file, file2) : n = file2[i].number

(* New rows for new items.                                                 *)
LEMMA RowsGrow ==
    ASSUME NEW file, NEW file2, Longer(file, file2), Len(file) >= 1, NEW u, NEW u2, NewRows(u, u2, file, file2),
           NEW q, NEW w, NEW v, NEW P, Direct(u, q, w, P, file),
           \A t \in Settled(q, v, P) \ Settled(q, w, P) :
              q.map[t] \in DOMAIN u2 /\ (t \in DOMAIN q.holders => q.holders[t] \in DOMAIN u2)
    PROVE  Direct(u2, q, v, P, file2)
<1>1. Len(file) \in Nat /\ Len(file2) \in Nat /\ Len(file) <= Len(file2)
  BY SeqFacts DEF Longer
<1>2. ASSUME NEW i \in 2 .. Len(file2) PROVE file2[i].number \in DOMAIN u2 /\ u2[file2[i].number] = i
  <2>1. CASE i \in NewAt(file, file2)
    BY <2>1 DEF NewRows
  <2>2. CASE i \notin NewAt(file, file2)
    <3>1. i \in 2 .. Len(file) /\ i \in 1 .. Len(file)
      BY <1>1, <2>2 DEF NewAt
    <3>2. file2[i] = file[i] /\ file[i].number \in DOMAIN u /\ u[file[i].number] = i
      BY <3>1 DEF Longer, Direct
    <3> QED BY <3>2 DEF NewRows
  <2> QED BY <2>1, <2>2
<1>3. ASSUME NEW n \in DOMAIN u2 PROVE u2[n] \in 2 .. Len(file2) /\ file2[u2[n]].number = n
  <2>1. CASE n \in DOMAIN u
    <3>1. u[n] \in 2 .. Len(file) /\ file[u[n]].number = n /\ u2[n] = u[n]
      BY <2>1 DEF Direct, NewRows
    <3>2. u[n] \in 1 .. Len(file) /\ u[n] \in 2 .. Len(file2)
      BY <1>1, <3>1
    <3> QED BY <3>1, <3>2 DEF Longer
  <2>2. CASE n \notin DOMAIN u
    <3>1. PICK i \in NewAt(file, file2) : n = file2[i].number
      BY <2>2 DEF NewRows
    <3>2. u2[n] = i
      BY <3>1 DEF NewRows
    <3>3. i \in 2 .. Len(file2)
      BY <1>1 DEF NewAt
    <3> QED BY <3>1, <3>2, <3>3
  <2> QED BY <2>1, <2>2
<1>4. ASSUME NEW s \in Settled(q, v, P)
      PROVE  q.map[s] \in DOMAIN u2 /\ (s \in DOMAIN q.holders => q.holders[s] \in DOMAIN u2)
  BY DEF Direct, NewRows
<1> QED BY <1>2, <1>3, <1>4 DEF Direct

(* A number that has a row is that of an object in the file.               *)
LEMMA OldNumbers ==
    ASSUME NEW file, NEW lay, NEW d, NEW q, NEW w, NEW P, NEW o, NEW ed, FileOK(file, lay, d, q, w, P, o, ed),
           NEW n \in DOMAIN lay.uncompressed
    PROVE  \E t \in Settled(q, w, P) : n = q.map[t] \/ (t \in DOMAIN q.holders /\ n = q.holders[t])
<1> DEFINE i == lay.uncompressed[n]
<1>1. i \in 2 .. Len(file) /\ file[i].number = n
  BY DEF FileOK, Direct
<1>2. ItemOK(file[i], d, q, w, P, o, ed)
  BY <1>1 DEF FileOK
<1>3. file[i].source \in Settled(q, w, P)
  BY <1>2 DEF ItemOK
<1> QED BY <1>1, <1>2, <1>3 DEF ItemOK, PlainItem, HolderItem, ContainerItem

(* An object that is not in the file yet has no row.                       *)
LEMMA NewNumbers ==
    ASSUME NEW file, NEW lay, NEW d, NEW q, NEW w, NEW P, NEW o, NEW ed, FileOK(file, lay, d, q, w, P, o, ed),
           QueueOK(d.kind, q, P, o), NEW s \in DOMAIN q.map, s \notin Settled(q, w, P)
    PROVE  q.map[s] \notin DOMAIN lay.uncompressed /\ (s \in DOMAIN q.holders => q.holders[s] \notin DOMAIN lay.uncompressed)
<1>1. Numbers(q)
  BY DEF QueueOK, QueueCore
<1>2. \A t \in Settled(q, w, P) : t \in DOMAIN q.map /\ t # s
  BY DEF Settled
<1>3. \A t \in DOMAIN q.map : q.map[t] \in Nat
  BY DEF QueueOK, QueueCore, IsQueue, IsPartial
<1>4. \A t \in DOMAIN q.map : q.map[t] = q.map[s] => t = s
  BY <1>1 DEF Numbers
<1>5. \A t \in DOMAIN q.holders : t \in DOMAIN q.map /\ q.holders[t] = q.map[t] + 1
  BY <1>1 DEF Numbers
<1>6. \A t \in DOMAIN q.holders, x \in DOMAIN q.map : q.holders[t] # q.map[x]
  BY <1>1 DEF Numbers
<1>7. ASSUME q.map[s] \in DOMAIN lay.uncompressed PROVE FALSE
  <2>1. PICK t \in Settled(q, w, P) : q.map[s] = q.map[t] \/ (t \in DOMAIN q.holders /\ q.map[s] = q.holders[t])
    BY <1>7, OldNumbers
  <2> QED BY <1>2, <1>4, <1>6, <2>1
<1>8. ASSUME s \in DOMAIN q.holders, q.holders[s] \in DOMAIN lay.uncompressed PROVE FALSE
  <2>1. PICK t \in Settled(q, w, P) : q.holders[s] = q.map[t] \/ (t \in DOMAIN q.holders /\ q.holders[s] = q.holders[t])
    BY <1>8, OldNumbers
  <2>2. t \in DOMAIN q.holders /\ q.holders[s] = q.holders[t]
    BY <1>2, <1>6, <1>8, <2>1
  <2>3. q.map[s] = q.map[t]
    BY <1>2, <1>3, <1>5, <1>8, <2>2
  <2> QED BY <1>2, <1>4, <2>3
<1> QED BY <1>7, <1>8

(* The file with new items is right when the items and their rows are.     *)
LEMMA ItemsAdded ==
    ASSUME NEW file, NEW lay, NEW d, NEW q, NEW w, NEW P, NEW o, NEW ed, FileOK(file, lay, d, q, w, P, o, ed),
           NEW v, Settled(q, w, P) \subseteq Settled(q, v, P), NEW file2, Longer(file, file2), NEW lay2,
           lay2 = [uncompressed |-> lay2.uncompressed, compressed |-> lay2.compressed],
           NewRows(lay.uncompressed, lay2.uncompressed, file, file2),
           \A i \in NewAt(file, file2) : ItemOK(file2[i], d, q, v, P, o, ed),
           \A t \in Settled(q, v, P) \ Settled(q, w, P) :
              q.map[t] \in DOMAIN lay2.uncompressed
              /\ (t \in DOMAIN q.holders => q.holders[t] \in DOMAIN lay2.uncompressed),
           Inside(lay2.compressed, q, v, P)
    PROVE  FileOK(file2, lay2, d, q, v, P, o, ed)
<1>1. Len(file) \in Nat /\ Len(file2) \in Nat /\ Len(file) <= Len(file2) /\ Len(file) >= 1
  BY SeqFacts DEF Longer, FileOK
<1>2. ASSUME NEW i \in 2 .. Len(file2) PROVE ItemOK(file2[i], d, q, v, P, o, ed)
  <2>1. CASE i \in NewAt(file, file2)
    BY <2>1
  <2>2. CASE i \notin NewAt(file, file2)
    <3>1. i \in 2 .. Len(file) /\ i \in 1 .. Len(file)
      BY <1>1, <2>2 DEF NewAt
    <3>2. file2[i] = file[i]
      BY <3>1 DEF Longer
    <3>3. ItemOK(file[i], d, q, w, P, o, ed)
      BY <3>1 DEF FileOK
    <3>4. ItemOK(file[i], d, q, v, P, o, ed)
      BY <3>3 DEF ItemOK
    <3> QED BY <3>2, <3>4
  <2> QED BY <2>1, <2>2
<1>3. Direct(lay2.uncompressed, q, v, P, file2)
  <2>1. Direct(lay.uncompressed, q, w, P, file)
    BY DEF FileOK
  <2> QED BY <1>1, <2>1, RowsGrow
<1>4. IsSeq(file2) /\ Len(file2) >= 1 /\ file2[1] = Item(0, 0, "header", << >>)
  <2>1. 1 \in 1 .. Len(file)
    BY <1>1
  <2> QED BY <1>1, <2>1 DEF Longer, FileOK
<1> QED BY <1>2, <1>3, <1>4 DEF FileOK

(* What concatenation does.                                                *)
LEMMA Concatenates ==
    ASSUME NEW a, IsSeq(a), NEW b, IsSeq(b)
    PROVE  /\ IsSeq(a \o b) /\ Len(a \o b) = Len(a) + Len(b)
           /\ \A i \in 1 .. Len(a) : (a \o b)[i] = a[i]
           /\ \A i \in 1 .. Len(b) : (a \o b)[Len(a) + i] = b[i]
<1> DEFINE R == {a[i] : i \in DOMAIN a} \cup {b[i] : i \in DOMAIN b}
           c == a \o b
<1>1. a \in Seq(R) /\ b \in Seq(R)
  BY SeqMonotonic DEF IsSeq
<1> HIDE DEF R
<1>2. c \in Seq(R) /\ Len(c) = Len(a) + Len(b)
  BY <1>1
<1>3. \A i \in 1 .. Len(a) : c[i] = a[i]
  BY <1>1
<1>4. \A i \in 1 .. Len(b) : c[Len(a) + i] = b[i]
  BY <1>1
<1>5. IsSeq(c)
  <2> HIDE DEF c
  <2> QED BY <1>2, SeqIs
<1> QED BY <1>2, <1>3, <1>4, <1>5

(* The file with items appended.                                           *)
LEMMA FileLonger ==
    ASSUME NEW file, IsSeq(file), NEW items, IsSeq(items)
    PROVE  /\ Longer(file, file \o items) /\ Len(file \o items) = Len(file) + Len(items)
           /\ \A i \in 1 .. Len(items) : (file \o items)[Len(file) + i] = items[i]
<1> DEFINE f == file \o items
<1>1. /\ IsSeq(f) /\ Len(f) = Len(file) + Len(items)
      /\ \A i \in 1 .. Len(file) : f[i] = file[i]
      /\ \A i \in 1 .. Len(items) : f[Len(file) + i] = items[i]
  BY Concatenates
<1>2. Len(file) \in Nat /\ Len(items) \in Nat
  BY SeqFacts
<1> HIDE DEF f
<1>3. Longer(file, f)
  BY <1>1, <1>2 DEF Longer
<1> QED BY <1>1, <1>3 DEF f

(* An object that is no container, with the holder of its length.          *)
LEMMA ObjectAdded ==
    ASSUME NEW file, NEW lay, NEW d, DocOK(d), NEW q, NEW w, NEW P, PlanOK(d.kind, P), NEW o, NEW ed,
           QueueOK(d.kind, q, P, o), FileOK(file, lay, d, q, w, P, o, ed),
           w.obj \in (DOMAIN q.map \ DOMAIN P.home) \ Waiting(q), w.obj \notin DOMAIN P.members,
           NEW item, PlainItem(item, w.obj, d, q, P, ed), item.source = w.obj,
           NEW length, w.obj \in DOMAIN q.holders => HolderItem(length, w.obj, q) /\ length.source = w.obj,
           NEW items, items = (IF w.obj \in DOMAIN q.holders THEN <<item, length>> ELSE <<item>>),
           NEW lay2, lay2 = [uncompressed |-> Over([n \in {items[i].number : i \in DOMAIN items} |->
                                                       Len(file) + 1 + n - q.map[w.obj]], lay.uncompressed),
                             compressed |-> lay.compressed]
    PROVE  FileOK(file \o items, lay2, d, q, Idle, P, o, ed)
<1> DEFINE s == w.obj
           held == s \in DOMAIN q.holders
           f == file \o items
           u == lay.uncompressed
           u2 == lay2.uncompressed
           g == [n \in {items[i].number : i \in DOMAIN items} |-> Len(file) + 1 + n - q.map[s]]
<1>1. s \in DOMAIN d.kind /\ q.map[s] \in Nat /\ 0 \notin DOMAIN q.map
  <2>1. DOMAIN q.map \subseteq DOMAIN d.kind /\ \A t \in DOMAIN q.map : q.map[t] \in Nat
    BY DEF QueueOK, QueueCore, IsQueue, IsPartial
  <2>2. 0 \notin DOMAIN d.kind
    BY DEF DocOK
  <2> QED BY <2>1, <2>2
<1>2. Settled(q, Idle, P) = Settled(q, w, P) \cup {s} /\ s \notin Settled(q, w, P)
  BY <1>1 DEF Settled, Idle
<1>3. item.number = q.map[s] /\ (held => length.number = q.map[s] + 1 /\ q.holders[s] = q.map[s] + 1)
  BY DEF PlainItem, HolderItem, QueueOK, QueueCore, Numbers
<1>4. /\ IsSeq(items) /\ Len(items) = (IF held THEN 2 ELSE 1) /\ DOMAIN items = 1 .. Len(items) /\ items[1] = item
      /\ (held => items[2] = length)
  <2>1. CASE held
    <3>1. items = <<item, length>>
      BY <2>1
    <3>2. <<item, length>> \in Seq({item, length})
      OBVIOUS
    <3>3. IsSeq(items)
      BY <3>1, <3>2, SeqIs
    <3> QED BY <2>1, <3>1, <3>3
  <2>2. CASE ~held
    <3>1. items = <<item>>
      BY <2>2
    <3>2. <<item>> \in Seq({item})
      OBVIOUS
    <3>3. IsSeq(items)
      BY <3>1, <3>2, SeqIs
    <3> QED BY <2>2, <3>1, <3>3
  <2> QED BY <2>1, <2>2
<1>5. IsSeq(file) /\ Len(file) \in Nat
  BY SeqFacts DEF FileOK
<1>6. /\ Longer(file, f) /\ Len(f) = Len(file) + Len(items)
      /\ \A i \in 1 .. Len(items) : f[Len(file) + i] = items[i]
  BY <1>4, <1>5, FileLonger
<1>7. DOMAIN g = {q.map[s]} \cup (IF held THEN {q.map[s] + 1} ELSE {})
      /\ g[q.map[s]] = Len(file) + 1 /\ (held => g[q.map[s] + 1] = Len(file) + 2)
  <2>1. {items[i].number : i \in DOMAIN items} = {q.map[s]} \cup (IF held THEN {q.map[s] + 1} ELSE {})
    <3>1. CASE held
      <4>1. DOMAIN items = {1, 2}
        BY <1>4, <3>1
      <4> QED BY <1>3, <1>4, <3>1, <4>1
    <3>2. CASE ~held
      <4>1. DOMAIN items = {1}
        BY <1>4, <3>2
      <4> QED BY <1>3, <1>4, <3>2, <4>1
    <3> QED BY <3>1, <3>2
  <2> DEFINE N == {items[i].number : i \in DOMAIN items}
             b == q.map[s]
             k == Len(file)
  <2>2. g = [n \in N |-> k + 1 + n - b]
    OBVIOUS
  <2> HIDE DEF N, g, b, k, held
  <2>3. b \in Nat /\ k \in Nat /\ N = {b} \cup (IF held THEN {b + 1} ELSE {})
    BY <1>1, <1>5, <2>1 DEF N, b, k
  <2>4. DOMAIN g = N /\ b \in N /\ (held => b + 1 \in N)
    BY <2>2, <2>3
  <2>5. g[b] = k + 1 /\ (held => g[b + 1] = k + 2)
    BY <2>2, <2>3, <2>4
  <2> QED BY <2>3, <2>4, <2>5 DEF b, k
<1>8. u2 = Over(g, u) /\ lay2.compressed = lay.compressed /\ lay2 = [uncompressed |-> u2, compressed |-> lay2.compressed]
  OBVIOUS
<1> HIDE DEF g, f, u2
<1>9. /\ DOMAIN u2 = DOMAIN u \cup DOMAIN g
      /\ \A n \in DOMAIN g : u2[n] = g[n]
      /\ \A n \in DOMAIN u \ DOMAIN g : u2[n] = u[n]
  BY <1>8 DEF Over
<1>10. q.map[s] \notin DOMAIN u /\ (held => q.map[s] + 1 \notin DOMAIN u)
  BY <1>2, <1>3, NewNumbers
<1>11. \A i \in NewAt(file, f) : i = Len(file) + 1 \/ (held /\ i = Len(file) + 2)
  BY <1>4, <1>5, <1>6 DEF NewAt
<1>12. f[Len(file) + 1] = item /\ (held => f[Len(file) + 2] = length) /\ Len(file) + 1 \in NewAt(file, f)
       /\ (held => Len(file) + 2 \in NewAt(file, f))
  BY <1>4, <1>5, <1>6 DEF NewAt
<1>13. NewRows(u, u2, file, f)
  <2>1. ASSUME NEW i \in NewAt(file, f) PROVE f[i].number \in DOMAIN u2 /\ u2[f[i].number] = i
    <3>1. CASE i = Len(file) + 1
      BY <1>3, <1>7, <1>9, <1>12, <3>1
    <3>2. CASE held /\ i = Len(file) + 2
      BY <1>3, <1>7, <1>9, <1>12, <3>2
    <3> QED BY <1>11, <3>1, <3>2
  <2>2. ASSUME NEW n \in DOMAIN u2 \ DOMAIN u PROVE \E i \in NewAt(file, f) : n = f[i].number
    <3>1. n = q.map[s] \/ (held /\ n = q.map[s] + 1)
      BY <1>7, <1>9
    <3> QED BY <1>3, <1>12, <3>1
  <2>3. \A n \in DOMAIN u : n \in DOMAIN u2 /\ u2[n] = u[n]
    BY <1>7, <1>9, <1>10
  <2> QED BY <2>1, <2>2, <2>3 DEF NewRows
<1>14. ASSUME NEW i \in NewAt(file, f) PROVE ItemOK(f[i], d, q, Idle, P, o, ed)
  <2>1. CASE i = Len(file) + 1
    BY <1>2, <1>12, <2>1 DEF ItemOK
  <2>2. CASE held /\ i = Len(file) + 2
    BY SMTT(60), <1>2, <1>12, <2>2 DEF ItemOK
  <2> QED BY <1>11, <2>1, <2>2
<1>15. Inside(lay2.compressed, q, Idle, P)
  <2>1. Inside(lay.compressed, q, w, P)
    BY DEF FileOK
  <2>2. \A m \in DOMAIN P.home : P.home[m] # s
    BY DEF PlanOK
  <2> HIDE DEF s
  <2> QED BY Zenon, <1>2, <1>8, <2>1, <2>2 DEF Inside
<1>16. \A t \in Settled(q, Idle, P) \ Settled(q, w, P) :
              q.map[t] \in DOMAIN u2 /\ (t \in DOMAIN q.holders => q.holders[t] \in DOMAIN u2)
  BY <1>2, <1>3, <1>7, <1>9
<1>17. FileOK(f, lay2, d, q, Idle, P, o, ed)
  <2>1. Settled(q, w, P) \subseteq Settled(q, Idle, P)
    BY <1>2
  <2>2. NewRows(lay.uncompressed, lay2.uncompressed, file, f)
    BY <1>13 DEF u2
  <2>3. lay2 = [uncompressed |-> lay2.uncompressed, compressed |-> lay2.compressed]
    BY <1>8 DEF u2
  <2>4. \A t \in Settled(q, Idle, P) \ Settled(q, w, P) :
              q.map[t] \in DOMAIN lay2.uncompressed /\ (t \in DOMAIN q.holders => q.holders[t] \in DOMAIN lay2.uncompressed)
    BY <1>16 DEF u2
  <2> QED BY <1>6, <1>14, <1>15, <2>1, <2>2, <2>3, <2>4, ItemsAdded
<1> QED BY <1>17 DEF f

(* A container with all its members.                                       *)
LEMMA ContainerAdded ==
    ASSUME NEW file, NEW lay, NEW d, DocOK(d), NEW q, NEW w, NEW P, PlanOK(d.kind, P), NEW o, NEW ed,
           QueueOK(d.kind, q, P, o), FileOK(file, lay, d, q, w, P, o, ed),
           w.obj \in (DOMAIN q.map \ DOMAIN P.home) \ Waiting(q), w.obj \in DOMAIN P.members,
           NEW item, ContainerItem(item, w.obj, d, q, P, o, ed), item.source = w.obj,
           NEW bodies, bodies = item.members,
           NEW lay2, lay2 = [uncompressed |-> Put(lay.uncompressed, q.map[w.obj], Len(file) + 1),
                             compressed |-> Over([n \in {bodies[i].number : i \in DOMAIN bodies} |->
                                 [container |-> q.map[w.obj],
                                  index |-> (CHOOSE i \in DOMAIN bodies : bodies[i].number = n) - 1]],
                                 lay.compressed)]
    PROVE  FileOK(Append(file, item), lay2, d, q, Idle, P, o, ed)
<1> DEFINE s == w.obj
           f == Append(file, item)
           u == lay.uncompressed
           u2 == lay2.uncompressed
           N == {bodies[i].number : i \in DOMAIN bodies}
           At(n) == CHOOSE i \in DOMAIN bodies : bodies[i].number = n
           g == [n \in N |-> [container |-> q.map[s], index |-> At(n) - 1]]
           c == lay.compressed
           c2 == lay2.compressed
           mem == P.members[s]
<1>1. s \in DOMAIN d.kind /\ q.map[s] \in Nat /\ 0 \notin DOMAIN q.map /\ s \notin DOMAIN q.holders
  <2>1. DOMAIN q.map \subseteq DOMAIN d.kind /\ \A t \in DOMAIN q.map : q.map[t] \in Nat
    BY DEF QueueOK, QueueCore, IsQueue, IsPartial
  <2>2. 0 \notin DOMAIN d.kind
    BY DEF DocOK
  <2>3. s \notin DOMAIN q.holders
    BY DEF QueueOK, QueueCore, Membership
  <2> QED BY <2>1, <2>2, <2>3
<1>2. Settled(q, Idle, P) = Settled(q, w, P) \cup {s} /\ s \notin Settled(q, w, P)
  BY <1>1 DEF Settled, Idle
<1>3. item.number = q.map[s] /\ BodiesOf(bodies, s, d, q, P, ed) /\ Len(bodies) = Len(mem)
  BY DEF ContainerItem
<1>4. IsSeq(file) /\ Len(file) \in Nat
  BY SeqFacts DEF FileOK
<1>5. IsAppend(f, file, item)
  BY <1>4, Appends
<1>6. u2 = Put(u, q.map[s], Len(file) + 1) /\ c2 = Over(g, c) /\ lay2 = [uncompressed |-> u2, compressed |-> c2]
  OBVIOUS
<1> HIDE DEF f, u2, c2, g
<1>7. Longer(file, f) /\ NewAt(file, f) = {Len(file) + 1} /\ f[Len(file) + 1] = item
  BY <1>4, <1>5 DEF Longer, NewAt, IsAppend
<1>8. q.map[s] \notin DOMAIN u
  BY <1>2, NewNumbers
<1>9. NewRows(u, u2, file, f)
  BY <1>3, <1>6, <1>7, <1>8 DEF NewRows, Put
<1>10. \A i \in NewAt(file, f) : ItemOK(f[i], d, q, Idle, P, o, ed)
  BY <1>2, <1>7 DEF ItemOK
<1>11. \A t \in Settled(q, Idle, P) \ Settled(q, w, P) :
          q.map[t] \in DOMAIN u2 /\ (t \in DOMAIN q.holders => q.holders[t] \in DOMAIN u2)
  BY SMTT(60), <1>1, <1>2, <1>6 DEF Put
<1>12. /\ Len(mem) \in Nat /\ DOMAIN mem = 1 .. Len(mem) /\ DOMAIN bodies = DOMAIN mem
       /\ \A i \in DOMAIN mem : mem[i] \in DOMAIN P.home /\ P.home[mem[i]] = s /\ mem[i] \in DOMAIN q.map
                                /\ bodies[i].number = q.map[mem[i]]
       /\ \A m \in DOMAIN P.home : P.home[m] = s => \E i \in DOMAIN mem : mem[i] = m
  <2>1. mem \in Seq(DOMAIN P.home) /\ \A i \in DOMAIN mem : P.home[mem[i]] = s
    BY DEF PlanOK
  <2>2. Len(mem) \in Nat /\ DOMAIN mem = 1 .. Len(mem)
    BY <2>1
  <2>3. DOMAIN bodies = DOMAIN mem
    BY <1>3, <2>2, SeqFacts DEF BodiesOf
  <2>4. \A i \in DOMAIN mem : mem[i] \in DOMAIN q.map \cap DOMAIN P.home
    BY MembersNumbered
  <2>5. \A i \in DOMAIN bodies : bodies[i].number = q.map[mem[i]]
    BY <1>3 DEF BodiesOf, BodyOf
  <2>6. \A m \in DOMAIN P.home : P.home[m] = s => \E i \in DOMAIN mem : mem[i] = m
    BY DEF PlanOK
  <2> QED BY <2>1, <2>2, <2>3, <2>4, <2>5, <2>6
<1>13. \A t, x \in DOMAIN q.map : q.map[t] = q.map[x] => t = x
  BY DEF QueueOK, QueueCore, Numbers
<1> HIDE DEF mem, N
<1>14. /\ DOMAIN c2 = DOMAIN c \cup N /\ \A n \in N : c2[n] = [container |-> q.map[s], index |-> At(n) - 1]
       /\ \A n \in DOMAIN c \ N : c2[n] = c[n]
  BY <1>6 DEF Over, g
<1>15. ASSUME NEW n \in N PROVE At(n) \in DOMAIN mem /\ bodies[At(n)].number = n /\ At(n) \in Nat
  <2>1. \E i \in DOMAIN bodies : bodies[i].number = n
    BY DEF N
  <2>2. At(n) \in DOMAIN bodies /\ bodies[At(n)].number = n
    BY <2>1
  <2> QED BY <1>12, <2>2
<1> HIDE DEF At
<1>16. Inside(c, q, w, P)
  BY DEF FileOK
<1>17. ASSUME NEW n \in DOMAIN c2
       PROVE  \E m \in DOMAIN P.home \cap DOMAIN q.map : n = q.map[m] /\ P.home[m] \in Settled(q, Idle, P)
  <2>1. CASE n \in DOMAIN c
    BY Zenon, <1>2, <1>16, <2>1 DEF Inside
  <2>2. CASE n \in N
    <3>1. mem[At(n)] \in DOMAIN P.home \cap DOMAIN q.map /\ P.home[mem[At(n)]] = s /\ n = q.map[mem[At(n)]]
      BY SMTT(60), <1>12, <1>15, <2>2
    <3> QED BY <1>2, <3>1
  <2> QED BY SMTT(60), <1>14, <2>1, <2>2
<1>18. ASSUME NEW m \in DOMAIN P.home \cap DOMAIN q.map, P.home[m] \in Settled(q, Idle, P)
       PROVE  /\ q.map[m] \in DOMAIN c2
              /\ c2[q.map[m]].container = q.map[P.home[m]]
              /\ c2[q.map[m]].index + 1 \in DOMAIN P.members[P.home[m]]
              /\ P.members[P.home[m]][c2[q.map[m]].index + 1] = m
  <2> DEFINE n == q.map[m]
  <2>1. CASE P.home[m] = s
    <3>1. n \in N
      BY <1>12, <2>1 DEF N
    <3>2. c2[n].container = q.map[s] /\ c2[n].index = At(n) - 1 /\ n \in DOMAIN c2
      BY <1>14, <3>1
    <3>3. At(n) \in DOMAIN mem /\ bodies[At(n)].number = n /\ At(n) \in Nat
      BY <1>15, <3>1
    <3>4. mem[At(n)] = m
      BY <1>12, <1>13, <3>3
    <3>5. c2[n].index + 1 = At(n)
      BY SMTT(60), <3>2, <3>3
    <3> QED BY <2>1, <3>2, <3>3, <3>4, <3>5 DEF mem
  <2>2. CASE P.home[m] # s
    <3>1. n \notin N
      <4> SUFFICES ASSUME n \in N PROVE FALSE
        OBVIOUS
      <4>1. mem[At(n)] \in DOMAIN q.map /\ P.home[mem[At(n)]] = s /\ n = q.map[mem[At(n)]]
        BY <1>12, <1>15
      <4>2. m = mem[At(n)]
        BY <1>13, <4>1
      <4> QED BY <2>2, <4>1, <4>2
    <3>2. P.home[m] \in Settled(q, w, P)
      BY SMTT(60), <1>2, <1>18, <2>2
    <3>3. /\ n \in DOMAIN c /\ c[n].container = q.map[P.home[m]]
          /\ c[n].index + 1 \in DOMAIN P.members[P.home[m]] /\ P.members[P.home[m]][c[n].index + 1] = m
      BY ZenonT(60), <1>16, <3>2 DEF Inside
    <3>4. c2[n] = c[n] /\ n \in DOMAIN c2
      BY SMTT(60), <1>14, <3>1, <3>3
    <3> QED BY Zenon, <3>3, <3>4
  <2> QED BY <2>1, <2>2
<1>19. Inside(c2, q, Idle, P)
  BY Zenon, <1>17, <1>18 DEF Inside
<1>20. Settled(q, w, P) \subseteq Settled(q, Idle, P)
  BY <1>2
<1>21. FileOK(f, lay2, d, q, Idle, P, o, ed)
  BY <1>6, <1>7, <1>9, <1>10, <1>11, <1>19, <1>20, ItemsAdded DEF u2, c2
<1> QED BY <1>21 DEF f

-----------------------------------------------------------------------------
(* The inductive invariant.                                                *)

Seeded(q, K, P, o) == SoundPlan(K, P, o) => Root \in DOMAIN q.map

BodyOK ==
    /\ DocOK(doc) /\ PlanOK(doc.kind, plan) /\ opt \in Options /\ edits \in Seq(Nat)
    /\ QueueOK(doc.kind, queue, plan, opt)
    /\ out = << >> => queue = EmptyQueue /\ work = Idle /\ layout = NoLayout /\ edits = << >>
    /\ out # << >> =>
          /\ WorkOK(work, doc, queue, plan, opt, edits)
          /\ FileOK(out, layout, doc, queue, work, plan, opt, edits)
          /\ Seeded(queue, doc.kind, plan, opt)

(* /Encrypt and the cross-reference stream, which stand for no object.     *)
ExtraItem(item, q) ==
    /\ item = Item(item.number, 0, item.kind, << >>) /\ item.kind \in {"encrypt", "xrefstm"}
    /\ item.number \notin 0 .. q.next - 1

(* Every object is in the file, and every number up to top has its place.  *)
Final(file, l, top, d, q, P, o, ed) ==
    /\ DocOK(d) /\ PlanOK(d.kind, P) /\ QueueOK(d.kind, q, P, o)
    /\ IsSeq(file) /\ Len(file) >= 1 /\ file[1] = Item(0, 0, "header", << >>)
    /\ top \in Nat /\ q.next - 1 <= top
    /\ \A i \in 2 .. Len(file) : ItemOK(file[i], d, q, Idle, P, o, ed) \/ ExtraItem(file[i], q)
    /\ Direct(l.uncompressed, q, Idle, P, file)
    /\ Inside(l.compressed, q, Idle, P)
    /\ DOMAIN l.uncompressed \cup DOMAIN l.compressed = 1 .. top
    /\ DOMAIN l.uncompressed \cap DOMAIN l.compressed = {}
    /\ Settled(q, Idle, P) = DOMAIN q.map \ DOMAIN P.home

FileFinal ==
    /\ Final(out, layout, result.size - 1, doc, queue, plan, opt, edits)
    /\ result.rows = Rows(layout, result.size - 1) /\ result.size \in Nat
    /\ Root \in DOMAIN result.map
    /\ \A i \in DOMAIN result.trailer :
          IF result.trailer[i].to \in DOMAIN queue.map
          THEN result.trailer[i].number = queue.map[result.trailer[i].to]
          ELSE result.trailer[i].number = 0 \/ result.trailer[i].number >= result.size

WriterInv ==
    /\ phase \in {"setup", "body", "done", "failed"}
    /\ phase = "setup" => /\ doc \in Documents /\ opt \in Options /\ plan = NoPlan /\ queue = EmptyQueue
                          /\ work = Idle /\ out = << >> /\ layout = NoLayout /\ edits = << >>
    /\ phase \in {"body", "failed"} => BodyOK
    /\ phase = "failed" => error = "output" \/ ~Sound
    /\ phase = "done" => FileFinal

-----------------------------------------------------------------------------
(* Seeding the queue.                                                      *)

(* The seeds are objects, and the catalog is one of them.                  *)
LEMMA SeedsKnown ==
    ASSUME NEW d, DocOK(d), PlanOK(d.kind, plan)
    PROVE  /\ Seeds(d) \in Seq(DOMAIN d.kind)
           /\ \E i \in 1 .. Len(Seeds(d)) : Seeds(d)[i] = Root
<1> DEFINE S == DOMAIN d.kind
           a == IF opt.unref THEN Ascending(S \ plan.generated) ELSE << >>
           b == WithoutNulls(d, d.before \o d.after)
<1>1. Root \in S
  BY DEF DocOK, Root
<1>2. a \in Seq(S)
  <2> DEFINE X == S \ plan.generated
             e == Ascending(X)
  <2>1. S = 1 .. Len(d.kind) /\ Len(d.kind) \in Nat
    BY DEF DocOK
  <2>2. IsFiniteSet(S) /\ S \subseteq Int
    BY <2>1, FS_Interval
  <2> HIDE DEF S
  <2>3. IsFiniteSet(X) /\ X \subseteq Int /\ X \subseteq S
    BY <2>2, FS_Subset
  <2>4. e \in Seq(S)
    <3> DEFINE n == Cardinality(X)
    <3> HIDE DEF X
    <3>1. n \in Nat /\ e \in [1 .. n -> X]
      BY <2>3, Ascends
    <3> HIDE DEF n, e
    <3>2. e \in [1 .. n -> S]
      BY <2>3, <3>1
    <3> QED BY <3>1, <3>2, SeqDef
  <2>5. opt.unref => a = e
    OBVIOUS
  <2>6. ~opt.unref => a = << >>
    OBVIOUS
  <2> HIDE DEF a, e
  <2>7. << >> \in Seq(S)
    OBVIOUS
  <2> QED BY <2>4, <2>5, <2>6, <2>7
<1>3. d.before \o d.after \in Seq(S)
  <2>1. d.before \in Seq(S) /\ d.after \in Seq(S)
    BY DEF DocOK
  <2> DEFINE y == d.before
             z == d.after
  <2> HIDE DEF y, z, S
  <2>2. y \in Seq(S) /\ z \in Seq(S) => y \o z \in Seq(S)
    OBVIOUS
  <2> QED BY <2>1, <2>2 DEF y, z
<1>4. b \in Seq(S)
  BY <1>3, Filtered
<1>5. Seeds(d) = (a \o <<Root>>) \o b
  BY DEF Seeds, Source
<1> HIDE DEF a, b, S
<1> DEFINE x == <<Root>>
<1>6. x \in Seq(S) /\ Len(x) = 1 /\ x[1] = Root
  <2> DEFINE r == Root
  <2> HIDE DEF r
  <2>1. r \in S
    BY <1>1 DEF r
  <2>2. <<r>> \in Seq(S) /\ Len(<<r>>) = 1 /\ <<r>>[1] = r
    BY <2>1
  <2> QED BY <2>2 DEF r
<1> HIDE DEF x
<1> DEFINE ax == a \o x
<1>7. ax \in Seq(S) /\ Len(ax) = Len(a) + 1 /\ ax[Len(a) + 1] = Root /\ Len(a) \in Nat /\ Len(b) \in Nat
  <2>1. Len(a) \in Nat /\ Len(b) \in Nat /\ 1 \in 1 .. Len(x)
    BY <1>2, <1>4, <1>6
  <2>2. IsSeq(a) /\ IsSeq(x)
    BY <1>2, <1>6, SeqIs
  <2>3. Len(ax) = Len(a) + Len(x) /\ \A i \in 1 .. Len(x) : ax[Len(a) + i] = x[i]
    BY <2>2, Concatenates
  <2>4. ax \in Seq(S)
    BY <1>2, <1>6
  <2> HIDE DEF ax
  <2> QED BY <1>6, <2>1, <2>3, <2>4
<1> HIDE DEF ax
<1>8. ax \o b \in Seq(S) /\ Len(ax \o b) = Len(ax) + Len(b) /\ \A i \in 1 .. Len(ax) : (ax \o b)[i] = ax[i]
  BY <1>4, <1>7
<1>9. Len(a) + 1 \in 1 .. Len(ax) /\ Len(a) + 1 \in 1 .. Len(ax \o b)
  BY <1>7, <1>8
<1>10. Seeds(d) = ax \o b
  BY <1>5 DEF ax, x
<1> QED BY <1>7, <1>8, <1>9, <1>10 DEF S

(* SeedQueue keeps the invariant of the body.                              *)
LEMMA SeedStep ==
    ASSUME BodyOK, SeedQueue
    PROVE  BodyOK'
<1> DEFINE r == EnqueueAll(doc, queue, Seeds(doc))
           header == Item(0, 0, "header", << >>)
<1>1. /\ DocOK(doc) /\ PlanOK(doc.kind, plan) /\ opt \in Options /\ QueueOK(doc.kind, queue, plan, opt)
      /\ queue = EmptyQueue /\ work = Idle /\ layout = NoLayout /\ edits = << >> /\ edits \in Seq(Nat)
  BY DEF BodyOK, SeedQueue
<1>2. /\ queue' = r /\ out' = <<header>>
      /\ UNCHANGED <<doc, opt, plan, work, layout, edits>>
  BY DEF SeedQueue
<1>3. Seeds(doc) \in Seq(DOMAIN doc.kind) /\ \E i \in 1 .. Len(Seeds(doc)) : Seeds(doc)[i] = Root
  BY <1>1, SeedsKnown
<1>4. AllAnswered(doc, queue, Seeds(doc), Len(Seeds(doc)), r)
  BY <1>1, <1>3, EnqueuesAll
<1> HIDE DEF r, header
<1>5. QueueOK(doc.kind, r, plan, opt) /\ Grows(queue, r, plan)
  BY <1>4 DEF AllAnswered
<1>6. SoundPlan(doc.kind, plan, opt) => Root \in DOMAIN r.map
  <2>1. ~IgnoredByQdf(doc, Root)
    BY <1>1 DEF IgnoredByQdf, DocOK
  <2> QED BY <1>3, <1>4, <2>1 DEF AllAnswered
<1>7. Settled(r, Idle, plan) = {}
  BY <1>1, <1>5 DEF Settled, Grows, EmptyQueue, Waiting
<1>8. IsSeq(<<header>>) /\ Len(<<header>>) = 1 /\ <<header>>[1] = header
  <2>1. <<header>> \in Seq({header})
    OBVIOUS
  <2> QED BY <2>1, SeqIs
<1>9. Direct(NoLayout.uncompressed, r, Idle, plan, <<header>>)
  <2>1. NoLayout.uncompressed = << >> /\ DOMAIN << >> = {} /\ 2 .. Len(<<header>>) = {}
    BY <1>8 DEF NoLayout
  <2> QED BY <1>7, <2>1 DEF Direct
<1>10. Inside(NoLayout.compressed, r, Idle, plan)
  <2>1. NoLayout.compressed = << >> /\ DOMAIN << >> = {}
    BY DEF NoLayout
  <2> QED BY <1>7, <2>1 DEF Inside
<1>11. FileOK(<<header>>, NoLayout, doc, r, Idle, plan, opt, edits)
  <2>1. 2 .. Len(<<header>>) = {} /\ Len(<<header>>) >= 1
    BY <1>8
  <2>2. NoLayout = [uncompressed |-> NoLayout.uncompressed, compressed |-> NoLayout.compressed]
    BY DEF NoLayout
  <2> QED BY <1>8, <1>9, <1>10, <2>1, <2>2 DEF FileOK, header
<1>12. out' # << >>
  BY <1>2
<1>13. WorkOK(work, doc, r, plan, opt, edits)
  BY <1>1 DEF WorkOK
<1>14. Seeded(r, doc.kind, plan, opt)
  BY <1>6 DEF Seeded
<1> QED BY <1>1, <1>2, <1>5, <1>11, <1>12, <1>13, <1>14 DEF BodyOK

-----------------------------------------------------------------------------
(* The steps of the body.                                                  *)

(* Sound, of the parts it depends on.                                      *)
LEMMA SoundIs == Sound <=> SoundPlan(doc.kind, plan, opt)
<1>1. Broken = {} <=> Unnested(plan)
  BY DEF Broken, Unnested
<1> QED BY <1>1 DEF Sound, SoundPlan, HasObjectStreams, Source

(* A document that nothing changed.                                        *)
LEMMA FollowsNot ==
    ASSUME NEW d, DocOK(d), NEW ed \in Seq(Nat)
    PROVE  Follows(d, ed, d, ed)
BY DEF Follows

(* The object at the head of the queue is taken in hand.                   *)
LEMMA TakenUp ==
    ASSUME NEW d, DocOK(d), NEW P, PlanOK(d.kind, P), NEW o, NEW q, QueueOK(d.kind, q, P, o), q.pending # << >>,
           NEW ed \in Seq(Nat), NEW file, NEW lay, FileOK(file, lay, d, q, Idle, P, o, ed),
           NEW w, w.obj = Head(q.pending)
    PROVE  /\ QueueOK(d.kind, Popped(q), P, o) /\ Keeps(q, Popped(q))
           /\ FileOK(file, lay, d, Popped(q), w, P, o, ed)
           /\ w.obj \in (DOMAIN q.map \ DOMAIN P.home) \ Waiting(Popped(q)) /\ w.obj \in DOMAIN d.kind
           /\ Popped(q).map = q.map /\ Popped(q).holders = q.holders
<1> DEFINE r == Popped(q)
<1>1. /\ QueueOK(d.kind, r, P, o)
      /\ w.obj \in DOMAIN q.map \ DOMAIN P.home /\ w.obj \in DOMAIN d.kind
      /\ Waiting(r) = Waiting(q) \ {w.obj}
      /\ w.obj \in Waiting(q)
      /\ r.map = q.map /\ r.holders = q.holders /\ r.next = q.next
      /\ r.resolving = q.resolving /\ r.ignored = q.ignored
  <2> DEFINE s == Head(q.pending)
  <2>1. /\ QueueOK(d.kind, r, P, o)
        /\ s \in DOMAIN q.map \ DOMAIN P.home /\ s \in DOMAIN d.kind
        /\ Waiting(r) = Waiting(q) \ {s}
        /\ s \in Waiting(q)
        /\ r.map = q.map /\ r.holders = q.holders /\ r.next = q.next
        /\ r.resolving = q.resolving /\ r.ignored = q.ignored
    <3> DEFINE K == d.kind
    <3>1. QueueOK(K, q, P, o)
      OBVIOUS
    <3> HIDE DEF K
    <3>2. /\ QueueOK(K, r, P, o)
          /\ s \in DOMAIN q.map \ DOMAIN P.home /\ s \in DOMAIN K
          /\ Waiting(r) = Waiting(q) \ {s}
          /\ s \in Waiting(q)
      BY <3>1, Pops
    <3>3. /\ r.map = q.map /\ r.holders = q.holders /\ r.next = q.next
          /\ r.resolving = q.resolving /\ r.ignored = q.ignored
      <4>1. IsQueue(q, DOMAIN K)
        BY <3>1 DEF QueueOK, QueueCore
      <4> QED BY <4>1 DEF IsQueue, Popped
    <3> HIDE DEF r, s
    <3> QED BY <3>2, <3>3 DEF K
  <2> HIDE DEF r, s
  <2>2. w.obj = s
    BY DEF s
  <2> QED BY <2>1, <2>2
<1> HIDE DEF r
<1>2. Keeps(q, r)
  BY <1>1 DEF Keeps
<1>3. 0 \notin DOMAIN q.map
  BY DEF QueueOK, QueueCore, IsQueue, IsPartial, DocOK
<1>4. Settled(r, w, P) = Settled(q, Idle, P)
  BY <1>1, <1>3 DEF Settled, Idle
<1>5. Onward(d, q, ed, d, r, ed, P, o)
  BY <1>1, <1>2, FollowsNot DEF Onward
<1>6. FileOK(file, lay, d, r, w, P, o, ed)
  BY <1>4, <1>5, FileMoves
<1> QED BY <1>1, <1>2, <1>6 DEF r

(* Facts of BodyOK between two objects.                                    *)
LEMMA BodyFacts ==
    ASSUME BodyOK, out # << >>
    PROVE  /\ DocOK(doc) /\ PlanOK(doc.kind, plan) /\ opt \in Options /\ edits \in Seq(Nat)
           /\ QueueOK(doc.kind, queue, plan, opt)
           /\ WorkOK(work, doc, queue, plan, opt, edits)
           /\ FileOK(out, layout, doc, queue, work, plan, opt, edits)
           /\ Seeded(queue, doc.kind, plan, opt)
BY DEF BodyOK

(* A failure changes nothing that was written.                             *)
LEMMA FailStep ==
    ASSUME BodyOK, NEW why, Fail(why)
    PROVE  BodyOK' /\ phase' = "failed" /\ error' = why /\ (Sound' <=> SoundPlan(doc.kind, plan, opt))
<1>1. UNCHANGED <<doc, opt, plan, queue, work, out, layout, edits>> /\ phase' = "failed" /\ error' = why
  BY DEF Fail
<1>2. BodyOK'
  BY <1>1 DEF BodyOK
<1>3. Sound' <=> Sound
  BY <1>1 DEF Sound, Broken, HasObjectStreams, Source
<1> QED BY <1>1, <1>2, <1>3, SoundIs

(* The catalog keeps its number.                                           *)
LEMMA SeededOn ==
    ASSUME NEW q, NEW r, Keeps(q, r), NEW K, NEW P, NEW o, Seeded(q, K, P, o)
    PROVE  Seeded(r, K, P, o)
BY DEF Keeps, Seeded

(* WriteObject keeps the invariant of the body, or fails because the plan  *)
(* is not sound.                                                           *)
LEMMA WriteStep ==
    ASSUME BodyOK, WriteObject
    PROVE  BodyOK' /\ (phase' = "body" \/ (phase' = "failed" /\ ~Sound'))
<1> DEFINE s == Head(queue.pending)
           q == Popped(queue)
           w == [Idle EXCEPT !.obj = s]
<1>1. phase = "body" /\ out # << >> /\ work = Idle /\ queue.pending # << >> /\ s \notin DOMAIN plan.members
  BY Zenon DEF WriteObject
<1> DEFINE Go(c, r) ==
              LET new == queue.map[s]
                  held == HasHolder(c.doc, s)
                  item == [Item(new, s, c.doc.kind[s], r.refs) EXCEPT !.length = IF held THEN queue.holders[s] ELSE 0]
                  items == IF held THEN <<item, Item(new + 1, s, "length", << >>)>> ELSE <<item>>
              IN  IF r.error # "" THEN Fail(r.error)
                  ELSE /\ doc' = c.doc /\ edits' = c.edits
                       /\ progress' = Indicate(progress, FALSE)
                       /\ queue' = r.queue
                       /\ out' = out \o items
                       /\ layout' = [layout EXCEPT !.uncompressed =
                              Over([n \in {items[i].number : i \in DOMAIN items} |-> Len(out) + 1 + n - new], @)]
                       /\ UNCHANGED <<phase, opt, plan, work, result, error>>
<1>2. PICK c \in Callback(Indicate(progress, FALSE)) : Go(c, UnparseObject(c.doc, q, s))
  <2>1. \E c \in Callback(Indicate(progress, FALSE)) : \E r \in {UnparseObject(c.doc, q, s)} : Go(c, r)
    BY Zenon DEF WriteObject, Popped
  <2> HIDE DEF Go, q, s
  <2> QED BY Zenon, <2>1
<1>3. /\ DocOK(doc) /\ PlanOK(doc.kind, plan) /\ opt \in Options /\ edits \in Seq(Nat)
      /\ QueueOK(doc.kind, queue, plan, opt)
      /\ FileOK(out, layout, doc, queue, Idle, plan, opt, edits)
      /\ Seeded(queue, doc.kind, plan, opt)
  BY <1>1, BodyFacts
<1>4. Follows(doc, edits, c.doc, c.edits)
  BY Zenon, <1>3, CallbackFollows
<1>5. w.obj = s
  BY DEF Idle
<1> DEFINE d == c.doc
           r == UnparseObject(d, q, s)
           new == queue.map[s]
           held == HasHolder(d, s)
           item == [Item(new, s, d.kind[s], r.refs) EXCEPT !.length = IF held THEN queue.holders[s] ELSE 0]
           length == Item(new + 1, s, "length", << >>)
           items == IF held THEN <<item, length>> ELSE <<item>>
<1>6. /\ r.error # "" => Fail(r.error)
      /\ r.error = "" =>
            /\ doc' = d /\ edits' = c.edits
            /\ queue' = r.queue
            /\ out' = out \o items
            /\ layout' = [layout EXCEPT !.uncompressed =
                   Over([n \in {items[i].number : i \in DOMAIN items} |-> Len(out) + 1 + n - new], @)]
            /\ UNCHANGED <<phase, opt, plan, work>>
  BY Zenon, <1>2
<1> HIDE DEF w
<1>7. /\ QueueOK(doc.kind, q, plan, opt) /\ Keeps(queue, q)
      /\ FileOK(out, layout, doc, q, w, plan, opt, edits)
      /\ s \in (DOMAIN queue.map \ DOMAIN plan.home) \ Waiting(q) /\ s \in DOMAIN doc.kind
      /\ q.map = queue.map /\ q.holders = queue.holders
  <2>1. /\ QueueOK(doc.kind, Popped(queue), plan, opt) /\ Keeps(queue, Popped(queue))
        /\ FileOK(out, layout, doc, Popped(queue), w, plan, opt, edits)
        /\ w.obj \in (DOMAIN queue.map \ DOMAIN plan.home) \ Waiting(Popped(queue)) /\ w.obj \in DOMAIN doc.kind
        /\ Popped(queue).map = queue.map /\ Popped(queue).holders = queue.holders
    BY ZenonT(60), <1>1, <1>3, <1>5, TakenUp
  <2> HIDE DEF s
  <2> QED BY <1>5, <2>1
<1>8. DocOK(d) /\ d.kind = doc.kind
  BY <1>4 DEF Follows
<1> HIDE DEF q, s, d
<1>9. Unparsed(d, q, Shown(d, s), r) /\ (SoundPlan(d.kind, plan, opt) => r.error = "")
  BY <1>3, <1>7, <1>8, UnparsesObject
<1> HIDE DEF r
<1>10. CASE r.error # ""
  <2>1. Fail(r.error)
    BY <1>6, <1>10
  <2> QED BY <1>8, <1>9, <1>10, <2>1, FailStep
<1>11. CASE r.error = ""
  <2> DEFINE p == r.queue
  <2>1. /\ QueueOK(doc.kind, p, plan, opt) /\ Grows(q, p, plan) /\ RefsOK(r.refs, p) /\ Targets(r.refs) = Shown(d, s)
    BY ZenonT(60), <1>8, <1>9, <1>11 DEF Unparsed
  <2>2. doc' = d /\ edits' = c.edits /\ queue' = p /\ out' = out \o items
        /\ layout' = [layout EXCEPT !.uncompressed =
               Over([n \in {items[i].number : i \in DOMAIN items} |-> Len(out) + 1 + n - new], @)]
        /\ UNCHANGED <<phase, opt, plan, work>>
    BY <1>6, <1>11
  <2> HIDE DEF p
  <2>3. Onward(doc, q, edits, d, p, c.edits, plan, opt)
    BY <1>3, <1>4, <1>7, <2>1 DEF Onward, Grows, d
  <2>4. Settled(p, w, plan) = Settled(q, w, plan)
    BY <2>1, SettledStays
  <2>5. FileOK(out, layout, d, p, w, plan, opt, c.edits)
    BY <1>7, <2>3, <2>4, FileMoves
  <2>6. s \in (DOMAIN p.map \ DOMAIN plan.home) \ Waiting(p)
    BY <1>7, <2>1 DEF Grows, Keeps
  <2>7. /\ p.map[s] = new /\ (s \in DOMAIN p.holders <=> s \in DOMAIN q.holders)
        /\ (s \in DOMAIN q.holders => p.holders[s] = queue.holders[s])
    BY <1>7, <2>3, HoldersStay
  <2>8. s \in DOMAIN p.holders <=> held
    BY <1>1, <1>8, <2>1, <2>6 DEF QueueOK, QueueCore, Membership, HasHolder, s
  <2>9. held => p.holders[s] = new + 1
    BY <2>1, <2>7, <2>8 DEF QueueOK, QueueCore, Numbers
  <2>10. PlainItem(item, s, d, p, plan, c.edits) /\ item.source = s
    <3>1. /\ item.number = new /\ item.source = s /\ item.kind = d.kind[s] /\ item.members = << >>
          /\ item.table = << >> /\ item.refs = r.refs /\ item.length = IF held THEN queue.holders[s] ELSE 0
      BY DEF Item
    <3> HIDE DEF item
    <3>2. s \notin DOMAIN plan.members
      BY <1>1 DEF s
    <3>3. IF s \in DOMAIN p.holders THEN item.length = p.holders[s] ELSE item.length = 0
      BY <2>7, <2>8, <3>1
    <3> QED BY <2>1, <2>7, <3>1, <3>2, <3>3 DEF PlainItem
  <2>11. s \in DOMAIN p.holders => HolderItem(length, s, p) /\ length.source = s
    BY <2>8, <2>9 DEF HolderItem, Item
  <2>12. items = IF s \in DOMAIN p.holders THEN <<item, length>> ELSE <<item>>
    BY <2>8
  <2> HIDE DEF item, length, items
  <2>13. layout' = [uncompressed |-> Over([n \in {items[i].number : i \in DOMAIN items} |->
                                              Len(out) + 1 + n - p.map[s]], layout.uncompressed),
                    compressed |-> layout.compressed]
    <3>1. layout = [uncompressed |-> layout.uncompressed, compressed |-> layout.compressed]
      BY <1>3 DEF FileOK
    <3> DEFINE g == Over([n \in {items[i].number : i \in DOMAIN items} |-> Len(out) + 1 + n - new], layout.uncompressed)
    <3>2. layout' = [layout EXCEPT !.uncompressed = g]
      BY <2>2
    <3>3. g = Over([n \in {items[i].number : i \in DOMAIN items} |-> Len(out) + 1 + n - p.map[s]], layout.uncompressed)
      BY <2>7
    <3> HIDE DEF g
    <3>4. layout' = [uncompressed |-> g, compressed |-> layout.compressed]
      BY <3>1, <3>2
    <3> QED BY <3>3, <3>4
  <2>14. FileOK(out \o items, layout', d, p, Idle, plan, opt, c.edits)
    <3>1. PlanOK(d.kind, plan) /\ QueueOK(d.kind, p, plan, opt) /\ w.obj = s /\ s \notin DOMAIN plan.members
      BY <1>1, <1>3, <1>5, <1>8, <2>1 DEF s
    <3>2. w.obj \in (DOMAIN p.map \ DOMAIN plan.home) \ Waiting(p) /\ w.obj \notin DOMAIN plan.members
      BY <2>6, <3>1
    <3>3. PlainItem(item, w.obj, d, p, plan, c.edits) /\ item.source = w.obj
      BY <2>10, <3>1
    <3>4. w.obj \in DOMAIN p.holders => HolderItem(length, w.obj, p) /\ length.source = w.obj
      BY <2>11, <3>1
    <3>5. items = IF w.obj \in DOMAIN p.holders THEN <<item, length>> ELSE <<item>>
      BY <2>12, <3>1
    <3>6. layout' = [uncompressed |-> Over([n \in {items[i].number : i \in DOMAIN items} |->
                                               Len(out) + 1 + n - p.map[w.obj]], layout.uncompressed),
                     compressed |-> layout.compressed]
      BY <2>13, <3>1
    <3> QED BY ZenonT(60), <1>8, <2>5, <3>1, <3>2, <3>3, <3>4, <3>5, <3>6, ObjectAdded
  <2>15. out' # << >>
    <3>1. Len(out') >= 1
      BY <2>2, <2>14 DEF FileOK
    <3> QED BY <3>1
  <2>16. Seeded(p, doc.kind, plan, opt)
    <3>1. Keeps(q, p)
      BY <2>1 DEF Grows
    <3> QED BY <1>3, <1>7, <3>1, SeededOn
  <2>17. c.edits \in Seq(Nat)
    BY <1>4 DEF Follows
  <2>18. WorkOK(Idle, d, p, plan, opt, c.edits)
    BY DEF WorkOK
  <2> QED BY <1>1, <1>3, <1>8, <2>1, <2>2, <2>14, <2>15, <2>16, <2>17, <2>18 DEF BodyOK
<1> QED BY ZenonT(60), <1>10, <1>11

(* The work in hand: what WorkOK says of a container.                      *)
Working(w, d, q, P, o, ed) ==
    /\ w = [obj |-> w.obj, pass |-> w.pass, sizes |-> w.sizes, bodies |-> w.bodies]
    /\ w.obj \in (DOMAIN q.map \ DOMAIN P.home) \ Waiting(q) /\ w.obj \in DOMAIN P.members
    /\ BodiesOf(w.bodies, w.obj, d, q, P, ed) /\ Len(w.bodies) < Len(P.members[w.obj])
    /\ w.sizes \in Seq(Nat)
    /\ ed = << >> => \A k \in DOMAIN w.sizes : w.sizes[k] = 1 + Len(MemberShown(d, P.members[w.obj][k]))
    /\ \/ w.pass = 1 /\ w.bodies = << >> /\ Len(w.sizes) < Len(P.members[w.obj])
       \/ w.pass = 2 /\ Len(w.sizes) = Len(P.members[w.obj])

(* An object stream in hand.                                               *)
LEMMA WorkingIs ==
    ASSUME NEW w, NEW d, NEW q, NEW P, NEW o, NEW ed
    PROVE  WorkOK(w, d, q, P, o, ed) <=> w = Idle \/ Working(w, d, q, P, o, ed)
BY DEF WorkOK, Working

(* Before the second pass no member is written.                            *)
LEMMA NothingBodies ==
    ASSUME NEW c, NEW d, NEW q, NEW P, NEW ed, PlanOK(d.kind, P), c \in DOMAIN P.members
    PROVE  BodiesOf(<< >>, c, d, q, P, ed) /\ Len(P.members[c]) \in Nat /\ Len(P.members[c]) > 0
           /\ DOMAIN P.members[c] = 1 .. Len(P.members[c])
<1>1. P.members[c] \in Seq(DOMAIN P.home) /\ P.members[c] # << >>
  BY DEF PlanOK
<1> DEFINE m == P.members[c]
<1> HIDE DEF m
<1>2. m \in Seq(DOMAIN P.home) /\ m # << >>
  BY <1>1 DEF m
<1>3. Len(m) \in Nat /\ Len(m) > 0 /\ DOMAIN m = 1 .. Len(m)
  BY <1>2
<1>4. IsSeq(<< >>) /\ Len(<< >>) = 0 /\ DOMAIN << >> = {}
  BY DEF IsSeq
<1>5. BodiesOf(<< >>, c, d, q, P, ed)
  BY <1>3, <1>4 DEF BodiesOf, m
<1> QED BY <1>3, <1>5 DEF m

(* The first pass.                                                         *)
LEMMA Measures ==
    ASSUME NEW d, DocOK(d), PlanOK(d.kind, plan), NEW p, NEW ed, NEW w, Working(w, d, p, plan, opt, ed), w.pass = 1,
           NEW size \in Nat,
           ed = << >> => size = 1 + Len(MemberShown(d, plan.members[w.obj][1 + Len(w.sizes)]))
    PROVE  Working(Measured(w, size), d, p, plan, opt, ed) /\ Measured(w, size).obj = w.obj
<1> DEFINE v == Measured(w, size)
           n == Len(plan.members[w.obj])
           a == Append(w.sizes, size)
           k == Len(w.sizes)
<1>1. /\ w = [obj |-> w.obj, pass |-> w.pass, sizes |-> w.sizes, bodies |-> w.bodies]
      /\ w.obj \in DOMAIN plan.members /\ w.sizes \in Seq(Nat) /\ w.bodies = << >> /\ Len(w.sizes) < n
  BY DEF Working
<1>2. v = [obj |-> w.obj, pass |-> (IF k + 1 = n THEN 2 ELSE 1), sizes |-> a, bodies |-> w.bodies]
  <2>1. v = [w EXCEPT !.sizes = Append(@, size), !.pass = IF k + 1 = n THEN 2 ELSE 1]
    BY DEF Measured
  <2> DEFINE x == IF k + 1 = n THEN 2 ELSE 1
  <2>2. v = [w EXCEPT !.sizes = Append(@, size), !.pass = x]
    BY <2>1
  <2> HIDE DEF v, x
  <2>3. v = [obj |-> w.obj, pass |-> x, sizes |-> Append(w.sizes, size), bodies |-> w.bodies]
    BY <1>1, <2>2
  <2> QED BY <2>3 DEF x
<1>3. a \in Seq(Nat) /\ IsAppend(a, w.sizes, size)
  BY <1>1, Appended
<1>4. k \in Nat /\ n \in Nat /\ k < n /\ DOMAIN w.sizes = 1 .. k
  BY <1>1, NothingBodies
<1> HIDE DEF v, a
<1>5. v.obj = w.obj /\ v.pass = (IF k + 1 = n THEN 2 ELSE 1) /\ v.sizes = a /\ v.bodies = w.bodies
  BY <1>2
<1>6. Len(a) = k + 1 /\ DOMAIN a = 1 .. k + 1 /\ a[k + 1] = size /\ \A i \in 1 .. k : a[i] = w.sizes[i]
  BY <1>3 DEF IsAppend
<1>7. ASSUME ed = << >>, NEW i \in DOMAIN a PROVE a[i] = 1 + Len(MemberShown(d, plan.members[w.obj][i]))
  <2>1. CASE i = k + 1
    <3>1. i = 1 + Len(w.sizes)
      BY <1>4, <2>1
    <3> QED BY <1>6, <1>7, <2>1, <3>1
  <2>2. CASE i # k + 1
    <3>1. i \in 1 .. k
      BY <1>4, <1>6, <2>2
    <3> QED BY <1>4, <1>6, <1>7, <3>1 DEF Working
  <2> QED BY <2>1, <2>2
<1>8. \/ v.pass = 1 /\ v.bodies = << >> /\ Len(a) < n
      \/ v.pass = 2 /\ Len(a) = n
  BY <1>1, <1>4, <1>5, <1>6
<1>9. BodiesOf(w.bodies, w.obj, d, p, plan, ed) /\ Len(w.bodies) < n
      /\ w.obj \in (DOMAIN p.map \ DOMAIN plan.home) \ Waiting(p)
  BY DEF Working
<1>10. v = [obj |-> v.obj, pass |-> v.pass, sizes |-> v.sizes, bodies |-> v.bodies]
  BY <1>2
<1> HIDE DEF n, k
<1>11. Working(v, d, p, plan, opt, ed)
  BY <1>1, <1>3, <1>5, <1>7, <1>8, <1>9, <1>10 DEF Working, n
<1> QED BY <1>5, <1>11 DEF v

(* The second pass.                                                        *)
LEMMA Collects ==
    ASSUME NEW d, DocOK(d), PlanOK(d.kind, plan), NEW p, NEW ed, NEW w, Working(w, d, p, plan, opt, ed), w.pass = 2,
           NEW body, BodyOf(body, plan.members[w.obj][1 + Len(w.bodies)], d, p, ed),
           NEW v, v = [obj |-> w.obj, pass |-> w.pass, sizes |-> w.sizes, bodies |-> Append(w.bodies, body)]
    PROVE  /\ v.obj = w.obj /\ v.sizes = w.sizes
           /\ BodiesOf(v.bodies, w.obj, d, p, plan, ed)
           /\ Len(v.bodies) # Len(plan.members[w.obj]) => Working(v, d, p, plan, opt, ed)
<1> DEFINE n == Len(plan.members[w.obj])
           a == Append(w.bodies, body)
           k == Len(w.bodies)
<1>1. /\ w = [obj |-> w.obj, pass |-> w.pass, sizes |-> w.sizes, bodies |-> w.bodies]
      /\ w.obj \in DOMAIN plan.members /\ BodiesOf(w.bodies, w.obj, d, p, plan, ed) /\ Len(w.bodies) < n
      /\ Len(w.sizes) = n
  BY DEF Working
<1>2. v = [obj |-> w.obj, pass |-> w.pass, sizes |-> w.sizes, bodies |-> a]
  OBVIOUS
<1>3. IsSeq(w.bodies) /\ k \in Nat /\ DOMAIN w.bodies = 1 .. k
  BY <1>1, SeqFacts DEF BodiesOf
<1>4. IsAppend(a, w.bodies, body)
  BY <1>3, Appends
<1> HIDE DEF a
<1>5. v.obj = w.obj /\ v.sizes = w.sizes /\ v.bodies = a /\ v.pass = w.pass
      /\ v = [obj |-> v.obj, pass |-> v.pass, sizes |-> v.sizes, bodies |-> v.bodies]
  BY <1>2
<1>6. IsSeq(a) /\ Len(a) = k + 1 /\ DOMAIN a = 1 .. k + 1 /\ a[k + 1] = body /\ \A i \in 1 .. k : a[i] = w.bodies[i]
  BY <1>4 DEF IsAppend
<1>7. n \in Nat
  BY <1>1, NothingBodies
<1>8. ASSUME NEW i \in DOMAIN a PROVE BodyOf(a[i], plan.members[w.obj][i], d, p, ed)
  <2>1. CASE i = k + 1
    <3>1. i = 1 + Len(w.bodies)
      BY <1>3, <2>1
    <3> QED BY <1>6, <2>1, <3>1
  <2>2. CASE i # k + 1
    <3>1. i \in 1 .. k
      BY <1>3, <1>6, <2>2
    <3> QED BY <1>1, <1>3, <1>6, <3>1 DEF BodiesOf
  <2> QED BY <2>1, <2>2
<1>9. BodiesOf(a, w.obj, d, p, plan, ed)
  <2>1. Len(a) <= n
    BY <1>1, <1>3, <1>6, <1>7
  <2> QED BY <1>6, <1>8, <2>1 DEF BodiesOf
<1>10. ASSUME Len(a) # n PROVE Working(v, d, p, plan, opt, ed)
  <2>1. Len(a) < n
    BY <1>1, <1>3, <1>6, <1>7, <1>10
  <2>2. /\ w.obj \in (DOMAIN p.map \ DOMAIN plan.home) \ Waiting(p) /\ w.sizes \in Seq(Nat)
        /\ ed = << >> => \A i \in DOMAIN w.sizes : w.sizes[i] = 1 + Len(MemberShown(d, plan.members[w.obj][i]))
    BY DEF Working
  <2> QED BY <1>1, <1>5, <1>9, <2>1, <2>2 DEF Working
<1> QED BY <1>5, <1>9, <1>10

(* As many references are written as are shown.                            *)
LEMMA RefsLength ==
    ASSUME NEW refs, NEW q, RefsOK(refs, q), NEW S, NEW t \in Seq(S), Targets(refs) = t
    PROVE  Len(refs) = Len(t) /\ Len(refs) \in Nat
<1>1. Len(refs) \in Nat /\ DOMAIN refs = 1 .. Len(refs)
  BY SeqFacts DEF RefsOK
<1>2. Len(t) \in Nat /\ DOMAIN t = 1 .. Len(t)
  OBVIOUS
<1>3. DOMAIN t = DOMAIN refs
  BY SMTT(60) DEF Targets
<1> DEFINE a == Len(refs)
           b == Len(t)
<1> HIDE DEF a, b
<1>4. a \in Nat /\ b \in Nat /\ 1 .. a = 1 .. b
  BY <1>1, <1>2, <1>3 DEF a, b
<1>5. (a > 0 => a \in 1 .. b) /\ (b > 0 => b \in 1 .. a)
  BY <1>4
<1>6. a = b
  BY <1>4, <1>5
<1> QED BY <1>4, <1>6 DEF a, b

(* The container goes out.                                                 *)
LEMMA TableExact ==
    ASSUME NEW d, DocOK(d), PlanOK(d.kind, plan), NEW p, NEW w, Working(w, d, p, plan, opt, << >>), w.pass = 2,
           NEW bodies, BodiesOf(bodies, w.obj, d, p, plan, << >>), Len(bodies) = Len(plan.members[w.obj])
    PROVE  w.sizes = Sizes(bodies)
<1> DEFINE mem == plan.members[w.obj]
           n == Len(mem)
<1>1. w.obj \in DOMAIN plan.members /\ w.sizes \in Seq(Nat) /\ Len(w.sizes) = n
      /\ \A k \in DOMAIN w.sizes : w.sizes[k] = 1 + Len(MemberShown(d, mem[k]))
  BY DEF Working
<1>2. n \in Nat /\ DOMAIN mem = 1 .. n /\ mem \in Seq(DOMAIN plan.home) /\ DOMAIN plan.home \subseteq DOMAIN d.kind
  BY SMTT(60), <1>1, NothingBodies DEF PlanOK
<1>3. w.sizes = [k \in 1 .. n |-> w.sizes[k]] /\ DOMAIN w.sizes = 1 .. n
  BY <1>1
<1>4. DOMAIN bodies = 1 .. n
  BY SeqFacts DEF BodiesOf
<1>5. ASSUME NEW k \in 1 .. n PROVE w.sizes[k] = 1 + Len(bodies[k].refs)
  <2>1. mem[k] \in DOMAIN d.kind
    <3>1. mem[k] \in DOMAIN plan.home
      BY <1>2
    <3> QED BY <1>2, <3>1
  <2>2. BodyOf(bodies[k], mem[k], d, p, << >>)
    BY <1>4 DEF BodiesOf
  <2>3. Edited0(<< >>) = {}
    BY DEF Edited0
  <2>4. RefsOK(bodies[k].refs, p) /\ Targets(bodies[k].refs) = MemberShown(d, mem[k])
    BY <2>2, <2>3 DEF BodyOf
  <2>5. MemberShown(d, mem[k]) \in Seq(DOMAIN d.kind)
    BY <2>1, MemberShownSeq
  <2>6. Len(bodies[k].refs) = Len(MemberShown(d, mem[k]))
    BY <2>4, <2>5, RefsLength
  <2> QED BY <1>1, <1>3, <2>6
<1>6. Sizes(bodies) = [k \in 1 .. n |-> 1 + Len(bodies[k].refs)]
  BY <1>4 DEF Sizes
<1> QED BY <1>3, <1>5, <1>6

(* The container that EmitMember works on, and the queue without it.       *)
Hand == IF work = Idle THEN [Idle EXCEPT !.obj = Head(queue.pending)] ELSE work
HandQueue == IF work = Idle THEN Popped(queue) ELSE queue

(* The object stream in hand, whether it is taken up now or was before.    *)
LEMMA InHand ==
    ASSUME BodyOK, out # << >>,
           work # Idle \/ (queue.pending # << >> /\ Head(queue.pending) \in DOMAIN plan.members)
    PROVE  /\ QueueOK(doc.kind, HandQueue, plan, opt) /\ Keeps(queue, HandQueue)
           /\ FileOK(out, layout, doc, HandQueue, Hand, plan, opt, edits)
           /\ Working(Hand, doc, HandQueue, plan, opt, edits)
<1>1. /\ DocOK(doc) /\ PlanOK(doc.kind, plan) /\ opt \in Options /\ edits \in Seq(Nat)
      /\ QueueOK(doc.kind, queue, plan, opt)
      /\ WorkOK(work, doc, queue, plan, opt, edits)
      /\ FileOK(out, layout, doc, queue, work, plan, opt, edits)
  BY BodyFacts
<1>2. CASE work # Idle
  <2>1. Hand = work /\ HandQueue = queue
    BY <1>2 DEF Hand, HandQueue
  <2>2. Working(work, doc, queue, plan, opt, edits)
    BY <1>1, <1>2, WorkingIs
  <2>3. Keeps(queue, queue)
    BY DEF Keeps
  <2> QED BY <1>1, <2>1, <2>2, <2>3
<1>3. CASE work = Idle
  <2> DEFINE w == Hand
             q == HandQueue
             s == Head(queue.pending)
  <2>1. w = [obj |-> s, pass |-> 1, sizes |-> << >>, bodies |-> << >>] /\ q = Popped(queue)
    BY <1>3 DEF Hand, HandQueue, Idle
  <2>2. queue.pending # << >> /\ s \in DOMAIN plan.members
    BY <1>3
  <2> HIDE DEF w, q, s
  <2>3. w.obj = s /\ w.pass = 1 /\ w.sizes = << >> /\ w.bodies = << >>
        /\ w = [obj |-> w.obj, pass |-> w.pass, sizes |-> w.sizes, bodies |-> w.bodies]
    BY <2>1
  <2>4. FileOK(out, layout, doc, queue, Idle, plan, opt, edits)
    BY <1>1, <1>3
  <2>5. w.obj = Head(queue.pending)
    BY <2>3 DEF s
  <2>6. /\ QueueOK(doc.kind, Popped(queue), plan, opt) /\ Keeps(queue, Popped(queue))
        /\ FileOK(out, layout, doc, Popped(queue), w, plan, opt, edits)
        /\ w.obj \in (DOMAIN queue.map \ DOMAIN plan.home) \ Waiting(Popped(queue)) /\ w.obj \in DOMAIN doc.kind
        /\ Popped(queue).map = queue.map /\ Popped(queue).holders = queue.holders
    BY ZenonT(60), <1>1, <2>2, <2>4, <2>5, TakenUp
  <2>7. w.obj \in DOMAIN plan.members
    BY <2>2, <2>3
  <2>8. BodiesOf(w.bodies, w.obj, doc, q, plan, edits) /\ Len(plan.members[w.obj]) \in Nat /\ Len(plan.members[w.obj]) > 0
    BY <1>1, <2>3, <2>7, NothingBodies
  <2>9. w.obj \in (DOMAIN q.map \ DOMAIN plan.home) \ Waiting(q)
    BY <2>1, <2>6
  <2>10. w.sizes \in Seq(Nat) /\ Len(w.sizes) = 0 /\ DOMAIN w.sizes = {} /\ Len(w.bodies) = 0
    BY <2>3
  <2>11. Working(w, doc, q, plan, opt, edits)
    BY <2>3, <2>7, <2>8, <2>9, <2>10 DEF Working
  <2> QED BY <2>1, <2>6, <2>11 DEF w, q
<1> QED BY <1>2, <1>3

(* The member that is next in the container.                               *)
LEMMA NextMember ==
    ASSUME NEW d, NEW q, NEW w, NEW ed, PlanOK(d.kind, plan), QueueOK(d.kind, q, plan, opt), Working(w, d, q, plan, opt, ed),
           NEW m, m = plan.members[w.obj][1 + Len(IF w.pass = 1 THEN w.sizes ELSE w.bodies)]
    PROVE  m \in DOMAIN d.kind /\ m \in DOMAIN plan.home /\ m \in DOMAIN q.map
<1> DEFINE mem == plan.members[w.obj]
           k == Len(IF w.pass = 1 THEN w.sizes ELSE w.bodies)
<1>1. w.obj \in DOMAIN plan.members /\ w.obj \in DOMAIN q.map \ DOMAIN plan.home
  BY DEF Working
<1>2. k \in Nat /\ k < Len(mem) /\ Len(mem) \in Nat /\ DOMAIN mem = 1 .. Len(mem)
  <2>1. Len(mem) \in Nat /\ DOMAIN mem = 1 .. Len(mem)
    BY <1>1, NothingBodies
  <2>2. Len(w.bodies) \in Nat /\ Len(w.bodies) < Len(mem)
    BY SeqFacts DEF Working, BodiesOf
  <2>3. w.pass = 1 => Len(w.sizes) \in Nat /\ Len(w.sizes) < Len(mem)
    BY DEF Working
  <2> QED BY <2>1, <2>2, <2>3
<1>3. 1 + k \in DOMAIN mem
  <2> HIDE DEF k, mem
  <2> QED BY <1>2
<1>4. m = mem[1 + k]
  OBVIOUS
<1>5. mem[1 + k] \in DOMAIN q.map \cap DOMAIN plan.home
  BY <1>1, <1>3, MembersNumbered
<1> QED BY <1>4, <1>5 DEF PlanOK

(* The container goes out after its last member.                           *)
LEMMA ClosedItem ==
    ASSUME NEW d, DocOK(d), PlanOK(d.kind, plan), NEW p, NEW ed, NEW w, Working(w, d, p, plan, opt, ed), w.pass = 2,
           NEW v, v.sizes = w.sizes, v.obj = w.obj, BodiesOf(v.bodies, w.obj, d, p, plan, ed),
           Len(v.bodies) = Len(plan.members[w.obj]), ~opt.qdf \/ ed = << >>
    PROVE  OffsetTable(v) = Starts(Sizes(v.bodies))
<1>1. CASE ~opt.qdf
  BY <1>1 DEF OffsetTable
<1>2. CASE opt.qdf /\ ed = << >>
  <2>1. Working(w, d, p, plan, opt, << >>) /\ BodiesOf(v.bodies, w.obj, d, p, plan, << >>)
    BY <1>2
  <2> DEFINE bodies == v.bodies
  <2> HIDE DEF bodies
  <2>2. BodiesOf(bodies, w.obj, d, p, plan, << >>) /\ Len(bodies) = Len(plan.members[w.obj])
    BY <2>1 DEF bodies
  <2>3. w.sizes = Sizes(bodies)
    BY <2>1, <2>2, TableExact
  <2>4. OffsetTable(v) = Starts(v.sizes)
    BY <1>2 DEF OffsetTable
  <2> QED BY <2>3, <2>4 DEF bodies
<1> QED BY <1>1, <1>2

(* CloseContainer puts a right item and right rows into the file.          *)
LEMMA Closes ==
    ASSUME NEW d, DocOK(d), PlanOK(d.kind, plan), NEW p, QueueOK(d.kind, p, plan, opt), NEW ed \in Seq(Nat),
           NEW w, Working(w, d, p, plan, opt, ed), FileOK(out, layout, d, p, w, plan, opt, ed),
           NEW bodies, BodiesOf(bodies, w.obj, d, p, plan, ed), Len(bodies) = Len(plan.members[w.obj]),
           NEW x, QueueOK(d.kind, x, plan, opt), Grows(p, x, plan), NEW refs, RefsOK(refs, x),
           NEW table, ~opt.qdf \/ ed = << >> => table = Starts(Sizes(bodies)),
           NEW item, item = [number |-> x.map[w.obj], source |-> w.obj, kind |-> "objstm", refs |-> refs,
                             length |-> 0, members |-> bodies, table |-> table]
    PROVE  FileOK(Append(out, item), Placed(x.map[w.obj], bodies), d, x, Idle, plan, opt, ed)
<1>1. w.obj \in (DOMAIN p.map \ DOMAIN plan.home) \ Waiting(p) /\ w.obj \in DOMAIN plan.members
  BY DEF Working
<1>2. Onward(d, p, ed, d, x, ed, plan, opt)
  BY FollowsNot DEF Onward, Grows
<1>3. Settled(x, w, plan) = Settled(p, w, plan)
  BY SettledStays
<1>4. FileOK(out, layout, d, x, w, plan, opt, ed)
  BY <1>2, <1>3, FileMoves
<1>5. w.obj \in (DOMAIN x.map \ DOMAIN plan.home) \ Waiting(x) /\ w.obj \in DOMAIN plan.members
  BY <1>1 DEF Grows, Keeps
<1>6. BodiesOf(bodies, w.obj, d, x, plan, ed)
  BY <1>1, <1>2, BodiesStay
<1>7. item.number = x.map[w.obj] /\ item.source = w.obj /\ item.kind = "objstm" /\ item.refs = refs
      /\ item.length = 0 /\ bodies = item.members /\ item.table = table
  OBVIOUS
<1>8. ContainerItem(item, w.obj, d, x, plan, opt, ed)
  <2>1. RefsOK(item.refs, x) /\ BodiesOf(item.members, w.obj, d, x, plan, ed)
        /\ Len(item.members) = Len(plan.members[w.obj])
    BY <1>6, <1>7
  <2>2. ~opt.qdf \/ ed = << >> => item.table = Starts(Sizes(item.members))
    BY <1>7
  <2> QED BY <1>5, <1>7, <2>1, <2>2 DEF ContainerItem
<1> DEFINE lay2 == Placed(x.map[w.obj], bodies)
<1>9. lay2 = [uncompressed |-> Put(layout.uncompressed, x.map[w.obj], Len(out) + 1),
              compressed |-> Over([n \in {bodies[i].number : i \in DOMAIN bodies} |->
                                 [container |-> x.map[w.obj],
                                  index |-> (CHOOSE i \in DOMAIN bodies : bodies[i].number = n) - 1]],
                                 layout.compressed)]
  BY DEF Placed
<1> HIDE DEF lay2
<1>10. FileOK(Append(out, item), lay2, d, x, Idle, plan, opt, ed)
  BY <1>4, <1>5, <1>7, <1>8, <1>9, ContainerAdded
<1> QED BY <1>10 DEF lay2

(* The queue, the file and the work in hand after one member was unparsed. *)
LEMMA MemberMoves ==
    ASSUME NEW d, NEW ed, DocOK(doc), PlanOK(doc.kind, plan), Follows(doc, edits, d, ed),
           NEW q, QueueOK(doc.kind, q, plan, opt), NEW w, Working(w, doc, q, plan, opt, edits),
           FileOK(out, layout, doc, q, w, plan, opt, edits),
           NEW p, QueueOK(doc.kind, p, plan, opt), Grows(q, p, plan)
    PROVE  /\ Keeps(q, p) /\ Working(w, d, p, plan, opt, ed) /\ FileOK(out, layout, d, p, w, plan, opt, ed)
<1>1. Onward(doc, q, edits, d, p, ed, plan, opt) /\ Keeps(q, p)
  BY DEF Onward, Grows
<1>2. Settled(p, w, plan) = Settled(q, w, plan)
  BY SettledStays
<1>3. FileOK(out, layout, d, p, w, plan, opt, ed)
  BY <1>1, <1>2, FileMoves
<1>4. w.obj \in (DOMAIN q.map \ DOMAIN plan.home) \ Waiting(q)
  BY DEF Working
<1>5. w.obj \notin Waiting(p)
  BY <1>4 DEF Grows
<1>6. WorkOK(w, doc, q, plan, opt, edits)
  BY WorkingIs
<1>7. WorkOK(w, d, p, plan, opt, ed)
  BY <1>1, <1>5, <1>6, WorkMoves
<1>8. w # Idle
  <2>1. w.obj \in DOMAIN doc.kind /\ 0 \notin DOMAIN doc.kind
    BY <1>4 DEF QueueOK, QueueCore, IsQueue, IsPartial, DocOK
  <2> QED BY <2>1 DEF Idle
<1> QED BY <1>1, <1>3, <1>7, <1>8, WorkingIs

(* The member just unparsed is right.                                      *)
LEMMA BodyWritten ==
    ASSUME NEW d, NEW q, NEW p, Keeps(q, p), NEW m \in DOMAIN q.map, NEW ed, NEW refs, RefsOK(refs, p),
           Targets(refs) = MemberShown(d, m),
           NEW b, b = [number |-> q.map[m], source |-> m, kind |-> MemberKind(d, m), refs |-> refs]
    PROVE  BodyOf(b, m, d, p, ed)
<1>1. b.number = q.map[m] /\ b.source = m /\ b.kind = MemberKind(d, m) /\ b.refs = refs
  OBVIOUS
<1>2. p.map[m] = q.map[m]
  BY DEF Keeps
<1> QED BY <1>1, <1>2 DEF BodyOf

(* EmitMember keeps the invariant of the body, or fails because the plan   *)
(* is not sound.                                                           *)
LEMMA EmitStep ==
    ASSUME BodyOK, EmitMember
    PROVE  BodyOK' /\ (phase' = "body" \/ (phase' = "failed" /\ ~Sound'))
<1> DEFINE w == Hand
           q == HandQueue
           members == plan.members[w.obj]
           m == members[1 + Len(IF w.pass = 1 THEN w.sizes ELSE w.bodies)]
           P == Indicate(progress, w.pass = 1)
<1>1. phase = "body" /\ out # << >> /\ (work # Idle \/ (queue.pending # << >> /\ Head(queue.pending) \in DOMAIN plan.members))
  BY Zenon DEF EmitMember
<1> DEFINE Go(c, r) ==
             LET kind == IF c.doc.kind[m] \in Streams THEN "null" ELSE c.doc.kind[m]
                 body == [number |-> q.map[m], source |-> m, kind |-> kind, refs |-> r.refs]
                 second == [w EXCEPT !.bodies = Append(@, body)]
                 last == w.pass = 2 /\ Len(second.bodies) = Len(members)
             IN  \E e \in {IF r.error = "" /\ last THEN Extends(c.doc, r.queue, w.obj) ELSE r} :
                   \/ e.error # "" /\ Fail(e.error)
                   \/ /\ e.error = ""
                      /\ doc' = c.doc /\ edits' = c.edits
                      /\ progress' = P
                      /\ IF last THEN CloseContainer(e, second)
                         ELSE /\ queue' = r.queue
                              /\ work' = IF w.pass = 1 THEN Measured(w, 1 + Len(r.refs)) ELSE second
                              /\ UNCHANGED <<out, layout>>
                      /\ UNCHANGED <<phase, opt, plan, result, error>>
<1>2. PICK c \in Callback(P) : Go(c, UnparseMember(c.doc, q, m))
  <2>1. \E c \in Callback(P) : \E r \in {UnparseMember(c.doc, q, m)} : Go(c, r)
    BY Zenon DEF EmitMember, Popped, Hand, HandQueue
  <2> HIDE DEF Go, q, m, P
  <2> QED BY SMTT(60), <2>1
<1>3. /\ DocOK(doc) /\ PlanOK(doc.kind, plan) /\ opt \in Options /\ edits \in Seq(Nat)
      /\ QueueOK(doc.kind, queue, plan, opt) /\ Seeded(queue, doc.kind, plan, opt)
  BY <1>1, BodyFacts
<1>4. Follows(doc, edits, c.doc, c.edits)
  <2> HIDE DEF P
  <2> QED BY <1>3, CallbackFollows
<1>5. /\ QueueOK(doc.kind, q, plan, opt) /\ Keeps(queue, q) /\ FileOK(out, layout, doc, q, w, plan, opt, edits)
      /\ Working(w, doc, q, plan, opt, edits)
  BY SMTT(60), <1>1, InHand
<1> HIDE DEF P
<1> DEFINE d == c.doc
           ed == c.edits
           r == UnparseMember(d, q, m)
           p == r.queue
           body == [number |-> q.map[m], source |-> m, kind |-> MemberKind(d, m), refs |-> r.refs]
           second == [w EXCEPT !.bodies = Append(@, body)]
           last == w.pass = 2 /\ Len(second.bodies) = Len(members)
           e == IF r.error = "" /\ last THEN Extends(d, p, w.obj) ELSE r
<1>6. /\ e.error # "" => Fail(e.error)
      /\ e.error = "" =>
            /\ doc' = d /\ edits' = ed
            /\ last => CloseContainer(e, second)
            /\ ~last => /\ queue' = p
                        /\ work' = IF w.pass = 1 THEN Measured(w, 1 + Len(r.refs)) ELSE second
                        /\ UNCHANGED <<out, layout>>
            /\ UNCHANGED <<phase, opt, plan>>
  BY ZenonT(60), <1>2 DEF MemberKind
<1> HIDE DEF w, q, d, ed
<1>7. DocOK(d) /\ d.kind = doc.kind /\ ed \in Seq(Nat) /\ Follows(doc, edits, d, ed)
  BY <1>4 DEF Follows, d, ed
<1>8. m \in DOMAIN doc.kind /\ m \in DOMAIN plan.home /\ m \in DOMAIN q.map
  BY <1>3, <1>5, NextMember
<1> HIDE DEF m
<1>9. w.obj \in DOMAIN plan.members
  BY <1>5 DEF Working
<1>10. Unparsed(d, q, MemberShown(d, m), r) /\ (SoundPlan(d.kind, plan, opt) => r.error = "")
  <2>1. DOMAIN plan.members # {} /\ m \in DOMAIN d.kind /\ PlanOK(d.kind, plan) /\ QueueOK(d.kind, q, plan, opt)
    BY <1>3, <1>5, <1>7, <1>8, <1>9
  <2> QED BY <1>7, <2>1, UnparsesMember
<1> HIDE DEF r
<1>11. QueueOK(doc.kind, p, plan, opt) /\ Grows(q, p, plan)
  BY <1>7, <1>10 DEF Unparsed
<1> HIDE DEF p
<1>12. Keeps(q, p) /\ Working(w, d, p, plan, opt, ed) /\ FileOK(out, layout, d, p, w, plan, opt, ed)
  BY <1>3, <1>5, <1>7, <1>11, MemberMoves
<1>13. SoundPlan(d.kind, plan, opt) => ~Failed(e)
  <2>1. CASE r.error = "" /\ last
    <3>1. e = Extends(d, p, w.obj) /\ PlanOK(d.kind, plan) /\ QueueOK(d.kind, p, plan, opt)
      BY <1>3, <1>7, <1>11, <2>1
    <3> DEFINE s == w.obj
    <3> HIDE DEF s, e
    <3>2. s \in DOMAIN plan.members /\ e = Extends(d, p, s)
      BY <1>9, <3>1 DEF s
    <3> QED BY <1>7, <3>1, <3>2, ExtendsWritten
  <2>2. CASE ~(r.error = "" /\ last)
    <3>1. e = r
      BY <2>2
    <3> HIDE DEF e, last
    <3>2. SoundPlan(d.kind, plan, opt) => ~Failed(r)
      BY <1>10 DEF Failed
    <3> QED BY <3>1, <3>2
  <2> HIDE DEF e, last
  <2> QED BY <2>1, <2>2
<1>14. PlanOK(d.kind, plan) /\ QueueOK(d.kind, p, plan, opt)
  BY <1>3, <1>7, <1>11
<1>15. ASSUME ~Failed(e) PROVE ~Failed(r) /\ (last => e = Extends(d, p, w.obj))
  <2>1. CASE ~Failed(r)
    BY <2>1 DEF Failed
  <2>2. CASE Failed(r)
    <3>1. e = r
      BY <2>2 DEF Failed
    <3> HIDE DEF e
    <3> QED BY <1>15, <2>2, <3>1
  <2> QED BY <2>1, <2>2
<1>16. ASSUME ~Failed(r) PROVE RefsOK(r.refs, p) /\ Targets(r.refs) = MemberShown(d, m) /\ BodyOf(body, m, d, p, ed)
  <2>1. RefsOK(r.refs, p) /\ Targets(r.refs) = MemberShown(d, m)
    BY <1>10, <1>16 DEF Unparsed, Failed, p
  <2> DEFINE b == body
  <2>2. b = [number |-> q.map[m], source |-> m, kind |-> MemberKind(d, m), refs |-> r.refs]
    OBVIOUS
  <2> HIDE DEF b
  <2>3. BodyOf(b, m, d, p, ed)
    BY <1>8, <1>12, <2>1, <2>2, BodyWritten
  <2> QED BY <2>1, <2>3 DEF b
<1>17. second = [obj |-> w.obj, pass |-> w.pass, sizes |-> w.sizes, bodies |-> Append(w.bodies, body)]
  <2>1. w = [obj |-> w.obj, pass |-> w.pass, sizes |-> w.sizes, bodies |-> w.bodies]
    BY <1>5 DEF Working
  <2> HIDE DEF body
  <2> QED BY <2>1
<1> HIDE DEF body, second, last, e
<1>18. CASE Failed(e)
  <2>1. Fail(e.error)
    BY <1>6, <1>18 DEF Failed
  <2>2. ~SoundPlan(doc.kind, plan, opt)
    BY <1>7, <1>13, <1>18
  <2> QED BY <2>1, <2>2, FailStep
<1>19. ASSUME ~Failed(e), w.pass = 2
       PROVE  /\ second.obj = w.obj /\ second.sizes = w.sizes
              /\ BodiesOf(second.bodies, w.obj, d, p, plan, ed)
              /\ Len(second.bodies) # Len(plan.members[w.obj]) => Working(second, d, p, plan, opt, ed)
  <2>1. BodyOf(body, m, d, p, ed)
    BY <1>15, <1>16, <1>19
  <2>2. m = plan.members[w.obj][1 + Len(w.bodies)]
    BY <1>19 DEF m
  <2>3. BodyOf(body, plan.members[w.obj][1 + Len(w.bodies)], d, p, ed)
    BY <2>1, <2>2
  <2> QED BY <1>7, <1>12, <1>14, <1>17, <1>19, <2>3, Collects
<1>20. ASSUME ~Failed(e), w.pass = 1
       PROVE  Working(Measured(w, 1 + Len(r.refs)), d, p, plan, opt, ed) /\ Measured(w, 1 + Len(r.refs)).obj = w.obj
  <2>1. RefsOK(r.refs, p) /\ Targets(r.refs) = MemberShown(d, m)
    BY <1>15, <1>16, <1>20
  <2>2. MemberShown(d, m) \in Seq(DOMAIN d.kind)
    BY <1>7, <1>8, MemberShownSeq
  <2>3. Len(r.refs) = Len(MemberShown(d, m)) /\ Len(r.refs) \in Nat
    BY <2>1, <2>2, RefsLength
  <2>4. m = plan.members[w.obj][1 + Len(w.sizes)]
    BY <1>20 DEF m
  <2> DEFINE size == 1 + Len(r.refs)
  <2>5. size \in Nat /\ size = 1 + Len(MemberShown(d, plan.members[w.obj][1 + Len(w.sizes)]))
    BY <2>3, <2>4
  <2> HIDE DEF size
  <2>6. Working(Measured(w, size), d, p, plan, opt, ed) /\ Measured(w, size).obj = w.obj
    BY <1>7, <1>12, <1>14, <1>20, <2>5, Measures
  <2> QED BY <2>6 DEF size
<1>21. w.pass = 1 \/ w.pass = 2
  BY <1>5 DEF Working
<1>22. Seeded(p, doc.kind, plan, opt)
  BY <1>3, <1>5, <1>12, SeededOn
<1>23. CASE ~Failed(e) /\ ~last
  <2> DEFINE v == IF w.pass = 1 THEN Measured(w, 1 + Len(r.refs)) ELSE second
  <2>1. /\ doc' = d /\ edits' = ed /\ queue' = p /\ work' = v
        /\ UNCHANGED <<out, layout>> /\ UNCHANGED <<phase, opt, plan>>
    BY <1>6, <1>23 DEF Failed
  <2>2. w.pass = 2 => Len(second.bodies) # Len(plan.members[w.obj])
    BY <1>23 DEF last
  <2>3. Working(v, d, p, plan, opt, ed) /\ v.obj = w.obj
    <3>1. CASE w.pass = 1
      BY <1>20, <1>23, <3>1
    <3>2. CASE w.pass = 2
      BY <1>19, <1>23, <2>2, <3>2
    <3> QED BY <1>21, <3>1, <3>2
  <2> HIDE DEF v
  <2>4. WorkOK(v, d, p, plan, opt, ed)
    BY <2>3, WorkingIs
  <2>5. Settled(p, v, plan) = Settled(p, w, plan)
    BY <2>3 DEF Settled
  <2>6. FileOK(out, layout, d, p, v, plan, opt, ed)
    <3>1. QueueOK(d.kind, p, plan, opt) /\ Keeps(p, p) /\ Follows(d, ed, d, ed)
      BY <1>7, <1>14, FollowsNot DEF Keeps
    <3>2. Onward(d, p, ed, d, p, ed, plan, opt)
      BY <1>7, <1>14, <3>1 DEF Onward
    <3> QED BY <1>12, <2>5, <3>2, FileMoves
  <2> QED BY <1>1, <1>3, <1>7, <1>14, <1>22, <2>1, <2>4, <2>6 DEF BodyOK
<1>24. CASE ~Failed(e) /\ last
  <2> DEFINE bodies == second.bodies
             x == e.queue
             refs == e.refs
             table == OffsetTable(second)
  <2>1. /\ doc' = d /\ edits' = ed /\ CloseContainer(e, second) /\ UNCHANGED <<phase, opt, plan>>
    BY <1>6, <1>24 DEF Failed
  <2>2. w.pass = 2 /\ Len(bodies) = Len(plan.members[w.obj]) /\ e = Extends(d, p, w.obj)
    BY <1>15, <1>24 DEF last
  <2>3. second.obj = w.obj /\ second.sizes = w.sizes /\ BodiesOf(bodies, w.obj, d, p, plan, ed)
    BY <1>19, <1>24, <2>2
  <2>4. QueueOK(d.kind, x, plan, opt) /\ Grows(p, x, plan) /\ RefsOK(refs, x)
    <3> DEFINE s == w.obj
    <3> HIDE DEF s
    <3>1. s \in DOMAIN plan.members /\ e = Extends(d, p, s)
      BY <1>9, <2>2 DEF s
    <3> QED BY <1>7, <1>14, <1>24, <3>1, ExtendsWritten
  <2>5. ~opt.qdf \/ ed = << >> => table = Starts(Sizes(bodies))
    <3>1. ASSUME ~opt.qdf \/ ed = << >> PROVE OffsetTable(second) = Starts(Sizes(second.bodies))
      BY <1>7, <1>12, <1>14, <2>2, <2>3, <3>1, ClosedItem
    <3> QED BY <3>1
  <2> DEFINE item == [number |-> x.map[w.obj], source |-> w.obj, kind |-> "objstm", refs |-> refs,
                      length |-> 0, members |-> bodies, table |-> table]
  <2>6. queue' = x /\ work' = Idle /\ out' = Append(out, item) /\ layout' = Placed(x.map[w.obj], bodies)
    <3> DEFINE n == x.map[second.obj]
               i2 == [Item(n, second.obj, "objstm", refs) EXCEPT !.members = bodies, !.table = table]
    <3>1. queue' = x /\ work' = Idle /\ out' = Append(out, i2) /\ layout' = Placed(n, bodies)
      BY <2>1 DEF CloseContainer
    <3>2. i2 = [number |-> n, source |-> second.obj, kind |-> "objstm", refs |-> refs, length |-> 0,
                members |-> bodies, table |-> table]
      <4> DEFINE so == second.obj
      <4> HIDE DEF n, refs, bodies, table, so
      <4> DEFINE base == Item(n, so, "objstm", refs)
      <4>1. base = [number |-> n, source |-> so, kind |-> "objstm", refs |-> refs, length |-> 0,
                    members |-> << >>, table |-> << >>]
        BY DEF Item
      <4> HIDE DEF base
      <4> DEFINE filled == [base EXCEPT !.members = bodies]
      <4>2. filled = [number |-> n, source |-> so, kind |-> "objstm", refs |-> refs, length |-> 0,
                      members |-> bodies, table |-> << >>]
        BY <4>1
      <4>3. i2 = [filled EXCEPT !.table = table]
        BY DEF base, so
      <4> HIDE DEF filled, i2
      <4>4. i2 = [number |-> n, source |-> so, kind |-> "objstm", refs |-> refs, length |-> 0,
                  members |-> bodies, table |-> table]
        BY <4>2, <4>3
      <4> QED BY <4>4 DEF so
    <3> HIDE DEF i2, bodies, table, refs, x
    <3> QED BY <2>3, <3>1, <3>2
  <2> HIDE DEF item, bodies, x, refs, table
  <2>7. item = [number |-> x.map[w.obj], source |-> w.obj, kind |-> "objstm", refs |-> refs,
                length |-> 0, members |-> bodies, table |-> table]
    BY DEF item
  <2>8. FileOK(Append(out, item), Placed(x.map[w.obj], bodies), d, x, Idle, plan, opt, ed)
    BY <1>7, <1>12, <1>14, <2>2, <2>3, <2>4, <2>5, <2>7, Closes
  <2>9. FileOK(out', layout', d, x, Idle, plan, opt, ed)
    BY <2>6, <2>8
  <2>10. out' # << >>
    <3>1. Len(out') >= 1
      BY <2>9 DEF FileOK
    <3> QED BY <3>1
  <2>11. Seeded(x, doc.kind, plan, opt)
    <3>1. Keeps(p, x)
      BY <2>4 DEF Grows
    <3> QED BY <1>22, <3>1, SeededOn
  <2>12. WorkOK(Idle, d, x, plan, opt, ed)
    BY DEF WorkOK
  <2> QED BY <1>1, <1>3, <1>7, <1>14, <2>1, <2>4, <2>6, <2>9, <2>10, <2>11, <2>12 DEF BodyOK
<1> QED BY SMTT(60), <1>18, <1>23, <1>24

-----------------------------------------------------------------------------
(* The finished file.                                                      *)

(* ReadAt, of the file and its rows.                                       *)
Reads(file, rows, n) ==
    IF rows[n].type = 1 THEN file[rows[n].at]
    ELSE file[rows[rows[n].at].at].members[rows[n].index + 1]

(* Reading a number that has a row of type 1.                              *)
LEMMA ReadDirect ==
    ASSUME NEW file, NEW l, NEW top, NEW d, NEW q, NEW P, NEW o, NEW ed, Final(file, l, top, d, q, P, o, ed),
           NEW n \in DOMAIN l.uncompressed
    PROVE  /\ n \in 1 .. top /\ Rows(l, top)[n].type = 1 /\ Rows(l, top)[n].at = l.uncompressed[n]
           /\ Reads(file, Rows(l, top), n) = file[l.uncompressed[n]]
<1>1. n \in 1 .. top
  BY DEF Final
<1>2. Rows(l, top)[n] = [type |-> 1, at |-> l.uncompressed[n], index |-> 0]
  BY <1>1 DEF Rows
<1> QED BY <1>1, <1>2 DEF Reads

(* Reading a number that has a row of type 2.                              *)
LEMMA ReadInside ==
    ASSUME NEW file, NEW l, NEW top, NEW d, NEW q, NEW P, NEW o, NEW ed, Final(file, l, top, d, q, P, o, ed),
           NEW n \in DOMAIN l.compressed, l.compressed[n].container \in DOMAIN l.uncompressed
    PROVE  /\ n \in 1 .. top /\ Rows(l, top)[n].type = 2
           /\ Reads(file, Rows(l, top), n)
                = file[l.uncompressed[l.compressed[n].container]].members[l.compressed[n].index + 1]
<1> DEFINE c == l.compressed[n].container
           k == l.compressed[n].index
           R == Rows(l, top)
<1>1. n \in 1 .. top /\ n \notin DOMAIN l.uncompressed
  BY DEF Final
<1>2. R[n] = [type |-> 2, at |-> c, index |-> k]
  BY <1>1 DEF Rows
<1>3. R[c].at = l.uncompressed[c]
  BY ReadDirect
<1> HIDE DEF c, k, R
<1>4. R[n].type = 2 /\ R[n].at = c /\ R[n].index = k
  BY <1>2
<1>5. Reads(file, R, n) = file[l.uncompressed[c]].members[k + 1]
  BY <1>3, <1>4 DEF Reads
<1> QED BY <1>1, <1>4, <1>5 DEF c, k, R

(* The number of an object that is no member, or of a length, leads to it. *)
LEMMA ReadOwner ==
    ASSUME NEW file, NEW l, NEW top, NEW d, NEW q, NEW P, NEW o, NEW ed, Final(file, l, top, d, q, P, o, ed),
           NEW s \in DOMAIN q.map \ DOMAIN P.home
    PROVE  /\ q.map[s] \in DOMAIN l.uncompressed
           /\ file[l.uncompressed[q.map[s]]].source = s
           /\ \/ PlainItem(file[l.uncompressed[q.map[s]]], s, d, q, P, ed)
              \/ ContainerItem(file[l.uncompressed[q.map[s]]], s, d, q, P, o, ed)
           /\ s \in DOMAIN q.holders =>
                 /\ q.holders[s] \in DOMAIN l.uncompressed
                 /\ file[l.uncompressed[q.holders[s]]].source = s
                 /\ HolderItem(file[l.uncompressed[q.holders[s]]], s, q)
<1> DEFINE u == l.uncompressed
<1>1. /\ Direct(u, q, Idle, P, file) /\ s \in Settled(q, Idle, P)
      /\ \A i \in 2 .. Len(file) : ItemOK(file[i], d, q, Idle, P, o, ed) \/ ExtraItem(file[i], q)
  BY DEF Final
<1>2. q.map[s] \in DOMAIN u /\ (s \in DOMAIN q.holders => q.holders[s] \in DOMAIN u)
  BY <1>1 DEF Direct
<1>3. Numbers(q) /\ q.next \in Nat /\ \A t \in DOMAIN q.map : q.map[t] \in Nat
  BY DEF Final, QueueOK, QueueCore, IsQueue, IsPartial
<1>4. \A t \in DOMAIN q.map : q.map[t] = q.map[s] => t = s
  BY <1>3 DEF Numbers
<1>5. \A t \in DOMAIN q.holders : t \in DOMAIN q.map /\ q.holders[t] = q.map[t] + 1
  BY <1>3 DEF Numbers
<1>6. \A t \in DOMAIN q.holders, x \in DOMAIN q.map : q.holders[t] # q.map[x]
  BY <1>3 DEF Numbers
<1>7. q.map[s] \in 0 .. q.next - 1 /\ (s \in DOMAIN q.holders => q.holders[s] \in 0 .. q.next - 1)
  <2>1. q.map[s] \in 1 .. q.next - 1 /\ (s \in DOMAIN q.holders => q.holders[s] < q.next)
    BY <1>3 DEF Numbers
  <2>2. s \in DOMAIN q.holders => q.holders[s] \in Nat
    BY <1>3, <1>5
  <2> QED BY <1>3, <2>1, <2>2
<1>8. \A t \in Settled(q, Idle, P) : t \in DOMAIN q.map
  BY DEF Settled
<1> HIDE DEF u
<1>9. ASSUME NEW n \in DOMAIN u, n \in 0 .. q.next - 1
      PROVE  file[u[n]].number = n /\ ItemOK(file[u[n]], d, q, Idle, P, o, ed)
  <2>1. u[n] \in 2 .. Len(file) /\ file[u[n]].number = n
    BY <1>1 DEF Direct
  <2>2. ~ExtraItem(file[u[n]], q)
    BY <1>9, <2>1 DEF ExtraItem
  <2> QED BY <1>1, <2>1, <2>2
<1>10. file[u[q.map[s]]].source = s
       /\ (PlainItem(file[u[q.map[s]]], s, d, q, P, ed) \/ ContainerItem(file[u[q.map[s]]], s, d, q, P, o, ed))
  <2> DEFINE item == file[u[q.map[s]]]
             t == item.source
  <2>1. item.number = q.map[s] /\ ItemOK(item, d, q, Idle, P, o, ed)
    BY <1>2, <1>7, <1>9
  <2> HIDE DEF item
  <2>2. t \in DOMAIN q.map
    BY <1>8, <2>1 DEF ItemOK
  <2>3. ~HolderItem(item, t, q)
    BY <1>6, <2>1 DEF HolderItem
  <2>4. PlainItem(item, t, d, q, P, ed) \/ ContainerItem(item, t, d, q, P, o, ed)
    BY <2>1, <2>3 DEF ItemOK
  <2>5. item.number = q.map[t]
    BY <2>4 DEF PlainItem, ContainerItem
  <2>6. t = s
    BY <1>4, <2>1, <2>2, <2>5
  <2> QED BY <2>4, <2>6 DEF item
<1>11. ASSUME s \in DOMAIN q.holders
       PROVE  file[u[q.holders[s]]].source = s /\ HolderItem(file[u[q.holders[s]]], s, q)
  <2> DEFINE item == file[u[q.holders[s]]]
             t == item.source
  <2>1. item.number = q.holders[s] /\ ItemOK(item, d, q, Idle, P, o, ed)
    BY <1>2, <1>7, <1>9, <1>11
  <2> HIDE DEF item
  <2>2. t \in DOMAIN q.map
    BY <1>8, <2>1 DEF ItemOK
  <2>3. HolderItem(item, t, q)
    BY <1>6, <1>11, <2>1, <2>2 DEF ItemOK, PlainItem, ContainerItem
  <2>4. q.holders[t] = q.holders[s] /\ t \in DOMAIN q.holders
    BY <2>1, <2>3 DEF HolderItem
  <2>5. q.map[t] = q.map[s]
    BY <1>3, <1>5, <1>11, <2>2, <2>4
  <2>6. t = s
    BY SMTT(60), <1>4, <2>2, <2>5
  <2> QED BY <2>3, <2>6 DEF item
<1> QED BY <1>2, <1>10, <1>11 DEF u

(* x is member m of its container in the file.                             *)
InContainer(x, file, l, q, P, m) ==
    \E k \in DOMAIN P.members[P.home[m]] :
        P.members[P.home[m]][k] = m /\ x = file[l.uncompressed[q.map[P.home[m]]]].members[k]

(* The number of a member leads to the member in its container.            *)
LEMMA ReadMember ==
    ASSUME NEW file, NEW l, NEW top, NEW d, NEW q, NEW P, NEW o, NEW ed, Final(file, l, top, d, q, P, o, ed),
           NEW m \in DOMAIN q.map \cap DOMAIN P.home
    PROVE  /\ q.map[m] \in DOMAIN l.compressed /\ Rows(l, top)[q.map[m]].type = 2
           /\ P.home[m] \in DOMAIN q.map \ DOMAIN P.home
           /\ InContainer(Reads(file, Rows(l, top), q.map[m]), file, l, q, P, m)
           /\ BodyOf(Reads(file, Rows(l, top), q.map[m]), m, d, q, ed)
<1> DEFINE c == P.home[m]
           n == q.map[m]
           k == l.compressed[n].index + 1
           item == file[l.uncompressed[q.map[c]]]
<1>1. c \in DOMAIN q.map \ DOMAIN P.home /\ c \in DOMAIN P.members
  BY SMTT(60) DEF Final, QueueOK, QueueCore, Membership, PlanOK
<1>2. c \in Settled(q, Idle, P) /\ Inside(l.compressed, q, Idle, P)
  BY <1>1 DEF Final
<1>3. /\ n \in DOMAIN l.compressed /\ l.compressed[n].container = q.map[c]
      /\ k \in DOMAIN P.members[c] /\ P.members[c][k] = m
  BY <1>2 DEF Inside
<1> HIDE DEF c
<1>4. q.map[c] \in DOMAIN l.uncompressed
      /\ (PlainItem(item, c, d, q, P, ed) \/ ContainerItem(item, c, d, q, P, o, ed))
  BY <1>1, ReadOwner
<1>5. Rows(l, top)[n].type = 2 /\ Reads(file, Rows(l, top), n) = item.members[k]
  <2> HIDE DEF n
  <2>1. l.compressed[n].container \in DOMAIN l.uncompressed
    BY SMTT(60), <1>3, <1>4
  <2>2. Rows(l, top)[n].type = 2
    BY SMTT(60), <1>3, <2>1, ReadInside
  <2>3. Reads(file, Rows(l, top), n)
          = file[l.uncompressed[l.compressed[n].container]].members[l.compressed[n].index + 1]
    BY <1>3, <2>1, ReadInside
  <2> QED BY <1>3, <2>2, <2>3
<1> HIDE DEF item
<1>6. ContainerItem(item, c, d, q, P, o, ed)
  BY <1>1, <1>4 DEF PlainItem
<1>7. BodiesOf(item.members, c, d, q, P, ed) /\ Len(item.members) = Len(P.members[c])
  BY <1>6 DEF ContainerItem
<1> HIDE DEF k, n
<1>8. k \in DOMAIN item.members
  <2>1. IsSeq(item.members)
    BY <1>7 DEF BodiesOf
  <2>2. IsSeq(P.members[c])
    <3>1. P.members[c] \in Seq(DOMAIN P.home)
      BY <1>1 DEF Final, PlanOK
    <3> QED BY <3>1, SeqIs
  <2> QED BY <1>3, <1>7, <2>1, <2>2, SeqFacts
<1>9. BodyOf(item.members[k], m, d, q, ed)
  BY <1>3, <1>7, <1>8 DEF BodiesOf
<1>10. BodyOf(Reads(file, Rows(l, top), n), m, d, q, ed)
  BY <1>5, <1>9
<1>11. InContainer(Reads(file, Rows(l, top), n), file, l, q, P, m)
  BY Zenon, <1>3, <1>5 DEF InContainer, c, item
<1> QED BY Zenon, <1>1, <1>3, <1>5, <1>10, <1>11 DEF c, n

(* Every object can be read under its number.                              *)
LEMMA ReadObject ==
    ASSUME NEW file, NEW l, NEW top, NEW d, NEW q, NEW P, NEW o, NEW ed, Final(file, l, top, d, q, P, o, ed),
           NEW s \in DOMAIN q.map, NEW x, x = Reads(file, Rows(l, top), q.map[s])
    PROVE  /\ q.map[s] \in 1 .. top /\ x.number = q.map[s] /\ x.source = s /\ x.kind # "length"
           /\ s \in DOMAIN P.home =>
                 /\ x.kind = MemberKind(d, s)
                 /\ s \notin Edited0(ed) => Targets(x.refs) = MemberShown(d, s)
           /\ s \notin DOMAIN P.home /\ s \in DOMAIN P.members => x.kind = "objstm"
           /\ s \notin DOMAIN P.home /\ s \notin DOMAIN P.members =>
                 /\ x.kind = d.kind[s]
                 /\ s \notin Edited0(ed) => Targets(x.refs) = Shown(d, s)
<1>1. d.kind[s] # "length"
  <2>1. s \in DOMAIN d.kind /\ d.kind \in Seq(Kinds)
    BY DEF Final, QueueOK, QueueCore, IsQueue, IsPartial, DocOK
  <2>2. d.kind[s] \in Kinds
    BY <2>1
  <2> QED BY <2>2 DEF Kinds, Streams
<1>2. CASE s \in DOMAIN P.home
  <2>1. q.map[s] \in DOMAIN l.compressed /\ BodyOf(x, s, d, q, ed)
    BY <1>2, ReadMember
  <2>2. q.map[s] \in 1 .. top
    BY <2>1 DEF Final
  <2>3. MemberKind(d, s) # "length"
    BY <1>1 DEF MemberKind
  <2> QED BY SMTT(60), <1>2, <2>1, <2>2, <2>3 DEF BodyOf
<1>3. CASE s \notin DOMAIN P.home
  <2> DEFINE item == file[l.uncompressed[q.map[s]]]
  <2>1. q.map[s] \in DOMAIN l.uncompressed /\ item.source = s
        /\ (PlainItem(item, s, d, q, P, ed) \/ ContainerItem(item, s, d, q, P, o, ed))
    BY <1>3, ReadOwner
  <2>2. q.map[s] \in 1 .. top /\ x = item
    BY <2>1, ReadDirect
  <2> HIDE DEF item
  <2>3. CASE PlainItem(x, s, d, q, P, ed)
    BY <1>1, <1>3, <2>1, <2>2, <2>3 DEF PlainItem
  <2>4. CASE ContainerItem(x, s, d, q, P, o, ed)
    BY <1>3, <2>1, <2>2, <2>4 DEF ContainerItem
  <2> QED BY <2>1, <2>2, <2>3, <2>4
<1> QED BY <1>2, <1>3

(* Every number leads to what has it.                                      *)
LEMMA ReadNumber ==
    ASSUME NEW file, NEW l, NEW top, NEW d, NEW q, NEW P, NEW o, NEW ed, Final(file, l, top, d, q, P, o, ed),
           NEW n \in 1 .. top
    PROVE  /\ Rows(l, top)[n].type # 0
           /\ Reads(file, Rows(l, top), n).number = n
           /\ \/ \E i \in DOMAIN file : Reads(file, Rows(l, top), n) = file[i]
              \/ \E i \in DOMAIN file : \E k \in DOMAIN file[i].members : Reads(file, Rows(l, top), n) = file[i].members[k]
<1>0. Len(file) \in Nat /\ DOMAIN file = 1 .. Len(file)
  BY SeqFacts DEF Final
<1>1. CASE n \in DOMAIN l.uncompressed
  <2>1. Rows(l, top)[n].type = 1 /\ Reads(file, Rows(l, top), n) = file[l.uncompressed[n]]
    BY <1>1, ReadDirect
  <2>2. l.uncompressed[n] \in 2 .. Len(file) /\ file[l.uncompressed[n]].number = n
    BY <1>1 DEF Final, Direct
  <2>3. l.uncompressed[n] \in DOMAIN file
    BY <1>0, <2>2
  <2> QED BY <2>1, <2>2, <2>3
<1>2. CASE n \in DOMAIN l.compressed
  <2>1. PICK m \in DOMAIN P.home \cap DOMAIN q.map : n = q.map[m]
    BY SMTT(60), <1>2 DEF Final, Inside
  <2> DEFINE c == P.home[m]
             i == l.uncompressed[q.map[c]]
             x == Reads(file, Rows(l, top), n)
  <2>2. /\ Rows(l, top)[n].type = 2 /\ c \in DOMAIN q.map \ DOMAIN P.home /\ BodyOf(x, m, d, q, ed)
        /\ \E k \in DOMAIN P.members[c] : x = file[i].members[k]
    <3> HIDE DEF c, i, x
    <3>0. m \in DOMAIN q.map \cap DOMAIN P.home
      BY SMTT(60)
    <3>1. Rows(l, top)[q.map[m]].type = 2 /\ P.home[m] \in DOMAIN q.map \ DOMAIN P.home
      BY SMTT(60), <3>0, ReadMember
    <3>2. InContainer(Reads(file, Rows(l, top), q.map[m]), file, l, q, P, m)
      BY <3>0, ReadMember
    <3>3. BodyOf(Reads(file, Rows(l, top), q.map[m]), m, d, q, ed)
      BY <3>0, ReadMember
    <3>4. x = Reads(file, Rows(l, top), q.map[m]) /\ i = l.uncompressed[q.map[P.home[m]]] /\ c = P.home[m]
      BY <2>1 DEF x, i, c
    <3>5. \E k \in DOMAIN P.members[c] : x = file[i].members[k]
      BY ZenonT(60), <3>2, <3>4 DEF InContainer
    <3> QED BY Zenon, <2>1, <3>1, <3>3, <3>4, <3>5
  <2> HIDE DEF c, x
  <2>3. PICK k \in DOMAIN P.members[c] : x = file[i].members[k]
    BY Zenon, <2>2
  <2>4. q.map[c] \in DOMAIN l.uncompressed
        /\ (PlainItem(file[i], c, d, q, P, ed) \/ ContainerItem(file[i], c, d, q, P, o, ed))
    BY Zenon, <2>2, ReadOwner
  <2>5. i \in DOMAIN file
    <3>1. i \in 2 .. Len(file)
      BY <2>4 DEF Final, Direct
    <3> HIDE DEF i
    <3> QED BY <1>0, <3>1
  <2> HIDE DEF i
  <2>6. c \in DOMAIN P.members
    BY <2>1 DEF Final, PlanOK, c
  <2>7. ContainerItem(file[i], c, d, q, P, o, ed)
    BY <2>4, <2>6 DEF PlainItem
  <2>8. IsSeq(file[i].members) /\ Len(file[i].members) = Len(P.members[c])
    BY <2>7 DEF ContainerItem, BodiesOf
  <2>9. IsSeq(P.members[c])
    <3>1. P.members[c] \in Seq(DOMAIN P.home)
      BY <2>6 DEF Final, PlanOK
    <3> QED BY <3>1, SeqIs
  <2>10. k \in DOMAIN file[i].members
    BY <2>8, <2>9, SeqFacts
  <2>11. x.number = n
    BY <2>1, <2>2 DEF BodyOf
  <2> QED BY SMTT(60), <2>2, <2>3, <2>5, <2>10, <2>11 DEF x
<1> QED BY <1>1, <1>2 DEF Final

(* The items that have members are containers.                             *)
LEMMA HasMembers ==
    ASSUME NEW file, NEW l, NEW top, NEW d, NEW q, NEW P, NEW o, NEW ed, Final(file, l, top, d, q, P, o, ed),
           NEW i \in DOMAIN file, NEW k \in DOMAIN file[i].members
    PROVE  /\ i \in 2 .. Len(file) /\ file[i].source \in DOMAIN q.map \ DOMAIN P.home
           /\ file[i].source \in DOMAIN P.members
           /\ ContainerItem(file[i], file[i].source, d, q, P, o, ed)
           /\ k \in DOMAIN P.members[file[i].source]
           /\ P.members[file[i].source][k] \in DOMAIN q.map \cap DOMAIN P.home
           /\ BodyOf(file[i].members[k], P.members[file[i].source][k], d, q, ed)
<1> DEFINE item == file[i]
           s == item.source
<1>0. Len(file) \in Nat /\ DOMAIN file = 1 .. Len(file)
  BY SeqFacts DEF Final
<1>1. i # 1
  <2>1. file[1].members = << >>
    BY DEF Final, Item
  <2> QED BY <2>1
<1>2. i \in 2 .. Len(file)
  BY <1>0, <1>1
<1>3. ItemOK(item, d, q, Idle, P, o, ed) \/ ExtraItem(item, q)
  BY <1>2 DEF Final
<1>4. item.members # << >> /\ k \in DOMAIN item.members
  OBVIOUS
<1> HIDE DEF item
<1>5. ~ExtraItem(item, q)
  BY <1>4 DEF ExtraItem, Item
<1>6. s \in Settled(q, Idle, P) /\ ContainerItem(item, s, d, q, P, o, ed)
  BY <1>3, <1>4, <1>5 DEF ItemOK, PlainItem, HolderItem
<1>7. s \in DOMAIN q.map \ DOMAIN P.home /\ s \in DOMAIN P.members
  BY <1>6 DEF Settled, ContainerItem
<1> HIDE DEF s
<1>8. IsSeq(item.members) /\ Len(item.members) = Len(P.members[s])
  BY <1>6 DEF ContainerItem, BodiesOf
<1>9. IsSeq(P.members[s])
  <2>1. P.members[s] \in Seq(DOMAIN P.home)
    BY <1>7 DEF Final, PlanOK
  <2> QED BY <2>1, SeqIs
<1>10. k \in DOMAIN P.members[s]
  BY <1>4, <1>8, <1>9, SeqFacts
<1>11. P.members[s][k] \in DOMAIN q.map \cap DOMAIN P.home
  <2>1. PlanOK(d.kind, P) /\ QueueOK(d.kind, q, P, o)
    BY DEF Final
  <2> QED BY <1>7, <1>10, <2>1, MembersNumbered
<1>12. BodyOf(item.members[k], P.members[s][k], d, q, ed)
  BY <1>4, <1>6 DEF ContainerItem, BodiesOf
<1> QED BY <1>2, <1>6, <1>7, <1>10, <1>11, <1>12 DEF s, item

(* A number stands in one place of the file.                               *)
LEMMA WrittenOnce ==
    ASSUME NEW file, NEW l, NEW top, NEW d, NEW q, NEW P, NEW o, NEW ed, Final(file, l, top, d, q, P, o, ed),
           NEW n \in 1 .. top, NEW i \in DOMAIN file
    PROVE  /\ file[i].number = n => file[i] = Reads(file, Rows(l, top), n)
           /\ \A k \in DOMAIN file[i].members :
                 file[i].members[k].number = n => file[i].members[k] = Reads(file, Rows(l, top), n)
<1>0. Len(file) \in Nat /\ DOMAIN file = 1 .. Len(file) /\ top \in Nat /\ n # 0
  BY SeqFacts DEF Final
<1>1. ASSUME file[i].number = n PROVE file[i] = Reads(file, Rows(l, top), n)
  <2>1. file[1].number = 0
    BY DEF Final, Item
  <2>2. i \in 2 .. Len(file)
    BY <1>0, <1>1, <2>1
  <2>3. n \in DOMAIN l.uncompressed /\ l.uncompressed[n] = i
    BY <1>1, <2>2 DEF Final, Direct
  <2> QED BY <2>3, ReadDirect
<1>2. ASSUME NEW k \in DOMAIN file[i].members, file[i].members[k].number = n
      PROVE  file[i].members[k] = Reads(file, Rows(l, top), n)
  <2> DEFINE s == file[i].source
             m == P.members[s][k]
  <2>1. /\ i \in 2 .. Len(file) /\ s \in DOMAIN q.map \ DOMAIN P.home /\ s \in DOMAIN P.members
        /\ ContainerItem(file[i], s, d, q, P, o, ed) /\ k \in DOMAIN P.members[s]
        /\ m \in DOMAIN q.map \cap DOMAIN P.home /\ BodyOf(file[i].members[k], m, d, q, ed)
    BY HasMembers
  <2> HIDE DEF s
  <2>2. n = q.map[m] /\ P.home[m] = s
    BY <1>2, <2>1 DEF BodyOf, Final, PlanOK
  <2>3. file[i].number = q.map[s]
    BY <2>1 DEF ContainerItem
  <2>4. l.uncompressed[q.map[s]] = i
    BY SMTT(60), <2>1, <2>3 DEF Final, Direct
  <2> HIDE DEF m
  <2>5. PICK j \in DOMAIN P.members[P.home[m]] :
              /\ P.members[P.home[m]][j] = m
              /\ Reads(file, Rows(l, top), q.map[m]) = file[l.uncompressed[q.map[P.home[m]]]].members[j]
    <3>1. m \in DOMAIN q.map \cap DOMAIN P.home
      BY SMTT(60), <2>1
    <3>2. InContainer(Reads(file, Rows(l, top), q.map[m]), file, l, q, P, m)
      BY <3>1, ReadMember
    <3> QED BY Zenon, <3>2 DEF InContainer
  <2>6. j \in DOMAIN P.members[s] /\ P.members[s][j] = P.members[s][k]
    BY <2>2, <2>5 DEF m
  <2>7. j = k
    BY <2>1, <2>6 DEF Final, PlanOK
  <2> QED BY <2>2, <2>4, <2>5, <2>7
<1> QED BY <1>1, <1>2

(* The references and the length of what is in the file.                   *)
LEMMA ItemRefs ==
    ASSUME NEW file, NEW l, NEW top, NEW d, NEW q, NEW P, NEW o, NEW ed, Final(file, l, top, d, q, P, o, ed),
           NEW i \in DOMAIN file
    PROVE  /\ \A j \in DOMAIN file[i].refs : RefOK(file[i].refs[j], q)
           /\ \A k \in DOMAIN file[i].members : \A j \in DOMAIN file[i].members[k].refs : RefOK(file[i].members[k].refs[j], q)
           /\ file[i].length # 0 =>
                 /\ file[i].source \in DOMAIN q.holders /\ file[i].length = q.holders[file[i].source]
           /\ ~o.qdf \/ ed = << >> => file[i].table = Starts(Sizes(file[i].members))
<1> DEFINE item == file[i]
<1>0. Len(file) \in Nat /\ DOMAIN file = 1 .. Len(file)
  BY SeqFacts DEF Final
<1>1. ASSUME NEW k \in DOMAIN file[i].members, NEW j \in DOMAIN file[i].members[k].refs
      PROVE  RefOK(file[i].members[k].refs[j], q)
  <2> DEFINE m == P.members[file[i].source][k]
             b == file[i].members[k]
  <2>1. BodyOf(b, m, d, q, ed)
    BY HasMembers
  <2>2. j \in DOMAIN b.refs
    OBVIOUS
  <2> HIDE DEF b, m
  <2>3. RefOK(b.refs[j], q)
    BY <2>1, <2>2 DEF BodyOf, RefsOK
  <2> QED BY <2>3 DEF b
<1>2. CASE item = Item(item.number, 0, item.kind, << >>)
  <2> HIDE DEF item
  <2>1. item.refs = << >> /\ item.members = << >> /\ item.length = 0 /\ item.table = << >>
    BY <1>2 DEF Item
  <2>2. Starts(Sizes(<< >>)) = << >>
    <3>1. Sizes(<< >>) = << >>
      BY DEF Sizes
    <3> QED BY <3>1 DEF Starts
  <2> QED BY <1>1, <2>1, <2>2 DEF item
<1>3. CASE ItemOK(item, d, q, Idle, P, o, ed)
  <2> DEFINE s == item.source
  <2>1. \A j \in DOMAIN item.refs : RefOK(item.refs[j], q)
    BY <1>3 DEF ItemOK, PlainItem, HolderItem, ContainerItem, RefsOK
  <2>2. item.length # 0 => s \in DOMAIN q.holders /\ item.length = q.holders[s]
    BY <1>3 DEF ItemOK, PlainItem, HolderItem, ContainerItem
  <2>3. ~o.qdf \/ ed = << >> => item.table = Starts(Sizes(item.members))
    <3>1. CASE ContainerItem(item, s, d, q, P, o, ed)
      BY <3>1 DEF ContainerItem
    <3>2. CASE item.members = << >> /\ item.table = << >>
      <4>1. Sizes(<< >>) = << >>
        BY DEF Sizes
      <4> QED BY <3>2, <4>1 DEF Starts
    <3> QED BY <1>3, <3>1, <3>2 DEF ItemOK, PlainItem, HolderItem
  <2> QED BY <1>1, <2>1, <2>2, <2>3
<1>4. i = 1 \/ i \in 2 .. Len(file)
  BY <1>0
<1>5. i = 1 => item = Item(item.number, 0, item.kind, << >>)
  BY DEF Final, Item
<1>6. i \in 2 .. Len(file) => ItemOK(item, d, q, Idle, P, o, ed) \/ item = Item(item.number, 0, item.kind, << >>)
  BY DEF Final, ExtraItem
<1> QED BY <1>2, <1>3, <1>4, <1>5, <1>6

-----------------------------------------------------------------------------
(* The references of the trailer that the body never met.                  *)

LateOK(acc, q, S, first) ==
    /\ acc = [map |-> acc.map, next |-> acc.next] /\ IsPartial(acc.map, S)
    /\ acc.next \in Nat /\ acc.next >= first
    /\ \A s \in DOMAIN q.map : s \in DOMAIN acc.map /\ acc.map[s] = q.map[s]
    /\ \A s \in DOMAIN acc.map \ DOMAIN q.map : acc.map[s] = 0 \/ acc.map[s] >= first
LateSet(q, S, first) == {acc \in [map : Partial(S), next : Nat] : LateOK(acc, q, S, first)}

(* The set of states of the late numbering.                                *)
LEMMA LateSetIs ==
    ASSUME NEW acc, NEW q, NEW S, NEW first
    PROVE  acc \in LateSet(q, S, first) <=> LateOK(acc, q, S, first)
<1>1. ASSUME LateOK(acc, q, S, first) PROVE acc \in [map : Partial(S), next : Nat]
  <2>1. acc.map \in Partial(S) /\ acc.next \in Nat
    BY <1>1, PartialIs DEF LateOK
  <2>2. acc = [map |-> acc.map, next |-> acc.next]
    BY <1>1 DEF LateOK
  <2> QED BY <2>1, <2>2
<1> QED BY <1>1 DEF LateSet

(* One more late reference.                                                *)
LEMMA LateStep ==
    ASSUME NEW S, NEW first \in Nat, NEW acc, LateOK(acc, queue, S, first), NEW s \in S
    PROVE  /\ LateOK(Late(acc, s), queue, S, first) /\ s \in DOMAIN Late(acc, s).map
           /\ DOMAIN acc.map \subseteq DOMAIN Late(acc, s).map
<1> DEFINE r == Late(acc, s)
<1>1. CASE s \in DOMAIN acc.map
  <2>1. r = acc
    BY <1>1 DEF Late
  <2> HIDE DEF r
  <2> QED BY <1>1, <2>1 DEF r
<1>2. ASSUME NEW v \in Nat, v = 0 \/ v >= first, NEW n \in Nat, n >= first, s \notin DOMAIN acc.map,
             NEW x, x = [map |-> Put(acc.map, s, v), next |-> n]
      PROVE  LateOK(x, queue, S, first) /\ s \in DOMAIN x.map /\ DOMAIN acc.map \subseteq DOMAIN x.map
  <2>1. x.map = Put(acc.map, s, v) /\ x.next = n /\ x = [map |-> x.map, next |-> x.next]
    BY <1>2
  <2> DEFINE f == Put(acc.map, s, v)
  <2>2. DOMAIN f = DOMAIN acc.map \cup {s} /\ f[s] = v /\ \A t \in DOMAIN acc.map : f[t] = acc.map[t]
    BY <1>2 DEF Put
  <2>3. IsPartial(f, S)
    BY <1>2, PutPartial DEF LateOK
  <2> HIDE DEF f
  <2>4. x.map = f
    BY <2>1 DEF f
  <2> QED BY <1>2, <2>1, <2>2, <2>3, <2>4 DEF LateOK
<1>3. acc.next \in Nat /\ acc.next >= first
  BY DEF LateOK
<1>4. CASE s \notin DOMAIN acc.map /\ IgnoredByQdf(doc, s)
  <2>1. r = [acc EXCEPT !.map = Put(@, s, 0)]
    BY <1>4 DEF Late
  <2>2. acc = [map |-> acc.map, next |-> acc.next]
    BY DEF LateOK
  <2> HIDE DEF r
  <2>3. r = [map |-> Put(acc.map, s, 0), next |-> acc.next]
    BY <2>1, <2>2
  <2>4. LateOK(r, queue, S, first) /\ s \in DOMAIN r.map /\ DOMAIN acc.map \subseteq DOMAIN r.map
    BY <1>2, <1>3, <1>4, <2>3
  <2> QED BY <2>4 DEF r
<1>5. CASE s \notin DOMAIN acc.map /\ ~IgnoredByQdf(doc, s)
  <2> DEFINE n == acc.next + IF HasHolder(doc, s) THEN 2 ELSE 1
  <2>1. r = [map |-> Put(acc.map, s, acc.next), next |-> n]
    BY <1>5 DEF Late
  <2>2. n \in Nat /\ n >= first
    BY <1>3
  <2> HIDE DEF r, n
  <2>3. LateOK(r, queue, S, first) /\ s \in DOMAIN r.map /\ DOMAIN acc.map \subseteq DOMAIN r.map
    BY <1>2, <1>3, <1>5, <2>1, <2>2
  <2> QED BY <2>3 DEF r
<1> QED BY <1>1, <1>4, <1>5

(* The late numbering starts from the numbers of the queue.                *)
LEMMA LateStart ==
    ASSUME NEW S, NEW first \in Nat, IsQueue(queue, S), NEW acc,
           acc = [map |-> Over(queue.map, [s \in queue.ignored |-> 0]), next |-> first]
    PROVE  LateOK(acc, queue, S, first)
<1> DEFINE z == [s \in queue.ignored |-> 0]
           f == Over(queue.map, z)
<1>1. IsPartial(z, S) /\ IsPartial(queue.map, S)
  BY DEF IsPartial, IsQueue
<1>2. IsPartial(f, S)
  BY <1>1, OverPartial
<1>3. /\ DOMAIN f = queue.ignored \cup DOMAIN queue.map
      /\ \A s \in DOMAIN queue.map : f[s] = queue.map[s]
      /\ \A s \in DOMAIN f \ DOMAIN queue.map : f[s] = 0
  BY DEF Over
<1>4. acc.map = f /\ acc.next = first /\ acc = [map |-> acc.map, next |-> acc.next]
  OBVIOUS
<1> HIDE DEF f
<1> QED BY <1>2, <1>3, <1>4 DEF LateOK

(* LateReferences keeps every number and gives fresh ones from first on.   *)
LEMMA LateNumbers ==
    ASSUME DocOK(doc), IsQueue(queue, DOMAIN doc.kind), NEW first \in Nat
    PROVE  /\ \E next : LateOK([map |-> LateReferences(first), next |-> next], queue, DOMAIN doc.kind, first)
           /\ \A i \in DOMAIN WithoutNulls(doc, doc.before \o doc.after) :
                 WithoutNulls(doc, doc.before \o doc.after)[i] \in DOMAIN LateReferences(first)
<1> DEFINE K == DOMAIN doc.kind
           refs == WithoutNulls(doc, doc.before \o doc.after)
           n == Len(refs)
           V == LateSet(queue, K, first)
           base == [map |-> Over(queue.map, [s \in queue.ignored |-> 0]), next |-> first]
           step == [i \in 1 .. n |-> [v \in V |-> Late(v, refs[i])]]
           c == CHOOSE f : f = [i \in 0 .. n |->
                    IF i = 0 THEN base ELSE Once(LAMBDA acc : Late(acc, refs[i]), f[i - 1])]
<1>0. refs \in Seq(K)
  <2>1. doc.before \o doc.after \in Seq(K)
    <3>1. doc.before \in Seq(K) /\ doc.after \in Seq(K)
      BY DEF DocOK
    <3> DEFINE y == doc.before
               z == doc.after
    <3> HIDE DEF y, z, K
    <3>2. y \in Seq(K) /\ z \in Seq(K) => y \o z \in Seq(K)
      OBVIOUS
    <3> QED BY <3>1, <3>2 DEF y, z
  <2> QED BY <2>1, Filtered
<1>2. LateReferences(first) = c[n].map
  BY DEF LateReferences
<1> HIDE DEF refs
<1>1. n \in Nat /\ \A i \in 1 .. n : refs[i] \in K
  BY <1>0
<1>3. ASSUME NEW i \in 1 .. n, NEW v \in V
      PROVE  Late(v, refs[i]) \in V /\ refs[i] \in DOMAIN Late(v, refs[i]).map /\ DOMAIN v.map \subseteq DOMAIN Late(v, refs[i]).map
  <2>1. LateOK(v, queue, K, first) /\ refs[i] \in K
    BY <1>1, LateSetIs
  <2> HIDE DEF K
  <2>2. LateOK(Late(v, refs[i]), queue, K, first) /\ refs[i] \in DOMAIN Late(v, refs[i]).map
        /\ DOMAIN v.map \subseteq DOMAIN Late(v, refs[i]).map
    BY <2>1, LateStep
  <2> QED BY <2>2, LateSetIs
<1>4. \A x : \A i \in 1 .. n : Once(LAMBDA acc : Late(acc, refs[i]), x) = Late(x, refs[i])
  BY DEF Once
<1>5. step \in [1 .. n -> [V -> V]] /\ \A i \in 1 .. n : \A v \in V : step[i][v] = Late(v, refs[i])
  BY <1>3
<1>6. base \in V
  <2> HIDE DEF K
  <2>1. IsQueue(queue, K)
    BY DEF K
  <2> DEFINE b == base
  <2>2. b = [map |-> Over(queue.map, [s \in queue.ignored |-> 0]), next |-> first]
    OBVIOUS
  <2> HIDE DEF b
  <2>3. LateOK(b, queue, K, first)
    BY <2>1, <2>2, LateStart
  <2>4. b \in V
    BY <2>3, LateSetIs
  <2> QED BY <2>4 DEF b
<1> HIDE DEF step, n, V, base
<1>7. PICK f : f \in [0 .. n -> V] /\ f[0] = base /\ \A i \in 1 .. n : f[i] = step[i][f[i - 1]]
  <2>1. \E f : Recursion(f, n, V, base, step)
    BY <1>1, <1>5, <1>6, RecursionExists
  <2> QED BY <2>1 DEF Recursion
<1>8. f = [i \in 0 .. n |-> IF i = 0 THEN base ELSE Once(LAMBDA acc : Late(acc, refs[i]), f[i - 1])]
  <2>1. ASSUME NEW i \in 0 .. n, i # 0
        PROVE  f[i] = Once(LAMBDA acc : Late(acc, refs[i]), f[i - 1])
    <3>1. i \in 1 .. n /\ i - 1 \in 0 .. n
      BY <1>1, <2>1
    <3>2. f[i] = Late(f[i - 1], refs[i])
      BY <1>5, <1>7, <3>1
    <3> QED BY <1>4, <3>1, <3>2
  <2> QED BY <1>7, <2>1
<1>9. c = [i \in 0 .. n |-> IF i = 0 THEN base ELSE Once(LAMBDA acc : Late(acc, refs[i]), c[i - 1])]
  BY <1>8
<1> HIDE DEF c
<1>10. c[0] = base /\ \A i \in 1 .. n : c[i] = Late(c[i - 1], refs[i])
  <2>1. ASSUME NEW i \in 1 .. n PROVE c[i] = Late(c[i - 1], refs[i])
    <3>1. i \in 0 .. n /\ i # 0
      BY <1>1
    <3>2. c[i] = Once(LAMBDA acc : Late(acc, refs[i]), c[i - 1])
      BY <1>9, <3>1
    <3> QED BY <1>4, <3>2
  <2>2. 0 \in 0 .. n
    BY <1>1
  <2>3. c[0] = base
    BY <1>9, <2>2
  <2> QED BY <2>1, <2>3
<1> DEFINE S == {i \in Nat : i <= n => c[i] \in V /\ \A j \in 1 .. i : refs[j] \in DOMAIN c[i].map}
<1>11. 0 \in S
  BY <1>6, <1>10
<1>12. ASSUME NEW i \in Nat, i \in S PROVE i + 1 \in S
  <2> SUFFICES ASSUME i + 1 <= n PROVE c[i + 1] \in V /\ \A j \in 1 .. i + 1 : refs[j] \in DOMAIN c[i + 1].map
    OBVIOUS
  <2> DEFINE u == c[i]
             v == c[i + 1]
  <2>1. i + 1 \in 1 .. n /\ (i + 1) - 1 = i /\ u \in V /\ \A j \in 1 .. i : refs[j] \in DOMAIN u.map
    BY <1>1, <1>12
  <2>2. v = Late(u, refs[i + 1])
    BY <1>10, <2>1
  <2> HIDE DEF u, v
  <2>3. v \in V /\ refs[i + 1] \in DOMAIN v.map /\ DOMAIN u.map \subseteq DOMAIN v.map
    BY <1>3, <2>1, <2>2
  <2>4. \A j \in 1 .. i + 1 : j = i + 1 \/ j \in 1 .. i
    OBVIOUS
  <2>5. \A j \in 1 .. i + 1 : refs[j] \in DOMAIN v.map
    BY <2>1, <2>3, <2>4
  <2> QED BY <2>3, <2>5 DEF v
<1>13. n \in S
  <2> HIDE DEF S
  <2> QED BY <1>1, <1>11, <1>12, SetInduction
<1>14. c[n] \in V /\ \A j \in 1 .. n : refs[j] \in DOMAIN c[n].map
  BY <1>1, <1>13
<1> DEFINE x == c[n]
<1> HIDE DEF x
<1>15. LateOK(x, queue, K, first)
  BY <1>14, LateSetIs DEF V, x
<1>16. x = [map |-> LateReferences(first), next |-> x.next]
  BY <1>2, <1>15 DEF LateOK, x
<1>17. DOMAIN refs = 1 .. n
  BY <1>0 DEF n
<1>18. \A j \in DOMAIN refs : refs[j] \in DOMAIN LateReferences(first)
  BY <1>2, <1>14, <1>17
<1>19. \E next : LateOK([map |-> LateReferences(first), next |-> next], queue, K, first)
  BY <1>15, <1>16
<1> QED BY <1>18, <1>19 DEF refs

-----------------------------------------------------------------------------
(* The end of the body.                                                    *)

(* The queue is empty: every number has its place.                         *)
LEMMA BodyFinal ==
    ASSUME NEW file, NEW l, NEW d, DocOK(d), NEW q, NEW P, PlanOK(d.kind, P), NEW o, NEW ed, QueueOK(d.kind, q, P, o),
           FileOK(file, l, d, q, Idle, P, o, ed), q.pending = << >>
    PROVE  Final(file, l, q.next - 1, d, q, P, o, ed)
<1> DEFINE u == l.uncompressed
           c == l.compressed
           top == q.next - 1
<1>1. Numbers(q) /\ Membership(d.kind, q, P, o) /\ q.next \in Nat /\ q.next >= 1 /\ \A s \in DOMAIN q.map : q.map[s] \in Nat
  BY DEF QueueOK, QueueCore, IsQueue, IsPartial, Numbers
<1>2. Settled(q, Idle, P) = DOMAIN q.map \ DOMAIN P.home
  <2>1. 0 \notin DOMAIN q.map
    BY DEF QueueOK, QueueCore, IsQueue, IsPartial, DocOK
  <2>2. Waiting(q) = {}
    BY DEF Waiting
  <2> QED BY <2>1, <2>2 DEF Settled, Idle
<1>3. Direct(u, q, Idle, P, file) /\ Inside(c, q, Idle, P)
  BY DEF FileOK
<1>4. ASSUME NEW n \in 1 .. top PROVE n \in DOMAIN u \cup DOMAIN c
  <2>1. CASE \E s \in DOMAIN q.map : q.map[s] = n
    <3>1. PICK s \in DOMAIN q.map : q.map[s] = n
      BY SMTT(60), <2>1
    <3>2. CASE s \in DOMAIN P.home
      <4>1. P.home[s] \in Settled(q, Idle, P)
        BY <1>1, <1>2, <3>2 DEF Membership
      <4> QED BY <1>3, <3>1, <3>2, <4>1 DEF Inside
    <3>3. CASE s \notin DOMAIN P.home
      BY <1>2, <1>3, <3>1, <3>3 DEF Direct
    <3> QED BY <3>2, <3>3
  <2>2. CASE \E s \in DOMAIN q.holders : q.holders[s] = n
    <3>1. PICK s \in DOMAIN q.holders : q.holders[s] = n
      BY <2>2
    <3>2. s \in DOMAIN q.map \ DOMAIN P.home
      BY <1>1 DEF Membership
    <3> QED BY <1>2, <1>3, <3>1, <3>2 DEF Direct
  <2> QED BY <1>1, <2>1, <2>2 DEF Numbers
<1>5. ASSUME NEW n \in DOMAIN u
      PROVE  \E t \in DOMAIN q.map \ DOMAIN P.home : n = q.map[t] \/ (t \in DOMAIN q.holders /\ n = q.holders[t])
  <2>1. \E t \in Settled(q, Idle, P) : n = q.map[t] \/ (t \in DOMAIN q.holders /\ n = q.holders[t])
    <3> DEFINE w == Idle
    <3>1. FileOK(file, l, d, q, w, P, o, ed)
      OBVIOUS
    <3> HIDE DEF w
    <3>2. \E t \in Settled(q, w, P) : n = q.map[t] \/ (t \in DOMAIN q.holders /\ n = q.holders[t])
      BY <3>1, OldNumbers
    <3> QED BY <3>2 DEF w
  <2> QED BY <1>2, <2>1
<1>6. ASSUME NEW n \in DOMAIN u PROVE n \in 1 .. top
  <2>1. PICK t \in DOMAIN q.map \ DOMAIN P.home : n = q.map[t] \/ (t \in DOMAIN q.holders /\ n = q.holders[t])
    BY <1>5
  <2>2. q.map[t] \in 1 .. top /\ (t \in DOMAIN q.holders => q.holders[t] = q.map[t] + 1 /\ q.holders[t] < q.next)
    BY <1>1 DEF Numbers
  <2> QED BY <1>1, <2>1, <2>2
<1>7. ASSUME NEW n \in DOMAIN c PROVE n \in 1 .. top /\ n \notin DOMAIN u
  <2>1. PICK m \in DOMAIN P.home \cap DOMAIN q.map : n = q.map[m]
    BY <1>3 DEF Inside
  <2>2. n \in 1 .. top
    BY <1>1, <2>1 DEF Numbers
  <2>3. ASSUME n \in DOMAIN u PROVE FALSE
    <3>1. PICK t \in DOMAIN q.map \ DOMAIN P.home : n = q.map[t] \/ (t \in DOMAIN q.holders /\ n = q.holders[t])
      BY <1>5, <2>3
    <3>2. n # q.map[t]
      BY <1>1, <2>1 DEF Numbers
    <3>3. t \in DOMAIN q.holders => n # q.holders[t]
      BY <1>1, <2>1 DEF Numbers
    <3> QED BY <3>1, <3>2, <3>3
  <2> QED BY SMTT(60), <2>2, <2>3
<1> HIDE DEF u, c
<1>8. DOMAIN u \cup DOMAIN c = 1 .. top /\ DOMAIN u \cap DOMAIN c = {}
  <2> HIDE DEF top
  <2> QED BY <1>4, <1>6, <1>7
<1>9. top \in Nat /\ q.next - 1 <= top
  BY <1>1
<1>10. /\ IsSeq(file) /\ Len(file) >= 1 /\ file[1] = Item(0, 0, "header", << >>)
       /\ \A i \in 2 .. Len(file) : ItemOK(file[i], d, q, Idle, P, o, ed)
  BY DEF FileOK
<1> QED BY <1>2, <1>3, <1>8, <1>9, <1>10 DEF Final, u, c

(* A file with one more item.                                              *)
LEMMA OneLonger ==
    ASSUME NEW file, IsSeq(file), NEW item
    PROVE  /\ Longer(file, file \o <<item>>) /\ Len(file \o <<item>>) = Len(file) + 1
           /\ (file \o <<item>>)[Len(file) + 1] = item
<1>1. <<item>> \in Seq({item}) /\ Len(<<item>>) = 1 /\ <<item>>[1] = item
  OBVIOUS
<1> DEFINE items == <<item>>
<1> HIDE DEF items
<1>2. IsSeq(items) /\ Len(items) = 1 /\ items[1] = item
  BY <1>1, SeqIs DEF items
<1>3. /\ Longer(file, file \o items) /\ Len(file \o items) = Len(file) + Len(items)
      /\ \A i \in 1 .. Len(items) : (file \o items)[Len(file) + i] = items[i]
  BY ZenonT(60), <1>2, FileLonger
<1>4. 1 \in 1 .. Len(items)
  BY <1>2
<1> QED BY <1>2, <1>3, <1>4 DEF items

(* /Encrypt, or the cross-reference stream, under the next number.         *)
LEMMA FinalGrows ==
    ASSUME NEW file, NEW l, NEW top, NEW d, NEW q, NEW P, NEW o, NEW ed, Final(file, l, top, d, q, P, o, ed),
           NEW kind \in {"encrypt", "xrefstm"}, NEW item, item = Item(top + 1, 0, kind, << >>),
           NEW l2, l2.uncompressed = Put(l.uncompressed, top + 1, Len(file) + 1), l2.compressed = l.compressed
    PROVE  Final(file \o <<item>>, l2, top + 1, d, q, P, o, ed)
<1> DEFINE f == file \o <<item>>
           u == l.uncompressed
           u2 == l2.uncompressed
<1>1. IsSeq(file) /\ Len(file) \in Nat /\ Len(file) >= 1 /\ top \in Nat /\ q.next - 1 <= top /\ q.next \in Nat
  BY SeqFacts DEF Final, QueueOK, QueueCore, IsQueue
<1>2. /\ Longer(file, f) /\ Len(f) = Len(file) + 1 /\ f[Len(file) + 1] = item
  BY <1>1, OneLonger
<1> HIDE DEF f
<1>3. item.number = top + 1 /\ ExtraItem(item, q)
  <2>1. item.number = top + 1 /\ item.kind = kind
    BY DEF Item
  <2>2. top + 1 \notin 0 .. q.next - 1
    BY <1>1
  <2> QED BY <2>1, <2>2 DEF ExtraItem
<1>4. top + 1 \notin DOMAIN u /\ DOMAIN u2 = DOMAIN u \cup {top + 1} /\ u2[top + 1] = Len(file) + 1
      /\ \A n \in DOMAIN u : u2[n] = u[n]
  <2>1. DOMAIN u \subseteq 1 .. top
    BY DEF Final
  <2>2. top + 1 \notin DOMAIN u
    BY <1>1, <2>1
  <2> QED BY <2>2 DEF Put
<1> HIDE DEF u2, u
<1>5. NewAt(file, f) = {Len(file) + 1}
  BY <1>1, <1>2 DEF NewAt
<1>6. NewRows(u, u2, file, f)
  BY <1>2, <1>3, <1>4, <1>5 DEF NewRows
<1>7. Direct(u2, q, Idle, P, f)
  <2>1. Direct(u, q, Idle, P, file)
    BY DEF Final, u
  <2>2. Longer(file, f)
    BY <1>2
  <2> DEFINE w == Idle
  <2> HIDE DEF w
  <2>3. Direct(u, q, w, P, file)
    BY <2>1 DEF w
  <2>4. Direct(u2, q, w, P, f)
    BY <1>1, <1>6, <2>2, <2>3, RowsGrow
  <2> QED BY <2>4 DEF w
<1>8. ASSUME NEW i \in 2 .. Len(f) PROVE ItemOK(f[i], d, q, Idle, P, o, ed) \/ ExtraItem(f[i], q)
  <2>1. CASE i = Len(file) + 1
    BY <1>2, <1>3, <2>1
  <2>2. CASE i # Len(file) + 1
    <3>1. i \in 2 .. Len(file) /\ i \in 1 .. Len(file)
      BY <1>1, <1>2, <2>2
    <3>2. f[i] = file[i]
      BY <1>2, <3>1 DEF Longer
    <3> QED BY <3>1, <3>2 DEF Final
  <2> QED BY <2>1, <2>2
<1>9. IsSeq(f) /\ Len(f) >= 1 /\ f[1] = Item(0, 0, "header", << >>)
  <2>1. 1 \in 1 .. Len(file)
    BY <1>1
  <2>2. IsSeq(f) /\ f[1] = file[1]
    BY <1>2, <2>1 DEF Longer
  <2> QED BY <1>1, <1>2, <2>2 DEF Final
<1> DEFINE c == l.compressed
<1>10. DOMAIN u2 \cup DOMAIN c = 1 .. top + 1 /\ DOMAIN u2 \cap DOMAIN c = {}
  <2>1. DOMAIN u \cup DOMAIN c = 1 .. top /\ DOMAIN u \cap DOMAIN c = {}
    BY DEF Final, u
  <2> HIDE DEF c
  <2>2. 1 .. top + 1 = 1 .. top \cup {top + 1} /\ top + 1 \notin 1 .. top
    BY <1>1
  <2> QED BY <1>4, <2>1, <2>2
<1>11. top + 1 \in Nat /\ q.next - 1 <= top + 1
  BY <1>1
<1> QED BY <1>7, <1>8, <1>9, <1>10, <1>11 DEF Final, u2, f

(* The highest number that has a row.                                      *)
LEMMA LastNumber ==
    ASSUME NEW file, NEW l, NEW top, NEW d, NEW q, NEW P, NEW o, NEW ed, Final(file, l, top, d, q, P, o, ed)
    PROVE  MaxNumber(l) = top
<1> DEFINE N == {0} \cup DOMAIN l.uncompressed \cup DOMAIN l.compressed
<1>1. top \in Nat /\ DOMAIN l.uncompressed \cup DOMAIN l.compressed = 1 .. top
  BY DEF Final
<1>2. N = 0 .. top
  <2> DEFINE U == DOMAIN l.uncompressed
             C == DOMAIN l.compressed
  <2> HIDE DEF U, C
  <2>1. U \cup C = 1 .. top /\ N = {0} \cup (U \cup C)
    BY <1>1 DEF U, C
  <2>2. 0 .. top = {0} \cup 1 .. top
    BY <1>1
  <2> HIDE DEF N
  <2> QED BY <2>1, <2>2
<1> HIDE DEF N
<1>3. top \in N /\ \A y \in N : top >= y /\ y \in Nat
  BY <1>1, <1>2
<1>4. Max(N) = top
  <2>1. \A x \in N : (\A y \in N : x >= y) => x = top
    BY <1>1, <1>3
  <2> QED BY <1>3, <2>1 DEF Max
<1> QED BY <1>4 DEF MaxNumber, N

(* A file with no more items.                                              *)
LEMMA NothingAdded ==
    ASSUME NEW a, IsSeq(a)
    PROVE  a \o << >> = a
<1> DEFINE R == {a[i] : i \in DOMAIN a}
<1>1. a \in Seq(R)
  BY DEF IsSeq
<1> HIDE DEF R
<1> QED BY <1>1

(* The file and the rows of the body, then with /Encrypt, then with the cross-reference stream. *)
LEMMA FileEnds ==
    ASSUME NEW d, NEW q, NEW P, NEW o, NEW ed, NEW file, NEW l, NEW top, Final(file, l, top, d, q, P, o, ed),
           l = [uncompressed |-> l.uncompressed, compressed |-> l.compressed],
           NEW yes \in BOOLEAN, NEW kind \in {"encrypt", "xrefstm"},
           NEW n, n = (IF yes THEN top + 1 ELSE top),
           NEW items, items = (IF yes THEN <<Item(n, 0, kind, << >>)>> ELSE << >>),
           NEW l2, yes => l2 = [l EXCEPT !.uncompressed = Put(l.uncompressed, n, Len(file) + 1)], ~yes => l2 = l
    PROVE  Final(file \o items, l2, n, d, q, P, o, ed) /\ l2 = [uncompressed |-> l2.uncompressed, compressed |-> l2.compressed]
           /\ l2.compressed = l.compressed
<1>1. CASE ~yes
  <2>1. IsSeq(file) /\ items = << >> /\ l2 = l /\ n = top
    BY <1>1 DEF Final
  <2>2. file \o items = file
    BY <2>1, NothingAdded
  <2> QED BY <2>1, <2>2
<1>2. CASE yes
  <2> DEFINE item == Item(top + 1, 0, kind, << >>)
             g == Put(l.uncompressed, top + 1, Len(file) + 1)
  <2>1. n = top + 1 /\ items = <<item>>
    BY <1>2
  <2>2. l2 = [l EXCEPT !.uncompressed = g]
    BY <1>2
  <2> HIDE DEF item, g
  <2>3. l2 = [uncompressed |-> g, compressed |-> l.compressed]
    BY <2>2
  <2>4. l2.uncompressed = g /\ l2.compressed = l.compressed
    BY <2>3
  <2>5. item = Item(top + 1, 0, kind, << >>) /\ l2.uncompressed = Put(l.uncompressed, top + 1, Len(file) + 1)
    BY <2>4 DEF item, g
  <2>6. Final(file \o <<item>>, l2, top + 1, d, q, P, o, ed)
    BY <2>4, <2>5, FinalGrows
  <2> QED BY <2>1, <2>3, <2>4, <2>6
<1> QED BY <1>1, <1>2

(* WriteXref finishes the file, or fails because the plan is not sound.    *)
LEMMA XrefStep ==
    ASSUME BodyOK, WriteXref
    PROVE  \/ phase' = "done" /\ FileFinal'
           \/ phase' = "failed" /\ BodyOK' /\ ~Sound'
<1> DEFINE has == HasObjectStreams
           count == queue.next - 1
           last == IF opt.encrypt THEN count + 1 ELSE count
           encrypted == IF opt.encrypt THEN <<Item(last, 0, "encrypt", << >>)>> ELSE << >>
           body == [layout EXCEPT !.uncompressed = IF opt.encrypt THEN Put(@, last, Len(out) + 1) ELSE @]
           top == MaxNumber(body) + IF has THEN 1 ELSE 0
           xref == IF has THEN <<Item(top, 0, "xrefstm", << >>)>> ELSE << >>
           placed == IF has THEN [body EXCEPT !.uncompressed = Put(@, top, Len(out \o encrypted) + 1)] ELSE body
           trail == WithoutNulls(doc, doc.before \o doc.after)
           keys == <<Root>> \o trail
           Go(map, rows) ==
               CASE Root \notin DOMAIN queue.map -> Fail("root")
                 [] DOMAIN body.uncompressed \cap DOMAIN body.compressed # {} -> Fail("both")
                 [] ~has /\ (\E n \in DOMAIN rows : rows[n].type # 1) -> Fail("row")
                 [] OTHER ->
                    /\ phase' = "done"
                    /\ out' = out \o encrypted \o xref
                    /\ layout' = placed
                    /\ progress' = [progress EXCEPT !.percent = 100, !.seen = @ + 1]
                    /\ result' = [map |-> Restrict(map, {s \in DOMAIN map : map[s] \in
                                              DOMAIN body.uncompressed \cup DOMAIN body.compressed}),
                                  rows |-> rows, size |-> top + 1,
                                  trailer |-> [i \in DOMAIN keys |-> [to |-> keys[i], number |-> map[keys[i]]]]]
                    /\ UNCHANGED <<doc, opt, plan, queue, work, edits, error>>
           map == LateReferences(FirstLate(last))
           rows == Rows(placed, top)
<1>1. phase = "body" /\ out # << >> /\ work = Idle /\ queue.pending = << >>
  BY DEF WriteXref
<1>2. Go(map, rows)
  <2>1. \E mp \in {LateReferences(FirstLate(last))}, rw \in {Rows(placed, top)} : Go(mp, rw)
    BY Zenon DEF WriteXref
  <2> HIDE DEF Go, last, placed, top
  <2> QED BY SMTT(60), <2>1
<1>3. /\ DocOK(doc) /\ PlanOK(doc.kind, plan) /\ opt \in Options /\ edits \in Seq(Nat)
      /\ QueueOK(doc.kind, queue, plan, opt)
      /\ FileOK(out, layout, doc, queue, Idle, plan, opt, edits)
      /\ Seeded(queue, doc.kind, plan, opt)
  BY <1>1, BodyFacts
<1>4. \/ Root \notin DOMAIN queue.map /\ Fail("root")
      \/ DOMAIN body.uncompressed \cap DOMAIN body.compressed # {}
      \/ ~has /\ (\E n \in DOMAIN rows : rows[n].type # 1)
      \/ /\ Root \in DOMAIN queue.map
         /\ phase' = "done" /\ out' = out \o encrypted \o xref /\ layout' = placed
         /\ result' = [map |-> Restrict(map, {s \in DOMAIN map : map[s] \in
                                   DOMAIN body.uncompressed \cup DOMAIN body.compressed}),
                       rows |-> rows, size |-> top + 1,
                       trailer |-> [i \in DOMAIN keys |-> [to |-> keys[i], number |-> map[keys[i]]]]]
         /\ UNCHANGED <<doc, opt, plan, queue, work, edits>>
  <2> DEFINE r == result'
             rr == [map |-> Restrict(map, {s \in DOMAIN map : map[s] \in
                                   DOMAIN body.uncompressed \cup DOMAIN body.compressed}),
                       rows |-> rows, size |-> top + 1,
                       trailer |-> [i \in DOMAIN keys |-> [to |-> keys[i], number |-> map[keys[i]]]]]
             A == Root \notin DOMAIN queue.map
             B == DOMAIN body.uncompressed \cap DOMAIN body.compressed # {}
             C == ~has /\ (\E n \in DOMAIN rows : rows[n].type # 1)
             D == /\ phase' = "done" /\ out' = out \o encrypted \o xref /\ layout' = placed
                  /\ progress' = [progress EXCEPT !.percent = 100, !.seen = @ + 1]
                  /\ result' = rr
                  /\ UNCHANGED <<doc, opt, plan, queue, work, edits, error>>
  <2>1. (CASE A -> Fail("root") [] B -> Fail("both") [] C -> Fail("row") [] OTHER -> D)
    BY Zenon, <1>2
  <2>2. D => /\ phase' = "done" /\ out' = out \o encrypted \o xref /\ layout' = placed /\ result' = rr
             /\ UNCHANGED <<doc, opt, plan, queue, work, edits>>
    OBVIOUS
  <2>3. A <=> Root \notin DOMAIN queue.map
    OBVIOUS
  <2> HIDE DEF A, B, C, D, rr, encrypted, xref, placed
  <2> QED BY Zenon, <2>1, <2>2, <2>3 DEF A, B, C, rr
<1>5. Final(out, layout, count, doc, queue, plan, opt, edits)
      /\ layout = [uncompressed |-> layout.uncompressed, compressed |-> layout.compressed]
  BY <1>1, <1>3, BodyFinal DEF FileOK
<1>6. opt.encrypt \in BOOLEAN /\ has \in BOOLEAN
  <2>1. opt \in [streams : {"disable", "preserve", "generate"}, qdf : BOOLEAN, unref : BOOLEAN, encrypt : BOOLEAN]
    BY <1>3, WriterAssumption
  <2> QED BY <2>1 DEF HasObjectStreams
<1> HIDE DEF has, Go
<1>7. Final(out \o encrypted, body, last, doc, queue, plan, opt, edits)
      /\ body = [uncompressed |-> body.uncompressed, compressed |-> body.compressed]
      /\ body.compressed = layout.compressed
  <2> DEFINE b == body
             ls == last
             en == encrypted
             cn == count
  <2>1. ls = IF opt.encrypt THEN cn + 1 ELSE cn
    OBVIOUS
  <2>2. en = IF opt.encrypt THEN <<Item(ls, 0, "encrypt", << >>)>> ELSE << >>
    OBVIOUS
  <2>3. opt.encrypt => b = [layout EXCEPT !.uncompressed = Put(layout.uncompressed, ls, Len(out) + 1)]
    OBVIOUS
  <2>4. ~opt.encrypt => b = layout
    <3> DEFINE u == layout.uncompressed
               c == layout.compressed
    <3> SUFFICES ASSUME ~opt.encrypt PROVE [layout EXCEPT !.uncompressed = @] = layout
      OBVIOUS
    <3>1. layout = [uncompressed |-> u, compressed |-> c]
      BY <1>5
    <3>2. [layout EXCEPT !.uncompressed = u] = [uncompressed |-> u, compressed |-> c]
      <4> HIDE DEF u, c
      <4> QED BY <3>1
    <3> QED BY <3>1, <3>2
  <2> HIDE DEF b, ls, en, cn
  <2>5. Final(out, layout, cn, doc, queue, plan, opt, edits)
    BY <1>5 DEF cn
  <2>6. Final(out \o en, b, ls, doc, queue, plan, opt, edits)
        /\ b = [uncompressed |-> b.uncompressed, compressed |-> b.compressed] /\ b.compressed = layout.compressed
    BY <1>5, <1>6, <2>1, <2>2, <2>3, <2>4, <2>5, FileEnds
  <2> QED BY <2>6 DEF b, ls, en
<1> DEFINE file1 == out \o encrypted
<1> HIDE DEF body, last, encrypted, count
<1>8. MaxNumber(body) = last /\ last \in Nat
  <2>1. Final(file1, body, last, doc, queue, plan, opt, edits)
    BY <1>7
  <2> HIDE DEF file1
  <2> QED BY <2>1, LastNumber DEF Final
<1>9. top = IF has THEN last + 1 ELSE last
  BY <1>8
<1> HIDE DEF top
<1>10. Final(out \o encrypted \o xref, placed, top, doc, queue, plan, opt, edits)
       /\ placed.compressed = layout.compressed
  <2> DEFINE xr == xref
             pl == placed
  <2>1. xr = IF has THEN <<Item(top, 0, "xrefstm", << >>)>> ELSE << >>
    OBVIOUS
  <2>2. has => pl = [body EXCEPT !.uncompressed = Put(body.uncompressed, top, Len(file1) + 1)]
    OBVIOUS
  <2>3. ~has => pl = body
    OBVIOUS
  <2>4. Final(file1, body, last, doc, queue, plan, opt, edits)
    BY <1>7
  <2> HIDE DEF xr, pl, file1
  <2>5. Final(file1 \o xr, pl, top, doc, queue, plan, opt, edits) /\ pl.compressed = body.compressed
    BY <1>6, <1>7, <1>9, <2>1, <2>2, <2>3, <2>4, FileEnds
  <2> QED BY <1>7, <2>5 DEF xr, pl, file1
<1>11. DOMAIN body.uncompressed \cap DOMAIN body.compressed = {}
  BY <1>7 DEF Final
<1>12. ASSUME ~has, NEW n \in DOMAIN rows PROVE rows[n].type = 1
  <2>1. DOMAIN plan.members = {}
    BY <1>12 DEF has, HasObjectStreams
  <2>2. DOMAIN plan.home = {}
    BY <1>3, <2>1 DEF PlanOK
  <2>3. DOMAIN placed.compressed = {}
    BY <1>10, <2>2 DEF Final, Inside
  <2>4. n \in 1 .. top
    BY DEF Rows
  <2>5. n \in DOMAIN placed.uncompressed
    BY <1>10, <2>3, <2>4 DEF Final
  <2> HIDE DEF placed
  <2> QED BY <2>4, <2>5 DEF Rows
<1> DEFINE file == out \o encrypted \o xref
<1> HIDE DEF xref, placed, keys, trail, map, rows
<1>13. CASE Root \notin DOMAIN queue.map /\ Fail("root")
  <2>1. ~SoundPlan(doc.kind, plan, opt)
    BY <1>3, <1>13 DEF Seeded
  <2>2. BodyOK' /\ phase' = "failed" /\ (Sound' <=> SoundPlan(doc.kind, plan, opt))
    BY <1>13, FailStep
  <2> QED BY <2>1, <2>2
<1> DEFINE first == FirstLate(last)
<1>14. first \in Nat /\ first = top + 1
  BY <1>8, <1>9 DEF FirstLate, has
<1> HIDE DEF first
<1>15. PICK next : LateOK([map |-> map, next |-> next], queue, DOMAIN doc.kind, first)
  <2>1. IsQueue(queue, DOMAIN doc.kind)
    BY <1>3 DEF QueueOK, QueueCore
  <2>2. map = LateReferences(first)
    BY DEF map, first
  <2> QED BY <1>3, <1>14, <2>1, <2>2, LateNumbers
<1>16. \A i \in DOMAIN trail : trail[i] \in DOMAIN map
  <2>1. IsQueue(queue, DOMAIN doc.kind)
    BY <1>3 DEF QueueOK, QueueCore
  <2>2. map = LateReferences(first)
    BY DEF map, first
  <2> QED BY <1>3, <1>14, <2>1, <2>2, LateNumbers DEF trail
<1>17. /\ \A s \in DOMAIN queue.map : s \in DOMAIN map /\ map[s] = queue.map[s]
       /\ \A s \in DOMAIN map \ DOMAIN queue.map : map[s] = 0 \/ map[s] >= first
  <2> DEFINE acc == [map |-> map, next |-> next]
  <2>1. acc.map = map /\ LateOK(acc, queue, DOMAIN doc.kind, first)
    BY <1>15
  <2> HIDE DEF acc
  <2> QED BY <2>1 DEF LateOK
<1>18. ASSUME Root \in DOMAIN queue.map, NEW i \in DOMAIN keys PROVE keys[i] \in DOMAIN map
  <2>1. trail \in Seq(DOMAIN doc.kind)
    <3> DEFINE K == DOMAIN doc.kind
    <3>1. doc.before \in Seq(K) /\ doc.after \in Seq(K)
      BY <1>3 DEF DocOK
    <3> DEFINE y == doc.before
               z == doc.after
    <3>2. y \o z \in Seq(K)
      <4> HIDE DEF y, z, K
      <4>1. y \in Seq(K) /\ z \in Seq(K) => y \o z \in Seq(K)
        OBVIOUS
      <4> QED BY <3>1, <4>1 DEF y, z
    <3> QED BY <1>3, <3>2, Filtered DEF trail
  <2> DEFINE root == <<Root>>
             R == Root
  <2>2. IsSeq(root) /\ Len(root) = 1 /\ root[1] = R
    <3> HIDE DEF R
    <3>1. <<R>> \in Seq({R}) /\ Len(<<R>>) = 1 /\ <<R>>[1] = R
      OBVIOUS
    <3>2. root = <<R>>
      BY DEF R
    <3> HIDE DEF root
    <3> QED BY <3>1, <3>2, SeqIs
  <2> HIDE DEF root, R
  <2>3. IsSeq(trail) /\ Len(trail) \in Nat /\ DOMAIN trail = 1 .. Len(trail)
    BY <2>1, SeqIs
  <2>4. keys = root \o trail
    BY DEF keys, root
  <2>5. IsSeq(keys) /\ Len(keys) = Len(root) + Len(trail)
    BY <2>2, <2>3, <2>4, Concatenates
  <2>6. \A j \in 1 .. Len(root) : keys[j] = root[j]
    BY <2>2, <2>3, <2>4, Concatenates
  <2>7. \A j \in 1 .. Len(trail) : keys[Len(root) + j] = trail[j]
    <3>1. IsSeq(root) /\ IsSeq(trail)
      BY <2>2, <2>3
    <3>2. \A j \in 1 .. Len(trail) : (root \o trail)[Len(root) + j] = trail[j]
      BY <3>1, Concatenates
    <3> QED BY <2>4, <3>2
  <2>8. i \in 1 .. 1 + Len(trail)
    BY <2>2, <2>5, SeqFacts
  <2>9. CASE i = 1
    <3>1. keys[i] = Root
      BY <2>2, <2>6, <2>9 DEF R
    <3> QED BY <1>17, <1>18, <3>1
  <2>10. CASE i # 1
    <3>1. i - 1 \in 1 .. Len(trail) /\ i = 1 + (i - 1)
      BY <2>3, <2>8, <2>10
    <3>2. keys[i] = trail[i - 1]
      BY <2>2, <2>7, <3>1
    <3> QED BY <1>16, <2>3, <3>1, <3>2
  <2> QED BY <2>9, <2>10
<1>19. CASE /\ Root \in DOMAIN queue.map
            /\ phase' = "done" /\ out' = out \o encrypted \o xref /\ layout' = placed
            /\ result' = [map |-> Restrict(map, {s \in DOMAIN map : map[s] \in
                                      DOMAIN body.uncompressed \cup DOMAIN body.compressed}),
                          rows |-> rows, size |-> top + 1,
                          trailer |-> [i \in DOMAIN keys |-> [to |-> keys[i], number |-> map[keys[i]]]]]
            /\ UNCHANGED <<doc, opt, plan, queue, work, edits>>
  <2> DEFINE R == Restrict(map, {s \in DOMAIN map : map[s] \in DOMAIN body.uncompressed \cup DOMAIN body.compressed})
             T == [i \in DOMAIN keys |-> [to |-> keys[i], number |-> map[keys[i]]]]
  <2>1. Root \in DOMAIN R
    <3>1. Root \in DOMAIN map /\ map[Root] = queue.map[Root]
      BY <1>17, <1>19
    <3>2. queue.map[Root] \in 1 .. queue.next - 1
      BY <1>3, <1>19 DEF QueueOK, QueueCore, Numbers
    <3>3. queue.next - 1 <= last /\ queue.next \in Nat /\ DOMAIN body.uncompressed \cup DOMAIN body.compressed = 1 .. last
      BY <1>3, <1>7 DEF Final, QueueOK, QueueCore, IsQueue
    <3>4. queue.map[Root] \in 1 .. last
      BY <1>8, <3>2, <3>3
    <3> QED BY <3>1, <3>3, <3>4 DEF Restrict
  <2>2. ASSUME NEW i \in DOMAIN T
        PROVE  IF T[i].to \in DOMAIN queue.map THEN T[i].number = queue.map[T[i].to]
               ELSE T[i].number = 0 \/ T[i].number >= top + 1
    <3>1. T[i].to = keys[i] /\ T[i].number = map[keys[i]] /\ i \in DOMAIN keys
      OBVIOUS
    <3>2. keys[i] \in DOMAIN map
      BY <1>18, <1>19, <3>1
    <3> HIDE DEF T
    <3> QED BY <1>14, <1>17, <3>1, <3>2
  <2> HIDE DEF R, T
  <2>3. result'.map = R /\ result'.rows = rows /\ result'.size = top + 1 /\ result'.trailer = T
    <3>1. result' = [map |-> R, rows |-> rows, size |-> top + 1, trailer |-> T]
      BY <1>19 DEF R, T
    <3> QED BY <3>1
  <2>4. top \in Nat
    BY <1>10 DEF Final
  <2>5. result'.size - 1 = top /\ result'.size \in Nat
    BY <2>3, <2>4
  <2>6. Final(out', layout', result'.size - 1, doc', queue', plan', opt', edits')
    BY <1>10, <1>19, <2>5
  <2>7. result'.rows = Rows(layout', result'.size - 1)
    BY <1>19, <2>3, <2>5 DEF rows
  <2>8. \A i \in DOMAIN result'.trailer :
          IF result'.trailer[i].to \in DOMAIN queue'.map
          THEN result'.trailer[i].number = queue'.map[result'.trailer[i].to]
          ELSE result'.trailer[i].number = 0 \/ result'.trailer[i].number >= result'.size
    BY <1>19, <2>2, <2>3
  <2>9. Root \in DOMAIN result'.map
    BY <2>1, <2>3
  <2> QED BY <1>19, <2>5, <2>6, <2>7, <2>8, <2>9 DEF FileFinal
<1> QED BY SMTT(60), <1>4, <1>11, <1>12, <1>13, <1>19

-----------------------------------------------------------------------------
(* Setup: the objects that object streams may hold, and their batches.     *)

(* A source document is right to start from.                               *)
LEMMA DocumentIs ==
    ASSUME NEW d, IsDocument(d)
    PROVE  DocOK(d)
BY DEF IsDocument, DocOK, Source

(* The states of the walk over the objects S.                              *)
Distinct(s) == \A i, j \in DOMAIN s : s[i] = s[j] => i = j
Walks(S) ==
    {w \in [stack : Seq(S), seen : SUBSET S, found : Seq(S)] :
        (\A i \in DOMAIN w.found : w.found[i] \in w.seen) /\ Distinct(w.found)}

(* One visit of the walk.                                                  *)
LEMMA Visits ==
    ASSUME NEW d, DocOK(d), NEW w \in Walks(DOMAIN d.kind)
    PROVE  Visit(d, w) \in Walks(DOMAIN d.kind)
<1> DEFINE S == DOMAIN d.kind
           stack == w.stack
           seen == w.seen
           found == w.found
<1>1. /\ w = [stack |-> stack, seen |-> seen, found |-> found]
      /\ stack \in Seq(S) /\ seen \subseteq S /\ found \in Seq(S)
      /\ \A i \in DOMAIN found : found[i] \in seen
      /\ Distinct(found)
  BY DEF Walks
<1> HIDE DEF stack, seen, found
<1>2. CASE stack = << >>
  BY <1>2 DEF Visit, stack
<1>3. CASE stack # << >>
  <2> DEFINE s == Head(stack)
             rest == Tail(stack)
  <2>1. s \in S /\ rest \in Seq(S)
    <3> HIDE DEF S
    <3> QED BY <1>1, <1>3
  <2> HIDE DEF s, rest
  <2>2. CASE s \in seen
    <3>1. Visit(d, w) = [w EXCEPT !.stack = rest]
      BY <1>3, <2>2 DEF Visit, stack, seen, s, rest
    <3>2. Visit(d, w) = [stack |-> rest, seen |-> seen, found |-> found]
      BY <1>1, <3>1
    <3> QED BY <1>1, <2>1, <3>2 DEF Walks
  <2>3. CASE s \notin seen
    <3> DEFINE y == Shown(d, s)
               more == y \o rest
               f == IF d.kind[s] \in Streams \cup {"sig"} THEN found ELSE Append(found, s)
               all == seen \cup {s}
    <3>1. Visit(d, w) = [stack |-> more, seen |-> all, found |-> f]
      BY <1>3, <2>3 DEF Visit, stack, seen, found, s, rest
    <3>2. more \in Seq(S)
      <4>1. y \in Seq(S)
        BY <2>1, ShownSeq
      <4> HIDE DEF y, S
      <4> QED BY <2>1, <4>1
    <3>3. Append(found, s) \in Seq(S) /\ IsAppend(Append(found, s), found, s)
      <4> HIDE DEF S
      <4> QED BY <1>1, <2>1, Appended
    <3>4. f \in Seq(S) /\ (\A i \in DOMAIN f : f[i] \in all) /\ Distinct(f)
      <4>1. CASE d.kind[s] \in Streams \cup {"sig"}
        BY <1>1, <4>1
      <4>2. CASE d.kind[s] \notin Streams \cup {"sig"}
        <5> DEFINE g == Append(found, s)
        <5>1. f = g /\ g \in Seq(S) /\ IsAppend(g, found, s)
          BY <3>3, <4>2
        <5> HIDE DEF f, g, S
        <5>2. Len(found) \in Nat /\ DOMAIN found = 1 .. Len(found)
          BY <1>1
        <5>3. DOMAIN g = 1 .. Len(found) + 1 /\ \A i \in 1 .. Len(found) + 1 : i = Len(found) + 1 \/ i \in 1 .. Len(found)
          BY <5>1, <5>2 DEF IsAppend
        <5>4. ASSUME NEW i \in DOMAIN g PROVE g[i] = IF i = Len(found) + 1 THEN s ELSE found[i]
          BY <5>1, <5>2, <5>3 DEF IsAppend
        <5>5. \A i \in DOMAIN g : g[i] \in all
          BY <1>1, <5>2, <5>3, <5>4
        <5>6. ASSUME NEW i \in DOMAIN g, NEW j \in DOMAIN g, g[i] = g[j] PROVE i = j
          BY <1>1, <2>3, <5>2, <5>3, <5>4, <5>6 DEF Distinct
        <5> QED BY <5>1, <5>5, <5>6 DEF Distinct
      <4> QED BY <4>1, <4>2
    <3>5. all \subseteq S
      BY <1>1, <2>1
    <3> HIDE DEF more, f, all
    <3> QED BY <3>1, <3>2, <3>4, <3>5 DEF Walks
  <2> QED BY <2>2, <2>3
<1> QED BY <1>2, <1>3

(* The walk lists objects, none twice.                                     *)
LEMMA WalkFinds ==
    ASSUME NEW d, DocOK(d)
    PROVE  Compressible(d) \in Seq(DOMAIN d.kind) /\ Distinct(Compressible(d))
<1> DEFINE K == DOMAIN d.kind
           before == WithoutNulls(d, d.before)
           after == WithoutNulls(d, d.after)
           top == before \o <<Root>> \o after
           start == [stack |-> top, seen |-> {}, found |-> << >>]
           n == Len(start.stack) + SumTo([s \in Source(d) |-> Len(d.kids[s])], Len(d.kind))
           V == Walks(K)
           step == [i \in 1 .. n |-> [v \in V |-> Visit(d, v)]]
           c == CHOOSE f : f = [i \in 0 .. n |-> IF i = 0 THEN start ELSE Once(LAMBDA w : Visit(d, w), f[i - 1])]
<1>1. Compressible(d) = c[n].found
  BY DEF Compressible
<1>2. top \in Seq(K)
  <2>1. before \in Seq(K) /\ after \in Seq(K)
    BY Filtered DEF DocOK
  <2>2. Root \in K
    BY DEF DocOK, Root
  <2> HIDE DEF before, after, K
  <2>3. <<Root>> \in Seq(K)
    BY <2>2
  <2> DEFINE r == <<Root>>
  <2> HIDE DEF r
  <2>4. r \in Seq(K)
    BY <2>3 DEF r
  <2>5. before \o r \o after \in Seq(K)
    BY <2>1, <2>4
  <2> QED BY <2>5 DEF r
<1>3. n \in Nat
  <2> DEFINE x == [s \in Source(d) |-> Len(d.kids[s])]
             l == Len(d.kind)
  <2>1. l \in Nat /\ K = 1 .. l
    BY DEF DocOK
  <2>2. x \in [1 .. l -> Nat]
    <3>1. ASSUME NEW s \in K PROVE Len(d.kids[s]) \in Nat
      BY <3>1 DEF DocOK
    <3> QED BY <2>1, <3>1 DEF Source
  <2> HIDE DEF x, l
  <2>3. SumTo(x, l) \in Nat
    BY <2>1, <2>2, SumNat
  <2>4. Len(start.stack) = Len(top)
    OBVIOUS
  <2>5. Len(top) \in Nat
    <3> HIDE DEF top
    <3> QED BY <1>2
  <2> HIDE DEF start, top
  <2> QED BY <2>3, <2>4, <2>5 DEF x, l
<1>4. start \in V
  <2> HIDE DEF top, K
  <2>1. start \in [stack : Seq(K), seen : SUBSET K, found : Seq(K)]
    BY <1>2
  <2>2. DOMAIN start.found = {}
    OBVIOUS
  <2> HIDE DEF start
  <2> QED BY <2>1, <2>2 DEF Walks, Distinct
<1>5. step \in [1 .. n -> [V -> V]] /\ \A i \in 1 .. n : \A v \in V : step[i][v] = Visit(d, v)
  BY Visits
<1>6. \A x : Once(LAMBDA w : Visit(d, w), x) = Visit(d, x)
  BY DEF Once
<1> HIDE DEF start, n, V, step
<1>7. PICK f : f \in [0 .. n -> V] /\ f[0] = start /\ \A i \in 1 .. n : f[i] = step[i][f[i - 1]]
  <2>1. \E f : Recursion(f, n, V, start, step)
    BY <1>3, <1>4, <1>5, RecursionExists
  <2> QED BY <2>1 DEF Recursion
<1>8. f = [i \in 0 .. n |-> IF i = 0 THEN start ELSE Once(LAMBDA w : Visit(d, w), f[i - 1])]
  <2>1. ASSUME NEW i \in 0 .. n, i # 0 PROVE f[i] = Once(LAMBDA w : Visit(d, w), f[i - 1])
    <3>1. i \in 1 .. n /\ i - 1 \in 0 .. n
      BY <1>3, <2>1
    <3>2. f[i] = Visit(d, f[i - 1])
      BY <1>5, <1>7, <3>1
    <3> QED BY <1>6, <3>2
  <2> QED BY <1>7, <2>1
<1>9. c = [i \in 0 .. n |-> IF i = 0 THEN start ELSE Once(LAMBDA w : Visit(d, w), c[i - 1])]
  BY <1>8
<1> HIDE DEF c
<1>10. 0 \in 0 .. n
  BY <1>3
<1>11. c[0] = start
  BY <1>9, <1>10
<1> DEFINE S == {i \in Nat : i <= n => c[i] \in V}
<1>12. 0 \in S
  BY <1>4, <1>11
<1>13. ASSUME NEW i \in Nat, i \in S PROVE i + 1 \in S
  <2> SUFFICES ASSUME i + 1 <= n PROVE c[i + 1] \in V
    OBVIOUS
  <2>1. i + 1 \in 0 .. n /\ i + 1 # 0 /\ (i + 1) - 1 = i /\ c[i] \in V
    BY <1>3, <1>13
  <2>2. c[i + 1] = Visit(d, c[i])
    BY <1>6, <1>9, <2>1
  <2> QED BY <2>1, <2>2, Visits DEF V
<1>14. n \in S
  <2> HIDE DEF S
  <2> QED BY <1>3, <1>12, <1>13, SetInduction
<1>15. c[n] \in V
  BY <1>3, <1>14
<1> DEFINE x == c[n]
<1>16. x \in V /\ Compressible(d) = x.found
  BY <1>1, <1>15
<1> HIDE DEF x
<1> QED BY <1>16 DEF V, Walks

(* Integer division of a number by a positive one.                         *)
LEMMA Divides ==
    ASSUME NEW a \in Nat, NEW b \in Nat, b > 0
    PROVE  /\ a \div b \in Nat
           /\ a >= b => a \div b >= 1
OBVIOUS

(* Products grow with their factors.                                       *)
LEMMA TimesGrows ==
    ASSUME NEW i \in Nat, NEW j \in Nat, NEW p \in Nat, i <= j
    PROVE  i * p \in Nat /\ j * p \in Nat /\ i * p <= j * p
<1>1. i * p \in Nat /\ j * p \in Nat /\ (j - i) * p \in Nat
  OBVIOUS
<1>2. j * p = i * p + (j - i) * p
  OBVIOUS
<1> QED BY <1>1, <1>2

(* The sequences of f split e: they hold elements of e, and no two share one. *)
Parts(f, e) ==
    /\ Len(f) \in Nat /\ DOMAIN f = 1 .. Len(f)
    /\ \A i \in DOMAIN f : \A x \in ToSet(f[i]) : \E k \in DOMAIN e : e[k] = x
    /\ \A i, j \in DOMAIN f : \A x : x \in ToSet(f[i]) /\ x \in ToSet(f[j]) => i = j

(* Element x is in batch i because it is one of the elements from lo to hi. *)
LEMMA PartOf ==
    ASSUME NEW S, NEW e \in Seq(S), NEW lo \in Nat, lo >= 1, NEW hi \in Nat, hi <= Len(e),
           NEW x \in ToSet(SubSeq(e, lo, hi))
    PROVE  \E k \in DOMAIN e : e[k] = x /\ lo <= k /\ k <= hi
<1> DEFINE t == SubSeq(e, lo, hi)
<1>1. Len(e) \in Nat /\ DOMAIN e = 1 .. Len(e)
  OBVIOUS
<1>2. \A i \in lo .. hi : e[i] \in S
  BY <1>1
<1>3. /\ t \in Seq(S) /\ Len(t) = IF lo <= hi THEN hi - lo + 1 ELSE 0
      /\ \A i \in 1 .. hi - lo + 1 : t[i] = e[lo + i - 1]
  BY <1>2, SubSeqProperties
<1> HIDE DEF t
<1>4. PICK i \in DOMAIN t : t[i] = x
  BY DEF ToSet, t
<1>5. DOMAIN t = 1 .. Len(t)
  BY <1>3
<1>6. lo <= hi /\ i \in 1 .. hi - lo + 1
  BY <1>3, <1>4, <1>5
<1>7. lo + i - 1 \in 1 .. Len(e) /\ lo <= lo + i - 1 /\ lo + i - 1 <= hi
  BY <1>1, <1>6
<1> QED BY <1>1, <1>3, <1>4, <1>6, <1>7

(* EvenSplit cuts a list without repetitions into parts that share         *)
(* nothing.                                                                *)
LEMMA Splits ==
    ASSUME NEW S, NEW e \in Seq(S), Distinct(e)
    PROVE  Parts(EvenSplit(e), e)
<1> DEFINE n == Len(e)
           streams == (n + Cap - 1) \div Cap
           per == (n + streams - 1) \div streams
           count == IF n = 0 THEN 0 ELSE (n + per - 1) \div per
           Lo(i) == (i - 1) * per + 1
           Hi(i) == IF i * per < n THEN i * per ELSE n
           f == [i \in 1 .. count |-> SubSeq(e, Lo(i), Hi(i))]
<1>1. EvenSplit(e) = f
  BY DEF EvenSplit
<1>2. n \in Nat /\ Cap \in Nat /\ Cap > 0
  BY WriterAssumption
<1>3. CASE n = 0
  <2>1. count = 0 /\ DOMAIN f = 1 .. count /\ 1 .. 0 = {}
    BY <1>3
  <2>2. f = << >> /\ Len(<< >>) = 0 /\ DOMAIN << >> = 1 .. 0
    BY <2>1
  <2> HIDE DEF f
  <2> QED BY <1>1, <2>1, <2>2 DEF Parts
<1>4. CASE n # 0
  <2>1. streams \in Nat /\ streams >= 1
    <3>1. n + Cap - 1 \in Nat /\ n + Cap - 1 >= Cap
      BY <1>2, <1>4
    <3> QED BY <1>2, <3>1, Divides
  <2> HIDE DEF streams
  <2>2. per \in Nat /\ per >= 1
    <3>1. n + streams - 1 \in Nat /\ n + streams - 1 >= streams
      BY <1>2, <1>4, <2>1
    <3> QED BY <2>1, <3>1, Divides
  <2> HIDE DEF per
  <2>3. count \in Nat
    <3>1. n + per - 1 \in Nat
      BY <1>2, <1>4, <2>2
    <3>2. (n + per - 1) \div per \in Nat
      BY <2>2, <3>1, Divides
    <3> QED BY <1>4, <3>2
  <2> HIDE DEF count
  <2>4. ASSUME NEW i \in 1 .. count
        PROVE  /\ i \in Nat /\ i - 1 \in Nat /\ (i - 1) * per \in Nat /\ i * per \in Nat
               /\ Lo(i) \in Nat /\ Lo(i) >= 1 /\ Hi(i) \in Nat /\ Hi(i) <= n /\ Hi(i) <= i * per
    <3>1. i \in Nat /\ i - 1 \in Nat /\ i - 1 <= i
      BY <2>3
    <3>2. (i - 1) * per \in Nat /\ i * per \in Nat
      BY <2>2, <3>1, TimesGrows
    <3> DEFINE a == (i - 1) * per
               b == i * per
    <3> HIDE DEF a, b
    <3>3. a \in Nat /\ b \in Nat
      BY <3>2 DEF a, b
    <3>4. /\ a + 1 \in Nat /\ a + 1 >= 1 /\ (IF b < n THEN b ELSE n) \in Nat
          /\ (IF b < n THEN b ELSE n) <= n /\ (IF b < n THEN b ELSE n) <= b
      BY <1>2, <3>3
    <3> QED BY <3>1, <3>2, <3>4 DEF a, b
  <2>5. ASSUME NEW i \in 1 .. count, NEW x \in ToSet(f[i])
        PROVE  \E k \in DOMAIN e : e[k] = x /\ Lo(i) <= k /\ k <= Hi(i)
    <3>1. f[i] = SubSeq(e, Lo(i), Hi(i))
      OBVIOUS
    <3> HIDE DEF f, Lo, Hi
    <3> QED BY <2>4, <2>5, <3>1, PartOf
  <2>6. ASSUME NEW i \in 1 .. count, NEW j \in 1 .. count, i < j,
               NEW x \in ToSet(f[i]), x \in ToSet(f[j])
        PROVE  FALSE
    <3>1. PICK k \in DOMAIN e : e[k] = x /\ Lo(i) <= k /\ k <= Hi(i)
      BY <2>5
    <3>2. PICK l \in DOMAIN e : e[l] = x /\ Lo(j) <= l /\ l <= Hi(j)
      BY <2>5, <2>6
    <3>3. k = l
      BY <3>1, <3>2 DEF Distinct
    <3>4. i \in Nat /\ j - 1 \in Nat /\ i <= j - 1 /\ Hi(i) <= i * per /\ Hi(i) \in Nat /\ Hi(j) \in Nat
      BY SMTT(60), <2>3, <2>4, <2>6
    <3>5. i * per \in Nat /\ (j - 1) * per \in Nat /\ i * per <= (j - 1) * per
      BY <2>2, <3>4, TimesGrows
    <3>6. Lo(j) = (j - 1) * per + 1
      OBVIOUS
    <3>7. k \in Nat
      OBVIOUS
    <3> DEFINE a == i * per
               b == (j - 1) * per
    <3> HIDE DEF Lo, Hi, a, b
    <3>8. a \in Nat /\ b \in Nat /\ a <= b /\ Hi(i) <= a /\ Lo(j) = b + 1
      BY <3>4, <3>5, <3>6 DEF a, b
    <3> QED BY <3>1, <3>2, <3>3, <3>4, <3>7, <3>8
  <2>7. DOMAIN f = 1 .. count /\ Len(f) = count
    BY <2>3
  <2> HIDE DEF f, Lo, Hi
  <2>8. \A i, j \in DOMAIN f : \A x : x \in ToSet(f[i]) /\ x \in ToSet(f[j]) => i = j
    <3> SUFFICES ASSUME NEW i \in 1 .. count, NEW j \in 1 .. count, NEW x, x \in ToSet(f[i]), x \in ToSet(f[j])
                 PROVE  i = j
      BY <2>7
    <3>1. ~(i < j) /\ ~(j < i)
      BY <2>6
    <3> QED BY <2>3, <3>1
  <2> QED BY <1>1, <2>3, <2>5, <2>7, <2>8 DEF Parts
<1> QED BY <1>3, <1>4

(* Ascending lists a set without repetitions.                              *)
LEMMA NoRepeats ==
    ASSUME NEW X, IsFiniteSet(X), X \subseteq Int, NEW T, X \subseteq T
    PROVE  /\ Ascending(X) \in Seq(T) /\ Distinct(Ascending(X))
           /\ \A i \in DOMAIN Ascending(X) : Ascending(X)[i] \in X
           /\ \A x \in X : \E i \in DOMAIN Ascending(X) : Ascending(X)[i] = x
<1> DEFINE n == Cardinality(X)
           a == Ascending(X)
<1>1. /\ n \in Nat /\ a \in [1 .. n -> X]
      /\ \A i \in 1 .. n : Rank(X, a[i]) = i
      /\ \A x \in X : \E i \in 1 .. n : a[i] = x
  BY Ascends
<1> HIDE DEF a, n
<1>2. a \in [1 .. n -> T] /\ DOMAIN a = 1 .. n
  BY <1>1
<1>3. a \in Seq(T)
  BY <1>1, <1>2, SeqDef
<1>4. Distinct(a)
  BY <1>1, <1>2 DEF Distinct
<1> QED BY <1>1, <1>2, <1>3, <1>4 DEF a

(* Batches of objects up to l that share none make a membership that fits. *)
LEMMA Plans ==
    ASSUME NEW T, NEW K \in Seq(T), NEW l \in 0 .. Len(K), NEW B,
           \A c \in DOMAIN B : c \in DOMAIN K /\ B[c] \subseteq 1 .. l,
           \A c, e \in DOMAIN B : \A m : m \in B[c] /\ m \in B[e] => c = e
    PROVE  PlanOK(K, LiveObjectStreamPlan(B))
<1> DEFINE P == LiveObjectStreamPlan(B)
           G == Groups(B)
           H == UNION {Kept(B, c) : c \in G}
           members == [c \in G |-> Ascending(Kept(B, c))]
           home == [m \in H |-> CHOOSE c \in G : m \in Kept(B, c)]
           generated == IF opt.streams = "generate" THEN G ELSE {}
<1>1. P = [members |-> members, home |-> home, generated |-> generated]
  BY DEF LiveObjectStreamPlan
<1>2. DOMAIN members = G /\ (\A c \in G : members[c] = Ascending(Kept(B, c))) /\ DOMAIN home = H
  OBVIOUS
<1>3. Len(K) \in Nat /\ DOMAIN K = 1 .. Len(K) /\ l \in Nat /\ l <= Len(K)
  OBVIOUS
<1>4. ASSUME NEW c \in G
      PROVE  /\ c \in DOMAIN B /\ c \in DOMAIN K /\ Kept(B, c) \subseteq B[c] /\ Kept(B, c) # {}
             /\ Kept(B, c) \subseteq 1 .. l /\ Kept(B, c) \subseteq H
  <2>1. c \in DOMAIN B /\ Kept(B, c) # {} /\ Kept(B, c) \subseteq B[c]
    BY <1>4 DEF Groups, Kept
  <2>2. Kept(B, c) \subseteq H
    BY <1>4
  <2> QED BY <2>1, <2>2
<1>5. ASSUME NEW m \in H PROVE home[m] \in G /\ m \in Kept(B, home[m])
  <2>1. \E c \in G : m \in Kept(B, c)
    BY <1>5
  <2>2. home[m] = CHOOSE c \in G : m \in Kept(B, c)
    BY <1>5
  <2> HIDE DEF home, G
  <2> QED BY <2>1, <2>2
<1> HIDE DEF members, home, generated, G
<1>6. ASSUME NEW c \in G, NEW m \in Kept(B, c) PROVE m \in H /\ home[m] = c
  <2>1. m \in H
    BY <1>4, <1>6
  <2>2. home[m] \in G /\ m \in Kept(B, home[m])
    BY <1>5, <2>1
  <2>3. m \in B[c] /\ m \in B[home[m]] /\ c \in DOMAIN B /\ home[m] \in DOMAIN B
    BY <1>4, <1>6, <2>2
  <2> HIDE DEF H
  <2> QED BY <2>1, <2>3
<1>7. H \subseteq 1 .. l
  BY <1>4
<1> HIDE DEF H
<1>8. ASSUME NEW c \in G
      PROVE  /\ members[c] \in Seq(H) /\ Distinct(members[c])
             /\ \A i \in DOMAIN members[c] : members[c][i] \in Kept(B, c)
             /\ \A x \in Kept(B, c) : \E i \in DOMAIN members[c] : members[c][i] = x
  <2> DEFINE X == Kept(B, c)
             a == Ascending(X)
  <2>1. X \subseteq H /\ X \in SUBSET (1 .. l)
    BY <1>4
  <2> HIDE DEF X
  <2>2. IsFiniteSet(1 .. l)
    BY <1>3, FS_Interval
  <2>3. IsFiniteSet(X) /\ X \subseteq Int
    <3>1. IsFiniteSet(X)
      BY <2>1, <2>2, FS_Subset
    <3> QED BY <2>1, <3>1
  <2>4. /\ a \in Seq(H) /\ Distinct(a) /\ \A i \in DOMAIN a : a[i] \in X
        /\ \A x \in X : \E i \in DOMAIN a : a[i] = x
    BY <2>1, <2>3, NoRepeats
  <2>5. members[c] = a
    BY <1>2 DEF X
  <2> HIDE DEF a
  <2> QED BY <2>4, <2>5 DEF X
<1>9. P.members = members /\ P.home = home /\ P.generated = generated
  BY <1>1
<1> HIDE DEF P
<1>10. P = [members |-> P.members, home |-> P.home, generated |-> P.generated]
  BY <1>1, <1>9
<1>11. DOMAIN P.members \subseteq DOMAIN K /\ DOMAIN P.home \subseteq DOMAIN K
  <2>1. DOMAIN members \subseteq DOMAIN K
    BY <1>2, <1>4
  <2>2. 1 .. l \subseteq 1 .. Len(K)
    BY <1>3
  <2> QED BY <1>2, <1>3, <1>7, <1>9, <2>1, <2>2
<1>12. ASSUME NEW c \in DOMAIN P.members
       PROVE  /\ P.members[c] \in Seq(DOMAIN P.home) /\ P.members[c] # << >>
              /\ \A i, j \in DOMAIN P.members[c] : P.members[c][i] = P.members[c][j] => i = j
              /\ \A i \in DOMAIN P.members[c] : P.home[P.members[c][i]] = c
  <2>1. c \in G
    BY <1>2, <1>9, <1>12
  <2> DEFINE a == members[c]
  <2>2. /\ a \in Seq(H) /\ Distinct(a) /\ (\A i \in DOMAIN a : a[i] \in Kept(B, c))
        /\ \A x \in Kept(B, c) : \E i \in DOMAIN a : a[i] = x
    BY <1>8, <2>1
  <2>3. Kept(B, c) # {}
    BY <1>4, <2>1
  <2> HIDE DEF a
  <2>4. a # << >>
    BY <2>2, <2>3
  <2>5. \A i \in DOMAIN a : home[a[i]] = c
    BY <1>6, <2>1, <2>2
  <2>6. P.members[c] = a
    BY <1>9 DEF a
  <2> QED BY <1>2, <1>9, <2>2, <2>4, <2>5, <2>6 DEF Distinct
<1>13. ASSUME NEW m \in DOMAIN P.home
       PROVE  /\ P.home[m] \in DOMAIN P.members
              /\ \E i \in DOMAIN P.members[P.home[m]] : P.members[P.home[m]][i] = m
  <2> DEFINE c == home[m]
  <2>1. c \in G /\ m \in Kept(B, c)
    BY <1>2, <1>5, <1>9, <1>13
  <2> HIDE DEF c
  <2>2. \E i \in DOMAIN members[c] : members[c][i] = m
    BY <1>8, <2>1
  <2> QED BY <1>2, <1>9, <2>1, <2>2 DEF c
<1>14. PlanOK(K, P)
  BY <1>10, <1>11, <1>12, <1>13 DEF PlanOK
<1> QED BY <1>14 DEF P

(* The document with null placeholders for the generated containers.       *)
LEMMA Placeholders ==
    ASSUME NEW d, DocOK(d), NEW split, Len(split) \in Nat, opt.streams = "generate"
    PROVE  /\ DocOK(WithPlaceholders(d, split))
           /\ WithPlaceholders(d, split).kind \in Seq(Kinds)
           /\ Len(WithPlaceholders(d, split).kind) = Len(d.kind) + Len(split)
<1> DEFINE fresh == Containers(d, split)
           n == Len(d.kind)
           k == n + Len(split)
           kind == Over([s \in fresh |-> "null"], d.kind)
           kids == Over([s \in fresh |-> << >>], d.kids)
           ext == Over([s \in fresh |-> 0], d.extends)
           D == [kind |-> kind, kids |-> kids, home |-> d.home, extends |-> ext,
                 before |-> d.before, after |-> d.after]
<1>1. /\ d = [kind |-> d.kind, kids |-> d.kids, home |-> d.home, extends |-> d.extends,
              before |-> d.before, after |-> d.after]
      /\ d.kind \in Seq(Kinds) /\ d.kind # << >> /\ d.kind[Root] = "dict"
      /\ d.kids \in [DOMAIN d.kind -> Seq(DOMAIN d.kind)]
      /\ d.extends \in [DOMAIN d.kind -> DOMAIN d.kind \cup {0}]
      /\ d.before \in Seq(DOMAIN d.kind) /\ d.after \in Seq(DOMAIN d.kind)
  BY DEF DocOK
<1>2. n \in Nat /\ k \in Nat /\ n <= k /\ DOMAIN d.kind = 1 .. n /\ n >= 1
  <2> DEFINE y == d.kind
  <2> HIDE DEF y
  <2>1. y \in Seq(Kinds) /\ y # << >>
    BY <1>1 DEF y
  <2>2. Len(y) \in Nat /\ DOMAIN y = 1 .. Len(y) /\ Len(y) >= 1
    BY <2>1
  <2> QED BY <2>2 DEF y
<1>3. WithPlaceholders(d, split) = D
  BY DEF WithPlaceholders
<1>4. fresh = n + 1 .. k
  BY DEF Containers
<1> HIDE DEF fresh
<1>5. (1 .. n) \cup fresh = 1 .. k
  BY <1>2, <1>4
<1>6. \A s \in 1 .. n : s \notin fresh
  BY <1>2, <1>4
<1>7. DOMAIN kind = 1 .. k /\ \A s \in 1 .. k : kind[s] = IF s \in fresh THEN "null" ELSE d.kind[s]
  BY <1>2, <1>5 DEF Over
<1>8. kind \in [1 .. k -> Kinds]
  <2>1. "null" \in Kinds
    BY DEF Kinds
  <2>2. \A s \in 1 .. n : d.kind[s] \in Kinds
    BY <1>1, <1>2
  <2>3. \A s \in 1 .. k : kind[s] \in Kinds
    <3> HIDE DEF kind
    <3> QED BY <1>5, <1>7, <2>1, <2>2
  <2>4. kind = [s \in 1 .. k |-> kind[s]]
    BY <1>7 DEF Over
  <2> HIDE DEF kind
  <2> QED BY <2>3, <2>4
<1>9. kind \in Seq(Kinds) /\ Len(kind) = k /\ kind # << >> /\ kind[Root] = "dict"
  <2> HIDE DEF kind
  <2>1. kind \in Seq(Kinds)
    BY <1>2, <1>8, SeqDef
  <2>2. Len(kind) = k
    BY <1>2, <1>7, <2>1
  <2>3. Root \in 1 .. n /\ Root \in 1 .. k
    BY <1>2 DEF Root
  <2>4. kind[Root] = "dict"
    BY <1>1, <1>6, <1>7, <2>3
  <2> QED BY <1>7, <2>1, <2>2, <2>3, <2>4
<1> DEFINE S == 1 .. n
           T == 1 .. k
<1>10. S \subseteq T
  BY <1>2
<1>11. kids \in [T -> Seq(T)]
  <2>1. d.kids \in [S -> Seq(S)]
    BY <1>1, <1>2
  <2> HIDE DEF S, T
  <2>2. DOMAIN d.kids = S /\ \A s \in S : d.kids[s] \in Seq(T)
    BY <1>10, <2>1, SeqMonotonic
  <2>3. << >> \in Seq(T) /\ S \cup fresh = T
    BY <1>5 DEF S, T
  <2> QED BY <2>2, <2>3 DEF Over
<1>12. ext \in [T -> T \cup {0}]
  <2>1. d.extends \in [S -> S \cup {0}]
    BY <1>1, <1>2
  <2> HIDE DEF S, T
  <2>2. S \cup fresh = T
    BY <1>5 DEF S, T
  <2> QED BY <1>10, <2>1, <2>2 DEF Over
<1>13. d.before \in Seq(T) /\ d.after \in Seq(T)
  <2>1. d.before \in Seq(S) /\ d.after \in Seq(S)
    BY <1>1, <1>2
  <2> HIDE DEF S, T
  <2> QED BY <1>10, <2>1, SeqMonotonic
<1> HIDE DEF kind, kids, ext
<1>14. DocOK(D)
  <2>1. /\ D.kind = kind /\ D.kids = kids /\ D.extends = ext /\ D.before = d.before /\ D.after = d.after
        /\ D = [kind |-> D.kind, kids |-> D.kids, home |-> D.home, extends |-> D.extends,
                before |-> D.before, after |-> D.after]
    OBVIOUS
  <2>2. DOMAIN D.kind = T
    BY <1>7
  <2> HIDE DEF D, T
  <2> QED BY <1>9, <1>11, <1>12, <1>13, <2>1, <2>2 DEF DocOK
<1>15. D.kind = kind
  OBVIOUS
<1> HIDE DEF D
<1> QED BY <1>3, <1>9, <1>14, <1>15

(* What Plans needs of the batches B.                                      *)
Fits(B, K, l) ==
    /\ \A c \in DOMAIN B : c \in DOMAIN K /\ B[c] \subseteq 1 .. l
    /\ \A c, e \in DOMAIN B : \A m : m \in B[c] /\ m \in B[e] => c = e

(* In every mode the batches fit the document.                             *)
LEMMA BatchesFit ==
    ASSUME NEW d, IsDocument(d), opt \in Options, NEW e \in Seq(Source(d)), NEW split, Parts(split, e)
    PROVE  Fits(Batches(d, e, split), WithPlaceholders(d, split).kind, Len(d.kind))
<1> DEFINE B == Batches(d, e, split)
           K == WithPlaceholders(d, split).kind
           l == Len(d.kind)
<1>1. opt.streams \in {"disable", "preserve", "generate"}
  BY WriterAssumption
<1>2. DocOK(d) /\ l \in Nat /\ Source(d) = 1 .. l
  <2>1. DocOK(d)
    BY DocumentIs
  <2>2. l \in Nat /\ DOMAIN d.kind = 1 .. l
    BY <2>1 DEF DocOK
  <2> QED BY <2>1, <2>2 DEF Source
<1>3. CASE opt.streams = "disable"
  <2>1. B = << >> /\ DOMAIN << >> = {}
    BY <1>3 DEF Batches
  <2> HIDE DEF B
  <2> QED BY <1>3, <2>1 DEF Fits, B
<1>4. CASE opt.streams = "preserve"
  <2>1. B = [c \in Range(d.home) |->
                {m \in DOMAIN d.home : d.home[m] = c /\ (opt.unref \/ m \in ToSet(e))}]
    BY <1>4 DEF Batches
  <2>2. K = d.kind
    BY <1>4 DEF WithPlaceholders
  <2>3. DOMAIN d.home \subseteq 1 .. l /\ Range(d.home) \subseteq DOMAIN d.kind
    BY <1>2 DEF IsDocument, Range, Source
  <2>4. ASSUME NEW c \in DOMAIN B
        PROVE  c \in Range(d.home) /\ \A m \in B[c] : m \in DOMAIN d.home /\ d.home[m] = c
    BY <2>1, <2>4
  <2> HIDE DEF B, K, l
  <2> QED BY <1>4, <2>2, <2>3, <2>4 DEF Fits, B, K, l
<1>5. CASE opt.streams = "generate"
  <2>1. B = [c \in Containers(d, split) |-> ToSet(split[c - l])]
    BY <1>5 DEF Batches
  <2>2. Len(split) \in Nat /\ DOMAIN split = 1 .. Len(split)
    BY DEF Parts
  <2>3. K \in Seq(Kinds) /\ Len(K) = l + Len(split)
    BY <1>2, <1>5, <2>2, Placeholders
  <2>4. Containers(d, split) = l + 1 .. l + Len(split)
    BY DEF Containers
  <2> HIDE DEF B, K, l
  <2>5. DOMAIN K = 1 .. l + Len(split)
    BY <1>2, <2>2, <2>3
  <2>6. DOMAIN B = l + 1 .. l + Len(split)
    BY <2>1, <2>4
  <2>7. ASSUME NEW c \in DOMAIN B
        PROVE  c \in DOMAIN K /\ c - l \in DOMAIN split /\ c \in Int /\ B[c] = ToSet(split[c - l])
    <3>1. c \in DOMAIN K /\ c - l \in DOMAIN split /\ c \in Int
      BY <1>2, <2>2, <2>5, <2>6, <2>7
    <3>2. B[c] = ToSet(split[c - l])
      BY <2>1, <2>4, <2>6, <2>7
    <3> QED BY <3>1, <3>2
  <2>8. ASSUME NEW c \in DOMAIN B, NEW m \in B[c] PROVE m \in 1 .. l
    <3>1. m \in ToSet(split[c - l]) /\ c - l \in DOMAIN split
      BY <2>7, <2>8
    <3>2. PICK k \in DOMAIN e : e[k] = m
      BY <3>1 DEF Parts
    <3>3. e[k] \in Source(d)
      OBVIOUS
    <3> QED BY <1>2, <3>2, <3>3
  <2>9. ASSUME NEW b \in DOMAIN B, NEW c \in DOMAIN B, NEW m, m \in B[b], m \in B[c] PROVE b = c
    <3>1. /\ b - l \in DOMAIN split /\ c - l \in DOMAIN split /\ b \in Int /\ c \in Int
          /\ m \in ToSet(split[b - l]) /\ m \in ToSet(split[c - l])
      BY <2>7, <2>9
    <3>2. b - l = c - l
      BY <3>1 DEF Parts
    <3> QED BY <1>2, <3>1, <3>2
  <2> QED BY <2>7, <2>8, <2>9 DEF Fits, B, K, l
<1> QED BY <1>1, <1>3, <1>4, <1>5

(* The empty queue is right.                                               *)
LEMMA EmptyFits ==
    ASSUME NEW d, DocOK(d), NEW P, PlanOK(d.kind, P), NEW o
    PROVE  QueueOK(d.kind, EmptyQueue, P, o)
<1> DEFINE q == EmptyQueue
           e == << >>
<1>1. DOMAIN e = {} /\ \A S : IsPartial(e, S) /\ e \in Seq(S)
  BY DEF IsPartial
<1> HIDE DEF e
<1>2. q = [next |-> 1, map |-> e, pending |-> e, resolving |-> {}, holders |-> e, ignored |-> {}]
  BY DEF EmptyQueue, e
<1>3. q.next = 1 /\ q.map = e /\ q.pending = e /\ q.resolving = {} /\ q.holders = e /\ q.ignored = {}
  BY <1>2
<1> HIDE DEF q
<1>4. IsQueue(q, DOMAIN d.kind)
  BY <1>1, <1>2, <1>3 DEF IsQueue
<1>5. Numbers(q)
  <2>1. 1 .. q.next - 1 = {} /\ q.next >= 1
    BY <1>3
  <2> QED BY <1>1, <1>3, <2>1 DEF Numbers
<1>6. Membership(d.kind, q, P, o)
  BY <1>1, <1>3 DEF Membership
<1> QED BY <1>3, <1>4, <1>5, <1>6 DEF QueueOK, QueueCore, q

(* Setup establishes the invariant of the body.                            *)
LEMMA SetupStep ==
    ASSUME WriterInv, Setup
    PROVE  BodyOK' /\ phase' = "body"
<1> DEFINE e == Compressible(doc)
           split == EvenSplit(e)
           B == Batches(doc, e, split)
           D == WithPlaceholders(doc, split)
           P == LiveObjectStreamPlan(B)
<1>1. /\ doc \in Documents /\ opt \in Options /\ queue = EmptyQueue /\ work = Idle
      /\ out = << >> /\ layout = NoLayout /\ edits = << >>
  BY DEF WriterInv, Setup
<1>2. /\ phase' = "body" /\ doc' = D /\ plan' = P
      /\ UNCHANGED <<opt, queue, work, out, layout, edits>>
  BY DEF Setup
<1>3. IsDocument(doc) /\ DocOK(doc)
  BY <1>1, WriterAssumption, DocumentIs
<1>4. e \in Seq(Source(doc)) /\ Distinct(e)
  BY <1>3, WalkFinds DEF Source
<1> HIDE DEF e
<1>5. Parts(split, e)
  BY <1>4, Splits
<1> HIDE DEF split
<1>6. Fits(B, D.kind, Len(doc.kind))
  BY <1>1, <1>3, <1>4, <1>5, BatchesFit
<1> HIDE DEF B
<1>7. DocOK(D) /\ D.kind \in Seq(Kinds) /\ Len(doc.kind) \in 0 .. Len(D.kind)
  <2>1. Len(doc.kind) \in Nat /\ doc.kind \in Seq(Kinds)
    BY <1>3 DEF DocOK
  <2>2. Len(split) \in Nat
    BY <1>5 DEF Parts
  <2>3. CASE opt.streams = "generate"
    <3>1. DocOK(D) /\ D.kind \in Seq(Kinds) /\ Len(D.kind) = Len(doc.kind) + Len(split)
      BY <1>3, <2>2, <2>3, Placeholders
    <3> QED BY <2>1, <2>2, <3>1
  <2>4. CASE opt.streams # "generate"
    <3>1. D = doc
      BY <2>4 DEF WithPlaceholders
    <3> HIDE DEF D
    <3> QED BY <1>3, <2>1, <3>1
  <2> QED BY <2>3, <2>4
<1> HIDE DEF D
<1>8. PlanOK(D.kind, P)
  <2> DEFINE K == D.kind
             l == Len(doc.kind)
  <2>1. Fits(B, K, l) /\ K \in Seq(Kinds) /\ l \in 0 .. Len(K)
    BY <1>6, <1>7
  <2> HIDE DEF K, l
  <2>2. PlanOK(K, P)
    BY <2>1, Plans DEF Fits
  <2> QED BY <2>2 DEF K
<1> HIDE DEF P
<1>9. QueueOK(D.kind, EmptyQueue, P, opt)
  BY <1>7, <1>8, EmptyFits
<1>10. << >> \in Seq(Nat)
  OBVIOUS
<1> QED BY <1>1, <1>2, <1>7, <1>8, <1>9, <1>10 DEF BodyOK

-----------------------------------------------------------------------------
(* What a finished file shows a reader.                                    *)

(* Everything in the file is an item or a member of one.                   *)
LEMMA WrittenIs ==
    ASSUME NEW w
    PROVE  w \in Written <=>
              \E i \in DOMAIN out : w = out[i] \/ \E k \in DOMAIN out[i].members : w = out[i].members[k]
<1>1. w \in Written <=> \E i \in DOMAIN out : w \in {out[i]} \cup ToSet(out[i].members)
  BY DEF Written
<1>2. \A i \in DOMAIN out : w \in ToSet(out[i].members) <=> \E k \in DOMAIN out[i].members : w = out[i].members[k]
  BY DEF ToSet
<1> QED BY <1>1, <1>2

(* Reading through the rows of a finished file.                            *)
LEMMA ReadsFinal ==
    ASSUME FileFinal
    PROVE  /\ DOMAIN result.rows = 1 .. result.size - 1
           /\ \A n : ReadAt(n) = Reads(out, Rows(layout, result.size - 1), n)
           /\ \A n : result.rows[n] = Rows(layout, result.size - 1)[n]
<1>1. result.rows = Rows(layout, result.size - 1)
  BY DEF FileFinal
<1>2. DOMAIN Rows(layout, result.size - 1) = 1 .. result.size - 1
  BY DEF Rows
<1>3. \A n : ReadAt(n) = Reads(out, result.rows, n)
  BY DEF ReadAt, Reads
<1> QED BY <1>1, <1>2, <1>3

(* The rows of a finished file.                                            *)
LEMMA DoneRows ==
    ASSUME FileFinal
    PROVE  /\ DOMAIN result.rows = 1 .. result.size - 1
           /\ \A n \in DOMAIN result.rows :
                 /\ result.rows[n].type # 0
                 /\ ReadAt(n).number = n
                 /\ {w \in Written : w.number = n} = {ReadAt(n)}
           /\ \A i, j \in DOMAIN out : i # j => out[i].number # out[j].number
<1> DEFINE top == result.size - 1
           rows == Rows(layout, top)
<1>1. Final(out, layout, top, doc, queue, plan, opt, edits)
  BY DEF FileFinal
<1>2. /\ DOMAIN result.rows = 1 .. top
      /\ \A n : ReadAt(n) = Reads(out, rows, n)
      /\ \A n : result.rows[n] = rows[n]
  BY ReadsFinal
<1> HIDE DEF rows, top
<1>3. ASSUME NEW n \in 1 .. top
      PROVE  result.rows[n].type # 0 /\ ReadAt(n).number = n /\ ReadAt(n) \in Written
  <2>1. /\ rows[n].type # 0
        /\ Reads(out, rows, n).number = n
        /\ \/ \E i \in DOMAIN out : Reads(out, rows, n) = out[i]
           \/ \E i \in DOMAIN out : \E k \in DOMAIN out[i].members : Reads(out, rows, n) = out[i].members[k]
    BY <1>1, ReadNumber DEF rows
  <2> DEFINE x == ReadAt(n)
  <2>2. x = Reads(out, rows, n)
    BY <1>2
  <2> HIDE DEF x
  <2>3. x \in Written
    BY <2>1, <2>2, WrittenIs
  <2> QED BY <1>2, <2>1, <2>2, <2>3 DEF x
<1>4. ASSUME NEW n \in 1 .. top, NEW w \in Written, w.number = n
      PROVE  w = ReadAt(n)
  <2>1. PICK i \in DOMAIN out : w = out[i] \/ \E k \in DOMAIN out[i].members : w = out[i].members[k]
    BY WrittenIs
  <2>2. /\ out[i].number = n => out[i] = Reads(out, rows, n)
        /\ \A k \in DOMAIN out[i].members :
              out[i].members[k].number = n => out[i].members[k] = Reads(out, rows, n)
    BY <1>1, WrittenOnce DEF rows
  <2> QED BY <1>2, <1>4, <2>1, <2>2
<1>5. ASSUME NEW n \in 1 .. top PROVE {w \in Written : w.number = n} = {ReadAt(n)}
  <2> DEFINE x == ReadAt(n)
  <2>1. x \in Written /\ x.number = n /\ \A w \in Written : w.number = n => w = x
    BY <1>3, <1>4
  <2> HIDE DEF x
  <2>2. {w \in Written : w.number = n} = {x}
    BY <2>1
  <2> QED BY <2>2 DEF x
<1>6. ASSUME NEW i \in DOMAIN out, NEW j \in DOMAIN out, i < j PROVE out[i].number # out[j].number
  <2>1. Len(out) \in Nat /\ DOMAIN out = 1 .. Len(out)
    BY <1>1, SeqFacts DEF Final
  <2>2. j \in 2 .. Len(out) /\ (i = 1 \/ i \in 2 .. Len(out))
    BY <1>6, <2>1
  <2> DEFINE u == layout.uncompressed
  <2>3. /\ \A k \in 2 .. Len(out) : out[k].number \in DOMAIN u /\ u[out[k].number] = k
        /\ DOMAIN u \subseteq 1 .. top /\ out[1].number = 0
    BY <1>1 DEF Final, Direct, Item
  <2>4. CASE i = 1
    <3>1. 0 \notin 1 .. top
      OBVIOUS
    <3> QED BY <2>2, <2>3, <2>4, <3>1
  <2>5. CASE i \in 2 .. Len(out)
    BY <1>6, <2>2, <2>3, <2>5
  <2> QED BY <2>2, <2>4, <2>5
<1>7. ASSUME NEW i \in DOMAIN out, NEW j \in DOMAIN out, i # j PROVE out[i].number # out[j].number
  <2>1. DOMAIN out \subseteq Int
    BY <1>1, SeqFacts DEF Final
  <2>2. i < j \/ j < i
    BY <1>7, <2>1
  <2> QED BY <1>6, <2>2
<1> QED BY <1>2, <1>3, <1>5, <1>7 DEF top

(* One object of a finished file.                                          *)
LEMMA DoneObject ==
    ASSUME FileFinal, NEW s \in DOMAIN queue.map, NEW x, x = ReadAt(queue.map[s])
    PROVE  /\ queue.map[s] \in DOMAIN result.rows /\ x.source = s /\ x.kind # "length"
           /\ s \in DOMAIN plan.home =>
                 /\ x.kind = MemberKind(doc, s)
                 /\ s \notin Edited0(edits) => Targets(x.refs) = MemberShown(doc, s)
           /\ s \notin DOMAIN plan.home /\ s \in DOMAIN plan.members => x.kind = "objstm"
           /\ s \notin DOMAIN plan.home /\ s \notin DOMAIN plan.members =>
                 /\ x.kind = doc.kind[s]
                 /\ s \notin Edited0(edits) => Targets(x.refs) = Shown(doc, s)
<1> DEFINE top == result.size - 1
           rows == Rows(layout, top)
<1>1. Final(out, layout, top, doc, queue, plan, opt, edits)
  BY DEF FileFinal
<1>2. DOMAIN result.rows = 1 .. top /\ x = Reads(out, rows, queue.map[s])
  BY ReadsFinal
<1> HIDE DEF top
<1> QED BY <1>1, <1>2, ReadObject

(* The references of a finished file.                                      *)
LEMMA DoneRefs ==
    ASSUME FileFinal
    PROVE  /\ \A i \in DOMAIN result.trailer :
                 LET r == result.trailer[i]
                 IN  IF r.to \in DOMAIN queue.map
                     THEN r.number = queue.map[r.to] /\ ReadAt(r.number).source = r.to
                     ELSE r.number = 0 \/ r.number >= result.size
           /\ \A w \in Written :
                /\ \A i \in DOMAIN w.refs :
                      LET r == w.refs[i]
                      IN  IF r.number = 0 THEN r.to \in queue.ignored \cup queue.resolving
                          ELSE r.number \in DOMAIN result.rows /\ ReadAt(r.number).source = r.to
                               /\ ReadAt(r.number).kind # "length"
                /\ w \in Range(out) /\ w.length # 0 =>
                      /\ w.length \in DOMAIN result.rows
                      /\ ReadAt(w.length).kind = "length" /\ ReadAt(w.length).source = w.source
<1> DEFINE top == result.size - 1
           rows == Rows(layout, top)
<1>1. Final(out, layout, top, doc, queue, plan, opt, edits)
  BY DEF FileFinal
<1>2. DOMAIN result.rows = 1 .. top /\ \A n : ReadAt(n) = Reads(out, rows, n)
  BY ReadsFinal
<1>3. QueueOK(doc.kind, queue, plan, opt)
  BY <1>1 DEF Final
<1> HIDE DEF top, rows
<1>4. ASSUME NEW i \in DOMAIN result.trailer
      PROVE  IF result.trailer[i].to \in DOMAIN queue.map
             THEN /\ result.trailer[i].number = queue.map[result.trailer[i].to]
                  /\ ReadAt(result.trailer[i].number).source = result.trailer[i].to
             ELSE result.trailer[i].number = 0 \/ result.trailer[i].number >= result.size
  <2> DEFINE r == result.trailer[i]
  <2>1. IF r.to \in DOMAIN queue.map THEN r.number = queue.map[r.to]
        ELSE r.number = 0 \/ r.number >= result.size
    BY <1>4 DEF FileFinal
  <2> HIDE DEF r
  <2>2. r.to \in DOMAIN queue.map => ReadAt(queue.map[r.to]).source = r.to
    BY DoneObject
  <2>3. IF r.to \in DOMAIN queue.map THEN r.number = queue.map[r.to] /\ ReadAt(r.number).source = r.to
        ELSE r.number = 0 \/ r.number >= result.size
    BY <2>1, <2>2
  <2> QED BY <2>3 DEF r
<1>5. ASSUME NEW r, RefOK(r, queue)
      PROVE  IF r.number = 0 THEN r.to \in queue.ignored \cup queue.resolving
             ELSE r.number \in DOMAIN result.rows /\ ReadAt(r.number).source = r.to /\ ReadAt(r.number).kind # "length"
  <2>1. CASE r.number = 0 /\ r.to \in queue.ignored \cup queue.resolving
    BY <2>1
  <2>2. CASE r.to \in DOMAIN queue.map /\ r.number = queue.map[r.to]
    <3>1. r.number # 0
      BY <1>3, <2>2 DEF QueueOK, QueueCore, Numbers
    <3>2. queue.map[r.to] \in DOMAIN result.rows /\ ReadAt(queue.map[r.to]).source = r.to
          /\ ReadAt(queue.map[r.to]).kind # "length"
      BY <2>2, DoneObject
    <3> QED BY <2>2, <3>1, <3>2
  <2> QED BY <1>5, <2>1, <2>2 DEF RefOK
<1>6. ASSUME NEW w \in Written, NEW i \in DOMAIN w.refs PROVE RefOK(w.refs[i], queue)
  <2>1. PICK k \in DOMAIN out : w = out[k] \/ \E j \in DOMAIN out[k].members : w = out[k].members[j]
    BY WrittenIs
  <2>2. /\ \A j \in DOMAIN out[k].refs : RefOK(out[k].refs[j], queue)
        /\ \A m \in DOMAIN out[k].members : \A j \in DOMAIN out[k].members[m].refs :
              RefOK(out[k].members[m].refs[j], queue)
    BY <1>1, ItemRefs
  <2> QED BY <1>6, <2>1, <2>2
<1>7. ASSUME NEW w, w \in Range(out), w.length # 0
      PROVE  /\ w.length \in DOMAIN result.rows
             /\ ReadAt(w.length).kind = "length" /\ ReadAt(w.length).source = w.source
  <2>1. PICK i \in DOMAIN out : w = out[i]
    BY <1>7 DEF Range
  <2> DEFINE s == w.source
             n == queue.holders[s]
             u == layout.uncompressed
  <2>2. s \in DOMAIN queue.holders /\ w.length = n
    BY <1>1, <1>7, <2>1, ItemRefs
  <2>3. s \in DOMAIN queue.map \ DOMAIN plan.home
    BY <1>3, <2>2 DEF QueueOK, QueueCore, Membership
  <2>4. n \in DOMAIN u /\ out[u[n]].source = s /\ HolderItem(out[u[n]], s, queue)
    BY <1>1, <2>2, <2>3, ReadOwner
  <2> HIDE DEF n, s
  <2>5. n \in 1 .. top /\ Reads(out, rows, n) = out[u[n]]
    BY <1>1, <2>4, ReadDirect DEF rows
  <2>6. ReadAt(n) = out[u[n]]
    BY <1>2, <2>5
  <2>7. out[u[n]].kind = "length"
    BY <2>4 DEF HolderItem
  <2> QED BY <1>2, <2>2, <2>4, <2>5, <2>6, <2>7 DEF s
<1>8. ASSUME NEW w \in Written, NEW i \in DOMAIN w.refs
      PROVE  IF w.refs[i].number = 0 THEN w.refs[i].to \in queue.ignored \cup queue.resolving
             ELSE /\ w.refs[i].number \in DOMAIN result.rows /\ ReadAt(w.refs[i].number).source = w.refs[i].to
                  /\ ReadAt(w.refs[i].number).kind # "length"
  BY <1>5, <1>6
<1> QED BY <1>4, <1>7, <1>8

(* The objects of a finished file.                                         *)
LEMMA DoneObjects ==
    ASSUME FileFinal
    PROVE  \A s \in DOMAIN queue.map :
              LET w == ReadAt(queue.map[s])
                  lost == s \in DOMAIN plan.home /\ doc.kind[s] \in Streams
              IN  CASE lost -> w.kind = "null"
                    [] s \in DOMAIN plan.members \ DOMAIN plan.home -> w.kind = "objstm"
                    [] OTHER -> /\ w.kind = doc.kind[s]
                                /\ s \notin ToSet(edits) =>
                                      [i \in DOMAIN w.refs |-> w.refs[i].to] = Shown(doc, s)
<1> SUFFICES ASSUME NEW s \in DOMAIN queue.map
             PROVE  LET w == ReadAt(queue.map[s])
                        lost == s \in DOMAIN plan.home /\ doc.kind[s] \in Streams
                    IN  CASE lost -> w.kind = "null"
                          [] s \in DOMAIN plan.members \ DOMAIN plan.home -> w.kind = "objstm"
                          [] OTHER -> /\ w.kind = doc.kind[s]
                                      /\ s \notin ToSet(edits) =>
                                            [i \in DOMAIN w.refs |-> w.refs[i].to] = Shown(doc, s)
  OBVIOUS
<1> DEFINE x == ReadAt(queue.map[s])
           refs == [i \in DOMAIN x.refs |-> x.refs[i].to]
           lost == s \in DOMAIN plan.home /\ doc.kind[s] \in Streams
           strm == s \in DOMAIN plan.members \ DOMAIN plan.home
           same == x.kind = doc.kind[s] /\ (s \notin ToSet(edits) => refs = Shown(doc, s))
<1>1. /\ s \in DOMAIN plan.home =>
            /\ x.kind = MemberKind(doc, s)
            /\ s \notin Edited0(edits) => Targets(x.refs) = MemberShown(doc, s)
      /\ s \notin DOMAIN plan.home /\ s \in DOMAIN plan.members => x.kind = "objstm"
      /\ s \notin DOMAIN plan.home /\ s \notin DOMAIN plan.members =>
            /\ x.kind = doc.kind[s]
            /\ s \notin Edited0(edits) => Targets(x.refs) = Shown(doc, s)
  BY DoneObject
<1>2. Targets(x.refs) = refs /\ ToSet(edits) = Edited0(edits)
  BY DEF Targets, ToSet, Edited0
<1> HIDE DEF x, refs
<1>3. lost => x.kind = "null"
  BY <1>1 DEF MemberKind
<1>4. strm => x.kind = "objstm"
  BY <1>1
<1>5. ~lost /\ ~strm => same
  BY <1>1, <1>2 DEF MemberKind, MemberShown
<1>6. ~(lost /\ strm)
  OBVIOUS
<1>7. (CASE lost -> x.kind = "null" [] strm -> x.kind = "objstm" [] OTHER -> same)
  BY <1>3, <1>4, <1>5, <1>6
<1> QED BY <1>7 DEF x, refs

-----------------------------------------------------------------------------
(* The invariant and the theorems.                                         *)

(* One owner per number, as a count.                                       *)
LEMMA Owned ==
    ASSUME Numbers(queue), queue.next \in Nat
    PROVE  NumbersOwned
<1> DEFINE Of(n) == {<<"object", s>> : s \in {t \in DOMAIN queue.map : queue.map[t] = n}}
           Held(n) == {<<"length", s>> : s \in {t \in DOMAIN queue.holders : queue.holders[t] = n}}
<1> SUFFICES ASSUME NEW n \in 1 .. queue.next - 1
             PROVE  Cardinality(Of(n) \cup Held(n)) = 1
  BY DEF NumbersOwned
<1> SUFFICES \E x : Of(n) \cup Held(n) = {x}
  <2> HIDE DEF Of, Held
  <2> QED BY FS_Singleton
<1>1. /\ \A s \in DOMAIN queue.map : queue.map[s] \in Int
      /\ \A s, t \in DOMAIN queue.map : queue.map[s] = queue.map[t] => s = t
      /\ \A s \in DOMAIN queue.holders : s \in DOMAIN queue.map /\ queue.holders[s] = queue.map[s] + 1
      /\ \A s \in DOMAIN queue.holders, t \in DOMAIN queue.map : queue.holders[s] # queue.map[t]
      /\ (\E s \in DOMAIN queue.map : queue.map[s] = n) \/ (\E s \in DOMAIN queue.holders : queue.holders[s] = n)
  BY DEF Numbers
<1>2. CASE \E s \in DOMAIN queue.map : queue.map[s] = n
  <2>1. PICK s \in DOMAIN queue.map : queue.map[s] = n
    BY <1>2
  <2>2. {t \in DOMAIN queue.map : queue.map[t] = n} = {s}
    BY <1>1, <2>1
  <2>3. {t \in DOMAIN queue.holders : queue.holders[t] = n} = {}
    BY <1>1, <2>1
  <2>4. Of(n) = {<<"object", s>>} /\ Held(n) = {}
    BY <2>2, <2>3
  <2>5. Of(n) \cup Held(n) = {<<"object", s>>}
    BY <2>4
  <2> HIDE DEF Of, Held
  <2> QED BY <2>5
<1>3. CASE \E s \in DOMAIN queue.holders : queue.holders[s] = n
  <2>1. PICK s \in DOMAIN queue.holders : queue.holders[s] = n
    BY <1>3
  <2>2. {t \in DOMAIN queue.holders : queue.holders[t] = n} = {s}
    <3>1. ASSUME NEW t \in DOMAIN queue.holders, queue.holders[t] = n PROVE t = s
      <4>1. queue.map[t] + 1 = queue.map[s] + 1 /\ queue.map[t] \in Int /\ queue.map[s] \in Int
        BY <1>1, <2>1, <3>1
      <4>2. queue.map[t] = queue.map[s]
        BY <4>1
      <4> QED BY <1>1, <4>2
    <3> QED BY <2>1, <3>1
  <2>3. {t \in DOMAIN queue.map : queue.map[t] = n} = {}
    BY <1>1, <2>1
  <2>4. Held(n) = {<<"length", s>>} /\ Of(n) = {}
    BY <2>2, <2>3
  <2>5. Of(n) \cup Held(n) = {<<"length", s>>}
    BY <2>4
  <2> HIDE DEF Of, Held
  <2> QED BY <2>5
<1> QED BY <1>1, <1>2, <1>3

(* The same, from the invariant.                                           *)
LEMMA InvOwned ==
    ASSUME WriterInv
    PROVE  NumbersOwned
<1>1. CASE phase = "setup"
  <2>1. queue.next = 1
    BY <1>1 DEF WriterInv, EmptyQueue
  <2>2. 1 .. queue.next - 1 = {}
    BY <2>1
  <2> QED BY <2>2 DEF NumbersOwned
<1>2. CASE phase # "setup"
  <2>1. QueueOK(doc.kind, queue, plan, opt)
    BY <1>2 DEF WriterInv, BodyOK, FileFinal, Final
  <2> QED BY <2>1, Owned DEF QueueOK, QueueCore, IsQueue
<1> QED BY <1>1, <1>2

(* The table of one item.                                                  *)
LEMMA ItemTable ==
    ASSUME NEW item, NEW d, NEW q, NEW w, NEW P, NEW o, NEW ed, ItemOK(item, d, q, w, P, o, ed), ~o.qdf \/ ed = << >>
    PROVE  item.table = Starts(Sizes(item.members))
<1>1. CASE ContainerItem(item, item.source, d, q, P, o, ed)
  BY <1>1 DEF ContainerItem
<1>2. CASE item.members = << >> /\ item.table = << >>
  <2>1. Sizes(<< >>) = << >>
    BY DEF Sizes
  <2> QED BY <1>2, <2>1 DEF Starts
<1> QED BY <1>1, <1>2 DEF ItemOK, PlainItem, HolderItem

(* The tables of all items, from the invariant.                            *)
LEMMA InvTables ==
    ASSUME WriterInv
    PROVE  TablesExact
<1> SUFFICES ASSUME NEW i \in DOMAIN out, ~opt.qdf \/ edits = << >>
             PROVE  out[i].table = Starts(Sizes(out[i].members))
  BY DEF TablesExact
<1>1. CASE out = << >>
  BY <1>1
<1>2. CASE phase = "done"
  <2>1. Final(out, layout, result.size - 1, doc, queue, plan, opt, edits)
    BY <1>2 DEF WriterInv, FileFinal
  <2> QED BY <2>1, ItemRefs
<1>3. CASE out # << >> /\ phase # "done"
  <2>1. FileOK(out, layout, doc, queue, work, plan, opt, edits)
    BY <1>3 DEF WriterInv, BodyOK
  <2>2. Len(out) \in Nat /\ DOMAIN out = 1 .. Len(out)
    BY <2>1, SeqFacts DEF FileOK
  <2>3. CASE i = 1
    <3>1. out[i].table = << >> /\ out[i].members = << >>
      BY <2>1, <2>3 DEF FileOK, Item
    <3>2. Sizes(<< >>) = << >>
      BY DEF Sizes
    <3> QED BY <3>1, <3>2 DEF Starts
  <2>4. CASE i \in 2 .. Len(out)
    <3>1. ItemOK(out[i], doc, queue, work, plan, opt, edits)
      BY <2>1, <2>4 DEF FileOK
    <3> QED BY <3>1, ItemTable
  <2> QED BY <2>2, <2>3, <2>4
<1> QED BY <1>1, <1>2, <1>3

(* The invariant holds at first.                                           *)
LEMMA InvStarts ==
    ASSUME Init
    PROVE  WriterInv
<1>1. /\ phase = "setup" /\ doc \in Documents /\ opt \in Options /\ plan = NoPlan /\ queue = EmptyQueue
      /\ work = Idle /\ out = << >> /\ layout = NoLayout /\ edits = << >>
  BY Zenon DEF Init
<1> QED BY <1>1 DEF WriterInv

(* Every step keeps the invariant.                                         *)
LEMMA InvKept ==
    ASSUME WriterInv, [Next]_vars
    PROVE  WriterInv'
<1>1. CASE Setup
  <2>1. BodyOK' /\ phase' = "body"
    BY <1>1, SetupStep
  <2> QED BY <2>1 DEF WriterInv
<1>2. CASE SeedQueue
  <2>1. BodyOK /\ phase' = "body"
    BY <1>2 DEF WriterInv, SeedQueue
  <2>2. BodyOK'
    BY <1>2, <2>1, SeedStep
  <2> QED BY <2>1, <2>2 DEF WriterInv
<1>3. CASE WriteObject
  <2>1. BodyOK
    BY <1>3, Zenon DEF WriterInv, WriteObject
  <2>2. BodyOK' /\ (phase' = "body" \/ (phase' = "failed" /\ ~Sound'))
    BY <1>3, <2>1, WriteStep
  <2> QED BY <2>2 DEF WriterInv
<1>4. CASE EmitMember
  <2>1. BodyOK
    BY <1>4, Zenon DEF WriterInv, EmitMember
  <2>2. BodyOK' /\ (phase' = "body" \/ (phase' = "failed" /\ ~Sound'))
    BY <1>4, <2>1, EmitStep
  <2> QED BY <2>2 DEF WriterInv
<1>5. CASE WriteXref
  <2>1. BodyOK
    BY <1>5, Zenon DEF WriterInv, WriteXref
  <2>2. (phase' = "done" /\ FileFinal') \/ (phase' = "failed" /\ BodyOK' /\ ~Sound')
    BY <1>5, <2>1, XrefStep
  <2> QED BY <2>2 DEF WriterInv
<1>6. CASE OutputFails
  <2>1. BodyOK /\ Fail("output")
    BY <1>6 DEF WriterInv, OutputFails
  <2>2. BodyOK' /\ phase' = "failed" /\ error' = "output"
    BY <2>1, FailStep
  <2> QED BY <2>2 DEF WriterInv
<1>7. CASE UNCHANGED vars
  <2>1. UNCHANGED <<phase, doc, opt, plan, queue, work, out, layout, edits, result, error>>
    BY <1>7 DEF vars
  <2>2. BodyOK' <=> BodyOK
    BY <2>1 DEF BodyOK
  <2>3. FileFinal' <=> FileFinal
    BY <2>1 DEF FileFinal
  <2>4. Sound' <=> Sound
    BY <2>1 DEF Sound, Broken, HasObjectStreams, Source
  <2> QED BY <2>1, <2>2, <2>3, <2>4 DEF WriterInv
<1> QED BY <1>1, <1>2, <1>3, <1>4, <1>5, <1>6, <1>7 DEF Next, Step, Finished

(* WriterInv holds in every reachable state: what the queue, the object    *)
(* stream in hand, the bytes written and the recorded rows owe each other  *)
(* between any two steps of write_plain_live.                              *)
THEOREM Invariant == Spec => []WriterInv
<1>1. Init => WriterInv
  BY InvStarts
<1>2. WriterInv /\ [Next]_vars => WriterInv'
  BY InvKept
<1> QED BY <1>1, <1>2, PTL DEF Spec

(* No number is given twice, and every number below /Size of a finished    *)
(* file has a row that leads to the one place where the object with that   *)
(* number stands (open_object, emit_live_object_stream, write_xref_table). *)
THEOREM RowsRight == Spec => []RowsExact
<1>1. WriterInv => RowsExact
  <2> SUFFICES ASSUME WriterInv PROVE RowsExact
    OBVIOUS
  <2>1. NumbersOwned
    BY InvOwned
  <2>2. ASSUME phase = "done" PROVE FileFinal
    BY <2>2 DEF WriterInv
  <2> QED BY <2>1, <2>2, DoneRows DEF RowsExact
<1> QED BY <1>1, Invariant, PTL

(* A written reference leads to the object it stood for, whatever the      *)
(* callbacks changed while the body went out; a /Length leads to the       *)
(* holder of its own stream, and a trailer reference to its object or to   *)
(* nothing (unparse_child, stream_length_holders, extend_late_trailer_map).*)
THEOREM ReferencesRight == Spec => []ReferencesLead
<1>1. WriterInv => ReferencesLead
  <2> SUFFICES ASSUME WriterInv PROVE ReferencesLead
    OBVIOUS
  <2>1. ASSUME phase = "done" PROVE FileFinal
    BY <2>1 DEF WriterInv
  <2> QED BY <2>1, DoneRefs DEF ReferencesLead, TrailerSound
<1> QED BY <1>1, Invariant, PTL

(* Every object that got a number can be read back from a finished file    *)
(* with its kind and its references, and an object stream's table finds    *)
(* every member (write_object, emit_live_object_stream).                   *)
THEOREM ObjectsKept == Spec => []NothingLost
<1>1. WriterInv => NothingLost
  <2> SUFFICES ASSUME WriterInv PROVE NothingLost
    OBVIOUS
  <2>1. TablesExact
    BY InvTables
  <2>2. ASSUME phase = "done" PROVE FileFinal
    BY <2>2 DEF WriterInv
  <2>3. FileFinal => Root \in DOMAIN result.map
    BY DEF FileFinal
  <2> QED BY <2>1, <2>2, <2>3, DoneObjects DEF NothingLost
<1> QED BY <1>1, Invariant, PTL

(* A write of a sound document fails only when the output itself fails: no *)
(* lookup of the live writer comes up empty, whatever references the       *)
(* callbacks add or remove.                                                *)
THEOREM SoundWrites == Spec => []SoundSucceeds
<1>1. WriterInv => SoundSucceeds
  BY DEF WriterInv, SoundSucceeds
<1> QED BY <1>1, Invariant, PTL
=============================================================================
