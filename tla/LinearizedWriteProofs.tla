----------------------- MODULE LinearizedWriteProofs -----------------------
(***************************************************************************)
(* Proofs about LinearizedWrite, for every plan that the numbering numbers *)
(* soundly, every hint stream and every change that the callbacks make:    *)
(* what the front of the file promises holds for what follows, when the    *)
(* second pass writes every object as long as the first.                   *)
(***************************************************************************)
EXTENDS LinearizedWrite, FiniteSetTheorems, Induction

BodyPhases == {"root", "open", "page", "rest"}
Phases == BodyPhases \cup {"front", "hints", "done", "failed"}

Above(S, n) == {x \in S : x > n}

(* The numbers S, except the upper part T that is still to be written, lie *)
(* one after the other from start, and the output has got to at.           *)
Laid(o, l, S, T, start, at) ==
    /\ T \subseteq S
    /\ \A n \in S \ T : \A x \in T : n < x
    /\ T = S => at = start
    /\ T # S => o[Min(S)] = start
    /\ \A n \in S \ T :
          /\ n \in DOMAIN o /\ n \in DOMAIN l
          /\ o[n] \in Nat /\ l[n] \in Nat \ {0}
          /\ start <= o[n] /\ o[n] + l[n] <= at
          /\ Above(S, n) = T => o[n] + l[n] = at
          /\ Above(S, n) # T => o[Min(Above(S, n))] = o[n] + l[n]

(* The output has got to where the first number of T is expected.          *)
Expected(o, S, T, at, end) ==
    /\ T \subseteq S
    /\ \A n \in S \ T : \A x \in T : n < x
    /\ T = {} => at = end
    /\ T # {} => o[Min(T)] = at

Root == Slot(Object(file.root))
BodyStart ==
    FrontStart + (IF UsesObjectStreams(file) THEN first_pass_region_len(Cardinality(FirstRange), wide_field2)
                  ELSE Frame + RowSize * Cardinality(FirstRange))

(* Where a section starts and ends: in the second pass, or in both.        *)
StartOf(p) ==
    CASE p = "root" -> BodyStart
      [] p = "open" -> offs[Root] + lens[Root]
      [] p = "page" -> layout.hint + hint.length
      [] p = "rest" -> layout.end + hint.length
EndOf(p) ==
    CASE p = "root" -> offs[Root] + lens[Root]
      [] p = "open" -> layout.hint - EncryptBytes
      [] p = "page" -> layout.end + hint.length
      [] p = "rest" -> layout.main

(* The sections before a phase.                                            *)
Before(ph) ==
    CASE ph = "root" -> {}
      [] ph = "open" -> {"root"}
      [] ph = "page" -> {"root", "open"}
      [] ph = "rest" -> {"root", "open", "page"}
      [] ph \in {"hints", "done", "failed"} -> BodyPhases
      [] ph = "front" -> {}

IsFunction(f) == f = [x \in DOMAIN f |-> f[x]]

Shape ==
    /\ Numbered(file, names)
    /\ pass \in {1, 2} /\ phase \in Phases
    /\ pos \in Nat
    /\ size \in [DOMAIN file.size -> Nat \ {0}]
    /\ hint.length \in Nat /\ (pass = 1 => hint.length = 0)
    /\ DOMAIN layout = {"hint", "end", "main", "entry", "length", "lens"}
    /\ layout.hint \in Nat /\ layout.end \in Nat /\ layout.main \in Nat
    /\ IsFunction(offs) /\ IsFunction(lens)
    /\ phase = "hints" => pass = 1
    /\ phase = "done" => pass = 2

(* Numbers whose length is known after the sections before a phase.        *)
Written(ph) == UNION {Section(p) : p \in Before(ph)}

(* The parts in front of and between the sections.                         *)
FixedParts(ph) ==
    /\ ph # "front" => /\ ParamNumber \in DOMAIN offs /\ offs[ParamNumber] = Frame
                       /\ UsesObjectStreams(file) => /\ Slot(FirstXref) \in DOMAIN offs
                                                     /\ offs[Slot(FirstXref)] = FrontStart
    /\ "open" \in Before(ph) /\ Encrypted => /\ Slot(EncryptDict) \in DOMAIN offs
                                             /\ offs[Slot(EncryptDict)] = layout.hint - Frame
    /\ "open" \in Before(ph) => layout.hint >= EncryptBytes
    /\ Before(ph) = BodyPhases /\ UsesObjectStreams(file) => /\ Slot(MainXref) \in DOMAIN offs
                                                             /\ offs[Slot(MainXref)] = layout.main

EntryAt(at) == at + (IF UsesObjectStreams(file) THEN 0 ELSE Frame)

(* The first pass, section by section.                                     *)
FirstPass ==
    pass = 1 =>
        /\ \A p \in Before(phase) : Laid(offs, lens, Section(p), {}, StartOf(p), EndOf(p))
        /\ phase \in BodyPhases => Laid(offs, lens, Section(phase), todo, StartOf(phase), pos)
        /\ FixedParts(phase)
        /\ phase # "failed"
        /\ DOMAIN lens = Written(phase) \cup (IF phase \in BodyPhases THEN Section(phase) \ todo ELSE {})
        /\ DOMAIN lens \subseteq DOMAIN offs
        /\ \A n \in DOMAIN offs : ~IsMember(n) /\ n \in 1 .. Len(names.table) /\ n # Slot(Hint)
        /\ phase = "hints" =>
              /\ layout.lens = lens
              /\ layout.entry = EntryAt(layout.main)
              /\ layout.length = layout.main + MainLength(layout.main) /\ MainLength(layout.main) \in Nat
        /\ todo = {} \/ phase \in BodyPhases

(* The second pass: every number has an offset, and what was not written   *)
(* again has the first pass's length.                                      *)
AllKnown ==
    /\ DOMAIN offs = {n \in 1 .. Len(names.table) : ~IsMember(n)}
    /\ DOMAIN lens = Written("hints") /\ DOMAIN layout.lens = DOMAIN lens
LensAhead ==
    /\ phase = "front" => Repeated
    /\ phase \in BodyPhases =>
          /\ todo \subseteq Section(phase)
          /\ \A p \in BodyPhases \ (Before(phase) \cup {phase}) : \A n \in Section(p) : lens[n] = layout.lens[n]
          /\ \A n \in todo : lens[n] = layout.lens[n]

(* What the parameter dictionary promises.                                 *)
Promises ==
    /\ params.H = <<layout.hint, hint.length>> /\ params.E = layout.end + hint.length
    /\ params.O = Slot(Object(Head(file.part2)))
    /\ params.T = EntryAt(layout.main) - 1
    /\ params.L = layout.main + MainLength(layout.main - hint.length)
    /\ layout.main >= hint.length

(* As long as every length is the first pass's, the layout is, too.        *)
AsPromised ==
    Repeated =>
        /\ \A p \in BodyPhases : Laid(offs, lens, Section(p), {}, StartOf(p), EndOf(p))
        /\ FixedParts("hints")
        /\ offs[Slot(Hint)] = layout.hint
        /\ phase \in BodyPhases => Expected(offs, Section(phase), todo, pos, EndOf(phase))

Ended ==
    /\ phase = "failed" => ~Repeated \/ error = "region exceeded"
    /\ phase # "front" /\ phase # "failed" => front.prev = layout.main
    /\ phase = "done" => /\ back.at = layout.main /\ back.entry = EntryAt(layout.main)
                         /\ pos = layout.main + MainLength(layout.main)

SecondPass == pass = 2 => AllKnown /\ LensAhead /\ Promises /\ AsPromised /\ Ended

LinearInv == Shape /\ FirstPass /\ SecondPass

-----------------------------------------------------------------------------
(* Least numbers, and sections laid out one number after the other.        *)

LEMMA LeastNumber ==
    ASSUME NEW S, S \subseteq Nat, S # {}
    PROVE  Min(S) \in S /\ \A y \in S : Min(S) <= y
BY LeastExists DEF Min

(* The next number above n, if the numbers to come are T.                  *)
LEMMA NextAbove ==
    ASSUME NEW S, S \subseteq Nat, NEW T, T \subseteq S, \A m \in S \ T : \A x \in T : m < x,
           NEW n \in S \ T, Above(S, n) # T
    PROVE  Min(Above(S, n)) \in S \ T
<1>1. T \subseteq Above(S, n) /\ Above(S, n) \subseteq Nat
  BY DEF Above
<1>2. PICK z \in Above(S, n) : z \notin T
  BY <1>1
<1>3. Min(Above(S, n)) \in Above(S, n) /\ Min(Above(S, n)) <= z
  BY <1>1, <1>2, LeastNumber
<1>4. z \in S \ T /\ Min(Above(S, n)) \in S
  BY <1>2, <1>3 DEF Above
<1>5. Min(Above(S, n)) \notin T
  <2> SUFFICES ASSUME Min(Above(S, n)) \in T PROVE FALSE
    OBVIOUS
  <2>1. z < Min(Above(S, n)) /\ z \in Nat /\ Min(Above(S, n)) \in Nat
    BY <1>4
  <2> QED BY <1>3, <2>1
<1> QED BY <1>4, <1>5

LEMMA FirstWritten ==
    ASSUME NEW S, S \subseteq Nat, NEW T, T \subseteq S, \A m \in S \ T : \A x \in T : m < x, T # S
    PROVE  Min(S) \in S \ T
<1>1. PICK z \in S \ T : TRUE
  OBVIOUS
<1>2. Min(S) \in S /\ Min(S) <= z
  BY <1>1, LeastNumber
<1>3. Min(S) \notin T
  <2> SUFFICES ASSUME Min(S) \in T PROVE FALSE
    OBVIOUS
  <2>1. z < Min(S) /\ z \in Nat /\ Min(S) \in Nat
    BY <1>1, <1>2
  <2> QED BY <1>2, <2>1
<1> QED BY <1>2, <1>3

LEMMA AboveLeast ==
    ASSUME NEW S, S \subseteq Nat, NEW T, T \subseteq S, \A m \in S \ T : \A x \in T : m < x, T # {}
    PROVE  Above(S, Min(T)) = T \ {Min(T)}
<1> DEFINE n == Min(T)
<1>1. n \in T /\ n \in Nat /\ \A x \in T : n <= x
  BY LeastNumber
<1> HIDE DEF n
<1>2. \A x \in S : x > n <=> x \in T \ {n}
  <2> SUFFICES ASSUME NEW x \in S PROVE x > n <=> x \in T \ {n}
    OBVIOUS
  <2>1. x \in T => n <= x
    BY <1>1
  <2>2. x \notin T => x < n
    BY <1>1
  <2>3. x \in Nat
    OBVIOUS
  <2> QED BY <1>1, <2>1, <2>2, <2>3
<1>3. Above(S, n) = T \ {n}
  BY <1>2 DEF Above
<1> QED BY <1>3 DEF n

(* Only the offsets and lengths of what is written matter.                 *)
LEMMA LaidSame ==
    ASSUME NEW o, NEW l, NEW o2, NEW l2, NEW S, S \subseteq Nat, NEW T, NEW a, NEW p,
           Laid(o, l, S, T, a, p),
           \A n \in S \ T : n \in DOMAIN o2 /\ n \in DOMAIN l2 /\ o2[n] = o[n] /\ l2[n] = l[n]
    PROVE  Laid(o2, l2, S, T, a, p)
<1>1. T \subseteq S /\ \A m \in S \ T : \A x \in T : m < x
  BY DEF Laid
<1>2. T # S => o2[Min(S)] = a
  BY <1>1, FirstWritten DEF Laid
<1>3. ASSUME NEW n \in S \ T, Above(S, n) # T PROVE o2[Min(Above(S, n))] = o2[n] + l2[n]
  <2>1. Min(Above(S, n)) \in S \ T
    BY <1>1, <1>3, NextAbove
  <2> QED BY <1>3, <2>1 DEF Laid
<1>4. ASSUME NEW n \in S \ T
      PROVE  /\ n \in DOMAIN o2 /\ n \in DOMAIN l2
             /\ o2[n] \in Nat /\ l2[n] \in Nat \ {0}
             /\ a <= o2[n] /\ o2[n] + l2[n] <= p
             /\ Above(S, n) = T => o2[n] + l2[n] = p
  BY <1>4 DEF Laid
<1>5. T = S => p = a
  BY DEF Laid
<1> QED BY <1>1, <1>2, <1>3, <1>4, <1>5 DEF Laid

(* The next number is written.                                             *)
LEMMA LaidNext ==
    ASSUME NEW o, NEW l, NEW S, S \subseteq Nat, NEW T, NEW a \in Nat, NEW p \in Nat,
           Laid(o, l, S, T, a, p), T # {}, NEW length \in Nat \ {0}
    PROVE  Laid(With(o, Min(T), p), With(l, Min(T), length), S, T \ {Min(T)}, a, p + length)
<1> DEFINE n == Min(T)
           o2 == With(o, n, p)
           l2 == With(l, n, length)
           T2 == T \ {n}
<1>1. T \subseteq S /\ \A m \in S \ T : \A x \in T : m < x
  BY DEF Laid
<1>2. n \in T /\ n \in S /\ n \in Nat /\ \A x \in T : n <= x
  BY <1>1, LeastNumber
<1> HIDE DEF n
<1>3. S \ T2 = (S \ T) \cup {n} /\ T2 \subseteq S /\ T2 # S
  BY <1>1, <1>2
<1>4. \A m \in S \ T2 : \A x \in T2 : m < x
  BY <1>1, <1>2, <1>3
<1>5. /\ o2[n] = p /\ l2[n] = length /\ n \in DOMAIN o2 /\ n \in DOMAIN l2
      /\ \A m \in DOMAIN o : m \in DOMAIN o2 /\ (m # n => o2[m] = o[m])
      /\ \A m \in DOMAIN l : m \in DOMAIN l2 /\ (m # n => l2[m] = l[m])
  BY DEF With
<1>6. \A m \in S \ T : m # n /\ m \in DOMAIN o /\ m \in DOMAIN l
  BY <1>2 DEF Laid
<1>7. \A m \in S \ T : o2[m] = o[m] /\ l2[m] = l[m] /\ m \in DOMAIN o2 /\ m \in DOMAIN l2
  BY <1>5, <1>6
<1> HIDE DEF o2, l2
<1>8. o2[Min(S)] = a
  <2>1. CASE T = S
    <3>1. p = a /\ Min(S) = n
      BY <2>1 DEF Laid, n
    <3> QED BY <1>5, <3>1
  <2>2. CASE T # S
    <3>1. Min(S) \in S \ T
      BY <1>1, <2>2, FirstWritten
    <3> QED BY <1>7, <2>2, <3>1 DEF Laid
  <2> QED BY <2>1, <2>2
<1>9. Above(S, n) = T2
  BY <1>1, <1>2, AboveLeast DEF n
<1>10. ASSUME NEW m \in S \ T2
       PROVE  /\ m \in DOMAIN o2 /\ m \in DOMAIN l2
              /\ o2[m] \in Nat /\ l2[m] \in Nat \ {0}
              /\ a <= o2[m] /\ o2[m] + l2[m] <= p + length
              /\ Above(S, m) = T2 => o2[m] + l2[m] = p + length
              /\ Above(S, m) # T2 => o2[Min(Above(S, m))] = o2[m] + l2[m]
  <2>1. CASE m = n
    <3>1. a <= p
      <4>1. CASE T = S
        BY <4>1 DEF Laid
      <4>2. CASE T # S
        <5>1. PICK z \in S \ T : TRUE
          BY <1>1, <4>2
        <5>2. o[z] \in Nat /\ l[z] \in Nat /\ a <= o[z] /\ o[z] + l[z] <= p
          BY <5>1 DEF Laid
        <5> QED BY <5>2
      <4> QED BY <4>1, <4>2
    <3> QED BY <1>5, <1>9, <2>1, <3>1
  <2>2. CASE m # n
    <3>1. m \in S \ T
      BY <1>3, <2>2
    <3>2. /\ o2[m] = o[m] /\ l2[m] = l[m] /\ m \in DOMAIN o2 /\ m \in DOMAIN l2
          /\ o[m] \in Nat /\ l[m] \in Nat \ {0} /\ a <= o[m] /\ o[m] + l[m] <= p
      BY <1>7, <3>1 DEF Laid
    <3>3. Above(S, m) # T2
      <4>1. n \in Above(S, m)
        BY <1>1, <1>2, <3>1 DEF Above
      <4> QED BY <4>1
    <3>4. o2[Min(Above(S, m))] = o[m] + l[m]
      <4>1. CASE Above(S, m) = T
        <5>1. o[m] + l[m] = p
          BY <3>1, <4>1 DEF Laid
        <5> QED BY <1>5, <4>1, <5>1 DEF n
      <4>2. CASE Above(S, m) # T
        <5>1. Min(Above(S, m)) \in S \ T
          BY <1>1, <3>1, <4>2, NextAbove
        <5>2. o[Min(Above(S, m))] = o[m] + l[m]
          BY <3>1, <4>2 DEF Laid
        <5> QED BY <1>7, <5>1, <5>2
      <4> QED BY <4>1, <4>2
    <3>5. o2[m] + l2[m] <= p + length
      BY <3>2
    <3> QED BY <3>2, <3>3, <3>4, <3>5
  <2> QED BY <2>1, <2>2
<1> HIDE DEF T2
<1>11. Laid(o2, l2, S, T2, a, p + length)
  BY <1>3, <1>4, <1>8, <1>10 DEF Laid
<1> QED BY <1>11 DEF o2, l2, T2, n

(* A section that is laid out is met number by number where it is expected. *)
LEMMA ExpectedFirst ==
    ASSUME NEW o, NEW l, NEW S, NEW a, NEW e, Laid(o, l, S, {}, a, e)
    PROVE  Expected(o, S, S, a, e)
BY DEF Laid, Expected

LEMMA ExpectedNext ==
    ASSUME NEW o, NEW l, NEW S, S \subseteq Nat, NEW T, NEW a, NEW e, NEW p,
           Laid(o, l, S, {}, a, e), Expected(o, S, T, p, e), T # {}
    PROVE  /\ Min(T) \in T /\ Min(T) \in DOMAIN o /\ Min(T) \in DOMAIN l /\ o[Min(T)] = p
           /\ Expected(o, S, T \ {Min(T)}, p + l[Min(T)], e)
<1> DEFINE n == Min(T)
           T2 == T \ {n}
<1>1. T \subseteq S /\ (\A m \in S \ T : \A x \in T : m < x) /\ o[n] = p
  BY DEF Expected
<1>2. n \in T /\ n \in S /\ n \in Nat /\ \A x \in T : n <= x
  BY <1>1, LeastNumber
<1>3. Above(S, n) = T2
  BY <1>1, AboveLeast
<1> HIDE DEF n
<1>4. \A m \in S \ T2 : \A x \in T2 : m < x
  <2> SUFFICES ASSUME NEW m \in S \ T2, NEW x \in T2 PROVE m < x
    OBVIOUS
  <2>1. m \in S \ T \/ m = n
    OBVIOUS
  <2>2. x \in T /\ x # n /\ x \in Nat /\ n <= x
    BY <1>1, <1>2
  <2> QED BY <1>1, <1>2, <2>1, <2>2
<1>5. n \in DOMAIN o /\ n \in DOMAIN l
  BY <1>2 DEF Laid
<1>6. T2 = {} => p + l[n] = e
  BY <1>1, <1>2, <1>3 DEF Laid
<1>7. T2 # {} => o[Min(T2)] = p + l[n]
  BY <1>1, <1>2, <1>3 DEF Laid
<1> HIDE DEF T2
<1>8. Expected(o, S, T2, p + l[n], e)
  <2>1. T2 \subseteq S
    BY <1>1 DEF T2
  <2> QED BY <2>1, <1>4, <1>6, <1>7 DEF Expected
<1> QED BY <1>1, <1>2, <1>5, <1>8 DEF n, T2

(* All the offsets of a section move by the same distance.                 *)
LEMMA LaidMoved ==
    ASSUME NEW o, NEW l, NEW o2, NEW S, S \subseteq Nat, NEW a \in Nat, NEW e \in Nat, NEW d \in Nat,
           Laid(o, l, S, {}, a, e), \A n \in S : n \in DOMAIN o2 /\ o2[n] = o[n] + d
    PROVE  Laid(o2, l, S, {}, a + d, e + d)
<1>1. S # {} => o2[Min(S)] = a + d
  BY LeastNumber DEF Laid
<1>2. ASSUME NEW n \in S
      PROVE  /\ n \in DOMAIN o2 /\ n \in DOMAIN l
             /\ o2[n] \in Nat /\ l[n] \in Nat \ {0}
             /\ a + d <= o2[n] /\ o2[n] + l[n] <= e + d
             /\ Above(S, n) = {} => o2[n] + l[n] = e + d
             /\ Above(S, n) # {} => o2[Min(Above(S, n))] = o2[n] + l[n]
  <2>1. /\ n \in DOMAIN l /\ o[n] \in Nat /\ l[n] \in Nat \ {0} /\ a <= o[n] /\ o[n] + l[n] <= e
        /\ Above(S, n) = {} => o[n] + l[n] = e
        /\ Above(S, n) # {} => o[Min(Above(S, n))] = o[n] + l[n]
    BY <1>2 DEF Laid
  <2>a. Above(S, n) \subseteq S
    BY DEF Above
  <2>2. Above(S, n) # {} => Min(Above(S, n)) \in S
    <3> SUFFICES ASSUME Above(S, n) # {} PROVE Min(Above(S, n)) \in S
      OBVIOUS
    <3>1. Above(S, n) \subseteq Nat
      BY <2>a
    <3>2. Min(Above(S, n)) \in Above(S, n)
      BY <3>1, LeastNumber
    <3> QED BY <2>a, <3>2
  <2>3. o2[n] = o[n] + d /\ n \in DOMAIN o2
    BY <1>2
  <2>4. ASSUME Above(S, n) # {} PROVE o2[Min(Above(S, n))] = o2[n] + l[n]
    <3> DEFINE m == Min(Above(S, n))
    <3>1. m \in S /\ o[m] = o[n] + l[n]
      BY <2>1, <2>2, <2>4
    <3> HIDE DEF m
    <3>2. o2[m] = o[m] + d
      BY <3>1
    <3>3. o2[m] = o2[n] + l[n]
      BY <2>1, <2>3, <3>1, <3>2
    <3> QED BY <3>3 DEF m
  <2> QED BY <2>1, <2>3, <2>4
<1>3. S = {} => e + d = a + d
  BY DEF Laid
<1> QED BY <1>1, <1>2, <1>3 DEF Laid

-----------------------------------------------------------------------------
(* Sums and field widths.                                                  *)

LEMMA SumNat ==
    ASSUME NEW last \in Nat, NEW x \in [1 .. last -> Nat]
    PROVE  SumTo(x, last) \in Nat
<1> DEFINE sum == CHOOSE f : f = [i \in 0 .. last |-> IF i = 0 THEN 0 ELSE f[i - 1] + x[i]]
<1>1. SumTo(x, last) = sum[last]
  BY DEF SumTo
<1>2. sum = [i \in 0 .. last |-> IF i = 0 THEN 0 ELSE sum[i - 1] + x[i]]
  BY PartialSumsExist
<1> HIDE DEF sum
<1> DEFINE S == {n \in Nat : n <= last => sum[n] \in Nat}
<1>3. 0 \in S
  BY <1>2
<1>4. ASSUME NEW n \in Nat, n \in S PROVE n + 1 \in S
  <2> SUFFICES ASSUME n + 1 <= last PROVE sum[n + 1] \in Nat
    OBVIOUS
  <2>1. n \in 0 .. last /\ n + 1 \in 0 .. last /\ n + 1 \in 1 .. last /\ sum[n] \in Nat /\ n + 1 # 0 /\ (n + 1) - 1 = n
    BY <1>4
  <2>2. sum[n + 1] = sum[n] + x[n + 1]
    BY <1>2, <2>1
  <2> QED BY <2>1, <2>2
<1>5. last \in S
  <2> HIDE DEF S
  <2> QED BY <1>3, <1>4, SetInduction
<1> QED BY <1>1, <1>5

LEMMA PowerStep ==
    /\ Power[0] = 1
    /\ \A w \in 1 .. 8 : Power[w] = Radix * Power[w - 1]
    /\ \A w \in 0 .. 8 : Power[w] \in Nat \ {0}
<1> DEFINE step == [i \in 1 .. 8 |-> [v \in Nat |-> Radix * v]]
<1>1. Radix \in Nat /\ Radix >= 2
  BY SizesAssumption
<1>2. step \in [1 .. 8 -> [Nat -> Nat]] /\ \A i \in 1 .. 8 : \A v \in Nat : step[i][v] = Radix * v
  BY <1>1
<1> HIDE DEF step
<1>3. \E f : Recursion(f, 8, Nat, 1, step)
  <2>1. 8 \in Nat /\ 1 \in Nat
    OBVIOUS
  <2> QED BY <1>2, <2>1, RecursionExists
<1>4. PICK f : f \in [0 .. 8 -> Nat] /\ f[0] = 1 /\ \A i \in 1 .. 8 : f[i] = step[i][f[i - 1]]
  BY <1>3 DEF Recursion
<1>5. \A i \in 0 .. 8 : f[i] = IF i = 0 THEN 1 ELSE Radix * f[i - 1]
  <2>1. ASSUME NEW i \in 0 .. 8, i # 0 PROVE f[i] = Radix * f[i - 1]
    <3>1. i \in 1 .. 8 /\ i - 1 \in 0 .. 8
      BY <2>1
    <3>2. f[i - 1] \in Nat
      BY <1>4, <3>1
    <3> QED BY <1>2, <1>4, <3>1, <3>2
  <2> QED BY <1>4, <2>1
<1>6. f = [i \in 0 .. 8 |-> IF i = 0 THEN 1 ELSE Radix * f[i - 1]]
  <2>1. f = [i \in 0 .. 8 |-> f[i]]
    BY <1>4
  <2> QED BY <1>5, <2>1
<1>7. Power = [w \in 0 .. 8 |-> IF w = 0 THEN 1 ELSE Radix * Power[w - 1]]
  BY <1>6 DEF Power
<1>8. Power[0] = 1 /\ \A w \in 1 .. 8 : Power[w] = Radix * Power[w - 1]
  BY <1>7
<1> DEFINE Pos(w) == Power[w] \in Nat \ {0}
<1>9. ASSUME NEW w \in 1 .. 8, Pos(w - 1) PROVE Pos(w)
  <2>1. \A v \in Nat \ {0} : Radix * v \in Nat \ {0}
    BY <1>1
  <2> QED BY <1>8, <1>9, <2>1
<1>10. Pos(0)
  BY <1>8
<1> HIDE DEF Pos
<1>11. Pos(1) /\ Pos(2) /\ Pos(3) /\ Pos(4)
  BY <1>9, <1>10
<1>12. Pos(5) /\ Pos(6) /\ Pos(7) /\ Pos(8)
  BY <1>9, <1>11
<1> QED BY <1>8, <1>10, <1>11, <1>12 DEF Pos

LEMMA PowerGrows ==
    ASSUME NEW v \in 0 .. 8, NEW w \in 0 .. 8, v <= w
    PROVE  Power[v] <= Power[w]
<1> DEFINE S == {d \in Nat : v + d <= 8 => Power[v] <= Power[v + d]}
<1>1. 0 \in S
  BY PowerStep
<1>2. ASSUME NEW d \in Nat, d \in S PROVE d + 1 \in S
  <2> SUFFICES ASSUME v + (d + 1) <= 8 PROVE Power[v] <= Power[v + (d + 1)]
    BY <1>2
  <2>1. v + d \in 0 .. 8 /\ v + (d + 1) \in 1 .. 8 /\ (v + (d + 1)) - 1 = v + d /\ Power[v] <= Power[v + d]
    BY <1>2
  <2>2. Power[v + (d + 1)] = Radix * Power[v + d]
    BY <2>1, PowerStep
  <2>3. Power[v] \in Nat /\ Power[v + d] \in Nat
    BY <2>1, PowerStep
  <2>4. Radix \in Nat /\ Radix >= 2
    BY SizesAssumption
  <2>5. \A x \in Nat : x <= Radix * x
    BY <2>4
  <2>6. Radix * Power[v + d] \in Nat
    BY <2>3, <2>4
  <2> QED BY <2>1, <2>2, <2>3, <2>5, <2>6
<1>3. w - v \in S
  <2>1. w - v \in Nat
    OBVIOUS
  <2> HIDE DEF S
  <2> QED BY <1>1, <1>2, <2>1, SetInduction
<1>4. v + (w - v) = w /\ v + (w - v) <= 8
  OBVIOUS
<1> QED BY <1>3, <1>4

LEMMA BytesNeeded ==
    ASSUME NEW v \in Nat, v < Power[8]
    PROVE  bytes_needed(v) \in 1 .. 8 /\ v < Power[bytes_needed(v)]
<1> DEFINE W == {w \in 1 .. 8 : v < Power[w]}
           least == Min(W)
<1>1. least \in W /\ \A y \in W : least <= y
  <2>1. W \subseteq Nat /\ 8 \in W
    OBVIOUS
  <2> HIDE DEF W
  <2> QED BY <2>1, LeastNumber
<1> HIDE DEF least
<1>2. least \in 1 .. 8 /\ v < Power[least]
  BY <1>1
<1>3. least = 1 \/ v >= Power[least - 1]
  <2> SUFFICES ASSUME least # 1, ~(v >= Power[least - 1]) PROVE FALSE
    OBVIOUS
  <2>1. least - 1 \in 1 .. 8 /\ Power[least - 1] \in Nat
    BY <1>2, PowerStep
  <2>2. least - 1 \in W
    BY <2>1
  <2> QED BY <1>1, <1>2, <2>2
<1>4. \E w \in 1 .. 8 : v < Power[w] /\ (w = 1 \/ v >= Power[w - 1])
  BY <1>2, <1>3
<1> QED BY <1>4 DEF bytes_needed

LEMMA GreatestNumber ==
    ASSUME NEW bound \in Nat, NEW S, S \subseteq 0 .. bound, S # {}
    PROVE  Max(S) \in S /\ \A y \in S : Max(S) >= y
<1> DEFINE D == {bound - x : x \in S}
<1>1. D \subseteq Nat /\ D # {}
  <2>1. \A x \in S : bound - x \in Nat
    OBVIOUS
  <2>2. PICK x \in S : TRUE
    OBVIOUS
  <2> QED BY <2>1, <2>2
<1>2. PICK d \in D : \A y \in D : d <= y
  <2> HIDE DEF D
  <2> QED BY <1>1, LeastNumber
<1>3. PICK x \in S : d = bound - x
  BY <1>2
<1>4. \A y \in S : x >= y
  <2> SUFFICES ASSUME NEW y \in S PROVE x >= y
    OBVIOUS
  <2>1. bound - y \in D
    OBVIOUS
  <2>2. bound - x <= bound - y
    BY <1>2, <1>3, <2>1
  <2>3. x \in 0 .. bound /\ y \in 0 .. bound
    OBVIOUS
  <2> QED BY <2>2, <2>3
<1> QED BY <1>4 DEF Max

-----------------------------------------------------------------------------
(* What the numbering gives.                                               *)

LEMMA OneRole ==
    ASSUME Numbered(file, names), NEW n, NEW r \in Roles, NEW q \in Roles,
           n \in NumbersOf(file, names, r), n \in NumbersOf(file, names, q)
    PROVE  r = q /\ n \in 1 .. Len(names.table)
<1>1. n \in 1 .. Len(names.table)
  BY DEF Numbered
<1>2. \E role \in Roles : \A x \in Roles : n \in NumbersOf(file, names, x) <=> x = role
  BY <1>1 DEF Numbered
<1> QED BY <1>1, <1>2

LEMMA RoleNames == BodyPhases \subseteq Roles /\ FrontRoles \subseteq Roles /\ {"rest", "mainxref", "member"} \subseteq Roles
BY DEF BodyPhases, Roles, FrontRoles

LEMMA RoleSets ==
    /\ \A p \in BodyPhases : NumbersOf(file, names, p) = Section(p)
    /\ NumbersOf(file, names, "member") = MemberNumbers(file, names)
    /\ NumbersOf(file, names, "param") = {ParamNumber}
    /\ NumbersOf(file, names, "hint") = {Slot(Hint)}
    /\ NumbersOf(file, names, "firstxref") = {Slot(FirstXref)} \ {0}
    /\ NumbersOf(file, names, "mainxref") = {Slot(MainXref)} \ {0}
    /\ NumbersOf(file, names, "encrypt") = {Slot(EncryptDict)} \ {0}
    /\ Section("root") = {Root}
<1>1. \A p \in BodyPhases : NumbersOf(file, names, p) = Section(p)
  BY DEF NumbersOf, BodyPhases, Section
<1>2. NumbersOf(file, names, "member") = MemberNumbers(file, names)
  BY DEF NumbersOf
<1>3. NumbersOf(file, names, "param") = {ParamNumber} /\ NumbersOf(file, names, "hint") = {Slot(Hint)}
  BY DEF NumbersOf, ParamNumber, Slot
<1>4. /\ NumbersOf(file, names, "firstxref") = {Slot(FirstXref)} \ {0}
      /\ NumbersOf(file, names, "mainxref") = {Slot(MainXref)} \ {0}
      /\ NumbersOf(file, names, "encrypt") = {Slot(EncryptDict)} \ {0}
  BY DEF NumbersOf, Slot
<1>5. Section("root") = {Root}
  BY DEF Section, SectionOf, Root, Slot
<1> QED BY <1>1, <1>2, <1>3, <1>4, <1>5

(* Specials that a file has.                                               *)
Fixed == {ParamNumber, Slot(Hint)} \cup (IF UsesObjectStreams(file) THEN {Slot(FirstXref), Slot(MainXref)} ELSE {})
            \cup (IF Encrypted THEN {Slot(EncryptDict)} ELSE {})

LEMMA Sections ==
    ASSUME Numbered(file, names)
    PROVE  /\ \A p \in BodyPhases : \A n \in Section(p) : n \in 1 .. Len(names.table) /\ n \notin Fixed /\ ~IsMember(n)
           /\ \A p, q \in BodyPhases : p # q => \A n \in Section(p) : n \notin Section(q)
           /\ \A n \in Fixed : n \in 1 .. Len(names.table) /\ ~IsMember(n)
<1>1. ASSUME NEW n, n \in Fixed
      PROVE  \E r \in {"param", "hint", "firstxref", "mainxref", "encrypt"} : n \in NumbersOf(file, names, r)
  <2>1. UsesObjectStreams(file) => Slot(FirstXref) # 0 /\ Slot(MainXref) # 0
    BY DEF Numbered, Slot
  <2>2. Encrypted => Slot(EncryptDict) # 0
    BY DEF Encrypted
  <2> QED BY <1>1, <2>1, <2>2, RoleSets DEF Fixed
<1>2. {"param", "hint", "firstxref", "mainxref", "encrypt"} \subseteq Roles \ (BodyPhases \cup {"member"})
  BY DEF Roles, FrontRoles, BodyPhases
<1>3. "member" \notin BodyPhases
  BY DEF BodyPhases
<1>4. ASSUME NEW p \in BodyPhases, NEW n \in Section(p)
      PROVE  n \in 1 .. Len(names.table) /\ n \notin Fixed /\ ~IsMember(n)
  <2>1. n \in NumbersOf(file, names, p)
    BY <1>4, RoleSets
  <2> QED BY <1>1, <1>2, <1>3, <2>1, OneRole, RoleNames, RoleSets DEF IsMember
<1>5. ASSUME NEW p \in BodyPhases, NEW q \in BodyPhases, p # q, NEW n \in Section(p) PROVE n \notin Section(q)
  BY <1>5, OneRole, RoleNames, RoleSets
<1>6. ASSUME NEW n \in Fixed PROVE n \in 1 .. Len(names.table) /\ ~IsMember(n)
  BY <1>1, <1>2, <1>6, OneRole, RoleNames, RoleSets DEF IsMember
<1> QED BY <1>4, <1>5, <1>6

(* No two of the specials have one number.                                 *)
LEMMA Specials ==
    ASSUME Numbered(file, names)
    PROVE  /\ ParamNumber # Slot(Hint) /\ ParamNumber \in Nat \ {0}
           /\ UsesObjectStreams(file) => /\ Slot(FirstXref) \notin {ParamNumber, Slot(Hint), Slot(MainXref)}
                                         /\ Slot(MainXref) \notin {ParamNumber, Slot(Hint)}
           /\ Encrypted => Slot(EncryptDict) \notin {ParamNumber, Slot(Hint)}
           /\ Encrypted /\ UsesObjectStreams(file) => Slot(EncryptDict) \notin {Slot(FirstXref), Slot(MainXref)}
<1>1. UsesObjectStreams(file) => Slot(FirstXref) # 0 /\ Slot(MainXref) # 0
  BY DEF Numbered, Slot
<1>2. Encrypted => Slot(EncryptDict) # 0
  BY DEF Encrypted
<1>3. {"param", "hint", "firstxref", "mainxref", "encrypt"} \subseteq Roles
  BY DEF Roles, FrontRoles
<1>4. ParamNumber # Slot(Hint) /\ ParamNumber \in 1 .. Len(names.table)
  <2>1. ParamNumber \in NumbersOf(file, names, "param") /\ Slot(Hint) \in NumbersOf(file, names, "hint")
    BY RoleSets
  <2>2. ParamNumber \in 1 .. Len(names.table)
    BY <1>3, <2>1, OneRole
  <2>3. ParamNumber # Slot(Hint)
    BY <1>3, <2>1, OneRole
  <2> QED BY <2>2, <2>3
<1> DEFINE N(r) == NumbersOf(file, names, r)
<1>8. \A r, q \in {"param", "hint", "firstxref", "mainxref", "encrypt"} : r # q => N(r) \cap N(q) = {}
  BY <1>3, OneRole
<1>9. ParamNumber \in N("param") /\ Slot(Hint) \in N("hint")
  BY RoleSets
<1>10. UsesObjectStreams(file) => Slot(FirstXref) \in N("firstxref") /\ Slot(MainXref) \in N("mainxref")
  BY <1>1, RoleSets
<1> HIDE DEF N
<1>5. UsesObjectStreams(file) => /\ Slot(FirstXref) \notin {ParamNumber, Slot(Hint), Slot(MainXref)}
                                 /\ Slot(MainXref) \notin {ParamNumber, Slot(Hint)}
  BY <1>8, <1>9, <1>10
<1>6. Encrypted => Slot(EncryptDict) \notin {ParamNumber, Slot(Hint)}
  BY <1>2, <1>3, OneRole, RoleSets
<1>7. Encrypted /\ UsesObjectStreams(file) => Slot(EncryptDict) \notin {Slot(FirstXref), Slot(MainXref)}
  BY <1>1, <1>2, <1>3, OneRole, RoleSets
<1> QED BY <1>4, <1>5, <1>6, <1>7

(* Every number stands for something.                                      *)
LEMMA Everything ==
    ASSUME Numbered(file, names), NEW n \in 1 .. Len(names.table)
    PROVE  IsMember(n) \/ n \in Fixed \/ \E p \in BodyPhases : n \in Section(p)
<1>1. PICK r \in Roles : n \in NumbersOf(file, names, r)
  BY DEF Numbered
<1>2. CASE r \in BodyPhases
  BY <1>1, <1>2, RoleSets
<1>3. CASE r = "member"
  BY <1>1, <1>3, RoleSets DEF IsMember
<1>4. CASE r \in {"param", "hint"}
  BY <1>1, <1>4, RoleSets DEF Fixed
<1>5. CASE r \in {"firstxref", "mainxref"}
  <2>1. UsesObjectStreams(file)
    BY <1>1, <1>5 DEF Numbered
  <2> QED BY <1>1, <1>5, <2>1, RoleSets DEF Fixed
<1>6. CASE r = "encrypt"
  <2>1. n = Slot(EncryptDict) /\ n # 0
    BY <1>1, <1>6, RoleSets
  <2> QED BY <2>1 DEF Fixed, Encrypted
<1> QED BY <1>1, <1>2, <1>3, <1>4, <1>5, <1>6 DEF Roles, FrontRoles, BodyPhases

(* What is written under a number has a length.                            *)
LEMMA BytesPositive ==
    ASSUME Numbered(file, names), NEW sizes \in [DOMAIN file.size -> Nat \ {0}],
           NEW p \in BodyPhases, NEW n \in Section(p)
    PROVE  Bytes(n, sizes) \in Nat \ {0}
<1>1. p \in {"root", "open", "page", "rest"} /\ n \in SectionOf(file, names, p)
  BY DEF BodyPhases, Section
<1>2. IF HeldBy(n) = {} THEN names.table[n][2] \in DOMAIN file.size
      ELSE \A c \in HeldBy(n) : Batch(file, c).members \in Seq(DOMAIN file.size)
  BY <1>1 DEF Numbered, HeldBy
<1>3. CASE HeldBy(n) = {}
  BY <1>2, <1>3 DEF Bytes
<1>4. CASE HeldBy(n) # {}
  <2> DEFINE ms == Batch(file, CHOOSE c \in HeldBy(n) : TRUE).members
  <2>1. Bytes(n, sizes) = Frame + SumTo([i \in DOMAIN ms |-> sizes[ms[i]]], Len(ms))
    BY <1>4 DEF Bytes
  <2>2. ms \in Seq(DOMAIN file.size)
    BY <1>2, <1>4
  <2> HIDE DEF ms
  <2>3. Len(ms) \in Nat /\ DOMAIN ms = 1 .. Len(ms)
    BY <2>2
  <2>4. [i \in DOMAIN ms |-> sizes[ms[i]]] \in [1 .. Len(ms) -> Nat]
    BY <2>2, <2>3
  <2>5. SumTo([i \in DOMAIN ms |-> sizes[ms[i]]], Len(ms)) \in Nat
    BY <2>3, <2>4, SumNat
  <2> QED BY <2>1, <2>5, SizesAssumption
<1> QED BY <1>3, <1>4

LEMMA Field3 ==
    ASSUME Numbered(file, names), UsesObjectStreams(file)
    PROVE  field3 \in Nat
<1> DEFINE S == {Len(Batch(file, c).members) - 1 : c \in AllContainers(file)}
           len == Len(names.table)
<1>1. len \in Nat /\ len < Power[8] /\ \A c \in AllContainers(file) : Len(Batch(file, c).members) \in 1 .. len
  BY DEF Numbered
<1>2. S \subseteq 0 .. len /\ S # {}
  <2>1. \A c \in AllContainers(file) : Len(Batch(file, c).members) - 1 \in 0 .. len
    BY <1>1
  <2>2. PICK c \in AllContainers(file) : TRUE
    BY DEF UsesObjectStreams
  <2> QED BY <2>1, <2>2
<1> HIDE DEF S
<1>3. Max(S) \in S
  BY <1>1, <1>2, GreatestNumber
<1>4. Max(S) \in 0 .. len
  BY <1>2, <1>3
<1>5. Max(S) \in Nat /\ Max(S) < Power[8]
  <2>1. 8 \in 0 .. 8
    OBVIOUS
  <2>2. Power[8] \in Nat
    BY <2>1, PowerStep
  <2> QED BY <1>1, <1>4, <2>2
<1>6. bytes_needed(Max(S)) \in 1 .. 8
  BY <1>5, BytesNeeded
<1>7. field3 = IF Max(S) > 0 THEN bytes_needed(Max(S)) ELSE 0
  BY DEF field3, S
<1> QED BY <1>6, <1>7

LEMMA SizeNumber ==
    ASSUME Numbered(file, names)
    PROVE  Size - 1 = Len(names.table) /\ Size - 1 \in Nat /\ Size - 1 < Power[8] /\ bytes_needed(Size - 1) \in 1 .. 8
<1>1. Len(names.table) \in Nat /\ Len(names.table) < Power[8]
  BY DEF Numbered
<1>2. Size - 1 = Len(names.table)
  BY <1>1 DEF Size
<1>3. bytes_needed(Size - 1) \in 1 .. 8
  BY <1>1, <1>2, BytesNeeded
<1> QED BY <1>1, <1>2, <1>3

LEMMA RegionNat ==
    ASSUME Numbered(file, names), UsesObjectStreams(file), NEW count \in Nat, NEW width \in Nat
    PROVE  /\ StreamObject(count, width) \in Nat
           /\ first_pass_region_len(count, width) = StreamObject(count, width) + Frame
           /\ first_pass_region_len(count, width) \in Nat
<1>1. field3 \in Nat /\ Frame \in Nat
  BY Field3, SizesAssumption
<1>2. 1 + width + field3 \in Nat
  BY <1>1
<1>3. count * (1 + width + field3) \in Nat
  BY <1>2
<1>4. StreamObject(count, width) \in Nat
  BY <1>1, <1>3 DEF StreamObject
<1> QED BY <1>1, <1>4 DEF first_pass_region_len

LEMMA BodyStartNat ==
    ASSUME Numbered(file, names)
    PROVE  BodyStart \in Nat /\ Cardinality(FirstRange) \in Nat /\ wide_field2 \in Nat
<1>1. ParamNumber \in Nat /\ Size - 1 \in Nat /\ Frame \in Nat /\ RowSize \in Nat /\ Wide \in Nat
  BY Specials, SizeNumber, SizesAssumption
<1>2. Cardinality(FirstRange) \in Nat
  <2> DEFINE a == ParamNumber
             b == Size - 1
  <2>1. a \in Int /\ b \in Int
    BY <1>1
  <2> HIDE DEF a, b
  <2>2. Cardinality(a .. b) = IF a > b THEN 0 ELSE b - a + 1
    BY <2>1, FS_Interval
  <2>3. Cardinality(a .. b) \in Nat
    BY <2>1, <2>2
  <2> QED BY <2>3 DEF FirstRange, a, b
<1>3. wide_field2 \in Nat
  BY <1>1, SizeNumber DEF wide_field2
<1>4. FrontStart \in Nat
  BY <1>1 DEF FrontStart
<1>5. CASE UsesObjectStreams(file)
  <2>1. first_pass_region_len(Cardinality(FirstRange), wide_field2) \in Nat
    BY <1>2, <1>3, <1>5, RegionNat
  <2> QED BY <1>2, <1>3, <1>4, <1>5, <2>1 DEF BodyStart
<1>6. CASE ~UsesObjectStreams(file)
  <2>1. RowSize * Cardinality(FirstRange) \in Nat
    BY <1>1, <1>2
  <2> QED BY <1>1, <1>2, <1>3, <1>4, <1>6, <2>1 DEF BodyStart
<1> QED BY <1>5, <1>6

(* The field of an offset in a file of less than Power[8] bytes.           *)
LEMMA Field2 ==
    ASSUME Numbered(file, names), NEW v \in Nat, v < Power[8]
    PROVE  field2(v) \in 1 .. 8 /\ v < Power[field2(v)]
<1> DEFINE a == bytes_needed(v)
           b == bytes_needed(Size - 1)
<1>1. a \in 1 .. 8 /\ v < Power[a] /\ b \in 1 .. 8
  BY BytesNeeded, SizeNumber
<1>2. field2(v) = IF a > b THEN a ELSE b
  BY DEF field2
<1> HIDE DEF a, b
<1>3. field2(v) \in 1 .. 8 /\ a <= field2(v)
  BY <1>1, <1>2
<1>4. Power[a] <= Power[field2(v)] /\ Power[a] \in Nat /\ Power[field2(v)] \in Nat
  BY <1>1, <1>3, PowerGrows, PowerStep
<1> QED BY <1>1, <1>3, <1>4

LEMMA MainLengthNat ==
    ASSUME Numbered(file, names), NEW v \in Nat, v < Power[8]
    PROVE  MainLength(v) \in Nat
<1>1. ParamNumber \in Nat /\ Frame \in Nat /\ RowSize \in Nat
  BY Specials, SizesAssumption
<1>2. CASE UsesObjectStreams(file)
  <2>0. field2(v) \in Nat
    BY Field2
  <2>1. first_pass_region_len(ParamNumber, field2(v)) \in Nat
    BY <1>1, <1>2, <2>0, RegionNat
  <2> QED BY <1>1, <1>2, <2>1 DEF MainLength
<1>3. CASE ~UsesObjectStreams(file)
  <2>1. RowSize * ParamNumber \in Nat
    BY <1>1
  <2> QED BY <1>1, <1>3, <2>1 DEF MainLength
<1> QED BY <1>2, <1>3
-----------------------------------------------------------------------------
(* Steps.  The plan and its numbers stay.                                  *)

LEMMA Steady ==
    ASSUME file' = file, names' = names
    PROVE  /\ \A p : Section(p)' = Section(p)
           /\ \A s : Slot(s)' = Slot(s)
           /\ ParamNumber' = ParamNumber /\ Root' = Root /\ Encrypted' = Encrypted /\ EncryptBytes' = EncryptBytes
           /\ BodyStart' = BodyStart /\ FrontStart' = FrontStart
           /\ \A n : IsMember(n)' = IsMember(n)
           /\ \A v : MainLength(v)' = MainLength(v)
           /\ \A ph : Written(ph)' = Written(ph)
<1>1. \A p : Section(p)' = Section(p)
  BY DEF Section
<1>2. \A s : Slot(s)' = Slot(s)
  BY DEF Slot
<1>3. ParamNumber' = ParamNumber /\ Root' = Root /\ Encrypted' = Encrypted /\ Size' = Size
  BY DEF ParamNumber, Root, Encrypted, Slot, Size
<1>4. EncryptBytes' = EncryptBytes
  BY <1>3 DEF EncryptBytes
<1>5. FirstRange' = FirstRange /\ field3' = field3 /\ wide_field2' = wide_field2
  BY <1>3 DEF FirstRange, field3, wide_field2
<1>6. \A c, w : first_pass_region_len(c, w)' = first_pass_region_len(c, w)
  BY <1>5 DEF first_pass_region_len, StreamObject
<1>7. BodyStart' = BodyStart /\ FrontStart' = FrontStart
  BY <1>5, <1>6 DEF BodyStart, FrontStart
<1>8. \A n : IsMember(n)' = IsMember(n)
  BY DEF IsMember
<1>9. \A v : field2(v)' = field2(v)
  BY <1>3 DEF field2
<1>10. \A v : MainLength(v)' = MainLength(v)
  BY <1>3, <1>6, <1>9 DEF MainLength
<1>11. \A ph : Written(ph)' = Written(ph)
  BY <1>1 DEF Written
<1> QED BY <1>1, <1>2, <1>3, <1>4, <1>7, <1>8, <1>10, <1>11

LEMMA BeforeOf ==
    /\ Before("front") = {} /\ Before("root") = {} /\ Before("open") = {"root"}
    /\ Before("page") = {"root", "open"} /\ Before("rest") = {"root", "open", "page"}
    /\ Before("hints") = BodyPhases /\ Before("done") = BodyPhases /\ Before("failed") = BodyPhases
BY DEF Before

LEMMA LaidNone ==
    ASSUME NEW o, NEW l, NEW S, NEW p PROVE Laid(o, l, S, S, p, p)
BY DEF Laid

LEMMA LaidOrder ==
    ASSUME NEW o, NEW l, NEW S, NEW a \in Nat, NEW e \in Nat, Laid(o, l, S, {}, a, e)
    PROVE  a <= e
<1>1. CASE S = {}
  BY <1>1 DEF Laid
<1>2. CASE S # {}
  <2>1. PICK n \in S : TRUE
    BY <1>2
  <2>2. o[n] \in Nat /\ l[n] \in Nat /\ a <= o[n] /\ o[n] + l[n] <= e
    BY <2>1 DEF Laid
  <2> QED BY <2>2
<1> QED BY <1>1, <1>2

LEMMA SectionNat ==
    ASSUME Numbered(file, names), NEW p \in BodyPhases
    PROVE  Section(p) \subseteq Nat
BY Sections

Updates(g, f, n, v) ==
    /\ IsFunction(g) /\ DOMAIN g = DOMAIN f \cup {n}
    /\ g[n] = v /\ \A x \in DOMAIN f : x # n => g[x] = f[x]

LEMMA WithUpdates ==
    ASSUME NEW f, NEW n, NEW v, NEW g, g = With(f, n, v)
    PROVE  Updates(g, f, n, v)
BY DEF With, IsFunction, Updates

LEMMA WithSame ==
    ASSUME NEW f, IsFunction(f), NEW n \in DOMAIN f, NEW v, f[n] = v
    PROVE  With(f, n, v) = f
BY DEF With, IsFunction

LEMMA InitLinear == Init => LinearInv
<1> SUFFICES ASSUME Init PROVE LinearInv
  OBVIOUS
<1>1. PICK f \in Files, e \in BOOLEAN : file = f /\ size = f.size /\ names = Numbering(f, e)
  BY DEF Init
<1>2. Numbered(file, names)
  BY <1>1, NumberingAssumption
<1>3. file.size \in [DOMAIN file.size -> Nat \ {0}]
  BY <1>2 DEF Numbered
<1>4. Shape
  BY <1>1, <1>2, <1>3 DEF Init, Shape, Phases, BodyPhases, IsFunction, Nothing
<1>5. DOMAIN Nothing = {} /\ offs = Nothing /\ lens = Nothing /\ phase = "front" /\ pass = 1 /\ todo = {}
  BY DEF Nothing, Init
<1>6. FirstPass
  BY <1>5, BeforeOf DEF FirstPass, FixedParts, Written, BodyPhases
<1>7. SecondPass
  BY <1>5 DEF SecondPass
<1> QED BY <1>4, <1>6, <1>7 DEF LinearInv

LEMMA NotSecond == ASSUME pass' = 1 PROVE SecondPass'
<1>1. pass' # 2
  OBVIOUS
<1> QED BY <1>1, Zenon DEF SecondPass

LEMMA NotFirst == ASSUME pass' = 2 PROVE FirstPass'
<1>1. pass' # 1
  OBVIOUS
<1> QED BY <1>1, Zenon DEF FirstPass

WriteFront == WriteClassicFront \/ WriteStreamFront

LEMMA FrontFirst ==
    ASSUME LinearInv, pass = 1, WriteFront PROVE LinearInv'
<1> DEFINE P == ParamNumber
           X == Slot(FirstXref)
<1>1. Numbered(file, names) /\ Shape /\ FirstPass /\ phase = "front"
  BY DEF LinearInv, Shape, WriteFront, WriteClassicFront, WriteStreamFront
<1>2. /\ file' = file /\ names' = names /\ size' = size /\ pass' = 1 /\ lens' = lens /\ layout' = layout /\ hint' = hint
  BY DEF WriteFront, WriteClassicFront, WriteStreamFront
<1>3. /\ phase' = "root" /\ todo' = Section("root") /\ pos' = BodyStart
      /\ offs' = IF UsesObjectStreams(file) THEN With(With(offs, P, Frame), X, FrontStart) ELSE With(offs, P, Frame)
  <2>1. CASE WriteClassicFront
    <3>1. FrontStart + Frame + RowSize * Cardinality(FirstRange) = FrontStart + (Frame + RowSize * Cardinality(FirstRange))
      <4>1. FrontStart \in Nat /\ Frame \in Nat /\ RowSize * Cardinality(FirstRange) \in Nat
        <5>1. Frame \in Nat /\ RowSize \in Nat /\ Cardinality(FirstRange) \in Nat
          BY <1>1, BodyStartNat, SizesAssumption
        <5> QED BY <5>1 DEF FrontStart
      <4> QED BY <4>1
    <3> QED BY <2>1, <3>1 DEF WriteClassicFront, BodyStart
  <2>2. CASE WriteStreamFront
    <3> DEFINE region == first_pass_region_len(Cardinality(FirstRange), wide_field2)
               object == StreamObject(Cardinality(FirstRange), wide_field2)
    <3>1. UsesObjectStreams(file)
      BY <2>2 DEF WriteStreamFront
    <3>2. region = object + Frame /\ object \in Nat /\ Frame \in Nat
      BY <1>1, <3>1, RegionNat, BodyStartNat, SizesAssumption
    <3> HIDE DEF region, object
    <3>3. ~(object > region)
      BY <3>2
    <3> QED BY <2>2, <3>1, <3>3 DEF WriteStreamFront, BodyStart, region, object
  <2> QED BY <2>1, <2>2 DEF WriteFront
<1>4. BodyStart \in Nat
  BY <1>1, BodyStartNat
<1>5. P \in Fixed /\ (UsesObjectStreams(file) => X \in Fixed /\ X # P)
  BY <1>1, Specials DEF Fixed
<1>6. Slot(Hint) # P /\ (UsesObjectStreams(file) => X # Slot(Hint))
  BY <1>1, Specials
<1> HIDE DEF P, X
<1>7. /\ IsFunction(offs') /\ DOMAIN offs' = DOMAIN offs \cup {P} \cup (IF UsesObjectStreams(file) THEN {X} ELSE {})
      /\ offs'[P] = Frame /\ (UsesObjectStreams(file) => offs'[X] = FrontStart)
  <2>1. CASE UsesObjectStreams(file)
    <3> DEFINE o == With(offs, P, Frame)
    <3>1. offs' = With(o, X, FrontStart)
      BY <1>3, <2>1
    <3>2. Updates(o, offs, P, Frame)
      BY WithUpdates
    <3> HIDE DEF o
    <3>3. Updates(offs', o, X, FrontStart)
      BY <3>1, WithUpdates
    <3> QED BY <1>5, <2>1, <3>2, <3>3 DEF Updates
  <2>2. CASE ~UsesObjectStreams(file)
    <3>1. offs' = With(offs, P, Frame)
      BY <1>3, <2>2
    <3>2. Updates(offs', offs, P, Frame)
      BY <3>1, WithUpdates
    <3> QED BY <2>2, <3>2 DEF Updates
  <2> QED BY <2>1, <2>2
<1>8. Shape'
  BY <1>1, <1>2, <1>3, <1>4, <1>7 DEF Shape, Phases, BodyPhases
<1>9. Laid(offs', lens', Section("root"), Section("root"), BodyStart, BodyStart)
  BY LaidNone
<1>10. FixedParts("root")'
  BY <1>2, <1>3, <1>7, Steady, BeforeOf DEF FixedParts, P, X, BodyPhases
<1>11. DOMAIN lens = {} /\ \A n \in DOMAIN offs : ~IsMember(n) /\ n \in 1 .. Len(names.table) /\ n # Slot(Hint)
  <2>1. /\ DOMAIN lens = Written(phase) \cup (IF phase \in BodyPhases THEN Section(phase) \ todo ELSE {})
        /\ \A n \in DOMAIN offs : ~IsMember(n) /\ n \in 1 .. Len(names.table) /\ n # Slot(Hint)
    BY <1>1 DEF FirstPass
  <2>2. phase \notin BodyPhases /\ Written(phase) = {}
    BY <1>1, BeforeOf DEF Written, BodyPhases
  <2> QED BY <2>1, <2>2
<1>12. \A n \in DOMAIN offs' : ~IsMember(n) /\ n \in 1 .. Len(names.table) /\ n # Slot(Hint)
  BY <1>1, <1>5, <1>6, <1>7, <1>11, Sections
<1>13. DOMAIN lens' = Written("root") \cup (Section("root") \ Section("root"))
  BY <1>2, <1>11, BeforeOf DEF Written
<1>14. StartOf("root")' = BodyStart
  BY <1>2, Steady DEF StartOf
<1>15. Before(phase') = {} /\ "root" \in BodyPhases /\ phase' # "hints" /\ phase' # "failed"
  BY <1>3, BeforeOf DEF BodyPhases
<1>16. FirstPass'
  BY <1>2, <1>3, <1>9, <1>10, <1>11, <1>12, <1>13, <1>14, <1>15, Steady DEF FirstPass
<1>17. SecondPass'
  BY <1>2, NotSecond
<1> QED BY <1>8, <1>16, <1>17 DEF LinearInv

(* In the second pass, a step that repeats what is known.                  *)
LEMMA SameLayout ==
    ASSUME file' = file, names' = names, offs' = offs, lens' = lens, layout' = layout, hint' = hint
    PROVE  /\ \A p : StartOf(p)' = StartOf(p) /\ EndOf(p)' = EndOf(p)
           /\ \A ph : FixedParts(ph)' = FixedParts(ph)
           /\ Repeated' = Repeated /\ AllKnown' = AllKnown
<1>1. \A p : StartOf(p)' = StartOf(p) /\ EndOf(p)' = EndOf(p)
  BY Steady DEF StartOf, EndOf
<1>2. \A ph : FixedParts(ph)' = FixedParts(ph)
  BY Steady DEF FixedParts
<1>3. Repeated' = Repeated
  BY DEF Repeated
<1>4. AllKnown' = AllKnown
  BY Steady DEF AllKnown
<1> QED BY <1>1, <1>2, <1>3, <1>4

LEMMA SamePromises ==
    ASSUME file' = file, names' = names, layout' = layout, hint' = hint, params' = params, Promises
    PROVE  Promises'
BY Steady DEF Promises, EntryAt

LEMMA FixedKnown ==
    ASSUME Numbered(file, names), AllKnown
    PROVE  \A n \in Fixed : n \in DOMAIN offs
BY Sections DEF AllKnown

LEMMA FrontSecond ==
    ASSUME LinearInv, pass = 2, WriteFront PROVE LinearInv'
<1> DEFINE P == ParamNumber
           X == Slot(FirstXref)
<1>1. /\ Numbered(file, names) /\ Shape /\ phase = "front"
      /\ AllKnown /\ LensAhead /\ Promises /\ AsPromised /\ Ended
  BY DEF LinearInv, Shape, SecondPass, WriteFront, WriteClassicFront, WriteStreamFront
<1>2. /\ file' = file /\ names' = names /\ size' = size /\ pass' = 2 /\ lens' = lens /\ layout' = layout /\ hint' = hint
      /\ params' = params /\ back' = back
  BY DEF WriteFront, WriteClassicFront, WriteStreamFront
<1>3. Repeated
  BY <1>1 DEF LensAhead
<1>4. /\ \A p \in BodyPhases : Laid(offs, lens, Section(p), {}, StartOf(p), EndOf(p))
      /\ FixedParts("hints") /\ offs[Slot(Hint)] = layout.hint
  BY <1>1, <1>3 DEF AsPromised
<1>5. P \in DOMAIN offs /\ offs[P] = Frame
  BY <1>4 DEF FixedParts
<1>6. UsesObjectStreams(file) => X \in DOMAIN offs /\ offs[X] = FrontStart
  BY <1>4 DEF FixedParts
<1>7. IsFunction(offs)
  BY <1>1 DEF Shape
<1> HIDE DEF P, X
<1>8. With(offs, P, Frame) = offs
  BY <1>5, <1>7, WithSame
<1>9. UsesObjectStreams(file) => With(offs, X, FrontStart) = offs
  BY <1>6, <1>7, WithSame
<1>10. \/ phase' = "failed" /\ error' = "region exceeded" /\ offs' = offs /\ pos' = pos /\ front' = front /\ todo' = todo
       \/ phase' = "root" /\ offs' = offs /\ todo' = Section("root") /\ pos' = BodyStart /\ front'.prev = layout.main
  <2>1. CASE WriteClassicFront
    <3>1. FrontStart + Frame + RowSize * Cardinality(FirstRange) = FrontStart + (Frame + RowSize * Cardinality(FirstRange))
      <4>1. FrontStart \in Nat /\ Frame \in Nat /\ RowSize * Cardinality(FirstRange) \in Nat
        <5>1. Frame \in Nat /\ RowSize \in Nat /\ Cardinality(FirstRange) \in Nat
          BY <1>1, BodyStartNat, SizesAssumption
        <5> QED BY <5>1 DEF FrontStart
      <4> QED BY <4>1
    <3>2. ~UsesObjectStreams(file)
      BY <2>1 DEF WriteClassicFront
    <3>3. ~Missing(FirstRange, offs)
      <4>1. MemberNumbers(file, names) = {}
        BY <1>1, <3>2 DEF Numbered
      <4>2. \A n \in FirstRange : n \in 1 .. Len(names.table)
        BY <1>1, Specials, SizeNumber DEF FirstRange
      <4>3. \A n \in FirstRange : n \in DOMAIN offs
        BY <1>1, <4>1, <4>2 DEF AllKnown, IsMember
      <4> QED BY <4>3 DEF Missing
    <3>4. pos' = BodyStart /\ phase' = "root" /\ offs' = offs /\ todo' = Section("root")
      BY <1>8, <2>1, <3>1, <3>2, <3>3 DEF WriteClassicFront, BodyStart, P
    <3>5. front' = [at |-> FrontStart, rows |-> ClassicRows(FirstRange, offs), prev |-> layout.main]
      BY <1>8, <2>1, <3>3 DEF WriteClassicFront, P
    <3> QED BY <3>4, <3>5
  <2>2. CASE WriteStreamFront
    <3> DEFINE width == field2(Max(Known(FirstRange, offs)))
    <3>1. UsesObjectStreams(file)
      BY <2>2 DEF WriteStreamFront
    <3>2. With(With(offs, P, Frame), X, FrontStart) = offs
      BY <1>8, <1>9, <3>1
    <3>3. phase' \in {"failed", "root"}
      BY <2>2 DEF WriteStreamFront, Fail
    <3>4. CASE phase' = "failed"
      BY <2>2, <3>4 DEF WriteStreamFront, Fail
    <3>5. CASE phase' = "root"
      <4>1. phase' # "failed" /\ pass # 1
        BY <3>5
      <4>2. todo' = Section("root") /\ offs' = offs
        BY <2>2, <3>2, <4>1 DEF WriteStreamFront, Fail, P, X
      <4>3. pos' = FrontStart + first_pass_region_len(Cardinality(FirstRange), wide_field2)
        BY <2>2, <4>1 DEF WriteStreamFront, Fail
      <4>4. front'.prev = layout.main
        <5>1. front' = [at |-> FrontStart, prev |-> layout.main, rows |-> StreamRows(FirstRange, offs, width)]
          BY <2>2, <3>2, <4>1 DEF WriteStreamFront, Fail, P, X
        <5> QED BY <5>1
      <4> QED BY <3>1, <3>5, <4>2, <4>3, <4>4 DEF BodyStart
    <3> QED BY <3>3, <3>4, <3>5
  <2> QED BY <2>1, <2>2 DEF WriteFront
<1>11. BodyStart \in Nat /\ offs' = offs
  BY <1>1, <1>10, BodyStartNat
<1>12. Shape'
  BY <1>1, <1>2, <1>10, <1>11 DEF Shape, Phases, BodyPhases
<1>13. AllKnown' /\ Promises' /\ Repeated'
  BY <1>1, <1>2, <1>3, <1>11, SameLayout, SamePromises
<1>14. \A p \in BodyPhases : Laid(offs', lens', Section(p)', {}, StartOf(p)', EndOf(p)')
  BY <1>2, <1>4, <1>11, SameLayout, Steady
<1>15. FixedParts("hints")' /\ offs'[Slot(Hint)'] = layout'.hint
  BY <1>2, <1>4, <1>11, SameLayout, Steady
<1>16. CASE phase' = "failed"
  <2>1. phase' \notin BodyPhases /\ phase' # "front" /\ phase' # "done" /\ error' = "region exceeded"
    BY <1>10, <1>16 DEF BodyPhases
  <2>2. LensAhead' /\ AsPromised' /\ Ended'
    BY <1>14, <1>15, <1>16, <2>1 DEF LensAhead, AsPromised, Ended
  <2> QED BY <1>2, <1>12, <1>13, <2>2, NotFirst DEF LinearInv, SecondPass
<1>17. CASE phase' = "root"
  <2>1. phase' \in BodyPhases /\ phase' # "front" /\ phase' # "done" /\ phase' # "failed" /\ "root" \in BodyPhases
    BY <1>17 DEF BodyPhases
  <2>2. pos' = BodyStart /\ todo' = Section("root") /\ front'.prev = layout'.main
    BY <1>2, <1>10, <1>17
  <2>3. LensAhead'
    <3>1. \A n : lens'[n] = layout'.lens[n]
      BY <1>13 DEF Repeated
    <3>2. todo' \subseteq Section(phase)'
      BY <1>2, <1>17, <2>2, Steady
    <3> QED BY <2>1, <3>1, <3>2 DEF LensAhead
  <2>4. Expected(offs', Section(phase)', todo', pos', EndOf(phase)')
    <3>1. Expected(offs, Section("root"), Section("root"), StartOf("root"), EndOf("root"))
      BY <1>4, <2>1, ExpectedFirst
    <3>2. StartOf("root") = BodyStart
      BY DEF StartOf
    <3>3. Section(phase)' = Section("root")' /\ EndOf(phase)' = EndOf("root")'
      BY <1>17
    <3> QED BY <1>2, <1>11, <2>2, <3>1, <3>2, <3>3, SameLayout, Steady
  <2>5. AsPromised'
    BY <1>14, <1>15, <2>4 DEF AsPromised
  <2>6. Ended'
    BY <2>1, <2>2 DEF Ended
  <2> QED BY <1>2, <1>12, <1>13, <2>3, <2>5, <2>6, NotFirst DEF LinearInv, SecondPass
<1> QED BY <1>10, <1>16, <1>17

(* A callback leaves the objects with sizes.                               *)
LEMMA EditSizes ==
    ASSUME size \in [DOMAIN file.size -> Nat \ {0}], Edit
    PROVE  size' \in [DOMAIN file.size -> Nat \ {0}]
<1>1. CASE size' = size
  BY <1>1
<1>2. CASE \E s \in file.live : \E z \in Sizes \ {size[s]} : size' = [size EXCEPT ![s] = z]
  BY <1>2, SizesAssumption
<1> QED BY <1>1, <1>2 DEF Edit

(* What a step writes under the next number of a section.                  *)
WriteNext(length) ==
    /\ phase \in BodyPhases /\ todo # {} /\ Put(Min(todo), length)
    /\ size' \in [DOMAIN file.size -> Nat \ {0}]

LEMMA WritesNext ==
    ASSUME LinearInv, WriteObject \/ WriteContainer, todo \subseteq Section(phase)
    PROVE  \E length \in Nat \ {0} : WriteNext(length)
<1>1. phase \in BodyPhases /\ todo # {} /\ Numbered(file, names) /\ size \in [DOMAIN file.size -> Nat \ {0}]
  BY DEF WriteObject, WriteContainer, BodyPhases, LinearInv, Shape
<1> DEFINE n == Min(todo)
<1>2. n \in Section(phase)
  <2>1. Section(phase) \subseteq Nat
    BY <1>1, SectionNat
  <2>2. n \in todo
    BY <1>1, <2>1, LeastNumber
  <2> QED BY <2>2
<1>3. Edit
  BY DEF WriteObject, WriteContainer
<1>4. size' \in [DOMAIN file.size -> Nat \ {0}]
  BY <1>1, <1>3, EditSizes
<1>5. Bytes(n, size) \in Nat \ {0} /\ Bytes(n, size') \in Nat \ {0}
  <2> HIDE DEF n
  <2> QED BY <1>1, <1>2, <1>4, BytesPositive
<1>6. Put(n, Bytes(n, size)) \/ Put(n, Bytes(n, size'))
  BY DEF WriteObject, WriteContainer
<1> QED BY <1>1, <1>4, <1>5, <1>6 DEF WriteNext

LEMMA PutFirst ==
    ASSUME LinearInv, pass = 1, NEW length \in Nat \ {0}, WriteNext(length) PROVE LinearInv'
<1> DEFINE n == Min(todo)
<1>1. /\ Numbered(file, names) /\ Shape /\ FirstPass /\ phase \in BodyPhases /\ todo # {} /\ pos \in Nat
      /\ phase # "hints" /\ phase # "front" /\ phase # "failed" /\ phase # "done"
  BY DEF LinearInv, Shape, WriteNext, BodyPhases
<1>2. /\ file' = file /\ names' = names /\ pass' = 1 /\ phase' = phase /\ layout' = layout /\ hint' = hint
      /\ offs' = With(offs, n, pos) /\ lens' = With(lens, n, length) /\ pos' = pos + length /\ todo' = todo \ {n}
      /\ size' \in [DOMAIN file.size -> Nat \ {0}]
  BY DEF WriteNext, Put
<1>3. Laid(offs, lens, Section(phase), todo, StartOf(phase), pos)
  BY <1>1 DEF FirstPass
<1>4. Section(phase) \subseteq Nat /\ todo \subseteq Section(phase)
  BY <1>1, <1>3, SectionNat DEF Laid
<1>5. n \in todo /\ n \in Section(phase)
  BY <1>1, <1>4, LeastNumber
<1> HIDE DEF n
<1>6. Updates(offs', offs, n, pos) /\ Updates(lens', lens, n, length)
  BY <1>2, WithUpdates
<1>7. n \notin Fixed /\ n \in 1 .. Len(names.table) /\ ~IsMember(n) /\ \A p \in BodyPhases : p # phase => n \notin Section(p)
  BY <1>1, <1>5, Sections
<1>8. Before(phase) \subseteq BodyPhases \ {phase} /\ (phase # "root" => "root" \in Before(phase)) /\ "root" \in BodyPhases
  BY <1>1, BeforeOf DEF BodyPhases
<1>9. ASSUME NEW p \in Before(phase) PROVE Laid(offs', lens', Section(p), {}, StartOf(p), EndOf(p))
  <2>1. Laid(offs, lens, Section(p), {}, StartOf(p), EndOf(p))
    BY <1>1, <1>9 DEF FirstPass
  <2>2. Section(p) \subseteq Nat /\ n \notin Section(p)
    BY <1>1, <1>7, <1>8, <1>9, SectionNat
  <2>3. \A x \in Section(p) : x \in DOMAIN offs' /\ x \in DOMAIN lens' /\ offs'[x] = offs[x] /\ lens'[x] = lens[x]
    BY <1>6, <2>1, <2>2 DEF Updates, Laid
  <2> QED BY <2>1, <2>2, <2>3, LaidSame
<1>10. phase # "root" => Root \in DOMAIN offs /\ Root \in DOMAIN lens /\ offs'[Root] = offs[Root] /\ lens'[Root] = lens[Root]
  <2> SUFFICES ASSUME phase # "root" PROVE Root \in DOMAIN offs /\ Root \in DOMAIN lens /\ offs'[Root] = offs[Root] /\ lens'[Root] = lens[Root]
    OBVIOUS
  <2>1. Root \in Section("root") /\ Root # n
    BY <1>7, <1>8, RoleSets
  <2>2. Laid(offs, lens, Section("root"), {}, StartOf("root"), EndOf("root"))
    BY <1>1, <1>8 DEF FirstPass
  <2>3. Root \in DOMAIN offs /\ Root \in DOMAIN lens
    BY <2>1, <2>2 DEF Laid
  <2> QED BY <1>6, <2>1, <2>3 DEF Updates
<1>11. /\ \A p \in Before(phase) : StartOf(p)' = StartOf(p) /\ EndOf(p)' = EndOf(p)
       /\ StartOf(phase)' = StartOf(phase)
  <2>1. \A p \in BodyPhases : (p = "root" \/ phase # "root") => StartOf(p)' = StartOf(p)
    BY <1>2, <1>10, Steady DEF StartOf, BodyPhases
  <2>2. phase # "root" => \A p \in BodyPhases : EndOf(p)' = EndOf(p)
    BY <1>2, <1>10, Steady DEF EndOf, BodyPhases
  <2>3. phase = "root" => Before(phase) = {}
    BY BeforeOf
  <2> QED BY <1>1, <1>2, <1>8, <2>1, <2>2, <2>3
<1>12. StartOf(phase) \in Nat
  <2>1. CASE phase = "root"
    BY <1>1, <2>1, BodyStartNat DEF StartOf
  <2>2. CASE phase = "open"
    <3>1. Laid(offs, lens, Section("root"), {}, StartOf("root"), EndOf("root")) /\ Root \in Section("root")
      BY <1>1, <1>8, <2>2, RoleSets DEF FirstPass
    <3>2. offs[Root] \in Nat /\ lens[Root] \in Nat
      BY <3>1 DEF Laid
    <3> QED BY <2>2, <3>2 DEF StartOf
  <2>3. CASE phase = "page"
    <3>1. layout.hint \in Nat /\ hint.length \in Nat
      BY <1>1 DEF Shape
    <3> QED BY <2>3, <3>1 DEF StartOf
  <2>4. CASE phase = "rest"
    <3>1. layout.end \in Nat /\ hint.length \in Nat
      BY <1>1 DEF Shape
    <3> QED BY <2>4, <3>1 DEF StartOf
  <2> QED BY <1>1, <2>1, <2>2, <2>3, <2>4 DEF BodyPhases
<1>13. Laid(offs', lens', Section(phase), todo', StartOf(phase), pos')
  BY <1>1, <1>2, <1>3, <1>4, <1>12, LaidNext DEF n
<1>14. FixedParts(phase)'
  <2>1. FixedParts(phase)
    BY <1>1 DEF FirstPass
  <2>2. ParamNumber # n /\ (UsesObjectStreams(file) => Slot(FirstXref) # n /\ Slot(MainXref) # n) /\ (Encrypted => Slot(EncryptDict) # n)
    BY <1>7 DEF Fixed
  <2> QED BY <1>2, <1>6, <2>1, <2>2, Steady DEF FixedParts, Updates
<1>15. DOMAIN lens' = Written(phase) \cup (Section(phase) \ todo')
  <2>1. DOMAIN lens = Written(phase) \cup (Section(phase) \ todo)
    BY <1>1 DEF FirstPass
  <2> QED BY <1>2, <1>4, <1>5, <1>6, <2>1 DEF Updates
<1>16. DOMAIN lens' \subseteq DOMAIN offs' /\ \A x \in DOMAIN offs' : ~IsMember(x) /\ x \in 1 .. Len(names.table) /\ x # Slot(Hint)
  <2>1. DOMAIN lens \subseteq DOMAIN offs /\ \A x \in DOMAIN offs : ~IsMember(x) /\ x \in 1 .. Len(names.table) /\ x # Slot(Hint)
    BY <1>1 DEF FirstPass
  <2>2. n # Slot(Hint)
    BY <1>7 DEF Fixed
  <2> QED BY <1>6, <1>7, <2>1, <2>2 DEF Updates
<1>17. Shape'
  <2>1. IsFunction(offs') /\ IsFunction(lens') /\ pos' \in Nat
    BY <1>1, <1>2, <1>6 DEF Updates
  <2> QED BY <1>1, <1>2, <2>1 DEF Shape
<1>18. FirstPass'
  BY <1>1, <1>2, <1>9, <1>11, <1>13, <1>14, <1>15, <1>16, Steady DEF FirstPass
<1> QED BY <1>2, <1>17, <1>18, NotSecond DEF LinearInv

(* A number that the second pass writes as long as the first is where it    *)
(* was expected.                                                           *)
LEMMA PutRepeats ==
    ASSUME LinearInv, pass = 2, NEW length \in Nat \ {0}, WriteNext(length), Repeated'
    PROVE  /\ Repeated /\ lens' = lens /\ offs' = offs
           /\ Expected(offs, Section(phase), todo', pos', EndOf(phase))
<1> DEFINE n == Min(todo)
<1>1. /\ Numbered(file, names) /\ Shape /\ phase \in BodyPhases /\ todo # {} /\ pos \in Nat
      /\ phase # "hints" /\ phase # "front" /\ phase # "failed" /\ phase # "done"
      /\ AllKnown /\ LensAhead /\ Promises /\ AsPromised /\ Ended
  BY DEF LinearInv, Shape, SecondPass, WriteNext, BodyPhases
<1>2. /\ file' = file /\ names' = names /\ pass' = 2 /\ phase' = phase /\ layout' = layout /\ hint' = hint
      /\ params' = params /\ front' = front /\ back' = back /\ error' = error
      /\ offs' = With(offs, n, pos) /\ lens' = With(lens, n, length) /\ pos' = pos + length /\ todo' = todo \ {n}
      /\ size' \in [DOMAIN file.size -> Nat \ {0}]
  BY DEF WriteNext, Put
<1>3. Section(phase) \subseteq Nat /\ todo \subseteq Section(phase)
  BY <1>1, SectionNat DEF LensAhead
<1>4. n \in todo /\ n \in Section(phase)
  BY <1>1, <1>3, LeastNumber
<1> HIDE DEF n
<1>5. Updates(offs', offs, n, pos) /\ Updates(lens', lens, n, length)
  BY <1>2, WithUpdates
<1>6. n \in 1 .. Len(names.table) /\ ~IsMember(n) /\ \A p \in BodyPhases : p # phase => n \notin Section(p)
  BY <1>1, <1>4, Sections
<1>7. n \in Written("hints")
  BY <1>1, <1>4, BeforeOf DEF Written
<1>8. n \in DOMAIN offs /\ n \in DOMAIN lens /\ IsFunction(offs) /\ IsFunction(lens)
  BY <1>1, <1>6, <1>7 DEF AllKnown, Shape
<1>11. lens[n] = length /\ lens' = lens
  <2>1. lens'[n] = length /\ lens' = layout.lens
    BY <1>2, <1>5 DEF Updates, Repeated
  <2>2. lens[n] = layout.lens[n]
    BY <1>1, <1>4 DEF LensAhead
  <2>3. lens[n] = length
    BY <2>1, <2>2
  <2> QED BY <1>2, <1>8, <2>3, WithSame
<1>12. Repeated
  BY <1>2, <1>11 DEF Repeated
<1>13. /\ \A p \in BodyPhases : Laid(offs, lens, Section(p), {}, StartOf(p), EndOf(p))
      /\ FixedParts("hints") /\ offs[Slot(Hint)] = layout.hint
      /\ Expected(offs, Section(phase), todo, pos, EndOf(phase))
  BY <1>1, <1>12 DEF AsPromised
<1>14. /\ offs[n] = pos
      /\ Expected(offs, Section(phase), todo \ {n}, pos + lens[n], EndOf(phase))
  <2>1. Laid(offs, lens, Section(phase), {}, StartOf(phase), EndOf(phase))
    BY <1>1, <1>13
  <2> DEFINE S == Section(phase)
             a == StartOf(phase)
             e == EndOf(phase)
  <2>2. Laid(offs, lens, S, {}, a, e) /\ Expected(offs, S, todo, pos, e) /\ S \subseteq Nat /\ todo # {}
    BY <1>1, <1>3, <1>13, <2>1
  <2> HIDE DEF S, a, e
  <2>3. offs[Min(todo)] = pos /\ Expected(offs, S, todo \ {Min(todo)}, pos + lens[Min(todo)], e)
    BY <2>2, ExpectedNext
  <2> QED BY <2>3 DEF n, S, e
<1>15. offs' = offs
  BY <1>2, <1>8, <1>14, WithSame
<1> QED BY <1>2, <1>11, <1>12, <1>14, <1>15

LEMMA PutSecond ==
    ASSUME LinearInv, pass = 2, NEW length \in Nat \ {0}, WriteNext(length) PROVE LinearInv'
<1> DEFINE n == Min(todo)
<1>1. /\ Numbered(file, names) /\ Shape /\ phase \in BodyPhases /\ todo # {} /\ pos \in Nat
      /\ phase # "hints" /\ phase # "front" /\ phase # "failed" /\ phase # "done"
      /\ AllKnown /\ LensAhead /\ Promises /\ AsPromised /\ Ended
  BY DEF LinearInv, Shape, SecondPass, WriteNext, BodyPhases
<1>2. /\ file' = file /\ names' = names /\ pass' = 2 /\ phase' = phase /\ layout' = layout /\ hint' = hint
      /\ params' = params /\ front' = front /\ back' = back /\ error' = error
      /\ offs' = With(offs, n, pos) /\ lens' = With(lens, n, length) /\ pos' = pos + length /\ todo' = todo \ {n}
      /\ size' \in [DOMAIN file.size -> Nat \ {0}]
  BY DEF WriteNext, Put
<1>3. Section(phase) \subseteq Nat /\ todo \subseteq Section(phase)
  BY <1>1, SectionNat DEF LensAhead
<1>4. n \in todo /\ n \in Section(phase)
  BY <1>1, <1>3, LeastNumber
<1> HIDE DEF n
<1>5. Updates(offs', offs, n, pos) /\ Updates(lens', lens, n, length)
  BY <1>2, WithUpdates
<1>6. n \in 1 .. Len(names.table) /\ ~IsMember(n) /\ \A p \in BodyPhases : p # phase => n \notin Section(p)
  BY <1>1, <1>4, Sections
<1>7. n \in Written("hints")
  BY <1>1, <1>4, BeforeOf DEF Written
<1>8. n \in DOMAIN offs /\ n \in DOMAIN lens /\ IsFunction(offs) /\ IsFunction(lens)
  BY <1>1, <1>6, <1>7 DEF AllKnown, Shape
<1>9. AllKnown'
  <2>1. DOMAIN offs' = DOMAIN offs /\ DOMAIN lens' = DOMAIN lens
    BY <1>5, <1>8 DEF Updates
  <2> QED BY <1>1, <1>2, <2>1, Steady DEF AllKnown
<1>10. Shape'
  <2>1. IsFunction(offs') /\ IsFunction(lens') /\ pos' \in Nat
    BY <1>1, <1>2, <1>5 DEF Updates
  <2> QED BY <1>1, <1>2, <2>1 DEF Shape
<1>11. LensAhead'
  <2>1. \A x \in DOMAIN lens : x # n => lens'[x] = lens[x]
    BY <1>5 DEF Updates
  <2>2. \A p \in BodyPhases : Section(p) \subseteq DOMAIN lens
    BY <1>1, BeforeOf DEF AllKnown, Written
  <2>3. ASSUME NEW p \in BodyPhases \ (Before(phase) \cup {phase}), NEW x \in Section(p) PROVE lens'[x] = layout.lens[x]
    <3>1. x # n /\ x \in DOMAIN lens
      BY <1>6, <2>2, <2>3
    <3>2. lens[x] = layout.lens[x]
      BY <1>1, <2>3 DEF LensAhead
    <3> QED BY <2>1, <3>1, <3>2
  <2>4. ASSUME NEW x \in todo' PROVE lens'[x] = layout.lens[x]
    <3>1. x # n /\ x \in todo /\ x \in DOMAIN lens
      BY <1>1, <1>2, <1>3, <2>2, <2>4
    <3>2. lens[x] = layout.lens[x]
      BY <1>1, <3>1 DEF LensAhead
    <3> QED BY <2>1, <3>1, <3>2
  <2>5. todo' \subseteq Section(phase)
    BY <1>2, <1>3
  <2> QED BY <1>1, <1>2, <2>3, <2>4, <2>5, Steady DEF LensAhead
<1>12. Promises'
  BY <1>1, <1>2, SamePromises
<1>13. Ended'
  BY <1>1, <1>2 DEF Ended
<1>14. AsPromised'
  <2> SUFFICES ASSUME Repeated' PROVE AsPromised'
    BY DEF AsPromised
  <2>1. /\ Repeated /\ lens' = lens /\ offs' = offs
        /\ Expected(offs, Section(phase), todo', pos', EndOf(phase))
    BY PutRepeats
  <2>3. /\ \A p \in BodyPhases : Laid(offs, lens, Section(p), {}, StartOf(p), EndOf(p))
        /\ FixedParts("hints") /\ offs[Slot(Hint)] = layout.hint
    BY <1>1, <2>1 DEF AsPromised
  <2>6. /\ \A p \in BodyPhases : Laid(offs', lens', Section(p)', {}, StartOf(p)', EndOf(p)')
        /\ FixedParts("hints")' /\ offs'[Slot(Hint)'] = layout'.hint
    BY <1>2, <2>1, <2>3, SameLayout, Steady
  <2>7. Expected(offs', Section(phase)', todo', pos', EndOf(phase)')
    <3>1. Section(phase)' = Section(phase) /\ EndOf(phase)' = EndOf(phase)
      BY <1>2, <2>1, SameLayout, Steady
    <3> QED BY <1>2, <2>1, <3>1
  <2> QED BY <2>6, <2>7 DEF AsPromised
<1> QED BY <1>2, <1>9, <1>10, <1>11, <1>12, <1>13, <1>14, NotFirst DEF LinearInv, SecondPass

LEMMA EndRootFirst ==
    ASSUME LinearInv, pass = 1, EndRoot PROVE LinearInv'
<1>1. /\ Numbered(file, names) /\ Shape /\ FirstPass /\ phase = "root" /\ todo = {} /\ pos \in Nat
  BY DEF LinearInv, Shape, EndRoot
<1>2. /\ file' = file /\ names' = names /\ size' = size /\ pass' = 1 /\ layout' = layout /\ hint' = hint
      /\ offs' = offs /\ lens' = lens /\ pos' = pos /\ phase' = "open" /\ todo' = Section("open")
  BY DEF EndRoot
<1>3. Laid(offs, lens, Section("root"), {}, StartOf("root"), pos)
  BY <1>1 DEF FirstPass, BodyPhases
<1>4. EndOf("root") = pos /\ StartOf("open") = pos
  <2>1. Section("root") = {Root}
    BY RoleSets
  <2>2. Section("root") \subseteq Nat
    BY <1>1, SectionNat DEF BodyPhases
  <2>3. Above({Root}, Root) = {}
    BY <2>1, <2>2 DEF Above
  <2>4. offs[Root] + lens[Root] = pos
    BY <1>3, <2>1, <2>3 DEF Laid
  <2> QED BY <2>4 DEF StartOf, EndOf
<1>5. Laid(offs, lens, Section("open"), Section("open"), pos, pos)
  BY LaidNone
<1>6. FixedParts("open")
  <2>1. FixedParts("root")
    BY <1>1 DEF FirstPass
  <2> QED BY <2>1, BeforeOf DEF FixedParts, BodyPhases
<1>7. DOMAIN lens = Written("open") /\ DOMAIN lens \subseteq DOMAIN offs
  BY <1>1, BeforeOf DEF FirstPass, Written, BodyPhases
<1>8. Shape'
  BY <1>1, <1>2 DEF Shape, Phases, BodyPhases
<1>9. Before(phase') = {"root"} /\ phase' \in BodyPhases
  BY <1>2, BeforeOf DEF BodyPhases
<1>10. FirstPass'
  <2>1. \A p \in Before(phase') : Laid(offs', lens', Section(p)', {}, StartOf(p)', EndOf(p)')
    BY <1>2, <1>3, <1>4, <1>9, SameLayout, Steady
  <2>2. Laid(offs', lens', Section(phase)', todo', StartOf(phase)', pos')
    <3>1. Section(phase)' = Section("open")' /\ StartOf(phase)' = StartOf("open")'
      BY <1>2
    <3> QED BY <1>2, <1>4, <1>5, <3>1, SameLayout, Steady
  <2>3. FixedParts(phase)'
    <3>1. FixedParts(phase)' = FixedParts("open")'
      BY <1>2
    <3> QED BY <1>2, <1>6, <3>1, SameLayout
  <2>4. DOMAIN lens' = Written(phase)' \cup (Section(phase)' \ todo')
    <3>1. Section(phase)' = Section("open")' /\ Written(phase)' = Written("open")'
      BY <1>2
    <3> QED BY <1>2, <1>7, <3>1, Steady
  <2>5. DOMAIN lens' \subseteq DOMAIN offs' /\ \A n \in DOMAIN offs' : ~IsMember(n)' /\ n \in 1 .. Len(names'.table) /\ n # Slot(Hint)'
    BY <1>1, <1>2, Steady DEF FirstPass
  <2>6. phase' # "failed" /\ phase' # "hints"
    BY <1>2
  <2> QED BY <1>9, <2>1, <2>2, <2>3, <2>4, <2>5, <2>6 DEF FirstPass
<1> QED BY <1>2, <1>8, <1>10, NotSecond DEF LinearInv

(* The second pass gets to a section.                                      *)
LEMMA NextSection ==
    ASSUME LinearInv, pass = 2, phase \in BodyPhases, NEW q \in BodyPhases,
           Before(q) = Before(phase) \cup {phase}, q # phase,
           phase' = q, todo' = Section(q),
           file' = file, names' = names, size' = size, pass' = pass, lens' = lens, layout' = layout, hint' = hint,
           params' = params, front' = front, back' = back, error' = error,
           pos' \in Nat, IsFunction(offs'), DOMAIN offs' = DOMAIN offs,
           Repeated => offs' = offs /\ pos' = StartOf(q)
    PROVE  LinearInv'
<1>1. /\ Numbered(file, names) /\ Shape /\ AllKnown /\ LensAhead /\ Promises /\ AsPromised /\ Ended
      /\ q # "hints" /\ q # "front" /\ q # "failed" /\ q # "done" /\ phase # "front" /\ phase # "failed"
  BY DEF LinearInv, SecondPass, Shape, BodyPhases
<1>2. Shape'
  BY <1>1 DEF Shape, Phases, BodyPhases
<1>3. AllKnown'
  BY <1>1, Steady DEF AllKnown
<1>4. LensAhead'
  <2>1. todo' \subseteq Section(phase)'
    BY Steady
  <2>2. \A p \in BodyPhases \ (Before(phase) \cup {phase}) : \A n \in Section(p) : lens[n] = layout.lens[n]
    BY <1>1 DEF LensAhead
  <2>3. q \notin Before(phase)
    BY BeforeOf DEF BodyPhases
  <2>4. \A p \in BodyPhases \ (Before(q) \cup {q}) : \A n \in Section(p) : lens[n] = layout.lens[n]
    BY <2>2
  <2>5. \A n \in Section(q) : lens[n] = layout.lens[n]
    BY <2>2, <2>3
  <2> QED BY <1>1, <2>1, <2>4, <2>5, Steady DEF LensAhead
<1>5. Promises' /\ Ended'
  BY <1>1, SamePromises DEF Ended
<1>6. AsPromised'
  <2> SUFFICES ASSUME Repeated' PROVE AsPromised'
    BY DEF AsPromised
  <2>1. Repeated /\ offs' = offs /\ pos' = StartOf(q)
    BY DEF Repeated
  <2>2. /\ \A p \in BodyPhases : Laid(offs, lens, Section(p), {}, StartOf(p), EndOf(p))
        /\ FixedParts("hints") /\ offs[Slot(Hint)] = layout.hint
    BY <1>1, <2>1 DEF AsPromised
  <2>3. /\ \A p \in BodyPhases : Laid(offs', lens', Section(p)', {}, StartOf(p)', EndOf(p)')
        /\ FixedParts("hints")' /\ offs'[Slot(Hint)'] = layout'.hint
    BY <2>1, <2>2, SameLayout, Steady
  <2>4. Expected(offs', Section(phase)', todo', pos', EndOf(phase)')
    <3>1. Expected(offs, Section(q), Section(q), StartOf(q), EndOf(q))
      BY <2>2, ExpectedFirst
    <3>2. Section(phase)' = Section(q)' /\ EndOf(phase)' = EndOf(q)'
      OBVIOUS
    <3> QED BY <2>1, <3>1, <3>2, SameLayout, Steady
  <2> QED BY <2>3, <2>4 DEF AsPromised
<1> QED BY <1>2, <1>3, <1>4, <1>5, <1>6, NotFirst DEF LinearInv, SecondPass

LEMMA EndRootSecond ==
    ASSUME LinearInv, pass = 2, EndRoot PROVE LinearInv'
<1>1. phase = "root" /\ todo = {} /\ SecondPass /\ Shape
  BY DEF LinearInv, EndRoot
<1>2. Before("open") = Before(phase) \cup {phase} /\ phase \in BodyPhases /\ "open" \in BodyPhases /\ phase # "open"
  BY <1>1, BeforeOf DEF BodyPhases
<1>3. Repeated => pos = StartOf("open")
  <2>1. Repeated => Expected(offs, Section("root"), {}, pos, EndOf("root"))
    BY <1>1, <1>2 DEF SecondPass, AsPromised
  <2> QED BY <2>1 DEF Expected, StartOf, EndOf
<1>4. pos \in Nat /\ IsFunction(offs)
  BY <1>1 DEF Shape
<1> QED BY <1>2, <1>3, <1>4, NextSection DEF EndRoot

LEMMA HintRepeats ==
    ASSUME LinearInv, pass = 2, WriteHint, Repeated
    PROVE  offs' = offs /\ pos' = StartOf("page")
<1>1. /\ phase = "open" /\ todo = {} /\ SecondPass /\ Shape /\ Numbered(file, names) /\ AllKnown
      /\ pos \in Nat /\ IsFunction(offs) /\ hint.length \in Nat /\ layout.hint \in Nat
  BY DEF LinearInv, WriteHint, Shape, SecondPass
<1>2. Before("page") = Before(phase) \cup {phase} /\ phase \in BodyPhases /\ "page" \in BodyPhases /\ phase # "page"
  BY <1>1, BeforeOf DEF BodyPhases
<1> DEFINE at == pos + EncryptBytes
           encrypt == IF Encrypted THEN With(offs, Slot(EncryptDict), pos) ELSE offs
<1>4. offs' = With(encrypt, Slot(Hint), at) /\ pos' = at + hint.length
  BY DEF WriteHint
<1>5. EncryptBytes \in Nat /\ (Encrypted => EncryptBytes = Frame) /\ Frame \in Nat
  BY SizesAssumption DEF EncryptBytes
<1>6. at \in Nat /\ pos' \in Nat
  BY <1>1, <1>4, <1>5
<1>7. Slot(Hint) \in DOMAIN offs /\ (Encrypted => Slot(EncryptDict) \in DOMAIN offs)
  BY <1>1, FixedKnown DEF Fixed
<1>21. Expected(offs, Section("open"), {}, pos, EndOf("open")) /\ FixedParts("hints") /\ offs[Slot(Hint)] = layout.hint
  BY <1>1, <1>2 DEF SecondPass, AsPromised
<1>22. pos = layout.hint - EncryptBytes
  BY <1>21 DEF Expected, EndOf
<1>23. at = layout.hint
  BY <1>1, <1>5, <1>22
<1>24. Encrypted => offs[Slot(EncryptDict)] = pos
  BY <1>5, <1>21, <1>22, BeforeOf DEF FixedParts, BodyPhases
<1>25. encrypt = offs
  BY <1>1, <1>7, <1>24, WithSame
<1> HIDE DEF encrypt, at
<1>26. offs' = offs
  BY <1>1, <1>4, <1>7, <1>21, <1>23, <1>25, WithSame
<1> QED BY <1>4, <1>23, <1>26 DEF StartOf

LEMMA HintSecond ==
    ASSUME LinearInv, pass = 2, WriteHint PROVE LinearInv'
<1>1. /\ phase = "open" /\ todo = {} /\ SecondPass /\ Shape /\ Numbered(file, names) /\ AllKnown
      /\ pos \in Nat /\ IsFunction(offs) /\ hint.length \in Nat /\ layout.hint \in Nat
  BY DEF LinearInv, WriteHint, Shape, SecondPass
<1>2. Before("page") = Before(phase) \cup {phase} /\ phase \in BodyPhases /\ "page" \in BodyPhases /\ phase # "page"
  BY <1>1, BeforeOf DEF BodyPhases
<1> DEFINE at == pos + EncryptBytes
           encrypt == IF Encrypted THEN With(offs, Slot(EncryptDict), pos) ELSE offs
<1>3. /\ file' = file /\ names' = names /\ size' = size /\ pass' = pass /\ lens' = lens /\ layout' = layout /\ hint' = hint
      /\ params' = params /\ front' = front /\ back' = back /\ error' = error
      /\ phase' = "page" /\ todo' = Section("page")
  BY DEF WriteHint
<1>4. offs' = With(encrypt, Slot(Hint), at) /\ pos' = at + hint.length
  BY DEF WriteHint
<1>5. EncryptBytes \in Nat /\ (Encrypted => EncryptBytes = Frame) /\ Frame \in Nat
  BY SizesAssumption DEF EncryptBytes
<1>6. at \in Nat /\ pos' \in Nat
  BY <1>1, <1>4, <1>5
<1>7. Slot(Hint) \in DOMAIN offs /\ (Encrypted => Slot(EncryptDict) \in DOMAIN offs)
  BY <1>1, FixedKnown DEF Fixed
<1>8. IsFunction(encrypt) /\ DOMAIN encrypt = DOMAIN offs
  <2>1. Encrypted => Updates(encrypt, offs, Slot(EncryptDict), pos)
    BY WithUpdates
  <2>2. ~Encrypted => encrypt = offs
    OBVIOUS
  <2> HIDE DEF encrypt
  <2> QED BY <1>1, <1>7, <2>1, <2>2 DEF Updates
<1> HIDE DEF encrypt, at
<1>10. Updates(offs', encrypt, Slot(Hint), at)
  BY <1>4, WithUpdates
<1>11. IsFunction(offs') /\ DOMAIN offs' = DOMAIN offs
  BY <1>7, <1>8, <1>10 DEF Updates
<1>12. Repeated => offs' = offs /\ pos' = StartOf("page")
  BY HintRepeats
<1> QED BY <1>2, <1>3, <1>6, <1>11, <1>12, NextSection

LEMMA EndPageSecond ==
    ASSUME LinearInv, pass = 2, EndFirstPage PROVE LinearInv'
<1>1. phase = "page" /\ todo = {} /\ SecondPass /\ Shape
  BY DEF LinearInv, EndFirstPage
<1>2. Before("rest") = Before(phase) \cup {phase} /\ phase \in BodyPhases /\ "rest" \in BodyPhases /\ phase # "rest"
  BY <1>1, BeforeOf DEF BodyPhases
<1>3. Repeated => pos = StartOf("rest")
  <2>1. Repeated => Expected(offs, Section("page"), {}, pos, EndOf("page"))
    BY <1>1, <1>2 DEF SecondPass, AsPromised
  <2> QED BY <2>1 DEF Expected, StartOf, EndOf
<1>4. pos \in Nat /\ IsFunction(offs)
  BY <1>1 DEF Shape
<1>5. layout' = layout
  BY DEF EndFirstPage
<1> QED BY <1>2, <1>3, <1>4, <1>5, NextSection DEF EndFirstPage

LEMMA EndPassSecond ==
    ASSUME LinearInv, pass = 2, EndPass, pos < Power[8] PROVE LinearInv'
<1>1. /\ phase = "rest" /\ todo = {} /\ SecondPass /\ Shape /\ Numbered(file, names)
      /\ AllKnown /\ LensAhead /\ Promises /\ AsPromised /\ Ended
      /\ pos \in Nat /\ IsFunction(offs)
  BY DEF LinearInv, EndPass, Shape, SecondPass
<1>2. /\ file' = file /\ names' = names /\ size' = size /\ pass' = 2 /\ lens' = lens /\ hint' = hint /\ params' = params
      /\ todo' = todo /\ front' = front /\ layout' = layout
  <2>1. /\ file' = file /\ names' = names /\ size' = size /\ pass' = 2 /\ lens' = lens /\ hint' = hint /\ params' = params
    BY DEF EndPass
  <2>2. CASE Drifted
    BY <2>1, <2>2 DEF EndPass, Fail
  <2>3. CASE ~Drifted
    BY <2>1, <2>3 DEF EndPass
  <2> QED BY <2>2, <2>3
<1>3. Repeated => pos = layout.main
  <2>1. Repeated => Expected(offs, Section("rest"), {}, pos, EndOf("rest"))
    BY <1>1 DEF AsPromised, BodyPhases
  <2> QED BY <2>1 DEF Expected, EndOf
<1>4. /\ "rest" \in BodyPhases /\ "rest" # "front" /\ "rest" # "failed"
  BY DEF BodyPhases
<1>5. CASE Drifted
  <2>1. pos # layout.main
    BY <1>5 DEF Drifted
  <2>2. phase' = "failed" /\ offs' = offs /\ pos' = pos
    BY <1>5 DEF EndPass, Fail
  <2>3. Repeated' = Repeated /\ ~Repeated /\ AllKnown' = AllKnown
    BY <1>2, <1>3, <2>1, <2>2, SameLayout
  <2>4. phase' \notin BodyPhases /\ phase' # "front" /\ phase' # "done" /\ phase' # "hints"
    BY <2>2 DEF BodyPhases
  <2>5. Shape'
    BY <1>1, <1>2, <2>2, <2>4 DEF Shape, Phases
  <2>6. LensAhead' /\ AsPromised' /\ Ended'
    BY <2>2, <2>3, <2>4 DEF LensAhead, AsPromised, Ended
  <2>7. Promises'
    BY <1>1, <1>2, SamePromises
  <2> QED BY <1>1, <1>2, <2>3, <2>5, <2>6, <2>7, NotFirst DEF LinearInv, SecondPass
<1>6. CASE ~Drifted
  <2>1. pos = layout.main
    BY <1>6 DEF Drifted
  <2>2. /\ pos' = MainSection.end /\ phase' = "done" /\ back' = MainSection
        /\ offs' = IF UsesObjectStreams(file) THEN With(offs, Slot(MainXref), pos) ELSE offs
    BY <1>6 DEF EndPass
  <2>3. MainSection.at = pos /\ MainSection.entry = EntryAt(pos) /\ MainSection.end = pos + MainLength(pos)
    <3>1. CASE UsesObjectStreams(file)
      BY <1>1, <3>1 DEF MainSection, EntryAt
    <3>2. CASE ~UsesObjectStreams(file)
      BY <1>1, <3>2 DEF MainSection, EntryAt
    <3> QED BY <3>1, <3>2
  <2>4. MainLength(pos) \in Nat
    BY <1>1, MainLengthNat
  <2>5. pos' \in Nat
    BY <1>1, <2>2, <2>3, <2>4
  <2>6. IsFunction(offs') /\ DOMAIN offs' = DOMAIN offs
    <3>1. CASE UsesObjectStreams(file)
      <4>1. Updates(offs', offs, Slot(MainXref), pos)
        BY <2>2, <3>1, WithUpdates
      <4>2. Slot(MainXref) \in DOMAIN offs
        BY <1>1, <3>1, FixedKnown DEF Fixed
      <4> QED BY <4>1, <4>2 DEF Updates
    <3>2. CASE ~UsesObjectStreams(file)
      BY <1>1, <2>2, <3>2
    <3> QED BY <3>1, <3>2
  <2>7. phase' \notin BodyPhases /\ phase' # "front" /\ phase' # "failed" /\ phase' # "hints" /\ phase' = "done"
    BY <2>2 DEF BodyPhases
  <2>8. Shape'
    BY <1>1, <1>2, <2>5, <2>6, <2>7 DEF Shape, Phases
  <2>9. AllKnown'
    BY <1>1, <1>2, <2>6, Steady DEF AllKnown
  <2>10. LensAhead'
    BY <2>7 DEF LensAhead
  <2>11. Promises'
    BY <1>1, <1>2, SamePromises
  <2>12. Ended'
    <3>1. front'.prev = layout'.main
      BY <1>1, <1>2, <1>4 DEF Ended
    <3>2. back'.at = layout'.main /\ back'.entry = EntryAt(layout.main)' /\ pos' = layout'.main + MainLength(layout.main)'
      <4>1. EntryAt(layout.main)' = EntryAt(layout.main) /\ MainLength(layout.main)' = MainLength(layout.main)
        <5>1. layout'.main = layout.main
          BY <1>2
        <5> QED BY <1>2, <5>1, Steady DEF EntryAt
      <4> QED BY <1>2, <2>1, <2>2, <2>3, <4>1
    <3> QED BY <2>7, <3>1, <3>2 DEF Ended
  <2>13. AsPromised'
    <3> SUFFICES ASSUME Repeated' PROVE AsPromised'
      BY DEF AsPromised
    <3>1. Repeated
      BY <1>2 DEF Repeated
    <3>2. /\ \A p \in BodyPhases : Laid(offs, lens, Section(p), {}, StartOf(p), EndOf(p))
          /\ FixedParts("hints") /\ offs[Slot(Hint)] = layout.hint
      BY <1>1, <3>1 DEF AsPromised
    <3>3. UsesObjectStreams(file) => Slot(MainXref) \in DOMAIN offs /\ offs[Slot(MainXref)] = pos
      BY <2>1, <3>2, BeforeOf DEF FixedParts
    <3>4. offs' = offs
      BY <1>1, <2>2, <3>3, WithSame
    <3>5. /\ \A p \in BodyPhases : Laid(offs', lens', Section(p)', {}, StartOf(p)', EndOf(p)')
          /\ FixedParts("hints")' /\ offs'[Slot(Hint)'] = layout'.hint
      BY <1>2, <3>2, <3>4, SameLayout, Steady
    <3> QED BY <2>7, <3>5 DEF AsPromised
  <2> QED BY <1>2, <2>8, <2>9, <2>10, <2>11, <2>12, <2>13, NotFirst DEF LinearInv, SecondPass
<1> QED BY <1>5, <1>6

(* The first pass gets to the next section, or to its end.                 *)
LEMMA NextFirst ==
    ASSUME LinearInv, pass = 1, NEW ph \in BodyPhases, phase = ph, todo = {},
           NEW q \in BodyPhases \cup {"hints"}, Before(q) = Before(ph) \cup {ph},
           phase' = q, todo' = IF q = "hints" THEN {} ELSE Section(q),
           file' = file, names' = names, pass' = 1, lens' = lens, Shape',
           \A n \in DOMAIN offs : n \in DOMAIN offs' /\ (n \notin Fixed => offs'[n] = offs[n]),
           DOMAIN offs' \subseteq DOMAIN offs \cup (Fixed \ {Slot(Hint)}),
           FixedParts(q)',
           \A p \in Before(ph) \cup {ph} : StartOf(p)' = StartOf(p),
           \A p \in Before(ph) : EndOf(p)' = EndOf(p), EndOf(ph)' = pos,
           q # "hints" => StartOf(q)' = pos',
           q = "hints" => /\ layout'.lens = lens' /\ layout'.entry = EntryAt(layout.main)'
                          /\ layout'.length = layout'.main + MainLength(layout.main)' /\ MainLength(layout.main)' \in Nat
    PROVE  LinearInv'
<1>1. FirstPass /\ Numbered(file, names) /\ Before(ph) \subseteq BodyPhases
  BY BeforeOf DEF LinearInv, Shape, BodyPhases
<1>2. Laid(offs, lens, Section(ph), {}, StartOf(ph), pos)
  BY <1>1 DEF FirstPass
<1>3. ASSUME NEW p \in Before(q) PROVE Laid(offs', lens', Section(p)', {}, StartOf(p)', EndOf(p)')
  <2>1. PICK e : e = EndOf(p)' /\ Laid(offs, lens, Section(p), {}, StartOf(p), e)
    BY <1>1, <1>2, <1>3 DEF FirstPass
  <2>2. p \in BodyPhases /\ Section(p) \subseteq Nat
    BY <1>1, <1>3, SectionNat
  <2>3. \A x \in Section(p) : x \in DOMAIN offs' /\ x \in DOMAIN lens' /\ offs'[x] = offs[x] /\ lens'[x] = lens[x]
    <3>1. \A x \in Section(p) : x \in DOMAIN offs /\ x \in DOMAIN lens
      BY <2>1 DEF Laid
    <3>2. \A x \in Section(p) : x \notin Fixed
      BY <1>1, <2>2, Sections
    <3> QED BY <3>1, <3>2
  <2>4. Laid(offs', lens', Section(p), {}, StartOf(p), e)
    BY <2>1, <2>2, <2>3, LaidSame
  <2>5. StartOf(p)' = StartOf(p) /\ Section(p)' = Section(p)
    BY <1>3, Steady
  <2> QED BY <2>1, <2>4, <2>5
<1>4. q \in BodyPhases => Laid(offs', lens', Section(q)', todo', StartOf(q)', pos')
  <2> SUFFICES ASSUME q \in BodyPhases PROVE Laid(offs', lens', Section(q)', todo', StartOf(q)', pos')
    OBVIOUS
  <2>1. q # "hints"
    BY DEF BodyPhases
  <2>2. Laid(offs', lens', Section(q), Section(q), pos', pos')
    BY LaidNone
  <2>3. Section(q)' = Section(q)
    BY Steady
  <2> QED BY <2>1, <2>2, <2>3
<1>5. DOMAIN lens' = Written(q)' \cup (IF q \in BodyPhases THEN Section(q)' \ todo' ELSE {})
  <2>1. DOMAIN lens = Written(ph) \cup Section(ph)
    BY <1>1 DEF FirstPass
  <2>2. Written(q) = Written(ph) \cup Section(ph)
    BY DEF Written
  <2>3. q \in BodyPhases => todo' = Section(q)
    BY DEF BodyPhases
  <2>4. Section(q)' = Section(q) /\ Written(q)' = Written(q)
    BY Steady
  <2> QED BY <2>1, <2>2, <2>3, <2>4
<1>6. DOMAIN lens' \subseteq DOMAIN offs' /\ \A n \in DOMAIN offs' : ~IsMember(n)' /\ n \in 1 .. Len(names'.table) /\ n # Slot(Hint)'
  <2>1. DOMAIN lens \subseteq DOMAIN offs /\ \A n \in DOMAIN offs : ~IsMember(n) /\ n \in 1 .. Len(names.table) /\ n # Slot(Hint)
    BY <1>1 DEF FirstPass
  <2>2. \A n \in Fixed : ~IsMember(n) /\ n \in 1 .. Len(names.table)
    BY <1>1, Sections
  <2> QED BY <2>1, <2>2, Steady
<1>7. phase' # "failed" /\ (todo' = {} \/ q \in BodyPhases)
  BY DEF BodyPhases
<1>8. FirstPass'
  BY <1>3, <1>4, <1>5, <1>6, <1>7 DEF FirstPass
<1> QED BY <1>8, NotSecond DEF LinearInv

(* Records of the first pass.                                              *)
LEMMA HintFirst ==
    ASSUME LinearInv, pass = 1, WriteHint PROVE LinearInv'
<1>1. /\ phase = "open" /\ todo = {} /\ FirstPass /\ Shape /\ Numbered(file, names)
      /\ pos \in Nat /\ IsFunction(offs) /\ hint.length = 0 /\ layout.hint \in Nat
  BY DEF LinearInv, WriteHint, Shape
<1>2. Before("page") = Before("open") \cup {"open"} /\ "open" \in BodyPhases /\ "page" \in BodyPhases /\ "page" # "hints"
      /\ Before("open") = {"root"}
  BY BeforeOf DEF BodyPhases
<1> DEFINE at == pos + EncryptBytes
<1>3. /\ file' = file /\ names' = names /\ size' = size /\ pass' = 1 /\ lens' = lens /\ hint' = hint
      /\ phase' = "page" /\ todo' = Section("page")
  BY DEF WriteHint
<1>4. /\ offs' = IF Encrypted THEN With(offs, Slot(EncryptDict), pos) ELSE offs
      /\ pos' = at + hint.length /\ layout' = [layout EXCEPT !.hint = at]
  BY DEF WriteHint
<1>5. EncryptBytes \in Nat /\ (Encrypted => EncryptBytes = Frame) /\ Frame \in Nat
  BY SizesAssumption DEF EncryptBytes
<1>6. at \in Nat /\ pos' \in Nat /\ pos' = at /\ at - EncryptBytes = pos /\ at >= EncryptBytes
  BY <1>1, <1>4, <1>5
<1>7. /\ DOMAIN layout' = DOMAIN layout /\ layout'.hint = at /\ layout'.end = layout.end /\ layout'.main = layout.main
  BY <1>1, <1>4 DEF Shape
<1> HIDE DEF at
<1>8. Encrypted => Slot(EncryptDict) \in Fixed /\ Slot(EncryptDict) # Slot(Hint)
  BY <1>1, Specials DEF Fixed
<1>9. /\ IsFunction(offs') /\ \A n \in DOMAIN offs : n \in DOMAIN offs' /\ (n \notin Fixed => offs'[n] = offs[n])
      /\ DOMAIN offs' \subseteq DOMAIN offs \cup (Fixed \ {Slot(Hint)})
      /\ \A n \in DOMAIN offs : (Encrypted => n # Slot(EncryptDict)) => offs'[n] = offs[n]
      /\ Encrypted => Slot(EncryptDict) \in DOMAIN offs' /\ offs'[Slot(EncryptDict)] = pos
  <2>1. CASE Encrypted
    <3>1. Updates(offs', offs, Slot(EncryptDict), pos)
      BY <1>4, <2>1, WithUpdates
    <3> QED BY <1>8, <2>1, <3>1 DEF Updates
  <2>2. CASE ~Encrypted
    BY <1>1, <1>4, <2>2
  <2> QED BY <2>1, <2>2
<1>10. Shape'
  BY <1>1, <1>3, <1>6, <1>7, <1>9 DEF Shape, Phases, BodyPhases
<1>11. FixedParts("page")'
  <2>1. FixedParts("open")
    BY <1>1 DEF FirstPass
  <2>2. /\ ParamNumber \in DOMAIN offs /\ offs[ParamNumber] = Frame
        /\ UsesObjectStreams(file) => Slot(FirstXref) \in DOMAIN offs /\ offs[Slot(FirstXref)] = FrontStart
    BY <2>1 DEF FixedParts
  <2>3. Encrypted => Slot(EncryptDict) # ParamNumber /\ (UsesObjectStreams(file) => Slot(EncryptDict) # Slot(FirstXref))
    BY <1>1, Specials
  <2>4. /\ ParamNumber \in DOMAIN offs' /\ offs'[ParamNumber] = Frame
        /\ UsesObjectStreams(file) => Slot(FirstXref) \in DOMAIN offs' /\ offs'[Slot(FirstXref)] = FrontStart
    BY <1>9, <2>2, <2>3
  <2>5. Encrypted => Slot(EncryptDict) \in DOMAIN offs' /\ offs'[Slot(EncryptDict)] = layout'.hint - Frame
    BY <1>5, <1>6, <1>7, <1>9
  <2>6. layout'.hint >= EncryptBytes
    BY <1>6, <1>7
  <2>7. Before("page") # BodyPhases
    BY BeforeOf DEF BodyPhases
  <2> QED BY <1>3, <2>4, <2>5, <2>6, <2>7, Steady DEF FixedParts
<1>12. offs'[Root] = offs[Root]
  <2>1. Laid(offs, lens, Section("root"), {}, StartOf("root"), EndOf("root"))
    BY <1>1, <1>2 DEF FirstPass
  <2>2. Root \in Section("root") /\ Root \notin Fixed
    BY <1>1, RoleSets, Sections DEF BodyPhases
  <2>3. Root \in DOMAIN offs
    BY <2>1, <2>2 DEF Laid
  <2> QED BY <1>9, <2>2, <2>3
<1>13. \A p \in Before("open") \cup {"open"} : StartOf(p)' = StartOf(p)
  BY <1>2, <1>3, <1>12, Steady DEF StartOf
<1>14. \A p \in Before("open") : EndOf(p)' = EndOf(p)
  BY <1>2, <1>3, <1>12, Steady DEF EndOf
<1>15. EndOf("open")' = pos
  BY <1>3, <1>6, <1>7, Steady DEF EndOf
<1>16. StartOf("page")' = pos'
  BY <1>1, <1>3, <1>4, <1>7 DEF StartOf
<1> QED BY <1>1, <1>2, <1>3, <1>9, <1>10, <1>11, <1>13, <1>14, <1>15, <1>16, NextFirst

LEMMA EndPageFirst ==
    ASSUME LinearInv, pass = 1, EndFirstPage PROVE LinearInv'
<1>1. /\ phase = "page" /\ todo = {} /\ FirstPass /\ Shape /\ Numbered(file, names)
      /\ pos \in Nat /\ IsFunction(offs) /\ hint.length = 0
  BY DEF LinearInv, EndFirstPage, Shape
<1>2. Before("rest") = Before("page") \cup {"page"} /\ "page" \in BodyPhases /\ "rest" \in BodyPhases /\ "rest" # "hints"
      /\ Before("page") = {"root", "open"}
  BY BeforeOf DEF BodyPhases
<1>3. /\ file' = file /\ names' = names /\ size' = size /\ pass' = 1 /\ lens' = lens /\ hint' = hint /\ offs' = offs
      /\ phase' = "rest" /\ todo' = Section("rest") /\ pos' = pos /\ layout' = [layout EXCEPT !.end = pos]
  BY DEF EndFirstPage
<1>4. /\ DOMAIN layout' = DOMAIN layout /\ layout'.end = pos /\ layout'.hint = layout.hint /\ layout'.main = layout.main
  BY <1>1, <1>3 DEF Shape
<1>5. Shape'
  BY <1>1, <1>3, <1>4 DEF Shape, Phases, BodyPhases
<1>6. FixedParts("rest")'
  <2>1. FixedParts("page")
    BY <1>1 DEF FirstPass
  <2>2. Before("rest") # BodyPhases
    BY BeforeOf DEF BodyPhases
  <2> QED BY <1>2, <1>3, <1>4, <2>1, <2>2, Steady DEF FixedParts
<1>7. \A p \in Before("page") \cup {"page"} : StartOf(p)' = StartOf(p)
  BY <1>2, <1>3, <1>4, Steady DEF StartOf
<1>8. \A p \in Before("page") : EndOf(p)' = EndOf(p)
  BY <1>2, <1>3, <1>4, Steady DEF EndOf
<1>9. EndOf("page")' = pos /\ StartOf("rest")' = pos'
  BY <1>1, <1>3, <1>4 DEF EndOf, StartOf
<1> QED BY <1>1, <1>2, <1>3, <1>5, <1>6, <1>7, <1>8, <1>9, NextFirst

LEMMA EndPassFirst ==
    ASSUME LinearInv, pass = 1, EndPass, pos < Power[8] PROVE LinearInv'
<1>1. /\ phase = "rest" /\ todo = {} /\ FirstPass /\ Shape /\ Numbered(file, names)
      /\ pos \in Nat /\ IsFunction(offs) /\ hint.length = 0
  BY DEF LinearInv, EndPass, Shape
<1>2. Before("hints") = Before("rest") \cup {"rest"} /\ "rest" \in BodyPhases /\ "hints" \in BodyPhases \cup {"hints"}
      /\ Before("rest") = {"root", "open", "page"}
  BY BeforeOf DEF BodyPhases
<1>3. ~Drifted
  BY DEF Drifted
<1>4. /\ file' = file /\ names' = names /\ size' = size /\ pass' = 1 /\ lens' = lens /\ hint' = hint
  BY DEF EndPass
<1>5. /\ phase' = "hints" /\ todo' = {} /\ pos' = MainSection.end
      /\ offs' = IF UsesObjectStreams(file) THEN With(offs, Slot(MainXref), pos) ELSE offs
  BY <1>1, <1>3 DEF EndPass
<1>6. layout' = [layout EXCEPT !.main = MainSection.at, !.entry = MainSection.entry, !.length = MainSection.end, !.lens = lens]
  BY <1>1, <1>3 DEF EndPass
<1>7. MainSection.at = pos /\ MainSection.entry = EntryAt(pos) /\ MainSection.end = pos + MainLength(pos)
  <2>1. CASE UsesObjectStreams(file)
    BY <1>1, <2>1 DEF MainSection, EntryAt
  <2>2. CASE ~UsesObjectStreams(file)
    BY <1>1, <2>2 DEF MainSection, EntryAt
  <2> QED BY <2>1, <2>2
<1>8. /\ DOMAIN layout' = DOMAIN layout /\ layout'.end = layout.end /\ layout'.hint = layout.hint
      /\ layout'.main = pos /\ layout'.entry = EntryAt(pos) /\ layout'.length = pos + MainLength(pos) /\ layout'.lens = lens
  BY <1>1, <1>6, <1>7 DEF Shape
<1>9. pos' \in Nat
  <2>1. MainLength(pos) \in Nat
    BY <1>1, MainLengthNat
  <2> QED BY <1>1, <1>5, <1>7, <2>1
<1>10. UsesObjectStreams(file) => Slot(MainXref) \in Fixed /\ Slot(MainXref) # Slot(Hint)
  BY <1>1, Specials DEF Fixed
<1>11. /\ IsFunction(offs') /\ \A n \in DOMAIN offs : n \in DOMAIN offs' /\ (n \notin Fixed => offs'[n] = offs[n])
       /\ DOMAIN offs' \subseteq DOMAIN offs \cup (Fixed \ {Slot(Hint)})
       /\ \A n \in DOMAIN offs : (UsesObjectStreams(file) => n # Slot(MainXref)) => offs'[n] = offs[n]
       /\ UsesObjectStreams(file) => Slot(MainXref) \in DOMAIN offs' /\ offs'[Slot(MainXref)] = pos
  <2>1. CASE UsesObjectStreams(file)
    <3>1. Updates(offs', offs, Slot(MainXref), pos)
      BY <1>5, <2>1, WithUpdates
    <3> QED BY <1>10, <2>1, <3>1 DEF Updates
  <2>2. CASE ~UsesObjectStreams(file)
    BY <1>1, <1>5, <2>2
  <2> QED BY <2>1, <2>2
<1>12. Shape'
  BY <1>1, <1>4, <1>5, <1>8, <1>9, <1>11 DEF Shape, Phases, BodyPhases
<1>13. FixedParts("hints")'
  <2>1. FixedParts("rest") /\ "open" \in Before("rest") /\ "open" \in Before("hints")
    BY <1>1, <1>2 DEF FirstPass
  <2>2. /\ ParamNumber \in DOMAIN offs /\ offs[ParamNumber] = Frame
        /\ UsesObjectStreams(file) => Slot(FirstXref) \in DOMAIN offs /\ offs[Slot(FirstXref)] = FrontStart
        /\ Encrypted => Slot(EncryptDict) \in DOMAIN offs /\ offs[Slot(EncryptDict)] = layout.hint - Frame
        /\ layout.hint >= EncryptBytes
    BY <2>1 DEF FixedParts
  <2>3. UsesObjectStreams(file) => /\ Slot(MainXref) # ParamNumber /\ Slot(MainXref) # Slot(FirstXref)
                                   /\ Encrypted => Slot(MainXref) # Slot(EncryptDict)
    BY <1>1, Specials
  <2>4. /\ ParamNumber \in DOMAIN offs' /\ offs'[ParamNumber] = Frame
        /\ UsesObjectStreams(file) => Slot(FirstXref) \in DOMAIN offs' /\ offs'[Slot(FirstXref)] = FrontStart
        /\ Encrypted => Slot(EncryptDict) \in DOMAIN offs' /\ offs'[Slot(EncryptDict)] = layout'.hint - Frame
        /\ layout'.hint >= EncryptBytes
    BY <1>8, <1>11, <2>2, <2>3
  <2>5. UsesObjectStreams(file) => Slot(MainXref) \in DOMAIN offs' /\ offs'[Slot(MainXref)] = layout'.main
    BY <1>8, <1>11
  <2> QED BY <1>4, <2>4, <2>5, Steady DEF FixedParts
<1>14. offs'[Root] = offs[Root]
  <2>1. Laid(offs, lens, Section("root"), {}, StartOf("root"), EndOf("root"))
    BY <1>1, <1>2 DEF FirstPass
  <2>2. Root \in Section("root") /\ Root \notin Fixed
    BY <1>1, RoleSets, Sections DEF BodyPhases
  <2>3. Root \in DOMAIN offs
    BY <2>1, <2>2 DEF Laid
  <2> QED BY <1>11, <2>2, <2>3
<1>15. \A p \in Before("rest") \cup {"rest"} : StartOf(p)' = StartOf(p)
  BY <1>2, <1>4, <1>8, <1>14, Steady DEF StartOf
<1>16. \A p \in Before("rest") : EndOf(p)' = EndOf(p)
  BY <1>2, <1>4, <1>8, <1>14, Steady DEF EndOf
<1>17. EndOf("rest")' = pos
  BY <1>8 DEF EndOf
<1>18. layout'.entry = EntryAt(layout.main)' /\ layout'.length = layout'.main + MainLength(layout.main)' /\ MainLength(layout.main)' \in Nat
  <2>1. EntryAt(layout.main)' = EntryAt(pos)
    BY <1>4, <1>8 DEF EntryAt
  <2>2. MainLength(layout.main)' = MainLength(pos)
    <3>1. PICK v : v = layout'.main
      OBVIOUS
    <3>2. MainLength(layout.main)' = MainLength(v)'
      BY <3>1
    <3> QED BY <1>4, <1>8, <3>1, <3>2, Steady
  <2>3. MainLength(pos) \in Nat
    BY <1>1, MainLengthNat
  <2> QED BY <1>8, <2>1, <2>2, <2>3
<1> QED BY <1>1, <1>2, <1>4, <1>5, <1>8, <1>11, <1>12, <1>13, <1>15, <1>16, <1>17, <1>18, NextFirst

(* The sections follow one another.                                        *)
LEMMA InOrder ==
    ASSUME Shape, FixedParts("hints"),
           \A p \in BodyPhases : Laid(offs, lens, Section(p), {}, StartOf(p), EndOf(p))
    PROVE  /\ BodyStart \in Nat /\ FrontStart \in Nat /\ Frame \in Nat \ {0} /\ Frame < FrontStart /\ FrontStart < BodyStart
           /\ \A p \in BodyPhases : StartOf(p) \in Nat /\ EndOf(p) \in Nat /\ StartOf(p) <= EndOf(p)
           /\ StartOf("root") = BodyStart /\ StartOf("open") = EndOf("root") /\ EndOf("open") <= layout.hint
           /\ layout.hint <= StartOf("page") /\ StartOf("rest") = EndOf("page") /\ EndOf("rest") = layout.main
<1>1. /\ Numbered(file, names) /\ layout.hint \in Nat /\ layout.end \in Nat /\ layout.main \in Nat /\ hint.length \in Nat
  BY DEF Shape
<1>2. Frame \in Nat \ {0} /\ RowSize \in Nat /\ Cardinality(FirstRange) \in Nat /\ BodyStart \in Nat /\ wide_field2 \in Nat
  BY <1>1, BodyStartNat, SizesAssumption
<1>3. FrontStart \in Nat /\ Frame < FrontStart
  BY <1>2 DEF FrontStart
<1>4. FrontStart < BodyStart
  <2>1. CASE UsesObjectStreams(file)
    <3> DEFINE region == first_pass_region_len(Cardinality(FirstRange), wide_field2)
               object == StreamObject(Cardinality(FirstRange), wide_field2)
    <3>1. object \in Nat /\ region = object + Frame
      BY <1>1, <1>2, <2>1, RegionNat
    <3>2. BodyStart = FrontStart + region
      BY <2>1 DEF BodyStart
    <3> HIDE DEF region, object
    <3> QED BY <1>2, <1>3, <3>1, <3>2
  <2>2. CASE ~UsesObjectStreams(file)
    <3>1. RowSize * Cardinality(FirstRange) \in Nat
      BY <1>2
    <3>2. BodyStart = FrontStart + (Frame + RowSize * Cardinality(FirstRange))
      BY <2>2 DEF BodyStart
    <3> QED BY <1>2, <1>3, <3>1, <3>2
  <2> QED BY <2>1, <2>2
<1>5. {"root", "open", "page", "rest"} = BodyPhases
  BY DEF BodyPhases
<1>6. /\ StartOf("root") = BodyStart /\ StartOf("open") = EndOf("root") /\ EndOf("open") = layout.hint - EncryptBytes
      /\ StartOf("page") = layout.hint + hint.length /\ EndOf("page") = layout.end + hint.length
      /\ StartOf("rest") = layout.end + hint.length /\ EndOf("rest") = layout.main
      /\ EndOf("root") = offs[Root] + lens[Root]
  BY DEF StartOf, EndOf
<1>7. EndOf("root") \in Nat
  <2>1. Laid(offs, lens, Section("root"), {}, StartOf("root"), EndOf("root")) /\ Root \in Section("root")
    BY <1>5, RoleSets
  <2>2. offs[Root] \in Nat /\ lens[Root] \in Nat
    BY <2>1 DEF Laid
  <2> QED BY <1>6, <2>2
<1>8. EncryptBytes \in Nat /\ layout.hint >= EncryptBytes
  BY <1>2, BeforeOf DEF FixedParts, EncryptBytes, BodyPhases
<1>9. EndOf("open") \in Nat /\ EndOf("open") <= layout.hint
  BY <1>1, <1>6, <1>8
<1>10. StartOf("page") \in Nat /\ EndOf("page") \in Nat /\ StartOf("rest") \in Nat /\ EndOf("rest") \in Nat /\ layout.hint <= StartOf("page")
  BY <1>1, <1>6
<1>11. \A p \in BodyPhases : StartOf(p) \in Nat /\ EndOf(p) \in Nat
  BY <1>2, <1>5, <1>6, <1>7, <1>9, <1>10
<1>12. \A p \in BodyPhases : StartOf(p) <= EndOf(p)
  <2> SUFFICES ASSUME NEW p \in BodyPhases PROVE StartOf(p) <= EndOf(p)
    OBVIOUS
  <2>1. Laid(offs, lens, Section(p), {}, StartOf(p), EndOf(p)) /\ StartOf(p) \in Nat /\ EndOf(p) \in Nat
    BY <1>11
  <2> QED BY <2>1, LaidOrder
<1> QED BY <1>2, <1>3, <1>4, <1>6, <1>9, <1>10, <1>11, <1>12

LEMMA BuildHintsStep ==
    ASSUME LinearInv, BuildHints PROVE LinearInv'
<1>1. /\ phase = "hints" /\ pass = 1 /\ FirstPass /\ Shape /\ Numbered(file, names) /\ hint.length = 0
      /\ layout.hint \in Nat /\ layout.end \in Nat /\ layout.main \in Nat
  BY DEF LinearInv, BuildHints, Shape
<1>2. PICK length \in HintSizes :
         /\ hint' = PageHints(length) /\ offs' = Moved(length) /\ params' = back_patch_param_dict(length)
         /\ layout' = [layout EXCEPT !.main = @ + length]
  BY DEF BuildHints
<1>3. /\ file' = file /\ names' = names /\ size' = size /\ lens' = lens
      /\ pass' = 2 /\ phase' = "front" /\ pos' = 0 /\ todo' = {}
  BY DEF BuildHints
<1>4. length \in Nat /\ hint'.length = length
  BY <1>2, SizesAssumption DEF PageHints
<1>5. /\ DOMAIN layout' = DOMAIN layout /\ layout'.hint = layout.hint /\ layout'.end = layout.end
      /\ layout'.main = layout.main + length /\ layout'.lens = layout.lens
  BY <1>1, <1>2 DEF Shape
<1>6. /\ \A p \in BodyPhases : Laid(offs, lens, Section(p), {}, StartOf(p), EndOf(p))
      /\ FixedParts("hints") /\ layout.lens = lens /\ layout.entry = EntryAt(layout.main)
      /\ layout.length = layout.main + MainLength(layout.main)
      /\ DOMAIN lens = Written("hints") /\ DOMAIN lens \subseteq DOMAIN offs
      /\ \A n \in DOMAIN offs : ~IsMember(n) /\ n \in 1 .. Len(names.table) /\ n # Slot(Hint)
  <2>1. "hints" \notin BodyPhases /\ Before("hints") = BodyPhases
    BY BeforeOf DEF BodyPhases
  <2> QED BY <1>1, <2>1 DEF FirstPass
<1>7. /\ BodyStart \in Nat /\ FrontStart \in Nat /\ Frame \in Nat \ {0} /\ Frame < FrontStart /\ FrontStart < BodyStart
      /\ \A p \in BodyPhases : StartOf(p) \in Nat /\ EndOf(p) \in Nat /\ StartOf(p) <= EndOf(p)
      /\ StartOf("root") = BodyStart /\ StartOf("open") = EndOf("root") /\ EndOf("open") <= layout.hint
      /\ layout.hint <= StartOf("page") /\ StartOf("rest") = EndOf("page") /\ EndOf("rest") = layout.main
  BY <1>1, <1>6, InOrder
<1>8. {"root", "open", "page", "rest"} = BodyPhases
  BY DEF BodyPhases
<1>9. /\ IsFunction(offs') /\ DOMAIN offs' = DOMAIN offs \cup {Slot(Hint)} /\ offs'[Slot(Hint)] = layout.hint
      /\ \A n \in DOMAIN offs : offs'[n] = IF offs[n] >= layout.hint THEN offs[n] + length ELSE offs[n]
  <2> DEFINE o == [n \in DOMAIN offs |-> IF offs[n] >= layout.hint THEN offs[n] + length ELSE offs[n]]
  <2>1. offs' = With(o, Slot(Hint), layout.hint)
    BY <1>2 DEF Moved
  <2>2. Updates(offs', o, Slot(Hint), layout.hint)
    BY <2>1, WithUpdates
  <2>3. DOMAIN o = DOMAIN offs /\ \A n \in DOMAIN offs : o[n] = IF offs[n] >= layout.hint THEN offs[n] + length ELSE offs[n]
    OBVIOUS
  <2> HIDE DEF o
  <2> QED BY <1>6, <2>2, <2>3 DEF Updates
<1>10. Shape'
  <2>1. pos' \in Nat /\ layout'.main \in Nat /\ IsFunction(lens')
    BY <1>1, <1>3, <1>4, <1>5 DEF Shape
  <2> QED BY <1>1, <1>3, <1>4, <1>5, <1>9, <2>1 DEF Shape, Phases
<1>11. AllKnown'
  <2>1. \A n \in DOMAIN offs' : n \in 1 .. Len(names.table) /\ ~IsMember(n)
    <3>1. Slot(Hint) \in Fixed
      BY DEF Fixed
    <3> QED BY <1>1, <1>6, <1>9, <3>1, Sections
  <2>2. ASSUME NEW n \in 1 .. Len(names.table), ~IsMember(n) PROVE n \in DOMAIN offs'
    <3>1. CASE n \in Fixed
      BY <1>6, <1>9, <3>1, BeforeOf DEF Fixed, FixedParts, BodyPhases
    <3>2. CASE \E p \in BodyPhases : n \in Section(p)
      BY <1>6, <1>9, <3>2 DEF Laid
    <3> QED BY <1>1, <2>2, <3>1, <3>2, Everything
  <2>3. DOMAIN offs' = {n \in 1 .. Len(names.table) : ~IsMember(n)}
    BY <2>1, <2>2
  <2> QED BY <1>3, <1>5, <1>6, <2>3, Steady DEF AllKnown
<1>12. Repeated' /\ LensAhead'
  <2>1. Repeated'
    BY <1>3, <1>5, <1>6 DEF Repeated
  <2>2. phase' \notin BodyPhases
    BY <1>3 DEF BodyPhases
  <2> QED BY <2>1, <2>2 DEF LensAhead
<1>13. Ended'
  BY <1>3 DEF Ended
<1>14. Promises'
  <2>1. params' = [L |-> layout.length + length, H |-> <<layout.hint, length>>, E |-> layout.end + length,
                   O |-> Slot(Object(Head(file.part2))), N |-> 1 + Len(file.private), T |-> layout.entry + length - 1]
    BY <1>2 DEF back_patch_param_dict
  <2>2. /\ params'.H = <<layout.hint, length>> /\ params'.E = layout.end + length
        /\ params'.O = Slot(Object(Head(file.part2))) /\ params'.T = layout.entry + length - 1
        /\ params'.L = layout.length + length
    BY <2>1
  <2>3. layout'.main - hint'.length = layout.main /\ layout'.main >= hint'.length
    BY <1>1, <1>4, <1>5
  <2>4. EntryAt(layout.main)' - 1 = layout.entry + length - 1
    <3>1. EntryAt(layout.main)' = layout.main + length + (IF UsesObjectStreams(file) THEN 0 ELSE Frame)
      BY <1>3, <1>5 DEF EntryAt
    <3>2. layout.entry = layout.main + (IF UsesObjectStreams(file) THEN 0 ELSE Frame)
      BY <1>6 DEF EntryAt
    <3> QED BY <1>1, <1>4, <1>7, <3>1, <3>2
  <2>5. MainLength(layout.main - hint.length)' = MainLength(layout.main)
    <3>1. PICK v : v = layout.main
      OBVIOUS
    <3>2. MainLength(layout.main - hint.length)' = MainLength(v)'
      BY <2>3, <3>1
    <3> QED BY <1>3, <3>1, <3>2, Steady
  <2>6. layout.length + length = (layout.main + length) + MainLength(layout.main)
    <3>1. MainLength(layout.main) \in Nat
      BY <1>1 DEF FirstPass
    <3> QED BY <1>1, <1>4, <1>6, <3>1
  <2>7. Slot(Object(Head(file.part2)))' = Slot(Object(Head(file.part2)))
    BY <1>3 DEF Slot
  <2> QED BY <1>4, <1>5, <2>2, <2>3, <2>4, <2>5, <2>6, <2>7 DEF Promises
<1>15. /\ \A n \in Section("root") \cup Section("open") : n \in DOMAIN offs' /\ offs'[n] = offs[n]
       /\ \A n \in Section("page") \cup Section("rest") : n \in DOMAIN offs' /\ offs'[n] = offs[n] + length
  <2>1. ASSUME NEW p \in BodyPhases, NEW n \in Section(p)
        PROVE  n \in DOMAIN offs /\ offs[n] \in Nat /\ StartOf(p) <= offs[n] /\ offs[n] < EndOf(p)
    <3>1. n \in DOMAIN offs /\ offs[n] \in Nat /\ lens[n] \in Nat \ {0} /\ StartOf(p) <= offs[n] /\ offs[n] + lens[n] <= EndOf(p)
      BY <1>6, <2>1 DEF Laid
    <3> QED BY <1>7, <2>1, <3>1
  <2>2. EndOf("root") <= EndOf("open") /\ EndOf("root") \in Nat /\ EndOf("open") \in Nat /\ EndOf("open") <= layout.hint
    BY <1>7, <1>8
  <2>3. ASSUME NEW n \in Section("root") \cup Section("open") PROVE n \in DOMAIN offs' /\ offs'[n] = offs[n]
    <3>1. n \in DOMAIN offs /\ offs[n] \in Nat /\ (offs[n] < EndOf("root") \/ offs[n] < EndOf("open"))
      BY <1>8, <2>1, <2>3
    <3>2. ~(offs[n] >= layout.hint)
      BY <1>1, <2>2, <3>1
    <3> QED BY <1>9, <3>1, <3>2
  <2>4. StartOf("page") \in Nat /\ StartOf("rest") \in Nat /\ StartOf("page") <= StartOf("rest") /\ layout.hint <= StartOf("page")
    BY <1>7, <1>8
  <2>5. ASSUME NEW n \in Section("page") \cup Section("rest") PROVE n \in DOMAIN offs' /\ offs'[n] = offs[n] + length
    <3>1. n \in DOMAIN offs /\ offs[n] \in Nat /\ (StartOf("page") <= offs[n] \/ StartOf("rest") <= offs[n])
      BY <1>8, <2>1, <2>5
    <3>2. offs[n] >= layout.hint
      BY <1>1, <2>4, <3>1
    <3> QED BY <1>9, <3>1, <3>2
  <2> QED BY <2>3, <2>5
<1>16. Root \in Section("root")
  BY RoleSets
<1>17. /\ StartOf("root")' = StartOf("root") /\ EndOf("root")' = EndOf("root")
       /\ StartOf("open")' = StartOf("open") /\ EndOf("open")' = EndOf("open")
       /\ StartOf("page")' = StartOf("page") + length /\ EndOf("page")' = EndOf("page") + length
       /\ StartOf("rest")' = StartOf("rest") + length /\ EndOf("rest")' = EndOf("rest") + length
  <2>1. offs'[Root] = offs[Root]
    BY <1>15, <1>16
  <2>2. /\ StartOf("root")' = StartOf("root") /\ EndOf("root")' = EndOf("root")
        /\ StartOf("open")' = StartOf("open") /\ EndOf("open")' = EndOf("open")
    BY <1>3, <1>5, <2>1, Steady DEF StartOf, EndOf
  <2>3. /\ StartOf("page")' = layout.hint + length /\ EndOf("page")' = layout.end + length
        /\ StartOf("rest")' = layout.end + length /\ EndOf("rest")' = layout.main + length
    BY <1>4, <1>5 DEF StartOf, EndOf
  <2>4. /\ StartOf("page") = layout.hint /\ EndOf("page") = layout.end
        /\ StartOf("rest") = layout.end /\ EndOf("rest") = layout.main
    BY <1>1 DEF StartOf, EndOf
  <2> QED BY <2>2, <2>3, <2>4
<1>18. ASSUME NEW p \in BodyPhases PROVE Laid(offs', lens', Section(p)', {}, StartOf(p)', EndOf(p)')
  <2>1. Laid(offs, lens, Section(p), {}, StartOf(p), EndOf(p)) /\ Section(p) \subseteq Nat /\ StartOf(p) \in Nat /\ EndOf(p) \in Nat
    BY <1>1, <1>6, <1>7, <1>18, SectionNat
  <2>2. Section(p)' = Section(p)
    BY <1>3, Steady
  <2>3. CASE p \in {"root", "open"}
    <3>1. \A n \in Section(p) : n \in DOMAIN offs' /\ n \in DOMAIN lens /\ offs'[n] = offs[n] /\ lens[n] = lens[n]
      BY <1>15, <2>1, <2>3 DEF Laid
    <3>2. Laid(offs', lens, Section(p), {}, StartOf(p), EndOf(p))
      BY <2>1, <3>1, LaidSame
    <3>3. StartOf(p)' = StartOf(p) /\ EndOf(p)' = EndOf(p)
      BY <1>17, <2>3
    <3> QED BY <1>3, <2>2, <3>2, <3>3
  <2>4. CASE p \in {"page", "rest"}
    <3>1. \A n \in Section(p) : n \in DOMAIN offs' /\ offs'[n] = offs[n] + length
      BY <1>15, <2>4
    <3>2. Laid(offs', lens, Section(p), {}, StartOf(p) + length, EndOf(p) + length)
      BY <1>4, <2>1, <3>1, LaidMoved
    <3>3. StartOf(p)' = StartOf(p) + length /\ EndOf(p)' = EndOf(p) + length
      BY <1>17, <2>4
    <3> QED BY <1>3, <2>2, <3>2, <3>3
  <2> QED BY <1>8, <1>18, <2>3, <2>4
<1>19. FixedParts("hints")'
  <2>1. "open" \in Before("hints") /\ Before("hints") = BodyPhases
    BY BeforeOf DEF BodyPhases
  <2>2. /\ ParamNumber \in DOMAIN offs /\ offs[ParamNumber] = Frame
        /\ UsesObjectStreams(file) => Slot(FirstXref) \in DOMAIN offs /\ offs[Slot(FirstXref)] = FrontStart
        /\ Encrypted => Slot(EncryptDict) \in DOMAIN offs /\ offs[Slot(EncryptDict)] = layout.hint - Frame
        /\ layout.hint >= EncryptBytes
        /\ UsesObjectStreams(file) => Slot(MainXref) \in DOMAIN offs /\ offs[Slot(MainXref)] = layout.main
    BY <1>6, <2>1 DEF FixedParts
  <2>3. FrontStart < layout.hint /\ Frame < layout.hint /\ layout.hint - Frame < layout.hint /\ layout.main >= layout.hint
    <3>1. /\ StartOf("root") <= EndOf("root") /\ StartOf("open") <= EndOf("open") /\ StartOf("page") <= EndOf("page") /\ StartOf("rest") <= EndOf("rest")
          /\ EndOf("root") \in Nat /\ EndOf("open") \in Nat /\ EndOf("page") \in Nat /\ StartOf("page") \in Nat
      BY <1>7, <1>8
    <3> QED BY <1>1, <1>7, <3>1
  <2>4. /\ ParamNumber \in DOMAIN offs' /\ offs'[ParamNumber] = Frame
        /\ UsesObjectStreams(file) => Slot(FirstXref) \in DOMAIN offs' /\ offs'[Slot(FirstXref)] = FrontStart
    BY <1>1, <1>7, <1>9, <2>2, <2>3
  <2>5. Encrypted => Slot(EncryptDict) \in DOMAIN offs' /\ offs'[Slot(EncryptDict)] = layout.hint - Frame
    BY <1>1, <1>7, <1>9, <2>2, <2>3
  <2>6. UsesObjectStreams(file) => Slot(MainXref) \in DOMAIN offs' /\ offs'[Slot(MainXref)] = layout.main + length
    BY <1>1, <1>9, <2>2, <2>3
  <2> QED BY <1>3, <1>5, <2>2, <2>4, <2>5, <2>6, Steady DEF FixedParts
<1>20. AsPromised'
  <2>1. phase' \notin BodyPhases /\ offs'[Slot(Hint)'] = layout'.hint
    BY <1>3, <1>5, <1>9, Steady DEF BodyPhases
  <2> QED BY <1>18, <1>19, <2>1 DEF AsPromised
<1> QED BY <1>3, <1>10, <1>11, <1>12, <1>13, <1>14, <1>20, NotFirst DEF LinearInv, SecondPass

LEMMA Stutters == ASSUME LinearInv, UNCHANGED vars PROVE LinearInv'
<1>1. /\ file' = file /\ names' = names /\ size' = size /\ pass' = pass /\ phase' = phase /\ pos' = pos /\ offs' = offs
      /\ lens' = lens /\ todo' = todo /\ layout' = layout /\ hint' = hint /\ params' = params /\ front' = front
      /\ back' = back /\ error' = error
  BY DEF vars
<1>2. Shape'
  BY <1>1 DEF LinearInv, Shape
<1>3. FirstPass'
  <2>1. /\ Section(phase)' = Section(phase) /\ StartOf(phase)' = StartOf(phase) /\ FixedParts(phase)' = FixedParts(phase)
        /\ Written(phase)' = Written(phase) /\ EntryAt(layout.main)' = EntryAt(layout.main)
        /\ MainLength(layout.main)' = MainLength(layout.main)
    <3>1. EntryAt(layout.main)' = EntryAt(layout.main)
      BY <1>1 DEF EntryAt
    <3> QED BY <1>1, <3>1, SameLayout, Steady
  <2> QED BY <1>1, <2>1, SameLayout, Steady DEF LinearInv, FirstPass
<1>4. SecondPass'
  <2> SUFFICES ASSUME pass = 2 PROVE AllKnown' /\ LensAhead' /\ Promises' /\ AsPromised' /\ Ended'
    BY <1>1 DEF SecondPass
  <2>1. AllKnown /\ LensAhead /\ Promises /\ AsPromised /\ Ended
    BY DEF LinearInv, SecondPass
  <2>2. Section(phase)' = Section(phase) /\ EndOf(phase)' = EndOf(phase)
    BY <1>1, SameLayout, Steady
  <2>3. LensAhead'
    BY <1>1, <2>1, <2>2, SameLayout, Steady DEF LensAhead
  <2>4. AsPromised'
    BY <1>1, <2>1, <2>2, SameLayout, Steady DEF AsPromised
  <2>5. Ended'
    <3>1. EntryAt(layout.main)' = EntryAt(layout.main) /\ MainLength(layout.main)' = MainLength(layout.main)
      BY <1>1, Steady DEF EntryAt
    <3>2. Repeated' = Repeated
      BY <1>1 DEF Repeated
    <3> QED BY <1>1, <2>1, <3>1, <3>2 DEF Ended
  <2> QED BY <1>1, <2>1, <2>3, <2>4, <2>5, SameLayout, SamePromises
<1> QED BY <1>2, <1>3, <1>4 DEF LinearInv

(* Offsets are 64-bit numbers.                                             *)
Short == pos < Power[8] /\ layout.main < Power[8]

LEMMA LinearStep == ASSUME LinearInv, Short, [Next]_vars PROVE LinearInv'
<1>1. pass = 1 \/ pass = 2
  BY DEF LinearInv, Shape
<1>2. CASE WriteClassicFront \/ WriteStreamFront
  BY <1>1, <1>2, FrontFirst, FrontSecond DEF WriteFront
<1>3. CASE WriteObject \/ WriteContainer
  <2>1. phase \in BodyPhases
    BY <1>3 DEF WriteObject, WriteContainer, BodyPhases
  <2>2. todo \subseteq Section(phase)
    BY <1>1, <2>1 DEF LinearInv, FirstPass, SecondPass, LensAhead, Laid
  <2>3. PICK length \in Nat \ {0} : WriteNext(length)
    BY <1>3, <2>2, WritesNext
  <2> QED BY <1>1, <2>3, PutFirst, PutSecond
<1>4. CASE EndRoot
  BY <1>1, <1>4, EndRootFirst, EndRootSecond
<1>5. CASE WriteHint
  BY <1>1, <1>5, HintFirst, HintSecond
<1>6. CASE EndFirstPage
  BY <1>1, <1>6, EndPageFirst, EndPageSecond
<1>7. CASE EndPass
  BY <1>1, <1>7, EndPassFirst, EndPassSecond DEF Short
<1>8. CASE BuildHints
  BY <1>8, BuildHintsStep
<1>9. CASE Finished \/ UNCHANGED vars
  BY <1>9, Stutters DEF Finished
<1> QED BY <1>2, <1>3, <1>4, <1>5, <1>6, <1>7, <1>8, <1>9 DEF Next

(* The two passes agree in every state of a write of less than Power[8]    *)
(* bytes (do_write_pass): the offsets that BuildHints moved by the length  *)
(* of the hint stream are, as long as no object has another length than in *)
(* pass 1, where pass 2 puts every object, and pos is where the next one   *)
(* is expected.                                                            *)
THEOREM LayoutSound == Spec /\ []Short => []LinearInv
<1>1. LinearInv /\ Short /\ [Next]_vars => LinearInv'
  BY LinearStep
<1> QED BY InitLinear, <1>1, PTL DEF Spec

-----------------------------------------------------------------------------
(* The parameter dictionary.                                               *)

LEMMA NumberFound ==
    ASSUME NEW table, table \in Seq(ToSet(table)), NEW slot \in ToSet(table)
    PROVE  table[Number(table, slot)] = slot
<1> DEFINE I == {i \in 1 .. Len(table) : table[i] = slot}
<1>1. PICK i \in 1 .. Len(table) : table[i] = slot
  BY DEF ToSet
<1>2. I \subseteq Nat /\ I # {}
  BY <1>1
<1>3. Number(table, slot) = Min(I)
  BY <1>2 DEF Number, SelectInSeq
<1> HIDE DEF I
<1>4. Min(I) \in I
  BY <1>2, LeastNumber
<1> QED BY <1>3, <1>4 DEF I

LEMMA DoneParams == ASSUME LinearInv PROVE ParamsExact
<1> SUFFICES ASSUME Done, Repeated PROVE ParamsExact
  BY DEF ParamsExact
<1>1. /\ Shape /\ Numbered(file, names) /\ phase = "done" /\ pass = 2
      /\ AllKnown /\ Promises /\ AsPromised /\ Ended
      /\ layout.hint \in Nat /\ layout.end \in Nat /\ layout.main \in Nat /\ hint.length \in Nat
  BY DEF LinearInv, Shape, SecondPass, Done
<1>2. /\ \A p \in BodyPhases : Laid(offs, lens, Section(p), {}, StartOf(p), EndOf(p))
      /\ FixedParts("hints") /\ offs[Slot(Hint)] = layout.hint
  BY <1>1 DEF AsPromised
<1>3. /\ BodyStart \in Nat /\ FrontStart \in Nat /\ Frame \in Nat \ {0} /\ Frame < FrontStart /\ FrontStart < BodyStart
      /\ \A p \in BodyPhases : StartOf(p) \in Nat /\ EndOf(p) \in Nat /\ StartOf(p) <= EndOf(p)
      /\ StartOf("root") = BodyStart /\ StartOf("open") = EndOf("root") /\ EndOf("open") <= layout.hint
      /\ layout.hint <= StartOf("page") /\ StartOf("rest") = EndOf("page") /\ EndOf("rest") = layout.main
  BY <1>1, <1>2, InOrder
<1>4. {"root", "open", "page", "rest"} = BodyPhases
  BY DEF BodyPhases
<1> DEFINE E == params.E
<1>5. E = EndOf("page") /\ E \in Nat
  BY <1>1, <1>3, <1>4 DEF Promises, EndOf
<1>6. /\ EndOf("root") <= EndOf("open") /\ EndOf("open") <= layout.hint /\ StartOf("page") <= E /\ E <= layout.main
      /\ BodyStart <= EndOf("root") /\ EndOf("root") \in Nat /\ EndOf("open") \in Nat /\ StartOf("page") \in Nat
      /\ layout.hint <= StartOf("page")
  BY <1>3, <1>4, <1>5
<1>7. layout.hint < E
  <2>1. PICK n : n \in Section("page")
    BY <1>1 DEF Numbered, NumbersOf, Section
  <2>2. offs[n] \in Nat /\ lens[n] \in Nat \ {0} /\ StartOf("page") <= offs[n] /\ offs[n] + lens[n] <= E
    BY <1>2, <1>4, <1>5, <2>1 DEF Laid
  <2> QED BY <1>1, <1>5, <1>6, <2>2
<1>8. /\ \A p \in {"root", "open", "page"} : \A n \in Section(p) : n >= ParamNumber
      /\ \A n \in Section("rest") : n < ParamNumber
      /\ Slot(Hint) >= ParamNumber /\ ParamNumber \in Nat
      /\ UsesObjectStreams(file) => Slot(FirstXref) >= ParamNumber /\ Slot(MainXref) < ParamNumber
      /\ Encrypted => Slot(EncryptDict) >= ParamNumber
  <2> DEFINE N(r) == NumbersOf(file, names, r)
  <2>1. /\ \A role \in FrontRoles : \A n \in N(role) : n >= ParamNumber
        /\ \A n \in N("rest") \cup N("mainxref") : n < ParamNumber
    BY <1>1 DEF Numbered, ParamNumber, Slot
  <2>2. /\ \A p \in BodyPhases : N(p) = Section(p)
        /\ N("hint") = {Slot(Hint)} /\ N("firstxref") = {Slot(FirstXref)} \ {0}
        /\ N("mainxref") = {Slot(MainXref)} \ {0} /\ N("encrypt") = {Slot(EncryptDict)} \ {0}
    BY RoleSets
  <2>3. UsesObjectStreams(file) => Slot(FirstXref) # 0 /\ Slot(MainXref) # 0
    BY <1>1 DEF Numbered, Slot
  <2>4. Encrypted => Slot(EncryptDict) # 0
    BY DEF Encrypted
  <2>5. ParamNumber \in Nat
    BY <1>1, Specials
  <2> HIDE DEF N
  <2>6. {"root", "open", "page", "hint", "firstxref", "encrypt"} \subseteq FrontRoles
    BY DEF FrontRoles
  <2> QED BY <1>4, <2>1, <2>2, <2>3, <2>4, <2>5, <2>6
<1>9. ASSUME NEW n \in DOMAIN offs PROVE (offs[n] < E) <=> (n >= ParamNumber)
  <2>1. n \in 1 .. Len(names.table) /\ ~IsMember(n) /\ n \in Nat
    BY <1>1, <1>9 DEF AllKnown
  <2>2. CASE n \in Fixed
    <3>1. /\ offs[ParamNumber] = Frame /\ (UsesObjectStreams(file) => offs[Slot(FirstXref)] = FrontStart)
          /\ Encrypted => offs[Slot(EncryptDict)] = layout.hint - Frame
          /\ UsesObjectStreams(file) => offs[Slot(MainXref)] = layout.main
      BY <1>2, BeforeOf DEF FixedParts, BodyPhases
    <3>2. Frame < E /\ FrontStart < E /\ layout.hint - Frame < E
      BY <1>1, <1>3, <1>5, <1>6, <1>7
    <3>3. CASE n = ParamNumber
      BY <1>8, <3>1, <3>2, <3>3
    <3>4. CASE n = Slot(Hint)
      BY <1>2, <1>7, <1>8, <3>4
    <3>5. CASE UsesObjectStreams(file) /\ n = Slot(FirstXref)
      BY <1>8, <3>1, <3>2, <3>5
    <3>6. CASE Encrypted /\ n = Slot(EncryptDict)
      BY <1>8, <3>1, <3>2, <3>6
    <3>7. CASE UsesObjectStreams(file) /\ n = Slot(MainXref)
      <4>1. offs[n] = layout.main /\ n < ParamNumber
        BY <1>8, <3>1, <3>7
      <4> QED BY <1>1, <1>5, <1>6, <1>8, <2>1, <4>1
    <3> QED BY <2>2, <3>3, <3>4, <3>5, <3>6, <3>7 DEF Fixed
  <2>3. CASE \E p \in {"root", "open", "page"} : n \in Section(p)
    <3>1. PICK p \in {"root", "open", "page"} : n \in Section(p)
      BY <2>3
    <3>2. offs[n] \in Nat /\ lens[n] \in Nat \ {0} /\ offs[n] + lens[n] <= EndOf(p) /\ n >= ParamNumber
      BY <1>2, <1>4, <1>8, <3>1 DEF Laid
    <3>3. EndOf(p) \in Nat /\ EndOf(p) <= E
      BY <1>1, <1>3, <1>4, <1>5, <1>6, <1>7, <3>1
    <3> QED BY <1>5, <3>2, <3>3
  <2>4. CASE n \in Section("rest")
    <3>1. offs[n] \in Nat /\ E <= offs[n] /\ n < ParamNumber
      BY <1>2, <1>3, <1>4, <1>5, <1>8, <2>4 DEF Laid
    <3> QED BY <1>5, <1>8, <2>1, <3>1
  <2> QED BY <1>1, <1>4, <2>1, <2>2, <2>3, <2>4, Everything
<1>10. ASSUME NEW n \in DOMAIN lens, n >= ParamNumber PROVE offs[n] + lens[n] <= E
  <2>1. PICK p \in BodyPhases : n \in Section(p)
    BY <1>1, <1>10, BeforeOf DEF AllKnown, Written
  <2>2. n \in Nat
    BY <1>1, <2>1, SectionNat
  <2>3. p # "rest"
    BY <1>8, <1>10, <2>1, <2>2
  <2>4. offs[n] \in Nat /\ lens[n] \in Nat \ {0} /\ offs[n] + lens[n] <= EndOf(p)
    BY <1>2, <2>1 DEF Laid
  <2>5. EndOf(p) \in Nat /\ EndOf(p) <= E
    BY <1>1, <1>3, <1>4, <1>5, <1>6, <1>7, <2>1, <2>3
  <2> QED BY <1>5, <2>4, <2>5
<1>11. params.H = <<offs[Slot(Hint)], hint.length>>
  BY <1>1, <1>2 DEF Promises
<1>12. names.table[params.O] = Object(Head(file.part2))
  <2>1. names.table \in Seq(ToSet(names.table)) /\ Object(Head(file.part2)) \in ToSet(names.table)
    BY <1>1 DEF Numbered
  <2>2. params.O = Number(names.table, Object(Head(file.part2)))
    BY <1>1 DEF Promises, Slot
  <2> QED BY <2>1, <2>2, NumberFound
<1>13. params.T = back.entry - 1 /\ front.prev = back.at
  BY <1>1 DEF Promises, Ended
<1>14. field2(back.at) = field2(back.at - hint.length) => params.L = pos
  <2>1. back.at = layout.main /\ pos = layout.main + MainLength(layout.main)
        /\ params.L = layout.main + MainLength(layout.main - hint.length)
    BY <1>1 DEF Promises, Ended
  <2>2. field2(layout.main) = field2(layout.main - hint.length) => MainLength(layout.main) = MainLength(layout.main - hint.length)
    BY DEF MainLength
  <2> QED BY <2>1, <2>2
<1> QED BY <1>9, <1>10, <1>11, <1>12, <1>13, <1>14 DEF ParamsExact

(* The parameter dictionary, which is written first, holds for a finished  *)
(* file of less than Power[8] bytes (back_patch_param_dict): /H, /E, /O, /T *)
(* and /Prev lead where the second pass put what they are about, the first *)
(* half lies before /E and the second behind it, and /L is the length of   *)
(* the file unless the main section's field grew.                          *)
THEOREM ParamsRight == Spec /\ []Short => []ParamsExact
<1>1. LinearInv => ParamsExact
  BY DoneParams
<1> QED BY LayoutSound, <1>1, PTL

-----------------------------------------------------------------------------
(* Offsets before the end of the body, and the fields they need.           *)

LEMMA OffsetsBounded ==
    ASSUME Shape, AllKnown, AsPromised, Repeated
    PROVE  \A n \in DOMAIN offs : offs[n] \in Nat /\ offs[n] <= layout.main
<1>1. /\ \A p \in BodyPhases : Laid(offs, lens, Section(p), {}, StartOf(p), EndOf(p))
      /\ FixedParts("hints") /\ offs[Slot(Hint)] = layout.hint
  BY DEF AsPromised
<1>2. Numbered(file, names) /\ layout.hint \in Nat /\ layout.main \in Nat
  BY DEF Shape
<1>3. /\ BodyStart \in Nat /\ FrontStart \in Nat /\ Frame \in Nat \ {0} /\ Frame < FrontStart /\ FrontStart < BodyStart
      /\ \A p \in BodyPhases : StartOf(p) \in Nat /\ EndOf(p) \in Nat /\ StartOf(p) <= EndOf(p)
      /\ StartOf("root") = BodyStart /\ StartOf("open") = EndOf("root") /\ EndOf("open") <= layout.hint
      /\ layout.hint <= StartOf("page") /\ StartOf("rest") = EndOf("page") /\ EndOf("rest") = layout.main
  BY <1>1, InOrder
<1>4. {"root", "open", "page", "rest"} = BodyPhases
  BY DEF BodyPhases
<1>5. layout.hint <= layout.main /\ BodyStart <= layout.hint
  <2>1. /\ StartOf("root") <= EndOf("root") /\ StartOf("open") <= EndOf("open") /\ StartOf("page") <= EndOf("page") /\ StartOf("rest") <= EndOf("rest")
        /\ EndOf("root") \in Nat /\ EndOf("open") \in Nat /\ EndOf("page") \in Nat /\ StartOf("page") \in Nat
    BY <1>3, <1>4
  <2> QED BY <1>2, <1>3, <2>1
<1>6. \A p \in BodyPhases : EndOf(p) <= layout.main
  <2>1. /\ StartOf("open") <= EndOf("open") /\ StartOf("rest") <= EndOf("rest")
        /\ EndOf("root") \in Nat /\ EndOf("open") \in Nat /\ EndOf("page") \in Nat
    BY <1>3, <1>4
  <2> QED BY <1>2, <1>3, <1>4, <1>5, <2>1
<1> SUFFICES ASSUME NEW n \in DOMAIN offs PROVE offs[n] \in Nat /\ offs[n] <= layout.main
  OBVIOUS
<1>7. n \in 1 .. Len(names.table) /\ ~IsMember(n)
  BY DEF AllKnown
<1>8. CASE n \in Fixed
  <2>1. /\ offs[ParamNumber] = Frame /\ (UsesObjectStreams(file) => offs[Slot(FirstXref)] = FrontStart)
        /\ Encrypted => offs[Slot(EncryptDict)] = layout.hint - Frame
        /\ UsesObjectStreams(file) => offs[Slot(MainXref)] = layout.main
    BY <1>1, BeforeOf DEF FixedParts, BodyPhases
  <2>2. \A v \in {Frame, FrontStart, layout.hint, layout.hint - Frame, layout.main} : v \in Nat /\ v <= layout.main
    BY <1>2, <1>3, <1>5
  <2>3. offs[n] \in {Frame, FrontStart, layout.hint, layout.hint - Frame, layout.main}
    BY <1>1, <1>8, <2>1 DEF Fixed
  <2> QED BY <2>2, <2>3
<1>9. CASE \E p \in BodyPhases : n \in Section(p)
  <2>1. PICK p \in BodyPhases : n \in Section(p)
    BY <1>9
  <2>2. offs[n] \in Nat /\ lens[n] \in Nat \ {0} /\ offs[n] + lens[n] <= EndOf(p) /\ EndOf(p) \in Nat /\ EndOf(p) <= layout.main
    BY <1>1, <1>3, <1>6, <2>1 DEF Laid
  <2> QED BY <1>2, <2>2
<1> QED BY <1>2, <1>7, <1>8, <1>9, Everything

LEMMA FrontSame ==
    ASSUME LinearInv, pass = 2, phase = "front"
    PROVE  /\ With(offs, ParamNumber, Frame) = offs
           /\ UsesObjectStreams(file) => With(With(offs, ParamNumber, Frame), Slot(FirstXref), FrontStart) = offs
<1>1. FixedParts("hints") /\ IsFunction(offs)
  BY DEF LinearInv, Shape, SecondPass, LensAhead, AsPromised
<1>2. With(offs, ParamNumber, Frame) = offs
  BY <1>1, WithSame DEF FixedParts
<1>3. UsesObjectStreams(file) => With(offs, Slot(FirstXref), FrontStart) = offs
  BY <1>1, WithSame DEF FixedParts
<1> QED BY <1>2, <1>3

(* The greatest offset of the first half.                                  *)
LEMMA FrontGreatest ==
    ASSUME LinearInv, pass = 2, phase = "front"
    PROVE  /\ Max(Known(FirstRange, offs)) \in Nat /\ Max(Known(FirstRange, offs)) <= layout.main
           /\ \A n \in FirstRange \cap DOMAIN offs : offs[n] \in Nat /\ offs[n] <= Max(Known(FirstRange, offs))
<1> DEFINE K == Known(FirstRange, offs)
<1>1. Shape /\ Numbered(file, names) /\ AllKnown /\ AsPromised /\ Repeated /\ layout.main \in Nat
  BY DEF LinearInv, Shape, SecondPass, LensAhead
<1>2. \A n \in DOMAIN offs : offs[n] \in Nat /\ offs[n] <= layout.main
  BY <1>1, OffsetsBounded
<1>3. K \subseteq 0 .. layout.main
  BY <1>1, <1>2 DEF Known
<1>4. K # {}
  <2>1. ParamNumber \in DOMAIN offs
    BY <1>1 DEF AsPromised, FixedParts
  <2>2. ParamNumber \in FirstRange
    <3>1. ParamNumber \in 1 .. Len(names.table)
      BY <1>1, <2>1 DEF AllKnown
    <3> QED BY <1>1, <3>1, SizeNumber DEF FirstRange
  <2> QED BY <2>1, <2>2 DEF Known
<1>5. \A n \in FirstRange \cap DOMAIN offs : offs[n] \in K
  BY DEF Known
<1> HIDE DEF K
<1>6. Max(K) \in K /\ \A y \in K : Max(K) >= y
  BY <1>1, <1>3, <1>4, GreatestNumber
<1>7. Max(K) \in Nat /\ Max(K) <= layout.main
  <2>1. Max(K) \in 0 .. layout.main
    BY <1>3, <1>6
  <2> QED BY <1>1, <2>1
<1>8. \A n \in FirstRange \cap DOMAIN offs : offs[n] \in Nat /\ offs[n] <= Max(K)
  <2> SUFFICES ASSUME NEW n \in FirstRange \cap DOMAIN offs PROVE offs[n] \in Nat /\ offs[n] <= Max(K)
    OBVIOUS
  <2>1. offs[n] \in Nat /\ Max(K) >= offs[n]
    BY <1>2, <1>5, <1>6
  <2> QED BY <1>7, <2>1
<1> QED BY <1>7, <1>8 DEF K

LEMMA BytesNeededBelow ==
    ASSUME NEW v \in Nat, NEW w \in 1 .. 8, v < Power[w]
    PROVE  bytes_needed(v) \in 1 .. w
<1>1. Power[w] <= Power[8] /\ Power[w] \in Nat /\ Power[8] \in Nat
  <2>1. w \in 0 .. 8 /\ 8 \in 0 .. 8 /\ w <= 8
    OBVIOUS
  <2> QED BY <2>1, PowerGrows, PowerStep
<1>2. v < Power[8]
  BY <1>1
<1> DEFINE W == {x \in 1 .. 8 : v < Power[x] /\ (x = 1 \/ v >= Power[x - 1])}
           b == bytes_needed(v)
<1>3. b \in 1 .. 8 /\ (b = 1 \/ v >= Power[b - 1])
  <2> DEFINE Y == {x \in 1 .. 8 : v < Power[x]}
             least == Min(Y)
  <2>1. least \in Y /\ \A y \in Y : least <= y
    <3>1. Y \subseteq Nat /\ 8 \in Y
      BY <1>2
    <3> HIDE DEF Y
    <3> QED BY <3>1, LeastNumber
  <2> HIDE DEF least
  <2>2. least \in 1 .. 8 /\ v < Power[least]
    BY <2>1
  <2>3. least = 1 \/ v >= Power[least - 1]
    <3> SUFFICES ASSUME least # 1, ~(v >= Power[least - 1]) PROVE FALSE
      OBVIOUS
    <3>1. least - 1 \in 1 .. 8 /\ Power[least - 1] \in Nat
      BY <2>2, PowerStep
    <3>2. least - 1 \in Y
      BY <3>1
    <3> QED BY <2>1, <2>2, <3>2
  <2> QED BY <2>2, <2>3 DEF bytes_needed
<1> HIDE DEF b
<1>4. b <= w
  <2> SUFFICES ASSUME ~(b <= w) PROVE FALSE
    OBVIOUS
  <2>1. b - 1 \in 0 .. 8 /\ w \in 0 .. 8 /\ w <= b - 1 /\ b # 1
    BY <1>3
  <2>2. Power[w] <= Power[b - 1] /\ Power[b - 1] \in Nat
    BY <2>1, PowerGrows, PowerStep
  <2> QED BY <1>1, <1>3, <2>1, <2>2
<1>5. b \in 1 .. w
  BY <1>3, <1>4
<1> QED BY <1>5 DEF b

(* The bytes of an offset are enough in the first pass as long as the file *)
(* ends below Power[Wide].                                                 *)
Narrow == layout.main < Power[Wide]

LEMMA RegionEnough ==
    ASSUME LinearInv, pass = 2, phase = "front", UsesObjectStreams(file), Narrow
    PROVE  ~(StreamObject(Cardinality(FirstRange), field2(Max(Known(FirstRange, offs))))
               > first_pass_region_len(Cardinality(FirstRange), wide_field2))
<1> DEFINE top == Max(Known(FirstRange, offs))
           count == Cardinality(FirstRange)
           a == field2(top)
           w == wide_field2
<1>1. Numbered(file, names) /\ layout.main \in Nat
  BY DEF LinearInv, Shape
<1>2. top \in Nat /\ top <= layout.main
  BY FrontGreatest
<1>3. Wide \in 1 .. 8 /\ Power[Wide] \in Nat
  BY SizesAssumption, PowerStep
<1>4. top < Power[Wide]
  BY <1>1, <1>2, <1>3 DEF Narrow
<1> HIDE DEF top
<1>5. bytes_needed(top) \in 1 .. Wide
  BY <1>2, <1>3, <1>4, BytesNeededBelow
<1>6. bytes_needed(Size - 1) \in 1 .. 8
  BY <1>1, SizeNumber
<1>7. a \in Nat /\ w \in Nat /\ a <= w
  BY <1>3, <1>5, <1>6 DEF field2, wide_field2
<1>8. count \in Nat /\ field3 \in Nat /\ Frame \in Nat
  BY <1>1, BodyStartNat, Field3, SizesAssumption
<1> HIDE DEF a, w, count
<1>9. count * (1 + a + field3) <= count * (1 + w + field3)
  <2> DEFINE x == 1 + a + field3
             d == w - a
  <2>1. x \in Nat /\ d \in Nat /\ 1 + w + field3 = x + d
    BY <1>7, <1>8
  <2> HIDE DEF x, d
  <2>2. count * (x + d) = count * x + count * d
    BY <1>8, <2>1
  <2>3. count * x \in Nat /\ count * d \in Nat
    BY <1>8, <2>1
  <2>4. count * x <= count * (x + d)
    BY <2>2, <2>3
  <2> QED BY <2>1, <2>4 DEF x
<1>10. count * (1 + a + field3) \in Nat /\ count * (1 + w + field3) \in Nat
  <2>1. 1 + a + field3 \in Nat /\ 1 + w + field3 \in Nat
    BY <1>7, <1>8
  <2> QED BY <1>8, <2>1
<1>11. ~(StreamObject(count, a) > first_pass_region_len(count, w))
  BY <1>8, <1>9, <1>10 DEF StreamObject, first_pass_region_len
<1> QED BY <1>11 DEF count, a, w, top

RegionFits == error # "region exceeded"

LEMMA RegionStep == ASSUME LinearInv, LinearInv', Narrow, RegionFits, [Next]_vars PROVE RegionFits'
<1>1. CASE WriteStreamFront
  <2>1. CASE pass = 1
    <3>1. phase' # "failed"
      BY <1>1, <2>1 DEF LinearInv, FirstPass, WriteStreamFront
    <3> QED BY <1>1, <3>1 DEF WriteStreamFront, Fail, RegionFits
  <2>2. CASE pass = 2
    <3> DEFINE width == field2(Max(Known(FirstRange, offs)))
    <3>1. phase = "front" /\ UsesObjectStreams(file)
      BY <1>1 DEF WriteStreamFront
    <3>2. With(With(offs, ParamNumber, Frame), Slot(FirstXref), FrontStart) = offs
      BY <2>2, <3>1, FrontSame
    <3>3. ~(StreamObject(Cardinality(FirstRange), width) > first_pass_region_len(Cardinality(FirstRange), wide_field2))
      BY <2>2, <3>1, RegionEnough
    <3>4. error' = error
      BY <1>1, <2>2, <3>2, <3>3 DEF WriteStreamFront
    <3> QED BY <3>4 DEF RegionFits
  <2> QED BY <2>1, <2>2 DEF LinearInv, Shape
<1>2. CASE WriteClassicFront
  BY <1>2 DEF WriteClassicFront, Fail, RegionFits
<1>3. CASE WriteObject \/ WriteContainer
  BY <1>3 DEF WriteObject, WriteContainer, Put, RegionFits
<1>4. CASE EndRoot \/ WriteHint \/ EndFirstPage \/ BuildHints \/ Finished \/ UNCHANGED vars
  BY <1>4 DEF EndRoot, WriteHint, EndFirstPage, BuildHints, Finished, vars, RegionFits
<1>5. CASE EndPass
  <2>1. error' = error \/ error' = "main offset drifted"
    BY <1>5 DEF EndPass, Fail
  <2> QED BY <2>1 DEF RegionFits
<1> QED BY <1>1, <1>2, <1>3, <1>4, <1>5 DEF Next

(* A write of a file that ends below Power[Wide] (2^32 bytes) fails only   *)
(* if a callback changed an object's length between the passes: moving the *)
(* offsets by the length of the hint stream is exact, every row of the     *)
(* first-page section has its offset, and the region that pass 1 reserved  *)
(* holds the section of pass 2 (do_write_pass).                            *)
THEOREM SoundWrites == Spec /\ []Short /\ []Narrow => []SoundSucceeds
<1>1. Init => RegionFits
  BY DEF Init, RegionFits
<1>2. LinearInv /\ LinearInv' /\ Narrow /\ RegionFits /\ [Next]_vars => RegionFits'
  BY RegionStep
<1>3. LinearInv /\ RegionFits => SoundSucceeds
  <2> SUFFICES ASSUME LinearInv, RegionFits, phase = "failed" PROVE ~Repeated
    BY DEF SoundSucceeds
  <2>1. pass = 2
    BY DEF LinearInv, FirstPass, Shape
  <2> QED BY <2>1 DEF LinearInv, SecondPass, Ended, RegionFits
<1> QED BY LayoutSound, <1>1, <1>2, <1>3, PTL DEF Spec

-----------------------------------------------------------------------------
(* The rows of the two cross-reference sections.                           *)

(* The front's rows hold while the second pass repeats the first, and the  *)
(* second half's offsets do not pass the position that the main section's  *)
(* field is made for.                                                      *)
FrontRight == pass = 2 /\ phase \notin {"front", "failed"} /\ Repeated => Exact(FirstRange, front.rows)
BackBelow == pass = 2 /\ phase = "rest" => \A n \in Section("rest") \ todo : offs[n] \in Nat /\ offs[n] <= pos
BackRight == phase = "done" => Exact(MainRange, back.rows)
RowsInv == FrontRight /\ BackBelow /\ BackRight

LEMMA SteadyRows ==
    ASSUME file' = file, names' = names
    PROVE  /\ FirstRange' = FirstRange /\ MainRange' = MainRange
           /\ \A n : IsMember(n)' = IsMember(n) /\ MemberRow(n)' = MemberRow(n)
<1>1. ParamNumber' = ParamNumber /\ Size' = Size
  BY DEF ParamNumber, Slot, Size
<1>2. FirstRange' = FirstRange /\ MainRange' = MainRange
  BY <1>1 DEF FirstRange, MainRange
<1>3. \A n : IsMember(n)' = IsMember(n) /\ MemberRow(n)' = MemberRow(n)
  BY DEF IsMember, MemberRow
<1> QED BY <1>2, <1>3

(* Rows of a stream whose field holds every offset.                        *)
LEMMA StreamExact ==
    ASSUME NEW at, NEW width \in 0 .. 8, NEW range,
           \A n \in range \ {0} : (n \in DOMAIN at) <=> ~IsMember(n),
           \A n \in range \cap DOMAIN at : at[n] \in Nat /\ at[n] < Power[width]
    PROVE  \A n \in range \ {0} : StreamRows(range, at, width)[n] = IF IsMember(n) THEN MemberRow(n) ELSE <<1, at[n]>>
<1> SUFFICES ASSUME NEW n \in range \ {0}
             PROVE  StreamRow(n, at, width) = IF IsMember(n) THEN MemberRow(n) ELSE <<1, at[n]>>
  BY DEF StreamRows
<1>1. CASE n \in DOMAIN at
  <2>1. Power[width] \in Nat \ {0} /\ at[n] \in Nat /\ at[n] < Power[width]
    BY <1>1, PowerStep
  <2>2. at[n] % Power[width] = at[n]
    BY <2>1
  <2> QED BY <1>1, <2>2 DEF StreamRow
<1>2. CASE n \notin DOMAIN at
  BY <1>2 DEF StreamRow
<1> QED BY <1>1, <1>2

LEMMA FrontWritten ==
    ASSUME LinearInv, Short, pass = 2, WriteFront, phase' # "failed"
    PROVE  Exact(FirstRange, front.rows)'
<1>1. phase = "front" /\ Shape /\ Numbered(file, names) /\ AllKnown /\ layout.main \in Nat /\ file' = file /\ names' = names
  BY DEF LinearInv, Shape, SecondPass, WriteFront, WriteClassicFront, WriteStreamFront
<1>2. /\ With(offs, ParamNumber, Frame) = offs
      /\ UsesObjectStreams(file) => With(With(offs, ParamNumber, Frame), Slot(FirstXref), FrontStart) = offs
  BY <1>1, FrontSame
<1>3. ASSUME NEW n \in FirstRange PROVE n \in 1 .. Len(names.table) /\ (n \in DOMAIN offs <=> ~IsMember(n))
  <2>1. n \in 1 .. Len(names.table)
    BY <1>1, <1>3, Specials, SizeNumber DEF FirstRange
  <2> QED BY <1>1, <2>1 DEF AllKnown
<1>4. offs' = offs /\ \A n \in FirstRange \ {0} : front'.rows[n] = IF IsMember(n) THEN MemberRow(n) ELSE <<1, offs[n]>>
  <2>1. CASE WriteClassicFront
    <3>1. ~UsesObjectStreams(file)
      BY <2>1 DEF WriteClassicFront
    <3>2. offs' = offs /\ front' = [at |-> FrontStart, rows |-> ClassicRows(FirstRange, offs), prev |-> layout.main]
      <4>3. pass # 1
        OBVIOUS
      <4>1. offs' = offs
        BY <1>2, <2>1 DEF WriteClassicFront, Fail
      <4>2. front' = [at |-> FrontStart, rows |-> ClassicRows(FirstRange, offs), prev |-> layout.main]
        BY <1>2, <2>1, <4>3 DEF WriteClassicFront, Fail
      <4> QED BY <4>1, <4>2
    <3>3. \A n : ~IsMember(n)
      BY <1>1, <3>1 DEF Numbered, IsMember
    <3>4. \A n \in FirstRange \ {0} : front'.rows[n] = <<1, offs[n]>>
      BY <3>2 DEF ClassicRows
    <3> QED BY <3>2, <3>3, <3>4
  <2>2. CASE WriteStreamFront
    <3> DEFINE top == Max(Known(FirstRange, offs))
               width == field2(top)
    <3>1. UsesObjectStreams(file)
      BY <2>2 DEF WriteStreamFront
    <3>2. offs' = offs /\ front' = [at |-> FrontStart, prev |-> layout.main, rows |-> StreamRows(FirstRange, offs, width)]
      <4>1. pass # 1
        OBVIOUS
      <4>2. offs' = offs
        BY <1>2, <2>2, <3>1, <4>1 DEF WriteStreamFront, Fail
      <4>3. front' = [at |-> FrontStart, prev |-> layout.main, rows |-> StreamRows(FirstRange, offs, width)]
        BY <1>2, <2>2, <3>1, <4>1 DEF WriteStreamFront, Fail
      <4> QED BY <4>2, <4>3
    <3>3. top \in Nat /\ top <= layout.main /\ \A n \in FirstRange \cap DOMAIN offs : offs[n] \in Nat /\ offs[n] <= top
      BY <1>1, FrontGreatest
    <3> HIDE DEF top
    <3>4. 8 \in 0 .. 8
      OBVIOUS
    <3>5. Power[8] \in Nat
      BY <3>4, PowerStep
    <3>6. top < Power[8]
      BY <1>1, <3>3, <3>5 DEF Short
    <3>7. width \in 1 .. 8 /\ top < Power[width]
      BY <1>1, <3>3, <3>6, Field2
    <3> HIDE DEF width
    <3>8. width \in 0 .. 8 /\ Power[width] \in Nat
      BY <3>7, PowerStep
    <3>9. \A n \in FirstRange \cap DOMAIN offs : offs[n] \in Nat /\ offs[n] < Power[width]
      BY <3>3, <3>7, <3>8
    <3>10. \A n \in FirstRange \ {0} : (n \in DOMAIN offs) <=> ~IsMember(n)
      BY <1>3
    <3>11. \A n \in FirstRange \ {0} : StreamRows(FirstRange, offs, width)[n] = IF IsMember(n) THEN MemberRow(n) ELSE <<1, offs[n]>>
      BY <3>8, <3>9, <3>10, StreamExact
    <3>12. front'.rows = StreamRows(FirstRange, offs, width)
      BY <3>2
    <3> QED BY <3>2, <3>11, <3>12
  <2> QED BY <2>1, <2>2 DEF WriteFront
<1> QED BY <1>1, <1>4, SteadyRows DEF Exact

(* What has an offset in the second half.                                  *)
LEMMA SecondHalfNumbers ==
    ASSUME Numbered(file, names), NEW n \in 1 .. Len(names.table), ~IsMember(n), n < ParamNumber,
           UsesObjectStreams(file), n # Slot(MainXref)
    PROVE  n \in Section("rest")
<1>1. PICK r \in Roles : n \in NumbersOf(file, names, r)
  BY DEF Numbered
<1>2. r \notin FrontRoles
  <2> SUFFICES ASSUME r \in FrontRoles PROVE FALSE
    OBVIOUS
  <2>1. n >= ParamNumber /\ n \in Nat /\ ParamNumber \in Nat
    <3>1. \A role \in FrontRoles : \A x \in NumbersOf(file, names, role) : x >= ParamNumber
      BY DEF Numbered, ParamNumber, Slot
    <3>2. ParamNumber \in Nat
      BY Specials
    <3> QED BY <1>1, <3>1, <3>2
  <2> QED BY <2>1
<1>3. r # "member"
  BY <1>1, RoleSets DEF IsMember
<1>4. r # "mainxref"
  BY <1>1, RoleSets
<1>5. r = "rest"
  BY <1>2, <1>3, <1>4 DEF Roles
<1> QED BY <1>1, <1>5, RoleSets DEF BodyPhases

LEMMA BackWritten ==
    ASSUME LinearInv, Short, BackBelow, pass = 2, EndPass, phase' = "done"
    PROVE  Exact(MainRange, back.rows)'
<1>1. /\ phase = "rest" /\ todo = {} /\ Shape /\ Numbered(file, names) /\ AllKnown /\ file' = file /\ names' = names
      /\ pos \in Nat
  BY DEF LinearInv, Shape, SecondPass, EndPass
<1>2. ~Drifted
  BY DEF EndPass, Fail
<1>3. back' = MainSection /\ offs' = IF UsesObjectStreams(file) THEN With(offs, Slot(MainXref), pos) ELSE offs
  BY <1>2 DEF EndPass
<1>4. ASSUME NEW n \in MainRange \ {0} PROVE n \in 1 .. Len(names.table) /\ (n \in DOMAIN offs <=> ~IsMember(n)) /\ n < ParamNumber
  <2>1. ParamNumber \in 1 .. Len(names.table)
    BY <1>1, Sections DEF Fixed
  <2>2. n \in 1 .. Len(names.table) /\ n < ParamNumber
    BY <1>4, <2>1 DEF MainRange
  <2> QED BY <1>1, <2>2 DEF AllKnown
<1>5. \A n \in MainRange \ {0} : back'.rows[n] = IF IsMember(n) THEN MemberRow(n) ELSE <<1, offs'[n]>>
  <2>1. CASE ~UsesObjectStreams(file)
    <3>1. back'.rows = ClassicRows(MainRange, offs) /\ offs' = offs
      BY <1>3, <2>1 DEF MainSection
    <3>2. \A n : ~IsMember(n)
      BY <1>1, <2>1 DEF Numbered, IsMember
    <3> QED BY <3>1, <3>2 DEF ClassicRows
  <2>2. CASE UsesObjectStreams(file)
    <3> DEFINE X == Slot(MainXref)
               width == field2(pos)
    <3>1. back'.rows = StreamRows(MainRange, offs', width) /\ offs' = With(offs, X, pos)
      BY <1>3, <2>2 DEF MainSection
    <3>2. X \in Fixed /\ X \in DOMAIN offs
      BY <1>1, <2>2, FixedKnown DEF Fixed
    <3> HIDE DEF X
    <3>3. Updates(offs', offs, X, pos)
      BY <3>1, WithUpdates
    <3>4. DOMAIN offs' = DOMAIN offs /\ offs'[X] = pos /\ \A n \in DOMAIN offs : n # X => offs'[n] = offs[n]
      BY <3>2, <3>3 DEF Updates
    <3>5. width \in 1 .. 8 /\ pos < Power[width]
      BY <1>1, Field2 DEF Short
    <3> HIDE DEF width
    <3>6. width \in 0 .. 8 /\ Power[width] \in Nat
      BY <3>5, PowerStep
    <3>7. ASSUME NEW n \in MainRange \cap DOMAIN offs' PROVE offs'[n] \in Nat /\ offs'[n] < Power[width]
      <4>1. CASE n = X
        BY <1>1, <3>4, <3>5, <4>1
      <4>2. CASE n # X
        <5>1. n # 0 /\ ~IsMember(n)
          BY <1>1, <3>4, <3>7 DEF AllKnown
        <5>2. n \in Section("rest")
          BY <1>1, <1>4, <2>2, <3>7, <4>2, <5>1, SecondHalfNumbers DEF X
        <5>3. offs[n] \in Nat /\ offs[n] <= pos
          BY <1>1, <5>2 DEF BackBelow
        <5>4. offs'[n] = offs[n]
          BY <3>4, <3>7, <4>2
        <5> QED BY <1>1, <3>5, <3>6, <5>3, <5>4
      <4> QED BY <4>1, <4>2
    <3>8. \A n \in MainRange \ {0} : (n \in DOMAIN offs') <=> ~IsMember(n)
      BY <1>4, <3>4
    <3>9. \A n \in MainRange \ {0} : StreamRows(MainRange, offs', width)[n] = IF IsMember(n) THEN MemberRow(n) ELSE <<1, offs'[n]>>
      BY <3>6, <3>7, <3>8, StreamExact
    <3> QED BY <3>1, <3>9
  <2> QED BY <2>1, <2>2
<1> QED BY <1>1, <1>5, SteadyRows DEF Exact

(* As long as the second pass repeats the first, offsets stay.             *)
LEMMA OffsetsKept ==
    ASSUME LinearInv, pass = 2, phase # "front", Next, Repeated', phase' # "failed"
    PROVE  Repeated /\ offs' = offs /\ front' = front
<1>1. CASE WriteObject \/ WriteContainer
  <2>1. phase \in BodyPhases
    BY <1>1 DEF WriteObject, WriteContainer, BodyPhases
  <2>2. todo \subseteq Section(phase)
    BY <2>1 DEF LinearInv, SecondPass, LensAhead
  <2>3. PICK length \in Nat \ {0} : WriteNext(length)
    BY <1>1, <2>2, WritesNext
  <2>4. Repeated /\ offs' = offs
    BY <2>3, PutRepeats
  <2> QED BY <2>3, <2>4 DEF WriteNext, Put
<1>2. CASE EndRoot \/ EndFirstPage
  <2>1. lens' = lens /\ layout' = layout /\ offs' = offs /\ front' = front
    BY <1>2 DEF EndRoot, EndFirstPage
  <2> QED BY <2>1 DEF Repeated
<1>3. CASE WriteHint
  <2>1. lens' = lens /\ layout' = layout /\ front' = front
    BY <1>3 DEF WriteHint
  <2>2. Repeated
    BY <2>1 DEF Repeated
  <2> QED BY <1>3, <2>1, <2>2, HintRepeats
<1>4. CASE EndPass
  <2>1. ~Drifted
    BY <1>4 DEF EndPass, Fail
  <2>2. lens' = lens /\ layout' = layout /\ front' = front
    BY <1>4, <2>1 DEF EndPass
  <2>3. offs' = IF UsesObjectStreams(file) THEN With(offs, Slot(MainXref), pos) ELSE offs
    BY <1>4, <2>1 DEF EndPass
  <2>4. Repeated /\ pos = layout.main
    BY <2>1, <2>2 DEF Repeated, Drifted
  <2>5. FixedParts("hints") /\ IsFunction(offs)
    BY <2>4 DEF LinearInv, Shape, SecondPass, AsPromised
  <2>6. UsesObjectStreams(file) => Slot(MainXref) \in DOMAIN offs /\ offs[Slot(MainXref)] = pos
    BY <2>4, <2>5, BeforeOf DEF FixedParts
  <2> QED BY <2>2, <2>3, <2>4, <2>5, <2>6, WithSame
<1>5. CASE Finished
  <2>1. lens' = lens /\ layout' = layout /\ offs' = offs /\ front' = front
    BY <1>5 DEF Finished, vars
  <2> QED BY <2>1 DEF Repeated
<1>6. ~BuildHints /\ ~WriteClassicFront /\ ~WriteStreamFront
  <2>1. phase # "hints"
    BY DEF LinearInv, Shape
  <2> QED BY <2>1 DEF BuildHints, WriteClassicFront, WriteStreamFront
<1> QED BY <1>1, <1>2, <1>3, <1>4, <1>5, <1>6 DEF Next

LEMMA StepConstants == ASSUME [Next]_vars PROVE file' = file /\ names' = names
BY DEF Next, vars, WriteClassicFront, WriteStreamFront, WriteObject, WriteContainer, Put, EndRoot, WriteHint,
       EndFirstPage, EndPass, BuildHints, Finished

LEMMA RowsStep == ASSUME LinearInv, LinearInv', Short, RowsInv, [Next]_vars PROVE RowsInv'
<1>1. file' = file /\ names' = names /\ pass \in {1, 2} /\ Numbered(file, names)
  BY StepConstants DEF LinearInv, Shape
<1>2. CASE UNCHANGED vars
  <2>1. /\ offs' = offs /\ front' = front /\ back' = back /\ phase' = phase /\ pass' = pass /\ todo' = todo /\ pos' = pos
        /\ lens' = lens /\ layout' = layout
    BY <1>2 DEF vars
  <2>2. Repeated' = Repeated /\ Section("rest")' = Section("rest")
    BY <1>1, <2>1, Steady DEF Repeated
  <2>3. FrontRight' /\ BackRight'
    BY <1>1, <2>1, <2>2, SteadyRows DEF RowsInv, FrontRight, BackRight, Exact
  <2>4. BackBelow'
    BY <2>1, <2>2 DEF RowsInv, BackBelow
  <2> QED BY <2>3, <2>4 DEF RowsInv
<1>3. CASE Next
  <2>1. FrontRight'
    <3> SUFFICES ASSUME pass' = 2, phase' # "front", phase' # "failed", Repeated' PROVE Exact(FirstRange, front.rows)'
      BY DEF FrontRight
    <3>1. CASE pass = 2 /\ phase = "front"
      <4>1. ~(WriteObject \/ WriteContainer \/ EndRoot \/ WriteHint \/ EndFirstPage \/ EndPass \/ BuildHints \/ Finished)
        BY <3>1 DEF WriteObject, WriteContainer, EndRoot, WriteHint, EndFirstPage, EndPass, BuildHints, Finished
      <4>2. WriteFront
        BY <1>3, <4>1 DEF Next, WriteFront
      <4> QED BY <3>1, <4>2, FrontWritten
    <3>2. CASE pass = 2 /\ phase # "front"
      <4>1. Repeated /\ offs' = offs /\ front' = front
        BY <1>3, <3>2, OffsetsKept
      <4>2. phase # "failed"
        <5> SUFFICES ASSUME phase = "failed" PROVE FALSE
          OBVIOUS
        <5>1. ~(WriteObject \/ WriteContainer \/ EndRoot \/ WriteHint \/ EndFirstPage \/ EndPass \/ BuildHints \/ WriteClassicFront \/ WriteStreamFront)
          BY DEF WriteObject, WriteContainer, EndRoot, WriteHint, EndFirstPage, EndPass, BuildHints, WriteClassicFront, WriteStreamFront
        <5> QED BY <1>3, <5>1 DEF Next, Finished, vars
      <4>3. Exact(FirstRange, front.rows)
        BY <3>2, <4>1, <4>2 DEF RowsInv, FrontRight
      <4> QED BY <1>1, <4>1, <4>3, SteadyRows DEF Exact
    <3>3. CASE pass = 1
      <4>1. BuildHints
        BY <1>3, <3>3 DEF Next, WriteClassicFront, WriteStreamFront, WriteObject, WriteContainer, Put, EndRoot, WriteHint,
                          EndFirstPage, EndPass, Finished, vars
      <4> QED BY <4>1 DEF BuildHints
    <3> QED BY <1>1, <3>1, <3>2, <3>3
  <2>2. BackBelow'
    <3> SUFFICES ASSUME pass' = 2, phase' = "rest" PROVE \A n \in Section("rest")' \ todo' : offs'[n] \in Nat /\ offs'[n] <= pos'
      BY DEF BackBelow
    <3>1. Section("rest")' = Section("rest")
      BY <1>1, Steady
    <3>2. CASE WriteObject \/ WriteContainer
      <4>1. phase = "rest" /\ pass = 2 /\ phase \in BodyPhases
        BY <3>2 DEF WriteObject, WriteContainer, Put, BodyPhases
      <4>2. todo \subseteq Section(phase)
        BY <4>1 DEF LinearInv, SecondPass, LensAhead
      <4>3. PICK length \in Nat \ {0} : WriteNext(length)
        BY <3>2, <4>2, WritesNext
      <4> DEFINE m == Min(todo)
      <4>4. offs' = With(offs, m, pos) /\ pos' = pos + length /\ todo' = todo \ {m}
        BY <4>3 DEF WriteNext, Put
      <4>5. pos \in Nat /\ AllKnown
        BY <4>1 DEF LinearInv, Shape, SecondPass
      <4> HIDE DEF m
      <4>6. Updates(offs', offs, m, pos)
        BY <4>4, WithUpdates
      <4>7. ASSUME NEW n \in Section("rest") \ todo' PROVE offs'[n] \in Nat /\ offs'[n] <= pos'
        <5>1. CASE n = m
          BY <4>4, <4>5, <4>6, <5>1 DEF Updates
        <5>2. CASE n # m
          <6>1. n \in DOMAIN offs
            BY <1>1, <4>5, <4>7, Sections DEF AllKnown, BodyPhases
          <6>2. n \in Section("rest") \ todo
            BY <4>4, <4>7, <5>2
          <6>3. offs[n] \in Nat /\ offs[n] <= pos
            BY <4>1, <6>2 DEF RowsInv, BackBelow
          <6>4. offs'[n] = offs[n]
            BY <4>6, <5>2, <6>1 DEF Updates
          <6> QED BY <4>4, <4>5, <6>3, <6>4
        <5> QED BY <5>1, <5>2
      <4> QED BY <3>1, <4>7
    <3>3. CASE EndFirstPage
      BY <3>1, <3>3 DEF EndFirstPage
    <3>4. CASE Finished
      <4>1. phase' = phase /\ pass' = pass /\ offs' = offs /\ pos' = pos /\ todo' = todo
        BY <3>4 DEF Finished, vars
      <4> QED BY <3>1, <4>1 DEF RowsInv, BackBelow
    <3>5. ~(EndRoot \/ WriteHint \/ EndPass \/ BuildHints \/ WriteClassicFront \/ WriteStreamFront)
      BY DEF EndRoot, WriteHint, EndPass, BuildHints, WriteClassicFront, WriteStreamFront, Fail
    <3> QED BY <1>3, <3>2, <3>3, <3>4, <3>5 DEF Next
  <2>3. BackRight'
    <3> SUFFICES ASSUME phase' = "done" PROVE Exact(MainRange, back.rows)'
      BY DEF BackRight
    <3>1. CASE EndPass
      <4>1. pass = 2
        BY <3>1 DEF EndPass, LinearInv, Shape
      <4> QED BY <3>1, <4>1, BackWritten DEF RowsInv
    <3>2. CASE Finished
      <4>1. phase' = phase /\ back' = back /\ offs' = offs
        BY <3>2 DEF Finished, vars
      <4> QED BY <1>1, <4>1, SteadyRows DEF RowsInv, BackRight, Exact
    <3>3. ~(EndRoot \/ WriteHint \/ EndFirstPage \/ BuildHints \/ WriteClassicFront \/ WriteStreamFront \/ WriteObject \/ WriteContainer)
      BY DEF EndRoot, WriteHint, EndFirstPage, BuildHints, WriteClassicFront, WriteStreamFront, Fail, WriteObject, WriteContainer, Put
    <3> QED BY <1>3, <3>1, <3>2, <3>3 DEF Next
  <2> QED BY <2>1, <2>2, <2>3 DEF RowsInv
<1> QED BY <1>2, <1>3

(* The rows of a finished file of less than Power[8] bytes lead to its     *)
(* objects: the main section's always, although its field is only as wide  *)
(* as its own offset needs; the first-page section's, written before the   *)
(* objects, whenever the second pass wrote each object as long as the      *)
(* first (write_first_page_xref_stream, write_main_xref_stream_and_trailer). *)
THEOREM RowsRight == Spec /\ []Short => []RowsExact
<1>1. Init => RowsInv
  BY DEF Init, RowsInv, FrontRight, BackBelow, BackRight
<1>2. LinearInv /\ LinearInv' /\ Short /\ RowsInv /\ [Next]_vars => RowsInv'
  BY RowsStep
<1>3. LinearInv /\ RowsInv => RowsExact
  <2> SUFFICES ASSUME LinearInv, RowsInv, Done PROVE RowsExact
    BY DEF RowsExact
  <2>1. phase = "done" /\ pass = 2 /\ AllKnown /\ Numbered(file, names)
    BY DEF Done, LinearInv, Shape, SecondPass
  <2>2. Exact(MainRange, back.rows) /\ (Repeated => Exact(FirstRange, front.rows))
    BY <2>1 DEF RowsInv, FrontRight, BackRight
  <2>3. DOMAIN names.table = 1 .. Len(names.table)
    BY <2>1 DEF Numbered
  <2>4. /\ DOMAIN offs \cup {n \in DOMAIN names.table : IsMember(n)} = DOMAIN names.table
        /\ \A n \in DOMAIN offs : ~IsMember(n)
    BY <2>1, <2>3 DEF AllKnown
  <2> QED BY <2>2, <2>4 DEF RowsExact
<1> QED BY LayoutSound, <1>1, <1>2, <1>3, PTL DEF Spec

-----------------------------------------------------------------------------
(* The page-offset hints.                                                  *)

(* The length of what is written under some of the numbers up to last.     *)
LengthOf(l, last, numbers) == SumTo([n \in 1 .. last |-> IF n \in numbers THEN l[n] ELSE 0], last)
TotalOf(l, numbers) == LengthOf(l, Len(names.table), numbers)

Convex(own, S) == \A a, b \in own : a .. b \cap S \subseteq own

(* The sum of the lengths up to a number, in a run of numbers that are     *)
(* laid out one after the other from offset o[m].                          *)
Run(o, l, own, sum, m, i) ==
    /\ sum[i] \in Nat
    /\ (\A k \in own : k > i) => sum[i] = 0
    /\ \A k \in own : k <= i =>
          /\ o[m] <= o[k] /\ o[k] + l[k] <= o[m] + sum[i]
          /\ (\A j \in own : j <= k \/ j > i) => o[m] + sum[i] = o[k] + l[k]

LEMMA RunNext ==
    ASSUME NEW o, NEW l, NEW last \in Nat, NEW S, S \subseteq 1 .. last, NEW own, own \subseteq S, Convex(own, S),
           NEW a, NEW e, Laid(o, l, S, {}, a, e),
           NEW m \in own, \A k \in own : m <= k,
           NEW sum, NEW i \in Nat, i + 1 <= last, Run(o, l, own, sum, m, i),
           sum[i + 1] = sum[i] + (IF i + 1 \in own THEN l[i + 1] ELSE 0)
    PROVE  Run(o, l, own, sum, m, i + 1)
<1>1. \A k \in own : k \in Nat /\ o[k] \in Nat /\ l[k] \in Nat \ {0}
  BY DEF Laid
<1>2. sum[i] \in Nat /\ ((\A k \in own : k > i) => sum[i] = 0)
  BY DEF Run
<1>3. \A k \in own : k <= i => /\ o[m] <= o[k] /\ o[k] + l[k] <= o[m] + sum[i]
                               /\ (\A j \in own : j <= k \/ j > i) => o[m] + sum[i] = o[k] + l[k]
  BY DEF Run
<1>4. CASE i + 1 \notin own
  <2>1. sum[i + 1] = sum[i]
    BY <1>2, <1>4
  <2>2. \A k \in own : k # i + 1 /\ (k > i <=> k > i + 1) /\ (k <= i <=> k <= i + 1)
    BY <1>1, <1>4
  <2> QED BY <1>2, <1>3, <2>1, <2>2 DEF Run
<1>5. CASE i + 1 \in own
  <2>1. sum[i + 1] = sum[i] + l[i + 1] /\ sum[i + 1] \in Nat /\ o[i + 1] \in Nat /\ l[i + 1] \in Nat \ {0} /\ o[m] \in Nat
    BY <1>1, <1>2, <1>5
  <2>2. o[i + 1] = o[m] + sum[i]
    <3>1. CASE \A k \in own : k > i
      <4>1. m > i /\ m <= i + 1 /\ m \in Nat
        BY <1>1, <1>5, <3>1
      <4>2. m = i + 1
        BY <4>1
      <4> QED BY <1>2, <2>1, <3>1, <4>2
    <3>2. CASE \E k \in own : ~(k > i)
      <4> DEFINE L == {k \in own : k <= i}
      <4>1. L \subseteq 0 .. i /\ L # {}
        <5>1. PICK k \in own : ~(k > i)
          BY <3>2
        <5>2. k \in L
          BY <1>1, <5>1
        <5>3. \A y \in L : y \in 0 .. i
          BY <1>1
        <5> HIDE DEF L
        <5> QED BY <5>2, <5>3
      <4> DEFINE j == Max(L)
      <4>2. j \in L /\ \A y \in L : j >= y
        BY <4>1, GreatestNumber
      <4> HIDE DEF j
      <4>3. j \in own /\ j <= i /\ j \in Nat /\ \A y \in own : y <= j \/ y > i
        BY <1>1, <4>2
      <4> HIDE DEF L
      <4>4. o[m] + sum[i] = o[j] + l[j]
        BY <1>3, <4>3
      <4> DEFINE s == Min(Above(S, j))
      <4>5. i + 1 \in Above(S, j) /\ Above(S, j) \subseteq Nat /\ Above(S, j) \subseteq S
        <5>1. i + 1 \in S /\ i + 1 > j
          BY <1>5, <4>3
        <5>2. \A y \in S : y \in Nat
          OBVIOUS
        <5> QED BY <5>1, <5>2 DEF Above
      <4>6. s \in Above(S, j) /\ s <= i + 1
        BY <4>5, LeastNumber
      <4>7. o[s] = o[j] + l[j]
        <5>1. j \in S \ {} /\ Above(S, j) # {}
          BY <4>3, <4>5
        <5>2. \A n \in S \ {} : Above(S, n) # {} => o[Min(Above(S, n))] = o[n] + l[n]
          BY DEF Laid
        <5> QED BY <5>1, <5>2
      <4> HIDE DEF s
      <4>8. s \in S /\ s > j /\ s \in Nat /\ s \in j .. i + 1
        BY <4>3, <4>5, <4>6 DEF Above
      <4>9. s \in own
        BY <1>5, <4>3, <4>8 DEF Convex
      <4>10. s > i
        BY <4>3, <4>8, <4>9
      <4>11. s = i + 1
        BY <4>6, <4>8, <4>10
      <4> QED BY <4>4, <4>7, <4>11
    <3> QED BY <3>1, <3>2
  <2>3. ~(\A k \in own : k > i + 1)
    BY <1>5
  <2>4. ASSUME NEW k \in own, k <= i + 1
        PROVE  /\ o[m] <= o[k] /\ o[k] + l[k] <= o[m] + sum[i + 1]
               /\ (\A j \in own : j <= k \/ j > i + 1) => o[m] + sum[i + 1] = o[k] + l[k]
    <3>1. CASE k = i + 1
      BY <1>2, <2>1, <2>2, <3>1
    <3>2. CASE k # i + 1
      <4>1. k <= i /\ k \in Nat /\ ~(i + 1 <= k)
        BY <1>1, <2>4, <3>2
      <4>2. o[m] <= o[k] /\ o[k] + l[k] <= o[m] + sum[i] /\ o[k] \in Nat /\ l[k] \in Nat
        BY <1>1, <1>3, <4>1
      <4>3. ~(\A j \in own : j <= k \/ j > i + 1)
        BY <1>5, <4>1
      <4> QED BY <1>2, <2>1, <4>2, <4>3
    <3> QED BY <3>1, <3>2
  <2> QED BY <2>1, <2>3, <2>4 DEF Run
<1> QED BY <1>4, <1>5

LEMMA RunLength ==
    ASSUME NEW o, NEW l, NEW last \in Nat, NEW S, S \subseteq 1 .. last, NEW own, own \subseteq S, own # {}, Convex(own, S),
           NEW a, NEW e, Laid(o, l, S, {}, a, e)
    PROVE  \E m, g \in own :
              /\ \A k \in own : m <= k /\ k <= g /\ o[m] <= o[k] /\ o[k] + l[k] <= o[g] + l[g]
              /\ LengthOf(l, last, own) = o[g] + l[g] - o[m]
<1> DEFINE x == [n \in 1 .. last |-> IF n \in own THEN l[n] ELSE 0]
           sum == CHOOSE f : f = [i \in 0 .. last |-> IF i = 0 THEN 0 ELSE f[i - 1] + x[i]]
           m == Min(own)
           g == Max(own)
<1>1. SumTo(x, last) = sum[last]
  BY DEF SumTo
<1>2. \A n \in own : n \in 1 .. last /\ n \in Nat /\ o[n] \in Nat /\ l[n] \in Nat \ {0}
  BY DEF Laid
<1>3. x \in [1 .. last -> Nat] /\ \A n \in 1 .. last : x[n] = IF n \in own THEN l[n] ELSE 0
  BY <1>2
<1> HIDE DEF x
<1>4. sum = [i \in 0 .. last |-> IF i = 0 THEN 0 ELSE sum[i - 1] + x[i]]
  BY <1>3, PartialSumsExist
<1> HIDE DEF sum
<1>5. m \in own /\ \A k \in own : m <= k
  BY <1>2, LeastNumber
<1>6. g \in own /\ \A k \in own : k <= g
  <2>1. own \subseteq 0 .. last
    BY <1>2
  <2>2. Max(own) \in own /\ \A k \in own : Max(own) >= k
    BY <2>1, GreatestNumber
  <2> QED BY <1>2, <2>2
<1> HIDE DEF m, g
<1> DEFINE Good(i) == Run(o, l, own, sum, m, i)
           T == {i \in Nat : i <= last => Good(i)}
<1>7. 0 \in T
  <2>1. sum[0] = 0
    BY <1>4
  <2>2. \A k \in own : k > 0 /\ ~(k <= 0)
    BY <1>2
  <2>3. Good(0)
    BY <2>1, <2>2 DEF Run
  <2> HIDE DEF Good
  <2> QED BY <2>3
<1>8. ASSUME NEW i \in Nat, i \in T PROVE i + 1 \in T
  <2> SUFFICES ASSUME i + 1 <= last PROVE Good(i + 1)
    BY <1>8
  <2>1. i <= last /\ i + 1 \in 0 .. last /\ i + 1 \in 1 .. last /\ i + 1 # 0 /\ (i + 1) - 1 = i
    BY <1>8
  <2>2. Good(i)
    <3> HIDE DEF Good
    <3> QED BY <1>8, <2>1
  <2>3. sum[i + 1] = sum[i] + x[i + 1]
    BY <1>4, <2>1
  <2>4. sum[i + 1] = sum[i] + (IF i + 1 \in own THEN l[i + 1] ELSE 0)
    BY <1>3, <2>1, <2>3
  <2> QED BY <1>5, <2>1, <2>2, <2>4, RunNext
<1>9. Good(last)
  <2>1. last \in T
    <3> HIDE DEF T
    <3> QED BY <1>7, <1>8, SetInduction
  <2> HIDE DEF Good
  <2> QED BY <2>1
<1>10. \A k \in own : k <= last /\ (k <= g \/ k > last)
  BY <1>2, <1>6
<1>11. sum[last] \in Nat /\ o[m] + sum[last] = o[g] + l[g]
  BY <1>6, <1>9, <1>10 DEF Run
<1>12. \A k \in own : o[m] <= o[k] /\ o[k] + l[k] <= o[m] + sum[last]
  BY <1>9, <1>10 DEF Run
<1>13. sum[last] = o[g] + l[g] - o[m]
  BY <1>2, <1>5, <1>6, <1>11
<1>14. \A k \in own : m <= k /\ k <= g /\ o[m] <= o[k] /\ o[k] + l[k] <= o[g] + l[g]
  BY <1>5, <1>6, <1>11, <1>12
<1>15. SumTo(x, last) = o[g] + l[g] - o[m]
  BY <1>1, <1>13
<1>16. LengthOf(l, last, own) = SumTo(x, last)
  BY DEF LengthOf, x
<1> QED BY <1>5, <1>6, <1>14, <1>15, <1>16

(* What is kept of the first pass: the lengths that the hints were made    *)
(* from, and where the hint stream goes.                                   *)
PagesOf(l) == <<TotalOf(l, FirstPageObjects)>> \o [p \in DOMAIN file.private |-> TotalOf(l, OtherPageObjects(p))]

HintInv ==
    /\ PagesTogether(file, names)
    /\ pass = 2 => hint.first = layout.hint /\ hint.pages = PagesOf(layout.lens)

LEMMA InitHint == Init => HintInv
BY PagesAssumption DEF Init, HintInv

LEMMA SamePages ==
    ASSUME file' = file, names' = names, layout'.lens = layout.lens
    PROVE  PagesOf(layout.lens)' = PagesOf(layout.lens)
BY DEF PagesOf, TotalOf, FirstPageObjects, OtherPageObjects, Plain

LEMMA HintStep == ASSUME LinearInv, HintInv, [Next]_vars PROVE HintInv'
<1>1. file' = file /\ names' = names /\ PagesTogether(file, names)'
  BY StepConstants DEF HintInv
<1>2. CASE BuildHints
  <2>1. PICK length \in HintSizes : hint' = PageHints(length) /\ layout' = [layout EXCEPT !.main = @ + length]
    BY <1>2 DEF BuildHints
  <2>2. DOMAIN layout = {"hint", "end", "main", "entry", "length", "lens"} /\ pass = 1 /\ phase = "hints"
    BY <1>2 DEF LinearInv, Shape, BuildHints
  <2>3. layout'.hint = layout.hint /\ layout'.lens = layout.lens
    BY <2>1, <2>2
  <2>4. layout.lens = lens
    BY <2>2 DEF LinearInv, FirstPass
  <2>5. hint'.first = layout.hint /\ hint'.pages = PagesOf(layout.lens)
    BY <2>1, <2>4 DEF PageHints, PagesOf, Total, TotalOf, LengthOf
  <2> QED BY <1>1, <2>3, <2>5, SamePages DEF HintInv
<1>3. CASE ~BuildHints /\ pass = 2
  <2>1. hint' = hint /\ layout' = layout
    <3>1. CASE EndPass
      <4>1. hint' = hint /\ (Drifted => layout' = layout)
        BY <3>1 DEF EndPass
      <4>2. ~Drifted => layout' = layout
        BY <1>3, <3>1 DEF EndPass
      <4> QED BY <4>1, <4>2
    <3>2. CASE WriteObject \/ WriteContainer
      BY <3>2 DEF WriteObject, WriteContainer, Put
    <3>3. CASE WriteHint \/ EndFirstPage
      BY <1>3, <3>3 DEF WriteHint, EndFirstPage
    <3>4. CASE WriteClassicFront \/ WriteStreamFront \/ EndRoot
      BY <3>4 DEF WriteClassicFront, WriteStreamFront, EndRoot
    <3>5. CASE Finished \/ UNCHANGED vars
      BY <3>5 DEF Finished, vars
    <3> QED BY <1>3, <3>1, <3>2, <3>3, <3>4, <3>5 DEF Next
  <2> QED BY <1>1, <1>3, <2>1, SamePages DEF HintInv
<1>4. CASE ~BuildHints /\ pass # 2
  <2>1. pass' = pass
    BY <1>4 DEF Next, vars, WriteClassicFront, WriteStreamFront, WriteObject, WriteContainer, Put, EndRoot, WriteHint,
                EndFirstPage, EndPass, Finished
  <2> QED BY <1>1, <1>4, <2>1 DEF HintInv
<1> QED BY <1>2, <1>3, <1>4

(* The objects that the first page's section is counted from are those     *)
(* that are written in it.                                                 *)
LEMMA FirstPageSection == ASSUME PagesTogether(file, names) PROVE FirstPageObjects = Section("page")
<1> DEFINE D == DOMAIN file.size
           X == Members(file) \cup Sources(file) \cup {file.root}
           N(s) == Number(names.table, Object(s))
<1>1. file.part2 \in Seq(D) /\ file.part3 \in Seq(D) /\ file.outlines6 \in Seq(D)
  BY DEF PagesTogether
<1>2. \A part : Plain(part) = {N(s) : s \in ToSet(part) \ X}
  BY DEF Plain, PlainOf
<1>3. AfterHint(file) = file.part2 \o file.part3 \o file.outlines6
  BY DEF AfterHint
<1> HIDE DEF D
<1>4. ASSUME NEW u \in Seq(D), NEW v \in Seq(D) PROVE u \o v \in Seq(D) /\ ToSet(u \o v) = ToSet(u) \cup ToSet(v)
  <2>1. /\ u \o v \in Seq(D) /\ Len(u \o v) = Len(u) + Len(v) /\ Len(u) \in Nat /\ Len(v) \in Nat
        /\ \A i \in 1 .. Len(u) + Len(v) : (u \o v)[i] = IF i <= Len(u) THEN u[i] ELSE v[i - Len(u)]
    OBVIOUS
  <2>2. /\ ToSet(u \o v) = {(u \o v)[i] : i \in 1 .. Len(u) + Len(v)}
        /\ ToSet(u) = {u[i] : i \in 1 .. Len(u)} /\ ToSet(v) = {v[i] : i \in 1 .. Len(v)}
    BY <2>1 DEF ToSet
  <2>3. ToSet(u \o v) \subseteq ToSet(u) \cup ToSet(v)
    <3> SUFFICES ASSUME NEW i \in 1 .. Len(u) + Len(v) PROVE (u \o v)[i] \in ToSet(u) \cup ToSet(v)
      BY <2>2
    <3>1. CASE i <= Len(u)
      BY <2>1, <2>2, <3>1
    <3>2. CASE ~(i <= Len(u))
      <4>1. i - Len(u) \in 1 .. Len(v)
        BY <2>1, <3>2
      <4> QED BY <2>1, <2>2, <3>2, <4>1
    <3> QED BY <3>1, <3>2
  <2>4. ToSet(u) \subseteq ToSet(u \o v)
    <3> SUFFICES ASSUME NEW i \in 1 .. Len(u) PROVE u[i] \in ToSet(u \o v)
      BY <2>2
    <3>1. i \in 1 .. Len(u) + Len(v) /\ i <= Len(u)
      BY <2>1
    <3> QED BY <2>1, <2>2, <3>1
  <2>5. ToSet(v) \subseteq ToSet(u \o v)
    <3> SUFFICES ASSUME NEW i \in 1 .. Len(v) PROVE v[i] \in ToSet(u \o v)
      BY <2>2
    <3> DEFINE j == Len(u) + i
    <3>1. j \in 1 .. Len(u) + Len(v) /\ ~(j <= Len(u)) /\ j - Len(u) = i
      BY <2>1
    <3> HIDE DEF j
    <3>2. (u \o v)[j] = v[i]
      BY <2>1, <3>1
    <3> QED BY <2>2, <3>1, <3>2
  <2> QED BY <2>1, <2>3, <2>4, <2>5
<1>5. ToSet(AfterHint(file)) = ToSet(file.part2) \cup ToSet(file.part3) \cup ToSet(file.outlines6)
  <2>1. file.part2 \o file.part3 \in Seq(D)
    BY <1>1, <1>4
  <2>2. ToSet(file.part2 \o file.part3) = ToSet(file.part2) \cup ToSet(file.part3)
    BY <1>1, <1>4
  <2>3. ToSet((file.part2 \o file.part3) \o file.outlines6) = ToSet(file.part2 \o file.part3) \cup ToSet(file.outlines6)
    BY <1>1, <1>4, <2>1
  <2> QED BY <1>3, <2>2, <2>3
<1> HIDE DEF X, N
<1>6. Plain(AfterHint(file)) = Plain(file.part2) \cup Plain(file.part3) \cup Plain(file.outlines6)
  BY <1>2, <1>5
<1>7. Section("page") = Plain(AfterHint(file)) \cup ContainersOf(file, names, "first")
  BY DEF Section, SectionOf, Plain
<1> QED BY <1>6, <1>7 DEF FirstPageObjects

(* From the first offset of some objects to the end of the last of them.   *)
FirstOf(o, numbers) == Min({o[n] : n \in numbers})
SpanOf(o, l, numbers) == Max({o[n] + l[n] : n \in numbers}) - Min({o[n] : n \in numbers})

LEMMA Extremes ==
    ASSUME NEW own, NEW m \in own, NEW g \in own, NEW o, NEW l,
           \A k \in own : o[k] \in Nat /\ l[k] \in Nat /\ o[m] <= o[k] /\ o[k] + l[k] <= o[g] + l[g]
    PROVE  FirstOf(o, own) = o[m] /\ SpanOf(o, l, own) = o[g] + l[g] - o[m]
<1> DEFINE A == {o[k] : k \in own}
           B == {o[k] + l[k] : k \in own}
<1>1. A \subseteq Nat /\ B \subseteq 0 .. o[g] + l[g] /\ o[m] \in A /\ o[g] + l[g] \in B /\ o[g] + l[g] \in Nat
  OBVIOUS
<1>2. (\A y \in A : o[m] <= y) /\ (\A y \in B : y \in Nat /\ y <= o[g] + l[g])
  OBVIOUS
<1> HIDE DEF A, B
<1>3. Min(A) = o[m]
  <2>1. Min(A) \in A /\ Min(A) <= o[m]
    BY <1>1, LeastNumber
  <2>2. o[m] <= Min(A) /\ Min(A) \in Nat /\ o[m] \in Nat
    BY <1>1, <1>2, <2>1
  <2> QED BY <2>1, <2>2
<1>4. Max(B) = o[g] + l[g]
  <2>1. Max(B) \in B /\ Max(B) >= o[g] + l[g]
    BY <1>1, GreatestNumber
  <2>2. Max(B) <= o[g] + l[g] /\ Max(B) \in Nat
    BY <1>1, <1>2, <2>1
  <2> QED BY <1>1, <2>1, <2>2
<1> QED BY <1>3, <1>4 DEF A, B, FirstOf, SpanOf

LEMMA DoneHints == ASSUME LinearInv, HintInv PROVE HintsExact
<1> SUFFICES ASSUME Done, Repeated PROVE HintsExact
  BY DEF HintsExact
<1>1. /\ Shape /\ Numbered(file, names) /\ phase = "done" /\ pass = 2
      /\ AllKnown /\ Promises /\ AsPromised
      /\ layout.hint \in Nat /\ layout.end \in Nat /\ layout.main \in Nat /\ hint.length \in Nat
  BY DEF LinearInv, Shape, SecondPass, Done
<1>2. /\ \A p \in BodyPhases : Laid(offs, lens, Section(p), {}, StartOf(p), EndOf(p))
      /\ FixedParts("hints")
  BY <1>1 DEF AsPromised
<1>3. /\ \A p \in BodyPhases : StartOf(p) \in Nat /\ EndOf(p) \in Nat
      /\ "page" \in BodyPhases /\ "rest" \in BodyPhases
  BY <1>1, <1>2, InOrder DEF BodyPhases
<1>4. /\ hint.first = layout.hint /\ hint.pages = PagesOf(lens) /\ PagesTogether(file, names)
      /\ StartOf("page") = layout.hint + hint.length /\ EndOf("page") = params.E
  BY <1>1 DEF HintInv, Repeated, StartOf, EndOf, Promises
<1> DEFINE last == Len(names.table)
           S == Section("page")
<1>5. last \in Nat /\ \A p \in BodyPhases : Section(p) \subseteq 1 .. last
  <2>1. names.table \in Seq(ToSet(names.table))
    BY <1>1 DEF Numbered
  <2>2. last \in Nat
    BY <2>1
  <2> HIDE DEF last
  <2>3. \A p \in BodyPhases : \A n \in Section(p) : n \in 1 .. last
    BY <1>1, Sections DEF last
  <2> QED BY <2>2, <2>3
<1>6. S # {}
  BY <1>1 DEF Numbered, NumbersOf, Section
<1>7. Laid(offs, lens, S, {}, StartOf("page"), EndOf("page"))
  BY <1>2, <1>3
<1>8. S \subseteq 1 .. last /\ S \subseteq Nat /\ Convex(S, S)
  BY <1>3, <1>5 DEF Convex
<1> HIDE DEF S, last
<1>9. PICK m, g \in S :
         /\ \A k \in S : m <= k /\ k <= g /\ offs[m] <= offs[k] /\ offs[k] + lens[k] <= offs[g] + lens[g]
         /\ LengthOf(lens, last, S) = offs[g] + lens[g] - offs[m]
  BY <1>5, <1>6, <1>7, <1>8, RunLength
<1>10. \A k \in S : offs[k] \in Nat /\ lens[k] \in Nat
  BY <1>7 DEF Laid
<1>11. offs[m] = StartOf("page") /\ FirstOf(offs, S) = offs[m]
  <2>1. Min(S) \in S /\ Min(S) <= m
    BY <1>6, <1>8, LeastNumber
  <2>2. m <= Min(S) /\ Min(S) \in Nat /\ m \in Nat
    BY <1>8, <1>9, <2>1
  <2>3. Min(S) = m
    BY <2>1, <2>2
  <2>4. offs[Min(S)] = StartOf("page")
    BY <1>6, <1>7 DEF Laid
  <2>5. FirstOf(offs, S) = offs[m]
    BY <1>9, <1>10, Extremes
  <2> QED BY <2>3, <2>4, <2>5
<1>12. offs[g] + lens[g] = EndOf("page")
  <2>1. Above(S, g) = {}
    <3>1. \A k \in S : k \in Nat /\ g \in Nat /\ ~(k > g)
      BY <1>8, <1>9
    <3> QED BY <3>1 DEF Above
  <2>2. \A n \in S \ {} : Above(S, n) = {} => offs[n] + lens[n] = EndOf("page")
    BY <1>7 DEF Laid
  <2> QED BY <2>1, <2>2
<1>13. TotalOf(lens, S) = EndOf("page") - StartOf("page")
  <2>1. TotalOf(lens, S) = LengthOf(lens, last, S)
    BY DEF TotalOf, last
  <2>2. TotalOf(lens, S) = offs[g] + lens[g] - offs[m]
    BY <1>9, <2>1
  <2>3. StartOf("page") \in Nat /\ EndOf("page") \in Nat /\ offs[g] \in Nat /\ lens[g] \in Nat /\ offs[m] \in Nat
    BY <1>3, <1>10
  <2> QED BY <1>11, <1>12, <2>2, <2>3
<1>14. FirstPageObjects = S
  BY <1>4, FirstPageSection DEF S
<1>15. DOMAIN file.private = 1 .. Len(file.private) /\ Len(file.private) \in Nat
  BY <1>4 DEF PagesTogether
<1>16. /\ hint.pages[1] = TotalOf(lens, FirstPageObjects)
       /\ \A p \in DOMAIN file.private : hint.pages[p + 1] = TotalOf(lens, OtherPageObjects(p))
  <2> DEFINE T(p) == TotalOf(lens, OtherPageObjects(p))
             first == TotalOf(lens, FirstPageObjects)
             n == Len(file.private)
  <2>1. hint.pages = <<first>> \o [p \in 1 .. n |-> T(p)] /\ n \in Nat
    BY <1>4, <1>15 DEF PagesOf
  <2> HIDE DEF T, first, n
  <2>2. hint.pages[1] = first /\ \A p \in 1 .. n : hint.pages[p + 1] = T(p)
    BY SMTT(30), <2>1
  <2> QED BY <1>15, <2>2 DEF T, first, n
<1>17. hint.first + hint.length = Min({offs[n] : n \in Section("page")})
  BY <1>4, <1>11 DEF S, FirstOf
<1>18. hint.first + hint.length + hint.pages[1] = params.E
  BY <1>1, <1>3, <1>4, <1>13, <1>14, <1>16
<1>19. ASSUME NEW p \in DOMAIN file.private, OtherPageObjects(p) # {}
       PROVE  hint.pages[p + 1] = Span(OtherPageObjects(p))
  <2> DEFINE own == OtherPageObjects(p)
             R == Section("rest")
  <2>1. own \subseteq R /\ Convex(own, R)
    BY <1>4 DEF PagesTogether, OtherPageObjects, Section, Convex
  <2>2. Laid(offs, lens, R, {}, StartOf("rest"), EndOf("rest")) /\ R \subseteq 1 .. last
    BY <1>2, <1>3, <1>5
  <2>3. own # {}
    BY <1>19
  <2> HIDE DEF own, R
  <2>4. PICK a, z \in own :
           /\ \A k \in own : a <= k /\ k <= z /\ offs[a] <= offs[k] /\ offs[k] + lens[k] <= offs[z] + lens[z]
           /\ LengthOf(lens, last, own) = offs[z] + lens[z] - offs[a]
    BY <1>5, <2>1, <2>2, <2>3, RunLength
  <2>5. \A k \in own : offs[k] \in Nat /\ lens[k] \in Nat
    BY <2>1, <2>2 DEF Laid
  <2>6. Span(own) = offs[z] + lens[z] - offs[a]
    <3>1. \A k \in own : /\ offs[k] \in Nat /\ lens[k] \in Nat
                        /\ offs[a] <= offs[k] /\ offs[k] + lens[k] <= offs[z] + lens[z]
      BY <2>4, <2>5
    <3>2. SpanOf(offs, lens, own) = offs[z] + lens[z] - offs[a]
      BY <3>1, Extremes
    <3> QED BY <3>2 DEF Span, SpanOf
  <2>7. TotalOf(lens, own) = Span(own)
    <3>1. TotalOf(lens, own) = LengthOf(lens, last, own)
      BY DEF TotalOf, last
    <3> QED BY <2>4, <2>6, <3>1
  <2> QED BY <1>16, <2>7 DEF own
<1> QED BY <1>17, <1>18, <1>19 DEF HintsExact

(* The page-offset hints, which are made from the first pass, hold for a   *)
(* finished file of less than Power[8] bytes whose second pass wrote every *)
(* object as long as the first (build_hint_stream_from_pass1): the first   *)
(* page's section begins behind the hint stream and ends at /E, and each   *)
(* other page's section has the length that its hint says.                 *)
THEOREM HintsRight == Spec /\ []Short => []HintsExact
<1>1. LinearInv /\ HintInv /\ [Next]_vars => HintInv'
  BY HintStep
<1>2. LinearInv /\ HintInv => HintsExact
  BY DoneHints
<1> QED BY LayoutSound, InitHint, <1>1, <1>2, PTL DEF Spec
=============================================================================
