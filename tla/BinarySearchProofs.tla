------------------------- MODULE BinarySearchProofs -------------------------
(***************************************************************************)
(* Proofs about BinarySearch: the probing search of the trees is exact for *)
(* arrays of every size.                                                   *)
(***************************************************************************)
EXTENDS BinarySearch, Induction

-----------------------------------------------------------------------------
(* The sizes the search starts from.                                       *)

LEMMA DoublingsAre ==
    ASSUME NEW count \in Nat
    PROVE  /\ Doublings(count) \in [0 .. count -> Nat \ {0}]
           /\ Doublings(count)[0] = 1
           /\ \A n \in 1 .. count :
                 Doublings(count)[n] = IF Doublings(count)[n - 1] < count THEN 2 * Doublings(count)[n - 1]
                                       ELSE Doublings(count)[n - 1]
<1> DEFINE V == Nat \ {0}
           step == [p \in V |-> IF p < count THEN 2 * p ELSE p]
           body(d, n) == IF n = 0 THEN 1 ELSE IF d[n - 1] < count THEN 2 * d[n - 1] ELSE d[n - 1]
<1>1. step \in [V -> V]
  OBVIOUS
<1>2. \A p \in V : step[p] = IF p < count THEN 2 * p ELSE p
  OBVIOUS
<1> HIDE DEF step
<1>3. PICK f \in [0 .. count -> V] : f = [n \in 0 .. count |-> IF n = 0 THEN 1 ELSE step[f[n - 1]]]
  <2> DEFINE base == 1
  <2>1. base \in V
    OBVIOUS
  <2> HIDE DEF V, base
  <2>2. \E f \in [0 .. count -> V] : f = [n \in 0 .. count |-> IF n = 0 THEN base ELSE step[f[n - 1]]]
    BY ONLY SMTT(30), count \in Nat, <1>1, <2>1, IterationExists
  <2> QED BY <2>2 DEF base
<1>4. f = [n \in 0 .. count |-> body(f, n)]
  <2>1. \A n \in 0 .. count : n # 0 => step[f[n - 1]] = IF f[n - 1] < count THEN 2 * f[n - 1] ELSE f[n - 1]
    <3> SUFFICES ASSUME NEW n \in 0 .. count, n # 0
                 PROVE  step[f[n - 1]] = IF f[n - 1] < count THEN 2 * f[n - 1] ELSE f[n - 1]
      OBVIOUS
    <3>1. f[n - 1] \in V
      BY <1>3
    <3> HIDE DEF V
    <3> QED BY <1>2, <3>1
  <2> QED BY <1>3, <2>1
<1>5. Doublings(count) = CHOOSE d : d = [n \in 0 .. count |-> body(d, n)]
  BY DEF Doublings
<1>6. Doublings(count) = [n \in 0 .. count |-> body(Doublings(count), n)]
  <2> HIDE DEF body
  <2> QED BY <1>4, <1>5
<1> DEFINE d == Doublings(count)
<1> HIDE DEF d
<1>7. d = [n \in 0 .. count |-> IF n = 0 THEN 1 ELSE IF d[n - 1] < count THEN 2 * d[n - 1] ELSE d[n - 1]]
  BY <1>6 DEF d
<1>8. DOMAIN d = 0 .. count /\ d[0] = 1
  BY <1>7
<1>9. \A n \in 1 .. count : d[n] = IF d[n - 1] < count THEN 2 * d[n - 1] ELSE d[n - 1]
  <2> SUFFICES ASSUME NEW n \in 1 .. count PROVE d[n] = IF d[n - 1] < count THEN 2 * d[n - 1] ELSE d[n - 1]
    OBVIOUS
  <2>1. n \in 0 .. count /\ n # 0
    OBVIOUS
  <2> QED BY <1>7, <2>1
<1> DEFINE S == {n \in Nat : n <= count => d[n] \in V}
<1>10. 0 \in S
  BY <1>8
<1>11. ASSUME NEW n \in Nat, n \in S PROVE n + 1 \in S
  <2> SUFFICES ASSUME n + 1 <= count PROVE d[n + 1] \in V
    OBVIOUS
  <2>1. n + 1 \in 1 .. count /\ (n + 1) - 1 = n /\ n <= count
    OBVIOUS
  <2>2. d[n + 1] = IF d[n] < count THEN 2 * d[n] ELSE d[n]
    BY <1>9, <2>1
  <2>3. d[n] \in V
    BY <1>11, <2>1
  <2> QED BY <2>2, <2>3
<1>12. Nat \subseteq S
  <2> HIDE DEF S
  <2> QED BY <1>10, <1>11, SetInduction
<1>13. \A n \in 0 .. count : d[n] \in V
  BY <1>12
<1>14. d = [n \in 0 .. count |-> d[n]]
  BY <1>7
<1>15. d \in [0 .. count -> V]
  <2> HIDE DEF V
  <2> QED BY <1>13, <1>14
<1> QED BY <1>8, <1>9, <1>15 DEF d

Powers(count) == {Doublings(count)[n] : n \in 0 .. count}

(* Each is 1 or twice another, and the last is not below count.            *)
LEMMA PowersAre ==
    ASSUME NEW count \in Nat
    PROVE  /\ Powers(count) \subseteq Nat \ {0}
           /\ \A p \in Powers(count) : p = 1 \/ \E q \in Powers(count) : p = 2 * q
           /\ max_index(count) \in Powers(count) /\ max_index(count) >= count
<1> DEFINE d == Doublings(count)
           P == {d[n] : n \in 0 .. count}
<1>1. /\ d \in [0 .. count -> Nat \ {0}] /\ d[0] = 1
      /\ \A n \in 1 .. count : d[n] = IF d[n - 1] < count THEN 2 * d[n - 1] ELSE d[n - 1]
  BY DoublingsAre
<1> HIDE DEF d
<1> DEFINE Twice(n) == d[n] = 1 \/ \E q \in P : d[n] = 2 * q
           Large(n) == d[n] >= count \/ d[n] >= n + 1
           S == {n \in Nat : n <= count => Twice(n) /\ Large(n)}
<1>2. 0 \in S
  BY <1>1
<1>3. ASSUME NEW n \in Nat, n \in S PROVE n + 1 \in S
  <2> SUFFICES ASSUME n + 1 <= count
               PROVE  Twice(n + 1) /\ Large(n + 1)
    <3> HIDE DEF Twice, Large
    <3> QED OBVIOUS
  <2>1. n + 1 \in 1 .. count /\ (n + 1) - 1 = n /\ n \in 0 .. count
    OBVIOUS
  <2>2. d[n + 1] = IF d[n] < count THEN 2 * d[n] ELSE d[n]
    BY <1>1, <2>1
  <2>3. d[n] \in Nat \ {0} /\ d[n] \in P
    BY <1>1, <2>1
  <2>4. Twice(n) /\ Large(n)
    <3> HIDE DEF Twice, Large
    <3> QED BY <1>3, <2>1
  <2> HIDE DEF P
  <2> QED BY <2>2, <2>3, <2>4
<1>4. Nat \subseteq S
  <2> HIDE DEF S
  <2> QED BY <1>2, <1>3, SetInduction
<1>5. d[count] >= count
  <2> HIDE DEF P
  <2>1. count \in S /\ d[count] \in Nat
    <3> HIDE DEF S
    <3> QED BY <1>1, <1>4
  <2>2. Large(count)
    <3> HIDE DEF Twice, Large
    <3> QED BY <2>1
  <2> HIDE DEF S
  <2> QED BY <2>1, <2>2
<1>6. \A p \in P : p \in Nat \ {0} /\ (p = 1 \/ \E q \in P : p = 2 * q)
  <2> SUFFICES ASSUME NEW n \in 0 .. count
               PROVE  d[n] \in Nat \ {0} /\ (d[n] = 1 \/ \E q \in P : d[n] = 2 * q)
    OBVIOUS
  <2>1. Twice(n)
    <3> HIDE DEF Twice, Large
    <3> QED BY <1>4
  <2> QED BY <1>1, <2>1
<1>7. max_index(count) = d[count] /\ Powers(count) = P
  BY DEF max_index, Powers, d
<1>8. d[count] \in P
  OBVIOUS
<1> HIDE DEF P
<1> QED BY <1>5, <1>6, <1>7, <1>8

-----------------------------------------------------------------------------
(* The loop.                                                               *)

States == [index : Nat, step : Nat, checks : Nat, found_index : Int, found : BOOLEAN]

(* Every turn leads to a state.                                            *)
LEMMA ProbeState ==
    ASSUME NEW cmp, NEW count, NEW s \in States
    PROVE  Probe(cmp, count, s) \in States
<1> DEFINE step == IF s.step \div 2 = 0 THEN 1 ELSE s.step \div 2
<1>1. s.index \in Nat /\ s.step \in Nat /\ s.checks \in Nat /\ s.found_index \in Int /\ s.found \in BOOLEAN
  BY DEF States
<1>2. step \in Nat /\ s.checks \div 2 \in Nat
  BY <1>1
<1> HIDE DEF step
<1> DEFINE status == IF s.index < count THEN cmp[s.index] ELSE "less"
           next == [index |-> IF status # "less" THEN s.index + step
                              ELSE IF step > s.index THEN 0 ELSE s.index - step,
                    step |-> step,
                    checks |-> s.checks \div 2,
                    found_index |-> IF status = "error" THEN -2
                                    ELSE IF status # "less" THEN s.index ELSE s.found_index,
                    found |-> status \in {"equal", "error"}]
<1>3. Probe(cmp, count, s) = IF s.found \/ s.checks = 0 THEN s ELSE next
  BY DEF Probe, step
<1> HIDE DEF status
<1>4. next \in States
  BY <1>1, <1>2 DEF States
<1> QED BY <1>3, <1>4

(* The turns are taken one after the other.                                *)
LEMMA TurnsAre ==
    ASSUME NEW cmp, NEW count, NEW size \in Nat
    PROVE  /\ Turns(cmp, count, size) \in [0 .. size -> States]
           /\ Turns(cmp, count, size)[0] = Start(size)
           /\ \A n \in 1 .. size : Turns(cmp, count, size)[n] = Probe(cmp, count, Turns(cmp, count, size)[n - 1])
<1> DEFINE step == [s \in States |-> Probe(cmp, count, s)]
           body(t, n) == IF n = 0 THEN Start(size) ELSE Probe(cmp, count, t[n - 1])
<1>1. step \in [States -> States]
  BY ProbeState
<1>2. \A s \in States : step[s] = Probe(cmp, count, s)
  OBVIOUS
<1> HIDE DEF step
<1>3. Start(size) \in States
  <2>1. size \div 2 \in Nat
    OBVIOUS
  <2> QED BY <2>1 DEF Start, States
<1> DEFINE start == Start(size)
           V == States
<1> HIDE DEF start, V
<1>4a. \E f \in [0 .. size -> V] : f = [n \in 0 .. size |-> IF n = 0 THEN start ELSE step[f[n - 1]]]
  <2>1. start \in V /\ step \in [V -> V]
    BY <1>1, <1>3 DEF start, V
  <2> QED BY ONLY size \in Nat, <2>1, IterationExists
<1>4. PICK f \in [0 .. size -> States] : f = [n \in 0 .. size |-> IF n = 0 THEN Start(size) ELSE step[f[n - 1]]]
  BY <1>4a DEF start, V
<1>5. \A n \in 0 .. size : n # 0 => step[f[n - 1]] = Probe(cmp, count, f[n - 1])
  BY <1>2, <1>4
<1>6. f = [n \in 0 .. size |-> body(f, n)]
  BY <1>4, <1>5
<1>7. Turns(cmp, count, size) = CHOOSE t : t = [n \in 0 .. size |-> body(t, n)]
  BY DEF Turns
<1> DEFINE t == Turns(cmp, count, size)
<1>8. t = [n \in 0 .. size |-> body(t, n)]
  <2> HIDE DEF body
  <2> QED BY <1>6, <1>7
<1> HIDE DEF t
<1>9. DOMAIN t = 0 .. size /\ t[0] = Start(size)
  BY <1>8
<1>10. \A n \in 1 .. size : t[n] = Probe(cmp, count, t[n - 1])
  <2> SUFFICES ASSUME NEW n \in 1 .. size PROVE t[n] = Probe(cmp, count, t[n - 1])
    OBVIOUS
  <2>1. n \in 0 .. size /\ n # 0
    OBVIOUS
  <2> QED BY <1>8, <2>1
<1> DEFINE S == {n \in Nat : n <= size => t[n] \in States}
<1>11. 0 \in S
  BY <1>3, <1>9
<1>12. ASSUME NEW n \in Nat, n \in S PROVE n + 1 \in S
  <2> SUFFICES ASSUME n + 1 <= size PROVE t[n + 1] \in States
    OBVIOUS
  <2>1. n + 1 \in 1 .. size /\ (n + 1) - 1 = n /\ n <= size
    OBVIOUS
  <2>2. t[n] \in States
    BY <1>12, <2>1
  <2> QED BY <1>10, <2>1, <2>2, ProbeState
<1>13. Nat \subseteq S
  <2> HIDE DEF S
  <2> QED BY <1>11, <1>12, SetInduction
<1>14. \A n \in 0 .. size : t[n] \in States
  BY <1>13
<1>15. t = [n \in 0 .. size |-> t[n]]
  BY <1>8
<1>16. t \in [0 .. size -> States]
  BY <1>14, <1>15
<1> QED BY <1>9, <1>10, <1>16 DEF t

-----------------------------------------------------------------------------
(* What the search looks for: the last entry that is not above the key.    *)
Target(below, equal) == IF equal THEN below ELSE below - 1

(* It lies in lo .. hi - 1, or nowhere when nothing was found yet.         *)
Bracket(s, target, equal, lo, hi) ==
    /\ target < hi
    /\ \/ s.found_index = lo /\ lo <= target /\ (equal => lo < target)
       \/ lo = 0 /\ s.found_index = -1

(* Before the last probe: it is known, or it is the entry to be probed, or *)
(* no entry is it.                                                         *)
LastProbe(s, target, equal) ==
    \/ s.found_index = target /\ ~equal /\ s.index = target + 1
    \/ s.index = target
    \/ target = -1 /\ ~equal /\ s.index = 0 /\ s.found_index = -1

(* After n turns from size.                                                *)
SearchInv(s, n, size, powers, target, equal) ==
    /\ s \in States
    /\ s.found => equal /\ s.found_index = target
    /\ ~s.found =>
          /\ s.checks > 0 => s.checks + n <= size
          /\ s.checks = 0 => ~equal /\ s.found_index = target
          /\ s.checks = 1 => s.step \in {0, 1} /\ LastProbe(s, target, equal)
          /\ s.checks > 1 =>
                \E h \in powers : /\ s.checks = 2 * h /\ s.step = h /\ h <= s.index
                                  /\ Bracket(s, target, equal, s.index - h, s.index + h)

(* What a status says about the target.                                    *)
LEMMA StatusIs ==
    ASSUME NEW count \in Nat, NEW below \in 0 .. count, NEW equal \in BOOLEAN, equal => below < count,
           NEW i \in Nat
    PROVE  LET cmp == Statuses(count, below, equal)
               status == IF i < count THEN cmp[i] ELSE "less"
               target == Target(below, equal)
           IN  /\ status \in {"less", "equal", "greater"}
               /\ status = "less" <=> target < i
               /\ status = "equal" <=> equal /\ i = target
<1> DEFINE cmp == Statuses(count, below, equal)
<1>1. i < count => cmp[i] = IF i < below THEN "greater" ELSE IF i = below /\ equal THEN "equal" ELSE "less"
  <2>1. i < count => i \in 0 .. count - 1
    OBVIOUS
  <2> QED BY <2>1 DEF Statuses
<1> HIDE DEF cmp
<1> QED BY <1>1 DEF Target, cmp

(* One turn keeps the invariant.                                           *)
LEMMA ProbeKeeps ==
    ASSUME NEW count \in Nat, NEW below \in 0 .. count, NEW equal \in BOOLEAN, equal => below < count,
           NEW size \in Nat, NEW n \in Nat, NEW powers, powers \subseteq Nat \ {0},
           \A p \in powers : p = 1 \/ \E q \in powers : p = 2 * q,
           NEW s, SearchInv(s, n, size, powers, Target(below, equal), equal)
    PROVE  SearchInv(Probe(Statuses(count, below, equal), count, s), n + 1, size, powers,
                     Target(below, equal), equal)
<1> DEFINE cmp == Statuses(count, below, equal)
           target == Target(below, equal)
           status == IF s.index < count THEN cmp[s.index] ELSE "less"
           step == IF s.step \div 2 = 0 THEN 1 ELSE s.step \div 2
           r == Probe(cmp, count, s)
<1>1. /\ s \in States
      /\ s.index \in Nat /\ s.step \in Nat /\ s.checks \in Nat /\ s.found_index \in Int /\ s.found \in BOOLEAN
  BY DEF SearchInv, States
<1>2. r \in States
  BY <1>1, ProbeState
<1>3. target \in Int /\ target < count /\ target >= -1 /\ (equal => target >= 0)
  BY DEF Target
<1>a. SearchInv(s, n, size, powers, target, equal)
  OBVIOUS
<1>4. /\ status \in {"less", "equal", "greater"}
      /\ status = "less" <=> target < s.index
      /\ status = "equal" <=> equal /\ s.index = target
  BY <1>1, StatusIs
<1>5. CASE s.found \/ s.checks = 0
  <2>1. r = s
    BY <1>5 DEF Probe
  <2>2. s.found => equal /\ s.found_index = target
    BY DEF SearchInv
  <2>3. ~s.found => s.checks = 0 /\ ~equal /\ s.found_index = target
    BY <1>1, <1>5 DEF SearchInv
  <2>4. s.checks > 0 <=> s.checks # 0
    BY <1>1
  <2> QED BY <1>1, <1>5, <2>1, <2>2, <2>3, <2>4 DEF SearchInv
<1> DEFINE onward == IF status # "less" THEN s.index + step ELSE IF step > s.index THEN 0 ELSE s.index - step
<1> SUFFICES ASSUME ~s.found, s.checks > 0 PROVE SearchInv(r, n + 1, size, powers, target, equal)
  BY <1>1, <1>5
<1> HIDE DEF target
<1>6. /\ r.index = onward /\ r.step = step /\ r.checks = s.checks \div 2
      /\ r.found_index = IF status # "less" THEN s.index ELSE s.found_index
      /\ r.found <=> status = "equal"
  <2>1. r = [index |-> onward, step |-> step, checks |-> s.checks \div 2,
             found_index |-> IF status = "error" THEN -2 ELSE IF status # "less" THEN s.index ELSE s.found_index,
             found |-> status \in {"equal", "error"}]
    BY <1>1 DEF Probe
  <2> HIDE DEF status, onward, step, r
  <2> QED BY <1>4, <2>1
<1>7. s.checks + n <= size
  BY DEF SearchInv
<1> HIDE DEF status, r
<1>8. CASE status = "equal"
  BY <1>2, <1>4, <1>6, <1>8 DEF SearchInv
<1>9. CASE status # "equal" /\ s.checks = 1
  <2>1. LastProbe(s, target, equal)
    BY <1>a, <1>9 DEF SearchInv
  <2>2. r.checks = 0 /\ ~r.found
    BY <1>6, <1>9
  <2>3. ~equal /\ r.found_index = target
    BY <1>1, <1>3, <1>4, <1>6, <1>9, <2>1 DEF LastProbe
  <2> QED BY <1>2, <2>2, <2>3 DEF SearchInv
<1>10. CASE status # "equal" /\ s.checks > 1
  <2>1. PICK h \in powers : /\ s.checks = 2 * h /\ s.step = h /\ h <= s.index
                            /\ Bracket(s, target, equal, s.index - h, s.index + h)
    BY <1>a, <1>10 DEF SearchInv
  <2>2. h \in Nat /\ h >= 1 /\ r.checks = h /\ ~r.found
    BY <1>6, <1>10, <2>1
  <2>3. r.checks + (n + 1) <= size
    BY <1>7, <2>1, <2>2
  <2>4. CASE h = 1
    <3>1. step = 1 /\ r.step = 1
      BY <1>6, <2>1, <2>4
    <3>2. LastProbe(r, target, equal)
      <4>1. CASE status = "less"
        <5>1. r.index = s.index - 1 /\ r.found_index = s.found_index
          BY <1>1, <1>6, <2>1, <2>4, <3>1, <4>1
        <5> QED BY <1>1, <1>3, <1>4, <2>1, <2>4, <4>1, <5>1 DEF Bracket, LastProbe
      <4>2. CASE status = "greater"
        <5>1. r.index = s.index + 1 /\ r.found_index = s.index
          BY <1>6, <3>1, <4>2
        <5> QED BY <1>1, <1>3, <1>4, <2>1, <2>4, <4>2, <5>1 DEF Bracket, LastProbe
      <4> QED BY <1>4, <1>10, <4>1, <4>2
    <3> QED BY <1>2, <2>2, <2>3, <2>4, <3>1, <3>2 DEF SearchInv
  <2>5. CASE h # 1
    <3>1. PICK q \in powers : h = 2 * q
      BY <2>5
    <3>2. q \in Nat /\ q >= 1 /\ step = q
      BY <2>1, <3>1
    <3>3. q <= r.index /\ Bracket(r, target, equal, r.index - q, r.index + q)
      <4>1. CASE status = "less"
        <5>1. r.index = s.index - q /\ r.found_index = s.found_index
          BY <1>1, <1>6, <2>1, <3>1, <3>2, <4>1
        <5>2. r.index - q = s.index - h /\ r.index + q = s.index
          BY <1>1, <3>1, <3>2, <5>1
        <5> QED BY <1>1, <1>3, <1>4, <2>1, <2>2, <3>1, <3>2, <4>1, <5>1, <5>2 DEF Bracket
      <4>2. CASE status = "greater"
        <5>1. r.index = s.index + q /\ r.found_index = s.index
          BY <1>6, <3>2, <4>2
        <5>2. r.index - q = s.index /\ r.index + q = s.index + h
          BY <1>1, <3>1, <3>2, <5>1
        <5> QED BY <1>1, <1>3, <1>4, <2>1, <2>2, <3>1, <3>2, <4>2, <5>1, <5>2 DEF Bracket
      <4> QED BY <1>4, <1>10, <4>1, <4>2
    <3>4. r.checks = 2 * q /\ r.step = q /\ r.checks > 1
      BY <1>6, <2>2, <3>1, <3>2
    <3> QED BY <1>2, <2>2, <2>3, <3>1, <3>3, <3>4 DEF SearchInv
  <2> QED BY <2>4, <2>5
<1> QED BY <1>1, <1>8, <1>9, <1>10

(* The invariant holds when the loop is entered.                           *)
LEMMA StartKeeps ==
    ASSUME NEW count \in Nat, NEW below \in 0 .. count, NEW equal \in BOOLEAN, equal => below < count,
           NEW powers, powers \subseteq Nat \ {0}, \A p \in powers : p = 1 \/ \E q \in powers : p = 2 * q,
           NEW size \in powers, size >= count
    PROVE  SearchInv(Start(size), 0, size, powers, Target(below, equal), equal)
<1> DEFINE s == Start(size)
           target == Target(below, equal)
<1>1. size \in Nat /\ size >= 1 /\ size \div 2 \in Nat
  OBVIOUS
<1>2. s.index = size \div 2 /\ s.step = size \div 2 /\ s.checks = size /\ s.found_index = -1 /\ s.found = FALSE
  BY DEF Start
<1>3. s \in States
  BY <1>1 DEF Start, States
<1>4. target \in Int /\ target < count /\ target >= -1 /\ (equal => target >= 0)
  BY DEF Target
<1> HIDE DEF s, target
<1>5. CASE size = 1
  <2>1. s.index = 0 /\ s.step = 0
    BY <1>2, <1>5
  <2>2. LastProbe(s, target, equal)
    BY <1>2, <1>4, <1>5, <2>1 DEF LastProbe
  <2> QED BY <1>2, <1>3, <1>5, <2>1, <2>2 DEF SearchInv, s, target
<1>6. CASE size # 1
  <2>1. PICK h \in powers : size = 2 * h
    BY <1>6
  <2>2. h \in Nat /\ size \div 2 = h
    BY <2>1
  <2>3. Bracket(s, target, equal, s.index - h, s.index + h)
    BY <1>2, <1>4, <2>1, <2>2 DEF Bracket
  <2>4. s.checks = 2 * h /\ s.step = h /\ h <= s.index /\ s.checks > 1
    BY <1>1, <1>2, <1>6, <2>1, <2>2
  <2> QED BY <1>1, <1>2, <1>3, <2>1, <2>3, <2>4 DEF SearchInv, s, target
<1> QED BY <1>5, <1>6

(* The search finds the entry that is equal, else the last one below the   *)
(* key when that is asked for (nntree.rs, binary_search); no size of the   *)
(* array hides an entry from it.                                           *)
THEOREM SearchRight == \A count \in Nat : SearchSound(count)
<1> SUFFICES ASSUME NEW count \in Nat, NEW below \in 0 .. count,
                    NEW equal \in BOOLEAN, NEW or_below \in BOOLEAN, equal => below < count
             PROVE  binary_search(Statuses(count, below, equal), count, or_below) =
                        IF equal THEN below ELSE IF or_below THEN below - 1 ELSE -1
  BY DEF SearchSound
<1> DEFINE cmp == Statuses(count, below, equal)
           size == max_index(count)
           t == Turns(cmp, count, size)
           target == Target(below, equal)
           Inv(n) == SearchInv(t[n], n, size, Powers(count), target, equal)
           S == {n \in Nat : n <= size => Inv(n)}
<1>1. count \in Nat
  OBVIOUS
<1>2. /\ Powers(count) \subseteq Nat \ {0}
      /\ \A p \in Powers(count) : p = 1 \/ \E q \in Powers(count) : p = 2 * q
      /\ size \in Powers(count) /\ size >= count
  BY <1>1, PowersAre
<1>3. size \in Nat /\ size > 0
  BY <1>2
<1> HIDE DEF size
<1>4. t[0] = Start(size) /\ \A n \in 1 .. size : t[n] = Probe(cmp, count, t[n - 1])
  <2> HIDE DEF cmp
  <2> QED BY <1>3, TurnsAre
<1> HIDE DEF t
<1>5. 0 \in S
  BY <1>1, <1>2, <1>4, StartKeeps
<1>6. ASSUME NEW n \in Nat, n \in S PROVE n + 1 \in S
  <2> SUFFICES ASSUME n + 1 <= size PROVE Inv(n + 1)
    OBVIOUS
  <2>1. n + 1 \in 1 .. size /\ (n + 1) - 1 = n /\ n <= size
    BY <1>3
  <2>2. Inv(n)
    BY <1>6, <2>1
  <2>3. t[n + 1] = Probe(cmp, count, t[n])
    BY <1>4, <2>1
  <2>4. Powers(count) \subseteq Nat \ {0} /\ \A p \in Powers(count) : p = 1 \/ \E q \in Powers(count) : p = 2 * q
    BY <1>2
  <2> HIDE DEF S
  <2>5. SearchInv(Probe(Statuses(count, below, equal), count, t[n]), n + 1, size, Powers(count),
                  Target(below, equal), equal)
    BY <1>1, <1>3, <2>2, <2>4, ProbeKeeps
  <2> QED BY <2>3, <2>5
<1>7. Nat \subseteq S
  <2> HIDE DEF S
  <2> QED BY <1>5, <1>6, SetInduction
<1>8. Inv(size)
  <2>1. size \in S
    <3> HIDE DEF S
    <3> QED BY <1>3, <1>7
  <2> HIDE DEF Inv
  <2> QED BY <1>3, <2>1
<1>9. (t[size].found \/ (~t[size].found /\ ~equal)) /\ t[size].found_index = target
  BY <1>3, <1>8 DEF SearchInv, States
<1>10. t[size].found_index = target /\ (t[size].found <=> equal)
  BY <1>3, <1>8, <1>9 DEF SearchInv, States
<1>11. binary_search(cmp, count, or_below) = Result(t[size], or_below)
  BY DEF binary_search, t, size
<1> QED BY <1>10, <1>11 DEF Result, Target
=============================================================================
