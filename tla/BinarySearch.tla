---------------------------- MODULE BinarySearch ----------------------------
(***************************************************************************)
(* The search that name and number trees use in a node's items and kids    *)
(* (crates/flpdf/src/nntree.rs, binary_search).                            *)
(***************************************************************************)
EXTENDS Integers

-----------------------------------------------------------------------------
(* The power of two to start from: doubled while it is below count, which  *)
(* takes at most count turns.                                              *)
Doublings(count) ==
    LET d[n \in 0 .. count] ==
            IF n = 0 THEN 1
            ELSE LET p == d[n - 1]
                 IN  IF p < count THEN 2 * p ELSE p
    IN  d
max_index(count) == Doublings(count)[count]

(* The locals of the loop; found_index is -1 while there is none.          *)
Start(size) ==
    [index |-> size \div 2, step |-> size \div 2, checks |-> size, found_index |-> -1, found |-> FALSE]

(* One turn of the loop over the statuses cmp[0 .. count - 1] of a key     *)
(* against the entries ("less", "equal", "greater", or "error", which ends *)
(* it with -2). Past the end everything is greater than the key. Once it   *)
(* is found only found_index counts.                                       *)
Probe(cmp, count, s) ==
    LET status == IF s.index < count THEN cmp[s.index] ELSE "less"
        step == IF s.step \div 2 = 0 THEN 1 ELSE s.step \div 2
    IN  IF s.found \/ s.checks = 0 THEN s
        ELSE [index |-> IF status # "less" THEN s.index + step
                        ELSE IF step > s.index THEN 0 ELSE s.index - step,
              step |-> step,
              checks |-> s.checks \div 2,
              found_index |-> IF status = "error" THEN -2
                              ELSE IF status # "less" THEN s.index ELSE s.found_index,
              found |-> status \in {"equal", "error"}]

(* The loop is over after as many turns as there were checks at its start. *)
Turns(cmp, count, size) ==
    LET t[n \in 0 .. size] == IF n = 0 THEN Start(size) ELSE Probe(cmp, count, t[n - 1])
    IN  t
Result(s, previous) == IF s.found \/ previous THEN s.found_index ELSE -1

(* Faulty variant: the size is not rounded up to a power of two.           *)
search_unrounded(cmp, count, previous) == Result(Turns(cmp, count, count)[count], previous)

binary_search(cmp, count, previous) ==
    LET size == max_index(count)
    IN  Result(Turns(cmp, count, size)[size], previous)

-----------------------------------------------------------------------------
(* The statuses of a key against an ordered array: it is above the first   *)
(* "below" entries and may be equal to the one after them.                 *)
Statuses(count, below, equal) ==
    [i \in 0 .. count - 1 |->
        IF i < below THEN "greater" ELSE IF i = below /\ equal THEN "equal" ELSE "less"]

(* What a search of an array of so many entries returns: the entry that is *)
(* equal, else, when asked for it, the last entry below the key.           *)
SearchSound(count) ==
    \A below \in 0 .. count, equal, or_below \in BOOLEAN :
        (equal => below < count) =>
            binary_search(Statuses(count, below, equal), count, or_below) =
                IF equal THEN below ELSE IF or_below THEN below - 1 ELSE -1
=============================================================================
