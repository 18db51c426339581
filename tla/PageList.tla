------------------------------ MODULE PageList ------------------------------
(***************************************************************************)
(* What a client of the page operations may rely on: a document is a list  *)
(* of pages, each with its content and the attributes that hold for it. An *)
(* edit that succeeds inserts, removes or selects exactly what was asked;  *)
(* whatever else happens inside, and whatever fails, the list stays.       *)
(***************************************************************************)
EXTENDS Naturals, Sequences

CONSTANT Pages   \* page values

VARIABLES
    list,
    asked,    \* the edit that is due, if one is
    outcome   \* of the call: running, ok or an error

vars == <<list, outcome>>
None == [kind |-> "none"]

Insert(at, page) == list' = SubSeq(list, 1, at) \o <<page>> \o SubSeq(list, at + 1, Len(list))
Remove(at) == list' = SubSeq(list, 1, at - 1) \o SubSeq(list, at + 1, Len(list))
Select(chosen) == list' = chosen

Init == list \in Seq(Pages) /\ outcome = "ok"

Begin == outcome' = "running" /\ UNCHANGED list
Edit ==
    /\ outcome' = "ok"
    /\ CASE asked.kind = "insert" -> \E at \in asked.places : Insert(at, asked.page)
         [] asked.kind = "remove" -> Remove(asked.at)
         [] asked.kind = "select" -> Select(asked.chosen)
         [] OTHER -> UNCHANGED list
Fail == outcome' \notin {"ok", "running", "numbers"} /\ UNCHANGED list
Exhausted ==
    /\ outcome' = "numbers"
    /\ Len(list') = Len(list)
    /\ \A i \in DOMAIN list : list'[i].data = list[i].data
Change == asked.kind = "change" /\ list' \in Seq(Pages) /\ UNCHANGED outcome

Next == Begin \/ Edit \/ Fail \/ Exhausted \/ Change
Spec == Init /\ [][Next]_vars
=============================================================================
