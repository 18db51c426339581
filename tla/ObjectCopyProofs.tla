-------------------------- MODULE ObjectCopyProofs --------------------------
(***************************************************************************)
(* Proofs about ObjectCopy, for every source graph, every edit of it       *)
(* between two calls and every number of objects.                          *)
(***************************************************************************)
EXTENDS ObjectCopy, FiniteSetTheorems, TLAPS

Phases == {"reserve", "replace", "returned", "failed"}
CallFields == [root : Nodes, route : Routes, phase : Phases, index : Nat, result : Nat]
FrameSet == [node : Nodes, todo : SUBSET Nodes]

(* The map from source to target objects is one to one and onto.           *)
Maps ==
    /\ \E last \in Nat : DOMAIN target = 1 .. last
    /\ \A n \in DOMAIN object_map : object_map[n] \in DOMAIN target
    /\ OneCopyEach

(* The call in progress. A node is marked only while it is on a frame.     *)
WorkOK ==
    /\ call \in CallFields
    /\ call.phase = "replace" => call.index >= 1
    /\ DOMAIN object_map \subseteq Nodes
    /\ to_copy \in Seq(Nodes)
    /\ \A i \in DOMAIN to_copy : to_copy[i] \in DOMAIN object_map
    /\ frames \in Seq(FrameSet)
    /\ source \in [Nodes -> Object]
    /\ call.phase = "reserve" =>
          /\ Len(frames) >= 1
          /\ \A n \in visiting : \E i \in 2 .. Len(frames) : frames[i].node = n
    /\ call.phase \in {"replace", "returned"} => visiting = {}
    /\ call.phase = "returned" => to_copy = <<>>

(* An object that the call in progress, or the next one, will still fill.  *)
Pending(n) ==
    \E i \in DOMAIN to_copy : to_copy[i] = n /\ (call.phase = "replace" => call.index <= i)

Settled ==
    \A n \in DOMAIN object_map :
        HasValue(target[object_map[n]]) \/ object_map[n] \in blank \/ Pending(n)

(* The client's own page is going to have a value.                         *)
Untouched == visiting = {} /\ Len(frames) = 1 /\ frames[1].todo = {call.root}
Provided(n) ==
    n \in DOMAIN object_map /\ (target[object_map[n]].kind # "null" \/ Pending(n))
RootInHand ==
    source[call.root].kind = "page" =>
        /\ call.phase = "reserve" => Untouched \/ Provided(call.root)
        /\ call.phase = "replace" => Provided(call.root)

FilledAlike ==
    call.phase = "replace" =>
        \A i \in DOMAIN to_copy : i < call.index => RefersAlike(to_copy[i])

CopyInv == Maps /\ WorkOK /\ Settled /\ RootInHand /\ FilledAlike

-----------------------------------------------------------------------------
(* Numbers and frames.                                                     *)

LEMMA LastNumber == ASSUME NEW last \in Nat, DOMAIN target = 1 .. last PROVE Last = last
BY FS_Interval DEF Last

LEMMA NewTarget ==
    ASSUME Maps, NEW v
    PROVE  /\ Last + 1 \notin DOMAIN target
           /\ DOMAIN Put(target, Last + 1, v) = DOMAIN target \cup {Last + 1}
           /\ \E last \in Nat : DOMAIN Put(target, Last + 1, v) = 1 .. last
           /\ Put(target, Last + 1, v)[Last + 1] = v
           /\ \A m \in DOMAIN target : Put(target, Last + 1, v)[m] = target[m]
<1>1. PICK last \in Nat : DOMAIN target = 1 .. last
  BY DEF Maps
<1>2. Last = last
  BY <1>1, LastNumber
<1>3. Last + 1 \notin DOMAIN target
  BY <1>1, <1>2
<1>4. DOMAIN Put(target, Last + 1, v) = DOMAIN target \cup {Last + 1}
  BY DEF Put
<1>5. last + 1 \in Nat /\ DOMAIN target \cup {Last + 1} = 1 .. last + 1
  BY <1>1, <1>2
<1>6. Put(target, Last + 1, v)[Last + 1] = v
  BY <1>3 DEF Put
<1>7. \A m \in DOMAIN target : Put(target, Last + 1, v)[m] = target[m]
  BY <1>3 DEF Put
<1> QED BY <1>3, <1>4, <1>5, <1>6, <1>7

LEMMA Shorter ==
    ASSUME WorkOK, call.phase = "reserve", NEW k
    PROVE  /\ Without(k) \in Seq(FrameSet)
           /\ Len(Without(k)) = Len(frames)
           /\ \A i \in 1 .. Len(frames) : Without(k)[i].node = frames[i].node
<1>0. frames \in Seq(FrameSet) /\ Len(frames) >= 1
  BY DEF WorkOK
<1>1. Len(frames) \in Nat /\ \A i \in 1 .. Len(frames) : frames[i] \in FrameSet
  BY <1>0
<1>2. frames[Len(frames)] \in FrameSet
  BY <1>0, <1>1
<1> DEFINE top == [frames[Len(frames)] EXCEPT !.todo = @ \ {k}]
<1>3. top \in FrameSet /\ top.node = frames[Len(frames)].node
  BY <1>2 DEF FrameSet
<1>4. Without(k) = [frames EXCEPT ![Len(frames)] = top]
  BY DEF Without
<1> HIDE DEF top
<1> QED BY <1>0, <1>1, <1>3, <1>4

LEMMA Deeper ==
    ASSUME WorkOK, call.phase = "reserve", NEW k \in Nodes, NEW todo \in SUBSET Nodes
    PROVE  LET g == Append(Without(k), Frame(k, todo)) IN
           /\ g \in Seq(FrameSet)
           /\ Len(g) = Len(frames) + 1
           /\ \A i \in 1 .. Len(frames) : g[i].node = frames[i].node
           /\ g[Len(frames) + 1].node = k
<1>1. Frame(k, todo) \in FrameSet /\ Frame(k, todo).node = k
  BY DEF Frame, FrameSet
<1>2. Without(k) \in Seq(FrameSet) /\ Len(Without(k)) = Len(frames) /\ Len(frames) \in Nat
  BY Shorter DEF WorkOK
<1> QED BY <1>1, <1>2, Shorter

LEMMA ChildrenAreNodes == ASSUME WorkOK, NEW k \in Nodes PROVE Children(k) \in SUBSET Nodes
BY DEF WorkOK, Children, Visible, Object

LEMMA FailedCall == Ended("failed", 0) \in CallFields /\ Ended("failed", 0).phase = "failed"
BY SourcesAssumption DEF Ended, Call, CallFields, Phases, Routes

-----------------------------------------------------------------------------
(* One step at a time.                                                     *)

LEMMA InitStep == Init => CopyInv
<1> SUFFICES ASSUME Init PROVE CopyInv
  OBVIOUS
<1>1. Maps
  <2>1. DOMAIN target = 1 .. 0 /\ DOMAIN object_map = {}
    BY DEF Init
  <2> QED BY <2>1 DEF Maps, OneCopyEach
<1>2. WorkOK
  BY SourcesAssumption, FailedCall DEF Init, WorkOK
<1> QED BY <1>1, <1>2, FailedCall DEF Init, CopyInv, Settled, RootInHand, FilledAlike

(* A call that fails leaves all it was to fill.                            *)
LEMMA FailStep ==
    ASSUME CopyInv, Fail, UNCHANGED <<source, target, kept, blank>>, frames' \in Seq(FrameSet)
    PROVE  CopyInv'
<1>1. Maps'
  BY DEF CopyInv, Maps, OneCopyEach, kept
<1>2. WorkOK'
  BY FailedCall DEF CopyInv, WorkOK, Fail, kept
<1>3. Settled'
  BY FailedCall DEF CopyInv, Settled, Pending, Fail, kept, WorkOK
<1> QED BY <1>1, <1>2, <1>3, FailedCall DEF CopyInv, RootInHand, FilledAlike, Fail

LEMMA CallStep ==
    ASSUME CopyInv, NEW n \in Nodes, NEW route \in Routes, copy_foreign_object(n, route)
    PROVE  CopyInv'
<1>1. CASE Poisoned
  <2>1. Fail /\ UNCHANGED <<source, target, kept, blank, frames>>
    BY <1>1 DEF copy_foreign_object
  <2> QED BY <2>1, FailStep DEF CopyInv, WorkOK
<1>2. CASE ~Poisoned
  <2>1. call' = Call(n, route, "reserve", 0, 0) /\ frames' = <<Frame(n, {n})>> /\ visiting = {}
    BY <1>2 DEF copy_foreign_object, Poisoned
  <2>2. UNCHANGED <<source, target, kept, blank>>
    BY DEF copy_foreign_object
  <2>3. call' \in CallFields /\ call'.phase = "reserve" /\ call'.root = n
    BY <2>1 DEF Call, CallFields, Phases
  <2>4. frames' \in Seq(FrameSet) /\ Len(frames') = 1 /\ frames'[1].todo = {n}
    BY <2>1 DEF Frame, FrameSet
  <2>5. Maps'
    BY <2>2 DEF CopyInv, Maps, OneCopyEach, kept
  <2>6. WorkOK'
    BY <2>1, <2>2, <2>3, <2>4 DEF CopyInv, WorkOK, kept
  <2>7. Settled'
    BY <2>2, <2>3 DEF CopyInv, Settled, Pending, kept, copy_foreign_object, Idle
  <2> QED BY <2>1, <2>2, <2>3, <2>4, <2>5, <2>6, <2>7 DEF CopyInv, RootInHand, Untouched, FilledAlike, kept
<1> QED BY <1>1, <1>2

(* Steps of the traversal that only move the frames.                       *)
LEMMA FramesStep ==
    ASSUME CopyInv, call.phase = "reserve", UNCHANGED <<source, target, kept, call, blank>>,
           frames' \in Seq(FrameSet), Len(frames') >= Len(frames),
           \A i \in 1 .. Len(frames) : frames'[i].node = frames[i].node,
           RootInHand'
    PROVE  CopyInv'
<1>1. Maps'
  BY DEF CopyInv, Maps, OneCopyEach, kept
<1>2. WorkOK'
  <2>1. Len(frames) \in Nat /\ Len(frames') \in Nat /\ Len(frames) >= 1
    BY DEF CopyInv, WorkOK
  <2>2. \A n \in visiting : \E i \in 2 .. Len(frames') : frames'[i].node = n
    <3> SUFFICES ASSUME NEW n \in visiting PROVE \E i \in 2 .. Len(frames') : frames'[i].node = n
      OBVIOUS
    <3>1. PICK i \in 2 .. Len(frames) : frames[i].node = n
      BY DEF CopyInv, WorkOK
    <3> QED BY <3>1, <2>1
  <2>3. visiting' = visiting /\ call' = call /\ object_map' = object_map /\ to_copy' = to_copy /\ source' = source
    BY DEF kept
  <2> QED BY <2>1, <2>2, <2>3 DEF CopyInv, WorkOK
<1>3. Settled'
  BY DEF CopyInv, Settled, Pending, kept
<1>4. FilledAlike'
  BY DEF FilledAlike
<1> QED BY <1>1, <1>2, <1>3, <1>4 DEF CopyInv

LEMMA TodoNodes ==
    ASSUME CopyInv, call.phase = "reserve", NEW k \in frames[Depth].todo
    PROVE  k \in Nodes
<1>1. frames \in Seq(FrameSet) /\ Len(frames) >= 1
  BY DEF CopyInv, WorkOK
<1>2. frames[Depth] \in FrameSet
  BY <1>1 DEF Depth
<1> QED BY <1>2 DEF FrameSet

LEMMA SkipStep ==
    ASSUME CopyInv, call.phase = "reserve", NEW k \in frames[Depth].todo, Skip(k)
    PROVE  CopyInv'
<1>1. UNCHANGED <<source, target, kept, call, blank>>
  BY DEF Skip
<1>2. RootInHand'
  <2> SUFFICES ASSUME source[call.root].kind = "page" PROVE Provided(call.root)
    BY <1>1 DEF RootInHand, Provided, Pending, kept
  <2>1. CASE Untouched
    <3>1. k = call.root /\ Top
      BY <2>1 DEF Untouched, Depth, Top
    <3>2. ~Unreserved(k)
      BY <2>1, <3>1 DEF Unreserved, Untouched
    <3> QED BY <3>1, <3>2 DEF Skip, Mapped, Provided
  <2> QED BY <2>1 DEF CopyInv, RootInHand
<1>3. WorkOK
  BY DEF CopyInv
<1>4. /\ frames' \in Seq(FrameSet) /\ Len(frames') = Len(frames) /\ Len(frames) \in Nat
      /\ \A i \in 1 .. Len(frames) : frames'[i].node = frames[i].node
  BY <1>3, Shorter DEF Skip, WorkOK
<1> QED BY <1>1, <1>2, <1>4, FramesStep

LEMMA DirectStep ==
    ASSUME CopyInv, call.phase = "reserve", NEW k \in frames[Depth].todo, ReserveDirect(k)
    PROVE  CopyInv'
<1>1. UNCHANGED <<source, target, kept, call, blank>>
  BY DEF ReserveDirect
<1>2. RootInHand'
  <2> SUFFICES ASSUME source[call.root].kind = "page" PROVE Provided(call.root)
    BY <1>1 DEF RootInHand, Provided, Pending, kept
  <2>1. ~Untouched
    BY DEF Untouched, Depth, ReserveDirect
  <2> QED BY <2>1 DEF CopyInv, RootInHand
<1>3. WorkOK /\ k \in Nodes
  BY TodoNodes DEF CopyInv
<1>4. Children(k) \in SUBSET Nodes
  BY <1>3, ChildrenAreNodes
<1>5. /\ frames' \in Seq(FrameSet) /\ Len(frames') = Len(frames) + 1 /\ Len(frames) \in Nat
      /\ \A i \in 1 .. Len(frames) : frames'[i].node = frames[i].node
  BY <1>3, <1>4, Deeper DEF ReserveDirect, WorkOK
<1> QED BY <1>1, <1>2, <1>5, FramesStep

(* What a reservation does to the map and to the target.                   *)
LEMMA Reserves ==
    ASSUME CopyInv, call.phase = "reserve", NEW k \in frames[Depth].todo, Reserve(k)
    PROVE  /\ Maps'
           /\ DOMAIN object_map' = DOMAIN object_map \cup {k}
           /\ \A n \in DOMAIN object_map : object_map'[n] = object_map[n] /\ target'[object_map[n]] = target[object_map[n]]
           /\ NestedPage(k) => object_map'[k] = Last + 1
           /\ k \in DOMAIN object_map => target[object_map[k]].kind = "null"
<1>1. Maps /\ \A n \in DOMAIN object_map : object_map[n] \in DOMAIN target
  BY DEF CopyInv, Maps
<1>2. CASE Reserved(k)
  <2>1. target' = target /\ object_map' = object_map /\ k \in DOMAIN object_map
    BY <1>2 DEF Reserve, Reserved
  <2>2. Top /\ target[object_map[k]].kind = "null"
    BY <2>1 DEF Reserve, Needs, Mapped
  <2>3. Maps'
    BY <1>1, <2>1 DEF Maps, OneCopyEach
  <2> QED BY <2>1, <2>2, <2>3 DEF NestedPage
<1>3. CASE ~Reserved(k)
  <2> DEFINE new == Last + 1
  <2>1. target' = Put(target, new, Reservation(k)) /\ object_map' = Put(object_map, k, new) /\ k \notin DOMAIN object_map
    BY <1>3 DEF Reserve, Reserved
  <2>2. /\ new \notin DOMAIN target
        /\ DOMAIN target' = DOMAIN target \cup {new}
        /\ \E last \in Nat : DOMAIN target' = 1 .. last
        /\ \A m \in DOMAIN target : target'[m] = target[m]
    BY <1>1, <2>1, NewTarget
  <2> HIDE DEF new
  <2>3. /\ DOMAIN object_map' = DOMAIN object_map \cup {k}
        /\ object_map'[k] = new
        /\ \A n \in DOMAIN object_map : object_map'[n] = object_map[n]
    BY <2>1 DEF Put
  <2>4. \A n \in DOMAIN object_map' : object_map'[n] \in DOMAIN target'
    BY <1>1, <2>2, <2>3
  <2>5. OneCopyEach'
    <3>1. OneCopyEach
      BY <1>1 DEF Maps
    <3>2. \A n, j \in DOMAIN object_map' : object_map'[n] = object_map'[j] => n = j
      BY <1>1, <3>1, <2>2, <2>3 DEF OneCopyEach
    <3>3. \A m \in DOMAIN target' : \E n \in DOMAIN object_map' : object_map'[n] = m
      BY <3>1, <2>2, <2>3 DEF OneCopyEach
    <3> QED BY <3>2, <3>3 DEF OneCopyEach
  <2>6. Maps'
    BY <2>2, <2>4, <2>5 DEF Maps
  <2> QED BY <1>1, <2>1, <2>2, <2>3, <2>6 DEF new
<1> QED BY <1>2, <1>3

LEMMA ReserveStep ==
    ASSUME CopyInv, call.phase = "reserve", NEW k \in frames[Depth].todo, Reserve(k)
    PROVE  CopyInv'
<1>1. source' = source /\ call' = call
  BY DEF Reserve
<1>2. WorkOK /\ k \in Nodes /\ Children(k) \in SUBSET Nodes
  BY TodoNodes, ChildrenAreNodes DEF CopyInv
<1>3. to_copy \in Seq(Nodes) /\ frames \in Seq(FrameSet) /\ Len(frames) \in Nat /\ Len(frames) >= 1 /\ Len(to_copy) \in Nat
  BY <1>2 DEF WorkOK
<1>a. \/ NestedPage(k) /\ to_copy' = to_copy /\ frames' = Without(k)
      \/ to_copy' = Append(to_copy, k) /\ frames' = Append(Without(k), Frame(k, Children(k)))
  BY DEF Reserve
<1>b. /\ to_copy' \in Seq(Nodes)
      /\ DOMAIN to_copy \subseteq DOMAIN to_copy'
      /\ \A i \in DOMAIN to_copy : to_copy'[i] = to_copy[i]
      /\ \A i \in DOMAIN to_copy' \ DOMAIN to_copy : to_copy'[i] = k
  <2>1. CASE to_copy' = to_copy
    BY <1>3, <2>1
  <2>2. CASE to_copy' = Append(to_copy, k)
    <3>1. to_copy' \in Seq(Nodes) /\ Len(to_copy') = Len(to_copy) + 1 /\ to_copy'[Len(to_copy) + 1] = k
      BY <1>2, <1>3, <2>2
    <3>2. \A i \in 1 .. Len(to_copy) : to_copy'[i] = to_copy[i]
      BY <1>2, <1>3, <2>2
    <3>3. DOMAIN to_copy = 1 .. Len(to_copy) /\ DOMAIN to_copy' = 1 .. Len(to_copy) + 1
      BY <1>3, <3>1
    <3> QED BY <1>3, <3>1, <3>2, <3>3
  <2> QED BY <1>a, <2>1, <2>2
<1>4. \A n : Pending(n) => Pending(n)'
  <2> SUFFICES ASSUME NEW n, Pending(n) PROVE Pending(n)'
    OBVIOUS
  <2>1. PICK i \in DOMAIN to_copy : to_copy[i] = n
    BY DEF Pending
  <2>2. i \in DOMAIN to_copy' /\ to_copy'[i] = n
    BY <1>b, <2>1
  <2> QED BY <1>1, <2>2 DEF Pending
<1>5. ~NestedPage(k) => Pending(k)'
  <2> SUFFICES ASSUME ~NestedPage(k) PROVE Pending(k)'
    OBVIOUS
  <2>1. to_copy' = Append(to_copy, k)
    BY DEF Reserve
  <2>2. Len(to_copy) + 1 \in DOMAIN to_copy' /\ to_copy'[Len(to_copy) + 1] = k
    BY <1>2, <1>3, <2>1
  <2> QED BY <1>1, <2>2 DEF Pending
<1>6. WorkOK'
  <2>1. frames' \in Seq(FrameSet) /\ Len(frames') >= Len(frames) /\ \A i \in 1 .. Len(frames) : frames'[i].node = frames[i].node
    <3>1. CASE frames' = Without(k)
      BY <1>2, <1>3, <3>1, Shorter
    <3>2. CASE frames' = Append(Without(k), Frame(k, Children(k)))
      BY <1>2, <1>3, <3>2, Deeper
    <3> QED BY <1>a, <3>1, <3>2
  <2>2. \A i \in DOMAIN to_copy' : to_copy'[i] \in DOMAIN object_map'
    <3>1. \A i \in DOMAIN to_copy : to_copy[i] \in DOMAIN object_map
      BY <1>2 DEF WorkOK
    <3>2. DOMAIN object_map' = DOMAIN object_map \cup {k}
      BY Reserves
    <3> QED BY <1>b, <3>1, <3>2
  <2>3. \A n \in visiting' : \E i \in 2 .. Len(frames') : frames'[i].node = n
    <3> SUFFICES ASSUME NEW n \in visiting' PROVE \E i \in 2 .. Len(frames') : frames'[i].node = n
      OBVIOUS
    <3>1. CASE n \in visiting
      <4>1. PICK i \in 2 .. Len(frames) : frames[i].node = n
        BY <1>2, <3>1 DEF WorkOK
      <4>2. Len(frames') \in Nat
        BY <2>1
      <4> QED BY <1>3, <2>1, <4>1, <4>2
    <3>2. CASE n \notin visiting
      <4>1. n = k /\ ~NestedPage(k) /\ frames' = Append(Without(k), Frame(k, Children(k)))
        BY <3>2 DEF Reserve
      <4>2. Len(frames') = Len(frames) + 1 /\ frames'[Len(frames) + 1].node = k
        BY <1>2, <4>1, Deeper
      <4> QED BY <1>3, <4>1, <4>2
    <3> QED BY <3>1, <3>2
  <2>4. DOMAIN object_map' \subseteq Nodes
    BY <1>2, Reserves DEF WorkOK
  <2> QED BY <1>1, <1>2, <1>3, <1>b, <2>1, <2>2, <2>3, <2>4 DEF WorkOK
<1>7. Settled'
  <2> SUFFICES ASSUME NEW n \in DOMAIN object_map'
               PROVE  HasValue(target'[object_map'[n]]) \/ object_map'[n] \in blank' \/ Pending(n)'
    BY DEF Settled, HasValue
  <2>1. blank \subseteq blank' /\ (NestedPage(k) => Last + 1 \in blank')
    BY DEF Reserve
  <2>2. CASE n = k
    BY <1>5, <2>1, <2>2, Reserves
  <2>3. CASE n # k
    <3>1. n \in DOMAIN object_map
      BY <2>3, Reserves
    <3>2. HasValue(target[object_map[n]]) \/ object_map[n] \in blank \/ Pending(n)
      BY <3>1 DEF CopyInv, Settled
    <3> QED BY <3>1, <3>2, <2>1, <1>4, Reserves
  <2> QED BY <2>2, <2>3
<1>8. RootInHand'
  <2> SUFFICES ASSUME source[call.root].kind = "page" PROVE Provided(call.root)'
    BY <1>1 DEF RootInHand
  <2>1. CASE Untouched
    <3>1. k = call.root /\ ~NestedPage(k)
      BY <2>1 DEF Untouched, Depth, Top, NestedPage
    <3> QED BY <1>1, <1>5, <3>1, Reserves DEF Provided
  <2>2. CASE Provided(call.root)
    BY <1>1, <1>4, <2>2, Reserves DEF Provided
  <2> QED BY <2>1, <2>2 DEF CopyInv, RootInHand
<1> QED BY <1>1, <1>6, <1>7, <1>8, Reserves DEF CopyInv, FilledAlike

LEMMA LeaveStep ==
    ASSUME CopyInv, call.phase = "reserve", Leave
    PROVE  CopyInv'
<1>1. UNCHANGED <<source, target, object_map, to_copy, blank>> /\ frames' = SubSeq(frames, 1, Depth - 1)
  BY DEF Leave
<1>2. WorkOK
  BY DEF CopyInv
<1>3. frames \in Seq(FrameSet) /\ Len(frames) \in Nat /\ Len(frames) >= 1 /\ Depth = Len(frames)
  BY <1>2 DEF WorkOK, Depth
<1>4. /\ frames' \in Seq(FrameSet) /\ Len(frames') = Len(frames) - 1
      /\ \A i \in 1 .. Len(frames) - 1 : frames'[i] = frames[i]
  BY <1>1, <1>3
<1>5. source[call.root].kind = "page" => Provided(call.root)
  BY DEF CopyInv, RootInHand, Untouched, Leave, Depth
<1>6. \A n \in visiting : \E i \in 2 .. Len(frames) : frames[i].node = n
  BY <1>2 DEF WorkOK
<1>7. Maps'
  BY <1>1 DEF CopyInv, Maps, OneCopyEach
<1>8. CASE Depth > 1
  <2>1. visiting' = visiting \ {frames[Depth].node} /\ call' = call
    BY <1>8 DEF Leave
  <2>2. \A n \in visiting' : \E i \in 2 .. Len(frames') : frames'[i].node = n
    <3> SUFFICES ASSUME NEW n \in visiting' PROVE \E i \in 2 .. Len(frames') : frames'[i].node = n
      OBVIOUS
    <3>1. PICK i \in 2 .. Len(frames) : frames[i].node = n
      BY <1>6, <2>1
    <3>2. i # Len(frames)
      BY <2>1, <3>1, <1>3
    <3> QED BY <1>3, <1>4, <3>1, <3>2
  <2>3. WorkOK'
    BY <1>1, <1>2, <1>3, <1>4, <1>8, <2>1, <2>2 DEF WorkOK
  <2>4. Settled'
    BY <1>1, <2>1 DEF CopyInv, Settled, Pending
  <2>5. RootInHand'
    BY <1>1, <1>5, <2>1 DEF RootInHand, Provided, Pending
  <2> QED BY <1>7, <2>1, <2>3, <2>4, <2>5 DEF CopyInv, FilledAlike
<1>9. CASE ~(Depth > 1)
  <2>1. call' = [call EXCEPT !.phase = "replace", !.index = 1] /\ visiting' = visiting
    BY <1>9 DEF Leave
  <2>2. visiting = {}
    BY <1>3, <1>6, <1>9
  <2>3. call \in CallFields
    BY <1>2 DEF WorkOK
  <2>4. call' \in CallFields /\ call'.phase = "replace" /\ call'.index = 1 /\ call'.root = call.root
    BY <2>1, <2>3 DEF CallFields, Phases
  <2>5. WorkOK'
    BY <1>1, <1>2, <1>4, <2>1, <2>2, <2>4 DEF WorkOK
  <2>6. \A n : Pending(n) => Pending(n)'
    BY <1>1, <1>2, <2>4 DEF Pending, WorkOK
  <2>7. Settled'
    BY <1>1, <2>6 DEF CopyInv, Settled
  <2>8. RootInHand'
    BY <1>1, <1>5, <2>4, <2>6 DEF RootInHand, Provided
  <2>9. FilledAlike'
    BY <1>1, <1>2, <2>4 DEF FilledAlike, WorkOK
  <2> QED BY <1>7, <2>5, <2>7, <2>8, <2>9 DEF CopyInv
<1> QED BY <1>8, <1>9

-----------------------------------------------------------------------------
(* Filling the reservations.                                               *)

(* A filled object refers to the copies of what its source refers to.      *)
LEMMA FillRefers ==
    ASSUME NEW n, NEW old, \A k \in DOMAIN object_map : object_map[k] # 0,
           NEW s \in DOMAIN source[n].slots
    PROVE  LET k == source[n].slots[s]
               copy == Filled(n, old).slots
           IN /\ k \in DOMAIN object_map /\ s \in Visible(n) => s \in DOMAIN copy /\ copy[s] = object_map[k]
              /\ k \notin DOMAIN object_map /\ s \in Items => s \in DOMAIN copy /\ copy[s] = 0
              /\ k \notin DOMAIN object_map /\ s \in Keys \cap Visible(n) => s \notin DOMAIN copy
<1> DEFINE k == source[n].slots[s]
           copy == Filled(n, old).slots
<1>1. s \in Items => s \in Visible(n) /\ s \notin Keys
  BY SourcesAssumption DEF Visible
<1>2. DOMAIN Copied(n) = {t \in Visible(n) : t \in Keys => Image(source[n].slots[t]) # 0}
  BY DEF Copied
<1>3. \A t \in DOMAIN Copied(n) : Copied(n)[t] = Image(source[n].slots[t])
  BY DEF Copied
<1>4. s \in Visible(n) => (s \in DOMAIN copy <=> s \in DOMAIN Copied(n))
                          /\ (s \in DOMAIN copy => copy[s] = Copied(n)[s])
  <2>1. CASE source[n].kind = "stream"
    <3>1. copy = Over(n, Visible(n), old.slots)
      BY <2>1 DEF Filled
    <3>2. DOMAIN copy = (Visible(n) \cap DOMAIN Copied(n)) \cup (DOMAIN (old.slots) \ Visible(n))
      BY <3>1 DEF Over
    <3>3. \A t \in Visible(n) \cap DOMAIN Copied(n) : copy[t] = Copied(n)[t]
      BY <3>1 DEF Over
    <3> HIDE DEF copy
    <3> QED BY <1>2, <3>2, <3>3
  <2>2. CASE source[n].kind # "stream"
    <3>1. copy = Copied(n)
      BY <2>2 DEF Filled
    <3> QED BY <3>1
  <2> QED BY <2>1, <2>2
<1>5. Image(k) = IF k \in DOMAIN object_map THEN object_map[k] ELSE 0
  BY DEF Image
<1> HIDE DEF copy
<1>6. k \in DOMAIN object_map /\ s \in Visible(n) => s \in DOMAIN copy /\ copy[s] = object_map[k]
  BY <1>2, <1>3, <1>4, <1>5
<1>7. k \notin DOMAIN object_map /\ s \in Items => s \in DOMAIN copy /\ copy[s] = 0
  BY <1>1, <1>2, <1>3, <1>4, <1>5
<1>8. k \notin DOMAIN object_map /\ s \in Keys \cap Visible(n) => s \notin DOMAIN copy
  BY <1>2, <1>4, <1>5
<1> QED BY <1>6, <1>7, <1>8 DEF copy

LEMMA FillKind ==
    ASSUME NEW n, NEW old
    PROVE  Filled(n, old).kind = source[n].kind /\ (source[n].kind # "null" => HasValue(Filled(n, old)))
BY DEF Filled, HasValue

LEMMA CurrentMapped ==
    ASSUME CopyInv, call.phase = "replace", call.index <= Len(to_copy)
    PROVE  /\ Current \in DOMAIN object_map /\ object_map[Current] \in DOMAIN target
           /\ call.index \in DOMAIN to_copy /\ call.index \in Nat
           /\ \A k \in DOMAIN object_map : object_map[k] = object_map[Current] => k = Current
<1>1. call \in CallFields /\ call.index >= 1 /\ to_copy \in Seq(Nodes)
  BY DEF CopyInv, WorkOK
<1>2. call.index \in Nat
  BY <1>1 DEF CallFields
<1>3. call.index \in DOMAIN to_copy
  BY <1>1, <1>2
<1>4. Current \in DOMAIN object_map
  BY <1>3 DEF CopyInv, WorkOK, Current
<1> QED BY <1>2, <1>3, <1>4 DEF CopyInv, Maps, OneCopyEach

LEMMA ReplaceStep ==
    ASSUME CopyInv, call.phase = "replace", Replace
    PROVE  CopyInv'
<1> DEFINE n == Current
           m == object_map[Current]
<1>1. UNCHANGED <<source, object_map, visiting, to_copy, frames>>
  BY DEF Replace, kept
<1>2. /\ n \in DOMAIN object_map /\ m \in DOMAIN target
      /\ call.index \in DOMAIN to_copy /\ call.index \in Nat
      /\ \A k \in DOMAIN object_map : object_map[k] = m => k = n
  BY CurrentMapped DEF Replace
<1>3. /\ target' = [target EXCEPT ![m] = Filled(n, target[m])]
      /\ blank' = IF source[n].kind = "null" THEN blank \cup {m} ELSE blank \ {m}
      /\ call' = [call EXCEPT !.index = call.index + 1]
  BY DEF Replace
<1>4. n = to_copy[call.index]
  BY DEF Current
<1>5. WorkOK /\ call \in CallFields /\ to_copy \in Seq(Nodes)
  BY DEF CopyInv, WorkOK
<1>6. /\ call' \in CallFields /\ call'.phase = "replace" /\ call'.index = call.index + 1 /\ call'.root = call.root
  BY <1>2, <1>3, <1>5 DEF CallFields
<1>7. DOMAIN target' = DOMAIN target /\ target'[m] = Filled(n, target[m])
      /\ \A k \in DOMAIN object_map : k # n => target'[object_map[k]] = target[object_map[k]]
  <2>1. \A k \in DOMAIN object_map : object_map[k] \in DOMAIN target
    BY DEF CopyInv, Maps
  <2> HIDE DEF n, m
  <2> QED BY <1>2, <1>3, <2>1
<1>m. m = object_map[n]
  OBVIOUS
<1> HIDE DEF n, m
<1>v. target'[m].kind = source[n].kind /\ (source[n].kind # "null" => HasValue(target'[m]))
  BY <1>7, FillKind
<1>8. Maps'
  BY <1>1, <1>7 DEF CopyInv, Maps, OneCopyEach
<1>9. WorkOK'
  BY <1>1, <1>2, <1>5, <1>6 DEF WorkOK
<1>10. \A k : k # n /\ Pending(k) => Pending(k)'
  <2> SUFFICES ASSUME NEW k, k # n, Pending(k) PROVE Pending(k)'
    OBVIOUS
  <2>1. PICK i \in DOMAIN to_copy : to_copy[i] = k /\ call.index <= i
    BY DEF Pending
  <2>2. i # call.index /\ i \in Nat
    BY <1>4, <1>5, <2>1
  <2> QED BY <1>1, <1>2, <1>6, <2>1, <2>2 DEF Pending
<1>11. Settled'
  <2> SUFFICES ASSUME NEW k \in DOMAIN object_map
               PROVE  HasValue(target'[object_map[k]]) \/ object_map[k] \in blank' \/ Pending(k)'
    BY <1>1 DEF Settled, HasValue
  <2>1. CASE k = n
    BY <1>3, <1>m, <1>v, <2>1
  <2>2. CASE k # n
    <3>1. HasValue(target[object_map[k]]) \/ object_map[k] \in blank \/ Pending(k)
      BY DEF CopyInv, Settled
    <3> QED BY <1>2, <1>3, <1>7, <1>10, <2>2, <3>1
  <2> QED BY <2>1, <2>2
<1>12. RootInHand'
  <2> SUFFICES ASSUME source[call.root].kind = "page" PROVE Provided(call.root)'
    BY <1>1, <1>6 DEF RootInHand
  <2>1. Provided(call.root)
    BY DEF CopyInv, RootInHand
  <2>2. CASE call.root = n
    <3>1. target'[object_map[call.root]].kind = "page"
      BY <1>m, <1>v, <2>2
    <3> QED BY <1>1, <1>6, <2>1, <3>1 DEF Provided
  <2>3. CASE call.root # n
    BY <1>1, <1>6, <1>7, <1>10, <2>1, <2>3 DEF Provided
  <2> QED BY <2>2, <2>3
<1>13. FilledAlike'
  <2> SUFFICES ASSUME NEW i \in DOMAIN to_copy, i < call.index + 1 PROVE RefersAlike(to_copy[i])'
    BY <1>1, <1>6 DEF FilledAlike
  <2>1. CASE to_copy[i] = n
    <3>1. \A k \in DOMAIN object_map : object_map[k] # 0
      BY DEF CopyInv, Maps
    <3>2. target'[object_map[n]] = Filled(n, target[m])
      BY <1>7, <1>m
    <3> QED BY <1>1, <2>1, <3>1, <3>2, FillRefers DEF RefersAlike, Visible
  <2>2. CASE to_copy[i] # n
    <3>1. i \in Nat /\ i < call.index
      BY <1>2, <1>4, <1>5, <2>2
    <3>2. RefersAlike(to_copy[i]) /\ to_copy[i] \in DOMAIN object_map
      BY <1>5, <3>1 DEF CopyInv, FilledAlike, WorkOK
    <3>3. target'[object_map[to_copy[i]]] = target[object_map[to_copy[i]]]
      BY <1>7, <2>2, <3>2
    <3> QED BY <1>1, <3>2, <3>3 DEF RefersAlike, Visible
  <2> QED BY <2>1, <2>2
<1> QED BY <1>8, <1>9, <1>11, <1>12, <1>13 DEF CopyInv

LEMMA ReplaceFailsStep ==
    ASSUME CopyInv, call.phase = "replace", ReplaceFails
    PROVE  CopyInv'
<1> DEFINE m == object_map[Current]
<1>1. UNCHANGED <<source, object_map, visiting, to_copy, frames, blank>>
  BY DEF ReplaceFails, QueueKept
<1>2. call' \in CallFields /\ call'.phase = "failed"
  BY FailedCall DEF ReplaceFails, Fail
<1>3. /\ Current \in DOMAIN object_map /\ m \in DOMAIN target
      /\ call.index \in DOMAIN to_copy
      /\ \A k \in DOMAIN object_map : object_map[k] = m => k = Current
  BY CurrentMapped DEF ReplaceFails
<1>4. DOMAIN target' = DOMAIN target /\ \A x \in DOMAIN target : x # m => target'[x] = target[x]
  <2>1. CASE target' = target
    BY <2>1
  <2>2. CASE \E some \in SUBSET Visible(Current) : target' = [target EXCEPT ![m].slots = Over(Current, some, @)]
    BY <1>3, <2>2
  <2> QED BY <2>1, <2>2 DEF ReplaceFails
<1> HIDE DEF m
<1>5. Maps'
  BY <1>1, <1>4 DEF CopyInv, Maps, OneCopyEach
<1>6. WorkOK'
  BY <1>1, <1>2 DEF CopyInv, WorkOK
<1>7. Settled'
  <2> SUFFICES ASSUME NEW k \in DOMAIN object_map
               PROVE  HasValue(target'[object_map[k]]) \/ object_map[k] \in blank' \/ Pending(k)'
    BY <1>1 DEF Settled, HasValue
  <2>1. CASE k = Current
    BY <1>1, <1>2, <1>3, <2>1 DEF Pending, Current
  <2>2. CASE k # Current
    <3>1. HasValue(target[object_map[k]]) \/ object_map[k] \in blank \/ Pending(k)
      BY DEF CopyInv, Settled
    <3>2. target'[object_map[k]] = target[object_map[k]]
      BY <1>3, <1>4, <2>2 DEF CopyInv, Maps
    <3>3. Pending(k) => Pending(k)'
      BY <1>1, <1>2 DEF Pending
    <3> QED BY <1>1, <3>1, <3>2, <3>3
  <2> QED BY <2>1, <2>2
<1> QED BY <1>2, <1>5, <1>6, <1>7 DEF CopyInv, RootInHand, FilledAlike

LEMMA NothingPending ==
    ASSUME CopyInv, call.phase = "replace", call.index > Len(to_copy), NEW n
    PROVE  ~Pending(n)
<1>1. to_copy \in Seq(Nodes) /\ call.index \in Nat
  BY DEF CopyInv, WorkOK, CallFields
<1> QED BY <1>1 DEF Pending

LEMMA ImageNumber == ASSUME CopyInv, NEW n PROVE Image(n) \in Nat
<1>1. \A k \in DOMAIN object_map : object_map[k] \in Nat
  BY DEF CopyInv, Maps
<1> QED BY <1>1 DEF Image

LEMMA FinishStep ==
    ASSUME CopyInv, call.phase = "replace", Finish
    PROVE  CopyInv'
<1>1. UNCHANGED <<source, target, object_map, visiting, frames, blank>> /\ to_copy' = <<>>
  BY DEF Finish
<1>2. call' \in CallFields /\ call'.phase \in {"returned", "failed"}
  <2>1. CASE call' = Ended("failed", 0)
    BY <2>1, FailedCall
  <2>2. CASE call' = Ended("returned", Image(call.root))
    <3>1. Image(call.root) \in Nat
      BY ImageNumber
    <3> QED BY <2>2, <3>1, SourcesAssumption DEF Ended, Call, CallFields, Phases, Routes
  <2> QED BY <2>1, <2>2 DEF Finish, Fail
<1>3. Maps'
  BY <1>1 DEF CopyInv, Maps, OneCopyEach
<1>4. WorkOK'
  BY <1>1, <1>2 DEF CopyInv, WorkOK
<1>5. Settled'
  <2>1. \A n : ~Pending(n)
    BY NothingPending DEF Finish
  <2> QED BY <1>1, <2>1 DEF CopyInv, Settled
<1> QED BY <1>2, <1>3, <1>4, <1>5 DEF CopyInv, RootInHand, FilledAlike

LEMMA EditStep ==
    ASSUME CopyInv, EditSource
    PROVE  CopyInv'
<1>1. UNCHANGED <<target, kept, frames, call, blank>> /\ source' \in [Nodes -> Object] /\ Idle
  BY DEF EditSource
<1>2. call.phase \in {"returned", "failed"}
  BY <1>1 DEF Idle
<1>3. Maps'
  BY <1>1 DEF CopyInv, Maps, OneCopyEach, kept
<1>4. WorkOK'
  BY <1>1 DEF CopyInv, WorkOK, kept
<1>5. Settled'
  BY <1>1 DEF CopyInv, Settled, Pending, kept
<1> QED BY <1>1, <1>2, <1>3, <1>4, <1>5 DEF CopyInv, RootInHand, FilledAlike

LEMMA ClearStep ==
    ASSUME CopyInv, NEW m \in DOMAIN target, ClearTarget(m)
    PROVE  CopyInv'
<1>1. UNCHANGED <<source, kept, frames, call>> /\ blank' = blank \cup {m} /\ target' = [target EXCEPT ![m] = Null]
  BY DEF ClearTarget
<1>2. call.phase \in {"returned", "failed"}
  BY DEF ClearTarget, Idle
<1>3. Maps'
  BY <1>1 DEF CopyInv, Maps, OneCopyEach, kept
<1>4. WorkOK'
  BY <1>1 DEF CopyInv, WorkOK, kept
<1>5. Settled'
  <2> SUFFICES ASSUME NEW k \in DOMAIN object_map
               PROVE  HasValue(target'[object_map[k]]) \/ object_map[k] \in blank' \/ Pending(k)'
    BY <1>1 DEF Settled, HasValue, kept
  <2>1. HasValue(target[object_map[k]]) \/ object_map[k] \in blank \/ Pending(k)
    BY DEF CopyInv, Settled
  <2>2. object_map[k] # m => target'[object_map[k]] = target[object_map[k]]
    BY <1>1 DEF CopyInv, Maps
  <2>3. Pending(k) => Pending(k)'
    BY <1>1 DEF Pending, kept
  <2> QED BY <1>1, <2>1, <2>2, <2>3
<1> QED BY <1>1, <1>2, <1>3, <1>4, <1>5 DEF CopyInv, RootInHand, FilledAlike

-----------------------------------------------------------------------------
(* The theorems.                                                           *)

LEMMA ReserveObjectsStep == ASSUME CopyInv, reserve_objects PROVE CopyInv'
<1>1. call.phase = "reserve"
  BY DEF reserve_objects
<1>2. CASE Leave
  BY <1>1, <1>2, LeaveStep
<1>3. CASE Descend
  <2>1. PICK k \in frames[Depth].todo : Skip(k) \/ Reject(k) \/ OutOfNumbers(k) \/ Reserve(k) \/ ReserveDirect(k)
    BY <1>3 DEF Descend
  <2>2. CASE Reject(k) \/ OutOfNumbers(k)
    <3>1. Fail /\ UNCHANGED <<source, target, kept, blank>> /\ frames' = <<>>
      BY <2>2 DEF Reject, OutOfNumbers
    <3>2. frames' \in Seq(FrameSet)
      BY <3>1
    <3> QED BY <3>1, <3>2, FailStep
  <2> QED BY <1>1, <2>1, <2>2, SkipStep, ReserveStep, DirectStep
<1> QED BY <1>2, <1>3 DEF reserve_objects

LEMMA FillStep == ASSUME CopyInv, replace_foreign_indirect_objects PROVE CopyInv'
BY ReplaceStep, ReplaceFailsStep, FinishStep DEF replace_foreign_indirect_objects

LEMMA StutterStep == ASSUME CopyInv, UNCHANGED vars PROVE CopyInv'
<1>1. UNCHANGED <<source, target, object_map, visiting, to_copy, frames, call, blank>>
  BY DEF vars, kept
<1>2. Maps'
  BY <1>1 DEF CopyInv, Maps, OneCopyEach
<1>3. WorkOK'
  BY <1>1 DEF CopyInv, WorkOK
<1>4. Settled' /\ RootInHand'
  BY <1>1 DEF CopyInv, Settled, Pending, RootInHand, Untouched, Provided
<1>5. FilledAlike'
  BY <1>1 DEF CopyInv, FilledAlike, RefersAlike, Visible
<1> QED BY <1>2, <1>3, <1>4, <1>5 DEF CopyInv

LEMMA NextStep == CopyInv /\ [Next]_vars => CopyInv'
<1> SUFFICES ASSUME CopyInv, [Next]_vars PROVE CopyInv'
  OBVIOUS
<1>1. ASSUME NEW n \in Nodes, NEW route \in RouteOf(n), copy_foreign_object(n, route) PROVE CopyInv'
  <2>1. route \in Routes
    BY DEF RouteOf
  <2> QED BY <1>1, <2>1, CallStep
<1> QED BY <1>1, ReserveObjectsStep, FillStep, EditStep, ClearStep, StutterStep DEF Next

LEMMA Always == Spec => []CopyInv
BY InitStep, NextStep, PTL DEF Spec

(* A call that returns has left no reservation without its value, whatever *)
(* calls failed before it and whatever the client changed between calls,   *)
(* and every object of the source has at most one copy.                    *)
THEOREM ReservationsFilled == Spec => []NothingLeftReserved
<1>1. CopyInv => NothingLeftReserved
  <2> SUFFICES ASSUME CopyInv PROVE NothingLeftReserved
    OBVIOUS
  <2>1. OneCopyEach
    BY DEF CopyInv, Maps
  <2>2. ASSUME call.phase = "returned", NEW n \in DOMAIN object_map
        PROVE  HasValue(target[object_map[n]]) \/ object_map[n] \in blank
    <3>1. to_copy = <<>>
      BY <2>2 DEF CopyInv, WorkOK
    <3>2. ~Pending(n)
      BY <3>1 DEF Pending
    <3> QED BY <2>2, <3>2 DEF CopyInv, Settled
  <2> QED BY <2>1, <2>2 DEF NothingLeftReserved
<1> QED BY <1>1, Always, PTL

(* Only the end of the second phase returns from the call.                 *)
LEMMA OnlyFinishReturns ==
    ASSUME CopyInv, Next, call.phase = "replace", call'.phase = "returned"
    PROVE  Finish /\ call' = Ended("returned", Image(call.root))
<1>1. call \in CallFields
  BY DEF CopyInv, WorkOK
<1>2. replace_foreign_indirect_objects
  BY DEF Next, copy_foreign_object, Idle, reserve_objects, EditSource, ClearTarget
<1>3. ~Replace
  <2> SUFFICES ASSUME Replace PROVE FALSE
    OBVIOUS
  <2>1. call'.phase = call.phase
    BY <1>1 DEF Replace, CallFields
  <2> QED BY <2>1
<1>4. ~Fail
  BY FailedCall DEF Fail
<1> QED BY <1>2, <1>3, <1>4 DEF replace_foreign_indirect_objects, ReplaceFails, Finish

(* When a call returns, all it filled refers to the copies of what its     *)
(* source refers to, and a page that the client asked for has its value.   *)
THEOREM CopiesFaithful == Spec => CopyFaithful
<1>1. CopyInv /\ [Next]_vars =>
        [call'.phase = "returned" /\ call.phase = "replace" =>
            /\ \A n \in Queued : RefersAlike(n)
            /\ source[call.root].kind = "page" => target[call'.result].kind # "null"]_vars
  <2> SUFFICES ASSUME CopyInv, Next, call'.phase = "returned", call.phase = "replace"
               PROVE  /\ \A n \in Queued : RefersAlike(n)
                      /\ source[call.root].kind = "page" => target[call'.result].kind # "null"
    OBVIOUS
  <2>1. Finish /\ call' = Ended("returned", Image(call.root))
    BY OnlyFinishReturns
  <2>2. call.index > Len(to_copy) /\ call.index \in Nat /\ to_copy \in Seq(Nodes)
    BY <2>1 DEF CopyInv, WorkOK, CallFields, Finish
  <2>3. \A n \in Queued : RefersAlike(n)
    BY <2>2 DEF CopyInv, FilledAlike, Queued
  <2>4. ASSUME source[call.root].kind = "page" PROVE target[call'.result].kind # "null"
    <3>1. Provided(call.root) /\ ~Pending(call.root)
      BY <2>2, <2>4, NothingPending DEF CopyInv, RootInHand
    <3>2. call'.result = object_map[call.root]
      BY <2>1, <3>1 DEF Provided, Ended, Call, Image
    <3> QED BY <3>1, <3>2 DEF Provided
  <2> QED BY <2>3, <2>4
<1> QED BY <1>1, Always, PTL DEF Spec, CopyFaithful

(* What an earlier call copied keeps its number and is not filled again.   *)
THEOREM EarlierKept == Spec => EarlierCopiesKept
<1> DEFINE Kept == \A n \in DOMAIN object_map :
          /\ n \in DOMAIN object_map' /\ object_map'[n] = object_map[n]
          /\ n \notin Queued /\ target[object_map[n]].kind # "null" => n \notin Queued'
<1>1. CopyInv /\ [Next]_vars => [Kept]_vars
  <2> SUFFICES ASSUME CopyInv, Next PROVE Kept
    OBVIOUS
  <2>1. CASE object_map' = object_map /\ to_copy' = to_copy
    BY <2>1 DEF Queued
  <2>2. CASE object_map' = object_map /\ to_copy' = <<>>
    BY <2>2 DEF Queued
  <2>3. ASSUME call.phase = "reserve", NEW k \in frames[Depth].todo, Reserve(k) PROVE Kept
    <3>1. DOMAIN object_map' = DOMAIN object_map \cup {k} /\ \A n \in DOMAIN object_map : object_map'[n] = object_map[n]
      BY <2>3, Reserves
    <3>2. k \in DOMAIN object_map => target[object_map[k]].kind = "null"
      BY <2>3, Reserves
    <3>3. k \in Nodes /\ to_copy \in Seq(Nodes) /\ (to_copy' = to_copy \/ to_copy' = Append(to_copy, k))
      BY <2>3, TodoNodes DEF CopyInv, WorkOK, Reserve
    <3>4. Queued' \subseteq Queued \cup {k}
      BY <3>3 DEF Queued
    <3> QED BY <3>1, <3>2, <3>4
  <2>4. ASSUME reserve_objects PROVE Kept
    <3>1. CASE \E k \in frames[Depth].todo : Reserve(k)
      BY <2>3, <2>4, <3>1 DEF reserve_objects
    <3>2. CASE ~\E k \in frames[Depth].todo : Reserve(k)
      BY <2>1, <2>4, <3>2 DEF reserve_objects, Descend, Leave, Skip, Reject, OutOfNumbers, ReserveDirect, kept
    <3> QED BY <3>1, <3>2
  <2>5. ASSUME replace_foreign_indirect_objects PROVE Kept
    BY <2>1, <2>2, <2>5 DEF replace_foreign_indirect_objects, Replace, ReplaceFails, Finish, kept, QueueKept
  <2>6. ASSUME NEW n \in Nodes, NEW route \in RouteOf(n), copy_foreign_object(n, route) PROVE Kept
    BY <2>1, <2>6 DEF copy_foreign_object, kept
  <2>7. ASSUME EditSource PROVE Kept
    BY <2>1, <2>7 DEF EditSource, kept
  <2>8. ASSUME NEW m \in DOMAIN target, ClearTarget(m) PROVE Kept
    BY <2>1, <2>8 DEF ClearTarget, kept
  <2> HIDE DEF Kept
  <2> QED BY <2>4, <2>5, <2>6, <2>7, <2>8 DEF Next
<1> QED BY <1>1, Always, PTL DEF Spec, EarlierCopiesKept

(* No object is filled while one is still marked as being visited: the     *)
(* error that the code raises for it is never raised.                      *)
FillsUnmarked == call.phase = "replace" => visiting = {}
THEOREM NoneMarkedWhenFilling == Spec => []FillsUnmarked
<1>1. CopyInv => FillsUnmarked
  BY DEF CopyInv, WorkOK, FillsUnmarked
<1> QED BY <1>1, Always, PTL

-----------------------------------------------------------------------------
(* Types: the values in the target and the results of calls.               *)

Valued ==
    /\ Last <= MaxNumber
    /\ \A m \in DOMAIN target : target[m] \in Value
    /\ visiting \subseteq DOMAIN object_map
    /\ call.result \in 0 .. MaxNumber

LEMMA MakeValue ==
    ASSUME NEW kind \in Kinds, NEW data \in BOOLEAN, NEW S \in SUBSET Slots, NEW f \in [S -> 0 .. MaxNumber]
    PROVE  [kind |-> kind, slots |-> f, data |-> data] \in Value
BY DEF Value

LEMMA TakeValue ==
    ASSUME NEW v \in Value
    PROVE  /\ DOMAIN v.slots \subseteq Slots
           /\ \A s \in DOMAIN v.slots : v.slots[s] \in 0 .. MaxNumber
           /\ v.kind \in Kinds /\ v.data \in BOOLEAN
           /\ v = [kind |-> v.kind, slots |-> v.slots, data |-> v.data]
<1>1. PICK S \in SUBSET Slots : v \in [kind : Kinds, slots : [S -> 0 .. MaxNumber], data : BOOLEAN]
  BY DEF Value
<1> QED BY <1>1

LEMMA SourceSlots ==
    ASSUME CopyInv, NEW n \in Nodes
    PROVE  source[n].kind \in Kinds /\ DOMAIN source[n].slots \subseteq Slots
<1>1. source[n] \in Object
  BY DEF CopyInv, WorkOK
<1>2. PICK S \in SUBSET Slots : source[n] \in [kind : Kinds, slots : [S -> Nodes], flaw : BOOLEAN, stale : BOOLEAN]
  BY <1>1 DEF Object
<1> QED BY <1>2

LEMMA ImageBound == ASSUME CopyInv, Valued, NEW n PROVE Image(n) \in 0 .. MaxNumber
<1>1. PICK last \in Nat : DOMAIN target = 1 .. last
  BY DEF CopyInv, Maps
<1>2. last <= MaxNumber /\ MaxNumber \in Nat
  BY <1>1, LastNumber, SourcesAssumption DEF Valued
<1>3. \A k \in DOMAIN object_map : object_map[k] \in 1 .. last
  BY <1>1 DEF CopyInv, Maps
<1> QED BY <1>2, <1>3 DEF Image

LEMMA CopiedType ==
    ASSUME CopyInv, Valued, NEW n \in Nodes
    PROVE  /\ DOMAIN Copied(n) \subseteq Slots
           /\ \A s \in DOMAIN Copied(n) : Copied(n)[s] \in 0 .. MaxNumber
           /\ Copied(n) = [s \in DOMAIN Copied(n) |-> Copied(n)[s]]
<1>1. DOMAIN Copied(n) \subseteq Visible(n) /\ \A s \in DOMAIN Copied(n) : Copied(n)[s] = Image(source[n].slots[s])
  BY DEF Copied
<1>2. Visible(n) \subseteq Slots
  BY SourceSlots DEF Visible
<1>3. Copied(n) = [s \in DOMAIN Copied(n) |-> Copied(n)[s]]
  BY DEF Copied
<1> QED BY <1>1, <1>2, <1>3, ImageBound

LEMMA OverType ==
    ASSUME CopyInv, Valued, NEW n \in Nodes, NEW some, NEW v \in Value
    PROVE  \E S \in SUBSET Slots : Over(n, some, v.slots) \in [S -> 0 .. MaxNumber]
<1> DEFINE old == v.slots
           S == (some \cap DOMAIN Copied(n)) \cup (DOMAIN old \ (some \cap Visible(n)))
<1>1. DOMAIN old \subseteq Slots /\ \A s \in DOMAIN old : old[s] \in 0 .. MaxNumber
  BY TakeValue
<1>2. S \in SUBSET Slots
  BY <1>1, CopiedType
<1>3. Over(n, some, old) = [s \in S |-> IF s \in some \cap DOMAIN Copied(n) THEN Copied(n)[s] ELSE old[s]]
  BY DEF Over
<1>4. \A s \in S : (IF s \in some \cap DOMAIN Copied(n) THEN Copied(n)[s] ELSE old[s]) \in 0 .. MaxNumber
  BY <1>1, CopiedType
<1> HIDE DEF S, old
<1>5. Over(n, some, old) \in [S -> 0 .. MaxNumber]
  BY <1>3, <1>4
<1> QED BY <1>2, <1>5 DEF old

LEMMA FilledType == ASSUME CopyInv, Valued, NEW n \in Nodes, NEW v \in Value PROVE Filled(n, v) \in Value
<1>1. source[n].kind \in Kinds /\ "stream" \in Kinds
  BY SourceSlots DEF Kinds
<1>2. CASE source[n].kind = "stream"
  <2>1. PICK S \in SUBSET Slots : Over(n, Visible(n), v.slots) \in [S -> 0 .. MaxNumber]
    BY OverType
  <2> QED BY <1>1, <1>2, <2>1, MakeValue DEF Filled
<1>3. CASE source[n].kind # "stream"
  <2>1. Copied(n) \in [DOMAIN Copied(n) -> 0 .. MaxNumber] /\ DOMAIN Copied(n) \in SUBSET Slots
    BY CopiedType
  <2> QED BY <1>1, <1>3, <2>1, MakeValue DEF Filled
<1> QED BY <1>2, <1>3

LEMMA EmptyValues == Null \in Value /\ NewStream \in Value
<1>1. <<>> \in [{} -> 0 .. MaxNumber] /\ {} \in SUBSET Slots
  OBVIOUS
<1> QED BY <1>1, MakeValue DEF Null, NewStream, Kinds

LEMMA ValuedReserve ==
    ASSUME CopyInv, Valued, call.phase = "reserve", NEW k \in frames[Depth].todo, Reserve(k)
    PROVE  Valued'
<1>1. call' = call /\ visiting' \subseteq visiting \cup {k} /\ DOMAIN object_map' = DOMAIN object_map \cup {k}
  BY Reserves DEF Reserve
<1>2. CASE Reserved(k)
  BY <1>1, <1>2 DEF Reserve, Valued, Last
<1>3. CASE ~Reserved(k)
  <2>1. target' = Put(target, Last + 1, Reservation(k)) /\ Last # MaxNumber
    BY <1>3 DEF Reserve, Exhausted
  <2>2. Maps
    BY DEF CopyInv
  <2>3. PICK last \in Nat : DOMAIN target = 1 .. last
    BY <2>2 DEF Maps
  <2>4. Last = last
    BY <2>3, LastNumber
  <2>a. /\ DOMAIN target' = DOMAIN target \cup {Last + 1}
        /\ target'[Last + 1] = Reservation(k)
        /\ \A m \in DOMAIN target : target'[m] = target[m]
    BY <2>1, <2>2, NewTarget
  <2>5. DOMAIN target' = 1 .. last + 1
    BY <2>3, <2>4, <2>a
  <2>6. Last' = last + 1
    BY <2>5, FS_Interval DEF Last
  <2>7. \A m \in DOMAIN target' : target'[m] = Reservation(k) \/ (m \in DOMAIN target /\ target'[m] = target[m])
    BY <2>a
  <2>8. Reservation(k) \in Value
    BY EmptyValues DEF Reservation
  <2>9. last + 1 <= MaxNumber
    BY <2>1, <2>3, <2>4, SourcesAssumption DEF Valued
  <2>10. \A m \in DOMAIN target' : target'[m] \in Value
    BY <2>7, <2>8 DEF Valued
  <2> QED BY <1>1, <2>6, <2>9, <2>10 DEF Valued
<1> QED BY <1>2, <1>3

LEMMA ValuedFill ==
    ASSUME CopyInv, Valued, replace_foreign_indirect_objects
    PROVE  Valued'
<1>1. call.phase = "replace" /\ call \in CallFields /\ MaxNumber \in Nat
  BY SourcesAssumption DEF replace_foreign_indirect_objects, CopyInv, WorkOK
<1> DEFINE m == object_map[Current]
<1>2. ASSUME call.index <= Len(to_copy) PROVE m \in DOMAIN target /\ target[m] \in Value /\ Current \in Nodes
  BY <1>1, <1>2, CurrentMapped DEF Valued, CopyInv, WorkOK
<1>3. CASE Replace
  <2>1. target' = [target EXCEPT ![m] = Filled(Current, target[m])] /\ UNCHANGED <<object_map, visiting>>
    BY <1>3 DEF Replace, kept
  <2>2. Filled(Current, target[m]) \in Value
    BY <1>2, <1>3, FilledType DEF Replace
  <2>3. call'.result = call.result
    BY <1>1, <1>3 DEF Replace, CallFields
  <2> QED BY <2>1, <2>2, <2>3 DEF Valued, Last
<1>4. CASE ReplaceFails
  <2>1. UNCHANGED <<object_map, visiting>> /\ call'.result = 0
    BY <1>4 DEF ReplaceFails, Fail, Ended, Call
  <2>2. CASE target' = target
    BY <1>1, <2>1, <2>2 DEF Valued, Last
  <2>3. CASE IntoStream(Current)
    <3>1. PICK some \in SUBSET Visible(Current) : target' = [target EXCEPT ![m].slots = Over(Current, some, @)]
      BY <1>4, <2>3 DEF ReplaceFails
    <3> DEFINE v == target[m]
               w == [kind |-> v.kind, slots |-> Over(Current, some, v.slots), data |-> v.data]
    <3>2. m \in DOMAIN target /\ v \in Value /\ Current \in Nodes
      BY <1>2, <1>4 DEF ReplaceFails
    <3>3. PICK S \in SUBSET Slots : Over(Current, some, v.slots) \in [S -> 0 .. MaxNumber]
      BY <3>2, OverType
    <3>4. v.kind \in Kinds /\ v.data \in BOOLEAN /\ v = [kind |-> v.kind, slots |-> v.slots, data |-> v.data]
      BY <3>2, TakeValue
    <3>5. w \in Value
      BY <3>3, <3>4, MakeValue
    <3>6. [v EXCEPT !.slots = Over(Current, some, v.slots)] = w
      BY <3>4
    <3>7. target' = [target EXCEPT ![m] = w]
      BY <3>1, <3>6
    <3> HIDE DEF m, v, w
    <3> QED BY <1>1, <2>1, <3>5, <3>7 DEF Valued, Last
  <2> QED BY <1>4, <2>2, <2>3 DEF ReplaceFails
<1>5. CASE Finish
  <2>1. UNCHANGED <<target, object_map, visiting>> /\ (call'.result = 0 \/ call'.result = Image(call.root))
    BY <1>5 DEF Finish, Fail, Ended, Call
  <2> QED BY <1>1, <2>1, ImageBound DEF Valued, Last
<1> QED BY <1>3, <1>4, <1>5 DEF replace_foreign_indirect_objects

(* The state always has its type: target objects hold values with numbers  *)
(* of the target, and every object queued or marked has its reservation.   *)
THEOREM TypeCorrect == Spec => []TypeOK
<1>1. Init => Valued
  <2> SUFFICES ASSUME Init PROVE Valued
    OBVIOUS
  <2>1. DOMAIN target = 1 .. 0 /\ 0 <= MaxNumber /\ MaxNumber \in Nat
    BY SourcesAssumption DEF Init
  <2> QED BY <2>1, LastNumber DEF Init, Valued, Ended, Call
<1>2. CopyInv /\ Valued /\ [Next]_vars => Valued'
  <2> SUFFICES ASSUME CopyInv, Valued, [Next]_vars PROVE Valued'
    OBVIOUS
  <2>0. MaxNumber \in Nat
    BY SourcesAssumption
  <2>1. CASE UNCHANGED <<target, object_map, visiting>> /\ (call'.result = 0 \/ call'.result = call.result)
    BY <2>0, <2>1 DEF Valued, Last
  <2>2. ASSUME reserve_objects PROVE Valued'
    <3>1. CASE \E k \in frames[Depth].todo : Reserve(k)
      BY <2>2, <3>1, ValuedReserve DEF reserve_objects
    <3>2. CASE Leave
      <4>1. UNCHANGED <<target, object_map>> /\ visiting' \subseteq visiting
        BY <3>2 DEF Leave
      <4>2. call'.result = call.result
        BY <3>2 DEF Leave, CopyInv, WorkOK, CallFields
      <4> QED BY <4>1, <4>2 DEF Valued, Last
    <3>3. CASE \E k \in frames[Depth].todo : Skip(k) \/ Reject(k) \/ OutOfNumbers(k) \/ ReserveDirect(k)
      BY <2>1, <3>3 DEF Skip, Reject, OutOfNumbers, ReserveDirect, Fail, Ended, Call, kept
    <3> QED BY <2>2, <3>1, <3>2, <3>3 DEF reserve_objects, Descend
  <2>3. ASSUME NEW n \in Nodes, NEW route \in RouteOf(n), copy_foreign_object(n, route) PROVE Valued'
    BY <2>1, <2>3 DEF copy_foreign_object, kept, Fail, Ended, Call
  <2>4. ASSUME NEW m \in DOMAIN target, ClearTarget(m) PROVE Valued'
    BY <2>4, EmptyValues DEF ClearTarget, kept, Valued, Last
  <2>5. CASE EditSource \/ UNCHANGED vars
    BY <2>1, <2>5 DEF EditSource, vars, kept
  <2> QED BY <2>2, <2>3, <2>4, <2>5, ValuedFill DEF Next
<1>3. CopyInv /\ Valued => TypeOK
  <2> SUFFICES ASSUME CopyInv, Valued PROVE TypeOK
    OBVIOUS
  <2>1. DOMAIN target = 1 .. Last
    BY LastNumber DEF CopyInv, Maps
  <2>2. \A i \in DOMAIN frames : frames[i].node \in Nodes /\ frames[i].todo \subseteq Nodes
    <3>1. frames \in Seq(FrameSet)
      BY DEF CopyInv, WorkOK
    <3>2. \A i \in DOMAIN frames : frames[i] \in FrameSet
      BY <3>1
    <3> QED BY <3>2 DEF FrameSet
  <2>3. call \in [root : Nodes, route : Routes, phase : Phases, index : Nat, result : 0 .. MaxNumber]
    BY DEF CopyInv, WorkOK, CallFields, Valued
  <2>4. Queued \subseteq DOMAIN object_map
    BY DEF CopyInv, WorkOK, Queued
  <2> QED BY <2>1, <2>2, <2>3, <2>4 DEF CopyInv, Maps, WorkOK, Valued, TypeOK, Phases
<1> QED BY <1>1, <1>2, <1>3, Always, PTL DEF Spec
=============================================================================
