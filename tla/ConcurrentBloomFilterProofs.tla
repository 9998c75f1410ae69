--------------------- MODULE ConcurrentBloomFilterProofs ---------------------
(***************************************************************************)
(* Proofs about a filter shared by unsynchronised threads, for every set   *)
(* of threads and items, every Size and HashCount and whatever md5 and     *)
(* sha256 compute: the lost update of items_added aside, the bits behave  *)
(* as in the sequential filter.                                            *)
(***************************************************************************)
EXTENDS ConcurrentBloomFilter, FiniteSetTheorems, TLAPS

USE SizeAssumption, HashCountAssumption, MaxAddsAssumption, ThreadsAssumption

(* Bit i of item x's positions is set. *)
IsSet(x, i) == bit_array[BF!HashValue(x, i)]

(* All positions of x are set: contains(x) would return True. *)
AllSet(x) == \A i \in BF!HashIndices : IsSet(x, i)

(* The types the argument below needs; the counters play no part in it.   *)
PTypeOK ==
    /\ md5 \in [BF!Bytes -> BF!Digest]
    /\ sha256 \in [BF!Bytes -> BF!Digest]
    /\ bit_array \in [BF!Positions -> BOOLEAN]
    /\ pc \in [Threads -> {"idle", "contains_bits"} \cup AddPcs]
    /\ item \in [Threads -> Items \cup {NoItem}]
    /\ idx \in [Threads -> Nat]
    /\ owed \in [Threads -> BOOLEAN]
    /\ answer \in [Threads -> [result : BOOLEAN, owed : BOOLEAN]]
    /\ reply \in [item : Items \cup {NoItem}, result : BOOLEAN]
    /\ returned \in SUBSET Items

(***************************************************************************)
(* What each thread's call has done so far.  An add in its loop has set    *)
(* the positions before idx; an add past its loop has set all of them; a   *)
(* contains that owes True looks up an item whose add has returned.        *)
(***************************************************************************)
ThreadInv(t) ==
    /\ pc[t] # "idle" => item[t] \in Items
    /\ pc[t] = "add_bits" =>
          idx[t] \in BF!HashIndices /\ \A i \in 0 .. (idx[t] - 1) : IsSet(item[t], i)
    /\ pc[t] \in {"add_load", "add_store"} => AllSet(item[t])
    /\ pc[t] = "contains_bits" =>
          idx[t] \in BF!HashIndices /\ (owed[t] => item[t] \in returned)
    /\ answer[t].owed => answer[t].result

(* The inductive invariant. *)
Inv ==
    /\ PTypeOK
    /\ \A x \in returned : AllSet(x)
    /\ \A t \in Threads : ThreadInv(t)

(* Every hash position of an item is a bit of the array. *)
LEMMA HashValueInRange ==
    ASSUME PTypeOK, NEW x \in Items, NEW i \in Nat
    PROVE  BF!HashValue(x, i) \in BF!Positions
<1>1. Str[x] \in BF!Bytes
    BY DEF BF!Bytes
<1>2. md5[Str[x]] \in Nat /\ sha256[Str[x]] \in Nat
    BY <1>1 DEF PTypeOK, BF!Digest, BF!Positions
<1>3. QED
    BY <1>2, SMT DEF BF!HashValue, BF!Positions

(* The loop index moves to the next position unless it was the last. *)
LEMMA NextIndexInRange ==
    ASSUME NEW n \in Nat, NEW j \in 0 .. (n - 1), j + 1 # n
    PROVE  j + 1 \in 0 .. (n - 1)
BY SMT

LEMMA InitInv == Init => Inv
BY DEF Init, Inv, PTypeOK, ThreadInv, AddPcs

(* The steps of thread t, one by one. *)
ThreadStep(t) ==
    \/ \E x \in Items : StartAdd(t, x) \/ StartContains(t, x)
    \/ AddSetBit(t) \/ AddLoad(t) \/ AddStore(t)
    \/ ContainsNextSet(t) \/ ContainsReturn(t)

LEMMA NextIsThreadStep ==
    Next <=> \E t \in Threads : ThreadStep(t)
BY DEF Next, ThreadStep, Step

(* No step changes the digests. *)
LEMMA DigestsFixed ==
    ASSUME NEW t \in Threads, ThreadStep(t)
    PROVE  md5' = md5 /\ sha256' = sha256
BY DEF ThreadStep, StartAdd, StartContains, AddSetBit, AddLoad, AddStore,
       ContainsNextSet, ContainsReturn

LEMMA StepTypeOK ==
    ASSUME Inv, NEW t \in Threads, ThreadStep(t)
    PROVE  PTypeOK'
<1> USE DEF Inv, PTypeOK
<1>1. ASSUME NEW x \in Items, StartAdd(t, x) PROVE PTypeOK'
    BY <1>1 DEF StartAdd, AddPcs
<1>2. ASSUME NEW x \in Items, StartContains(t, x) PROVE PTypeOK'
    BY <1>2 DEF StartContains
<1>3. CASE AddSetBit(t)
    <2>1. item[t] \in Items
        BY <1>3 DEF AddSetBit, ThreadInv
    <2>2. Position(t) \in BF!Positions
        BY <2>1, HashValueInRange DEF Position
    <2>3. QED
        BY <1>3, <2>2 DEF AddSetBit, AddPcs
<1>4. CASE AddLoad(t)
    BY <1>4 DEF AddLoad, AddPcs
<1>5. CASE AddStore(t)
    <2>1. item[t] \in Items
        BY <1>5 DEF AddStore, ThreadInv, AddPcs
    <2>2. QED
        BY <1>5, <2>1 DEF AddStore, Return
<1>6. CASE ContainsNextSet(t)
    BY <1>6 DEF ContainsNextSet
<1>7. CASE ContainsReturn(t)
    <2>1. item[t] \in Items
        BY <1>7 DEF ContainsReturn, ThreadInv
    <2>2. bit_array[Position(t)] \in BOOLEAN
        BY <2>1, HashValueInRange DEF Position
    <2>3. QED
        BY <1>7, <2>2 DEF ContainsReturn, Return
<1>8. QED
    BY <1>1, <1>2, <1>3, <1>4, <1>5, <1>6, <1>7 DEF ThreadStep

(* No step clears a bit: the only store is self.bit_array[position] = True. *)
LEMMA StepKeepsBits ==
    ASSUME Inv, NEW t \in Threads, ThreadStep(t),
           NEW x \in Items, NEW i \in Nat, IsSet(x, i)
    PROVE  IsSet(x, i)'
<1>1. BF!HashValue(x, i)' = BF!HashValue(x, i)
    BY DigestsFixed DEF BF!HashValue
<1>2. BF!HashValue(x, i) \in BF!Positions
    BY HashValueInRange DEF Inv
<1>3. CASE AddSetBit(t)
    BY <1>1, <1>2, <1>3 DEF AddSetBit, IsSet, Inv, PTypeOK
<1>4. CASE ~AddSetBit(t)
    <2>1. bit_array' = bit_array
        BY <1>4 DEF ThreadStep, StartAdd, StartContains, AddLoad, AddStore,
                    ContainsNextSet, ContainsReturn
    <2>2. QED
        BY <1>1, <2>1 DEF IsSet
<1>5. QED
    BY <1>3, <1>4

(* A set item stays fully set. *)
LEMMA StepKeepsAllSet ==
    ASSUME Inv, NEW t \in Threads, ThreadStep(t), NEW x \in Items, AllSet(x)
    PROVE  AllSet(x)'
BY StepKeepsBits DEF AllSet, BF!HashIndices

(* A thread that does not move keeps its invariant: its locals are        *)
(* unchanged, bits are only set and returned only grows.                  *)
LEMMA OtherThreadKept ==
    ASSUME Inv, NEW t \in Threads, ThreadStep(t), NEW u \in Threads,
           pc'[u] = pc[u], item'[u] = item[u], idx'[u] = idx[u],
           owed'[u] = owed[u], answer'[u] = answer[u],
           returned \subseteq returned'
    PROVE  ThreadInv(u)'
<1>1. ThreadInv(u) /\ idx[u] \in Nat
    BY DEF Inv, PTypeOK
<1>2. pc[u] = "add_bits" => \A i \in 0 .. (idx[u] - 1) : IsSet(item[u], i)'
    BY <1>1, StepKeepsBits DEF ThreadInv, IsSet
<1>3. pc[u] \in {"add_load", "add_store"} => AllSet(item[u])'
    BY <1>1, StepKeepsAllSet DEF ThreadInv
<1>4. QED
    BY <1>1, <1>2, <1>3 DEF ThreadInv, IsSet, AllSet

(* The thread that moves keeps its invariant, one action at a time. *)
LEMMA OwnThreadKept ==
    ASSUME Inv, NEW t \in Threads, ThreadStep(t)
    PROVE  ThreadInv(t)'
<1> USE DEF Inv, PTypeOK
<1>1. ASSUME NEW x \in Items, StartAdd(t, x) PROVE ThreadInv(t)'
    BY <1>1 DEF StartAdd, ThreadInv, BF!HashIndices
<1>2. ASSUME NEW x \in Items, StartContains(t, x) PROVE ThreadInv(t)'
    <2>1. pc'[t] = "contains_bits" /\ item'[t] = x /\ idx'[t] = 0
          /\ owed'[t] = (x \in returned) /\ returned' = returned /\ answer' = answer
        BY <1>2 DEF StartContains
    <2>2. 0 \in BF!HashIndices
        BY DEF BF!HashIndices
    <2>3. answer[t].owed => answer[t].result
        BY DEF ThreadInv
    <2>4. QED
        BY <2>1, <2>2, <2>3 DEF ThreadInv
<1>3. CASE AddSetBit(t)
    <2>1. item[t] \in Items /\ idx[t] \in BF!HashIndices
          /\ \A i \in 0 .. (idx[t] - 1) : IsSet(item[t], i)
        BY <1>3 DEF AddSetBit, ThreadInv
    <2>2. item'[t] = item[t] /\ md5' = md5 /\ sha256' = sha256
        BY <1>3 DEF AddSetBit
    <2>3. \A i \in Nat : IsSet(item[t], i)' = bit_array'[BF!HashValue(item[t], i)]
        BY <2>2 DEF IsSet, BF!HashValue
    <2>4. \A i \in 0 .. idx[t] : bit_array'[BF!HashValue(item[t], i)]
        <3> SUFFICES ASSUME NEW i \in 0 .. idx[t]
                     PROVE  bit_array'[BF!HashValue(item[t], i)]
            OBVIOUS
        <3>1. BF!HashValue(item[t], i) \in BF!Positions
            BY <2>1, HashValueInRange DEF BF!HashIndices
        <3>2. CASE i = idx[t]
            BY <1>3, <3>1, <3>2 DEF AddSetBit, Position
        <3>3. CASE i # idx[t]
            <4>1. IsSet(item[t], i)
                BY <2>1, <3>3 DEF BF!HashIndices
            <4>2. QED
                BY <1>3, <3>1, <4>1 DEF AddSetBit, IsSet
        <3>4. QED
            BY <3>2, <3>3
    <2>5. \A i \in 0 .. idx[t] : IsSet(item[t], i)'
        BY <2>1, <2>3, <2>4 DEF BF!HashIndices
    <2>6. CASE idx[t] + 1 = HashCount
        BY <1>3, <2>1, <2>2, <2>5, <2>6 DEF AddSetBit, ThreadInv, AllSet, BF!HashIndices
    <2>7. CASE idx[t] + 1 # HashCount
        <3>1. pc'[t] = "add_bits" /\ idx'[t] = idx[t] + 1 /\ answer' = answer
            <4>1. pc'[t] = IF idx[t] + 1 = HashCount THEN "add_load" ELSE "add_bits"
                BY <1>3 DEF AddSetBit
            <4>2. idx'[t] = idx[t] + 1
                BY <1>3 DEF AddSetBit
            <4>3. answer' = answer
                BY <1>3 DEF AddSetBit
            <4>4. pc'[t] = "add_bits"
                BY <2>7, <4>1, Zenon
            <4>5. QED
                BY <4>2, <4>3, <4>4
        <3>2. idx[t] + 1 \in BF!HashIndices
            <4>1. idx[t] \in 0 .. (HashCount - 1)
                BY <2>1 DEF BF!HashIndices
            <4>2. QED
                BY <4>1, <2>7, NextIndexInRange DEF BF!HashIndices
        <3>3. \A i \in 0 .. (idx'[t] - 1) : IsSet(item[t], i)'
            BY <2>1, <2>5, <3>1 DEF BF!HashIndices
        <3>4. answer[t].owed => answer[t].result
            BY DEF ThreadInv
        <3>5. QED
            BY <2>1, <2>2, <3>1, <3>2, <3>3, <3>4 DEF ThreadInv
    <2>8. QED
        BY <2>6, <2>7
<1>4. CASE AddLoad(t)
    <2>1. item[t] \in Items /\ AllSet(item[t])
        BY <1>4 DEF AddLoad, ThreadInv
    <2>2. AllSet(item[t])'
        BY <1>4, <2>1, StepKeepsAllSet DEF AddLoad, AllSet, IsSet
    <2>3. QED
        BY <1>4, <2>1, <2>2 DEF AddLoad, ThreadInv
<1>5. CASE AddStore(t)
    BY <1>5 DEF AddStore, Return, ThreadInv
<1>6. CASE ContainsNextSet(t)
    BY <1>6 DEF ContainsNextSet, ThreadInv, BF!HashIndices
<1>7. CASE ContainsReturn(t)
    <2>1. owed[t] => bit_array[Position(t)]
        <3>1. item[t] \in Items /\ idx[t] \in BF!HashIndices
              /\ (owed[t] => item[t] \in returned)
            BY <1>7 DEF ContainsReturn, ThreadInv
        <3>2. QED
            BY <3>1 DEF Inv, AllSet, IsSet, Position
    <2>2. QED
        BY <1>7, <2>1 DEF ContainsReturn, Return, ThreadInv
<1>8. QED
    BY <1>1, <1>2, <1>3, <1>4, <1>5, <1>6, <1>7 DEF ThreadStep

(* A step of thread t leaves the locals of every other thread alone and    *)
(* only adds to returned.                                                  *)
LEMMA OthersUntouched ==
    ASSUME Inv, NEW t \in Threads, ThreadStep(t), NEW u \in Threads, u # t
    PROVE  /\ pc'[u] = pc[u] /\ item'[u] = item[u] /\ idx'[u] = idx[u]
           /\ owed'[u] = owed[u] /\ answer'[u] = answer[u]
           /\ returned \subseteq returned'
BY DEF Inv, PTypeOK, ThreadStep, StartAdd, StartContains, AddSetBit, AddLoad,
       AddStore, ContainsNextSet, ContainsReturn, Return

(* Every step of a thread preserves the invariant. *)
LEMMA StepInv ==
    ASSUME Inv, NEW t \in Threads, ThreadStep(t)
    PROVE  Inv'
<1>1. PTypeOK'
    BY StepTypeOK
<1>2. \A x \in returned' : AllSet(x)'
    <2> SUFFICES ASSUME NEW x \in returned' PROVE AllSet(x)'
        OBVIOUS
    <2>1. CASE AddStore(t)
        <3>1. returned' = returned \cup {item[t]}
            BY <2>1 DEF AddStore
        <3>2. CASE x \in returned
            BY <3>2, StepKeepsAllSet DEF Inv, PTypeOK
        <3>3. CASE x = item[t]
            <4>1. x \in Items /\ AllSet(x)
                BY <2>1, <3>3 DEF AddStore, Inv, ThreadInv, AddPcs
            <4>2. QED
                BY <4>1, StepKeepsAllSet
        <3>4. QED
            BY <3>1, <3>2, <3>3
    <2>2. CASE ~AddStore(t)
        <3>1. returned' = returned
            BY <2>2 DEF ThreadStep, StartAdd, StartContains, AddSetBit, AddLoad,
                        ContainsNextSet, ContainsReturn
        <3>2. QED
            BY <3>1, StepKeepsAllSet DEF Inv, PTypeOK
    <2>3. QED
        BY <2>1, <2>2
<1>3. \A u \in Threads : ThreadInv(u)'
    <2> SUFFICES ASSUME NEW u \in Threads PROVE ThreadInv(u)'
        OBVIOUS
    <2>1. CASE u = t
        BY <2>1, OwnThreadKept
    <2>2. CASE u # t
        BY <2>2, OthersUntouched, OtherThreadKept
    <2>3. QED
        BY <2>1, <2>2
<1>4. QED
    BY <1>1, <1>2, <1>3 DEF Inv

LEMMA NextInv == Inv /\ [Next]_vars => Inv'
<1> SUFFICES ASSUME Inv, [Next]_vars PROVE Inv'
    OBVIOUS
<1>1. CASE Next
    BY <1>1, NextIsThreadStep, StepInv
<1>2. CASE UNCHANGED vars
    BY <1>2 DEF vars, Inv, PTypeOK, ThreadInv, AllSet, IsSet, BF!HashValue
<1>3. QED
    BY <1>1, <1>2

-----------------------------------------------------------------------------
(***************************************************************************)
(* The counters.  items_added += 1 loses updates, so items_added is not   *)
(* the number of returned adds; it is bounded by it.  The bound holds     *)
(* because the count a thread loads is at most the returned adds then,   *)
(* and its store adds one as its own add returns.  The number of adds    *)
(* returned or in flight stays within MaxAdds by StartAdd's guard.        *)
(***************************************************************************)

(* The threads with an add call in progress. *)
InFlight == {t \in Threads : pc[t] \in AddPcs}

CountInv ==
    /\ adds_done \in Nat /\ items_added \in Nat /\ tmp \in [Threads -> Nat]
    /\ idx \in [Threads -> 0 .. HashCount]
    /\ IsFiniteSet(InFlight)
    /\ adds_done + Cardinality(InFlight) <= MaxAdds
    /\ items_added <= adds_done
    /\ \A t \in Threads : tmp[t] <= adds_done
    /\ NeverEmptyAgain

LEMMA InitCount == Init => CountInv
<1> SUFFICES ASSUME Init PROVE CountInv
    OBVIOUS
<1>1. InFlight = {}
    BY DEF Init, InFlight, AddPcs
<1>2. IsFiniteSet(InFlight) /\ Cardinality(InFlight) = 0
    BY <1>1, FS_EmptySet
<1>3. QED
    BY <1>2, MaxAddsAssumption DEF Init, CountInv, NeverEmptyAgain

(* A step that moves no thread into or out of an add keeps InFlight. *)
LEMMA InFlightKept ==
    ASSUME NEW t \in Threads, PTypeOK, pc' = [pc EXCEPT ![t] = pc'[t]],
           (pc'[t] \in AddPcs) <=> (pc[t] \in AddPcs)
    PROVE  InFlight' = InFlight
BY DEF InFlight, PTypeOK

LEMMA StepCount ==
    ASSUME Inv, CountInv, NEW t \in Threads, ThreadStep(t)
    PROVE  CountInv'
<1> USE DEF CountInv, NeverEmptyAgain
<1>0. PTypeOK
    BY DEF Inv
<1>1. ASSUME NEW x \in Items, StartAdd(t, x) PROVE CountInv'
    <2>1. t \notin InFlight /\ InFlight' = InFlight \cup {t}
        BY <1>0, <1>1 DEF StartAdd, InFlight, AddPcs, PTypeOK
    <2>2. IsFiniteSet(InFlight') /\ Cardinality(InFlight') = Cardinality(InFlight) + 1
        BY <2>1, FS_AddElement
    <2>3. adds_done + Cardinality(InFlight) < MaxAdds
        BY <1>1 DEF StartAdd, AddsInFlight, InFlight
    <2>4. idx' \in [Threads -> 0 .. HashCount]
        BY <1>1 DEF StartAdd
    <2>5. /\ adds_done' = adds_done /\ items_added' = items_added /\ tmp' = tmp
        BY <1>1 DEF StartAdd
    <2>6. Cardinality(InFlight) \in Nat
        BY FS_CardinalityType
    <2>7. QED
        BY <2>2, <2>3, <2>4, <2>5, <2>6
<1>2. ASSUME NEW x \in Items, StartContains(t, x) PROVE CountInv'
    <2>1. InFlight' = InFlight
        <3>1. pc' = [pc EXCEPT ![t] = pc'[t]]
            BY <1>2, <1>0 DEF StartContains, PTypeOK
        <3>2. (pc'[t] \in AddPcs) <=> (pc[t] \in AddPcs)
            BY <1>2, <1>0 DEF StartContains, PTypeOK, AddPcs
        <3>3. QED
            BY <1>0, <3>1, <3>2, InFlightKept
    <2>2. QED
        BY <1>2, <2>1 DEF StartContains
<1>3. CASE AddSetBit(t)
    <2>1. InFlight' = InFlight
        <3>1. pc' = [pc EXCEPT ![t] = pc'[t]]
            BY <1>3, <1>0 DEF AddSetBit, PTypeOK
        <3>2. (pc'[t] \in AddPcs) <=> (pc[t] \in AddPcs)
            BY <1>3, <1>0 DEF AddSetBit, PTypeOK, AddPcs
        <3>3. QED
            BY <1>0, <3>1, <3>2, InFlightKept
    <2>2. idx[t] \in 0 .. (HashCount - 1)
        BY <1>3 DEF AddSetBit, Inv, ThreadInv, BF!HashIndices
    <2>3. idx' \in [Threads -> 0 .. HashCount]
        BY <1>3, <2>2 DEF AddSetBit
    <2>4. QED
        BY <1>3, <2>1, <2>3 DEF AddSetBit
<1>4. CASE AddLoad(t)
    <2>1. InFlight' = InFlight
        <3>1. pc' = [pc EXCEPT ![t] = pc'[t]]
            BY <1>4, <1>0 DEF AddLoad, PTypeOK
        <3>2. (pc'[t] \in AddPcs) <=> (pc[t] \in AddPcs)
            BY <1>4, <1>0 DEF AddLoad, PTypeOK, AddPcs
        <3>3. QED
            BY <1>0, <3>1, <3>2, InFlightKept
    <2>2. QED
        BY <1>4, <2>1 DEF AddLoad
<1>5. CASE AddStore(t)
    <2>1. t \in InFlight /\ InFlight' = InFlight \ {t}
        BY <1>0, <1>5 DEF AddStore, InFlight, AddPcs, PTypeOK
    <2>2. IsFiniteSet(InFlight') /\ Cardinality(InFlight') = Cardinality(InFlight) - 1
        BY <2>1, FS_RemoveElement
    <2>3. Cardinality(InFlight) \in Nat /\ Cardinality(InFlight') \in Nat
        BY <2>2, FS_CardinalityType
    <2>4. /\ adds_done' = adds_done + 1 /\ items_added' = tmp[t] + 1
          /\ tmp' = [tmp EXCEPT ![t] = 0] /\ idx' = [idx EXCEPT ![t] = 0]
        BY <1>5 DEF AddStore, Return
    <2>5. QED
        BY <2>1, <2>2, <2>3, <2>4
<1>6. CASE ContainsNextSet(t)
    <2>1. idx[t] + 1 \in 0 .. HashCount
        BY <1>6 DEF ContainsNextSet
    <2>2. /\ InFlight' = InFlight /\ idx' = [idx EXCEPT ![t] = idx[t] + 1]
          /\ UNCHANGED <<adds_done, items_added, tmp>>
        BY <1>6 DEF ContainsNextSet, InFlight
    <2>3. QED
        BY <2>1, <2>2
<1>7. CASE ContainsReturn(t)
    <2>1. InFlight' = InFlight
        <3>1. pc' = [pc EXCEPT ![t] = pc'[t]]
            BY <1>7, <1>0 DEF ContainsReturn, PTypeOK
        <3>2. (pc'[t] \in AddPcs) <=> (pc[t] \in AddPcs)
            BY <1>7, <1>0 DEF ContainsReturn, PTypeOK, AddPcs
        <3>3. QED
            BY <1>0, <3>1, <3>2, InFlightKept
    <2>2. QED
        BY <1>7, <2>1 DEF ContainsReturn, Return
<1>8. QED
    BY <1>1, <1>2, <1>3, <1>4, <1>5, <1>6, <1>7 DEF ThreadStep

LEMMA NextCount == Inv /\ CountInv /\ [Next]_vars => CountInv'
<1> SUFFICES ASSUME Inv, CountInv, [Next]_vars PROVE CountInv'
    OBVIOUS
<1>1. CASE Next
    BY <1>1, NextIsThreadStep, StepCount
<1>2. CASE UNCHANGED vars
    BY <1>2 DEF vars, CountInv, InFlight, NeverEmptyAgain
<1>3. QED
    BY <1>1, <1>2

LEMMA InvInvariant == Spec => []Inv
BY InitInv, NextInv, PTL DEF Spec

(* For every number of threads: once add(x) has returned, every bit of x   *)
(* is set in every later state, whatever the other threads' adds and      *)
(* contains do meanwhile.                                                  *)
THEOREM ReturnedAddsVisibleHolds == Spec => []ReturnedAddsVisible
<1>1. Inv => ReturnedAddsVisible
    BY DEF Inv, AllSet, IsSet, ReturnedAddsVisible, BF!NoFalseNegatives,
           BF!ContainsResult, BF!GetHashValues
<1>2. QED
    BY InitInv, NextInv, <1>1, PTL DEF Spec

(* For every number of threads: a contains(x) that began after an add(x)   *)
(* returned answers True.                                                  *)
THEOREM ContainsAfterAddTrueHolds == Spec => []ContainsAfterAddTrue
<1>1. Inv => ContainsAfterAddTrue
    BY DEF Inv, ThreadInv, ContainsAfterAddTrue
<1>2. QED
    BY InitInv, NextInv, <1>1, PTL DEF Spec

(* Inv and CountInv together hold in every reachable state. *)
LEMMA BothInvariant == Spec => [](Inv /\ CountInv)
<1>1. Init => Inv /\ CountInv
    BY InitInv, InitCount
<1>2. Inv /\ CountInv /\ [Next]_vars => (Inv /\ CountInv)'
    BY NextInv, NextCount
<1>3. QED
    BY <1>1, <1>2, PTL DEF Spec

(* For every number of threads and every bound on adds: every variable    *)
(* keeps its type; in particular items_added and every loaded count stay  *)
(* within 0 .. MaxAdds and a loop index never passes hash_count.          *)
THEOREM TypeCorrect == Spec => []TypeOK
<1>1. Inv /\ CountInv => TypeOK
    <2> SUFFICES ASSUME Inv, CountInv PROVE TypeOK
        OBVIOUS
    <2>1. Cardinality(InFlight) \in Nat
        BY FS_CardinalityType DEF CountInv
    <2>2. adds_done \in 0 .. MaxAdds /\ items_added \in 0 .. MaxAdds
        BY <2>1 DEF CountInv
    <2>3. tmp \in [Threads -> 0 .. MaxAdds]
        BY <2>1 DEF CountInv
    <2>4. QED
        BY <2>2, <2>3 DEF Inv, PTypeOK, CountInv, TypeOK
<1>2. QED
    BY <1>1, BothInvariant, PTL

(* For every number of threads: len(bf) never exceeds the number of add    *)
(* calls that have returned, however items_added += 1 interleaves.        *)
THEOREM LenNeverOvercountsHolds == Spec => []LenNeverOvercounts
<1>1. Inv /\ CountInv => LenNeverOvercounts
    BY DEF CountInv, LenNeverOvercounts
<1>2. QED
    BY <1>1, BothInvariant, PTL

(* For every number of threads: once an add call has returned, len(bf)    *)
(* stays positive; a stale store writes a loaded count plus one, never 0. *)
THEOREM NeverEmptyAgainHolds == Spec => []NeverEmptyAgain
<1>1. Inv /\ CountInv => NeverEmptyAgain
    BY DEF CountInv
<1>2. QED
    BY <1>1, BothInvariant, PTL

-----------------------------------------------------------------------------
(***************************************************************************)
(* No stray bits.  The adds that have started only grow (an add that      *)
(* returns moves its item from the threads in flight to returned), the    *)
(* positions of an item never change, and the only store sets a position  *)
(* of an add in flight.  So NoStrayBits is inductive given Inv.           *)
(***************************************************************************)

LEMMA StartedGrows ==
    ASSUME Inv, NEW t \in Threads, ThreadStep(t)
    PROVE  AddsStarted \subseteq AddsStarted'
<1> SUFFICES ASSUME NEW x \in AddsStarted PROVE x \in AddsStarted'
    OBVIOUS
<1>1. returned \subseteq returned'
    BY DEF ThreadStep, StartAdd, StartContains, AddSetBit, AddLoad, AddStore,
           ContainsNextSet, ContainsReturn
<1>2. CASE x \in returned
    BY <1>1, <1>2 DEF AddsStarted
<1>3. CASE x \notin returned
    <2>1. PICK u \in Threads : pc[u] \in AddPcs /\ item[u] = x
        BY <1>3 DEF AddsStarted
    <2>2. CASE u # t
        <3>1. pc'[u] = pc[u] /\ item'[u] = item[u]
            BY <2>2, OthersUntouched
        <3>2. QED
            BY <2>1, <3>1 DEF AddsStarted
    <2>3. CASE u = t
        <3>1. CASE AddStore(t)
            BY <2>1, <2>3, <3>1 DEF AddStore, AddsStarted
        <3>2. CASE AddSetBit(t) \/ AddLoad(t)
            <4>1. pc'[t] \in AddPcs /\ item'[t] = item[t]
                BY <3>2 DEF AddSetBit, AddLoad, AddPcs, Inv, PTypeOK
            <4>2. QED
                BY <2>1, <2>3, <4>1 DEF AddsStarted
        <3>3. CASE ~AddStore(t) /\ ~AddSetBit(t) /\ ~AddLoad(t)
            <4>1. pc[t] \in {"idle", "contains_bits"}
                BY <3>3 DEF ThreadStep, StartAdd, StartContains, ContainsNextSet,
                            ContainsReturn
            <4>2. QED
                BY <2>1, <2>3, <4>1 DEF AddPcs
        <3>4. QED
            BY <3>1, <3>2, <3>3
    <2>4. QED
        BY <2>2, <2>3
<1>4. QED
    BY <1>2, <1>3

LEMMA StepNoStray ==
    ASSUME Inv, NoStrayBits, NEW t \in Threads, ThreadStep(t)
    PROVE  NoStrayBits'
<1> SUFFICES ASSUME NEW p \in BF!Positions, bit_array'[p]
             PROVE  \E x \in AddsStarted', i \in BF!HashIndices : BF!HashValue(x, i)' = p
    BY DEF NoStrayBits
<1>1. \A x, i : BF!HashValue(x, i)' = BF!HashValue(x, i)
    BY DigestsFixed DEF BF!HashValue
<1>2. AddsStarted \subseteq AddsStarted'
    BY StartedGrows
<1>3. CASE AddSetBit(t) /\ p = Position(t)
    <2>1. pc[t] \in AddPcs /\ item[t] \in Items /\ idx[t] \in BF!HashIndices
        BY <1>3 DEF AddSetBit, AddPcs, Inv, ThreadInv
    <2>2. item[t] \in AddsStarted
        BY <2>1 DEF AddsStarted
    <2>3. QED
        BY <1>1, <1>2, <1>3, <2>1, <2>2 DEF Position
<1>4. CASE ~(AddSetBit(t) /\ p = Position(t))
    <2>1. bit_array[p]
        <3>1. CASE AddSetBit(t)
            BY <1>4, <3>1 DEF AddSetBit, Inv, PTypeOK
        <3>2. CASE ~AddSetBit(t)
            <4>1. bit_array' = bit_array
                BY <3>2 DEF ThreadStep, StartAdd, StartContains, AddLoad, AddStore,
                            ContainsNextSet, ContainsReturn
            <4>2. QED
                BY <4>1
        <3>3. QED
            BY <3>1, <3>2
    <2>2. PICK x \in AddsStarted, i \in BF!HashIndices : BF!HashValue(x, i) = p
        BY <2>1 DEF NoStrayBits
    <2>3. QED
        BY <1>1, <1>2, <2>2
<1>5. QED
    BY <1>3, <1>4

LEMMA InitNoStray == Init => NoStrayBits
BY DEF Init, NoStrayBits

(* For every number of threads: every set bit is a position of an item    *)
(* whose add call has started, whatever the interleaving of the stores.   *)
THEOREM NoStrayBitsHolds == Spec => []NoStrayBits
<1>1. Inv /\ NoStrayBits /\ [Next]_vars => NoStrayBits'
    <2> SUFFICES ASSUME Inv, NoStrayBits, [Next]_vars PROVE NoStrayBits'
        OBVIOUS
    <2>1. CASE Next
        BY <2>1, NextIsThreadStep, StepNoStray
    <2>2. CASE UNCHANGED vars
        BY <2>2 DEF vars, NoStrayBits, AddsStarted, BF!HashValue
    <2>3. QED
        BY <2>1, <2>2
<1>2. QED
    BY <1>1, InitNoStray, InvInvariant, PTL DEF Spec

-----------------------------------------------------------------------------
(***************************************************************************)
(* Linearizability.  Each add maps to Insert(str(x)) at its last store,   *)
(* each contains to Query(str(x)) at its last load, and every other step  *)
(* to a stutter.  The query obligation (a member answers True) is where   *)
(* the invariant is needed: a returned item y with str(y) = str(x) has    *)
(* all its bits set, and x's positions are y's.                            *)
(***************************************************************************)

LEMMA InitLinear == Init => Linear!Init
BY NoItemAssumption DEF Init, Linear!Init

(* The position of a returned item's string form is set. *)
LEMMA MemberBitSet ==
    ASSUME Inv, NEW x \in Items, NEW i \in BF!HashIndices,
           Str[x] \in {Str[y] : y \in returned}
    PROVE  IsSet(x, i)
<1>1. PICK y \in returned : Str[y] = Str[x]
    OBVIOUS
<1>2. IsSet(y, i)
    BY <1>1 DEF Inv, AllSet
<1>3. BF!HashValue(y, i) = BF!HashValue(x, i)
    BY <1>1 DEF BF!HashValue
<1>4. QED
    BY <1>2, <1>3 DEF IsSet

(* The steps that change none of the mapped state. *)
LEMMA StutterSteps ==
    ASSUME NEW t \in Threads,
           \/ \E x \in Items : StartAdd(t, x) \/ StartContains(t, x)
           \/ AddSetBit(t) \/ AddLoad(t) \/ ContainsNextSet(t)
    PROVE  UNCHANGED Linear!avars
BY DEF StartAdd, StartContains, AddSetBit, AddLoad, ContainsNextSet, Linear!avars

LEMMA StoreInserts ==
    ASSUME Inv, NEW t \in Threads, AddStore(t)
    PROVE  Linear!Insert(Str[item[t]])
<1>1. returned' = returned \cup {item[t]} /\ adds_done' = adds_done + 1
      /\ reply' = reply
    BY DEF AddStore
<1>2. {Str[x] : x \in returned'} = {Str[x] : x \in returned} \cup {Str[item[t]]}
    BY <1>1
<1>3. QED
    BY <1>1, <1>2 DEF Linear!Insert

LEMMA ReturnQueries ==
    ASSUME Inv, NEW t \in Threads, ContainsReturn(t)
    PROVE  Linear!Query(Str[item[t]])
<1> DEFINE r == bit_array[Position(t)]
<1>1. item[t] \in Items /\ idx[t] \in BF!HashIndices
    BY DEF ContainsReturn, Inv, ThreadInv
<1>2. r \in BOOLEAN
    BY <1>1, HashValueInRange DEF Inv, PTypeOK, Position, BF!HashIndices
<1>3. Str[item[t]] \in {Str[y] : y \in returned} => r
    BY <1>1, MemberBitSet DEF IsSet, Position
<1>4. reply' = [item |-> item[t], result |-> r]
    BY DEF ContainsReturn
<1>5. item[t] # NoItem
    BY <1>1, NoItemAssumption
<1>6. returned' = returned /\ adds_done' = adds_done
    BY DEF ContainsReturn
<1>7. r \in IF Str[item[t]] \in {Str[y] : y \in returned} THEN {TRUE} ELSE BOOLEAN
    BY <1>2, <1>3
<1>8. QED
    BY <1>4, <1>5, <1>6, <1>7 DEF Linear!Query

LEMMA NextLinear == Inv /\ [Next]_vars => [Linear!Next]_Linear!avars
<1> SUFFICES ASSUME Inv, [Next]_vars PROVE [Linear!Next]_Linear!avars
    OBVIOUS
<1>1. ASSUME NEW t \in Threads, AddStore(t) PROVE Linear!Next
    <2>1. item[t] \in Items
        BY <1>1 DEF AddStore, Inv, ThreadInv
    <2>2. Str[item[t]] \in BF!Bytes
        BY <2>1 DEF BF!Bytes
    <2>3. Linear!Insert(Str[item[t]])
        BY <1>1, StoreInserts
    <2>4. QED
        BY <2>2, <2>3 DEF Linear!Next, Linear!Insert
<1>2. ASSUME NEW t \in Threads, ContainsReturn(t) PROVE Linear!Next
    <2>1. item[t] \in Items
        BY <1>2 DEF ContainsReturn, Inv, ThreadInv
    <2>2. Str[item[t]] \in BF!Bytes
        BY <2>1 DEF BF!Bytes
    <2>3. QED
        BY <1>2, <2>2, ReturnQueries DEF Linear!Next
<1>3. CASE UNCHANGED vars
    BY <1>3 DEF vars, Linear!avars
<1>4. QED
    BY <1>1, <1>2, <1>3, StutterSteps DEF Next, Step

(* For every number of threads: the unsynchronised filter implements the   *)
(* approximate set with atomic operations, add taking effect at its last   *)
(* store and contains at its last load.                                    *)
THEOREM LinearizableSpecHolds == Spec => LinearizableSpec
BY InitLinear, NextLinear, InvInvariant, PTL DEF Spec, LinearizableSpec, Linear!Spec

=============================================================================
