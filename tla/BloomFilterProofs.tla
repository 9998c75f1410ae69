------------------------- MODULE BloomFilterProofs -------------------------
(***************************************************************************)
(* Proofs about the filter core, for every Size, HashCount, MaxAdds and    *)
(* every set of items, whatever md5 and sha256 compute.                    *)
(***************************************************************************)
EXTENDS BloomFilter, FiniteSetTheorems, TLAPS

USE SizeAssumption, HashCountAssumption, MaxAddsAssumption

(* Every hash position of an item is a bit of the array: (h1 + i * h2) %  *)
(* size lies in 0 .. size - 1 because size > 0.                            *)
LEMMA HashValueInRange ==
    ASSUME TypeOK, NEW x \in Items, NEW i \in HashIndices
    PROVE  HashValue(x, i) \in Positions
<1>1. Str[x] \in Bytes
    BY DEF Bytes
<1>2. md5[Str[x]] \in Nat /\ sha256[Str[x]] \in Nat
    BY <1>1 DEF TypeOK, Digest, Positions
<1>3. QED
    BY <1>2, SMT DEF HashValue, HashIndices, Positions

(* The positions add(x) sets are bits of the array. *)
LEMMA FootprintInRange ==
    ASSUME TypeOK, NEW x \in Items
    PROVE  Footprint(x) \subseteq Positions
BY HashValueInRange DEF Footprint, GetHashValues

-----------------------------------------------------------------------------
(* Type correctness. *)

LEMMA InitTypeOK == Init => TypeOK
BY DEF Init, TypeOK, NoAnswer

LEMMA NextTypeOK == TypeOK /\ [Next]_vars => TypeOK'
<1> SUFFICES ASSUME TypeOK, [Next]_vars PROVE TypeOK'
    OBVIOUS
<1>1. ASSUME NEW x \in Items, Add(x) PROVE TypeOK'
    BY <1>1 DEF Add, TypeOK
<1>2. ASSUME NEW x \in Items, Contains(x) PROVE TypeOK'
    <2>1. ContainsResult(x) \in BOOLEAN
        BY DEF ContainsResult
    <2>2. answer' \in [item : Items \cup {NoItem}, result : BOOLEAN]
        BY <1>2, <2>1, Zenon DEF Contains
    <2>3. QED
        BY <1>2, <2>2 DEF Contains, TypeOK
<1>3. CASE UNCHANGED vars
    BY <1>3 DEF vars, TypeOK
<1>4. QED
    BY <1>1, <1>2, <1>3 DEF Next

(* The bit array keeps its Size cells and every variable its type. *)
THEOREM TypeCorrect == Spec => []TypeOK
BY InitTypeOK, NextTypeOK, PTL DEF Spec

-----------------------------------------------------------------------------
(* No false negatives.  TypeOK /\ NoFalseNegatives is inductive: add only  *)
(* turns bits on and turns on every bit of the item it adds; contains      *)
(* changes no bit.                                                         *)

NFNInv == TypeOK /\ NoFalseNegatives

LEMMA InitNFN == Init => NFNInv
BY InitTypeOK DEF Init, NFNInv, NoFalseNegatives

LEMMA NextNFN == NFNInv /\ [Next]_vars => NFNInv'
<1> SUFFICES ASSUME NFNInv, [Next]_vars PROVE NFNInv'
    OBVIOUS
<1>1. TypeOK'
    BY NextTypeOK DEF NFNInv
<1> SUFFICES NoFalseNegatives'
    BY <1>1 DEF NFNInv
<1>2. ASSUME NEW x \in Items, Add(x) PROVE NoFalseNegatives'
    <2> SUFFICES ASSUME NEW y \in added', NEW i \in HashIndices
                 PROVE  bit_array'[GetHashValues(y)'[i]]
        BY DEF NoFalseNegatives, ContainsResult
    <2>1. y \in Items
        BY <1>2 DEF Add, NFNInv, TypeOK
    <2>2. GetHashValues(y)' = GetHashValues(y)
        BY <1>2 DEF Add, GetHashValues, HashValue
    <2>3. GetHashValues(y)[i] \in Positions
        BY <2>1, HashValueInRange DEF NFNInv, GetHashValues
    <2>4. CASE y = x
        <3>1. GetHashValues(y)[i] \in Footprint(x)
            BY <2>4 DEF Footprint
        <3>2. QED
            BY <1>2, <2>2, <2>3, <3>1 DEF Add
    <2>5. CASE y # x
        <3>1. y \in added
            BY <1>2, <2>5 DEF Add
        <3>2. bit_array[GetHashValues(y)[i]]
            BY <3>1 DEF NFNInv, NoFalseNegatives, ContainsResult
        <3>3. QED
            BY <1>2, <2>2, <2>3, <3>2 DEF Add
    <2>6. QED
        BY <2>4, <2>5
<1>3. ASSUME NEW x \in Items, Contains(x) PROVE NoFalseNegatives'
    BY <1>3 DEF Contains, NFNInv, NoFalseNegatives, ContainsResult,
               GetHashValues, HashValue
<1>4. CASE UNCHANGED vars
    BY <1>4 DEF vars, NFNInv, NoFalseNegatives, ContainsResult,
               GetHashValues, HashValue
<1>5. QED
    BY <1>2, <1>3, <1>4 DEF Next

(* Once add(x) has returned, contains(x) returns True in every later      *)
(* state (the no-false-negative guarantee of the class docstring).        *)
THEOREM NoFalseNegativesHold == Spec => []NoFalseNegatives
BY InitNFN, NextNFN, PTL DEF Spec, NFNInv

(* NFNInv holds in every state of every behaviour. *)
LEMMA NFNInvariant == Spec => []NFNInv
BY InitNFN, NextNFN, PTL DEF Spec

-----------------------------------------------------------------------------
(* Refinement of the approximate membership set.                          *)

(* Two items with the same string form have the same hash positions: the *)
(* code hashes str(item) and nothing else.                                 *)
LEMMA SameBytesSamePositions ==
    ASSUME NEW x \in Items, NEW y \in Items, Str[x] = Str[y]
    PROVE  GetHashValues(x) = GetHashValues(y)
BY DEF GetHashValues, HashValue

(* A query for an inserted byte string answers True. *)
LEMMA MembersAnswerTrue ==
    ASSUME NFNInv, NEW x \in Items, Str[x] \in {Str[z] : z \in added}
    PROVE  ContainsResult(x)
<1>1. PICK y \in added : Str[y] = Str[x]
    OBVIOUS
<1>2. y \in Items
    BY DEF NFNInv, TypeOK
<1>3. ContainsResult(y)
    BY <1>1 DEF NFNInv, NoFalseNegatives
<1>4. QED
    BY <1>1, <1>2, <1>3, SameBytesSamePositions DEF ContainsResult

LEMMA InitRefines == Init => Approx!Init
BY DEF Init, Approx!Init, NoAnswer

LEMMA NextRefines == NFNInv /\ [Next]_vars => [Approx!Next]_Approx!avars
<1> SUFFICES ASSUME NFNInv, [Next]_vars PROVE [Approx!Next]_Approx!avars
    OBVIOUS
<1>1. ASSUME NEW x \in Items, Add(x) PROVE Approx!Next
    <2>1. Str[x] \in Bytes
        BY DEF Bytes
    <2>2. Approx!Insert(Str[x])
        BY <1>1 DEF Add, Approx!Insert
    <2>3. QED
        BY <2>1, <2>2 DEF Approx!Next
<1>2. ASSUME NEW x \in Items, Contains(x) PROVE Approx!Next
    <2>1. Str[x] \in Bytes
        BY DEF Bytes
    <2>2. Str[x] \in {Str[z] : z \in added} => ContainsResult(x)
        BY MembersAnswerTrue
    <2>3. answer'.item = x /\ answer'.result = ContainsResult(x)
        BY <1>2 DEF Contains
    <2>4. x # NoItem
        BY NoItemAssumption
    <2>5. ContainsResult(x) \in IF Str[x] \in {Str[z] : z \in added}
                                THEN {TRUE} ELSE BOOLEAN
        BY <2>2 DEF ContainsResult
    <2>6. (IF answer'.item = NoItem THEN NoItem ELSE Str[answer'.item]) = Str[x]
        BY <2>3, <2>4
    <2>7. /\ {Str[z] : z \in added'} = {Str[z] : z \in added}
          /\ items_added' = items_added
        BY <1>2 DEF Contains
    <2>8. Approx!Query(Str[x])
        BY <2>3, <2>5, <2>6, <2>7 DEF Approx!Query
    <2>9. QED
        BY <2>1, <2>8 DEF Approx!Next
<1>3. CASE UNCHANGED vars
    BY <1>3 DEF vars, Approx!avars
<1>4. QED
    BY <1>1, <1>2, <1>3 DEF Next

(* Every behaviour of the filter is a behaviour of the approximate         *)
(* membership set: contains never answers False for a byte string that was *)
(* added, and __len__ counts every add call.                               *)
THEOREM RefinesApprox == Spec => ApproxSpec
BY InitRefines, NextRefines, NFNInvariant, PTL DEF Spec, ApproxSpec, Approx!Spec

-----------------------------------------------------------------------------
(* The bit array is the union of the footprints of the items added.       *)

LEMMA InitBitsExact == Init => BitsExact
BY DEF Init, BitsExact

LEMMA NextBitsExact == TypeOK /\ BitsExact /\ [Next]_vars => BitsExact'
<1> SUFFICES ASSUME TypeOK, BitsExact, [Next]_vars PROVE BitsExact'
    OBVIOUS
<1>1. ASSUME NEW x \in Items, Add(x) PROVE BitsExact'
    <2>1. \A y \in Items : Footprint(y)' = Footprint(y)
        BY <1>1 DEF Add, Footprint, GetHashValues, HashValue
    <2>2. \A p \in Positions : bit_array[p] = \E y \in added : p \in Footprint(y)
        BY DEF BitsExact
    <2>3. added' = added \cup {x} /\ added \subseteq Items
        BY <1>1 DEF Add, TypeOK
    <2>4. QED
        BY <1>1, <2>1, <2>2, <2>3 DEF Add, BitsExact
<1>2. ASSUME NEW x \in Items, Contains(x) PROVE BitsExact'
    BY <1>2 DEF Contains, BitsExact, Footprint, GetHashValues, HashValue
<1>3. CASE UNCHANGED vars
    BY <1>3 DEF vars, BitsExact, Footprint, GetHashValues, HashValue
<1>4. QED
    BY <1>1, <1>2, <1>3 DEF Next

(* Whatever the order and repetition of the add calls, bit p is set        *)
(* exactly when some added item hashes to p.                               *)
THEOREM BitsExactHolds == Spec => []BitsExact
BY TypeCorrect, InitBitsExact, NextBitsExact, PTL DEF Spec

-----------------------------------------------------------------------------
(* items_added against the distinct items added.  The inductive invariant *)
(* adds that the history set is finite, which Cardinality needs.           *)

CountInv == TypeOK /\ IsFiniteSet(added) /\ CallsCoverDistinct

LEMMA InitCount == Init => CountInv
BY InitTypeOK, FS_EmptySet DEF Init, CountInv, CallsCoverDistinct

LEMMA NextCount == CountInv /\ [Next]_vars => CountInv'
<1> SUFFICES ASSUME CountInv, [Next]_vars PROVE CountInv'
    OBVIOUS
<1>1. TypeOK'
    BY NextTypeOK DEF CountInv
<1>2. ASSUME NEW x \in Items, Add(x)
      PROVE  IsFiniteSet(added') /\ CallsCoverDistinct'
    <2>1. IsFiniteSet(added')
          /\ Cardinality(added') =
             IF x \in added THEN Cardinality(added) ELSE Cardinality(added) + 1
        BY <1>2, FS_AddElement DEF Add, CountInv
    <2>2. Cardinality(added) \in Nat /\ items_added \in Nat
        BY FS_CardinalityType DEF CountInv, TypeOK
    <2>3. items_added' = items_added + 1 /\ added' # {}
        BY <1>2 DEF Add
    <2>4. QED
        BY <2>1, <2>2, <2>3 DEF CountInv, CallsCoverDistinct
<1>3. ASSUME NEW x \in Items, Contains(x)
      PROVE  IsFiniteSet(added') /\ CallsCoverDistinct'
    BY <1>3 DEF Contains, CountInv, CallsCoverDistinct
<1>4. CASE UNCHANGED vars
    BY <1>1, <1>4 DEF vars, CountInv, CallsCoverDistinct
<1>5. QED
    BY <1>1, <1>2, <1>3, <1>4 DEF Next, CountInv

(* __len__ never reports fewer calls than distinct items added, and it is *)
(* 0 exactly before the first add.                                         *)
THEOREM CallsCoverDistinctHolds == Spec => []CallsCoverDistinct
BY InitCount, NextCount, PTL DEF Spec, CountInv

=============================================================================
