---------------------------- MODULE BloomFilter ----------------------------
(***************************************************************************)
(* The filter core of src/algorithms/bloom_filter/bloom_filter.py: one     *)
(* BloomFilter instance after a successful BloomFilter(size, hash_count),  *)
(* its add and contains operations, the position generator                 *)
(* _get_hash_values they share, and the statistics accessors.              *)
(*                                                                         *)
(* Items are abstract Python values.  The code never looks at an item      *)
(* except through str(item).encode('utf-8'), so each item carries its      *)
(* string form Str[x]; the two digests md5 and sha256 are functions of     *)
(* that string form.  They are fixed by hashlib, but the model does not    *)
(* know them: Init picks them among all functions, so every pattern of     *)
(* collisions between the positions of different items is explored.  Only *)
(* a digest's residue modulo Size matters to (h1 + i * h2) % size, so the  *)
(* digests range over 0..Size-1 without losing any position pattern.      *)
(***************************************************************************)
EXTENDS Naturals, FiniteSets

CONSTANTS
    Items,      \* the Python values the caller may add or look up
    Str,        \* Str[x]: the bytes str(x).encode('utf-8') hashed for x
    Size,       \* self.size (m)
    HashCount,  \* self.hash_count (k)
    MaxAdds,    \* bound on the number of add calls explored
    NoItem      \* the item of answer before any contains call

(* The guards of BloomFilter.__init__: size <= 0 and hash_count <= 0 raise *)
(* ValueError, so an instance that exists has both positive.               *)
ASSUME SizeAssumption == Size \in Nat \ {0}
ASSUME HashCountAssumption == HashCount \in Nat \ {0}
ASSUME MaxAddsAssumption == MaxAdds \in Nat
ASSUME StrAssumption == DOMAIN Str = Items
ASSUME NoItemAssumption == NoItem \notin Items

(* The byte strings the items are hashed as. *)
Bytes == {Str[x] : x \in Items}

(* Bit positions of the array, and the index range of range(hash_count). *)
Positions == 0 .. (Size - 1)
HashIndices == 0 .. (HashCount - 1)

(* The residues of int(hexdigest, 16) that matter modulo Size. *)
Digest == Positions

VARIABLES
    md5,        \* md5[s]: int(hashlib.md5(s).hexdigest(), 16), modulo Size
    sha256,     \* sha256[s]: the same for hashlib.sha256
    bit_array,  \* self.bit_array
    items_added,\* self.items_added
    added,      \* history: the items add has been called with
    answer      \* what the last contains / __contains__ call returned

vars == <<md5, sha256, bit_array, items_added, added, answer>>

(* answer before any contains call. *)
NoAnswer == [item |-> NoItem, result |-> FALSE]

(***************************************************************************)
(* _get_hash_values(item): the list [(h1 + i * h2) % size for i in         *)
(* range(hash_count)], with h1 the md5 and h2 the sha256 digest of         *)
(* str(item).                                                              *)
(***************************************************************************)
HashValue(x, i) == (md5[Str[x]] + i * sha256[Str[x]]) % Size
GetHashValues(x) == [i \in HashIndices |-> HashValue(x, i)]

(* The bits that add(x) sets. *)
Footprint(x) == {GetHashValues(x)[i] : i \in HashIndices}

(* Faulty variant: for i in range(self.hash_count + 1) in contains only. *)
ContainsResultExtraIndex(x) == \A i \in 0 .. HashCount : bit_array[HashValue(x, i)]

(* contains(item): False at the first position whose bit is False, True   *)
(* if all hash_count bits are True.                                        *)
ContainsResult(x) == \A i \in HashIndices : bit_array[GetHashValues(x)[i]]

(* get_fill_ratio() is SetBits / Size. *)
SetBits == Cardinality({p \in Positions : bit_array[p]})

(***************************************************************************)
(* estimate_false_positive_rate(): 0.0 when items_added = 0, otherwise     *)
(* (1 - exp(-k * n / m)) ** k in double precision.  Only whether the       *)
(* float result is exactly 1.0 is modelled: 1 - exp(-x) rounds to 1.0      *)
(* exactly when exp(-x) <= 2^-54, i.e. x >= 54 * ln 2 = 37.42995 (to 5     *)
(* decimals), and base ** k = 1.0 only when base = 1.0.                    *)
(***************************************************************************)
EstimateIsOne ==
    /\ items_added # 0
    /\ 100000 * HashCount * items_added >= 3742995 * Size

-----------------------------------------------------------------------------
(***************************************************************************)
(* Faulty variants of the operations below, each a plausible slip in the   *)
(* code, used to confirm that the properties at the end of the module     *)
(* detect it.                                                              *)
(***************************************************************************)

(* [False] * (size + 1): one bit too many. *)
InitExtraBit ==
    /\ md5 \in [Bytes -> Digest]
    /\ sha256 \in [Bytes -> Digest]
    /\ bit_array = [p \in 0 .. Size |-> FALSE]
    /\ items_added = 0
    /\ added = {}
    /\ answer = NoAnswer

(* for i in range(self.hash_count - 1): the last position is never set. *)
AddSkipLast(x) ==
    /\ items_added < MaxAdds
    /\ bit_array' = [p \in Positions |->
                        bit_array[p] \/ \E i \in 0 .. (HashCount - 2) : p = HashValue(x, i)]
    /\ items_added' = items_added + 1
    /\ added' = added \cup {x}
    /\ UNCHANGED <<md5, sha256, answer>>

(* self.bit_array = [False] * self.size before setting the bits. *)
AddResetArray(x) ==
    /\ items_added < MaxAdds
    /\ bit_array' = [p \in Positions |-> p \in Footprint(x)]
    /\ items_added' = items_added + 1
    /\ added' = added \cup {x}
    /\ UNCHANGED <<md5, sha256, answer>>

(* items_added counted only when the item was not already present. *)
AddCountDistinct(x) ==
    /\ items_added < MaxAdds
    /\ bit_array' = [p \in Positions |-> bit_array[p] \/ p \in Footprint(x)]
    /\ items_added' = IF ContainsResult(x) THEN items_added ELSE items_added + 1
    /\ added' = added \cup {x}
    /\ UNCHANGED <<md5, sha256, answer>>

-----------------------------------------------------------------------------

(* BloomFilter(size, hash_count): all bits False, no item added.  The      *)
(* digests are whatever hashlib computes, fixed for the whole run.         *)
Init ==
    /\ md5 \in [Bytes -> Digest]
    /\ sha256 \in [Bytes -> Digest]
    /\ bit_array = [p \in Positions |-> FALSE]
    /\ items_added = 0
    /\ added = {}
    /\ answer = NoAnswer

(* add(item): set the bit at every hash position, then count the call,     *)
(* whether or not the item was added before.                               *)
Add(x) ==
    /\ items_added < MaxAdds
    /\ bit_array' = [p \in Positions |-> bit_array[p] \/ p \in Footprint(x)]
    /\ items_added' = items_added + 1
    /\ added' = added \cup {x}
    /\ UNCHANGED <<md5, sha256, answer>>

(* contains(item), and item in bf through __contains__: read-only. *)
Contains(x) ==
    /\ answer' = [item |-> x, result |-> ContainsResult(x)]
    /\ UNCHANGED <<md5, sha256, bit_array, items_added, added>>

Next == \E x \in Items : Add(x) \/ Contains(x)

Spec == Init /\ [][Next]_vars

-----------------------------------------------------------------------------
(***************************************************************************)
(* Properties.                                                             *)
(***************************************************************************)

(* Every variable keeps its type; in particular the bit array keeps        *)
(* exactly Size cells ([False] * size is never resized).                   *)
TypeOK ==
    /\ md5 \in [Bytes -> Digest]
    /\ sha256 \in [Bytes -> Digest]
    /\ bit_array \in [Positions -> BOOLEAN]
    /\ items_added \in 0 .. MaxAdds
    /\ added \in SUBSET Items
    /\ answer \in [item : Items \cup {NoItem}, result : BOOLEAN]

(* No false negatives: once add(x) has returned, contains(x) returns True  *)
(* in every later state, whatever else was added in between.               *)
NoFalseNegatives == \A x \in added : ContainsResult(x)

(* The bit array is determined by the set of items added: bit p is set     *)
(* exactly when some added item hashes to p.  Order and repetition of the  *)
(* add calls leave no trace (adding twice = adding once) and no bit is set *)
(* that no add set.                                                        *)
BitsExact ==
    bit_array = [p \in Positions |-> \E x \in added : p \in Footprint(x)]

(* items_added counts add calls, duplicates and false-positive items      *)
(* included, so it is never below the number of distinct items added, and *)
(* it is 0 exactly in the empty phase, before the first add.              *)
CallsCoverDistinct ==
    /\ items_added >= Cardinality(added)
    /\ (items_added = 0) = (added = {})

(* The interface promises estimate_false_positive_rate() in [0, 1): it is  *)
(* never exactly 1.0.                                                       *)
EstimateBelowOne == ~EstimateIsOne

(***************************************************************************)
(* The filter implements an approximate membership set over the byte       *)
(* strings items are hashed as: add inserts str(x), __len__ counts calls,  *)
(* and contains may answer True for a string never inserted but always     *)
(* answers True for one that was.                                          *)
(***************************************************************************)
Approx == INSTANCE ApproxMembership WITH
    Keys <- Bytes,
    NoKey <- NoItem,
    members <- {Str[x] : x \in added},
    count <- items_added,
    reply <- [key |-> IF answer.item = NoItem THEN NoItem ELSE Str[answer.item],
              result |-> answer.result]

(* The filter's behaviours are behaviours of the approximate set. *)
ApproxSpec == Approx!Spec

=============================================================================
