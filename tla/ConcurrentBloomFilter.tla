------------------------ MODULE ConcurrentBloomFilter ------------------------
(***************************************************************************)
(* One BloomFilter instance shared by several threads that call add and    *)
(* contains without a lock.  Each call is split into the steps the code    *)
(* performs one at a time on shared state:                                 *)
(*                                                                         *)
(*   add:      one store self.bit_array[position] = True per position      *)
(*             (lines 222-223), then self.items_added += 1 (line 226) as a *)
(*             load of items_added and a store of the loaded value + 1;    *)
(*   contains: one load of self.bit_array[position] per position, with the *)
(*             early return False at the first clear bit (lines 254-256).  *)
(*                                                                         *)
(* _get_hash_values reads only size, hash_count and the digests, none of   *)
(* which any call changes, so it is part of the first step of a call.      *)
(* A list item store or load is atomic in CPython, with or without the     *)
(* GIL.  items_added += 1 is not: the free-threaded build can switch       *)
(* threads between the load and the store, so the model lets any step of  *)
(* another thread run in between.                                          *)
(***************************************************************************)
EXTENDS Naturals, FiniteSets

CONSTANTS
    Items,      \* the Python values the threads add or look up
    Str,        \* Str[x]: the bytes str(x).encode('utf-8') hashed for x
    Size,       \* self.size (m)
    HashCount,  \* self.hash_count (k)
    MaxAdds,    \* bound on the number of add calls started
    NoItem,     \* no item: the item of a thread that has made no call
    Threads     \* the threads sharing the instance

(* The instance exists: BloomFilter.__init__ accepted size and hash_count. *)
ASSUME SizeAssumption == Size \in Nat \ {0}
ASSUME HashCountAssumption == HashCount \in Nat \ {0}
(* The bound on add calls is a number, and a program runs finitely many   *)
(* threads.                                                                *)
ASSUME MaxAddsAssumption == MaxAdds \in Nat
ASSUME ThreadsAssumption == IsFiniteSet(Threads)
(* NoItem is not an item a thread passes. *)
ASSUME NoItemAssumption == NoItem \notin Items

VARIABLES
    md5, sha256,  \* the digests of the byte strings, as in BloomFilter
    bit_array,    \* self.bit_array
    items_added,  \* self.items_added
    pc,           \* pc[t]: where thread t is in its current call
    item,         \* item[t]: the argument of t's current call
    idx,          \* idx[t]: the loop index i into hash_values
    tmp,          \* tmp[t]: the value of items_added that t's += loaded
    owed,         \* owed[t]: item[t]'s add had returned when contains began
    answer,       \* answer[t]: what t's last contains returned, and owed
    reply,        \* history: the item and the result of the last contains
    returned,     \* history: the items of add calls that have returned
    adds_done     \* history: the number of add calls that have returned

vars == <<md5, sha256, bit_array, items_added, pc, item, idx, tmp, owed,
          answer, reply, returned, adds_done>>

(* The sequential filter over the same state, for its position generator   *)
(* and its no-false-negative property, with the returned adds as added.   *)
BF == INSTANCE BloomFilter WITH
    added <- returned,
    answer <- [item |-> NoItem, result |-> FALSE]

AddPcs == {"add_bits", "add_load", "add_store"}

(* The position hash_values[idx[t]] of thread t's current call. *)
Position(t) == BF!HashValue(item[t], idx[t])

(* add calls that have started and not returned. *)
AddsInFlight == Cardinality({t \in Threads : pc[t] \in AddPcs})

(* A returning call's locals (item, hash_values index, loaded count) are   *)
(* dead: they are reset so that finished calls leave no trace.            *)
Return(t) ==
    /\ item' = [item EXCEPT ![t] = NoItem]
    /\ idx' = [idx EXCEPT ![t] = 0]
    /\ tmp' = [tmp EXCEPT ![t] = 0]

(* Faulty variant: [False] * (size + 1). *)
InitExtraBit ==
    /\ md5 \in [BF!Bytes -> BF!Digest]
    /\ sha256 \in [BF!Bytes -> BF!Digest]
    /\ bit_array = [p \in 0 .. Size |-> FALSE]
    /\ items_added = 0
    /\ pc = [t \in Threads |-> "idle"]
    /\ item = [t \in Threads |-> NoItem]
    /\ idx = [t \in Threads |-> 0]
    /\ tmp = [t \in Threads |-> 0]
    /\ owed = [t \in Threads |-> FALSE]
    /\ answer = [t \in Threads |-> [result |-> FALSE, owed |-> FALSE]]
    /\ reply = [item |-> NoItem, result |-> FALSE]
    /\ returned = {}
    /\ adds_done = 0

(* BloomFilter(size, hash_count) before the threads start: all bits False. *)
Init ==
    /\ md5 \in [BF!Bytes -> BF!Digest]
    /\ sha256 \in [BF!Bytes -> BF!Digest]
    /\ bit_array = [p \in BF!Positions |-> FALSE]
    /\ items_added = 0
    /\ pc = [t \in Threads |-> "idle"]
    /\ item = [t \in Threads |-> NoItem]
    /\ idx = [t \in Threads |-> 0]
    /\ tmp = [t \in Threads |-> 0]
    /\ owed = [t \in Threads |-> FALSE]
    /\ answer = [t \in Threads |-> [result |-> FALSE, owed |-> FALSE]]
    /\ reply = [item |-> NoItem, result |-> FALSE]
    /\ returned = {}
    /\ adds_done = 0

(* Thread t calls add(x): hash_values is computed, the loop starts. *)
StartAdd(t, x) ==
    /\ pc[t] = "idle"
    /\ adds_done + AddsInFlight < MaxAdds
    /\ pc' = [pc EXCEPT ![t] = "add_bits"]
    /\ item' = [item EXCEPT ![t] = x]
    /\ idx' = [idx EXCEPT ![t] = 0]
    /\ UNCHANGED <<md5, sha256, bit_array, items_added, tmp, owed, answer,
                   reply, returned, adds_done>>

(* Faulty variant: the loop stops one position early. *)
AddSetBitSkipLast(t) ==
    /\ pc[t] = "add_bits"
    /\ bit_array' = IF idx[t] + 1 = HashCount THEN bit_array
                    ELSE [bit_array EXCEPT ![Position(t)] = TRUE]
    /\ idx' = [idx EXCEPT ![t] = idx[t] + 1]
    /\ pc' = [pc EXCEPT ![t] = IF idx[t] + 1 = HashCount THEN "add_load" ELSE "add_bits"]
    /\ UNCHANGED <<md5, sha256, items_added, item, tmp, owed, answer, reply, returned, adds_done>>

(* Faulty variant: self.items_added += 1 indented into the loop, done as  *)
(* one update per position.                                                *)
AddSetBitCountsEach(t) ==
    /\ pc[t] = "add_bits"
    /\ bit_array' = [bit_array EXCEPT ![Position(t)] = TRUE]
    /\ items_added' = items_added + 1
    /\ idx' = [idx EXCEPT ![t] = idx[t] + 1]
    /\ pc' = [pc EXCEPT ![t] = IF idx[t] + 1 = HashCount THEN "add_load" ELSE "add_bits"]
    /\ UNCHANGED <<md5, sha256, item, tmp, owed, answer, reply, returned, adds_done>>

(* Faulty variant: the positions are taken from hash index i + 1         *)
(* (for i in range(1, hash_count + 1)).                                    *)
AddSetBitShifted(t) ==
    /\ pc[t] = "add_bits"
    /\ bit_array' = [bit_array EXCEPT ![BF!HashValue(item[t], idx[t] + 1)] = TRUE]
    /\ idx' = [idx EXCEPT ![t] = idx[t] + 1]
    /\ pc' = [pc EXCEPT ![t] = IF idx[t] + 1 = HashCount THEN "add_load" ELSE "add_bits"]
    /\ UNCHANGED <<md5, sha256, items_added, item, tmp, owed, answer, reply, returned, adds_done>>

(* One iteration of the add loop: self.bit_array[position] = True. *)
AddSetBit(t) ==
    /\ pc[t] = "add_bits"
    /\ bit_array' = [bit_array EXCEPT ![Position(t)] = TRUE]
    /\ idx' = [idx EXCEPT ![t] = idx[t] + 1]
    /\ pc' = [pc EXCEPT ![t] = IF idx[t] + 1 = HashCount THEN "add_load" ELSE "add_bits"]
    /\ UNCHANGED <<md5, sha256, items_added, item, tmp, owed, answer, reply, returned, adds_done>>

(* self.items_added += 1, first half: load self.items_added. *)
AddLoad(t) ==
    /\ pc[t] = "add_load"
    /\ tmp' = [tmp EXCEPT ![t] = items_added]
    /\ pc' = [pc EXCEPT ![t] = "add_store"]
    /\ UNCHANGED <<md5, sha256, bit_array, items_added, item, idx, owed, answer,
                   reply, returned, adds_done>>

(* Faulty variant: the statement self.items_added + 1, whose value is     *)
(* discarded: the loaded value is stored back unchanged.                   *)
AddStoreDiscardsSum(t) ==
    /\ pc[t] = "add_store"
    /\ items_added' = tmp[t]
    /\ pc' = [pc EXCEPT ![t] = "idle"]
    /\ returned' = returned \cup {item[t]}
    /\ adds_done' = adds_done + 1
    /\ Return(t)
    /\ UNCHANGED <<md5, sha256, bit_array, owed, answer, reply>>

(* Second half: store the loaded value + 1; add returns. *)
AddStore(t) ==
    /\ pc[t] = "add_store"
    /\ items_added' = tmp[t] + 1
    /\ pc' = [pc EXCEPT ![t] = "idle"]
    /\ returned' = returned \cup {item[t]}
    /\ adds_done' = adds_done + 1
    /\ Return(t)
    /\ UNCHANGED <<md5, sha256, bit_array, owed, answer, reply>>

(* Thread t calls contains(x) (or x in bf). *)
StartContains(t, x) ==
    /\ pc[t] = "idle"
    /\ pc' = [pc EXCEPT ![t] = "contains_bits"]
    /\ item' = [item EXCEPT ![t] = x]
    /\ idx' = [idx EXCEPT ![t] = 0]
    /\ owed' = [owed EXCEPT ![t] = x \in returned]
    /\ UNCHANGED <<md5, sha256, bit_array, items_added, tmp, answer, reply,
                   returned, adds_done>>

(* Faulty variant: for i in range(self.hash_count + 1), one index past   *)
(* the positions add sets.                                                 *)
ContainsNextSetExtraIndex(t) ==
    /\ pc[t] = "contains_bits"
    /\ bit_array[Position(t)]
    /\ idx[t] < HashCount
    /\ idx' = [idx EXCEPT ![t] = idx[t] + 1]
    /\ UNCHANGED <<md5, sha256, bit_array, items_added, pc, item, tmp, owed,
                   answer, reply, returned, adds_done>>

(* The loaded bit is set and positions remain: the loop goes on. *)
ContainsNextSet(t) ==
    /\ pc[t] = "contains_bits"
    /\ bit_array[Position(t)]
    /\ idx[t] + 1 < HashCount
    /\ idx' = [idx EXCEPT ![t] = idx[t] + 1]
    /\ UNCHANGED <<md5, sha256, bit_array, items_added, pc, item, tmp, owed,
                   answer, reply, returned, adds_done>>

(* contains returns: False at the first clear bit, True after the last    *)
(* bit was found set.                                                      *)
ContainsReturn(t) ==
    /\ pc[t] = "contains_bits"
    /\ (~bit_array[Position(t)] \/ idx[t] + 1 = HashCount)
    /\ answer' = [answer EXCEPT ![t] = [result |-> bit_array[Position(t)], owed |-> owed[t]]]
    /\ reply' = [item |-> item[t], result |-> bit_array[Position(t)]]
    /\ pc' = [pc EXCEPT ![t] = "idle"]
    /\ owed' = [owed EXCEPT ![t] = FALSE]
    /\ Return(t)
    /\ UNCHANGED <<md5, sha256, bit_array, items_added, returned, adds_done>>

(* The steps of a call in progress, which no other thread can block. *)
Step(t) ==
    \/ AddSetBit(t) \/ AddLoad(t) \/ AddStore(t)
    \/ ContainsNextSet(t) \/ ContainsReturn(t)

Next ==
    \E t \in Threads :
        \/ \E x \in Items : StartAdd(t, x) \/ StartContains(t, x)
        \/ Step(t)

(* Only safety is claimed, so no fairness is assumed of the scheduler.     *)
Spec == Init /\ [][Next]_vars

-----------------------------------------------------------------------------
(***************************************************************************)
(* Properties.                                                             *)
(***************************************************************************)

TypeOK ==
    /\ md5 \in [BF!Bytes -> BF!Digest]
    /\ sha256 \in [BF!Bytes -> BF!Digest]
    /\ bit_array \in [BF!Positions -> BOOLEAN]
    /\ items_added \in 0 .. MaxAdds
    /\ pc \in [Threads -> {"idle", "contains_bits"} \cup AddPcs]
    /\ item \in [Threads -> Items \cup {NoItem}]
    /\ idx \in [Threads -> 0 .. HashCount]
    /\ tmp \in [Threads -> 0 .. MaxAdds]
    /\ owed \in [Threads -> BOOLEAN]
    /\ answer \in [Threads -> [result : BOOLEAN, owed : BOOLEAN]]
    /\ reply \in [item : Items \cup {NoItem}, result : BOOLEAN]
    /\ returned \in SUBSET Items
    /\ adds_done \in 0 .. MaxAdds

(* No false negatives survive unsynchronised threads: once add(x) has      *)
(* returned, every bit of x is set, whatever adds of other threads ran    *)
(* between its stores (a store of True never undoes another's).           *)
ReturnedAddsVisible == BF!NoFalseNegatives

(* A contains(x) that began after an add(x) returned answers True, even    *)
(* while other threads are adding: the concurrent filter still has no     *)
(* false negatives from the caller's point of view.                       *)
ContainsAfterAddTrue == \A t \in Threads : answer[t].owed => answer[t].result

(***************************************************************************)
(* Linearizability.  Every add and every contains takes effect at one of   *)
(* its steps: an add at the store that ends it, a contains at its last     *)
(* load, so that the shared filter behaves as the approximate set whose    *)
(* operations are atomic.  The set's counter is the number of returned     *)
(* adds, not items_added, which the lost update makes differ.             *)
(***************************************************************************)
Linear == INSTANCE ApproxMembership WITH
    Keys <- BF!Bytes,
    NoKey <- NoItem,
    members <- {Str[x] : x \in returned},
    count <- adds_done,
    reply <- [key |-> IF reply.item = NoItem THEN NoItem ELSE Str[reply.item],
              result |-> reply.result]

(* The items whose add call has started, returned or not. *)
AddsStarted == returned \cup {item[t] : t \in {u \in Threads : pc[u] \in AddPcs}}

(* Racing stores never set a stray bit: every set bit is a position of    *)
(* some add that has started, so a false positive under concurrency comes *)
(* only from collisions with items being or having been added.            *)
NoStrayBits ==
    \A p \in BF!Positions :
        bit_array[p] => \E x \in AddsStarted, i \in BF!HashIndices : BF!HashValue(x, i) = p

(* Unsynchronised threads still implement the approximate set: a contains  *)
(* that reads a clear bit of x at its return never runs after an add of a  *)
(* string equal to str(x) has returned.                                    *)
LinearizableSpec == Linear!Spec

(* However the threads interleave, len(bf) never exceeds the number of    *)
(* add calls that have returned: a lost update of items_added += 1 only   *)
(* ever undercounts, and an add in progress is not yet counted.           *)
LenNeverOvercounts == items_added <= adds_done

(* The empty phase is never re-entered: once an add call has returned,   *)
(* len(bf) > 0, so estimate_false_positive_rate no longer answers 0 as   *)
(* for an empty filter, however many updates were lost.                   *)
NeverEmptyAgain == adds_done > 0 => items_added > 0

(* insertedCount only increases (__len__ never goes down): the spec's    *)
(* promise for the counter, checked here under unsynchronised threads.   *)
LenNeverDecreases == [][items_added' >= items_added]_vars

(* __len__ promises the number of items added: when no add is running,    *)
(* items_added equals the number of add calls that returned.              *)
LenCountsReturnedAdds == AddsInFlight = 0 => items_added = adds_done

=============================================================================
