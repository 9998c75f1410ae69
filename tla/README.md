# Formal model of the Bloom filter (`src/algorithms/bloom_filter`)

This directory holds TLA+ modules for `src/algorithms/bloom_filter/bloom_filter.py`,
the TLC configurations that model-check them, and TLAPS proofs about them.

## 1. Inventory

The repository is one Python class and three helper functions, plus a pytest suite.

| Component | Source | State it keeps | Operations |
|---|---|---|---|
| Filter Core | `BloomFilter` (lines 84-324) | `size`, `hash_count` (fixed), `bit_array` (list of `size` booleans), `items_added` (call counter) | `__init__`, `add`, `contains`, `__contains__`, `__len__`, `estimate_false_positive_rate`, `get_fill_ratio`, `__repr__` |
| Position Generator | `_get_hash_values` (162-197) | none | `str(item).encode`, the md5 and sha256 digests of those bytes, positions `(h1 + i*h2) % size` for `i in range(hash_count)` |
| Parameter Optimizer | `create_optimal` (122-160), `calculate_optimal_size` (329-342), `calculate_optimal_hash_count` (345-358), `bits_per_element` (361-378) | none | closed-form sizing formulas, then the constructor |
| External primitives | `hashlib`, `math`, `str` | none | black boxes |
| Tests | `test_bloom_filter.py` | none | not a component; read for the behaviour asserted |

**How they interact.** `create_optimal` validates its parameters, computes
`size` and `hash_count` and calls the constructor. `add` and `contains`
both call `_get_hash_values`. `add` sets the bits it returns and increments
`items_added`. `contains` stops at the first clear bit. The statistics
accessors only read `bit_array` and `items_added`. The class takes no lock, so threads that share an
instance interleave at every list store, every list load and between the
load and the store of `items_added += 1`. There are no callbacks, messages
or I/O, and nothing is persisted.

**What is hard here.** There is no concurrency in the design, so the
difficulty lies in the data:
* Collision patterns between the positions of different items. These
  depend on the digests, which no test controls. `h2 % m` can be 0, which
  collapses all k positions onto one bit.
* The identity used for membership is `str(item)`, not Python equality.
* Float rounding and `int()` truncation at the edges of the formulas.
* Long sequences of adds of colliding items, mixed with lookups.

The spec does name one concurrent hazard, races "on the same bit position",
and puts concurrent use out of scope. `ConcurrentBloomFilter` models that
use to show which guarantees survive it and which do not.

**What makes each component correct.**
* Core:
  * No false negatives.
  * The bit array is determined by the set of items added, regardless of order or repetition.
  * Bits are never cleared, so the fill ratio never decreases.
  * `items_added` counts calls.
  * The estimate stays in [0, 1).
* Position generator: determinism, since positions are a function of `str(item)`. Every position is in `0..size-1`.
* Optimizer:
  * Only invalid parameters are rejected.
  * The size and hash count it produces are at least 1.
  * `create_optimal` and the standalone helpers agree.

## 2. Modules

| Module | Models | State / actions |
|---|---|---|
| `BloomFilter` | Filter core and position generator | see below |
| `ApproxMembership` | What the filter promises (abstract) | `members` (a set of keys that only grows), `count`, `reply`. `Insert(k)`; `Query(k)` must answer TRUE for a member and may answer anything otherwise |
| `MCBloomFilter` | TLC instance of the core | items `1`, `1.0`, `"1"` as model values `i1`, `f1`, `s1`. `str` maps them to `"1"`, `"1.0"`, `"1"`. Python `==` relates `i1` and `f1` |
| `BloomFilterProofs` | TLAPS proofs about `BloomFilter` | |
| `BloomFilterFactory` | `BloomFilter(size, hash_count)` and `create_optimal` | `outcome` (a filter's parameters or `ValueError(msg)`), `call`. `Construct(s, k)`, `CreateOptimal(n, r)` |
| `BloomFilterFactory` (cont.) | `calculate_optimal_size`, `calculate_optimal_hash_count`, `bits_per_element` | `CallOptimalSize(n, r)`, `CallOptimalHashCount(m, n)`, `CallBitsPerElement(r)`; the outcome is a value, a `ValueError` (math domain error included) or `ZeroDivisionError` |
| `MCBloomFilterFactory` | TLC instance of the factory | sizes -1..3, hash counts -1..2, expected_elements -1..3; rates 0, 0.01, 0.5, 0.7, 1, 1.5 |
| `BloomFilterFactoryProofs` | TLAPS proofs about `BloomFilterFactory` | |
| `ConcurrentBloomFilter` | Threads sharing one instance without a lock | per thread: `pc`, `item`, `idx` (the loop index), `tmp` (the count `+=` loaded), `owed`, `answer`; shared: `bit_array`, `items_added`; history: `returned`, `adds_done`, `reply` (the last lookup's item and result). Actions `StartAdd`, `AddSetBit`, `AddLoad`, `AddStore`, `StartContains`, `ContainsNextSet`, `ContainsReturn` |
| `MCConcurrentBloomFilter` | TLC instance: threads `t1`, `t2`, items `a1`, `a2`, m = 3, k = 2, at most 2 adds | |
| `ConcurrentBloomFilterProofs` | TLAPS proofs about `ConcurrentBloomFilter`, for any number of threads | |

### `BloomFilter` in detail

It has these constants:
* `Items`.
* `Str`: the `str(item).encode()` map.
* `Size` and `HashCount`, with the constructor's guards as the named
  assumptions `SizeAssumption` and `HashCountAssumption`.
* `MaxAdds`: the bound on add calls.
* `NoItem`.

It has these variables:
* `md5`, `sha256`: the digests of each byte string. `Init` chooses them
  among all functions into `0..Size-1`, and they never change afterwards
  (hashlib is deterministic). Only a digest's residue modulo `Size` enters
  `(h1 + i*h2) % size`, so this covers every position pattern the real
  digests can produce, including `h2 ≡ 0`.
* `bit_array`, `items_added`: the object's fields.
* `added`: a history variable holding the items `add` was called with.
* `answer`: the value returned by the last `contains`.

The actions follow the code:
* `Init` is `__init__` after its guards.
* `Add(x)` is the whole of `add`. It sets every bit of
  `Footprint(x) = {GetHashValues(x)[i]}` and increments `items_added`, even
  for a duplicate. Its guard `items_added < MaxAdds` is the model's bound.
* `Contains(x)` is `contains` and its alias `__contains__`. It is read-only
  and records `ContainsResult(x)`: all k bits are set.

Three accessors are state functions, not actions, because they change nothing:
* `get_fill_ratio` is `SetBits / Size`.
* `__len__` is `items_added`.
* `estimate_false_positive_rate` is modelled only by whether its float
  result is exactly 1.0 (`EstimateIsOne`). `1 - exp(-x)` rounds to 1.0
  exactly when `exp(-x) <= 2^-54`, that is when `x >= 54 ln 2 ≈ 37.42995`.
  A power `b**k` with `b < 1` stays below 1.

`BloomFilterFactory` abstracts `math.log` as a table `LnMicro` of
`round(10^6 * ln r)` values. `int()` is `TruncDiv`, which truncates toward
zero. `bits_per_element` returns a float and is kept in hundredths of a
bit. Each helper call records its arguments in `call` so that properties
can judge the outcome against them. Double rounding next to an integer boundary is not modelled; none of
the rates in the instance come near one.

### `ConcurrentBloomFilter` in detail

It reuses `BloomFilter`'s positions through `BF == INSTANCE BloomFilter`.
Each call is cut where the code touches shared state:
* `StartAdd(t, x)` computes `hash_values` (it reads only fields that never change).
* `AddSetBit(t)` is one `self.bit_array[position] = True` (line 223).
* `AddLoad(t)` and `AddStore(t)` are the two halves of `self.items_added += 1` (line 226).
* `StartContains(t, x)` and `ContainsNextSet(t)` are one load per position.
* `ContainsReturn(t)` is the early `return False`, or the final `return True`.

List loads and stores are atomic in CPython. A `+=` on an attribute is not,
in the free-threaded build or between bytecodes. When a call returns, its
dead locals are reset, so that finished calls leave no trace in the state.
`owed[t]` records whether `item[t]`'s add had returned when the lookup
began. `returned`, `adds_done` and `reply` are history variables. They
feed the properties and the refinement mapping, and no action reads them
in a guard or an assignment of code state.

**Linearizability.** `Linear == INSTANCE ApproxMembership` maps the state
as follows:
* `members <- {Str[x] : x \in returned}`;
* `count <- adds_done`;
* `reply <- ` the key and result of `reply`.

`AddStore` (the end of `add`) maps to `Insert`, and `ContainsReturn` (the
last load of `contains`) maps to `Query`. Every other step stutters. The
abstract count is the number of returned adds, not `items_added`: the lost
update makes the two differ, so `__len__` is not linearizable.

## 3. Runs

| Run | Config | Expect | What it shows |
|---|---|---|---|
| `core` | `MCBloomFilter.cfg`: m = 3, k = 2, up to 4 adds, 3 items | pass | `TypeOK`, `NoFalseNegatives`, `BitsExact`, `CallsCoverDistinct`, `ApproxSpec`, for all 81 digest choices (2 byte strings, residues 0..2 each) |
| `equality_false_negative` | `MCBloomFilterEquality.cfg` | violation | `add(1)` followed by `1.0 in bf` can answer False |
| `estimate_reaches_one` | `MCBloomFilterEstimate.cfg`: m = 1, k = 2, 19 adds | violation | `estimate_false_positive_rate()` returns exactly 1.0 |
| `create_optimal_rejects_valid` | `MCBloomFilterFactory.cfg` | violation | `create_optimal(1, 0.7)` raises `ValueError('Size must be positive')` |
| `factory` | `MCBloomFilterFactoryPass.cfg` | pass | `CreateOptimalFailsOnlyWithParameterErrors`: the guards keep `math.log` and the division from failing. `CreateOptimalAgreesWithHelpers`: every returned filter has the helpers' size and hash count (112 states, all five actions) |
| `helpers_accept_invalid` | `MCBloomFilterHelpers.cfg` | violation | `calculate_optimal_size(-1, 1.0)` returns 0 instead of rejecting |
| `concurrent` | `MCConcurrentBloomFilter.cfg` | pass | `TypeOK`, `ReturnedAddsVisible`, `ContainsAfterAddTrue`, `LenNeverOvercounts`, `NeverEmptyAgain`, `NoStrayBits` and the refinement `LinearizableSpec`, for all digests, over 695,091 states (about 2 minutes) |
| `concurrent_len_lost_update` | `MCConcurrentBloomFilterLen.cfg` | violation | two threads load `items_added = 0` and both store 1, so `len(bf)` is 1 after two adds |
| `concurrent_len_decreases` | `MCConcurrentBloomFilterDecrease.cfg`: 3 adds | violation | a thread stores a count it loaded before two other adds returned, so `len(bf)` goes from 2 back to 1; the spec says `insertedCount` only increases |

All six violations were confirmed against the Python code, or follow
directly from the bytecode in the case of the lost update.

**Why the concurrent bounds are enough.** Two threads and two adds give
every pair of interleavings: two concurrent adds (the lost update), and a
lookup running beside an add, before or after another add has returned.
k = 2 lets a lookup see one bit of an add and not the other. A decrease
needs one store to be older than two others, hence three adds in its own
run. The theorems below extend every safety property of the passing run to
any number of threads.

**Why the core bounds are enough.** With m = 3 and k = 2 the digests reach
every kind of position pattern:
* two distinct bits;
* both positions on one bit (`h2 ≡ 0`);
* full and partial overlap between items, and disjoint footprints.

Four adds cover all three items plus a repeat. Three items with two
distinct string forms cover both a shared string form and distinct ones.
The core run reaches 12,339 distinct states.

**Properties of the core run.**
* `NoFalseNegatives`: every added item is found in every later state.
* `BitsExact`: `bit_array` equals the union of the footprints of `added`.
  This is the spec's idempotence, and it also excludes stray bits.
* `CallsCoverDistinct`: `items_added >= |added|`, and `items_added = 0`
  exactly in the empty phase. A plausible "count distinct items" fix
  breaks it through false positives.
* `ApproxSpec`: the refinement explained below.

Each property has a mutant in `PROJECT.json` (a dropped position, a reset
array, a dedup counter, an extra index in `contains`, one extra bit) that
TLC catches.

**Refinement.** `BloomFilter` instantiates `ApproxMembership` with this mapping:
* `Keys <- Bytes`
* `members <- {Str[x] : x \in added}`
* `count <- items_added`
* `reply <-` the answer's byte string and result

So a lookup may return a false positive but never a false negative *for
the same string form*. The `equality_false_negative` run shows that this
is all the code guarantees.

**Fairness.** None is assumed. Every property is a safety property or a
refinement of a safety specification. No operation of the code is obliged
to happen. In the concurrent model no step waits on another thread, since
nothing is locked, so a call in progress always has an enabled step. That
an add whose thread keeps running finishes its bounded loop is immediate,
and it says nothing beyond `ReturnedAddsVisible`.

## 4. Proofs (checked by `tlapm`)

**`BloomFilterProofs`**.

The proofs assume `SizeAssumption`, `HashCountAssumption` and
`MaxAddsAssumption`, plus `NoItemAssumption` for the refinement. They hold
for every set of items, every `str` map, and every pair of digest functions.

The lemmas:
* `HashValueInRange` and `FootprintInRange`: `(h1 + i*h2) % Size` lies in `0..Size-1`.
* `SameBytesSamePositions`: items with equal `str` have equal positions.
* `MembersAnswerTrue`: a query for an inserted byte string answers TRUE.

The theorems:
* `TypeCorrect`: `Spec => []TypeOK`. `TypeOK` is inductive on its own.
* `NoFalseNegativesHold`: `Spec => []NoFalseNegatives`, with the inductive
  invariant `NFNInv == TypeOK /\ NoFalseNegatives`. `TypeOK` is needed so
  that every hash position is an index of `bit_array`. The `Add` case then
  splits on whether the item is the one being added (its bits are set now)
  or an earlier one (its bits were set and stay set).
* `BitsExactHolds`: `Spec => []BitsExact`. `BitsExact` is inductive
  given `TypeOK`: `add(x)` ORs in `Footprint(x)`, and the digests, hence
  every footprint, are unchanged by every step.
* `CallsCoverDistinctHolds`: `Spec => []CallsCoverDistinct`, with
  `CountInv == TypeOK /\ IsFiniteSet(added) /\ CallsCoverDistinct`.
  Finiteness is needed for `FS_AddElement` of `FiniteSetTheorems`: an add
  raises `Cardinality(added)` by at most one and `items_added` by exactly one.
* `RefinesApprox`: `Spec => ApproxSpec`. `Init` maps to the abstract
  `Init`. `Add(x)` maps to `Insert(Str[x])`. `Contains(x)` maps to
  `Query(Str[x])`, where `NFNInv` and `SameBytesSamePositions` supply the
  obligation that a member answers TRUE.

**`BloomFilterFactoryProofs`** assumes only `ConstantsAssumption`: the
constant sets are integers, rates are records of integers, and `LnMicro`
is any table. So the results hold for every real logarithm.
* `CreateOptimalOutcomes` (lemma): `create_optimal` returns one of the four
  parameter errors, or it has passed both guards and returns
  `Filter(OptimalSize, OptimalHashCount)` (possibly via the constructor's
  errors). `ParameterErrorsAreValueErrors` and `HelpersAgree` support it.
* `CreateOptimalFailsOnlyWithParameterErrorsHolds` and
  `CreateOptimalAgreesWithHelpersHolds`: each property is inductive on its
  own, because only the `CreateOptimal` step can set `call.kind` to
  `"create_optimal"`.

**`ConcurrentBloomFilterProofs`** holds for any set of threads, any size
and hash count, and any digests. Its inductive invariant `Inv` is
`PTypeOK`, plus "every returned item has all bits set", plus
`ThreadInv(t)` for every thread:
* in `add_bits`, the positions before `idx[t]` are set;
* in `add_load`/`add_store`, all of `item[t]`'s positions are set;
* in `contains_bits`, if the lookup is owed True then `item[t]` is returned;
* a recorded answer that was owed is True.

The two invariants are not inductive by themselves. An `AddStore` adds
`item[t]` to `returned`, which is safe only because of the `add_store`
conjunct. A `ContainsReturn` answers True, when owed, only because every
bit of a returned item is set. The proof cases on the seven actions and,
under each, on the acting thread against any other thread
(`OwnThreadKept`, `OtherThreadKept`). `StepKeepsAllSet` carries the fact
that bits only go up. The theorems are `ReturnedAddsVisibleHolds` and
`ContainsAfterAddTrueHolds`.

The counters need `CountInv`, with two named assumptions. `MaxAdds` is a
number. `Threads` is finite, which holds because a program runs finitely
many threads. `CountInv` says:
* adds returned plus adds in flight (`Cardinality(InFlight)`) stay within
  `MaxAdds`. `StartAdd` adds a thread to `InFlight` (`FS_AddElement`), and
  `AddStore` removes it (`FS_RemoveElement`);
* every count a thread has loaded is at most `adds_done`;
* `items_added <= adds_done`, and `items_added > 0` once `adds_done > 0`.

The second conjunct is what makes the third inductive. A store writes a
loaded count plus one, and the add that stores it returns in the same
step. So `TypeCorrect`, `LenNeverOvercountsHolds` and
`NeverEmptyAgainHolds` follow from `Inv /\ CountInv`.

`NoStrayBitsHolds` rests on `StartedGrows`: the set of items whose add has
started never shrinks, because a returning add moves its item into
`returned`. The only store sets a position of an add in flight.

`LinearizableSpecHolds` is a step-by-step refinement proof:
* `StoreInserts`: `AddStore` is `Insert(Str[item[t]])`.
* `ReturnQueries`: `ContainsReturn` is `Query(Str[item[t]])`. Its
  obligation, that a member answers True, comes from `Inv` through
  `MemberBitSet`: a returned item with the same string form has all its
  bits set, at the same positions.
* `StutterSteps`: all other steps stutter.

Only TLC checks these:
* Anything about floats and the exact values of the logarithms.
* `LenCountsReturnedAdds` and `LenNeverDecreases`, which are false.

## 5. Not modelled, and why

* `__repr__`: formatting only.
* hashlib and math internals: black boxes. The digests are arbitrary
  functions, `log` is a table, and `exp` is reduced to its rounding threshold.
* Cross-process determinism of `str()`: the model fixes one `str` map per
  run, and the code persists nothing.
* Concurrent use of the statistics accessors: they only read, and they inherit the lost update through `items_added`.
* Concurrent use under the GIL with a thread switch inside `+=`: this is the same interleaving as the free-threaded build, so it is covered.

## 6. Plan

Done so far:
* the core, its abstract specification and the refinement;
* the factory, including the standalone helpers;
* the concurrent model, and its linearizability;
* fourteen theorems.

Next:
1. **Lifecycle composition (`BloomFilterSystem`).** Make `size` and
   `hash_count` variables chosen by `Construct` or `CreateOptimal`. The
   core runs only on a filter that was created.
2. **Single-thread refinement.** Show that `ConcurrentBloomFilter` with
   one thread implements `BloomFilter` itself, bit array included.
3. **Proofs.** `TruncDiv` bounds, and `OptimalHashCount >= 1`.
