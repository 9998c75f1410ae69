---------------------- MODULE BloomFilterFactoryProofs ----------------------
(***************************************************************************)
(* Proofs about construction, for every set of arguments and every table   *)
(* of logarithms: what create_optimal can raise, and that it agrees with   *)
(* the module-level helpers.                                               *)
(***************************************************************************)
EXTENDS BloomFilterFactory, TLAPS

USE ConstantsAssumption

(* What __init__ returns: one of its two errors or a filter. *)
LEMMA InitOutcomes ==
    ASSUME NEW s \in Int, NEW k \in Int
    PROVE  \/ BloomFilterInit(s, k) \in ParameterErrors
           \/ BloomFilterInit(s, k) = Filter(s, k) /\ s > 0 /\ k > 0
<1>1. CASE s <= 0
    <2>1. BloomFilterInit(s, k) = SizeError
        BY <1>1 DEF BloomFilterInit
    <2>2. QED
        BY <2>1 DEF ParameterErrors
<1>2. CASE s > 0 /\ k <= 0
    <2>1. BloomFilterInit(s, k) = HashCountError
        BY <1>2 DEF BloomFilterInit
    <2>2. QED
        BY <2>1 DEF ParameterErrors
<1>3. CASE s > 0 /\ k > 0
    <2>1. BloomFilterInit(s, k) = Filter(s, k)
        BY <1>3 DEF BloomFilterInit
    <2>2. QED
        BY <1>3, <2>1
<1>4. QED
    BY <1>1, <1>2, <1>3

(* Past its guards, create_optimal evaluates math.log on a positive rate  *)
(* and divides by a positive count: only __init__ can still raise.        *)
LEMMA GuardedBody ==
    ASSUME NEW n \in Int, NEW r \in Rates, n > 0, RateInOpenUnit(r)
    PROVE  CreateOptimalResult(n, r) =
               BloomFilterInit(OptimalSize(n, r), OptimalHashCount(OptimalSize(n, r), n))
<1>1. LogDefined(r) /\ n # 0
    BY DEF RateInOpenUnit, LogDefined
<1>2. CreateOptimalResult(n, r) = CreateOptimalBody(n, r)
    BY DEF CreateOptimalResult
<1>3. QED
    BY <1>1, <1>2 DEF CreateOptimalBody

LEMMA OptimalValuesAreInts ==
    ASSUME NEW n \in Int, NEW r \in Rates
    PROVE  /\ OptimalSize(n, r) \in Int
           /\ \A m \in Int : n # 0 => OptimalHashCount(m, n) \in Int
BY DEF OptimalSize, OptimalHashCount, TruncDiv, Ln2SquaredMicro, Ln2Micro

(* create_optimal raises only the four parameter errors. *)
LEMMA CreateOptimalOutcomes ==
    ASSUME NEW n \in ElementCounts, NEW r \in Rates
    PROVE  \/ CreateOptimalResult(n, r) \in ParameterErrors
           \/ /\ n > 0 /\ RateInOpenUnit(r)
              /\ CreateOptimalResult(n, r) =
                    Filter(OptimalSize(n, r), OptimalHashCount(OptimalSize(n, r), n))
<1>1. CASE n <= 0
    <2>1. CreateOptimalResult(n, r) = ElementsError
        BY <1>1 DEF CreateOptimalResult
    <2>2. QED
        BY <2>1 DEF ParameterErrors
<1>2. CASE n > 0 /\ ~RateInOpenUnit(r)
    <2>1. CreateOptimalResult(n, r) = RateError
        BY <1>2 DEF CreateOptimalResult
    <2>2. QED
        BY <2>1 DEF ParameterErrors
<1>3. CASE n > 0 /\ RateInOpenUnit(r)
    <2>1. OptimalSize(n, r) \in Int /\ OptimalHashCount(OptimalSize(n, r), n) \in Int
        BY <1>3, OptimalValuesAreInts
    <2>2. QED
        BY <1>3, <2>1, GuardedBody, InitOutcomes
<1>4. QED
    BY <1>1, <1>2, <1>3

(* Every parameter error is a ValueError, never a filter. *)
LEMMA ParameterErrorsAreValueErrors ==
    \A e \in ParameterErrors : e.kind = "ValueError"
<1>1. \A msg : Raised(msg).kind = "ValueError"
    BY DEF Raised
<1>2. QED
    BY <1>1, Zenon DEF ParameterErrors, SizeError, HashCountError, ElementsError, RateError

(* The helpers, given what create_optimal has checked, compute what it     *)
(* computes inline.                                                        *)
LEMMA HelpersAgree ==
    ASSUME NEW n \in Int, NEW r \in Rates, n > 0, RateInOpenUnit(r)
    PROVE  /\ CalculateOptimalSize(n, r) = Value(OptimalSize(n, r))
           /\ CalculateOptimalHashCount(OptimalSize(n, r), n)
                 = Value(OptimalHashCount(OptimalSize(n, r), n))
<1>1. LogDefined(r) /\ n # 0
    BY DEF RateInOpenUnit, LogDefined
<1>2. QED
    BY <1>1 DEF CalculateOptimalSize, CalculateOptimalHashCount, OptimalSize,
               OptimalHashCount

-----------------------------------------------------------------------------
(* The step of each action on the two properties: only a create_optimal   *)
(* call can make them false, and its outcome is one of those above.       *)

LEMMA InitFailsOnly == Init => CreateOptimalFailsOnlyWithParameterErrors
BY DEF Init, NoCall, CreateOptimalFailsOnlyWithParameterErrors

LEMMA NextFailsOnly ==
    CreateOptimalFailsOnlyWithParameterErrors /\ [Next]_vars
        => CreateOptimalFailsOnlyWithParameterErrors'
<1> SUFFICES ASSUME CreateOptimalFailsOnlyWithParameterErrors, [Next]_vars
             PROVE  CreateOptimalFailsOnlyWithParameterErrors'
    OBVIOUS
<1>1. ASSUME NEW n \in ElementCounts, NEW r \in Rates, CreateOptimal(n, r)
      PROVE  CreateOptimalFailsOnlyWithParameterErrors'
    BY <1>1, CreateOptimalOutcomes
       DEF CreateOptimal, CreateOptimalFailsOnlyWithParameterErrors, Filter
<1>2. CASE ~\E n \in ElementCounts, r \in Rates : CreateOptimal(n, r)
    <2>1. call'.kind # "create_optimal" \/ UNCHANGED vars
        BY <1>2 DEF Next, Construct, CallOptimalSize, CallOptimalHashCount,
                    CallBitsPerElement
    <2>2. QED
        BY <2>1 DEF CreateOptimalFailsOnlyWithParameterErrors, vars
<1>3. QED
    BY <1>1, <1>2

(* For every set of arguments and every table of logarithms,              *)
(* create_optimal raises nothing but the four parameter errors.           *)
THEOREM CreateOptimalFailsOnlyWithParameterErrorsHolds ==
    Spec => []CreateOptimalFailsOnlyWithParameterErrors
BY InitFailsOnly, NextFailsOnly, PTL DEF Spec

LEMMA InitAgrees == Init => CreateOptimalAgreesWithHelpers
BY DEF Init, NoCall, CreateOptimalAgreesWithHelpers

LEMMA NextAgrees ==
    CreateOptimalAgreesWithHelpers /\ [Next]_vars => CreateOptimalAgreesWithHelpers'
<1> SUFFICES ASSUME CreateOptimalAgreesWithHelpers, [Next]_vars
             PROVE  CreateOptimalAgreesWithHelpers'
    OBVIOUS
<1>1. ASSUME NEW n \in ElementCounts, NEW r \in Rates, CreateOptimal(n, r)
      PROVE  CreateOptimalAgreesWithHelpers'
    <2>1. call' = [kind |-> "create_optimal", n |-> n, rate |-> r]
          /\ outcome' = CreateOptimalResult(n, r)
        BY <1>1 DEF CreateOptimal
    <2>2. CASE CreateOptimalResult(n, r) \in ParameterErrors
        BY <2>1, <2>2, ParameterErrorsAreValueErrors DEF CreateOptimalAgreesWithHelpers
    <2>3. CASE /\ n > 0 /\ RateInOpenUnit(r)
               /\ CreateOptimalResult(n, r) =
                     Filter(OptimalSize(n, r), OptimalHashCount(OptimalSize(n, r), n))
        <3> DEFINE S == OptimalSize(n, r)
                   K == OptimalHashCount(S, n)
        <3>1. outcome' = [kind |-> "filter", size |-> S, hash_count |-> K]
            BY <2>1, <2>3 DEF Filter
        <3>2. /\ CalculateOptimalSize(n, r) = Value(S)
              /\ CalculateOptimalHashCount(S, n) = Value(K)
            BY <2>3, HelpersAgree, ConstantsAssumption
        <3>3. QED
            BY <2>1, <3>1, <3>2 DEF CreateOptimalAgreesWithHelpers
    <2>4. QED
        BY <2>2, <2>3, CreateOptimalOutcomes
<1>2. CASE ~\E n \in ElementCounts, r \in Rates : CreateOptimal(n, r)
    <2>1. call'.kind # "create_optimal" \/ UNCHANGED vars
        BY <1>2 DEF Next, Construct, CallOptimalSize, CallOptimalHashCount,
                    CallBitsPerElement
    <2>2. QED
        BY <2>1 DEF CreateOptimalAgreesWithHelpers, vars
<1>3. QED
    BY <1>1, <1>2

(* For every set of arguments and every table of logarithms, a filter     *)
(* create_optimal returns has the size and hash count the module-level    *)
(* helpers compute for the same parameters.                                *)
THEOREM CreateOptimalAgreesWithHelpersHolds == Spec => []CreateOptimalAgreesWithHelpers
BY InitAgrees, NextAgrees, PTL DEF Spec

=============================================================================
