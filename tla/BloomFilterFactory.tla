------------------------- MODULE BloomFilterFactory -------------------------
(***************************************************************************)
(* Construction of a filter: BloomFilter(size, hash_count) and             *)
(* BloomFilter.create_optimal(expected_elements, fp_rate), each call       *)
(* either returning a filter or raising ValueError before anything is      *)
(* allocated.                                                              *)
(*                                                                         *)
(* A float fp_rate is a member of the constant set Rates, each a rational  *)
(* [num |-> a, den |-> b] (the value a / b).  math.log is an external     *)
(* black box: LnMicro[r] is math.log(r) scaled by 10^6 and rounded, given  *)
(* by the model-checking instance.  The formulas keep the order of the     *)
(* code's float operations only up to that scale: rounding of the doubles  *)
(* near an integer boundary is not modelled.                               *)
(***************************************************************************)
EXTENDS Integers

CONSTANTS
    Sizes,          \* size arguments passed to BloomFilter(...)
    HashCounts,     \* hash_count arguments passed to BloomFilter(...)
    ElementCounts,  \* expected_elements arguments passed to create_optimal
    Rates,          \* fp_rate arguments passed to create_optimal
    LnMicro         \* LnMicro[r] = round(10^6 * math.log(r)) for 0 < r

(* Arguments are Python ints, a rate is a fraction of ints, and the log   *)
(* table gives an int for every rate.                                      *)
ASSUME ConstantsAssumption ==
    /\ Sizes \subseteq Int /\ HashCounts \subseteq Int /\ ElementCounts \subseteq Int
    /\ Rates \subseteq [num : Int, den : Int]
    /\ LnMicro \in [Rates -> Int]

(* math.log(2) and math.log(2) ** 2, scaled by 10^6. *)
Ln2Micro == 693147
Ln2SquaredMicro == 480453

(* int(a / b) for b # 0: the quotient of the floats, truncated toward zero *)
(* by int().                                                               *)
TruncDiv(a, b) ==
    LET q == (IF a >= 0 THEN a ELSE -a) \div (IF b > 0 THEN b ELSE -b)
    IN  IF (a >= 0) = (b > 0) THEN q ELSE -q

(* The two guards of create_optimal on fp_rate: 0 < fp_rate < 1. *)
RateInOpenUnit(r) == 0 < r.num /\ r.num < r.den

(* Outcomes of a call: a filter, an int or float result (a float in        *)
(* hundredths), or an exception with its message.                          *)
Filter(s, k) == [kind |-> "filter", size |-> s, hash_count |-> k]
Value(v) == [kind |-> "value", val |-> v]
Raised(msg) == [kind |-> "ValueError", msg |-> msg]
ZeroDivision == [kind |-> "ZeroDivisionError"]
NoCall == [kind |-> "none"]

(* The parameter errors the specification names (InvalidParameter), with  *)
(* the code's messages; "math domain error" is math.log's own ValueError.  *)
SizeError == Raised("Size must be positive")
HashCountError == Raised("Hash count must be positive")
ElementsError == Raised("Expected elements must be positive")
RateError == Raised("False positive rate must be between 0 and 1")
ParameterErrors == {SizeError, HashCountError, ElementsError, RateError}

(* Whether math.log(r) is defined: math.log raises ValueError("math domain *)
(* error") for r <= 0.                                                     *)
LogDefined(r) == r.num > 0
LogError == Raised("math domain error")

VARIABLES
    outcome,  \* what the last construction call returned or raised
    call      \* the arguments of that call

vars == <<outcome, call>>

(* BloomFilter.__init__(size, hash_count): the two guards, in order. *)
BloomFilterInit(s, k) ==
    IF s <= 0 THEN SizeError
    ELSE IF k <= 0 THEN HashCountError
    ELSE Filter(s, k)

(* Faulty variant: math.log(2) * 2 for math.log(2) ** 2 in create_optimal. *)
OptimalSizeDoubledLn2(n, r) == TruncDiv(-n * LnMicro[r], 2 * Ln2Micro)

(* int(-expected_elements * math.log(fp_rate) / (math.log(2) ** 2)) *)
OptimalSize(n, r) == TruncDiv(-n * LnMicro[r], Ln2SquaredMicro)

(* max(1, int((size / expected_elements) * math.log(2))) *)
OptimalHashCount(m, n) ==
    LET k == TruncDiv(m * Ln2Micro, n * 1000000)
    IN  IF k >= 1 THEN k ELSE 1

(* create_optimal after its guards: math.log(fp_rate) raises for          *)
(* fp_rate <= 0, size / expected_elements raises for 0, then cls(...).     *)
(* With the guards in front, the first two cases cannot occur.             *)
CreateOptimalBody(n, r) ==
    IF ~LogDefined(r) THEN LogError
    ELSE IF n = 0 THEN ZeroDivision
    ELSE BloomFilterInit(OptimalSize(n, r), OptimalHashCount(OptimalSize(n, r), n))

(* Faulty variant: the expected_elements guard dropped. *)
CreateOptimalResultNoCountGuard(n, r) ==
    IF ~RateInOpenUnit(r) THEN RateError
                          ELSE CreateOptimalBody(n, r)

(* create_optimal: the parameter guards, in order, then the body. *)
CreateOptimalResult(n, r) ==
    IF n <= 0 THEN ElementsError
    ELSE IF ~RateInOpenUnit(r) THEN RateError
    ELSE CreateOptimalBody(n, r)

(* The module-level helpers validate nothing: each is its formula, with    *)
(* the exceptions math.log and the float division raise.                   *)
CalculateOptimalSize(n, r) ==
    IF LogDefined(r) THEN Value(TruncDiv(-n * LnMicro[r], Ln2SquaredMicro))
                     ELSE LogError

CalculateOptimalHashCount(m, n) ==
    IF n = 0 THEN ZeroDivision
             ELSE Value(LET k == TruncDiv(m * Ln2Micro, n * 1000000)
                        IN  IF k >= 1 THEN k ELSE 1)

(* bits_per_element(fp_rate), a float, in hundredths of a bit. *)
BitsPerElement(r) ==
    IF LogDefined(r) THEN Value(TruncDiv(-LnMicro[r] * 100, Ln2SquaredMicro))
                     ELSE LogError

Init ==
    /\ outcome = NoCall
    /\ call = NoCall

(* A call BloomFilter(size, hash_count). *)
Construct(s, k) ==
    /\ outcome' = BloomFilterInit(s, k)
    /\ call' = [kind |-> "construct", size |-> s, hash_count |-> k]

(* A call BloomFilter.create_optimal(expected_elements, fp_rate). *)
CreateOptimal(n, r) ==
    /\ outcome' = CreateOptimalResult(n, r)
    /\ call' = [kind |-> "create_optimal", n |-> n, rate |-> r]

(* Calls of the three module-level helpers. *)
CallOptimalSize(n, r) ==
    /\ outcome' = CalculateOptimalSize(n, r)
    /\ call' = [kind |-> "optimal_size", n |-> n, rate |-> r]

CallOptimalHashCount(m, n) ==
    /\ outcome' = CalculateOptimalHashCount(m, n)
    /\ call' = [kind |-> "optimal_hash_count", size |-> m, n |-> n]

CallBitsPerElement(r) ==
    /\ outcome' = BitsPerElement(r)
    /\ call' = [kind |-> "bits_per_element", rate |-> r]

Next ==
    \/ \E s \in Sizes, k \in HashCounts : Construct(s, k)
    \/ \E n \in ElementCounts, r \in Rates : CreateOptimal(n, r)
    \/ \E n \in ElementCounts, r \in Rates : CallOptimalSize(n, r)
    \/ \E m \in Sizes, n \in ElementCounts : CallOptimalHashCount(m, n)
    \/ \E r \in Rates : CallBitsPerElement(r)

Spec == Init /\ [][Next]_vars

-----------------------------------------------------------------------------

(***************************************************************************)
(* The specification's error taxonomy: create_optimal raises only when     *)
(* expected_elements <= 0 or fp_rate is outside (0, 1); for valid          *)
(* parameters it returns a filter (optimalSize is always >= 1).            *)
(***************************************************************************)
CreateOptimalRaisesOnlyOnInvalid ==
    (call.kind = "create_optimal" /\ outcome.kind = "ValueError")
        => (call.n <= 0 \/ ~RateInOpenUnit(call.rate))

(* create_optimal checks its parameters before it evaluates math.log and  *)
(* the division by expected_elements, so the only exceptions it raises are *)
(* the parameter errors: never math's domain error nor ZeroDivisionError. *)
CreateOptimalFailsOnlyWithParameterErrors ==
    call.kind = "create_optimal" => outcome.kind = "filter" \/ outcome \in ParameterErrors

(* create_optimal repeats the formulas of the module-level helpers inline; *)
(* a filter it returns has exactly calculate_optimal_size(n, p) bits and   *)
(* calculate_optimal_hash_count(size, n) hash functions, as the tests of   *)
(* the helpers and of create_optimal together assume.                      *)
CreateOptimalAgreesWithHelpers ==
    (call.kind = "create_optimal" /\ outcome.kind = "filter") =>
        /\ Value(outcome.size) = CalculateOptimalSize(call.n, call.rate)
        /\ Value(outcome.hash_count) = CalculateOptimalHashCount(outcome.size, call.n)

(* The specification's error taxonomy for the standalone formulas: a call  *)
(* with expected_elements <= 0 or fp_rate outside (0, 1) fails with a      *)
(* ValueError (math's own domain error is accepted as one) instead of      *)
(* returning a number or raising another exception.                        *)
StandaloneFormulasRejectInvalid ==
    LET invalid == \/ call.kind = "optimal_size" /\ (call.n <= 0 \/ ~RateInOpenUnit(call.rate))
                   \/ call.kind = "optimal_hash_count" /\ call.n <= 0
                   \/ call.kind = "bits_per_element" /\ ~RateInOpenUnit(call.rate)
    IN  invalid => outcome.kind = "ValueError"

=============================================================================
