---------------------- MODULE MCConcurrentBloomFilter ----------------------
(***************************************************************************)
(* Model-checking instance of ConcurrentBloomFilter: two threads, two     *)
(* items with different string forms.                                     *)
(***************************************************************************)
EXTENDS ConcurrentBloomFilter

CONSTANTS a1, a2, t1, t2

MCItems == {a1, a2}
MCStr == [x \in MCItems |-> IF x = a1 THEN "a" ELSE "b"]
MCThreads == {t1, t2}

=============================================================================
