------------------------ MODULE MCBloomFilterFactory ------------------------
(***************************************************************************)
(* Model-checking instance of BloomFilterFactory: boundary arguments for   *)
(* the constructor and rates on both sides of the open unit interval.      *)
(***************************************************************************)
EXTENDS BloomFilterFactory

(* Boundary arguments: negative, zero and small positive values. *)
MCSizes == -1 .. 3
MCHashCounts == -1 .. 2
MCElementCounts == -1 .. 3

R(a, b) == [num |-> a, den |-> b]

(* 0, 0.01, 0.5, 0.7, 1 and 1.5. *)
MCRates == {R(0, 1), R(1, 100), R(1, 2), R(7, 10), R(1, 1), R(3, 2)}

(* round(10^6 * math.log(r)); math.log(0) raises: LogDefined   *)
(* keeps the table from being read there.                               *)
MCLnMicro ==
    [r \in MCRates |->
        CASE r = R(1, 100) -> -4605170
          [] r = R(1, 2)   -> -693147
          [] r = R(7, 10)  -> -356675
          [] r = R(3, 2)   -> 405465
          [] OTHER         -> 0]

=============================================================================
