--------------------------- MODULE MCBloomFilter ---------------------------
(***************************************************************************)
(* Model-checking instance of BloomFilter.  The three items are the Python *)
(* values 1 (int), 1.0 (float) and "1" (str): str() maps 1 and "1" to the  *)
(* same bytes b"1" and 1.0 to b"1.0", while Python's == makes 1 and 1.0    *)
(* equal and "1" unequal to both.                                          *)
(***************************************************************************)
EXTENDS BloomFilter

CONSTANTS i1, f1, s1

MCItems == {i1, f1, s1}

(* str(1) = "1", str(1.0) = "1.0", str("1") = "1". *)
MCStr == [x \in MCItems |-> IF x = f1 THEN "1.0" ELSE "1"]

(* Python ==, restricted to the items: 1 == 1.0, "1" equals only itself. *)
PyEqual(x, y) == x = y \/ {x, y} = {i1, f1}

(***************************************************************************)
(* The 'in' operator (__contains__) is documented to never give a false    *)
(* negative: after bf.add(x), y in bf holds for every y == x, as it does  *)
(* for a Python set.                                                       *)
(***************************************************************************)
NoFalseNegativesUnderEquality ==
    \A x \in added : \A y \in Items : PyEqual(x, y) => ContainsResult(y)

=============================================================================
