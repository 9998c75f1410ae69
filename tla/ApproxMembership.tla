-------------------------- MODULE ApproxMembership --------------------------
(***************************************************************************)
(* What a Bloom filter promises, stated without bits or hashes: a set of   *)
(* keys that only grows, a counter of insert calls, and a query that must  *)
(* answer True for an inserted key and may answer anything for another     *)
(* (a false positive).                                                     *)
(***************************************************************************)
EXTENDS Naturals

CONSTANTS
    Keys,   \* the keys that may be inserted or queried
    NoKey   \* the key of reply before any query

VARIABLES
    members,  \* the keys inserted so far
    count,    \* the number of insert calls so far
    reply     \* the key and the answer of the last query

avars == <<members, count, reply>>

Init ==
    /\ members = {}
    /\ count = 0
    /\ reply = [key |-> NoKey, result |-> FALSE]

(* Insert a key; every call is counted, repeated keys included. *)
Insert(k) ==
    /\ members' = members \cup {k}
    /\ count' = count + 1
    /\ UNCHANGED reply

(* A query never answers False for a member. *)
Query(k) ==
    /\ \E r \in IF k \in members THEN {TRUE} ELSE BOOLEAN :
           reply' = [key |-> k, result |-> r]
    /\ UNCHANGED <<members, count>>

Next == \E k \in Keys : Insert(k) \/ Query(k)

Spec == Init /\ [][Next]_avars

=============================================================================
