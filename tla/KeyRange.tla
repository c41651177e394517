------------------------------ MODULE KeyRange ------------------------------
(***************************************************************************)
(* The inclusive key intervals of src/range.rs.  Key is the set of keys    *)
(* (u64 in the source; no operation computes on a key, so there is nothing *)
(* to overflow).                                                           *)
(***************************************************************************)
EXTENDS Integers

CONSTANT Key

ASSUME KeyAssumption == Key \subseteq Nat

\* KeyRange::new, Some as a singleton and None as the empty set.
new(start, end) == IF start <= end THEN {[start |-> start, end |-> end]} ELSE {}

point(key) == [start |-> key, end |-> key]

\* The fields are private: these are all the values a caller can construct.
KeyRanges == (UNION {new(a, b) : a, b \in Key}) \cup {point(a) : a \in Key}

contains(k, key) == k.start <= key /\ key <= k.end

\* Mutant: bounds compared as those of a half-open interval.
overlaps_half_open(k, other) == k.start < other.end /\ other.start < k.end

overlaps(k, other) == k.start <= other.end /\ other.start <= k.end

=============================================================================
