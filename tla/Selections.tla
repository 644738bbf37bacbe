------------------------------- MODULE Selections -------------------------------
(***************************************************************************)
(* The loops over a vector of paths or specifications that copy some of    *)
(* its members into another vector.                                        *)
(***************************************************************************)
EXTENDS Integers, Sequences, FiniteSets

(* The members of s that are in S, in their order in s. *)
Select(s, S) ==
    LET select[n \in 0..Len(s)] ==
            IF n = 0 THEN <<>>
            ELSE IF s[n] \in S THEN Append(select[n - 1], s[n]) ELSE select[n - 1]
    IN  select[Len(s)]

(* How often e is in s. *)
Count(s, e) == Cardinality({n \in DOMAIN s : s[n] = e})
=============================================================================
