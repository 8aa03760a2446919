------------------------------ MODULE Selections ------------------------------
(***************************************************************************)
(* The elements of a sequence that are in a set, in their order.  (It is   *)
(* what SelectSeq is with a set for a test, in a form that proofs can      *)
(* take apart.)                                                            *)
(***************************************************************************)
EXTENDS Integers, Sequences

Within(s, S) ==
  LET upTo[k \in 0..Len(s)] ==
        IF k = 0 THEN <<>>
        ELSE IF s[k] \in S THEN Append(upTo[k - 1], s[k]) ELSE upTo[k - 1]
  IN upTo[Len(s)]
===============================================================================
