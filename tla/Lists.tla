--------------------------------- MODULE Lists ---------------------------------
(* Finite lists, as the loops of the master use them.                         *)
EXTENDS Integers, Sequences, FiniteSets

\* The elements of a list.
Elements(q) == {q[i] : i \in DOMAIN q}

\* Nothing is in a list twice.
Distinct(q) == \A i, j \in DOMAIN q : i # j => q[i] # q[j]

\* A list is in the order of the shard ids.
Sorted(q) == \A i, j \in DOMAIN q : i < j => q[i] < q[j]

\* The lists of the elements of a set.
Listings(S) == {q \in [1..Cardinality(S) -> S] : Distinct(q) /\ Elements(q) = S}

\* vector::erase: the list without its i-th element.
Erase(q, i) == [j \in 1..Len(q) - 1 |-> IF j < i THEN q[j] ELSE q[j + 1]]

\* The elements of a list that are in S, in their order.
Sublist(q, S) ==
    LET upto[i \in 0..Len(q)] ==
            IF i = 0 THEN <<>>
            ELSE IF q[i] \in S THEN Append(upto[i - 1], q[i]) ELSE upto[i - 1]
    IN  upto[Len(q)]
================================================================================
