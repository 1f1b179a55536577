------------------------------- MODULE Option -------------------------------
(***************************************************************************)
(* Rust's Option<T>: a sequence of at most one element, so that None       *)
(* differs from every Some(x) whatever x is.  A HashMap is a function      *)
(* whose domain is the set of keys present; Get and Insert are its get and *)
(* insert.  A filter of rows or of an iterator is the choice of some of    *)
(* the places of a sequence.                                               *)
(***************************************************************************)
EXTENDS Integers, Sequences, FiniteSets

None == <<>>
Some(x) == <<x>>

IsSome(o) == o # None
UnwrapOr(o, default) == IF IsSome(o) THEN o[1] ELSE default

Option(S) == {o \in Seq(S) : Len(o) <= 1}

Get(map, key) == IF key \in DOMAIN map THEN Some(map[key]) ELSE None

Insert(map, key, value) ==
  [k \in DOMAIN map \cup {key} |-> IF k = key THEN value ELSE map[k]]

EmptyMap == [k \in {} |-> None]

\* The maps from some of the keys in K to values in V.
Maps(K, V) == UNION {[D -> V] : D \in SUBSET K}

\* The elements of a sequence at the places in S, in order.
Chosen(seq, S) ==
  [k \in 1..Cardinality(S) |->
     seq[CHOOSE n \in S : Cardinality({m \in S : m < n}) = k - 1]]
=============================================================================
