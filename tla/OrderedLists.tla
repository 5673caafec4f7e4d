---------------------------- MODULE OrderedLists ----------------------------
(***************************************************************************)
(* Lists in an order: sorted sets, lists that rows are left out of, and    *)
(* lists without repetition.  The pages that are proved about take what    *)
(* they need of lists from here: the definitions of SequencesExt would     *)
(* come into each of their instances and slow down every proof.            *)
(***************************************************************************)
EXTENDS Integers, Sequences, FiniteSets

(* The elements of the finite set S; Before is a strict total order of them. *)
Ordered(S, Before(_, _)) ==
  [k \in 1..Cardinality(S) |-> CHOOSE e \in S : Cardinality({d \in S : Before(d, e)}) = k - 1]

(* The numbers of a finite set, the least first and the greatest first. *)
Ascending(S)  == Ordered(S, <)
Descending(S) == Ordered(S, >)

(* The elements of the list s at the places I, in the order they have there. *)
Picked(s, I) ==
  LET place == Ascending(I) IN [k \in DOMAIN place |-> s[place[k]]]

(* The list s without the element at i. *)
WithoutAt(s, i) == SubSeq(s, 1, i - 1) \o SubSeq(s, i + 1, Len(s))

(* The elements of the finite set S, each once, in an order that is fixed. *)
Listing(S) ==
  CHOOSE s \in [1..Cardinality(S) -> S] : \A j, k \in DOMAIN s : s[j] = s[k] => j = k

(* The first of equal elements stays. *)
Distinct(s) == Picked(s, {i \in DOMAIN s : \A j \in 1..(i - 1) : s[j] # s[i]})
=============================================================================
