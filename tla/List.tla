-------------------------------- MODULE List --------------------------------
(***************************************************************************)
(* What an array promises its callers: a list of elements that changes     *)
(* only where the call says.  Sorting may put the elements in another      *)
(* order, and elements never lose or gain copies by it.                    *)
(***************************************************************************)
EXTENDS Integers, Sequences, FiniteSets

CONSTANT Elems

VARIABLE list

Copies(s, e) == Cardinality({i \in 1 .. Len(s) : s[i] = e})

Init == list = <<>>

\* vecset on an element.
Replace == \E i \in 1 .. Len(list) : \E e \in Elems : list' = [list EXCEPT ![i] = e]

\* vecset, vecins or vecalloc past the end: what was there stays in front.
Extend == /\ Len(list') > Len(list)
          /\ SubSeq(list', 1, Len(list)) = list

\* vecins, vecadd
Insert ==
  \E i \in 1 .. Len(list) : \E e \in Elems :
    list' = SubSeq(list, 1, i - 1) \o << e >> \o SubSeq(list, i, Len(list))

\* vecdel, delrange, vecremove, vecdrop, vecclear
Delete ==
  \E i \in 1 .. Len(list) : \E n \in 1 .. Len(list) - i + 1 :
    list' = SubSeq(list, 1, i - 1) \o SubSeq(list, i + n, Len(list))

\* vecsort, and vecsearch and vecadd, which sort first.
Permute ==
  /\ Len(list') = Len(list)
  /\ \A e \in Elems : Copies(list', e) = Copies(list, e)

Next == Permute \/ Replace \/ Extend \/ Insert \/ Delete

Spec == Init /\ [][Next]_list
=============================================================================
