--------------------------------- MODULE Lists ---------------------------------
(***************************************************************************)
(* What the code's loops over a slice leave of it. These are recursive     *)
(* functions, so that proofs can reason about them.                        *)
(***************************************************************************)
EXTENDS Integers, Sequences

Elements(s) == {s[i] : i \in DOMAIN s}

\* A loop that appends what passes a test: the elements of list in S, in order.
Kept(list, S) ==
  LET kept[i \in 0..Len(list)] ==
        IF i = 0 THEN <<>>
        ELSE IF list[i] \in S THEN Append(kept[i - 1], list[i]) ELSE kept[i - 1]
  IN kept[Len(list)]

\* A loop that appends one list after the other.
Flat(lists) ==
  LET flat[i \in 0..Len(lists)] == IF i = 0 THEN <<>> ELSE flat[i - 1] \o lists[i]
  IN flat[Len(lists)]

\* A loop that adds up.
Total(numbers) ==
  LET total[i \in 0..Len(numbers)] == IF i = 0 THEN 0 ELSE total[i - 1] + numbers[i]
  IN total[Len(numbers)]
=============================================================================
