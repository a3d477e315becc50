--------------------------- MODULE StorageBudget ---------------------------
(***************************************************************************)
(* What ADR-0004 promises of the stored content: items come and go one at  *)
(* a time, and one that does not fit is refused rather than overflowing    *)
(* the cap.  A shelf that starts over the cap only shrinks until it fits.  *)
(***************************************************************************)
EXTENDS Naturals, FiniteSetsExt

CONSTANTS Item, Bulk
VARIABLES shelf, cap

Total(S) == MapThenSumSet(LAMBDA i : Bulk[i], S)
Fits(S) == cap = 0 \/ Total(S) <= cap

Admit(i) ==
    /\ i \notin shelf
    /\ Fits(shelf \cup {i})
    /\ shelf' = shelf \cup {i} /\ UNCHANGED cap

Discard(i) ==
    /\ i \in shelf
    /\ shelf' = shelf \ {i} /\ UNCHANGED cap

Init == shelf \subseteq Item /\ cap \in Nat
Next == \E i \in Item : Admit(i) \/ Discard(i)
Spec == Init /\ [][Next]_<<shelf, cap>>

=============================================================================
