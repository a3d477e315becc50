-------------------------- MODULE InstalledVersion --------------------------
(* What a self-update promises of an installation: releases replace each   *)
(* other in one step, only a proven one is replaced, and an unproven one   *)
(* is either confirmed or gives way to the latest proven one, never both.  *)
EXTENDS Integers

VARIABLES installed, \* the release at the live path
          proven     \* the releases that were healthy once
vars == <<installed, proven>>

Init == installed \in Nat /\ proven = {installed}

Install ==
    /\ installed \in proven /\ UNCHANGED proven
    /\ installed' \in Nat /\ installed' > installed

Confirm == proven' = proven \cup {installed} /\ UNCHANGED installed

Restore ==
    /\ installed \notin proven /\ UNCHANGED proven
    /\ installed' \in proven /\ \A v \in proven : v <= installed'

Next == Install \/ Confirm \/ Restore

Spec == Init /\ [][Next]_vars
=============================================================================
