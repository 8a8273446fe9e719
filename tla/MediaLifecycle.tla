-------------------------- MODULE MediaLifecycle ---------------------------
(***************************************************************************)
(* What retention promises about the media of each capture, whatever the   *)
(* runs, crashes and failures in between (docs/Retention.md, sections 5.2, *)
(* 7 and 8, as the code carries them out).  Captures are numbered in the   *)
(* policy's oldest-first order.                                            *)
(*                                                                         *)
(*   uncatalogued -> kept -> condemned -> removed -> reclaimed             *)
(*                                                                         *)
(* A condemned capture may be pardoned.  Media that somebody else removes, *)
(* or that cannot be seen for a while, is lost while it is kept, vanished  *)
(* while it is condemned, and may return.  What MGO itself removed, or     *)
(* found gone when it came to remove it, is never taken for lost: it can   *)
(* only become reclaimed.                                                  *)
(***************************************************************************)
EXTENDS Naturals, FiniteSets

CONSTANTS
  Captures,      \* numbered oldest first
  Motion,        \* the automatic captures, the only ones retention manages
  MinimumKeep    \* how many of the newest managed captures are untouchable

VARIABLE fate

Fates == {"uncatalogued", "kept", "condemned", "removed", "reclaimed",
          "lost", "vanished"}

Init == fate = [c \in Captures |-> "uncatalogued"]

\* The managed captures that are present as far as the catalogue knows.
Present == {c \in Captures \cap Motion : fate[c] \in {"kept", "lost"}}

Move(c, from, to) == /\ fate[c] = from
                     /\ fate' = [fate EXCEPT ![c] = to]

Archive(c) == Move(c, "uncatalogued", "kept")

\* Never a manual capture, and never one of the newest MinimumKeep.
Condemn(c) == /\ c \in Motion
              /\ Cardinality({d \in Present : d > c}) >= MinimumKeep
              /\ Move(c, "kept", "condemned") \/ Move(c, "lost", "vanished")

Pardon(c) == Move(c, "condemned", "kept") \/ Move(c, "vanished", "lost")

\* Its file is unlinked, or found to be gone already.
Remove(c) == Move(c, "condemned", "removed") \/ Move(c, "vanished", "removed")

Settle(c) == Move(c, "removed", "reclaimed")

Lose(c) == Move(c, "kept", "lost") \/ Move(c, "condemned", "vanished")

Return(c) == Move(c, "lost", "kept") \/ Move(c, "vanished", "condemned")

Next == \E c \in Captures : \/ Archive(c)
                            \/ Condemn(c)
                            \/ Pardon(c)
                            \/ Remove(c)
                            \/ Settle(c)
                            \/ Lose(c)
                            \/ Return(c)

Spec == Init /\ [][Next]_fate
=============================================================================
