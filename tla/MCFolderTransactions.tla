------------------------ MODULE MCFolderTransactions ------------------------
(* Instances of FolderTransactions for TLC. *)
EXTENDS FolderTransactions, TLC

\* every network id stands for the same card directory (one is an offer)
OneSlot == [f \in Folders |-> "saves"]

\* one network id has a directory of its own, the others compete for one
TwoSlots ==
    LET single == CHOOSE f \in Folders : TRUE
    IN  [f \in Folders |-> IF f = single THEN "states" ELSE "saves"]

\* the competing ids are interchangeable
Competing == Permutations({f \in Folders : Slot[f] = "saves"})
=============================================================================
