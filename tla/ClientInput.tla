------------------------------ MODULE ClientInput ------------------------------
(***************************************************************************)
(* An input of the functions an application calls before anything reaches  *)
(* a node: a tag, which says what it is for, and the arguments.            *)
(***************************************************************************)
EXTENDS Bns, Stacking

VARIABLE input

Is(tag) == input[1] = tag

\* The preorder of a name, or of a namespace, commits to what its registration, or reveal,
\* opens, and all calls about a name mean the same one: Bns.PreorderIsOpened,
\* NamespacePreorderIsOpened.
NamesAreOpened ==
    Is("name") => /\ PreorderIsOpened(input[2], input[3])
                  /\ NamespacePreorderIsOpened(input[2], input[3])

\* Reward addresses read back as the Bitcoin addresses they were made from, and the other
\* way round; a fee taken out of a lock leaves the rest; the next cycle is the next one:
\* Stacking.AddressReadsBack, RewardReadsBack, FeeComesOutOfLock, NextCycleStarts.
StackingFaithful ==
    /\ Is("address") => AddressReadsBack(input[2])
    /\ Is("reward") => RewardReadsBack(input[2], input[3], input[4])
    /\ Is("stacking") => FeeComesOutOfLock(input[2], input[3], 2)
    /\ Is("cycle") => NextCycleStarts(input[2], input[3], input[4])
================================================================================
