---------------------------- MODULE MCRootfsSlots ----------------------------
EXTENDS RootfsSlots

CONSTANTS g, b

MCCompat == {<<g, g>>}

\* State constraint of RootfsFaults: nothing Recoverable excepts has happened.
\* What holds beyond it is proved in RootfsSlotsProofs.
Unupset == ~upset
=============================================================================
