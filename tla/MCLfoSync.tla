------------------------------- MODULE MCLfoSync -------------------------------
EXTENDS LfoSync

MCChoices == {Free, {Triplet}}

\* A preset with a mask of two grids, which only a file can name, and one that
\* names no period for a grid the default is not on.
MCFiles == {[sync |-> {Quarter, Dotted}, period |-> 200], [sync |-> {Dotted}, period |-> Default]}

\* A period between two notes, and twenty bars, which are more than a note lasts.
MCAsked == {200, 57600}
=============================================================================
