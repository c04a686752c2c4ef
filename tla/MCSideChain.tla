----------------------------- MODULE MCSideChain -----------------------------
EXTENDS SideChain

CONSTANTS f, g

\* One file of a single frame; one whose length the rate changes, read in
\* pieces that come short of its end and past it.
MCFile == {f, g}
MCFrames(name, atRate) == IF name = g THEN 1 ELSE 3 + (atRate % 2)
\* A 2.x file with a sample, one that asked for the host's port, one of today
\* without a file.
MCPatches == {[source |-> "none", mode |-> 1, file |-> f],
              [source |-> "none", mode |-> 1, file |-> noFile],
              [source |-> "file", mode |-> 0, file |-> g],
              [source |-> "main", mode |-> 0, file |-> f]}
=============================================================================
