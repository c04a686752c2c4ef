---- MODULE MCEditHistory ----
EXTENDS EditHistory
Effects == Permutations(Effect)
====
