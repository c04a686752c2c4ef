------------------------- MODULE MCModuleOwnership -------------------------
(* Modules, and samples, are interchangeable: a module is an address.      *)
EXTENDS ModuleOwnership

Addresses == Permutations(Module) \cup Permutations(Sample)
=============================================================================
