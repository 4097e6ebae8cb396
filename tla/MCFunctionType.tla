--------------------------- MODULE MCFunctionType ---------------------------
EXTENDS FunctionType, TLC

Symmetry == Permutations(Sender) \cup Permutations(Chan) \cup Permutations(Id)
                \cup Permutations(Payload)
=============================================================================
