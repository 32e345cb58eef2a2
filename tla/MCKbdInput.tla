----------------------------- MODULE MCKbdInput -----------------------------
\* KbdInput for TLC: neither the devices nor the keys are told apart.
EXTENDS KbdInput

SymmetrySet == Permutations(Devices) \cup Permutations(Keys)
=============================================================================
