-------------------------- MODULE MCNativeObjects --------------------------
EXTENDS NativeObjects
Symmetry == Permutations(Objs) \cup Permutations(Natives \ Pure)
=============================================================================
