----------------------------- MODULE MCMessagePool -----------------------------
EXTENDS MessagePool, TLC

BufferSymmetry == Permutations(Containers) \cup Permutations(Readers)
===============================================================================
