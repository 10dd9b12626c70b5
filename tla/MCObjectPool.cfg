\* Three users, a list of at most two: dropped, reused and shared containers, and
\* every meeting of the two kinds of mutex. No symmetry: CallsReturn is a liveness
\* property.
SPECIFICATION FairSpec
CONSTANTS
  Containers = {k1, k2, k3}
  Threads = {t1, t2, t3}
  PoolSizeMax = 2
  Nobody = Nobody
  NoContainer = NoContainer
INVARIANTS UsableWhileHeld FreeIsUnreferenced
PROPERTIES ImplementsPool CallsReturn
