---------------------------------- MODULE Pool ----------------------------------
(***************************************************************************)
(* What shared/utils.ObjectPool promises its users: a container that is    *)
(* handed out is not handed out again until every reference to it has been *)
(* disposed of.  inUse counts the references that are still out.  The      *)
(* detailed module ObjectPool, with its locks, counters and free list, is  *)
(* shown to implement this one.                                            *)
(***************************************************************************)
EXTENDS Naturals

CONSTANT Containers   \* the DisposableObjectContainer objects

VARIABLE inUse        \* references to each container not disposed of yet

PoolTypeOK == inUse \in [Containers -> Nat]

PoolInit == inUse = [c \in Containers |-> 0]

\* Obtain hands out a container nobody has.
Obtain(c) ==
    /\ inUse[c] = 0
    /\ inUse' = [inUse EXCEPT ![c] = 1]

\* UpdateCounter lets the only user share the container.
Share(c) ==
    /\ inUse[c] = 1
    /\ inUse' = [inUse EXCEPT ![c] = 2]

\* Dispose gives one reference back.
Dispose(c) ==
    /\ inUse[c] > 0
    /\ inUse' = [inUse EXCEPT ![c] = @ - 1]

PoolNext == \E c \in Containers : Obtain(c) \/ Share(c) \/ Dispose(c)

PoolSpec == PoolInit /\ [][PoolNext]_inUse
===============================================================================
