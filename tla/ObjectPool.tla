------------------------------- MODULE ObjectPool -------------------------------
(***************************************************************************)
(* shared/utils/objectPool.go with its two kinds of mutex.  Obtain takes   *)
(* the pool's mutex and, inside it, the container's (reset); Dispose takes *)
(* the container's and, inside it, the pool's (release): opposite orders.  *)
(* A critical section that takes no second mutex is one step.              *)
(*                                                                         *)
(* The users follow the discipline of the code that uses the pool: dispose *)
(* of every reference once and not touch it afterwards.  Sharing a         *)
(* container (UpdateCounter) is exercised by the package's tests only.     *)
(***************************************************************************)
EXTENDS Naturals, Sequences, FiniteSets

CONSTANTS Containers,   \* the DisposableObjectContainer objects
          Threads,      \* the goroutines that use the pool
          PoolSizeMax,  \* poolSizeMax: 100 in the code
          Nobody,       \* an unlocked mutex
          NoContainer   \* a nil *DisposableObjectContainer

ASSUME PoolAssumption ==
    /\ PoolSizeMax \in Nat
    /\ Nobody \notin Threads
    /\ NoContainer \notin Containers

VARIABLES
    container,  \* pool.container[0 .. length-1], the free list
    poolMutex,  \* who has pool.mutex
    current,    \* of every container: times disposed
    target,     \* of every container: references to dispose of
    mutex,      \* who has the container's mutex
    pc,         \* where every thread is
    ref,        \* the container every thread has a reference to
    work        \* the container the running Obtain or Dispose is about

vars == <<container, poolMutex, current, target, mutex, pc, ref, work>>

TypeOK ==
    /\ container \in Seq(Containers)
    /\ Len(container) =< PoolSizeMax
    /\ poolMutex \in Threads \cup {Nobody}
    /\ current \in [Containers -> Nat]
    /\ target \in [Containers -> Nat]
    /\ mutex \in [Containers -> Threads \cup {Nobody}]
    /\ pc \in [Threads -> {"idle", "obtaining", "reset", "release", "unlock"}]
    /\ ref \in [Threads -> Containers \cup {NoContainer}]
    /\ work \in [Threads -> Containers \cup {NoContainer}]

Init ==
    /\ container = <<>>
    /\ poolMutex = Nobody
    /\ current = [c \in Containers |-> 0]
    /\ target = [c \in Containers |-> 1]
    /\ mutex = [c \in Containers |-> Nobody]
    /\ pc = [t \in Threads |-> "idle"]
    /\ ref = [t \in Threads |-> NoContainer]
    /\ work = [t \in Threads |-> NoContainer]

InList(c) == \E i \in 1..Len(container) : container[i] = c

\* A container the factory may return: nothing points to it (it was never
\* created, or was dropped by a full pool and collected).
Unreachable(c) ==
    /\ ~InList(c)
    /\ \A t \in Threads : ref[t] # c /\ work[t] # c

-----------------------------------------------------------------------------
(* Obtain *)

ObtainLock(t) ==
    /\ pc[t] = "idle" /\ ref[t] = NoContainer
    /\ poolMutex = Nobody
    /\ poolMutex' = t
    /\ pc' = [pc EXCEPT ![t] = "obtaining"]
    /\ UNCHANGED <<container, current, target, mutex, ref, work>>

\* The list is empty: a new container from the factory.
ObtainNew(t, c) ==
    /\ pc[t] = "obtaining"
    /\ container = <<>>
    /\ Unreachable(c)
    /\ current' = [current EXCEPT ![c] = 0]
    /\ target' = [target EXCEPT ![c] = 1]
    /\ ref' = [ref EXCEPT ![t] = c]
    /\ poolMutex' = Nobody
    /\ pc' = [pc EXCEPT ![t] = "idle"]
    /\ UNCHANGED <<container, mutex, work>>

\* MUTANT: length is not decremented.
ObtainPeek(t) ==
    /\ pc[t] = "obtaining"
    /\ container # <<>>
    /\ work' = [work EXCEPT ![t] = container[Len(container)]]
    /\ pc' = [pc EXCEPT ![t] = "reset"]
    /\ UNCHANGED <<container, poolMutex, current, target, mutex, ref>>

\* The list is not empty: take the last container of it ...
ObtainPop(t) ==
    /\ pc[t] = "obtaining"
    /\ container # <<>>
    /\ work' = [work EXCEPT ![t] = container[Len(container)]]
    /\ container' = SubSeq(container, 1, Len(container) - 1)
    /\ pc' = [pc EXCEPT ![t] = "reset"]
    /\ UNCHANGED <<poolMutex, current, target, mutex, ref>>

\* MUTANT: the counter of disposals is not reset.
ObtainResetTarget(t) ==
    /\ pc[t] = "reset"
    /\ mutex[work[t]] = Nobody
    /\ target' = [target EXCEPT ![work[t]] = 1]
    /\ ref' = [ref EXCEPT ![t] = work[t]]
    /\ work' = [work EXCEPT ![t] = NoContainer]
    /\ poolMutex' = Nobody
    /\ pc' = [pc EXCEPT ![t] = "idle"]
    /\ UNCHANGED <<container, current, mutex>>

\* ... and reset it under its own mutex, still holding the pool's.
ObtainReset(t) ==
    /\ pc[t] = "reset"
    /\ mutex[work[t]] = Nobody
    /\ current' = [current EXCEPT ![work[t]] = 0]
    /\ target' = [target EXCEPT ![work[t]] = 1]
    /\ ref' = [ref EXCEPT ![t] = work[t]]
    /\ work' = [work EXCEPT ![t] = NoContainer]
    /\ poolMutex' = Nobody
    /\ pc' = [pc EXCEPT ![t] = "idle"]
    /\ UNCHANGED <<container, mutex>>

-----------------------------------------------------------------------------
(* UpdateCounter and Dispose *)

\* Data and UpdateCounter and Dispose refuse a container in this state.
Disposed(c) == current[c] >= target[c]

\* t shares its container with u.  The new target is absolute, so it is set
\* before anybody has disposed of the container.
UpdateCounter(t, u) ==
    LET c == ref[t] IN
    /\ pc[t] = "idle" /\ c # NoContainer
    /\ target[c] = 1 /\ current[c] = 0
    /\ pc[u] = "idle" /\ ref[u] = NoContainer
    /\ mutex[c] = Nobody
    /\ ~Disposed(c)
    /\ target' = [target EXCEPT ![c] = 2]
    /\ ref' = [ref EXCEPT ![u] = c]
    /\ UNCHANGED <<container, poolMutex, current, mutex, pc, work>>

\* Not the last reference: count and return.  A container that is disposed of
\* already is left alone.
DisposeShared(t) ==
    LET c == ref[t] IN
    /\ pc[t] = "idle" /\ c # NoContainer
    /\ mutex[c] = Nobody
    /\ Disposed(c) \/ current[c] + 1 < target[c]
    /\ current' = IF Disposed(c) THEN current ELSE [current EXCEPT ![c] = @ + 1]
    /\ ref' = [ref EXCEPT ![t] = NoContainer]
    /\ UNCHANGED <<container, poolMutex, target, mutex, pc, work>>

\* MUTANT: any Dispose releases, whatever the target.
DisposeAny(t) ==
    LET c == ref[t] IN
    /\ pc[t] = "idle" /\ c # NoContainer
    /\ mutex[c] = Nobody
    /\ mutex' = [mutex EXCEPT ![c] = t]
    /\ current' = [current EXCEPT ![c] = @ + 1]
    /\ ref' = [ref EXCEPT ![t] = NoContainer]
    /\ work' = [work EXCEPT ![t] = c]
    /\ pc' = [pc EXCEPT ![t] = "release"]
    /\ UNCHANGED <<container, poolMutex, target>>

\* The last reference: count, and go on to release holding the mutex.
DisposeLast(t) ==
    LET c == ref[t] IN
    /\ pc[t] = "idle" /\ c # NoContainer
    /\ mutex[c] = Nobody
    /\ ~Disposed(c) /\ current[c] + 1 >= target[c]
    /\ mutex' = [mutex EXCEPT ![c] = t]
    /\ current' = [current EXCEPT ![c] = @ + 1]
    /\ ref' = [ref EXCEPT ![t] = NoContainer]
    /\ work' = [work EXCEPT ![t] = c]
    /\ pc' = [pc EXCEPT ![t] = "release"]
    /\ UNCHANGED <<container, poolMutex, target>>

\* MUTANT: a full list makes the caller wait.
ReleaseWaits(t) ==
    /\ pc[t] = "release"
    /\ poolMutex = Nobody
    /\ Len(container) < PoolSizeMax
    /\ container' = Append(container, work[t])
    /\ pc' = [pc EXCEPT ![t] = "unlock"]
    /\ UNCHANGED <<poolMutex, current, target, mutex, ref, work>>

\* release under the pool's mutex: put it on the list, or drop it when the
\* list is full.
Release(t) ==
    /\ pc[t] = "release"
    /\ poolMutex = Nobody
    /\ container' = IF Len(container) >= PoolSizeMax THEN container
                    ELSE Append(container, work[t])
    /\ pc' = [pc EXCEPT ![t] = "unlock"]
    /\ UNCHANGED <<poolMutex, current, target, mutex, ref, work>>

\* Dispose returns and unlocks the container's mutex.
DisposeReturn(t) ==
    /\ pc[t] = "unlock"
    /\ mutex' = [mutex EXCEPT ![work[t]] = Nobody]
    /\ work' = [work EXCEPT ![t] = NoContainer]
    /\ pc' = [pc EXCEPT ![t] = "idle"]
    /\ UNCHANGED <<container, poolMutex, current, target, ref>>

-----------------------------------------------------------------------------
\* The steps inside a call that has begun.
Continue(t) ==
    \/ \E c \in Containers : ObtainNew(t, c)
    \/ ObtainPop(t) \/ ObtainReset(t) \/ Release(t) \/ DisposeReturn(t)

\* The users dispose of what they have.
Give(t) == DisposeShared(t) \/ DisposeLast(t)

Next ==
    \E t \in Threads :
       \/ ObtainLock(t)
       \/ Continue(t)
       \/ Give(t)
       \/ \E u \in Threads : UpdateCounter(t, u)

Spec == Init /\ [][Next]_vars

\* Fairness: sync.Mutex is fair to its waiters (a waiter that starves gets the
\* mutex handed over), and every user disposes of its reference in the end.
FairSpec == Spec /\ \A t \in Threads : SF_vars(Continue(t)) /\ SF_vars(Give(t))

-----------------------------------------------------------------------------
(* Properties *)

\* Every container is out as often as threads refer to it, and is handed out
\* again only when nobody does, whatever Obtain and Dispose calls overlap.
P == INSTANCE Pool WITH
        inUse <- [c \in Containers |-> Cardinality({t \in Threads : ref[t] = c})]
ImplementsPool == P!PoolSpec

\* A user's container is usable: Data fails "only if the pool itself is
\* broken" (client.startReader), and no Dispose is refused.
UsableWhileHeld ==
    \A t \in Threads : ref[t] # NoContainer => ~Disposed(ref[t])

\* reset "must only be called while the container is not referenced by anyone
\* else": nothing refers to a container that is on the list or being reset but
\* a Dispose that has only to unlock it, and it is on the list once.
FreeIsUnreferenced ==
    /\ \A i, j \in 1..Len(container) : container[i] = container[j] => i = j
    /\ \A c \in Containers :
          InList(c) \/ (\E t \in Threads : pc[t] = "reset" /\ work[t] = c)
          => \A t \in Threads :
                /\ ref[t] # c
                /\ work[t] = c => pc[t] = "unlock" \/ (pc[t] = "reset" /\ ~InList(c))

\* Obtain and Dispose lock in opposite orders and still every call returns.
CallsReturn == \A t \in Threads : (pc[t] # "idle") ~> (pc[t] = "idle")
===============================================================================
