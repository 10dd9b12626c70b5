---------------------------- MODULE ObjectPoolProofs ----------------------------
(***************************************************************************)
(* Proofs about ObjectPool for any containers, any goroutines and any size *)
(* of the free list: what is handed out is usable, what is free is not     *)
(* referenced, and the pool implements the promise of module Pool.         *)
(***************************************************************************)
EXTENDS ObjectPool, FiniteSetTheorems, SequenceTheorems, TLAPS

-----------------------------------------------------------------------------
(* The inductive invariant *)

\* The threads that refer to c.
Refs(c) == {t \in Threads : ref[t] = c}

\* Who holds which mutex, and in which part of a call a container is at work.
LockInv ==
    \A t \in Threads :
       /\ poolMutex = t <=> pc[t] \in {"obtaining", "reset"}
       /\ pc[t] \in {"release", "unlock"} => mutex[work[t]] = t
       /\ work[t] = NoContainer <=> pc[t] \in {"idle", "obtaining"}
       /\ ref[t] # NoContainer => pc[t] = "idle"

\* What is on the list or at work is referred to by nobody; only a Dispose that
\* has yet to unlock may be about a container that has been released.
FreeInv ==
    /\ \A i, j \in DOMAIN container : container[i] = container[j] => i = j
    /\ \A i \in DOMAIN container, t \in Threads :
          /\ ref[t] # container[i]
          /\ work[t] = container[i] => pc[t] = "unlock"
    /\ \A t, u \in Threads :
          /\ work[t] # NoContainer => ref[u] # work[t]
          /\ pc[t] = "reset" /\ work[u] = work[t] => u = t \/ pc[u] = "unlock"

\* A container in use has been disposed of as often as it is not referred to
\* any more.
CountInv ==
    /\ \A c \in Containers : IsFiniteSet(Refs(c))
    /\ \A t \in Threads :
          ref[t] # NoContainer =>
             current[ref[t]] + Cardinality(Refs(ref[t])) = target[ref[t]]

PoolInv == TypeOK /\ LockInv /\ FreeInv /\ CountInv

-----------------------------------------------------------------------------
(* The list, the references *)

\* What the steps below need of the types.
LEMMA Domains ==
    ASSUME TypeOK
    PROVE  /\ DOMAIN pc = Threads /\ DOMAIN ref = Threads /\ DOMAIN work = Threads
           /\ DOMAIN current = Containers /\ DOMAIN target = Containers
           /\ DOMAIN mutex = Containers /\ container \in Seq(Containers)
           /\ Nobody \notin Threads /\ NoContainer \notin Containers
  BY PoolAssumption DEF TypeOK

\* Obtain takes the last container of the list.
LEMMA ListPop ==
    ASSUME NEW s \in Seq(Containers), s # <<>>
    PROVE  /\ Len(s) \in DOMAIN s /\ s[Len(s)] \in Containers
           /\ SubSeq(s, 1, Len(s) - 1) \in Seq(Containers)
           /\ Len(SubSeq(s, 1, Len(s) - 1)) = Len(s) - 1
           /\ \A i \in DOMAIN SubSeq(s, 1, Len(s) - 1) :
                 /\ i \in DOMAIN s /\ i # Len(s)
                 /\ SubSeq(s, 1, Len(s) - 1)[i] = s[i]
  <1>1. PICK n \in Nat \ {0} : n = Len(s)
    BY EmptySeq
  <1>2. n \in DOMAIN s /\ s[n] \in Containers
    BY <1>1
  <1>3. /\ SubSeq(s, 1, n - 1) \in Seq(Containers) /\ Len(SubSeq(s, 1, n - 1)) = n - 1
        /\ \A i \in 1..(n - 1) : SubSeq(s, 1, n - 1)[i] = s[i]
    BY <1>1, SubSeqProperties
  <1>4. DOMAIN SubSeq(s, 1, n - 1) = 1..(n - 1) /\ DOMAIN s = 1..n
    BY <1>1, <1>3
  <1>. QED  BY <1>1, <1>2, <1>3, <1>4

\* release puts one at its end.
LEMMA ListPush ==
    ASSUME NEW s \in Seq(Containers), NEW c \in Containers
    PROVE  /\ Append(s, c) \in Seq(Containers)
           /\ Len(Append(s, c)) = Len(s) + 1
           /\ \A i \in DOMAIN Append(s, c) :
                 \/ i = Len(Append(s, c)) /\ Append(s, c)[i] = c
                 \/ i \in DOMAIN s /\ Append(s, c)[i] = s[i]
  BY AppendProperties


\* Every step keeps the types.
LEMMA TypeStep ==
    ASSUME TypeOK, LockInv, [Next]_vars
    PROVE  TypeOK'
  <1>. USE DEF TypeOK
  <1>1. ASSUME NEW t \in Threads, ObtainLock(t) PROVE TypeOK'
    BY <1>1, Domains DEF ObtainLock
  <1>2. ASSUME NEW t \in Threads, NEW c \in Containers, ObtainNew(t, c) PROVE TypeOK'
    BY <1>2, Domains DEF ObtainNew, Unreachable, InList
  <1>3. ASSUME NEW t \in Threads, ObtainPop(t) PROVE TypeOK'
    <2>1. /\ work' \in [Threads -> Containers \cup {NoContainer}]
          /\ container' \in Seq(Containers) /\ Len(container') =< PoolSizeMax
      BY <1>3, ListPop, PoolAssumption DEF ObtainPop
    <2>. QED  BY <1>3, <2>1 DEF ObtainPop
  <1>4. ASSUME NEW t \in Threads, ObtainReset(t) PROVE TypeOK'
    <2>1. work[t] \in Containers
      BY <1>4 DEF ObtainReset, LockInv
    <2>. QED  BY <1>4, <2>1 DEF ObtainReset
  <1>5. ASSUME NEW t \in Threads, Release(t) PROVE TypeOK'
    <2>1. work[t] \in Containers
      BY <1>5 DEF Release, LockInv
    <2>2. container' \in Seq(Containers) /\ Len(container') =< PoolSizeMax
      BY <1>5, <2>1, ListPush, PoolAssumption DEF Release
    <2>. QED  BY <1>5, <2>2 DEF Release
  <1>6. ASSUME NEW t \in Threads, DisposeReturn(t) PROVE TypeOK'
    <2>1. work[t] \in Containers
      BY <1>6 DEF DisposeReturn, LockInv
    <2>. QED  BY <1>6, <2>1 DEF DisposeReturn
  <1>7. ASSUME NEW t \in Threads, DisposeShared(t) PROVE TypeOK'
    BY <1>7, Domains DEF DisposeShared, Disposed
  <1>8. ASSUME NEW t \in Threads, DisposeLast(t) PROVE TypeOK'
    BY <1>8, Domains DEF DisposeLast, Disposed
  <1>9. ASSUME NEW t \in Threads, NEW u \in Threads, UpdateCounter(t, u) PROVE TypeOK'
    BY <1>9, Domains DEF UpdateCounter, Disposed
  <1>10. CASE UNCHANGED vars
    BY <1>10 DEF vars
  <1>. QED
    BY <1>1, <1>2, <1>3, <1>4, <1>5, <1>6, <1>7, <1>8, <1>9, <1>10 DEF Next,
       Continue, Give

\* The mutexes admit one thread each.
LEMMA LockStep ==
    ASSUME TypeOK, LockInv, [Next]_vars
    PROVE  LockInv'
  <1>. USE DEF LockInv
  <1>1. ASSUME NEW t \in Threads, ObtainLock(t) PROVE LockInv'
    BY <1>1, Domains DEF ObtainLock
  <1>2. ASSUME NEW t \in Threads, NEW c \in Containers, ObtainNew(t, c) PROVE LockInv'
    BY <1>2, Domains DEF ObtainNew, Unreachable, InList
  <1>3. ASSUME NEW t \in Threads, ObtainPop(t) PROVE LockInv'
    BY <1>3, Domains DEF ObtainPop
  <1>4. ASSUME NEW t \in Threads, ObtainReset(t) PROVE LockInv'
    BY <1>4, Domains DEF ObtainReset
  <1>5. ASSUME NEW t \in Threads, Release(t) PROVE LockInv'
    BY <1>5, Domains DEF Release
  <1>6. ASSUME NEW t \in Threads, DisposeReturn(t) PROVE LockInv'
    BY <1>6, Domains DEF DisposeReturn
  <1>7. ASSUME NEW t \in Threads, DisposeShared(t) PROVE LockInv'
    BY <1>7, Domains DEF DisposeShared, Disposed
  <1>8. ASSUME NEW t \in Threads, DisposeLast(t) PROVE LockInv'
    <2>1. PICK c \in Containers : c = ref[t] /\ mutex[c] = Nobody
      BY <1>8 DEF DisposeLast, TypeOK
    <2>2. /\ mutex' = [mutex EXCEPT ![c] = t] /\ pc' = [pc EXCEPT ![t] = "release"]
          /\ ref' = [ref EXCEPT ![t] = NoContainer] /\ work' = [work EXCEPT ![t] = c]
          /\ UNCHANGED <<container, poolMutex>> /\ pc[t] = "idle"
      BY <1>8, <2>1 DEF DisposeLast
    <2>3. \A u \in Threads : u # t /\ pc[u] \in {"release", "unlock"} => work[u] # c
      BY <2>1, Domains DEF LockInv
    <2>. QED  BY <2>1, <2>2, <2>3, Domains DEF LockInv
  <1>9. ASSUME NEW t \in Threads, NEW u \in Threads, UpdateCounter(t, u) PROVE LockInv'
    BY <1>9, Domains DEF UpdateCounter, Disposed
  <1>10. CASE UNCHANGED vars
    BY <1>10 DEF vars
  <1>. QED
    BY <1>1, <1>2, <1>3, <1>4, <1>5, <1>6, <1>7, <1>8, <1>9, <1>10 DEF Next,
       Continue, Give


\* What a thread's reference says of the container.
LEMMA InUse ==
    ASSUME TypeOK, CountInv, NEW c \in Containers, NEW t \in Threads, ref[t] = c
    PROVE  /\ t \in Refs(c) /\ IsFiniteSet(Refs(c))
           /\ Cardinality(Refs(c)) \in Nat \ {0}
           /\ current[c] + Cardinality(Refs(c)) = target[c]
           /\ current[c] \in Nat /\ target[c] \in Nat
           /\ ~Disposed(c)
  <1>1. t \in Refs(c) /\ IsFiniteSet(Refs(c))
    BY DEF Refs, CountInv
  <1>2. Cardinality(Refs(c)) \in Nat /\ Cardinality(Refs(c)) # 0
    BY <1>1, FS_CardinalityType, FS_EmptySet
  <1>3. current[c] \in Nat /\ target[c] \in Nat
    BY DEF TypeOK
  <1>4. current[c] + Cardinality(Refs(c)) = target[c]
    BY Domains DEF CountInv
  <1>. QED  BY <1>1, <1>2, <1>3, <1>4 DEF Disposed


\* The Dispose that is the last one disposes of the only reference.
LEMMA LastReference ==
    ASSUME TypeOK, CountInv, NEW c \in Containers, NEW t \in Threads, ref[t] = c,
           current[c] + 1 >= target[c]
    PROVE  \A u \in Threads : ref[u] = c => u = t
  <1>1. PICK n \in Nat \ {0} : n = Cardinality(Refs(c))
    BY InUse
  <1>2. current[c] + n = target[c] /\ current[c] \in Nat /\ target[c] \in Nat
    BY <1>1, InUse
  <1>3. n = 1
    BY <1>2
  <1>4. IsFiniteSet(Refs(c) \ {t}) /\ Cardinality(Refs(c) \ {t}) = n - 1
    BY <1>1, InUse, FS_RemoveElement
  <1>5. Refs(c) \ {t} = {}
    BY <1>3, <1>4, FS_EmptySet
  <1>. QED  BY <1>5 DEF Refs

\* Obtain hands out what nobody refers to, Dispose puts back what nobody does.
LEMMA FreeStep ==
    ASSUME TypeOK, LockInv, FreeInv, CountInv, [Next]_vars
    PROVE  FreeInv'
  <1>. USE DEF FreeInv
  <1>1. ASSUME NEW t \in Threads, ObtainLock(t) PROVE FreeInv'
    BY <1>1, Domains DEF ObtainLock, LockInv
  <1>2. ASSUME NEW t \in Threads, NEW c \in Containers, ObtainNew(t, c) PROVE FreeInv'
    BY <1>2, Domains DEF ObtainNew, Unreachable, InList, LockInv
  <1>3. ASSUME NEW t \in Threads, ObtainPop(t) PROVE FreeInv'
    <2>1. /\ Len(container) \in DOMAIN container
          /\ \A i \in DOMAIN container' :
                i \in DOMAIN container /\ i # Len(container) /\ container'[i] = container[i]
      BY <1>3, ListPop, Domains DEF ObtainPop
    <2>2. /\ UNCHANGED ref /\ work' = [work EXCEPT ![t] = container[Len(container)]]
          /\ pc' = [pc EXCEPT ![t] = "reset"]
      BY <1>3 DEF ObtainPop
    <2>3. container[Len(container)] # NoContainer
      BY <1>3, ListPop, Domains DEF ObtainPop
    <2>4. work[t] = NoContainer /\ \A u \in Threads : u # t => pc[u] # "reset"
      BY <1>3 DEF ObtainPop, LockInv
    <2>. QED  BY <2>1, <2>2, <2>3, <2>4, Domains DEF LockInv
  <1>4. ASSUME NEW t \in Threads, ObtainReset(t) PROVE FreeInv'
    BY <1>4, Domains DEF ObtainReset, LockInv
  <1>5. ASSUME NEW t \in Threads, Release(t) PROVE FreeInv'
    <2>1. work[t] \in Containers
      BY <1>5 DEF Release, LockInv, TypeOK
    <2>2. \A i \in DOMAIN container' :
             \/ i \in DOMAIN container /\ container'[i] = container[i]
             \/ i = Len(container') /\ container'[i] = work[t]
      BY <1>5, <2>1, ListPush, Domains DEF Release
    <2>3. UNCHANGED <<ref, work>> /\ pc' = [pc EXCEPT ![t] = "unlock"]
      BY <1>5 DEF Release
    <2>4. \A i \in DOMAIN container : container[i] # work[t]
      BY <1>5 DEF Release
    <2>5. ASSUME NEW u \in Threads, work[u] = work[t] PROVE u = t
      <3>1. pc[u] \in {"reset", "release", "unlock"}
        <4>1. work[u] # NoContainer
          BY <2>1, <2>5, Domains
        <4>2. pc[u] \in {"idle", "obtaining", "reset", "release", "unlock"}
          BY DEF TypeOK
        <4>. QED  BY <4>1, <4>2 DEF LockInv
      <3>2. pc[u] # "reset"
        BY <1>5, Domains DEF Release, LockInv
      <3>3. mutex[work[u]] = u /\ mutex[work[t]] = t
        BY <1>5, <3>1, <3>2 DEF Release, LockInv
      <3>. QED  BY <2>5, <3>3
    <2>. QED  BY <2>1, <2>2, <2>3, <2>4, <2>5, Domains DEF LockInv
  <1>6. ASSUME NEW t \in Threads, DisposeReturn(t) PROVE FreeInv'
    BY <1>6, Domains DEF DisposeReturn, LockInv
  <1>7. ASSUME NEW t \in Threads, DisposeShared(t) PROVE FreeInv'
    BY <1>7, Domains DEF DisposeShared, Disposed, LockInv
  <1>8. ASSUME NEW t \in Threads, DisposeLast(t) PROVE FreeInv'
    <2>1. PICK c \in Containers : c = ref[t] /\ mutex[c] = Nobody
      BY <1>8 DEF DisposeLast, TypeOK
    <2>2. /\ mutex' = [mutex EXCEPT ![c] = t] /\ pc' = [pc EXCEPT ![t] = "release"]
          /\ ref' = [ref EXCEPT ![t] = NoContainer] /\ work' = [work EXCEPT ![t] = c]
          /\ UNCHANGED <<container, poolMutex>> /\ pc[t] = "idle"
      BY <1>8, <2>1 DEF DisposeLast
    <2>3. \A u \in Threads : u # t /\ pc[u] \in {"release", "unlock"} => work[u] # c
      BY <2>1, Domains DEF LockInv
    <2>4. \A u \in Threads : work[u] # c
      <3>1. c # NoContainer
        BY <2>1, Domains
      <3>. QED  BY <2>1, <3>1
    <2>5. \A u \in Threads : ref'[u] # c
      <3>1. current[c] + 1 >= target[c]
        BY <1>8, <2>1 DEF DisposeLast
      <3>2. \A u \in Threads : ref[u] = c => u = t
        BY <2>1, <3>1, LastReference
      <3>. QED  BY <2>1, <2>2, <3>2, Domains
    <2>6. \A u \in Threads : ref'[u] = ref[u] \/ ref'[u] = NoContainer
      BY <2>2, Domains
    <2>7. /\ work'[t] = c /\ pc'[t] = "release"
          /\ \A u \in Threads : u # t => work'[u] = work[u] /\ pc'[u] = pc[u]
      BY <2>2, Domains
    <2>8. \A i \in DOMAIN container : container[i] # NoContainer /\ container[i] # c
      BY <2>1, Domains
    <2>. HIDE <2>2
    <2>9. UNCHANGED container
      BY <1>8 DEF DisposeLast
    <2>10. \A i \in DOMAIN container', v \in Threads :
              /\ ref'[v] # container'[i]
              /\ work'[v] = container'[i] => pc'[v] = "unlock"
      BY <2>6, <2>7, <2>8, <2>9
    <2>11. \A v, u \in Threads : work'[v] # NoContainer => ref'[u] # work'[v]
      BY <2>5, <2>6, <2>7
    <2>12. \A v, u \in Threads : pc'[v] = "reset" /\ work'[u] = work'[v]
                                    => u = v \/ pc'[u] = "unlock"
      BY <2>4, <2>7
    <2>. QED  BY <2>9, <2>10, <2>11, <2>12
  <1>9. ASSUME NEW t \in Threads, NEW u \in Threads, UpdateCounter(t, u) PROVE FreeInv'
    BY <1>9, Domains DEF UpdateCounter, Disposed, LockInv
  <1>10. CASE UNCHANGED vars
    BY <1>10 DEF vars, LockInv
  <1>. QED
    BY <1>1, <1>2, <1>3, <1>4, <1>5, <1>6, <1>7, <1>8, <1>9, <1>10 DEF Next,
       Continue, Give


\* Handing out, giving back and sharing change the counters with the references.
LEMMA HandedOut ==
    ASSUME TypeOK, CountInv, NEW t \in Threads, NEW c \in Containers,
           ref[t] = NoContainer, Refs(c) = {}, ref' = [ref EXCEPT ![t] = c],
           target' = [target EXCEPT ![c] = 1], current' = [current EXCEPT ![c] = 0]
    PROVE  CountInv' /\ Cardinality(Refs(c)') = 1 /\ \A d \in Containers : d # c => Refs(d)' = Refs(d)
  <1>1. Refs(c)' = {t} /\ \A d \in Containers : d # c => Refs(d)' = Refs(d)
    BY Domains DEF Refs
  <1>2. IsFiniteSet({t}) /\ Cardinality({t}) = 1
    BY FS_Singleton
  <1>3. /\ target'[c] = 1 /\ current'[c] = 0
        /\ \A d \in Containers : d # c => target'[d] = target[d] /\ current'[d] = current[d]
    BY Domains
  <1>4. \A d \in Containers : IsFiniteSet(Refs(d)')
    BY <1>1, <1>2 DEF CountInv
  <1>5. ASSUME NEW u \in Threads, NEW d \in Containers, d = ref'[u]
        PROVE  current'[d] + Cardinality(Refs(d)') = target'[d]
    <2>1. CASE d = c
      BY <1>1, <1>2, <1>3, <2>1
    <2>2. CASE d # c
      <3>1. ref[u] = d
        BY <1>5, <2>2, Domains
      <3>. QED  BY <1>1, <1>3, <2>2, <3>1, InUse
    <2>. QED  BY <2>1, <2>2
  <1>6. \A u \in Threads : ref'[u] # NoContainer => ref'[u] \in Containers
    BY Domains DEF TypeOK
  <1>. QED  BY <1>1, <1>2, <1>4, <1>5, <1>6 DEF CountInv

\* ... giving it back,
LEMMA GivenBack ==
    ASSUME TypeOK, CountInv, NEW t \in Threads, NEW c \in Containers, ref[t] = c,
           ref' = [ref EXCEPT ![t] = NoContainer],
           current' = [current EXCEPT ![c] = @ + 1], UNCHANGED target
    PROVE  /\ CountInv' /\ Cardinality(Refs(c)') = Cardinality(Refs(c)) - 1
           /\ \A d \in Containers : d # c => Refs(d)' = Refs(d)
  <1>1. Refs(c)' = Refs(c) \ {t} /\ \A d \in Containers : d # c => Refs(d)' = Refs(d)
    BY Domains DEF Refs
  <1>2. /\ IsFiniteSet(Refs(c) \ {t})
        /\ Cardinality(Refs(c) \ {t}) = Cardinality(Refs(c)) - 1
    BY InUse, FS_RemoveElement
  <1>3. /\ current'[c] = current[c] + 1
        /\ \A d \in Containers : d # c => current'[d] = current[d]
    BY Domains
  <1>4. \A d \in Containers : IsFiniteSet(Refs(d)')
    BY <1>1, <1>2 DEF CountInv
  <1>5. ASSUME NEW u \in Threads, NEW d \in Containers, d = ref'[u]
        PROVE  current'[d] + Cardinality(Refs(d)') = target'[d]
    <2>1. CASE d = c
      <3>1. /\ current[c] + Cardinality(Refs(c)) = target[c]
            /\ current[c] \in Nat /\ Cardinality(Refs(c)) \in Nat
        BY InUse
      <3>2. PICK m \in Nat : m = Cardinality(Refs(c))
        BY <3>1
      <3>3. Cardinality(Refs(d)') = m - 1
        BY <1>1, <1>2, <2>1, <3>2
      <3>4. current'[d] = current[c] + 1 /\ target'[d] = target[c]
        BY <1>3, <2>1
      <3>. QED  BY <3>1, <3>2, <3>3, <3>4
    <2>2. CASE d # c
      <3>1. ref[u] = d
        BY <1>5, <2>2, Domains
      <3>. QED  BY <1>1, <1>3, <2>2, <3>1, InUse
    <2>. QED  BY <2>1, <2>2
  <1>6. \A u \in Threads : ref'[u] # NoContainer => ref'[u] \in Containers
    BY Domains DEF TypeOK
  <1>. QED  BY <1>1, <1>2, <1>4, <1>5, <1>6 DEF CountInv

\* ... and sharing it.
LEMMA Shared ==
    ASSUME TypeOK, CountInv, NEW t \in Threads, NEW u \in Threads, NEW c \in Containers,
           ref[t] = c, ref[u] = NoContainer, target[c] = 1, current[c] = 0,
           ref' = [ref EXCEPT ![u] = c],
           target' = [target EXCEPT ![c] = 2], UNCHANGED current
    PROVE  /\ CountInv' /\ Cardinality(Refs(c)) = 1 /\ Cardinality(Refs(c)') = 2
           /\ \A d \in Containers : d # c => Refs(d)' = Refs(d)
  <1>1. /\ Refs(c)' = Refs(c) \cup {u} /\ u \notin Refs(c)
        /\ \A d \in Containers : d # c => Refs(d)' = Refs(d)
    BY Domains DEF Refs
  <1>2. IsFiniteSet(Refs(c)) /\ Cardinality(Refs(c)) = 1
    BY InUse
  <1>3. IsFiniteSet(Refs(c) \cup {u}) /\ Cardinality(Refs(c) \cup {u}) = 2
    BY <1>1, <1>2, FS_AddElement
  <1>4. target'[c] = 2 /\ \A d \in Containers : d # c => target'[d] = target[d]
    BY Domains
  <1>5. \A d \in Containers : IsFiniteSet(Refs(d)')
    BY <1>1, <1>3 DEF CountInv
  <1>6. ASSUME NEW v \in Threads, NEW d \in Containers, d = ref'[v]
        PROVE  current'[d] + Cardinality(Refs(d)') = target'[d]
    <2>1. CASE d = c
      BY <1>1, <1>3, <1>4, <2>1
    <2>2. CASE d # c
      <3>1. ref[v] = d
        BY <1>6, <2>2, Domains
      <3>. QED  BY <1>1, <1>4, <2>2, <3>1, InUse
    <2>. QED  BY <2>1, <2>2
  <1>7. \A v \in Threads : ref'[v] # NoContainer => ref'[v] \in Containers
    BY Domains DEF TypeOK
  <1>. QED  BY <1>1, <1>2, <1>3, <1>5, <1>6, <1>7 DEF CountInv

\* Disposals and references add up while the container is in use.
LEMMA CountStep ==
    ASSUME TypeOK, LockInv, FreeInv, CountInv, [Next]_vars
    PROVE  CountInv'
  <1>. USE DEF CountInv
  <1>1. ASSUME NEW t \in Threads, ObtainLock(t) PROVE CountInv'
    <2>1. UNCHANGED <<ref, current, target>>
      BY <1>1 DEF ObtainLock
    <2>. QED  BY <2>1 DEF Refs
  <1>2. ASSUME NEW t \in Threads, NEW c \in Containers, ObtainNew(t, c) PROVE CountInv'
    <2>1. Refs(c) = {} /\ ref[t] = NoContainer /\ c \in Containers
      BY <1>2 DEF ObtainNew, Unreachable, Refs, LockInv
    <2>. QED  BY <1>2, <2>1, HandedOut DEF ObtainNew
  <1>3. ASSUME NEW t \in Threads, ObtainPop(t) PROVE CountInv'
    <2>1. UNCHANGED <<ref, current, target>>
      BY <1>3 DEF ObtainPop
    <2>. QED  BY <2>1 DEF Refs
  <1>4. ASSUME NEW t \in Threads, ObtainReset(t) PROVE CountInv'
    <2>1. work[t] \in Containers /\ ref[t] = NoContainer
      BY <1>4 DEF ObtainReset, LockInv, TypeOK
    <2>2. Refs(work[t]) = {}
      BY <1>4, <2>1, Domains DEF Refs, FreeInv
    <2>. QED  BY <1>4, <2>1, <2>2, HandedOut DEF ObtainReset
  <1>5. ASSUME NEW t \in Threads, Release(t) PROVE CountInv'
    <2>1. UNCHANGED <<ref, current, target>>
      BY <1>5 DEF Release
    <2>. QED  BY <2>1 DEF Refs
  <1>6. ASSUME NEW t \in Threads, DisposeReturn(t) PROVE CountInv'
    <2>1. UNCHANGED <<ref, current, target>>
      BY <1>6 DEF DisposeReturn
    <2>. QED  BY <2>1 DEF Refs
  <1>7. ASSUME NEW t \in Threads, DisposeShared(t) PROVE CountInv'
    <2>1. PICK c \in Containers : c = ref[t]
      BY <1>7 DEF DisposeShared, TypeOK
    <2>2. IsFiniteSet(Refs(c)) /\ t \in Refs(c) /\ Cardinality(Refs(c)) > 0
      BY <2>1, InUse DEF Refs
    <2>3. current[c] + Cardinality(Refs(c)) = target[c]
      BY <2>1, Domains
    <2>4. current[c] \in Nat /\ target[c] \in Nat /\ Cardinality(Refs(c)) \in Nat
      BY <2>2, FS_CardinalityType DEF TypeOK
    <2>5. ~Disposed(c)
      BY <2>2, <2>3, <2>4 DEF Disposed
    <2>6. /\ current' = [current EXCEPT ![c] = @ + 1] /\ UNCHANGED target
          /\ ref' = [ref EXCEPT ![t] = NoContainer]
      BY <1>7, <2>1, <2>5 DEF DisposeShared
    <2>. QED  BY <2>1, <2>2, <2>3, <2>4, <2>6, GivenBack
  <1>8. ASSUME NEW t \in Threads, DisposeLast(t) PROVE CountInv'
    <2>1. PICK c \in Containers : c = ref[t]
      BY <1>8 DEF DisposeLast, TypeOK
    <2>2. /\ current' = [current EXCEPT ![c] = @ + 1] /\ UNCHANGED target
          /\ ref' = [ref EXCEPT ![t] = NoContainer]
      BY <1>8, <2>1 DEF DisposeLast
    <2>. QED  BY <2>1, <2>2, GivenBack
  <1>9. ASSUME NEW t \in Threads, NEW u \in Threads, UpdateCounter(t, u) PROVE CountInv'
    <2>1. PICK c \in Containers : c = ref[t]
      BY <1>9 DEF UpdateCounter, TypeOK
    <2>2. /\ target' = [target EXCEPT ![c] = 2] /\ UNCHANGED current
          /\ ref' = [ref EXCEPT ![u] = c]
          /\ target[c] = 1 /\ current[c] = 0 /\ ref[u] = NoContainer
      BY <1>9, <2>1 DEF UpdateCounter
    <2>. QED  BY <2>1, <2>2, Shared
  <1>10. CASE UNCHANGED vars
    BY <1>10 DEF vars, Refs
  <1>. QED
    BY <1>1, <1>2, <1>3, <1>4, <1>5, <1>6, <1>7, <1>8, <1>9, <1>10 DEF Next,
       Continue, Give


-----------------------------------------------------------------------------
(* The theorems *)

\* An empty pool that nobody uses satisfies the invariant,
LEMMA PoolInvInit ==
    ASSUME Init
    PROVE  PoolInv
  <1>1. TypeOK
    BY PoolAssumption DEF Init, TypeOK
  <1>2. LockInv
    BY PoolAssumption DEF Init, LockInv
  <1>3. FreeInv
    BY PoolAssumption DEF Init, FreeInv
  <1>4. \A c \in Containers : Refs(c) = {}
    BY PoolAssumption DEF Init, Refs
  <1>5. CountInv
    BY <1>4, FS_EmptySet DEF Init, CountInv
  <1>. QED  BY <1>1, <1>2, <1>3, <1>5 DEF PoolInv

\* ... and every step keeps it.
LEMMA PoolInvStep ==
    ASSUME PoolInv, [Next]_vars
    PROVE  PoolInv'
  <1>1. TypeOK /\ LockInv /\ FreeInv /\ CountInv
    BY DEF PoolInv
  <1>. QED  BY <1>1, TypeStep, LockStep, FreeStep, CountStep DEF PoolInv

\* The mutexes, the list and the counters agree in every reachable state.
THEOREM PoolInvariant == Spec => []PoolInv
  <1>1. Init => PoolInv
    BY PoolInvInit
  <1>2. PoolInv /\ [Next]_vars => PoolInv'
    BY PoolInvStep
  <1>. QED  BY <1>1, <1>2, PTL DEF Spec

\* Every variable keeps its type and the list its limit.
THEOREM TypeCorrect == Spec => []TypeOK
  <1>1. PoolInv => TypeOK
    BY DEF PoolInv
  <1>. QED  BY <1>1, PoolInvariant, PTL

\* Data and Dispose never refuse a container that a goroutine still refers to.
THEOREM HeldIsUsable == Spec => []UsableWhileHeld
  <1>1. ASSUME PoolInv, NEW t \in Threads, ref[t] # NoContainer
        PROVE  ~Disposed(ref[t])
    <2>1. TypeOK /\ CountInv
      BY <1>1 DEF PoolInv
    <2>2. PICK c \in Containers : c = ref[t]
      BY <1>1, <2>1 DEF TypeOK
    <2>3. ~Disposed(c)
      BY <2>1, <2>2, InUse
    <2>. QED  BY <2>2, <2>3
  <1>2. PoolInv => UsableWhileHeld
    BY <1>1 DEF UsableWhileHeld
  <1>. QED  BY <1>2, PoolInvariant, PTL

\* What is on the list or being reset is referred to by nobody, and is on the
\* list once.
THEOREM FreeIsFree == Spec => []FreeIsUnreferenced
  <1>1. ASSUME PoolInv, NEW i \in 1..Len(container), NEW j \in 1..Len(container),
               container[i] = container[j]
        PROVE  i = j
    BY <1>1, Domains DEF PoolInv, FreeInv
  <1>2. ASSUME PoolInv, NEW c \in Containers, InList(c), NEW t \in Threads
        PROVE  ref[t] # c /\ (work[t] = c => pc[t] = "unlock")
    BY <1>2, Domains DEF PoolInv, FreeInv, InList
  <1>3. ASSUME PoolInv, NEW c \in Containers,
               NEW u \in Threads, pc[u] = "reset", work[u] = c, NEW t \in Threads
        PROVE  /\ ref[t] # c
               /\ work[t] = c => pc[t] = "unlock" \/ (pc[t] = "reset" /\ ~InList(c))
    <2>1. c # NoContainer
      BY <1>3, Domains DEF PoolInv
    <2>2. ~InList(c)
      BY <1>2, <1>3
    <2>. QED  BY <1>3, <2>1, <2>2 DEF PoolInv, FreeInv
  <1>4. PoolInv => FreeIsUnreferenced
    BY <1>1, <1>2, <1>3 DEF FreeIsUnreferenced
  <1>. QED  BY <1>4, PoolInvariant, PTL

-----------------------------------------------------------------------------
(* The pool implements module Pool *)

\* Obtain, UpdateCounter and Dispose seen as changes of inUse.
LEMMA IsObtain ==
    ASSUME NEW c \in Containers, Cardinality(Refs(c)) = 0, Cardinality(Refs(c)') = 1,
           \A d \in Containers : d # c => Refs(d)' = Refs(d)
    PROVE  P!Obtain(c)
  BY DEF P!Obtain, Refs

\* ... sharing,
LEMMA IsShare ==
    ASSUME NEW c \in Containers, Cardinality(Refs(c)) = 1, Cardinality(Refs(c)') = 2,
           \A d \in Containers : d # c => Refs(d)' = Refs(d)
    PROVE  P!Share(c)
  BY DEF P!Share, Refs

\* ... and giving back.
LEMMA IsDispose ==
    ASSUME NEW c \in Containers, Cardinality(Refs(c)) > 0,
           Cardinality(Refs(c)') = Cardinality(Refs(c)) - 1,
           \A d \in Containers : d # c => Refs(d)' = Refs(d)
    PROVE  P!Dispose(c)
  BY DEF P!Dispose, Refs

\* What a step does to the references: nothing, or one of the pool's promises.
LEMMA PoolStep ==
    ASSUME PoolInv, [Next]_vars
    PROVE  \/ \E c \in Containers : P!Obtain(c) \/ P!Share(c) \/ P!Dispose(c)
           \/ UNCHANGED ref
  <1>. DEFINE Goal == \/ \E c \in Containers : P!Obtain(c) \/ P!Share(c) \/ P!Dispose(c)
                      \/ UNCHANGED ref
  <1>. HIDE DEF Goal
  <1>1. TypeOK /\ LockInv /\ FreeInv /\ CountInv
    BY DEF PoolInv
  <1>2. ASSUME NEW t \in Threads, NEW c \in Containers, Refs(c) = {}, ref[t] = NoContainer,
               ref' = [ref EXCEPT ![t] = c],
               target' = [target EXCEPT ![c] = 1], current' = [current EXCEPT ![c] = 0]
        PROVE  Goal
    <2>1. Cardinality(Refs(c)) = 0
      BY <1>2, FS_EmptySet
    <2>. QED  BY <1>1, <1>2, <2>1, HandedOut, IsObtain DEF Goal
  <1>3. ASSUME NEW t \in Threads, NEW c \in Containers, ref[t] = c,
               ref' = [ref EXCEPT ![t] = NoContainer],
               current' = [current EXCEPT ![c] = @ + 1], UNCHANGED target
        PROVE  Goal
    <2>1. Cardinality(Refs(c)) \in Nat \ {0}
      BY <1>1, <1>3, InUse
    <2>2. /\ Cardinality(Refs(c)') = Cardinality(Refs(c)) - 1
          /\ \A d \in Containers : d # c => Refs(d)' = Refs(d)
      BY <1>1, <1>3, GivenBack
    <2>. QED  BY <2>1, <2>2, IsDispose DEF Goal
  <1>4. ASSUME NEW t \in Threads, NEW c \in Containers, ObtainNew(t, c) PROVE Goal
    <2>1. Refs(c) = {} /\ ref[t] = NoContainer
      BY <1>1, <1>4 DEF ObtainNew, Unreachable, Refs, LockInv
    <2>. QED  BY <1>2, <1>4, <2>1 DEF ObtainNew
  <1>5. ASSUME NEW t \in Threads, ObtainReset(t) PROVE Goal
    <2>1. work[t] \in Containers /\ ref[t] = NoContainer
      BY <1>1, <1>5 DEF ObtainReset, LockInv, TypeOK
    <2>2. Refs(work[t]) = {}
      BY <1>1, <2>1, Domains DEF Refs, FreeInv
    <2>. QED  BY <1>2, <1>5, <2>1, <2>2 DEF ObtainReset
  <1>6. ASSUME NEW t \in Threads, DisposeShared(t) PROVE Goal
    <2>1. PICK c \in Containers : c = ref[t]
      BY <1>1, <1>6 DEF DisposeShared, TypeOK
    <2>2. ~Disposed(c)
      BY <1>1, <2>1, InUse
    <2>3. /\ current' = [current EXCEPT ![c] = @ + 1] /\ UNCHANGED target
          /\ ref' = [ref EXCEPT ![t] = NoContainer]
      BY <1>6, <2>1, <2>2 DEF DisposeShared
    <2>. QED  BY <1>3, <2>1, <2>3
  <1>7. ASSUME NEW t \in Threads, DisposeLast(t) PROVE Goal
    <2>1. PICK c \in Containers : c = ref[t]
      BY <1>1, <1>7 DEF DisposeLast, TypeOK
    <2>2. /\ current' = [current EXCEPT ![c] = @ + 1] /\ UNCHANGED target
          /\ ref' = [ref EXCEPT ![t] = NoContainer]
      BY <1>7, <2>1 DEF DisposeLast
    <2>. QED  BY <1>3, <2>1, <2>2
  <1>8. ASSUME NEW t \in Threads, NEW u \in Threads, UpdateCounter(t, u) PROVE Goal
    <2>1. PICK c \in Containers : c = ref[t]
      BY <1>1, <1>8 DEF UpdateCounter, TypeOK
    <2>2. /\ target' = [target EXCEPT ![c] = 2] /\ UNCHANGED current
          /\ ref' = [ref EXCEPT ![u] = c]
          /\ target[c] = 1 /\ current[c] = 0 /\ ref[u] = NoContainer
      BY <1>8, <2>1 DEF UpdateCounter
    <2>3. /\ Cardinality(Refs(c)) = 1 /\ Cardinality(Refs(c)') = 2
          /\ \A d \in Containers : d # c => Refs(d)' = Refs(d)
      BY <1>1, <2>1, <2>2, Shared
    <2>. QED  BY <2>3, IsShare DEF Goal
  <1>9. ASSUME NEW t \in Threads,
               ObtainLock(t) \/ ObtainPop(t) \/ Release(t) \/ DisposeReturn(t)
        PROVE  Goal
    BY <1>9 DEF Goal, ObtainLock, ObtainPop, Release, DisposeReturn
  <1>10. CASE UNCHANGED vars
    BY <1>10 DEF Goal, vars
  <1>11. ASSUME Next PROVE Goal
    BY <1>4, <1>5, <1>6, <1>7, <1>8, <1>9, <1>11 DEF Next, Continue, Give
  <1>. QED  BY <1>10, <1>11 DEF Goal

\* Whatever Obtain and Dispose calls overlap, a container that has been handed
\* out is handed out again only when every reference to it has been disposed of.
THEOREM Implements == Spec => ImplementsPool
  <1>1. Init => P!PoolInit
    <2>1. ASSUME Init, NEW c \in Containers
          PROVE  Cardinality({t \in Threads : ref[t] = c}) = 0
      <3>1. {t \in Threads : ref[t] = c} = {}
        BY <2>1, PoolAssumption DEF Init
      <3>. QED  BY <3>1, FS_EmptySet
    <2>. QED  BY <2>1 DEF P!PoolInit
  <1>2. PoolInv /\ [Next]_vars
           => [P!PoolNext]_[c \in Containers |-> Cardinality({t \in Threads : ref[t] = c})]
    BY PoolStep DEF P!PoolNext
  <1>. QED  BY <1>1, <1>2, PoolInvariant, PTL DEF Spec, ImplementsPool, P!PoolSpec
===============================================================================
