--------------------------- MODULE WorkPool_proofs ---------------------------
(***************************************************************************)
(* Proofs about WorkPool: types, the discipline of wp.mu, and from them    *)
(* that usedNum counts the goroutines and that there are never more than   *)
(* maxIdle, whatever the numbers of submitters, closers and resizers; then *)
(* who has a worker, what becomes of a task, and that the pool is a        *)
(* TaskPool.                                                               *)
(***************************************************************************)
EXTENDS WorkPool, FiniteSetTheorems, TLAPS

\* The states in which a caller has a worker in its hands.
Holding == {"popped", "send", "give back", "stop", "grow push"}
HoldsWorker == \A p \in Callers : pc[p] \in Holding => held[p] \in Workers

\* The states in which a caller holds wp.mu.
InCritical(p) ==
    \/ pc[p] \in {"locked", "none idle", "closing", "stop", "grow", "grow push", "shrink", "panicked"}
    \/ p \in Shrinkers /\ pc[p] \in {"pop", "look", "wait"}
LockHeld == \A p \in Callers : InCritical(p) => mu = p

\* The inductive invariant.
IInv == TypeOK /\ HoldsWorker /\ LockHeld /\ UsedNumCountsWorkers /\ WorkerLimit

\* The values a queue operation may leave in wp.queue.list are lists of workers.
LEMMA RemoveType ==
    ASSUME queue \in Seq(Workers), NEW w, Remove(w)
    PROVE  queue' \in Seq(Workers)
<1>1. PICK k \in 1..Len(queue) :
         queue' = [i \in 1..(Len(queue) - 1) |-> IF i < k THEN queue[i] ELSE queue[i + 1]]
  BY DEF Remove
<1>2. Len(queue) - 1 \in Nat
  BY <1>1
<1>3. \A i \in 1..(Len(queue) - 1) : queue[i] \in Workers /\ queue[i + 1] \in Workers
  BY <1>1
<1>4. queue' \in [1..(Len(queue) - 1) -> Workers]
  BY <1>1, <1>3
<1> QED BY <1>2, <1>4

LEMMA PushType ==
    ASSUME TypeOK, NEW w \in Workers, Push(w)
    PROVE  queue' \in Seq(Workers) /\ parked' \subseteq Callers
BY DEF TypeOK, Push

LEMMA TryPopType ==
    ASSUME TypeOK, NEW p \in Callers, TryPop(p)
    PROVE  /\ queue' \in Seq(Workers)
           /\ held' \in [Callers -> Workers \cup {None}]
           /\ held'[p] \in Workers
           /\ \A q \in Callers : q # p => held'[q] = held[q]
BY DEF TypeOK, TryPop, Hold

LEMMA Roles ==
    /\ Clients \subseteq Callers /\ Closers \subseteq Callers
    /\ Adjusters \subseteq Callers /\ PreIniters \subseteq Callers /\ Shrinkers \subseteq Callers
    /\ Clients \cap Shrinkers = {}
BY PoolAssumption DEF Callers, Shrinkers

\* The queue step of pop leaves a caller with a worker, or with none as before.
LEMMA PopTypes ==
    ASSUME TypeOK, HoldsWorker, NEW p \in Callers, Pop(p)
    PROVE  TypeOK' /\ HoldsWorker'
<1>1. CASE PopTake(p)
  <2>1. /\ queue' \in Seq(Workers) /\ held' \in [Callers -> Workers \cup {None}]
        /\ held'[p] \in Workers /\ \A q \in Callers : q # p => held'[q] = held[q]
    BY <1>1, TryPopType DEF PopTake
  <2> QED
    BY <1>1, <2>1 DEF PopTake, Go, TypeOK, HoldsWorker, Holding, CallerStates, counts, works
<1>2. CASE PopLook(p)
  BY <1>2 DEF PopLook, Go, TypeOK, HoldsWorker, Holding, CallerStates, counts, lists, works
<1>3. CASE PopPark(p)
  BY <1>3 DEF PopPark, Go, TypeOK, HoldsWorker, Holding, CallerStates, counts, works
<1> QED BY <1>1, <1>2, <1>3 DEF Pop

LEMMA SpawnTypes ==
    ASSUME TypeOK, NEW p \in Callers, Spawn(p)
    PROVE  /\ wpc' \in [Workers -> {"none", "select", "busy", "finished", "leaving"}]
           /\ usedNum' \in Int
           /\ held' \in [Callers -> Workers \cup {None}]
           /\ held'[p] \in Workers
           /\ \A q \in Callers : q # p => held'[q] = held[q]
BY DEF TypeOK, Spawn, Hold

LEMMA DoTypes ==
    ASSUME TypeOK, HoldsWorker, NEW c \in Clients, DoStep(c)
    PROVE  TypeOK' /\ HoldsWorker'
<1> USE Roles DEF TypeOK, HoldsWorker, Holding, CallerStates, Go, Hold, Answer, counts, works, lists
<1>1. CASE DoIsClosed(c)
  <2>0. activeNum \in Int /\ activeNum' \in {activeNum, activeNum + 1} BY <1>1 DEF DoIsClosed
  <2>1. activeNum' \in Int BY ONLY <2>0
  <2>2. CASE Go(c, "do", "done") /\ Answer(c, "closed") BY <1>1, <2>1, <2>2 DEF DoIsClosed
  <2>3. CASE Go(c, "do", "lock") /\ result' = result BY <1>1, <2>1, <2>3 DEF DoIsClosed
  <2> QED BY <1>1, <2>2, <2>3 DEF DoIsClosed
<1>2. CASE DoLock(c) BY <1>2 DEF DoLock, Lock
<1>3. CASE DoRefuse(c) BY <1>3 DEF DoRefuse
<1>4. CASE DoTakeIdle(c)
  <2>1. /\ queue' \in Seq(Workers) /\ held' \in [Callers -> Workers \cup {None}]
        /\ held'[c] \in Workers /\ \A q \in Callers : q # c => held'[q] = held[q]
    BY <1>4, TryPopType DEF DoTakeIdle
  <2> QED BY <1>4, <2>1 DEF DoTakeIdle
<1>5. CASE DoNoneIdle(c) BY <1>5 DEF DoNoneIdle
<1>6. CASE DoSpawn(c)
  <2>1. c \in Callers /\ Spawn(c) BY <1>6 DEF DoSpawn
  <2> QED BY <1>6, <2>1, SpawnTypes DEF DoSpawn
<1>7. CASE DoQueue(c) BY <1>7 DEF DoQueue
<1>8. CASE Pop(c) BY <1>8, PopTypes
<1>9. CASE PopGiveUp(c) BY <1>9 DEF PopGiveUp
<1>10. CASE DoReadClosed(c) BY <1>10 DEF DoReadClosed, ReadAgain
<1>11. CASE DoGiveBack(c)
  <2>1. held[c] \in Workers BY <1>11 DEF DoGiveBack
  <2>2. queue' \in Seq(Workers) /\ parked' \subseteq Callers
    BY <1>11, <2>1, PushType DEF DoGiveBack
  <2> QED BY <1>11, <2>2 DEF DoGiveBack
<1>12. CASE DoUndo(c)
  <2>0. activeNum \in Int /\ activeNum' \in {activeNum - 1} BY <1>12 DEF DoUndo, Undo
  <2>1. activeNum' \in Int BY ONLY <2>0
  <2> QED BY <1>12, <2>1 DEF DoUndo, Undo
<1>13. CASE DoRun(c) BY <1>13 DEF DoRun
<1> QED BY <1>1, <1>2, <1>3, <1>4, <1>5, <1>6, <1>7, <1>8, <1>9, <1>10, <1>11, <1>12, <1>13 DEF DoStep

LEMMA WorkerTypes ==
    ASSUME TypeOK, HoldsWorker, NEW w \in Workers, WorkerStep(w) \/ WorkerRelease(w)
    PROVE  TypeOK' /\ HoldsWorker'
<1> USE DEF TypeOK, HoldsWorker, Holding, counts, works, lists
<1>1. CASE WorkerFinish(w)
  <2>0. activeNum \in Int /\ activeNum' \in {activeNum - 1} BY <1>1 DEF WorkerFinish, AfterJob
  <2>1. activeNum' \in Int BY ONLY <2>0
  <2> QED BY <1>1, <2>1 DEF WorkerFinish, AfterJob
<1>2. CASE WorkerPush(w)
  <2>1. queue' \in Seq(Workers) /\ parked' \subseteq Callers BY <1>2, PushType DEF WorkerPush
  <2> QED BY <1>2, <2>1 DEF WorkerPush
<1>3. CASE WorkerLeave(w)
  <2>0. usedNum \in Int /\ usedNum' \in {usedNum - 1} BY <1>3 DEF WorkerLeave, Leave
  <2>1. usedNum' \in Int BY ONLY <2>0
  <2> QED BY <1>3, <2>1 DEF WorkerLeave, Leave
<1>4. CASE WorkerRelease(w)
  <2>1. queue' \in Seq(Workers) BY <1>4, RemoveType DEF WorkerRelease
  <2> QED BY <1>4, <2>1 DEF WorkerRelease
<1> QED BY <1>1, <1>2, <1>3, <1>4 DEF WorkerStep

\* One lemma for all that Close, AdjustSize and PreInit may do.
LEMMA LockedTypes ==
    ASSUME TypeOK, HoldsWorker, NEW p \in Callers,
           \/ FirstIsClosed(p) \/ CloseLock(p) \/ PreInitLock(p) \/ Grow(p) \/ Shrink(p)
           \/ \E n \in Sizes : AdjustLock(p, n)
    PROVE  TypeOK' /\ HoldsWorker'
<1> USE Roles DEF TypeOK, HoldsWorker, Holding, CallerStates, Go, Hold, Lock, counts, works, lists
<1>1. CASE FirstIsClosed(p) BY <1>1 DEF FirstIsClosed
<1>2. CASE CloseLock(p) BY <1>2 DEF CloseLock
<1>3. CASE PreInitLock(p) BY <1>3 DEF PreInitLock
<1>4. CASE GrowSpawn(p)
  <2>1. Spawn(p) BY <1>4 DEF GrowSpawn
  <2> QED BY <1>4, <2>1, SpawnTypes DEF GrowSpawn
<1>5. CASE GrowPush(p)
  <2>1. held[p] \in Workers BY <1>5 DEF GrowPush
  <2>2. queue' \in Seq(Workers) /\ parked' \subseteq Callers BY <1>5, <2>1, PushType DEF GrowPush
  <2> QED BY <1>5, <2>2 DEF GrowPush
<1>6. CASE GrowDone(p) BY <1>6 DEF GrowDone
<1>7. CASE ShrinkNext(p)
  <2>0. usedNum \in Int /\ usedNum' \in {usedNum - 1} BY <1>7 DEF ShrinkNext
  <2>1. usedNum' \in Int BY ONLY <2>0
  <2> QED BY <1>7, <2>1 DEF ShrinkNext
<1>8. CASE Pop(p) BY <1>8, PopTypes
<1>9. CASE StopWorker(p) BY <1>9 DEF StopWorker
<1>10. CASE ShrinkDone(p) BY <1>10 DEF ShrinkDone
<1>11. ASSUME NEW n \in Sizes, AdjustLock(p, n) PROVE TypeOK' /\ HoldsWorker'
  <2>1. n \in Int /\ MaxIdle \in Nat BY PoolAssumption
  <2>2. NewSize(n) \in 0..MaxIdle BY ONLY <2>1 DEF NewSize
  <2>3. CASE Go(p, "adjust", "done") /\ mu' = mu /\ minIdle' = minIdle BY <1>11, <2>3 DEF AdjustLock
  <2>4. CASE Lock(p) /\ minIdle' = NewSize(n) /\ Go(p, "adjust", "grow") BY <1>11, <2>2, <2>4 DEF AdjustLock
  <2>5. CASE Lock(p) /\ minIdle' = NewSize(n) /\ Go(p, "adjust", "shrink") BY <1>11, <2>2, <2>5 DEF AdjustLock
  <2> QED BY <1>11, <2>3, <2>4, <2>5 DEF AdjustLock
<1> QED BY <1>1, <1>2, <1>3, <1>4, <1>5, <1>6, <1>7, <1>8, <1>9, <1>10, <1>11 DEF Grow, Shrink

LEMMA TypesStep ==
    ASSUME TypeOK, HoldsWorker, [Next]_vars
    PROVE  TypeOK' /\ HoldsWorker'
<1>1. ASSUME NEW c \in Clients, DoStep(c) PROVE TypeOK' /\ HoldsWorker'
  BY <1>1, DoTypes
<1>2. ASSUME NEW k \in Closers, CloseStep(k) PROVE TypeOK' /\ HoldsWorker'
  BY <1>2, LockedTypes, Roles DEF CloseStep
<1>3. ASSUME NEW a \in Adjusters, AdjustStep(a) PROVE TypeOK' /\ HoldsWorker'
  BY <1>3, LockedTypes, Roles DEF AdjustStep
<1>4. ASSUME NEW i \in PreIniters, PreInitStep(i) PROVE TypeOK' /\ HoldsWorker'
  BY <1>4, LockedTypes, Roles DEF PreInitStep
<1>5. ASSUME NEW w \in Workers, WorkerStep(w) \/ WorkerRelease(w) PROVE TypeOK' /\ HoldsWorker'
  BY <1>5, WorkerTypes
<1>6. CASE UNCHANGED vars
  BY <1>6 DEF vars, counts, lists, works, TypeOK, HoldsWorker
<1> QED BY <1>1, <1>2, <1>3, <1>4, <1>5, <1>6 DEF Next

-----------------------------------------------------------------------------
(* wp.mu: only its holder is inside a critical section.                    *)

LEMMA LockStep ==
    ASSUME TypeOK, LockHeld, [Next]_vars
    PROVE  LockHeld'
<1> USE Roles DEF LockHeld, InCritical, TypeOK, Go, Lock
<1>0. Free \notin Callers BY PoolAssumption
<1>1. ASSUME NEW p \in Clients \cup Shrinkers, Pop(p) PROVE LockHeld'
  <2>0. p \in Callers OBVIOUS
  <2>1. CASE PopTake(p) BY <2>0, <2>1, <1>0 DEF PopTake
  <2>2. CASE PopLook(p) BY <2>0, <2>2, <1>0 DEF PopLook
  <2>3. CASE PopPark(p) BY <2>0, <2>3, <1>0 DEF PopPark
  <2> QED BY <1>1, <2>1, <2>2, <2>3 DEF Pop
<1>2. ASSUME NEW c \in Clients, DoStep(c) PROVE LockHeld'
  <2>0. c \in Callers /\ c \notin Shrinkers OBVIOUS
  <2>1. CASE DoIsClosed(c) BY <2>0, <2>1, <1>0 DEF DoIsClosed
  <2>2. CASE DoLock(c) BY <2>0, <2>2, <1>0 DEF DoLock
  <2>3. CASE DoRefuse(c) BY <2>0, <2>3, <1>0 DEF DoRefuse
  <2>4. CASE DoTakeIdle(c) BY <2>0, <2>4, <1>0 DEF DoTakeIdle
  <2>5. CASE DoNoneIdle(c) BY <2>0, <2>5, <1>0 DEF DoNoneIdle
  <2>6. CASE DoSpawn(c) BY <2>0, <2>6, <1>0 DEF DoSpawn
  <2>7. CASE DoQueue(c) BY <2>0, <2>7, <1>0 DEF DoQueue
  <2>8. CASE Pop(c) BY <2>0, <2>8, <1>1
  <2>9. CASE PopGiveUp(c) BY <2>0, <2>9, <1>0 DEF PopGiveUp
  <2>10. CASE DoReadClosed(c) BY <2>0, <2>10, <1>0 DEF DoReadClosed, ReadAgain
  <2>11. CASE DoGiveBack(c) BY <2>0, <2>11, <1>0 DEF DoGiveBack
  <2>12. CASE DoUndo(c) BY <2>0, <2>12, <1>0 DEF DoUndo
  <2>13. CASE DoRun(c) BY <2>0, <2>13, <1>0 DEF DoRun
  <2> QED
    BY <1>2, <2>1, <2>2, <2>3, <2>4, <2>5, <2>6, <2>7, <2>8, <2>9, <2>10, <2>11, <2>12, <2>13 DEF DoStep
<1>3. ASSUME NEW p \in Callers, Grow(p) PROVE LockHeld'
  <2>1. CASE GrowSpawn(p) BY <2>1, <1>0 DEF GrowSpawn
  <2>2. CASE GrowPush(p) BY <2>2, <1>0 DEF GrowPush
  <2>3. CASE GrowDone(p)
    <3>1. \/ Go(p, "grow", "shrink") /\ mu' = mu
          \/ Go(p, "grow", "done") /\ mu' = Free
      BY <2>3 DEF GrowDone
    <3>2. CASE Go(p, "grow", "shrink") /\ mu' = mu BY <3>2, <1>0
    <3>3. CASE Go(p, "grow", "done") /\ mu' = Free BY <3>3, <1>0
    <3> QED BY <3>1, <3>2, <3>3
  <2> QED BY <1>3, <2>1, <2>2, <2>3 DEF Grow
<1>4. ASSUME NEW p \in Shrinkers, Shrink(p) PROVE LockHeld'
  <2>0. p \in Callers OBVIOUS
  <2>1. CASE ShrinkNext(p) BY <2>0, <2>1, <1>0 DEF ShrinkNext
  <2>2. CASE Pop(p) BY <2>0, <2>2, <1>1
  <2>3. CASE StopWorker(p) BY <2>0, <2>3, <1>0 DEF StopWorker
  <2>4. CASE ShrinkDone(p) BY <2>0, <2>4, <1>0 DEF ShrinkDone
  <2> QED BY <1>4, <2>1, <2>2, <2>3, <2>4 DEF Shrink
<1>5. ASSUME NEW p \in Callers,
             FirstIsClosed(p) \/ CloseLock(p) \/ PreInitLock(p) \/ \E n \in Sizes : AdjustLock(p, n)
      PROVE  LockHeld'
  <2>1. CASE FirstIsClosed(p)
    <3>1. mu' = mu /\ \E s \in {"done", "close lock", "preinit lock"} : pc' = [pc EXCEPT ![p] = s]
      BY <2>1 DEF FirstIsClosed
    <3> QED BY <3>1, <1>0
  <2>2. CASE CloseLock(p) BY <2>2, <1>0 DEF CloseLock
  <2>3. CASE PreInitLock(p) BY <2>3, <1>0 DEF PreInitLock
  <2>4. ASSUME NEW n \in Sizes, AdjustLock(p, n) PROVE LockHeld'
    <3>1. \/ Go(p, "adjust", "done") /\ mu' = mu
          \/ Lock(p) /\ (Go(p, "adjust", "grow") \/ Go(p, "adjust", "shrink"))
      BY <2>4 DEF AdjustLock
    <3>2. CASE Go(p, "adjust", "done") /\ mu' = mu BY <3>2, <1>0
    <3>3. CASE Lock(p) /\ Go(p, "adjust", "grow") BY <3>3, <1>0
    <3>4. CASE Lock(p) /\ Go(p, "adjust", "shrink") BY <3>4, <1>0
    <3> QED BY <3>1, <3>2, <3>3, <3>4
  <2> QED BY <1>5, <2>1, <2>2, <2>3, <2>4
<1>6. ASSUME NEW w \in Workers, WorkerStep(w) \/ WorkerRelease(w) PROVE LockHeld'
  BY <1>6 DEF WorkerStep, WorkerRelease, WorkerFinish, WorkerPush, WorkerLeave
<1>7. CASE UNCHANGED vars BY <1>7 DEF vars
<1> QED
  BY <1>2, <1>3, <1>4, <1>5, <1>6, <1>7 DEF Next, CloseStep, AdjustStep, PreInitStep, Shrinkers

-----------------------------------------------------------------------------
(* The five things a step may do to the number of goroutines.              *)

Same == usedNum' = usedNum /\ Live' = Live /\ Stopping' = Stopping
OneMore == \E w \in Workers, p \in Callers :
    /\ w \notin Live /\ Live' = Live \cup {w} /\ usedNum' = usedNum + 1
    /\ mu = p /\ p \notin Stopping /\ Stopping' = Stopping
    /\ Uint(usedNum) < MaxIdle
OneToStop == \E p \in Callers :
    /\ p \notin Stopping /\ Stopping' = Stopping \cup {p}
    /\ usedNum' = usedNum - 1 /\ Live' = Live
OneStopped == \E w \in Workers, p \in Callers :
    /\ w \in Live /\ Live' = Live \ {w}
    /\ p \in Stopping /\ Stopping' = Stopping \ {p} /\ usedNum' = usedNum
OneLeft == \E w \in Workers :
    /\ w \in Live /\ Live' = Live \ {w}
    /\ usedNum' = usedNum - 1 /\ Stopping' = Stopping

LEMMA PopSame ==
    ASSUME TypeOK, NEW p \in Callers, Pop(p)
    PROVE  Same
<1> USE DEF TypeOK, Same, Stopping, Live, Go, counts, works
<1>1. CASE PopTake(p)
  <2>1. \A q \in Callers : q # p => pc'[q] = pc[q] BY <1>1 DEF PopTake
  <2>2. p \in Shrinkers => pc[p] = "pop" /\ pc'[p] = "stop" BY <1>1, Roles DEF PopTake, Shrinkers
  <2>3. Stopping' = Stopping BY <2>1, <2>2, Roles
  <2> QED BY <1>1, <2>3 DEF PopTake
<1>2. CASE PopLook(p) BY <1>2, Roles DEF PopLook
<1>3. CASE PopPark(p) BY <1>3, Roles DEF PopPark
<1> QED BY <1>1, <1>2, <1>3 DEF Pop

LEMMA DoCounts ==
    ASSUME TypeOK, HoldsWorker, LockHeld, NEW c \in Clients, DoStep(c)
    PROVE  Same \/ OneMore
<1>0. c \in Callers /\ c \notin Shrinkers BY Roles
<1>1. CASE DoSpawn(c)
  <2>1. PICK w \in Workers : wpc[w] = "none" /\ wpc' = [wpc EXCEPT ![w] = "select"]
    BY <1>1 DEF DoSpawn, Spawn
  <2>2. w \notin Live /\ Live' = Live \cup {w} BY <2>1 DEF TypeOK, Live
  <2>3. mu = c BY <1>0, <1>1 DEF DoSpawn, Go, LockHeld, InCritical
  <2>4. c \notin Stopping /\ Stopping' = Stopping
    BY <1>0, <1>1, Roles DEF DoSpawn, Go, Stopping, TypeOK
  <2>5. usedNum' = usedNum + 1 /\ Uint(usedNum) < MaxIdle BY <1>1 DEF DoSpawn, Spawn, RoomForOne
  <2> QED BY <1>0, <2>2, <2>3, <2>4, <2>5 DEF OneMore
<1>2. CASE ~DoSpawn(c) /\ ~Pop(c)
  <2>1. usedNum' = usedNum
    BY <1>2 DEF DoStep, DoIsClosed, DoLock, DoRefuse, DoTakeIdle, DoNoneIdle, DoQueue, PopGiveUp,
                DoReadClosed, DoGiveBack, DoUndo, DoRun, counts
  <2>2. Stopping' = Stopping
    <3>1. \A q \in Callers : q # c => pc'[q] = pc[q]
      BY <1>0, <1>2 DEF DoStep, DoIsClosed, DoLock, DoRefuse, DoTakeIdle, DoNoneIdle, DoQueue, PopGiveUp,
                  DoReadClosed, ReadAgain, DoGiveBack, DoUndo, DoRun, Go, TypeOK
    <3> QED BY <1>0, <3>1, Roles DEF Stopping
  <2>3. Live' = Live
    <3>1. CASE DoRun(c) BY <3>1 DEF DoRun, Live, TypeOK
    <3>2. CASE ~DoRun(c)
      BY <1>2, <3>2 DEF DoStep, DoIsClosed, DoLock, DoRefuse, DoTakeIdle, DoNoneIdle, DoQueue, PopGiveUp,
                DoReadClosed, DoGiveBack, DoUndo, works, Live
    <3> QED BY <3>1, <3>2
  <2> QED BY <2>1, <2>2, <2>3 DEF Same
<1> QED BY <1>0, <1>1, <1>2, PopSame

LEMMA LockedCounts ==
    ASSUME TypeOK, HoldsWorker, LockHeld, NEW p \in Callers,
           \/ FirstIsClosed(p) \/ CloseLock(p) \/ PreInitLock(p) \/ Grow(p)
           \/ p \in Shrinkers /\ Shrink(p)
           \/ \E n \in Sizes : AdjustLock(p, n)
    PROVE  Same \/ OneMore \/ OneToStop \/ OneStopped
<1>1. CASE FirstIsClosed(p) \/ CloseLock(p) \/ PreInitLock(p) \/ GrowPush(p)
           \/ (\E n \in Sizes : AdjustLock(p, n))
  <2>1. usedNum' = usedNum /\ Live' = Live
    BY <1>1 DEF FirstIsClosed, CloseLock, PreInitLock, GrowPush, AdjustLock, counts, works, Live
  <2>2. /\ pc[p] \in {"close", "preinit", "close lock", "preinit lock", "adjust", "grow push"}
        /\ pc' = [pc EXCEPT ![p] = pc'[p]]
        /\ pc'[p] \in {"done", "close lock", "preinit lock", "closing", "panicked", "grow", "shrink"}
    BY <1>1 DEF FirstIsClosed, CloseLock, PreInitLock, GrowPush, AdjustLock, Go, TypeOK
  <2>3. Stopping' = Stopping BY <2>2, Roles DEF Stopping, TypeOK
  <2> QED BY <2>1, <2>3 DEF Same
<1>2. CASE GrowSpawn(p)
  <2>1. PICK w \in Workers : wpc[w] = "none" /\ wpc' = [wpc EXCEPT ![w] = "select"]
    BY <1>2 DEF GrowSpawn, Spawn
  <2>2. w \notin Live /\ Live' = Live \cup {w} BY <2>1 DEF TypeOK, Live
  <2>3. mu = p BY <1>2 DEF GrowSpawn, Go, LockHeld, InCritical
  <2>4. p \notin Stopping /\ Stopping' = Stopping
    BY <1>2, Roles DEF GrowSpawn, Go, Stopping, TypeOK
  <2>5. usedNum' = usedNum + 1 /\ Uint(usedNum) < minIdle BY <1>2 DEF GrowSpawn, Spawn
  <2>6. usedNum \in Int /\ minIdle \in 0..MaxIdle /\ MaxIdle \in Nat /\ WordSize \in Nat
    BY PoolAssumption DEF TypeOK
  <2>7. Uint(usedNum) < MaxIdle BY ONLY <2>5, <2>6 DEF Uint
  <2> QED BY <2>2, <2>3, <2>4, <2>5, <2>7 DEF OneMore
<1>3. CASE GrowDone(p)
  <2>1. pc[p] = "grow" /\ (pc' = [pc EXCEPT ![p] = "shrink"] \/ pc' = [pc EXCEPT ![p] = "done"])
    BY <1>3 DEF GrowDone, Go
  <2>2. Stopping' = Stopping BY <2>1, Roles DEF Stopping, TypeOK
  <2> QED BY <1>3, <2>2 DEF Same, GrowDone, counts, works, Live
<1>4. CASE p \in Shrinkers /\ ShrinkNext(p)
  <2>1. pc[p] \in {"closing", "shrink"} /\ pc' = [pc EXCEPT ![p] = "pop"]
    BY <1>4 DEF ShrinkNext, Go
  <2>2. p \notin Stopping /\ Stopping' = Stopping \cup {p}
    BY <1>4, <2>1, Roles DEF Stopping, TypeOK
  <2> QED BY <1>4, <2>2 DEF OneToStop, ShrinkNext, works, Live
<1>5. CASE p \in Shrinkers /\ Pop(p) BY <1>5, PopSame
<1>6. CASE p \in Shrinkers /\ StopWorker(p)
  <2>1. held[p] \in Workers BY <1>6 DEF StopWorker, Go, HoldsWorker, Holding
  <2>2. held[p] \in Live /\ Live' = Live \ {held[p]}
    BY <1>6, <2>1 DEF StopWorker, TypeOK, Live
  <2>3. pc[p] = "stop" /\ (pc' = [pc EXCEPT ![p] = "closing"] \/ pc' = [pc EXCEPT ![p] = "shrink"])
    BY <1>6 DEF StopWorker, Go
  <2>4. p \in Stopping /\ Stopping' = Stopping \ {p}
    BY <1>6, <2>3, Roles DEF Stopping, TypeOK
  <2> QED BY <1>6, <2>1, <2>2, <2>4 DEF OneStopped, StopWorker, counts
<1>7. CASE p \in Shrinkers /\ ShrinkDone(p)
  <2>1. /\ pc[p] \in {"closing", "shrink"}
        /\ pc' = [pc EXCEPT ![p] = "closed"] \/ pc' = [pc EXCEPT ![p] = "done"]
    BY <1>7 DEF ShrinkDone, Go
  <2>2. Stopping' = Stopping BY <2>1, Roles DEF Stopping, TypeOK
  <2> QED BY <1>7, <2>2 DEF Same, ShrinkDone, counts, works, Live
<1> QED BY <1>1, <1>2, <1>3, <1>4, <1>5, <1>6, <1>7 DEF Grow, Shrink

LEMMA WorkerCounts ==
    ASSUME TypeOK, NEW w \in Workers, WorkerStep(w) \/ WorkerRelease(w)
    PROVE  Same \/ OneLeft
<1>1. CASE WorkerLeave(w)
  <2>1. w \in Live /\ Live' = Live \ {w} BY <1>1 DEF WorkerLeave, Leave, TypeOK, Live
  <2> QED BY <1>1, <2>1 DEF WorkerLeave, Leave, OneLeft, Stopping
<1>2. CASE WorkerFinish(w) BY <1>2 DEF WorkerFinish, AfterJob, TypeOK, Same, Live, Stopping
<1>3. CASE WorkerPush(w) BY <1>3 DEF WorkerPush, TypeOK, Same, Live, Stopping, counts
<1>4. CASE WorkerRelease(w) BY <1>4 DEF WorkerRelease, TypeOK, Same, Live, Stopping, counts
<1> QED BY <1>1, <1>2, <1>3, <1>4 DEF WorkerStep

LEMMA CountsStep ==
    ASSUME TypeOK, HoldsWorker, LockHeld, [Next]_vars
    PROVE  Same \/ OneMore \/ OneToStop \/ OneStopped \/ OneLeft
<1>1. ASSUME NEW c \in Clients, DoStep(c) PROVE Same \/ OneMore BY <1>1, DoCounts
<1>2. ASSUME NEW w \in Workers, WorkerStep(w) \/ WorkerRelease(w) PROVE Same \/ OneLeft
  BY <1>2, WorkerCounts
<1>3. CASE UNCHANGED vars BY <1>3 DEF vars, counts, works, Same, Live, Stopping
<1> QED
  BY <1>1, <1>2, <1>3, LockedCounts, Roles DEF Next, CloseStep, AdjustStep, PreInitStep, Shrinkers

-----------------------------------------------------------------------------
LEMMA Sizes1 ==
    ASSUME TypeOK
    PROVE  /\ IsFiniteSet(Live) /\ IsFiniteSet(Stopping)
           /\ Cardinality(Live) \in Nat /\ Cardinality(Stopping) \in Nat
<1>1. IsFiniteSet(Workers) /\ IsFiniteSet(Callers) BY PoolAssumption
<1>2. Live \subseteq Workers /\ Stopping \subseteq Callers BY Roles DEF Live, Stopping
<1>3. IsFiniteSet(Live) /\ IsFiniteSet(Stopping) BY <1>1, <1>2, FS_Subset
<1> QED BY <1>3, FS_CardinalityType

\* The count follows each of the five kinds of step, and the one that adds a
\* goroutine is taken only while wp.mu keeps everyone out of Stopping.
LEMMA CountKept ==
    ASSUME TypeOK, LockHeld, UsedNumCountsWorkers, WorkerLimit,
           Same \/ OneMore \/ OneToStop \/ OneStopped \/ OneLeft
    PROVE  UsedNumCountsWorkers' /\ WorkerLimit'
<1> DEFINE L == Cardinality(Live)
           S == Cardinality(Stopping)
<1>0. /\ IsFiniteSet(Live) /\ IsFiniteSet(Stopping) /\ L \in Nat /\ S \in Nat
      /\ MaxIdle \in Nat /\ usedNum \in Int /\ WordSize \in Nat
  BY Sizes1, PoolAssumption DEF TypeOK
<1>a. usedNum = L - S /\ L <= MaxIdle BY DEF UsedNumCountsWorkers, WorkerLimit
<1>1. CASE Same
  <2>1. UsedNumCountsWorkers' <=> usedNum = L - S BY <1>1 DEF Same, UsedNumCountsWorkers
  <2>2. WorkerLimit' <=> L <= MaxIdle BY <1>1 DEF Same, WorkerLimit
  <2> QED BY <1>a, <2>1, <2>2
<1>2. CASE OneMore
  <2>1. PICK w \in Workers, p \in Callers :
          /\ w \notin Live /\ Live' = Live \cup {w} /\ usedNum' = usedNum + 1
          /\ mu = p /\ p \notin Stopping /\ Stopping' = Stopping /\ Uint(usedNum) < MaxIdle
    BY <1>2 DEF OneMore
  <2>2. Stopping = {} BY <2>1, Roles DEF Stopping, LockHeld, InCritical
  <2>3. S = 0 BY <2>2, FS_EmptySet
  <2>4. Cardinality(Live') = L + 1 BY <1>0, <2>1, FS_AddElement
  <2>5. L < MaxIdle
    <3>1. usedNum >= 0 BY <1>0, <1>a, <2>3
    <3> QED BY <1>0, <1>a, <2>1, <2>3, <3>1 DEF Uint
  <2>6. Cardinality(Stopping') = 0 BY <2>1, <2>3
  <2> QED BY <1>0, <1>a, <2>1, <2>3, <2>4, <2>5, <2>6 DEF UsedNumCountsWorkers, WorkerLimit
<1>3. CASE OneToStop
  <2>1. PICK p \in Callers : /\ p \notin Stopping /\ Stopping' = Stopping \cup {p}
                             /\ usedNum' = usedNum - 1 /\ Live' = Live
    BY <1>3 DEF OneToStop
  <2>2. Cardinality(Stopping') = S + 1 /\ Cardinality(Live') = L BY <1>0, <2>1, FS_AddElement
  <2> QED BY <1>0, <1>a, <2>1, <2>2 DEF UsedNumCountsWorkers, WorkerLimit
<1>4. CASE OneStopped
  <2>1. PICK w \in Workers, p \in Callers :
          /\ w \in Live /\ Live' = Live \ {w}
          /\ p \in Stopping /\ Stopping' = Stopping \ {p} /\ usedNum' = usedNum
    BY <1>4 DEF OneStopped
  <2>2. Cardinality(Stopping') = S - 1 /\ Cardinality(Live') = L - 1
    BY <1>0, <2>1, FS_RemoveElement
  <2> QED BY <1>0, <1>a, <2>1, <2>2 DEF UsedNumCountsWorkers, WorkerLimit
<1>5. CASE OneLeft
  <2>1. PICK w \in Workers : /\ w \in Live /\ Live' = Live \ {w}
                             /\ usedNum' = usedNum - 1 /\ Stopping' = Stopping
    BY <1>5 DEF OneLeft
  <2>2. Cardinality(Live') = L - 1 /\ Cardinality(Stopping') = S
    BY <1>0, <2>1, FS_RemoveElement
  <2> QED BY <1>0, <1>a, <2>1, <2>2 DEF UsedNumCountsWorkers, WorkerLimit
<1> QED BY <1>1, <1>2, <1>3, <1>4, <1>5

LEMMA Initially == Init => IInv
<1> SUFFICES ASSUME Init PROVE IInv OBVIOUS
<1>1. TypeOK
  <2>1. MinIdle \in 0..MaxIdle BY PoolAssumption
  <2>2. usedNum \in Int /\ activeNum \in Int BY DEF Init
  <2>3. queue \in Seq(Workers) BY DEF Init
  <2> QED BY <2>1, <2>2, <2>3 DEF Init, TypeOK, CallerStates
<1>2. \A p \in Callers : pc[p] \in {"do", "close", "adjust", "preinit"} BY DEF Init
<1>8. HoldsWorker /\ LockHeld BY <1>2 DEF HoldsWorker, Holding, LockHeld, InCritical
<1>3. Live = {} /\ Stopping = {} BY Roles DEF Init, Live, Stopping
<1>4. Cardinality(Live) = 0 /\ Cardinality(Stopping) = 0 BY <1>3, FS_EmptySet
<1>5. usedNum = 0 BY DEF Init
<1>6. MaxIdle \in Nat BY PoolAssumption
<1>7. UsedNumCountsWorkers /\ WorkerLimit
  BY ONLY <1>4, <1>5, <1>6 DEF UsedNumCountsWorkers, WorkerLimit
<1> QED BY <1>1, <1>8, <1>7 DEF IInv

LEMMA Inductive == IInv /\ [Next]_vars => IInv'
BY TypesStep, LockStep, CountsStep, CountKept DEF IInv

THEOREM Invariance == Spec => []IInv
BY Initially, Inductive, PTL DEF Spec

\* Every variable of the pool keeps its type, for any number of callers.
THEOREM TypeCorrect == Spec => []TypeOK
BY Invariance, PTL DEF IInv

\* At no time are there more goroutines than New's max, whatever submitters,
\* release timers, AdjustSize, PreInit and Close do to each other.
THEOREM NeverTooManyWorkers == Spec => []WorkerLimit
BY Invariance, PTL DEF IInv

\* usedNum is the number of goroutines, less the one being stopped.
THEOREM CapCounts == Spec => []UsedNumCountsWorkers
BY Invariance, PTL DEF IInv

-----------------------------------------------------------------------------
(* OneOwner, in the parts of which each step disturbs a few.               *)

Selecting == {w \in Workers : wpc[w] = "select"}
QueueOnce == \A i, j \in 1..Len(queue) : queue[i] = queue[j] => i = j
HeldOnce == \A p, q \in Callers : held[p] = held[q] /\ held[p] # None => p = q
HeldSelects == \A p \in Callers : held[p] # None => held[p] \in Selecting /\ held[p] \notin Queued
SelectOwned == \A w \in Workers : w \in Selecting <=> w \in Queued \/ \E p \in Callers : held[p] = w
\* A caller has a worker only where HoldsWorker says that it has one.
HeldNone == \A p \in Callers : pc[p] \notin Holding => held[p] = None

Owners == QueueOnce /\ HeldOnce /\ HeldSelects /\ SelectOwned

LEMMA OwnersAreOne == TypeOK => (Owners <=> OneOwner)
<1> SUFFICES ASSUME TypeOK PROVE Owners <=> OneOwner OBVIOUS
<1>1. \A p \in Callers : held[p] # None => (held[p] \in Selecting <=> wpc[held[p]] = "select")
  BY DEF TypeOK, Selecting
<1>2. \A w \in Workers : w \in Selecting <=> wpc[w] = "select" BY DEF Selecting
<1>3. QueueOnce <=> \A i, j \in 1..Len(queue) : queue[i] = queue[j] => i = j BY DEF QueueOnce
<1>4. HeldOnce <=> \A p, q \in Callers : held[p] = held[q] /\ held[p] # None => p = q BY DEF HeldOnce
<1>5. HeldSelects <=> \A p \in Callers : held[p] # None => wpc[held[p]] = "select" /\ held[p] \notin Queued
  BY <1>1 DEF HeldSelects
<1>6. SelectOwned <=> \A w \in Workers :
          wpc[w] = "select" <=> w \in Queued \/ \E p \in Callers : held[p] = w
  BY <1>2 DEF SelectOwned
<1> QED BY <1>3, <1>4, <1>5, <1>6 DEF Owners, OneOwner

\* What the operations of the queue do to what is in it.
LEMMA TailQueue ==
    ASSUME TypeOK, QueueOnce, queue # <<>>, queue' = Tail(queue)
    PROVE  /\ QueueOnce' /\ Queued' = Queued \ {Head(queue)}
           /\ Head(queue) \in Queued /\ Head(queue) \in Workers
<1> DEFINE n == Len(queue)
<1>1. queue \in Seq(Workers) /\ n \in Nat /\ n > 0 BY DEF TypeOK
<1>2. Len(queue') = n - 1 /\ \A i \in 1..(n - 1) : queue'[i] = queue[i + 1] BY <1>1
<1>3. Head(queue) = queue[1] /\ queue[1] \in Workers BY <1>1
<1>4. QueueOnce'
  <2> SUFFICES ASSUME NEW i \in 1..(n - 1), NEW j \in 1..(n - 1), queue'[i] = queue'[j] PROVE i = j
    BY <1>2 DEF QueueOnce
  <2>1. queue[i + 1] = queue[j + 1] /\ i + 1 \in 1..n /\ j + 1 \in 1..n BY <1>1, <1>2
  <2> QED BY <2>1 DEF QueueOnce
<1>5. Queued' = {queue[i + 1] : i \in 1..(n - 1)} BY <1>2 DEF Queued
<1>6. \A i \in 1..(n - 1) : i + 1 \in 1..n /\ i + 1 # 1 /\ queue[i + 1] # queue[1]
  BY <1>1 DEF QueueOnce
<1>7. Queued' \subseteq Queued \ {queue[1]} BY <1>5, <1>6 DEF Queued
<1>8. ASSUME NEW k \in 1..n, queue[k] # queue[1] PROVE queue[k] \in Queued'
  <2>1. k - 1 \in 1..(n - 1) /\ (k - 1) + 1 = k BY <1>1, <1>8
  <2> QED BY <1>5, <2>1
<1>9. Queued \ {queue[1]} \subseteq Queued' BY <1>8 DEF Queued
<1>10. Head(queue) \in Queued
  <2>1. 1 \in 1..n BY <1>1
  <2> QED BY <1>3, <2>1 DEF Queued
<1> QED BY <1>3, <1>4, <1>7, <1>9, <1>10

LEMMA PushQueue ==
    ASSUME TypeOK, QueueOnce, NEW w \in Workers, Push(w)
    PROVE  QueueOnce' /\ Queued' = Queued \cup {w}
<1>1. CASE w \in Queued BY <1>1 DEF Push, QueueOnce, Queued
<1>2. CASE w \notin Queued
  <2> DEFINE n == Len(queue)
  <2>1. queue \in Seq(Workers) /\ n \in Nat BY DEF TypeOK
  <2>2. queue' = Append(queue, w) BY <1>2 DEF Push
  <2>3. Len(queue') = n + 1 /\ queue'[n + 1] = w /\ \A i \in 1..n : queue'[i] = queue[i] BY <2>1, <2>2
  <2>4. \A i \in 1..n : queue[i] # w BY <1>2 DEF Queued
  <2>5. \A i \in 1..(n + 1) : i \in 1..n \/ i = n + 1 BY <2>1
  <2>6. QueueOnce' BY <2>3, <2>4, <2>5 DEF QueueOnce
  <2>7. Queued' = Queued \cup {w}
    <3>1. Queued' = {queue'[i] : i \in 1..(n + 1)} BY <2>3 DEF Queued
    <3>2. \A i \in 1..n : i \in 1..(n + 1) BY <2>1
    <3>3. n + 1 \in 1..(n + 1) BY <2>1
    <3> QED BY <2>3, <2>5, <3>1, <3>2, <3>3 DEF Queued
  <2> QED BY <2>6, <2>7
<1> QED BY <1>1, <1>2

LEMMA RemoveQueue ==
    ASSUME TypeOK, QueueOnce, NEW w, Remove(w)
    PROVE  QueueOnce' /\ w \in Queued /\ Queued' = Queued \ {w}
<1> DEFINE n == Len(queue)
<1>0. queue \in Seq(Workers) /\ n \in Nat BY DEF TypeOK
<1>1. PICK k \in 1..n :
        queue[k] = w /\ queue' = [i \in 1..(n - 1) |-> IF i < k THEN queue[i] ELSE queue[i + 1]]
  BY DEF Remove
<1> DEFINE at(i) == IF i < k THEN i ELSE i + 1
<1>2. n - 1 \in Nat /\ Len(queue') = n - 1 BY <1>0, <1>1
<1>3. \A i \in 1..(n - 1) : queue'[i] = queue[at(i)] /\ at(i) \in 1..n /\ at(i) # k BY <1>0, <1>1
<1>4. \A i, j \in 1..(n - 1) : at(i) = at(j) => i = j BY <1>0, <1>1
<1>5. \A m \in 1..n : m # k => \E i \in 1..(n - 1) : at(i) = m
  <2> SUFFICES ASSUME NEW m \in 1..n, m # k PROVE \E i \in 1..(n - 1) : at(i) = m OBVIOUS
  <2>1. CASE m < k
    <3>1. m \in 1..(n - 1) /\ at(m) = m BY <1>0, <1>1, <2>1
    <3> QED BY <3>1
  <2>2. CASE m > k
    <3>1. m - 1 \in 1..(n - 1) /\ at(m - 1) = m BY <1>0, <1>1, <2>2
    <3> QED BY <3>1
  <2> QED BY <1>0, <1>1, <2>1, <2>2
<1> HIDE DEF at
<1>6. QueueOnce'
  <2> SUFFICES ASSUME NEW i \in 1..(n - 1), NEW j \in 1..(n - 1), queue'[i] = queue'[j] PROVE i = j
    BY <1>2 DEF QueueOnce
  <2>1. queue[at(i)] = queue[at(j)] /\ at(i) \in 1..n /\ at(j) \in 1..n BY <1>3
  <2> QED BY <1>4, <2>1 DEF QueueOnce
<1>7. Queued' = {queue'[i] : i \in 1..(n - 1)} BY <1>2 DEF Queued
<1>8. Queued' \subseteq Queued \ {w}
  <2> SUFFICES ASSUME NEW i \in 1..(n - 1) PROVE queue'[i] \in Queued \ {w} BY <1>7
  <2>1. queue'[i] = queue[at(i)] /\ at(i) \in 1..n /\ at(i) # k BY <1>3
  <2>2. queue[at(i)] # queue[k] BY <2>1 DEF QueueOnce
  <2> QED BY <1>1, <2>1, <2>2 DEF Queued
<1>9. Queued \ {w} \subseteq Queued'
  <2> SUFFICES ASSUME NEW m \in 1..n, queue[m] # w PROVE queue[m] \in Queued' BY DEF Queued
  <2>1. PICK i \in 1..(n - 1) : at(i) = m BY <1>1, <1>5
  <2> QED BY <1>3, <1>7, <2>1
<1> QED BY <1>1, <1>6, <1>8, <1>9 DEF Queued

\* The seven things a step may do to the owners of workers.
OwnSame == UNCHANGED <<queue, held>> /\ Selecting' = Selecting
Taken == \E p \in Callers :
    /\ queue # <<>> /\ queue' = Tail(queue) /\ held[p] = None
    /\ held' = [held EXCEPT ![p] = Head(queue)] /\ Selecting' = Selecting
Started == \E p \in Callers, w \in Workers :
    /\ w \notin Selecting /\ Selecting' = Selecting \cup {w}
    /\ held[p] = None /\ held' = [held EXCEPT ![p] = w] /\ queue' = queue
Ended == \E p \in Callers :
    /\ held[p] \in Workers /\ held' = [held EXCEPT ![p] = None]
    /\ Selecting' = Selecting \ {held[p]} /\ queue' = queue
GivenBack == \E p \in Callers :
    /\ held[p] \in Workers /\ held' = [held EXCEPT ![p] = None]
    /\ Push(held[p]) /\ Selecting' = Selecting
Pushed == \E w \in Workers :
    /\ w \notin Selecting /\ Selecting' = Selecting \cup {w}
    /\ Push(w) /\ held' = held
Released == \E w \in Workers :
    /\ w \in Selecting /\ Selecting' = Selecting \ {w}
    /\ Remove(w) /\ held' = held
OwnersMove == OwnSame \/ Taken \/ Started \/ Ended \/ GivenBack \/ Pushed \/ Released

LEMMA OwnersKept ==
    ASSUME TypeOK, Owners, OwnersMove
    PROVE  Owners'
<1> USE DEF Owners, HeldOnce, HeldSelects, SelectOwned
<1>0. /\ held \in [Callers -> Workers \cup {None}] /\ None \notin Workers
      /\ Queued \subseteq Workers /\ Selecting \subseteq Workers
  <2>1. \A i \in 1..Len(queue) : queue[i] \in Workers BY DEF TypeOK
  <2> QED BY <2>1, PoolAssumption DEF TypeOK, Queued, Selecting
<1>1. CASE OwnSame
  <2>1. Queued' = Queued /\ QueueOnce' BY <1>1 DEF OwnSame, Queued, QueueOnce
  <2> QED BY <1>1, <2>1 DEF OwnSame
<1>2. CASE Taken
  <2>1. PICK p \in Callers : /\ queue # <<>> /\ queue' = Tail(queue) /\ held[p] = None
                             /\ held' = [held EXCEPT ![p] = Head(queue)] /\ Selecting' = Selecting
    BY <1>2 DEF Taken
  <2>2. /\ QueueOnce' /\ Queued' = Queued \ {Head(queue)}
        /\ Head(queue) \in Queued /\ Head(queue) \in Workers
    BY <2>1, TailQueue
  <2> QED BY <1>0, <2>1, <2>2
<1>3. CASE Started
  <2>1. PICK p \in Callers, w \in Workers :
          /\ w \notin Selecting /\ Selecting' = Selecting \cup {w}
          /\ held[p] = None /\ held' = [held EXCEPT ![p] = w] /\ queue' = queue
    BY <1>3 DEF Started
  <2>2. Queued' = Queued /\ QueueOnce' BY <2>1 DEF Queued, QueueOnce
  <2> QED BY <1>0, <2>1, <2>2
<1>4. CASE Ended
  <2>1. PICK p \in Callers : /\ held[p] \in Workers /\ held' = [held EXCEPT ![p] = None]
                             /\ Selecting' = Selecting \ {held[p]} /\ queue' = queue
    BY <1>4 DEF Ended
  <2>2. Queued' = Queued /\ QueueOnce' BY <2>1 DEF Queued, QueueOnce
  <2> QED BY <1>0, <2>1, <2>2
<1>5. CASE GivenBack
  <2>1. PICK p \in Callers : /\ held[p] \in Workers /\ held' = [held EXCEPT ![p] = None]
                             /\ Push(held[p]) /\ Selecting' = Selecting
    BY <1>5 DEF GivenBack
  <2>2. QueueOnce' /\ Queued' = Queued \cup {held[p]} BY <2>1, PushQueue
  <2> QED BY <1>0, <2>1, <2>2
<1>6. CASE Pushed
  <2>1. PICK w \in Workers : /\ w \notin Selecting /\ Selecting' = Selecting \cup {w}
                             /\ Push(w) /\ held' = held
    BY <1>6 DEF Pushed
  <2>2. QueueOnce' /\ Queued' = Queued \cup {w} BY <2>1, PushQueue
  <2> QED BY <1>0, <2>1, <2>2
<1>7. CASE Released
  <2>1. PICK w \in Workers : /\ w \in Selecting /\ Selecting' = Selecting \ {w}
                             /\ Remove(w) /\ held' = held
    BY <1>7 DEF Released
  <2>2. QueueOnce' /\ w \in Queued /\ Queued' = Queued \ {w} BY <2>1, RemoveQueue
  <2> QED BY <1>0, <2>1, <2>2
<1> QED BY <1>1, <1>2, <1>3, <1>4, <1>5, <1>6, <1>7 DEF OwnersMove

-----------------------------------------------------------------------------
\* Which of the seven each action is.
LEMMA PopOwners ==
    ASSUME TypeOK, HeldNone, NEW p \in Callers, Pop(p)
    PROVE  OwnersMove /\ HeldNone'
<1> USE DEF TypeOK, HeldNone, Holding, Go, OwnersMove
<1>1. CASE PopTake(p)
  <2>1. Taken BY <1>1 DEF PopTake, TryPop, Hold, Taken, works, Selecting
  <2>2. HeldNone' BY <1>1, Roles DEF PopTake, TryPop, Hold
  <2> QED BY <2>1, <2>2
<1>2. CASE PopLook(p) BY <1>2 DEF PopLook, OwnSame, lists, works, Selecting
<1>3. CASE PopPark(p) BY <1>3 DEF PopPark, OwnSame, works, Selecting
<1> QED BY <1>1, <1>2, <1>3 DEF Pop

LEMMA SpawnOwners ==
    ASSUME TypeOK, NEW p \in Callers, Spawn(p), held[p] = None, queue' = queue
    PROVE  Started
<1>1. PICK w \in Workers : wpc[w] = "none" /\ wpc' = [wpc EXCEPT ![w] = "select"] /\ Hold(p, w)
  BY DEF Spawn
<1>2. w \notin Selecting /\ Selecting' = Selecting \cup {w} BY <1>1 DEF TypeOK, Selecting
<1> QED BY <1>1, <1>2 DEF Started, Hold

LEMMA EndOwners ==
    ASSUME TypeOK, NEW p \in Callers, held[p] \in Workers, Hold(p, None), queue' = queue,
           NEW to \in {"none", "busy"}, wpc' = [wpc EXCEPT ![held[p]] = to]
    PROVE  Ended
<1>1. Selecting' = Selecting \ {held[p]} BY DEF TypeOK, Selecting
<1> QED BY <1>1 DEF Ended, Hold

LEMMA DoOwners ==
    ASSUME TypeOK, HoldsWorker, HeldNone, NEW c \in Clients, DoStep(c)
    PROVE  OwnersMove /\ HeldNone'
<1>0. c \in Callers BY Roles
<1> USE <1>0 DEF TypeOK, HoldsWorker, HeldNone, Holding, Go, OwnersMove
<1>1. CASE DoIsClosed(c) BY <1>1 DEF DoIsClosed, OwnSame, lists, works, Selecting
<1>2. CASE DoLock(c) BY <1>2 DEF DoLock, OwnSame, lists, works, Selecting
<1>3. CASE DoRefuse(c) BY <1>3 DEF DoRefuse, OwnSame, lists, works, Selecting
<1>4. CASE DoTakeIdle(c)
  <2>1. Taken BY <1>4 DEF DoTakeIdle, TryPop, Hold, Taken, works, Selecting
  <2>2. HeldNone' BY <1>4 DEF DoTakeIdle, TryPop, Hold
  <2> QED BY <2>1, <2>2
<1>5. CASE DoNoneIdle(c) BY <1>5 DEF DoNoneIdle, OwnSame, lists, works, Selecting
<1>6. CASE DoSpawn(c)
  <2>1. Spawn(c) /\ held[c] = None /\ queue' = queue BY <1>6 DEF DoSpawn, lists
  <2>2. Started BY <2>1, SpawnOwners
  <2>3. HeldNone' BY <1>6 DEF DoSpawn, Spawn, Hold
  <2> QED BY <2>2, <2>3
<1>7. CASE DoQueue(c) BY <1>7 DEF DoQueue, OwnSame, lists, works, Selecting
<1>8. CASE Pop(c) BY <1>8, PopOwners
<1>9. CASE PopGiveUp(c) BY <1>9 DEF PopGiveUp, OwnSame, works, Selecting
<1>10. CASE DoReadClosed(c) BY <1>10 DEF DoReadClosed, ReadAgain, OwnSame, lists, works, Selecting
<1>11. CASE DoGiveBack(c)
  <2>1. GivenBack BY <1>11 DEF DoGiveBack, Hold, GivenBack, works, Selecting
  <2>2. HeldNone' BY <1>11 DEF DoGiveBack, Hold
  <2> QED BY <2>1, <2>2
<1>12. CASE DoUndo(c) BY <1>12 DEF DoUndo, OwnSame, lists, works, Selecting
<1>13. CASE DoRun(c)
  <2>1. /\ held[c] \in Workers /\ Hold(c, None) /\ queue' = queue
        /\ wpc' = [wpc EXCEPT ![held[c]] = "busy"]
    BY <1>13 DEF DoRun, lists
  <2>2. Ended BY <2>1, EndOwners
  <2>3. HeldNone' BY <1>13 DEF DoRun, Hold
  <2> QED BY <2>2, <2>3
<1> QED BY <1>1, <1>2, <1>3, <1>4, <1>5, <1>6, <1>7, <1>8, <1>9, <1>10, <1>11, <1>12, <1>13 DEF DoStep

LEMMA WorkerOwners ==
    ASSUME TypeOK, HeldNone, NEW w \in Workers, WorkerStep(w) \/ WorkerRelease(w)
    PROVE  OwnersMove /\ HeldNone'
<1> USE DEF TypeOK, HeldNone, OwnersMove
<1>1. CASE WorkerFinish(w)
  <2>1. wpc[w] = "busy" /\ wpc' = [wpc EXCEPT ![w] = "finished"] /\ UNCHANGED <<queue, held, pc>>
    BY <1>1 DEF WorkerFinish, AfterJob, lists
  <2>2. Selecting' = Selecting BY <2>1 DEF Selecting
  <2> QED BY <2>1, <2>2 DEF OwnSame
<1>2. CASE WorkerPush(w)
  <2>1. /\ wpc[w] = "finished" /\ wpc' = [wpc EXCEPT ![w] = "select"] /\ Push(w)
        /\ UNCHANGED <<held, pc>>
    BY <1>2 DEF WorkerPush
  <2>2. w \notin Selecting /\ Selecting' = Selecting \cup {w} BY <2>1 DEF Selecting
  <2> QED BY <2>1, <2>2 DEF Pushed
<1>3. CASE WorkerLeave(w)
  <2>1. wpc[w] = "leaving" /\ wpc' = [wpc EXCEPT ![w] = "none"] /\ UNCHANGED <<queue, held, pc>>
    BY <1>3 DEF WorkerLeave, Leave, lists
  <2>2. Selecting' = Selecting BY <2>1 DEF Selecting
  <2> QED BY <2>1, <2>2 DEF OwnSame
<1>4. CASE WorkerRelease(w)
  <2>1. /\ wpc[w] = "select" /\ wpc' = [wpc EXCEPT ![w] = "leaving"] /\ Remove(w)
        /\ UNCHANGED <<held, pc>>
    BY <1>4 DEF WorkerRelease
  <2>2. w \in Selecting /\ Selecting' = Selecting \ {w} BY <2>1 DEF Selecting
  <2> QED BY <2>1, <2>2 DEF Released
<1> QED BY <1>1, <1>2, <1>3, <1>4 DEF WorkerStep

LEMMA LockedOwners ==
    ASSUME TypeOK, HoldsWorker, HeldNone, NEW p \in Callers,
           \/ FirstIsClosed(p) \/ CloseLock(p) \/ PreInitLock(p) \/ Grow(p) \/ Shrink(p)
           \/ \E n \in Sizes : AdjustLock(p, n)
    PROVE  OwnersMove /\ HeldNone'
<1> USE DEF TypeOK, HoldsWorker, HeldNone, Holding, Go, OwnersMove
<1>1. CASE FirstIsClosed(p) BY <1>1 DEF FirstIsClosed, OwnSame, lists, works, Selecting
<1>2. CASE CloseLock(p) BY <1>2 DEF CloseLock, OwnSame, lists, works, Selecting
<1>3. CASE PreInitLock(p) BY <1>3 DEF PreInitLock, OwnSame, lists, works, Selecting
<1>4. CASE GrowSpawn(p)
  <2>1. Spawn(p) /\ held[p] = None /\ queue' = queue BY <1>4 DEF GrowSpawn, lists
  <2>2. Started BY <2>1, SpawnOwners
  <2>3. HeldNone' BY <1>4 DEF GrowSpawn, Spawn, Hold
  <2> QED BY <2>2, <2>3
<1>5. CASE GrowPush(p)
  <2>1. GivenBack BY <1>5 DEF GrowPush, Hold, GivenBack, works, Selecting
  <2>2. HeldNone' BY <1>5 DEF GrowPush, Hold
  <2> QED BY <2>1, <2>2
<1>6. CASE GrowDone(p) BY <1>6 DEF GrowDone, OwnSame, lists, works, Selecting
<1>7. CASE ShrinkNext(p) BY <1>7 DEF ShrinkNext, OwnSame, lists, works, Selecting
<1>8. CASE Pop(p) BY <1>8, PopOwners
<1>9. CASE StopWorker(p)
  <2>1. /\ held[p] \in Workers /\ Hold(p, None) /\ queue' = queue
        /\ wpc' = [wpc EXCEPT ![held[p]] = "none"]
    BY <1>9 DEF StopWorker, lists
  <2>2. Ended BY <2>1, EndOwners
  <2>3. HeldNone' BY <1>9 DEF StopWorker, Hold
  <2> QED BY <2>2, <2>3
<1>10. CASE ShrinkDone(p) BY <1>10 DEF ShrinkDone, OwnSame, lists, works, Selecting
<1>11. ASSUME NEW n \in Sizes, AdjustLock(p, n) PROVE OwnersMove /\ HeldNone'
  BY <1>11 DEF AdjustLock, OwnSame, lists, works, Selecting
<1> QED BY <1>1, <1>2, <1>3, <1>4, <1>5, <1>6, <1>7, <1>8, <1>9, <1>10, <1>11 DEF Grow, Shrink

LEMMA OwnersStep ==
    ASSUME TypeOK, HoldsWorker, HeldNone, Owners, [Next]_vars
    PROVE  HeldNone' /\ Owners'
<1>1. OwnersMove /\ HeldNone'
  <2>1. ASSUME NEW c \in Clients, DoStep(c) PROVE OwnersMove /\ HeldNone' BY <2>1, DoOwners
  <2>2. ASSUME NEW w \in Workers, WorkerStep(w) \/ WorkerRelease(w) PROVE OwnersMove /\ HeldNone'
    BY <2>2, WorkerOwners
  <2>3. CASE UNCHANGED vars
    BY <2>3 DEF vars, lists, works, HeldNone, OwnersMove, OwnSame, Selecting
  <2> QED BY <2>1, <2>2, <2>3, LockedOwners, Roles DEF Next, CloseStep, AdjustStep, PreInitStep
<1> QED BY <1>1, OwnersKept

-----------------------------------------------------------------------------
(* NoLostWakeup: a caller parks only while the list is empty, and the push *)
(* that ends this wakes everyone.                                          *)
LEMMA WakeupStep ==
    ASSUME TypeOK, NoLostWakeup, [Next]_vars
    PROVE  NoLostWakeup'
<1> USE DEF NoLostWakeup
<1>1. ASSUME NEW w, Push(w) PROVE NoLostWakeup' BY <1>1 DEF Push
<1>2. ASSUME NEW p, Pop(p) PROVE NoLostWakeup'
  BY <1>2 DEF Pop, PopTake, TryPop, PopLook, PopPark, StillEmpty, lists
<1>3. ASSUME NEW c, DoStep(c) PROVE NoLostWakeup'
  <2>1. CASE DoGiveBack(c) BY <1>1, <2>1 DEF DoGiveBack
  <2>2. CASE DoTakeIdle(c) BY <2>2 DEF DoTakeIdle, TryPop
  <2>3. CASE PopGiveUp(c) BY <2>3 DEF PopGiveUp
  <2>4. CASE ~DoGiveBack(c) /\ ~DoTakeIdle(c) /\ ~PopGiveUp(c) /\ ~Pop(c)
    BY <1>3, <2>4 DEF DoStep, DoIsClosed, DoLock, DoRefuse, DoNoneIdle, DoSpawn, DoQueue,
                      DoReadClosed, DoUndo, DoRun, lists
  <2> QED BY <1>2, <2>1, <2>2, <2>3, <2>4
<1>4. ASSUME NEW p, Grow(p) \/ Shrink(p) PROVE NoLostWakeup'
  <2>1. CASE GrowPush(p) BY <1>1, <2>1 DEF GrowPush
  <2>2. CASE ~GrowPush(p) /\ ~Pop(p)
    BY <1>4, <2>2 DEF Grow, Shrink, GrowSpawn, GrowDone, ShrinkNext, StopWorker, ShrinkDone, lists
  <2> QED BY <1>2, <2>1, <2>2
<1>5. ASSUME NEW p, \/ FirstIsClosed(p) \/ CloseLock(p) \/ PreInitLock(p)
                    \/ \E n \in Sizes : AdjustLock(p, n)
      PROVE  NoLostWakeup'
  BY <1>5 DEF FirstIsClosed, CloseLock, PreInitLock, AdjustLock, lists
<1>6. ASSUME NEW w \in Workers, WorkerStep(w) \/ WorkerRelease(w) PROVE NoLostWakeup'
  <2>1. CASE WorkerPush(w) BY <1>1, <2>1 DEF WorkerPush
  <2>2. CASE WorkerRelease(w)
    <3>1. parked' = parked BY <2>2 DEF WorkerRelease
    <3>2. queue # <<>>
      <4>1. PICK k \in 1..Len(queue) : queue[k] = w BY <2>2 DEF WorkerRelease, Remove
      <4>2. 1..Len(queue) # {} BY <4>1
      <4> QED BY <4>2
    <3> QED BY <3>1, <3>2
  <2>3. CASE WorkerFinish(w) \/ WorkerLeave(w)
    BY <2>3 DEF WorkerFinish, WorkerLeave, lists
  <2> QED BY <1>6, <2>1, <2>2, <2>3 DEF WorkerStep
<1>7. CASE UNCHANGED vars BY <1>7 DEF vars, lists
<1> QED BY <1>3, <1>4, <1>5, <1>6, <1>7 DEF Next, CloseStep, AdjustStep, PreInitStep

-----------------------------------------------------------------------------
(* What activeNum counts, and what becomes of a task.                      *)

Open == {c \in Clients : pc[c] \notin {"do", "done"}}
Returned == {c \in Clients : pc[c] = "done"}
Accepted == {c \in Clients : result[c] = "ok"}
Busy == {w \in Workers : wpc[w] = "busy"}

\* Do answers nil for the tasks that were handed over, and only at its end.
Begun == \A c \in Clients : c \in Accepted <=> task[c] # "new"
AcceptedReturned == Accepted \subseteq Returned
\* A busy worker runs a task of its own; a task that runs has its worker.
BusyRuns == \A w \in Busy : job[w] \in Clients /\ task[job[w]] = "running"
OneEach == \A v, w \in Busy : job[v] = job[w] => v = w
RunningHasWorker == \A c \in Clients : task[c] = "running" => \E w \in Busy : job[w] = c

Tasks == Begun /\ AcceptedReturned /\ BusyRuns /\ OneEach /\ RunningHasWorker

\* The five things a step may do to the calls in progress and the tasks.
TasksSame == Busy' = Busy /\ job' = job /\ task' = task /\ Accepted' = Accepted
Quiet == TasksSame /\ activeNum' = activeNum /\ Open' = Open /\ Returned \subseteq Returned'
Entered == \E c \in Clients :
    /\ TasksSame /\ c \notin Open /\ Open' = Open \cup {c} /\ Returned' = Returned
    /\ activeNum' = activeNum + 1
Undid == \E c \in Clients :
    /\ TasksSame /\ c \in Open /\ Open' = Open \ {c} /\ Returned' = Returned \cup {c}
    /\ activeNum' = activeNum - 1
Handed == \E c \in Clients, w \in Workers :
    /\ pc[c] = "send" /\ held[c] \in Workers /\ wpc[held[c]] = "select"
    /\ c \in Open /\ Open' = Open \ {c} /\ Returned' = Returned \cup {c} /\ c \notin Returned
    /\ w \notin Busy /\ Busy' = Busy \cup {w} /\ job' = [job EXCEPT ![w] = c]
    /\ task' = [task EXCEPT ![c] = "running"] /\ Accepted' = Accepted \cup {c}
    /\ activeNum' = activeNum
Finished == \E w \in Workers, outcome \in {"finished", "panicked"} :
    /\ w \in Busy /\ Busy' = Busy \ {w} /\ job' = [job EXCEPT ![w] = None]
    /\ task' = [task EXCEPT ![job[w]] = outcome] /\ Accepted' = Accepted
    /\ Open' = Open /\ Returned' = Returned /\ activeNum' = activeNum - 1

TasksMove == Quiet \/ Entered \/ Undid \/ Handed \/ Finished

LEMMA PopTasks ==
    ASSUME TypeOK, NEW p \in Callers, Pop(p)
    PROVE  Quiet
<1> USE Roles DEF TypeOK, Go, Quiet, TasksSame, Open, Returned, Accepted, Busy, counts, works
<1>1. CASE PopTake(p) BY <1>1 DEF PopTake
<1>2. CASE PopLook(p) BY <1>2 DEF PopLook
<1>3. CASE PopPark(p) BY <1>3 DEF PopPark
<1> QED BY <1>1, <1>2, <1>3 DEF Pop

LEMMA DoTasks ==
    ASSUME TypeOK, HoldsWorker, Tasks, NEW c \in Clients, DoStep(c)
    PROVE  Quiet \/ Entered \/ Undid \/ Handed
<1>0. c \in Callers /\ Clients \subseteq Callers BY Roles
<1>a. result[c] = "ok" => pc[c] = "done" BY DEF Tasks, AcceptedReturned, Accepted, Returned
<1> USE <1>0 DEF TypeOK, Go, Quiet, TasksSame, Open, Returned, Accepted, Busy, counts, works, Answer
<1>1. CASE DoIsClosed(c)
  <2>1. CASE Go(c, "do", "done") /\ Answer(c, "closed") /\ UNCHANGED activeNum
    BY <1>1, <1>a, <2>1 DEF DoIsClosed
  <2>2. CASE Go(c, "do", "lock") /\ activeNum' = activeNum + 1 /\ UNCHANGED result
    BY <1>1, <2>2 DEF DoIsClosed, Entered
  <2> QED BY <1>1, <2>1, <2>2 DEF DoIsClosed
<1>2. CASE DoLock(c) BY <1>2 DEF DoLock
<1>3. CASE DoRefuse(c) BY <1>3, <1>a DEF DoRefuse
<1>4. CASE DoTakeIdle(c) BY <1>4 DEF DoTakeIdle
<1>5. CASE DoNoneIdle(c) BY <1>5 DEF DoNoneIdle
<1>6. CASE DoSpawn(c)
  <2>1. Busy' = Busy BY <1>6 DEF DoSpawn, Spawn
  <2> QED BY <1>6, <2>1 DEF DoSpawn
<1>7. CASE DoQueue(c) BY <1>7 DEF DoQueue
<1>8. CASE Pop(c) BY <1>8, PopTasks
<1>9. CASE PopGiveUp(c) BY <1>9, <1>a DEF PopGiveUp
<1>10. CASE DoReadClosed(c) BY <1>10 DEF DoReadClosed, ReadAgain
<1>11. CASE DoGiveBack(c) BY <1>11, <1>a DEF DoGiveBack
<1>12. CASE DoUndo(c) BY <1>12 DEF DoUndo, Undo, Undid
<1>13. CASE DoRun(c)
  <2> DEFINE w == held[c]
  <2>1. w \in Workers /\ w \notin Busy BY <1>13 DEF DoRun, HoldsWorker, Holding
  <2>2. Busy' = Busy \cup {w} BY <1>13, <2>1 DEF DoRun
  <2>3. /\ c \in Open /\ Open' = Open \ {c} /\ Returned' = Returned \cup {c}
        /\ Accepted' = Accepted \cup {c} /\ c \notin Returned
    BY <1>13 DEF DoRun
  <2>4. /\ job' = [job EXCEPT ![w] = c] /\ task' = [task EXCEPT ![c] = "running"]
        /\ activeNum' = activeNum
    BY <1>13 DEF DoRun
  <2>5. pc[c] = "send" /\ wpc[w] = "select" BY <1>13 DEF DoRun
  <2> HIDE DEF w, Busy, Open, Returned, Accepted
  <2> QED BY <2>1, <2>2, <2>3, <2>4, <2>5 DEF Handed, w
<1> QED BY <1>1, <1>2, <1>3, <1>4, <1>5, <1>6, <1>7, <1>8, <1>9, <1>10, <1>11, <1>12, <1>13 DEF DoStep

LEMMA WorkerTasks ==
    ASSUME TypeOK, NEW w \in Workers, WorkerStep(w) \/ WorkerRelease(w)
    PROVE  Quiet \/ Finished
<1> USE DEF TypeOK, Quiet, TasksSame, Open, Returned, Accepted, Busy, counts
<1>1. CASE WorkerFinish(w)
  <2>1. PICK outcome \in {"finished", "panicked"} :
          /\ task' = [task EXCEPT ![job[w]] = outcome] /\ wpc' = [wpc EXCEPT ![w] = "finished"]
    BY <1>1 DEF WorkerFinish, AfterJob
  <2>2. w \in Busy /\ Busy' = Busy \ {w} BY <1>1, <2>1 DEF WorkerFinish
  <2> HIDE DEF Busy
  <2> QED BY <1>1, <2>1, <2>2 DEF WorkerFinish, Finished
<1>2. CASE WorkerPush(w) BY <1>2 DEF WorkerPush
<1>3. CASE WorkerLeave(w) BY <1>3 DEF WorkerLeave, Leave
<1>4. CASE WorkerRelease(w) BY <1>4 DEF WorkerRelease
<1> QED BY <1>1, <1>2, <1>3, <1>4 DEF WorkerStep

\* Who is not in Do may go where it goes.
LEMMA OthersQuiet ==
    ASSUME TypeOK, NEW p \in Callers \ Clients, NEW s, pc' = [pc EXCEPT ![p] = s],
           wpc' = wpc, job' = job, task' = task, activeNum' = activeNum, result' = result
    PROVE  Quiet
<1>1. pc \in [Callers -> CallerStates]  BY DEF TypeOK
<1>2. \A c \in Clients : c \in Callers /\ c # p  BY DEF Callers
<1>3. \A c \in Clients : pc'[c] = pc[c]  BY <1>1, <1>2
<1>4. Open' = Open /\ Returned' = Returned  BY <1>3 DEF Open, Returned
<1>5. Accepted' = Accepted /\ Busy' = Busy  BY DEF Accepted, Busy
<1> QED BY <1>4, <1>5 DEF Quiet, TasksSame

LEMMA LockedTasks ==
    ASSUME TypeOK, HoldsWorker, HeldSelects, NEW p \in Callers \ Clients,
           \/ FirstIsClosed(p) \/ CloseLock(p) \/ PreInitLock(p) \/ Grow(p) \/ Shrink(p)
           \/ \E n \in Sizes : AdjustLock(p, n)
    PROVE  Quiet
<1> USE Roles DEF TypeOK, Go, Quiet, TasksSame, Open, Returned, Accepted, Busy, counts, works
<1>1. CASE FirstIsClosed(p)
  <2>1. \E s : pc' = [pc EXCEPT ![p] = s]  BY <1>1 DEF FirstIsClosed
  <2>2. wpc' = wpc /\ job' = job /\ task' = task /\ activeNum' = activeNum /\ result' = result
    BY <1>1 DEF FirstIsClosed
  <2> QED BY <2>1, <2>2, OthersQuiet
<1>2. CASE CloseLock(p) BY <1>2 DEF CloseLock
<1>3. CASE PreInitLock(p) BY <1>3 DEF PreInitLock
<1>4. CASE GrowSpawn(p)
  <2>1. Busy' = Busy BY <1>4 DEF GrowSpawn, Spawn
  <2> QED BY <1>4, <2>1 DEF GrowSpawn
<1>5. CASE GrowPush(p) BY <1>5 DEF GrowPush
<1>6. CASE GrowDone(p) BY <1>6 DEF GrowDone
<1>7. CASE ShrinkNext(p) BY <1>7 DEF ShrinkNext
<1>8. CASE Pop(p) BY <1>8, PopTasks
<1>9. CASE StopWorker(p)
  <2>1. Busy' = Busy BY <1>9 DEF StopWorker, HoldsWorker, Holding
  <2> QED BY <1>9, <2>1 DEF StopWorker
<1>10. CASE ShrinkDone(p) BY <1>10 DEF ShrinkDone
<1>11. ASSUME NEW n \in Sizes, AdjustLock(p, n) PROVE Quiet
  <2>1. \E s : pc' = [pc EXCEPT ![p] = s]  BY <1>11 DEF AdjustLock
  <2>2. wpc' = wpc /\ job' = job /\ task' = task /\ activeNum' = activeNum /\ result' = result
    BY <1>11 DEF AdjustLock
  <2> QED BY <2>1, <2>2, OthersQuiet
<1> QED BY <1>1, <1>2, <1>3, <1>4, <1>5, <1>6, <1>7, <1>8, <1>9, <1>10, <1>11 DEF Grow, Shrink

LEMMA TasksStep ==
    ASSUME TypeOK, HoldsWorker, HeldSelects, Tasks, [Next]_vars
    PROVE  TasksMove
<1> USE DEF TasksMove
<1>1. ASSUME NEW c \in Clients, DoStep(c) PROVE TasksMove BY <1>1, DoTasks
<1>2. ASSUME NEW w \in Workers, WorkerStep(w) \/ WorkerRelease(w) PROVE TasksMove
  BY <1>2, WorkerTasks
<1>3. CASE UNCHANGED vars
  BY <1>3 DEF vars, counts, works, Quiet, TasksSame, Open, Returned, Accepted, Busy
<1>4. Closers \cup Adjusters \cup PreIniters \subseteq Callers \ Clients
  BY PoolAssumption DEF Callers, Shrinkers
<1> QED BY <1>1, <1>2, <1>3, <1>4, LockedTasks DEF Next, CloseStep, AdjustStep, PreInitStep

LEMMA TasksKept ==
    ASSUME TypeOK, Tasks, TasksMove
    PROVE  Tasks'
<1> USE DEF Tasks, Begun, AcceptedReturned, BusyRuns, OneEach, RunningHasWorker
<1>0. /\ job \in [Workers -> Clients \cup {None}] /\ Busy \subseteq Workers
      /\ task \in [Clients -> {"new", "running", "finished", "panicked"}]
  BY DEF TypeOK, Busy
<1>1. CASE Quiet BY <1>1 DEF Quiet, TasksSame
<1>2. CASE Entered BY <1>2 DEF Entered, TasksSame
<1>3. CASE Undid BY <1>3 DEF Undid, TasksSame
<1>4. CASE Handed
  <2>1. PICK c \in Clients, w \in Workers :
          /\ Returned' = Returned \cup {c} /\ c \notin Returned
          /\ w \notin Busy /\ Busy' = Busy \cup {w} /\ job' = [job EXCEPT ![w] = c]
          /\ task' = [task EXCEPT ![c] = "running"] /\ Accepted' = Accepted \cup {c}
    BY <1>4 DEF Handed
  <2>2. task[c] = "new" BY <2>1
  <2>3. \A v \in Busy : job[v] # c BY <2>2
  <2>4. \A v \in Busy : job'[v] = job[v] BY <1>0, <2>1
  <2>5. job'[w] = c /\ task'[c] = "running" BY <1>0, <2>1
  <2>6. \A d \in Clients : d # c => task'[d] = task[d] BY <1>0, <2>1
  <2> QED BY <1>0, <2>1, <2>2, <2>3, <2>4, <2>5, <2>6
<1>5. CASE Finished
  <2>1. PICK w \in Workers, outcome \in {"finished", "panicked"} :
          /\ w \in Busy /\ Busy' = Busy \ {w} /\ job' = [job EXCEPT ![w] = None]
          /\ task' = [task EXCEPT ![job[w]] = outcome] /\ Accepted' = Accepted
          /\ Returned' = Returned
    BY <1>5 DEF Finished
  <2> DEFINE c == job[w]
  <2>2. c \in Clients /\ task[c] = "running" BY <2>1
  <2>3. \A v \in Busy' : job'[v] = job[v] /\ job[v] # c BY <1>0, <2>1
  <2>4. task'[c] = outcome /\ \A d \in Clients : d # c => task'[d] = task[d] BY <1>0, <2>1
  <2> QED BY <1>0, <2>1, <2>2, <2>3, <2>4
<1> QED BY <1>1, <1>2, <1>3, <1>4, <1>5 DEF TasksMove

LEMMA ActiveKept ==
    ASSUME TypeOK, ActiveNumCountsTasks, TasksMove
    PROVE  ActiveNumCountsTasks'
<1> DEFINE O == Cardinality(Open)
           B == Cardinality(Busy)
<1>0. IsFiniteSet(Open) /\ IsFiniteSet(Busy) /\ O \in Nat /\ B \in Nat
  <2>1. IsFiniteSet(Workers) /\ IsFiniteSet(Callers) BY PoolAssumption
  <2>2. Open \subseteq Callers /\ Busy \subseteq Workers BY Roles DEF Open, Busy
  <2>3. IsFiniteSet(Open) /\ IsFiniteSet(Busy) BY <2>1, <2>2, FS_Subset
  <2> QED BY <2>3, FS_CardinalityType
<1>a. activeNum = O + B BY DEF ActiveNumCountsTasks, Open, Busy
<1>b. ActiveNumCountsTasks' <=> activeNum' = Cardinality(Open') + Cardinality(Busy')
  BY DEF ActiveNumCountsTasks, Open, Busy
<1>1. CASE Quiet BY <1>a, <1>b, <1>1 DEF Quiet, TasksSame
<1>2. CASE Entered
  <2>1. Cardinality(Open') = O + 1 /\ Cardinality(Busy') = B /\ activeNum' = activeNum + 1
    BY <1>0, <1>2, FS_AddElement DEF Entered, TasksSame
  <2> QED BY <1>0, <1>a, <1>b, <2>1
<1>3. CASE Undid
  <2>1. Cardinality(Open') = O - 1 /\ Cardinality(Busy') = B /\ activeNum' = activeNum - 1
    BY <1>0, <1>3, FS_RemoveElement DEF Undid, TasksSame
  <2> QED BY <1>0, <1>a, <1>b, <2>1
<1>4. CASE Handed
  <2>1. PICK c \in Clients, w \in Workers :
          /\ c \in Open /\ Open' = Open \ {c} /\ w \notin Busy /\ Busy' = Busy \cup {w}
          /\ activeNum' = activeNum
    BY <1>4 DEF Handed
  <2>2. Cardinality(Open') = O - 1 BY <1>0, <2>1, FS_RemoveElement
  <2>3. Cardinality(Busy') = B + 1 BY <1>0, <2>1, FS_AddElement
  <2> QED BY <1>0, <1>a, <1>b, <2>1, <2>2, <2>3
<1>5. CASE Finished
  <2>1. Cardinality(Open') = O /\ Cardinality(Busy') = B - 1 /\ activeNum' = activeNum - 1
    BY <1>0, <1>5, FS_RemoveElement DEF Finished
  <2> QED BY <1>0, <1>a, <1>b, <2>1
<1> QED BY <1>1, <1>2, <1>3, <1>4, <1>5 DEF TasksMove

\* Zero means that no worker is busy, so no accepted task still runs.
LEMMA ZeroMeansDone ==
    ASSUME TypeOK, Tasks, ActiveNumCountsTasks
    PROVE  WaitMeansDone
<1> DEFINE O == Cardinality(Open)
           B == Cardinality(Busy)
<1>0. IsFiniteSet(Busy) /\ O \in Nat /\ B \in Nat
  <2>1. IsFiniteSet(Workers) /\ IsFiniteSet(Callers) BY PoolAssumption
  <2>2. Open \subseteq Callers /\ Busy \subseteq Workers BY Roles DEF Open, Busy
  <2>3. IsFiniteSet(Open) /\ IsFiniteSet(Busy) BY <2>1, <2>2, FS_Subset
  <2> QED BY <2>3, FS_CardinalityType
<1>1. activeNum = O + B BY DEF ActiveNumCountsTasks, Open, Busy
<1> HIDE DEF O, B
<1>2. WaitReturns => B = 0 BY ONLY <1>0, <1>1 DEF WaitReturns, Uint
<1>3. WaitReturns => Busy = {} BY <1>0, <1>2, FS_EmptySet DEF B
<1>4. ASSUME WaitReturns, NEW c \in Clients, result[c] = "ok"
      PROVE  task[c] \in {"finished", "panicked"}
  <2>1. task[c] # "new" BY <1>4 DEF Tasks, Begun, Accepted
  <2>2. task[c] # "running" BY <1>3, <1>4 DEF Tasks, RunningHasWorker
  <2> QED BY <2>1, <2>2 DEF TypeOK
<1> QED BY <1>4 DEF WaitMeansDone

-----------------------------------------------------------------------------
(* Close: who has set closed, and what it has stopped.                     *)

\* A caller past close(wp.closeCh), and one that found the pool open and still
\* holds the lock under which it did.
ClosersClosed == \A k \in Closers :
    \/ pc[k] \in {"close", "close lock", "done"}
    \/ closed /\ pc[k] \in {"closing", "pop", "look", "wait", "stop", "closed", "panicked"}
SpawnsOpen == \A c \in Clients : pc[c] = "none idle" => ~closed
Flags == ClosersClosed /\ SpawnsOpen

LEMMA FlagsStep ==
    ASSUME TypeOK, LockHeld, Flags, [Next]_vars
    PROVE  Flags'
<1>0. /\ Clients \cap (Shrinkers \cup PreIniters) = {} /\ Free \notin Callers
      /\ Closers \cap (Adjusters \cup PreIniters) = {}
  BY PoolAssumption
<1> USE Roles DEF Flags, ClosersClosed, SpawnsOpen, TypeOK, Go, Shrinkers
\* A closer that has closed moves among the states that need it to have.
<1>a. ASSUME NEW p \in Closers, pc[p] \in {"closing", "pop", "look", "wait", "stop"}, closed' = closed,
             NEW s \in {"closing", "pop", "look", "wait", "stop", "closed"}, pc' = [pc EXCEPT ![p] = s]
      PROVE  Flags'
  <2>1. closed BY <1>a
  <2>2. \A q \in Callers : q # p => pc'[q] = pc[q] BY <1>a
  <2>3. pc'[p] = s BY <1>a
  <2> QED BY <1>0, <1>a, <2>1, <2>2, <2>3
<1>1. ASSUME NEW p \in Closers, Pop(p) PROVE Flags'
  <2>1. /\ closed' = closed /\ pc[p] \in {"pop", "look", "wait"}
        /\ \E s \in {"pop", "look", "wait", "stop"} : pc' = [pc EXCEPT ![p] = s]
    BY <1>0, <1>1 DEF Pop, PopTake, PopLook, PopPark
  <2> QED BY <1>a, <2>1
<1>2. ASSUME NEW c \in Clients, DoStep(c) PROVE Flags'
  <2>0. c \notin Closers /\ c \in Callers BY <1>0
  <2>1. closed' = closed /\ \A k \in Closers : pc'[k] = pc[k]
    BY <1>2, <2>0 DEF DoStep, DoIsClosed, DoLock, DoRefuse, DoTakeIdle, DoNoneIdle, DoSpawn, DoQueue,
        Pop, PopTake, PopLook, PopPark, PopGiveUp, DoReadClosed, ReadAgain, DoGiveBack, DoUndo, DoRun
  <2>2. \A d \in Clients : pc'[d] = "none idle" => pc[d] = "none idle" \/ ~closed
    BY <1>2, <2>0 DEF DoStep, DoIsClosed, DoLock, DoRefuse, DoTakeIdle, DoNoneIdle, DoSpawn, DoQueue,
        Pop, PopTake, PopLook, PopPark, PopGiveUp, DoReadClosed, ReadAgain, DoGiveBack, DoUndo, DoRun
  <2> QED BY <2>1, <2>2
<1>3. ASSUME NEW p \in Shrinkers \cup PreIniters, Grow(p) \/ Shrink(p) PROVE Flags'
  <2>1. closed' = closed /\ \A c \in Clients : pc'[c] = pc[c]
    <3>1. closed' = closed /\ \E s : pc' = [pc EXCEPT ![p] = s]
      <4>1. CASE Grow(p) BY <4>1 DEF Grow, GrowSpawn, GrowPush, GrowDone
      <4>2. CASE Shrink(p)
        BY <4>2 DEF Shrink, ShrinkNext, StopWorker, ShrinkDone, Pop, PopTake, PopLook, PopPark
      <4> QED BY <1>3, <4>1, <4>2
    <3>2. \A c \in Clients : c # p BY <1>0
    <3> QED BY <1>0, <3>1, <3>2
  <2>2. CASE p \in Closers /\ Shrink(p)
    <3>1. CASE Pop(p) BY <1>1, <2>2, <3>1
    <3>2. CASE ShrinkNext(p)
      <4>1. pc[p] = "closing" /\ pc' = [pc EXCEPT ![p] = "pop"] BY <1>0, <2>2, <3>2 DEF ShrinkNext
      <4> QED BY <1>a, <2>1, <2>2, <4>1
    <3>3. CASE StopWorker(p)
      <4>1. pc[p] = "stop" /\ pc' = [pc EXCEPT ![p] = "closing"] BY <1>0, <2>2, <3>3 DEF StopWorker
      <4> QED BY <1>a, <2>1, <2>2, <4>1
    <3>4. CASE ShrinkDone(p)
      <4>1. pc[p] = "closing" /\ pc' = [pc EXCEPT ![p] = "closed"] BY <1>0, <2>2, <3>4 DEF ShrinkDone
      <4> QED BY <1>a, <2>1, <2>2, <4>1
    <3> QED BY <2>2, <3>1, <3>2, <3>3, <3>4 DEF Shrink
  <2>3. CASE p \in Closers /\ Grow(p)
    BY <1>0, <2>3 DEF Grow, GrowSpawn, GrowPush, GrowDone
  <2>4. CASE p \notin Closers
    <3>1. \A k \in Closers : pc'[k] = pc[k]
      BY <1>0, <1>3, <2>4 DEF Grow, Shrink, GrowSpawn, GrowPush, GrowDone, ShrinkNext, StopWorker,
        ShrinkDone, Pop, PopTake, PopLook, PopPark
    <3> QED BY <2>1, <3>1
  <2> QED BY <1>3, <2>2, <2>3, <2>4
<1>4. ASSUME NEW k \in Closers, CloseLock(k) PROVE Flags'
  <2>1. \A c \in Clients : pc[c] # "none idle" BY <1>0, <1>4 DEF CloseLock, Lock, LockHeld, InCritical
  <2> QED BY <1>0, <1>4, <2>1 DEF CloseLock
<1>5. ASSUME NEW p \in Closers \cup PreIniters, FirstIsClosed(p) PROVE Flags'
  <2>1. /\ closed' = closed
        /\ pc' = [pc EXCEPT ![p] = "done"] \/ pc' = [pc EXCEPT ![p] = "close lock"]
           \/ (pc[p] = "preinit" /\ pc' = [pc EXCEPT ![p] = "preinit lock"])
    BY <1>5 DEF FirstIsClosed
  <2>2. p \in Closers => pc[p] # "preinit" OBVIOUS
  <2>3. \A q \in Callers : q # p => pc'[q] = pc[q] BY <2>1
  <2>4. p \in Closers => pc'[p] \in {"done", "close lock"} BY <2>1, <2>2
  <2> QED BY <1>0, <2>1, <2>3, <2>4
<1>6. ASSUME NEW p \in PreIniters, PreInitLock(p) PROVE Flags' BY <1>0, <1>6 DEF PreInitLock
<1>7. ASSUME NEW p \in Adjusters, NEW n \in Sizes, AdjustLock(p, n) PROVE Flags'
  BY <1>0, <1>7 DEF AdjustLock
<1>8. ASSUME NEW w \in Workers, WorkerStep(w) \/ WorkerRelease(w) PROVE Flags'
  <2>1. closed' = closed /\ pc' = pc
    BY <1>8 DEF WorkerStep, WorkerRelease, WorkerFinish, WorkerPush, WorkerLeave
  <2> QED BY <2>1
<1>9. CASE UNCHANGED vars BY <1>9 DEF vars
<1> QED
  BY <1>2, <1>3, <1>4, <1>5, <1>6, <1>7, <1>8, <1>9 DEF Next, CloseStep, AdjustStep, PreInitStep

\* Close finds usedNum zero only when there is no goroutine: nobody else is
\* inside Stopping while it holds the lock.
LEMMA NoneLive ==
    ASSUME TypeOK, LockHeld, UsedNumCountsWorkers, NEW k \in Closers, pc[k] = "closing", AllStopped
    PROVE  Live = {}
<1> DEFINE L == Cardinality(Live)
           S == Cardinality(Stopping)
<1>1. IsFiniteSet(Live) /\ L \in Nat /\ WordSize \in Nat BY Sizes1, PoolAssumption
<1>2. Stopping = {}
  <2>1. mu = k BY Roles DEF LockHeld, InCritical
  <2>2. \A p \in Stopping : mu = p BY Roles DEF Stopping, LockHeld, InCritical
  <2>3. k \notin Stopping BY DEF Stopping
  <2> QED BY <2>1, <2>2, <2>3
<1>3. S = 0 BY <1>2, FS_EmptySet
<1>4. usedNum = L - S BY DEF UsedNumCountsWorkers
<1>5. Uint(usedNum) = 0 BY DEF AllStopped
<1>6. L = 0 BY ONLY <1>1, <1>3, <1>4, <1>5 DEF Uint
<1> QED BY <1>1, <1>6, FS_EmptySet

LEMMA CloseStepDrains ==
    ASSUME TypeOK, HoldsWorker, HeldSelects, LockHeld, UsedNumCountsWorkers,
           NEW k \in Closers, Go(k, "closing", "closed"), AllStopped
    PROVE  Busy = {} /\ (\A c \in Clients : pc[c] # "send")
<1>1. Live = {} BY NoneLive DEF Go
<1>2. ASSUME NEW c \in Clients, pc[c] = "send" PROVE FALSE
  <2>1. c \in Callers /\ held[c] \in Workers BY <1>2, Roles DEF HoldsWorker, Holding
  <2>2. held[c] \in Selecting BY <2>1, PoolAssumption DEF HeldSelects
  <2> QED BY <1>1, <2>2 DEF Selecting, Live
<1> QED BY <1>1, <1>2 DEF Busy, Live

\* No step hands a job over, or is about to, after a Close has returned.
HasClosed == \E k \in Closers : pc[k] = "closed"
Sending == {c \in Clients : pc[c] = "send"}

LEMMA SendingStep ==
    ASSUME TypeOK, Flags, [Next]_vars, NEW c \in Sending', closed
    PROVE  c \in Sending
<1>0. c \in Clients /\ c \in Callers /\ c \notin Shrinkers \cup PreIniters BY Roles, PoolAssumption DEF Sending
<1> USE <1>0 DEF TypeOK, Go, Sending
<1>1. ASSUME NEW d \in Clients, DoStep(d) PROVE c \in Sending
  <2>1. \A q \in Callers : q # d => pc'[q] = pc[q]
    BY <1>1 DEF DoStep, DoIsClosed, DoLock, DoRefuse, DoTakeIdle, DoNoneIdle, DoSpawn, DoQueue,
        Pop, PopTake, PopLook, PopPark, PopGiveUp, DoReadClosed, ReadAgain, DoGiveBack, DoUndo, DoRun
  <2>2. pc'[d] # "send"
    <3>1. pc[d] # "none idle" BY DEF Flags, SpawnsOpen
    <3> QED
      BY <1>1, <3>1, Roles DEF DoStep, DoIsClosed, DoLock, DoRefuse, DoTakeIdle, DoNoneIdle, DoSpawn, DoQueue,
        Pop, PopTake, PopLook, PopPark, PopGiveUp, DoReadClosed, ReadAgain, DoGiveBack, DoUndo, DoRun
  <2> QED BY <2>1, <2>2
<1>2. ASSUME NEW p \in Shrinkers \cup PreIniters,
             \/ FirstIsClosed(p) \/ CloseLock(p) \/ PreInitLock(p) \/ Grow(p) \/ Shrink(p)
             \/ \E n \in Sizes : AdjustLock(p, n)
      PROVE  c \in Sending
  BY <1>2 DEF FirstIsClosed, CloseLock, PreInitLock, AdjustLock, Grow, Shrink, GrowSpawn, GrowPush,
      GrowDone, ShrinkNext, StopWorker, ShrinkDone, Pop, PopTake, PopLook, PopPark
<1>3. ASSUME NEW w \in Workers, WorkerStep(w) \/ WorkerRelease(w) PROVE c \in Sending
  <2>1. pc' = pc BY <1>3 DEF WorkerStep, WorkerRelease, WorkerFinish, WorkerPush, WorkerLeave
  <2> QED BY <2>1
<1>4. CASE UNCHANGED vars BY <1>4 DEF vars
<1> QED BY <1>1, <1>2, <1>3, <1>4 DEF Next, CloseStep, AdjustStep, PreInitStep, Shrinkers

\* The step by which a Close returns is the only one that changes HasClosed.
CloseReturns == \E k \in Closers : Go(k, "closing", "closed") /\ AllStopped /\ UNCHANGED <<task, closed>>

LEMMA ClosedStep ==
    ASSUME TypeOK, Flags, [Next]_vars
    PROVE  HasClosed' = HasClosed \/ CloseReturns
<1>0. Closers \cap (Clients \cup Adjusters \cup PreIniters) = {} BY PoolAssumption DEF Shrinkers
<1> USE Roles DEF TypeOK, Go, HasClosed
<1>1. ASSUME NEW p \in Callers, p \notin Closers,
             \/ FirstIsClosed(p) \/ PreInitLock(p) \/ Grow(p) \/ Shrink(p)
             \/ \E n \in Sizes : AdjustLock(p, n)
      PROVE  HasClosed' = HasClosed
  <2>1. \A k \in Closers : pc'[k] = pc[k]
    BY <1>1 DEF FirstIsClosed, PreInitLock, AdjustLock, Grow, Shrink, GrowSpawn, GrowPush,
      GrowDone, ShrinkNext, StopWorker, ShrinkDone, Pop, PopTake, PopLook, PopPark
  <2> QED BY <2>1
<1>2. ASSUME NEW c \in Clients, DoStep(c) PROVE HasClosed' = HasClosed
  <2>0. c \notin Closers /\ c \in Callers BY <1>0
  <2>1. \A k \in Closers : pc'[k] = pc[k]
    BY <1>2, <2>0 DEF DoStep, DoIsClosed, DoLock, DoRefuse, DoTakeIdle, DoNoneIdle, DoSpawn, DoQueue,
        Pop, PopTake, PopLook, PopPark, PopGiveUp, DoReadClosed, ReadAgain, DoGiveBack, DoUndo, DoRun
  <2> QED BY <2>1
<1>3. ASSUME NEW k \in Closers, CloseStep(k) PROVE HasClosed' = HasClosed \/ CloseReturns
  <2>1. CASE ShrinkDone(k)
    <3>1. pc[k] # "shrink" BY DEF Flags, ClosersClosed
    <3>2. Go(k, "closing", "closed") /\ AllStopped /\ UNCHANGED <<task, closed>>
      BY <2>1, <3>1 DEF ShrinkDone, works
    <3> QED BY <3>2 DEF CloseReturns
  <2>2. CASE ~ShrinkDone(k)
    <3>0. k \in Callers /\ k \notin Clients BY <1>0
    <3>1. pc[k] # "closed" /\ \E s \in CallerStates \ {"closed"} : pc' = [pc EXCEPT ![k] = s]
      BY <1>3, <2>2, <3>0 DEF CloseStep, FirstIsClosed, CloseLock, Shrink, ShrinkNext, StopWorker,
         Pop, PopTake, PopLook, PopPark, CallerStates
    <3> QED BY <3>1
  <2> QED BY <2>1, <2>2
<1>4. ASSUME NEW w \in Workers, WorkerStep(w) \/ WorkerRelease(w) PROVE HasClosed' = HasClosed
  <2>1. pc' = pc BY <1>4 DEF WorkerStep, WorkerRelease, WorkerFinish, WorkerPush, WorkerLeave
  <2> QED BY <2>1
<1>5. CASE UNCHANGED vars BY <1>5 DEF vars
<1> QED BY <1>0, <1>1, <1>2, <1>3, <1>4, <1>5 DEF Next, AdjustStep, PreInitStep

LEMMA DrainsStep ==
    ASSUME TypeOK, HoldsWorker, HeldSelects, LockHeld, UsedNumCountsWorkers, Flags, CloseDrains,
           TasksMove, [Next]_vars
    PROVE  CloseDrains'
<1>1. CloseDrains <=> (HasClosed => Busy = {} /\ Sending = {})
  BY DEF CloseDrains, HasClosed, Busy, Sending
<1>2. CloseDrains' <=> (HasClosed' => Busy' = {} /\ Sending' = {})
  BY DEF CloseDrains, HasClosed, Busy, Sending
<1>3. CASE CloseReturns
  <2>1. PICK k \in Closers : Go(k, "closing", "closed") /\ AllStopped /\ UNCHANGED <<task, closed>>
    BY <1>3 DEF CloseReturns
  <2>2. Busy = {} /\ Sending = {} BY <2>1, CloseStepDrains DEF Sending
  <2>3. closed BY <2>1 DEF Go, Flags, ClosersClosed
  <2>4. Sending' = {} BY <2>2, <2>3, SendingStep
  <2>5. Busy' = {}
    <3>1. ~Handed BY <2>2 DEF Handed, Sending
    <3> QED BY <2>2, <3>1 DEF TasksMove, Quiet, Entered, Undid, Finished, TasksSame
  <2> QED BY <1>2, <2>4, <2>5
<1>4. CASE HasClosed' = HasClosed /\ HasClosed
  <2>1. Busy = {} /\ Sending = {} BY <1>1, <1>4
  <2>2. closed BY <1>4 DEF HasClosed, Flags, ClosersClosed
  <2>3. Sending' = {} BY <2>1, <2>2, SendingStep
  <2>4. ~Handed BY <2>1 DEF Handed, Sending
  <2>5. Busy' = {} BY <2>1, <2>4 DEF TasksMove, Quiet, Entered, Undid, Finished, TasksSame
  <2> QED BY <1>2, <2>3, <2>5
<1>5. CASE HasClosed' = HasClosed /\ ~HasClosed BY <1>2, <1>5
<1> QED BY <1>3, <1>4, <1>5, ClosedStep

-----------------------------------------------------------------------------
(* All of it together: the inductive invariant IInv of WorkPool_proofs and *)
(* what was shown above to be kept beside it.                              *)

TInv ==
    /\ IInv /\ HeldNone /\ Owners /\ NoLostWakeup
    /\ Tasks /\ ActiveNumCountsTasks /\ Flags /\ CloseDrains

LEMMA TasksInitially == Init => TInv
<1> SUFFICES ASSUME Init PROVE TInv OBVIOUS
<1>1. IInv BY Initially
<1>2. Queued = {} /\ Selecting = {} /\ Busy = {} BY DEF Init, Queued, Selecting, Busy
<1>3. \A p \in Callers : held[p] = None BY DEF Init
<1>4. HeldNone /\ Owners
  BY <1>2, <1>3, PoolAssumption
     DEF Init, HeldNone, Owners, QueueOnce, HeldOnce, HeldSelects, SelectOwned
<1>5. NoLostWakeup BY DEF Init, NoLostWakeup
<1>6. Tasks
  BY <1>2 DEF Init, Tasks, Begun, AcceptedReturned, BusyRuns, OneEach, RunningHasWorker, Accepted
<1>a. /\ Clients \cap (Shrinkers \cup PreIniters) = {}
      /\ Closers \cap (Adjusters \cup PreIniters \cup Clients) = {}
  BY PoolAssumption DEF Shrinkers
<1>7. \A c \in Clients : pc[c] = "do"
  <2> SUFFICES ASSUME NEW c \in Clients PROVE pc[c] = "do" OBVIOUS
  <2>1. c \in Callers /\ c \notin Closers /\ c \notin Adjusters BY <1>a, Roles DEF Shrinkers
  <2> QED BY <2>1 DEF Init
<1>8. ActiveNumCountsTasks
  <2>1. {c \in Clients : pc[c] \notin {"do", "done"}} = {} BY <1>7
  <2>2. {w \in Workers : wpc[w] = "busy"} = {} BY <1>2 DEF Busy
  <2>3. activeNum = 0 BY DEF Init
  <2> QED BY <2>1, <2>2, <2>3, FS_EmptySet DEF ActiveNumCountsTasks
<1>9. \A k \in Closers : pc[k] = "close"
  <2> SUFFICES ASSUME NEW k \in Closers PROVE pc[k] = "close" OBVIOUS
  <2>1. k \in Callers /\ k \notin Clients /\ k \notin Adjusters BY <1>a, Roles
  <2> QED BY <2>1 DEF Init
<1>10. Flags /\ CloseDrains BY <1>7, <1>9 DEF Flags, ClosersClosed, SpawnsOpen, CloseDrains
<1> QED BY <1>1, <1>4, <1>5, <1>6, <1>8, <1>10 DEF TInv

LEMMA TasksInductive == TInv /\ [Next]_vars => TInv'
<1> SUFFICES ASSUME TInv, [Next]_vars PROVE TInv' OBVIOUS
<1>1. IInv /\ TypeOK /\ HoldsWorker /\ LockHeld /\ UsedNumCountsWorkers /\ HeldSelects
  BY DEF TInv, IInv, Owners
<1>2. IInv' BY <1>1, Inductive
<1>3. HeldNone' /\ Owners' BY <1>1, OwnersStep DEF TInv
<1>4. NoLostWakeup' BY <1>1, WakeupStep DEF TInv
<1>5. TasksMove BY <1>1, TasksStep DEF TInv
<1>6. Tasks' /\ ActiveNumCountsTasks' BY <1>1, <1>5, TasksKept, ActiveKept DEF TInv
<1>7. Flags' /\ CloseDrains' BY <1>1, <1>5, FlagsStep, DrainsStep DEF TInv
<1> QED BY <1>2, <1>3, <1>4, <1>6, <1>7 DEF TInv

\* The invariant of this module, from the first state on.
THEOREM TasksInvariance == Spec => []TInv
BY TasksInitially, TasksInductive, PTL DEF Spec

\* Every waiting worker is queued once or in one caller's hands, whoever pops,
\* pushes, stops or releases workers at the same time (pool.go:148 to 366).
THEOREM EachWorkerHasOneOwner == Spec => []OneOwner
<1>1. TInv => OneOwner BY OwnersAreOne DEF TInv, IInv
<1> QED BY <1>1, TasksInvariance, PTL

\* No push falls between a pop's look at the list and its wait on ready.
THEOREM NoWakeupIsLost == Spec => []NoLostWakeup
BY TasksInvariance, PTL DEF TInv

\* activeNum is the number of calls in progress and of jobs that run, on every
\* path through Do, however many submitters there are.
THEOREM ActiveNumIsExact == Spec => []ActiveNumCountsTasks
BY TasksInvariance, PTL DEF TInv

\* When Wait returns, every task that Do had accepted is over.
THEOREM WaitIsRight == Spec => []WaitMeansDone
<1>1. TInv => WaitMeansDone BY ZeroMeansDone DEF TInv, IInv
<1> QED BY <1>1, TasksInvariance, PTL

\* When a Close has returned nothing runs and nothing is about to run.
THEOREM CloseHasDrained == Spec => []CloseDrains
BY TasksInvariance, PTL DEF TInv

-----------------------------------------------------------------------------
(* The refinement of TaskPool.                                             *)

\* Every running task has a busy worker to itself, so there are as many
\* running tasks as busy workers at most.
LEMMA RunningBound ==
    ASSUME TypeOK, Tasks
    PROVE  /\ IsFiniteSet(Busy) /\ Cardinality(Promise!Running) \in Nat
           /\ Cardinality(Promise!Running) <= Cardinality(Busy)
<1> DEFINE f == [w \in Busy |-> job[w]]
<1>1. IsFiniteSet(Busy)
  <2>1. Busy \subseteq Workers BY DEF Busy
  <2> QED BY <2>1, PoolAssumption, FS_Subset
<1>2. f \in Surjection(Busy, Promise!Running)
  <2>1. f \in [Busy -> Promise!Running] BY DEF Tasks, BusyRuns, Promise!Running
  <2>2. \A t \in Promise!Running : \E w \in Busy : f[w] = t
    BY DEF Tasks, RunningHasWorker, Promise!Running
  <2> QED BY <2>1, <2>2 DEF Surjection
<1> HIDE DEF f
<1>3. IsFiniteSet(Promise!Running) /\ Cardinality(Promise!Running) <= Cardinality(Busy)
  BY <1>1, <1>2, FS_Surjection
<1> QED BY <1>1, <1>3, FS_CardinalityType

\* A job is handed to a worker that is not busy: one fewer run than there are.
LEMMA HandedMaps ==
    ASSUME TInv, Handed, HasClosed' = HasClosed
    PROVE  \E c \in Clients : Promise!Begin(c)
<1>0. TypeOK /\ Tasks /\ WorkerLimit /\ HeldSelects /\ CloseDrains BY DEF TInv, IInv, Owners
<1>1. PICK c \in Clients :
        /\ pc[c] = "send" /\ held[c] \in Workers /\ wpc[held[c]] = "select"
        /\ c \notin Returned /\ task' = [task EXCEPT ![c] = "running"]
  BY DEF Handed
<1>2. task[c] = "new" BY <1>0, <1>1 DEF Tasks, Begun, AcceptedReturned
<1>3. ~HasClosed BY <1>0, <1>1 DEF CloseDrains, HasClosed
<1>4. Cardinality(Promise!Running) < MaxIdle
  <2> DEFINE h == held[c]
             B == Cardinality(Busy)
             R == Cardinality(Promise!Running)
             L == Cardinality(Live)
  <2>1. IsFiniteSet(Busy) /\ R \in Nat /\ R <= B BY <1>0, RunningBound
  <2>2. B \in Nat BY <2>1, FS_CardinalityType
  <2>3. h \notin Busy /\ Busy \cup {h} \subseteq Live BY <1>1 DEF Busy, Live
  <2>4. Cardinality(Busy \cup {h}) = B + 1 BY <2>1, <2>3, FS_AddElement
  <2>5. B + 1 <= L /\ L \in Nat BY <1>0, <2>3, <2>4, Sizes1, FS_Subset
  <2>6. L <= MaxIdle /\ MaxIdle \in Nat BY <1>0, PoolAssumption DEF WorkerLimit
  <2> HIDE DEF B, R, L
  <2>7. R < MaxIdle BY ONLY <2>1, <2>2, <2>5, <2>6
  <2> QED BY <2>7 DEF R
<1>5. Promise!Cardinality(Promise!Running) = Cardinality(Promise!Running)
  BY DEF Promise!Cardinality, Cardinality
<1>6. Promise!Begin(c)
  BY <1>1, <1>2, <1>3, <1>4, <1>5 DEF Promise!Begin, HasClosed
<1> QED BY <1>6

\* A worker's WorkerFinish is an End, a Close's return is Drain, the step that
\* hands a job over is a Begin, and TaskPool stutters on all others.
LEMMA StepMaps ==
    ASSUME TInv, [Next]_vars
    PROVE  [Promise!Next]_<<task, \E k \in Closers : pc[k] = "closed">>
<1>0. TypeOK /\ HoldsWorker /\ HeldSelects /\ LockHeld /\ UsedNumCountsWorkers /\ Tasks /\ Flags
  BY DEF TInv, IInv, Owners
<1>1. TasksMove BY <1>0, TasksStep
<1>2. HasClosed' = HasClosed \/ CloseReturns BY <1>0, ClosedStep
<1>3. CASE CloseReturns
  <2>1. PICK k \in Closers : Go(k, "closing", "closed") /\ AllStopped /\ UNCHANGED <<task, closed>>
    BY <1>3 DEF CloseReturns
  <2>2. Busy = {} BY <1>0, <2>1, CloseStepDrains
  <2>3. Promise!Running = {} BY <1>0, <2>2 DEF Tasks, RunningHasWorker, Promise!Running
  <2>4. HasClosed' = TRUE
    <3>1. pc'[k] = "closed" BY <1>0, <2>1, Roles DEF Go, TypeOK
    <3> QED BY <3>1 DEF HasClosed
  <2>5. Promise!Drain BY <2>1, <2>3, <2>4 DEF Promise!Drain, HasClosed
  <2> QED BY <2>5 DEF Promise!Next
<1>4. CASE HasClosed' = HasClosed /\ Handed
  <2>1. PICK c \in Clients : Promise!Begin(c) BY <1>4, HandedMaps
  <2> QED BY <2>1 DEF Promise!Next
<1>5. CASE HasClosed' = HasClosed /\ Finished
  <2>1. PICK w \in Workers, outcome \in {"finished", "panicked"} :
          w \in Busy /\ task' = [task EXCEPT ![job[w]] = outcome]
    BY <1>5 DEF Finished
  <2>2. job[w] \in Clients /\ task[job[w]] = "running" BY <1>0, <2>1 DEF Tasks, BusyRuns
  <2>3. Promise!End(job[w]) BY <1>5, <2>1, <2>2 DEF Promise!End, HasClosed
  <2> QED BY <2>2, <2>3 DEF Promise!Next
<1>6. CASE HasClosed' = HasClosed /\ task' = task BY <1>6 DEF HasClosed
<1>7. Handed \/ Finished \/ task' = task
  BY <1>1 DEF TasksMove, Quiet, Entered, Undid, TasksSame
<1> QED BY <1>2, <1>3, <1>4, <1>5, <1>6, <1>7

LEMMA InitMaps == Init => Promise!Init
<1> SUFFICES ASSUME Init PROVE Promise!Init OBVIOUS
<1>1. \A k \in Closers : pc[k] # "closed" BY Roles DEF Init
<1>2. task = [c \in Clients |-> "new"] BY DEF Init
<1> QED BY <1>1, <1>2 DEF Promise!Init

\* The pool, with its workers, queue, lock, timers and resizing, does only what
\* TaskPool allows, for any numbers of callers of each kind.
THEOREM PoolImplementsTaskPool == Spec => ImplementsTaskPool
BY InitMaps, StepMaps, TasksInvariance, PTL DEF Spec, ImplementsTaskPool, Promise!Spec
=============================================================================
