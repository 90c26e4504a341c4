-------------------------- MODULE WorkerSessionsProofs --------------------------
(***************************************************************************)
(* Theorems about WorkerSessions, for every set of workers and any number  *)
(* of signals, cancelled statements and broken connections.                *)
(***************************************************************************)
EXTENDS WorkerSessions, FiniteSetTheorems, TLAPS

Labels == InCycle \cup {"test", "connect", "wait", "dispose", "stopped"}

\* The pool of a worker holds each connection once.
PoolOK(w) ==
    /\ pool[w] \in Seq(Connections)
    /\ \A i, j \in 1 .. Len(pool[w]) : pool[w][i] = pool[w][j] => i = j

Shape ==
    /\ pc \in [Workers -> Labels]
    /\ stop \in [Workers -> BOOLEAN]
    /\ DOMAIN pool = Workers
    /\ DOMAIN conn = Workers
    /\ aborted \in [Workers -> BOOLEAN]
    /\ broken \in [Workers -> SUBSET Connections]
    /\ stale \in [Workers -> SUBSET Connections]
    /\ depth \in Nat
    /\ owner = Free \/ owner \in Workers \X Connections

\* The connections of a worker are each in one place.
Placed(w) ==
    /\ conn[w] \in (IF pc[w] \in InCycle THEN Connections ELSE {Nobody})
    /\ PoolOK(w)
    /\ conn[w] \notin Idle(w)

\* The lock belongs to a session that is alive, of a connection that its worker
\* has.
OwnerAlive ==
    /\ depth = 0 <=> owner = Free
    /\ \A w \in Workers : owner[1] = w =>
         owner[2] \in InUse(w) /\ owner[2] \notin broken[w]

Inv == Shape /\ (\A w \in Workers : Placed(w)) /\ OwnerAlive /\ WorksUnderLock

-----------------------------------------------------------------------------
\* Taking the first connection of a pool, and returning one behind it.
LEMMA PoolTail ==
    ASSUME NEW s \in Seq(Connections), s # <<>>,
           \A i, j \in 1 .. Len(s) : s[i] = s[j] => i = j
    PROVE  /\ Head(s) \in Connections /\ Head(s) \in ToSet(s)
           /\ Tail(s) \in Seq(Connections)
           /\ ToSet(Tail(s)) = ToSet(s) \ {Head(s)}
           /\ \A i, j \in 1 .. Len(Tail(s)) : Tail(s)[i] = Tail(s)[j] => i = j
<1>1. /\ Head(s) = s[1] /\ 1 \in DOMAIN s /\ s[1] \in Connections
      /\ Len(s) \in Nat /\ Len(s) >= 1
      /\ Tail(s) \in Seq(Connections)
      /\ Len(Tail(s)) = Len(s) - 1 /\ DOMAIN Tail(s) = 1 .. Len(s) - 1
      /\ \A i \in 1 .. Len(s) - 1 : Tail(s)[i] = s[i + 1]
  OBVIOUS
<1>2. \A x \in ToSet(Tail(s)) : x \in ToSet(s) \ {Head(s)}
  BY <1>1 DEF ToSet
<1>3. ASSUME NEW x \in ToSet(s) \ {Head(s)} PROVE x \in ToSet(Tail(s))
  <2>1. PICK i \in 1 .. Len(s) : x = s[i]
    BY DEF ToSet
  <2>2. i - 1 \in 1 .. Len(s) - 1 /\ Tail(s)[i - 1] = x
    BY <1>1, <1>3, <2>1
  <2> QED
    BY <1>1, <2>2 DEF ToSet
<1>4. \A i, j \in 1 .. Len(Tail(s)) : Tail(s)[i] = Tail(s)[j] => i = j
  BY <1>1
<1> QED
  BY <1>1, <1>2, <1>3, <1>4 DEF ToSet

LEMMA PoolAppend ==
    ASSUME NEW s \in Seq(Connections), NEW c \in Connections, c \notin ToSet(s),
           \A i, j \in 1 .. Len(s) : s[i] = s[j] => i = j
    PROVE  /\ Append(s, c) \in Seq(Connections)
           /\ ToSet(Append(s, c)) = ToSet(s) \cup {c}
           /\ \A i, j \in 1 .. Len(Append(s, c)) : Append(s, c)[i] = Append(s, c)[j] => i = j
<1>1. /\ Len(s) \in Nat
      /\ Append(s, c) \in Seq(Connections)
      /\ Len(Append(s, c)) = Len(s) + 1
      /\ \A i \in 1 .. Len(s) : Append(s, c)[i] = s[i]
      /\ Append(s, c)[Len(s) + 1] = c
  OBVIOUS
<1>2. \A i \in 1 .. Len(s) : s[i] # c
  BY DEF ToSet
<1>3. ToSet(Append(s, c)) = ToSet(s) \cup {c}
  BY <1>1 DEF ToSet
<1> QED
  BY <1>1, <1>2, <1>3

\* The connection handed out is not in use, and the rest of the pool is what it
\* was.
Rest(w) == IF pool[w] = <<>> THEN pool[w] ELSE Tail(pool[w])

LEMMA HandedOut ==
    ASSUME NEW w \in Workers, Placed(w)
    PROVE  /\ Handed(w) \in Connections /\ Handed(w) # conn[w]
           /\ Rest(w) \in Seq(Connections)
           /\ \A i, j \in 1 .. Len(Rest(w)) : Rest(w)[i] = Rest(w)[j] => i = j
           /\ ToSet(Rest(w)) = Idle(w) \ {Handed(w)}
           /\ pool[w] # <<>> => Handed(w) \in Idle(w)
<1>1. CASE pool[w] = <<>>
  <2>1. Idle(w) = {}
    BY <1>1 DEF Idle, ToSet
  <2>2. \E c \in Connections : c \notin InUse(w)
    BY <2>1 DEF InUse, Connections, Nobody
  <2>3. Handed(w) \in Connections /\ Handed(w) \notin InUse(w)
    BY <1>1, <2>2 DEF Handed
  <2>4. Handed(w) # conn[w]
    BY <2>1, <2>3 DEF InUse, Connections, Nobody
  <2> QED
    BY <1>1, <2>1, <2>3, <2>4 DEF Rest, Placed, PoolOK, Idle
<1>2. CASE pool[w] # <<>>
  <2>1. Handed(w) = Head(pool[w]) /\ Rest(w) = Tail(pool[w])
    BY <1>2 DEF Handed, Rest
  <2> QED
    BY <1>2, <2>1, PoolTail DEF Placed, PoolOK, Idle
<1> QED
  BY <1>1, <1>2

LEMMA InitInv == Init => Inv
<1> SUFFICES ASSUME Init PROVE Inv
  OBVIOUS
<1>1. Shape
  BY DEF Init, Shape, Labels, InCycle, Free
<1>2. ASSUME NEW w \in Workers PROVE Placed(w)
  BY <1>2 DEF Init, Placed, PoolOK, InCycle, Idle, ToSet, Nobody
<1>3. OwnerAlive /\ WorksUnderLock
  BY NobodyAssumption DEF Init, OwnerAlive, WorksUnderLock, Free
<1> QED
  BY <1>1, <1>2, <1>3 DEF Inv

\* The steps of a worker, and what others do to it.
WorkerStep(w) ==
    \/ Step(w) \/ HandleSignal(w) \/ BreakConnection(w)
    \/ CancelTryLock(w) \/ CancelCheck(w) \/ CancelUnlock(w)

LEMMA Using ==
    ASSUME NEW w \in Workers, Placed(w)
    PROVE  /\ InUse(w) \subseteq Connections
           /\ pc[w] \in InCycle <=> conn[w] \in Connections
           /\ pc[w] \notin InCycle <=> conn[w] = Nobody
<1>1. Idle(w) \subseteq Connections
  BY DEF Idle, ToSet, Placed, PoolOK
<1> QED
  BY <1>1 DEF InUse, Placed, Connections, Nobody

LEMMA StepShape ==
    ASSUME Inv, NEW w \in Workers, WorkerStep(w)
    PROVE  Shape'
<1>0. /\ InUse(w) \subseteq Connections
      /\ pc[w] \in InCycle => conn[w] \in Connections
      /\ pc[w] = "unlock" /\ conn[w] \notin broken[w] => depth # 0
  BY Using, NobodyAssumption DEF Inv, InCycle, WorksUnderLock, OwnerAlive, Free
<1> USE DEF Inv, Goto, Shape, Labels, InCycle
<1>1. CASE TestStop(w)
  BY <1>1, <1>0, HandedOut DEF TestStop, sessions, lock
<1>2. CASE Connect(w)
  BY <1>2, <1>0, HandedOut DEF Connect, HandOut, lock
<1>3. CASE TryLock(w)
  <2>1. CASE Lockable(w)
    BY <1>0, <1>3, <2>1 DEF TryLock, sessions
  <2>2. CASE ~Lockable(w)
    BY <1>3, <2>2 DEF TryLock, sessions, lock
  <2> QED
    BY <2>1, <2>2
<1>4. CASE TryLockFails(w)
  BY <1>4, <1>0, HandedOut DEF TryLockFails, NoticeBreak, lock
<1>5. CASE UseSession(w)
  BY <1>5, <1>0, HandedOut DEF UseSession, HandOut, lock
<1>6. CASE CheckLock(w)
  BY <1>6, <1>0, HandedOut DEF CheckLock, NoticeBreak, lock
<1>7. CASE Unlock(w)
  <2>1. depth' \in Nat
    BY <1>0, <1>7 DEF Unlock
  <2>2. owner' \in {owner, Free} /\ stale' \in [Workers -> SUBSET Connections]
    BY <1>0, <1>7 DEF Unlock, NoticeBreak
  <2> QED
    BY <1>7, <2>1, <2>2 DEF Unlock
<1>8. CASE Return(w)
  BY <1>8, <1>0, HandedOut DEF Return, lock
<1>9. CASE Wait(w)
  BY <1>9, <1>0, HandedOut DEF Wait, sessions, lock
<1>10. CASE Dispose(w)
  BY <1>10, <1>0, HandedOut DEF Dispose, lock
<1>11. CASE HandleSignal(w)
  BY <1>11, <1>0, HandedOut DEF HandleSignal, sessions, lock
<1>12. CASE BreakConnection(w)
  BY <1>12, <1>0, HandedOut DEF BreakConnection, process, lock
<1>13. CASE CancelTryLock(w)
  BY <1>13, <1>0, HandedOut DEF CancelTryLock, Cancelled, Lockable, lock
<1>14. CASE CancelCheck(w)
  BY <1>14, <1>0, HandedOut DEF CancelCheck, Cancelled, lock
<1>15. CASE CancelUnlock(w)
  BY <1>15, <1>0, HandedOut DEF CancelUnlock, Cancelled, lock
<1> QED
  BY <1>1, <1>2, <1>3, <1>4, <1>5, <1>6, <1>7, <1>8, <1>9, <1>10, <1>11, <1>12, <1>13, <1>14,
     <1>15 DEF WorkerStep, Step

LEMMA StepUnder ==
    ASSUME Inv, NEW w \in Workers, WorkerStep(w)
    PROVE  WorksUnderLock'
<1> USE DEF Inv, Goto, Shape, OwnerAlive, WorksUnderLock, InCycle, Free
<1>1. CASE TestStop(w)
  BY <1>1, HandedOut, NobodyAssumption DEF TestStop, sessions, lock
<1>2. CASE Connect(w)
  BY <1>2, HandedOut, NobodyAssumption DEF Connect, HandOut, lock
<1>3. CASE TryLock(w)
  BY <1>3, HandedOut, NobodyAssumption DEF TryLock, Lockable, sessions, lock
<1>4. CASE TryLockFails(w)
  BY <1>4, HandedOut, NobodyAssumption DEF TryLockFails, NoticeBreak, lock
<1>5. CASE UseSession(w)
  BY <1>5, HandedOut, NobodyAssumption DEF UseSession, HandOut, lock
<1>6. CASE CheckLock(w)
  BY <1>6, HandedOut, NobodyAssumption DEF CheckLock, NoticeBreak, lock
<1>7. CASE Unlock(w)
  BY <1>7, HandedOut, NobodyAssumption DEF Unlock, NoticeBreak
<1>8. CASE Return(w)
  BY <1>8, HandedOut, NobodyAssumption DEF Return, lock
<1>9. CASE Wait(w)
  BY <1>9, HandedOut, NobodyAssumption DEF Wait, sessions, lock
<1>10. CASE Dispose(w)
  BY <1>10, HandedOut, NobodyAssumption DEF Dispose, lock
<1>11. CASE HandleSignal(w)
  BY <1>11, HandedOut, NobodyAssumption DEF HandleSignal, sessions, lock
<1>12. CASE BreakConnection(w)
  BY <1>12, HandedOut, NobodyAssumption DEF BreakConnection, process, lock
<1>13. CASE CancelTryLock(w)
  BY <1>13, HandedOut, NobodyAssumption DEF CancelTryLock, Cancelled, Lockable, lock
<1>14. CASE CancelCheck(w)
  BY <1>14, HandedOut, NobodyAssumption DEF CancelCheck, Cancelled, lock
<1>15. CASE CancelUnlock(w)
  BY <1>15, HandedOut, NobodyAssumption DEF CancelUnlock, Cancelled, lock
<1> QED
  BY <1>1, <1>2, <1>3, <1>4, <1>5, <1>6, <1>7, <1>8, <1>9, <1>10, <1>11, <1>12, <1>13, <1>14,
     <1>15 DEF WorkerStep, Step

\* Workers have nothing in common but the lock.
LEMMA StepOthers ==
    ASSUME Inv, NEW w \in Workers, WorkerStep(w), NEW v \in Workers, v # w
    PROVE  /\ pc'[v] = pc[v] /\ conn'[v] = conn[v] /\ pool'[v] = pool[v]
           /\ broken'[v] = broken[v] /\ aborted'[v] = aborted[v]
BY DEF Inv, Shape, WorkerStep, Step, TestStop, Connect, TryLock, TryLockFails, UseSession,
   CheckLock, Unlock, Return, Wait, Dispose, HandleSignal, BreakConnection, CancelTryLock,
   CancelCheck, CancelUnlock, HandOut, NoticeBreak, Cancelled, Goto, process, sessions

LEMMA StepPlaced ==
    ASSUME Inv, NEW w \in Workers, WorkerStep(w)
    PROVE  Placed(w)'
<1>0. Placed(w)
  BY DEF Inv
<1> USE DEF Inv, Goto, Shape, Placed, PoolOK, Idle, InCycle
<1>1. CASE TestStop(w)
  BY <1>0, <1>1 DEF TestStop, sessions, lock
<1>2. CASE Connect(w)
  BY <1>0, <1>2, HandedOut DEF Connect, Rest, HandOut, lock
<1>3. CASE TryLock(w)
  BY <1>0, <1>3 DEF TryLock, sessions, lock
<1>4. CASE TryLockFails(w)
  BY <1>0, <1>4 DEF TryLockFails, NoticeBreak, lock
<1>5. CASE UseSession(w)
  <2>1. pool'[w] = Append(Rest(w), Handed(w))
    <3>1. <<Handed(w)>> = Append(<<>>, Handed(w))
      OBVIOUS
    <3> QED
      BY <1>5, <3>1 DEF UseSession, Rest
  <2>2. /\ Rest(w) \in Seq(Connections) /\ Handed(w) \in Connections
        /\ Handed(w) \notin ToSet(Rest(w))
        /\ \A i, j \in 1 .. Len(Rest(w)) : Rest(w)[i] = Rest(w)[j] => i = j
    BY <1>0, HandedOut
  <2>3. PoolOK(w)' /\ ToSet(pool'[w]) = ToSet(Rest(w)) \cup {Handed(w)}
    <3> DEFINE s == Append(Rest(w), Handed(w))
    <3>1. /\ s \in Seq(Connections)
          /\ ToSet(s) = ToSet(Rest(w)) \cup {Handed(w)}
          /\ \A i, j \in 1 .. Len(s) : s[i] = s[j] => i = j
      BY <2>2, PoolAppend
    <3> HIDE DEF s
    <3> QED
      BY <2>1, <3>1 DEF s
  <2>4. conn'[w] \notin Idle(w)'
    <3>1. ToSet(Rest(w)) = ToSet(pool[w]) \ {Handed(w)} /\ Handed(w) # conn[w]
      BY <1>0, HandedOut
    <3>2. conn'[w] = conn[w] /\ conn[w] \notin ToSet(pool[w])
      BY <1>0, <1>5 DEF UseSession
    <3> QED
      BY <2>3, <3>1, <3>2
  <2>5. pc'[w] = "check" /\ conn'[w] = conn[w] /\ pc[w] = "work"
    BY <1>5 DEF UseSession
  <2> QED
    BY <1>0, <2>3, <2>4, <2>5
<1>6. CASE CheckLock(w)
  BY <1>0, <1>6 DEF CheckLock, lock
<1>7. CASE Unlock(w)
  BY <1>0, <1>7 DEF Unlock
<1>8. CASE Return(w)
  <2>1. pool'[w] = Append(pool[w], conn[w]) /\ conn[w] \in Connections
    BY <1>0, <1>8 DEF Return
  <2>2. PoolOK(w)' /\ ToSet(pool'[w]) = Idle(w) \cup {conn[w]}
    BY <1>0, <2>1, PoolAppend DEF PoolOK, Idle
  <2>3. Nobody \notin ToSet(pool'[w])
    BY <1>0, <2>1, <2>2 DEF Connections, Nobody, ToSet
  <2>4. pc'[w] = "wait" /\ conn'[w] = Nobody
    BY <1>8 DEF Return
  <2> QED
    BY <2>2, <2>3, <2>4
<1>9. CASE Wait(w)
  BY <1>0, <1>9 DEF Wait, sessions, lock
<1>10. CASE Dispose(w)
  <2>1. pool'[w] = <<>> /\ pc'[w] = "stopped" /\ conn'[w] = Nobody
    BY <1>0, <1>10 DEF Dispose
  <2> QED
    BY <2>1 DEF ToSet
<1>11. CASE HandleSignal(w)
  BY <1>0, <1>11 DEF HandleSignal, sessions, lock
<1>12. CASE BreakConnection(w)
  BY <1>0, <1>12 DEF BreakConnection, process, lock
<1>13. CASE CancelTryLock(w)
  BY <1>0, <1>13 DEF CancelTryLock, Cancelled, lock
<1>14. CASE CancelCheck(w)
  BY <1>0, <1>14 DEF CancelCheck, Cancelled, lock
<1>15. CASE CancelUnlock(w)
  BY <1>0, <1>15 DEF CancelUnlock, Cancelled, lock
<1> QED
  BY <1>1, <1>2, <1>3, <1>4, <1>5, <1>6, <1>7, <1>8, <1>9, <1>10, <1>11, <1>12, <1>13, <1>14,
     <1>15 DEF WorkerStep, Step

\* A worker keeps its connections until its process ends.
LEMMA StepInUse ==
    ASSUME Inv, NEW w \in Workers, WorkerStep(w), ~Dispose(w)
    PROVE  InUse(w) \subseteq InUse(w)'
<1>0. Placed(w)
  BY DEF Inv
<1> USE DEF Inv, Goto, Shape
<1>1. CASE TestStop(w)
  BY <1>0, <1>1 DEF TestStop, sessions, lock, InUse, Idle
<1>2. CASE Connect(w)
  <2>1. pool'[w] = Rest(w) /\ conn'[w] = Handed(w) /\ conn[w] = Nobody
    BY <1>0, <1>2 DEF Connect, Rest, Placed, InCycle
  <2>2. Idle(w)' = Idle(w) \ {Handed(w)} /\ Handed(w) # Nobody
    BY <1>0, <2>1, HandedOut DEF Idle, Connections, Nobody
  <2> QED
    BY <2>1, <2>2 DEF InUse
<1>3. CASE TryLock(w)
  BY <1>0, <1>3 DEF TryLock, sessions, lock, Lockable, InUse, Idle
<1>4. CASE TryLockFails(w)
  BY <1>0, <1>4 DEF TryLockFails, NoticeBreak, lock, InUse, Idle
<1>5. CASE UseSession(w)
  <2>1. pool'[w] = Append(Rest(w), Handed(w)) /\ conn'[w] = conn[w]
    <3>1. <<Handed(w)>> = Append(<<>>, Handed(w))
      OBVIOUS
    <3> QED
      BY <1>5, <3>1 DEF UseSession, Rest
  <2>2. Handed(w) \notin ToSet(Rest(w)) /\ ToSet(Rest(w)) = Idle(w) \ {Handed(w)}
    BY <1>0, HandedOut
  <2>3. Idle(w)' = ToSet(Rest(w)) \cup {Handed(w)}
    BY <1>0, <2>1, <2>2, HandedOut, PoolAppend DEF Idle
  <2> QED
    BY <2>1, <2>2, <2>3 DEF InUse
<1>6. CASE CheckLock(w)
  BY <1>0, <1>6 DEF CheckLock, lock, InUse, Idle
<1>7. CASE Unlock(w)
  BY <1>0, <1>7 DEF Unlock, InUse, Idle
<1>8. CASE Return(w)
  <2>1. pool'[w] = Append(pool[w], conn[w]) /\ conn[w] \in Connections
    BY <1>0, <1>8 DEF Return, Placed, InCycle
  <2>2. Idle(w)' = Idle(w) \cup {conn[w]}
    BY <1>0, <2>1, PoolAppend DEF Placed, PoolOK, Idle
  <2> QED
    BY <2>2 DEF InUse
<1>9. CASE Wait(w)
  BY <1>0, <1>9 DEF Wait, sessions, lock, InUse, Idle
<1>10. CASE HandleSignal(w)
  BY <1>0, <1>10 DEF HandleSignal, sessions, lock, InUse, Idle
<1>11. CASE BreakConnection(w)
  BY <1>0, <1>11 DEF BreakConnection, process, lock, InUse, Idle
<1>12. CASE CancelTryLock(w)
  BY <1>0, <1>12 DEF CancelTryLock, Cancelled, lock, Lockable, InUse, Idle
<1>13. CASE CancelCheck(w)
  BY <1>0, <1>13 DEF CancelCheck, Cancelled, lock, InUse, Idle
<1>14. CASE CancelUnlock(w)
  BY <1>0, <1>14 DEF CancelUnlock, Cancelled, lock, InUse, Idle
<1> QED
  BY <1>1, <1>2, <1>3, <1>4, <1>5, <1>6, <1>7, <1>8, <1>9, <1>10, <1>11, <1>12, <1>13, <1>14 DEF
     WorkerStep, Step

\* Short of the end of its process, the lock is released, kept by a connection
\* that lives on, or taken by the lock connection of the worker.
LEMMA StepLock ==
    ASSUME Inv, NEW w \in Workers, WorkerStep(w), ~Dispose(w)
    PROVE  /\ depth' = 0 <=> owner' = Free
           /\ \/ owner' = Free
              \/ owner' = owner /\ (owner[1] = w => owner[2] \notin broken'[w])
              \/ /\ owner' = <<w, conn[w]>> /\ conn[w] \in Connections
                 /\ conn'[w] = conn[w] /\ conn[w] \notin broken'[w]
<1>0. /\ pc[w] \in InCycle => conn[w] \in Connections
      /\ Free # <<w, conn[w]>>
      /\ depth = 0 <=> owner = Free
      /\ owner[1] = w => owner[2] \notin broken[w]
      /\ owner # Free => owner = <<owner[1], owner[2]>>
      /\ depth \in Nat /\ broken \in [Workers -> SUBSET Connections]
  BY NobodyAssumption DEF Inv, Placed, Free, OwnerAlive, Shape
<1>00. Free[1] # w
  BY NobodyAssumption DEF Free
<1>000. pc[w] \in {"check", "unlock"} /\ conn[w] \notin broken[w] => owner = <<w, conn[w]>>
  BY DEF Inv, WorksUnderLock
<1> USE DEF Goto, InCycle
<1>1. CASE TestStop(w)
  BY <1>0, <1>00, <1>000, <1>1 DEF TestStop, sessions, lock
<1>2. CASE Connect(w)
  BY <1>0, <1>00, <1>000, <1>2 DEF Connect, HandOut, lock
<1>3. CASE TryLock(w)
  BY <1>0, <1>00, <1>000, <1>3 DEF TryLock, sessions, lock, Lockable
<1>4. CASE TryLockFails(w)
  BY <1>0, <1>00, <1>000, <1>4 DEF TryLockFails, NoticeBreak, lock
<1>5. CASE UseSession(w)
  BY <1>0, <1>00, <1>000, <1>5 DEF UseSession, HandOut, lock
<1>6. CASE CheckLock(w)
  BY <1>0, <1>00, <1>000, <1>6 DEF CheckLock, lock
<1>7. CASE Unlock(w)
  BY <1>0, <1>00, <1>000, <1>7 DEF Unlock
<1>8. CASE Return(w)
  BY <1>0, <1>00, <1>000, <1>8 DEF Return, lock
<1>9. CASE Wait(w)
  BY <1>0, <1>00, <1>000, <1>9 DEF Wait, sessions, lock
<1>10. CASE HandleSignal(w)
  BY <1>0, <1>00, <1>000, <1>10 DEF HandleSignal, sessions, lock
<1>11. CASE BreakConnection(w)
  BY <1>0, <1>00, <1>000, <1>11 DEF BreakConnection, process, lock
<1>12. CASE CancelTryLock(w)
  BY <1>0, <1>00, <1>000, <1>12 DEF CancelTryLock, Cancelled, lock, Lockable
<1>13. CASE CancelCheck(w)
  BY <1>0, <1>00, <1>000, <1>13 DEF CancelCheck, Cancelled, lock
<1>14. CASE CancelUnlock(w)
  BY <1>0, <1>00, <1>000, <1>14 DEF CancelUnlock, Cancelled, lock
<1> QED
  BY <1>1, <1>2, <1>3, <1>4, <1>5, <1>6, <1>7, <1>8, <1>9, <1>10, <1>11, <1>12, <1>13, <1>14 DEF
     WorkerStep, Step

LEMMA StepOwner ==
    ASSUME Inv, NEW w \in Workers, WorkerStep(w)
    PROVE  OwnerAlive'
<1>1. CASE Dispose(w)
  <2>0. owner[1] = w => owner[2] \in Idle(w) /\ owner = <<w, owner[2]>>
    <3>1. conn[w] = Nobody
      BY <1>1 DEF Dispose, Inv, Placed, InCycle
    <3>2. owner # Free => owner = <<owner[1], owner[2]>>
      BY DEF Inv, Shape
    <3>3. owner[1] = w => owner # Free /\ owner[2] \in InUse(w)
      BY NobodyAssumption DEF Inv, OwnerAlive, Free
    <3> QED
      BY <3>1, <3>2, <3>3 DEF InUse
  <2>1. /\ depth' = 0 <=> owner' = Free
        /\ owner' = Free \/ (owner' = owner /\ owner[1] # w)
    BY <1>1, <2>0 DEF Dispose, Inv, OwnerAlive, lock
  <2>2. ASSUME NEW v \in Workers, owner'[1] = v PROVE owner'[2] \in InUse(v)' /\ owner'[2] \notin broken'[v]
    <3>1. owner' = owner /\ v # w
      BY <2>1, <2>2, NobodyAssumption DEF Free
    <3> QED
      BY <2>2, <3>1, StepOthers DEF Inv, OwnerAlive, InUse, Idle
  <2> QED
    BY <2>1, <2>2 DEF OwnerAlive
<1>2. CASE ~Dispose(w)
  <2>1. ASSUME NEW v \in Workers, owner'[1] = v PROVE owner'[2] \in InUse(v)' /\ owner'[2] \notin broken'[v]
    <3>1. owner' # Free
      BY <2>1, NobodyAssumption DEF Free
    <3>2. CASE owner' = owner /\ v = w
      BY <1>2, <2>1, <3>1, <3>2, StepLock, StepInUse DEF Inv, OwnerAlive
    <3>3. CASE owner' = owner /\ v # w
      BY <2>1, <3>3, StepOthers DEF Inv, OwnerAlive, InUse, Idle
    <3>4. CASE owner' # owner
      <4>1. /\ owner' = <<w, conn[w]>> /\ conn[w] \in Connections
            /\ conn'[w] = conn[w] /\ conn[w] \notin broken'[w]
        BY <1>2, <3>1, <3>4, StepLock
      <4> QED
        BY <2>1, <4>1 DEF InUse, Connections, Nobody
    <3> QED
      BY <3>2, <3>3, <3>4
  <2> QED
    BY <1>2, <2>1, StepLock DEF OwnerAlive
<1> QED
  BY <1>1, <1>2

LEMMA NextInv == Inv /\ [Next]_vars => Inv'
<1> SUFFICES ASSUME Inv, [Next]_vars PROVE Inv'
  OBVIOUS
<1>1. CASE UNCHANGED vars
  BY <1>1 DEF vars, process, sessions, lock, faults, Inv, Shape, Placed, PoolOK, Idle, InUse,
     OwnerAlive, WorksUnderLock
<1>2. ASSUME NEW w \in Workers, WorkerStep(w) PROVE Inv'
  <2>1. ASSUME NEW v \in Workers, v # w PROVE Placed(v)'
    <3>1. Placed(v) /\ pc'[v] = pc[v] /\ conn'[v] = conn[v] /\ pool'[v] = pool[v]
      BY <1>2, <2>1, StepOthers DEF Inv
    <3> QED
      BY <3>1 DEF Placed, PoolOK, Idle
  <2> QED
    BY <1>2, <2>1, StepShape, StepPlaced, StepOwner, StepUnder DEF Inv
<1> QED
  BY <1>1, <1>2 DEF Next, Finished, WorkerStep

LEMMA SpecInv == Spec => []Inv
BY InitInv, NextInv, PTL DEF Spec

-----------------------------------------------------------------------------
\* A pool is as long as the number of connections in it.
LEMMA PoolSize ==
    ASSUME NEW s \in Seq(Connections),
           \A i, j \in 1 .. Len(s) : s[i] = s[j] => i = j
    PROVE  Len(s) = Cardinality(ToSet(s))
<1>1. Len(s) \in Nat /\ DOMAIN s = 1 .. Len(s)
  OBVIOUS
<1>2. s \in Bijection(1 .. Len(s), ToSet(s))
  BY <1>1 DEF Bijection, Injection, Surjection, IsInjective, ToSet
<1>3. IsFiniteSet(1 .. Len(s)) /\ Cardinality(1 .. Len(s)) = Len(s)
  <2>1. 1 \in Int /\ Len(s) \in Int
    BY <1>1
  <2>2. Cardinality(1 .. Len(s)) = IF 1 > Len(s) THEN 0 ELSE Len(s) - 1 + 1
    BY <2>1, FS_Interval, Zenon
  <2>3. IsFiniteSet(1 .. Len(s))
    BY <2>1, FS_Interval, Zenon
  <2> QED
    BY <1>1, <2>2, <2>3
<1> QED
  BY <1>2, <1>3, FS_Bijection DEF ExistsBijection

\* A connection of a worker is in one place, the pool or the cycle, and the lock
\* is held as often as it says (report_processing.py:536-578, db.py:12).
THEOREM TypeCorrect == Spec => []TypeOK
<1>1. Inv => TypeOK
  <2> SUFFICES ASSUME Inv PROVE TypeOK
    OBVIOUS
  <2>1. ASSUME NEW w \in Workers
        PROVE  /\ conn[w] \in (IF pc[w] \in InCycle THEN Connections ELSE {Nobody})
               /\ Idle(w) \subseteq Connections
               /\ Len(pool[w]) = Cardinality(Idle(w)) /\ conn[w] \notin Idle(w)
    <3>1. Placed(w)
      BY DEF Inv
    <3>2. Idle(w) \subseteq Connections
      BY <3>1 DEF Idle, ToSet, Placed, PoolOK
    <3> QED
      BY <3>1, <3>2, PoolSize DEF Placed, PoolOK, Idle
  <2> QED
    BY <2>1 DEF TypeOK, Inv, Shape, OwnerAlive, Labels
<1> QED
  BY <1>1, SpecInv, PTL

\* No cycle works without the lock of its own session, whatever was left locked
\* or broken in the pools before (report_processing.py:542-568).
THEOREM UnderLock == Spec => []WorksUnderLock
<1>1. Inv => WorksUnderLock
  BY DEF Inv
<1> QED
  BY <1>1, SpecInv, PTL

\* What else is known of the lock and its levels.
Levels ==
    /\ cancels \in Nat
    /\ \A w \in Workers : aborted[w] => pc[w] \in {"unlock", "return"}
    /\ OnlyCancelsLeaveLock

\* A step counts a level up for a cycle that will release it or for a cancelled
\* statement, and a cycle that no longer releases one has released it or was
\* cancelled.
LEMMA StepLevels ==
    ASSUME Inv, Levels, NEW w \in Workers, WorkerStep(w)
    PROVE  \/ depth' = 0 /\ cancels' = cancels
           \/ /\ depth' = depth /\ cancels' = cancels
              /\ \A v \in Workers : Releases(v) => Releases(v)'
           \/ /\ depth' = depth + 1 /\ ~\E v \in Workers : Releases(v)
              /\ (cancels' = cancels /\ Releases(w)') \/ cancels' = cancels + 1
           \/ depth' = depth - 1 /\ cancels' = cancels
           \/ depth' = depth /\ cancels' = cancels + 1
<1>0. ASSUME owner' = owner, Releases(w) => Releases(w)'
      PROVE  \A v \in Workers : Releases(v) => Releases(v)'
  <2>1. ASSUME NEW v \in Workers, v # w, Releases(v) PROVE Releases(v)'
    BY <1>0, <2>1, StepOthers DEF Releases
  <2> QED
    BY <1>0, <2>1
<1>1. ASSUME Lockable(w), pc[w] = "try" PROVE ~\E v \in Workers : Releases(v)
  BY <1>1, NobodyAssumption DEF Lockable, Releases, Free
<1>2. pc[w] \notin {"work", "check", "unlock"} => ~Releases(w)
  BY DEF Releases
<1>3. aborted[w] => pc[w] \in {"unlock", "return"}
  BY DEF Levels
<1>4. owner = <<w, conn[w]>> => conn[w] \notin broken[w]
  <2>1. owner = <<w, conn[w]>> => owner[1] = w /\ owner[2] = conn[w]
    OBVIOUS
  <2> QED
    BY <2>1 DEF Inv, OwnerAlive
<1>5. /\ pc \in [Workers -> Labels] /\ aborted \in [Workers -> BOOLEAN]
      /\ DOMAIN conn = Workers /\ broken \in [Workers -> SUBSET Connections]
      /\ depth \in Nat /\ cancels \in Nat
  BY DEF Inv, Shape, Levels
\* A step that leaves the lock, its connection and its transaction.
<1>6. ASSUME owner' = owner, conn'[w] = conn[w], aborted'[w] = aborted[w],
             pc[w] \in {"work", "check", "unlock"} => pc'[w] \in {"work", "check", "unlock"}
      PROVE  \A v \in Workers : Releases(v) => Releases(v)'
  BY <1>0, <1>6 DEF Releases
\* A step of a cycle that has nothing to release.
<1>7. ASSUME owner' = owner, ~Releases(w)
      PROVE  \A v \in Workers : Releases(v) => Releases(v)'
  BY <1>0, <1>7
<1> USE DEF Goto
<1>11. CASE TestStop(w)
  BY <1>2, <1>7, <1>11 DEF TestStop, lock, faults
<1>12. CASE Connect(w)
  <2>1. depth' = 0 \/ (owner' = owner /\ depth' = depth)
    BY <1>12 DEF Connect, HandOut, lock
  <2>2. ~Releases(w) /\ cancels' = cancels
    BY <1>2, <1>12 DEF Connect, faults
  <2> QED
    BY <1>7, <2>1, <2>2
<1>13. CASE TryLock(w)
  <2>1. CASE Lockable(w)
    <3>1. /\ pc[w] = "try" /\ owner' = <<w, conn[w]>> /\ depth' = depth + 1 /\ cancels' = cancels
          /\ pc'[w] = "work" /\ conn'[w] = conn[w] /\ aborted'[w] = aborted[w]
      BY <1>5, <1>13, <2>1 DEF TryLock, sessions, faults
    <3>2. Releases(w)'
      BY <1>3, <3>1 DEF Releases
    <3> QED
      BY <1>1, <2>1, <3>1, <3>2
  <2>2. CASE ~Lockable(w)
    BY <1>2, <1>7, <1>13, <2>2 DEF TryLock, lock, faults
  <2> QED
    BY <2>1, <2>2
<1>14. CASE TryLockFails(w)
  BY <1>2, <1>7, <1>14 DEF TryLockFails, lock, faults
<1>15. CASE UseSession(w)
  <2>1. depth' = 0 \/ (owner' = owner /\ depth' = depth)
    BY <1>15 DEF UseSession, HandOut, lock
  <2>2. /\ cancels' = cancels /\ conn'[w] = conn[w] /\ aborted'[w] = aborted[w]
        /\ pc'[w] = "check"
    BY <1>5, <1>15 DEF UseSession, faults
  <2> QED
    BY <1>6, <2>1, <2>2
<1>16. CASE CheckLock(w)
  <2>1. /\ cancels' = cancels /\ conn'[w] = conn[w] /\ aborted'[w] = aborted[w]
        /\ pc'[w] = "unlock" /\ owner' = owner /\ depth' = depth
    BY <1>5, <1>16 DEF CheckLock, lock, faults
  <2> QED
    BY <1>6, <2>1
<1>17. CASE Unlock(w)
  <2>1. cancels' = cancels
    BY <1>17 DEF Unlock, faults
  <2>2. CASE conn[w] \notin broken[w] /\ ~aborted[w]
    BY <1>17, <2>1, <2>2 DEF Unlock
  <2>3. CASE ~(conn[w] \notin broken[w] /\ ~aborted[w])
    <3>1. ~Releases(w)
      BY <1>4, <2>3 DEF Releases
    <3>2. owner' = owner /\ depth' = depth
      BY <1>17, <2>3 DEF Unlock
    <3> QED
      BY <1>7, <2>1, <3>1, <3>2
  <2> QED
    BY <2>2, <2>3
<1>18. CASE Return(w)
  BY <1>2, <1>7, <1>18 DEF Return, lock, faults
<1>19. CASE Wait(w)
  BY <1>2, <1>7, <1>19 DEF Wait, lock, faults
<1>20. CASE Dispose(w)
  <2>1. depth' = 0 \/ (owner' = owner /\ depth' = depth)
    BY <1>20 DEF Dispose, lock
  <2>2. ~Releases(w) /\ cancels' = cancels
    BY <1>2, <1>20 DEF Dispose, faults
  <2> QED
    BY <1>7, <2>1, <2>2
<1>21. CASE HandleSignal(w)
  BY <1>6, <1>21 DEF HandleSignal, sessions, lock, faults
<1>22. CASE BreakConnection(w)
  <2>1. depth' = 0 \/ (owner' = owner /\ depth' = depth)
    BY <1>22 DEF BreakConnection, lock
  <2>2. /\ cancels' = cancels /\ conn'[w] = conn[w] /\ aborted'[w] = aborted[w]
        /\ pc'[w] = pc[w]
    BY <1>22 DEF BreakConnection, process
  <2> QED
    BY <1>6, <2>1, <2>2
<1>23. CASE CancelTryLock(w)
  <2>1. cancels' = cancels + 1 /\ pc[w] = "try"
    BY <1>23 DEF CancelTryLock, Cancelled
  <2>2. (Lockable(w) /\ depth' = depth + 1) \/ depth' = depth
    BY <1>23 DEF CancelTryLock, lock
  <2> QED
    BY <1>1, <2>1, <2>2
<1>24. CASE CancelCheck(w)
  BY <1>24 DEF CancelCheck, Cancelled, lock
<1>25. CASE CancelUnlock(w)
  BY <1>25 DEF CancelUnlock, Cancelled, lock
<1> QED
  BY <1>11, <1>12, <1>13, <1>14, <1>15, <1>16, <1>17, <1>18, <1>19, <1>20, <1>21, <1>22, <1>23,
     <1>24, <1>25 DEF WorkerStep, Step

\* Where a transaction is aborted.
LEMMA StepAborted ==
    ASSUME Inv, Levels, NEW w \in Workers, WorkerStep(w)
    PROVE  /\ cancels' \in Nat
           /\ \A v \in Workers : aborted'[v] => pc'[v] \in {"unlock", "return"}
<1>1. /\ pc \in [Workers -> Labels] /\ aborted \in [Workers -> BOOLEAN]
      /\ cancels \in Nat
      /\ \A v \in Workers : aborted[v] => pc[v] \in {"unlock", "return"}
  BY DEF Inv, Shape, Levels
<1>2. aborted'[w] => pc'[w] \in {"unlock", "return"}
  BY <1>1 DEF WorkerStep, Step, TestStop, Connect, TryLock, TryLockFails, UseSession, CheckLock,
     Unlock, Return, Wait, Dispose, HandleSignal, BreakConnection, CancelTryLock, CancelCheck,
     CancelUnlock, Cancelled, Goto, process, sessions
<1>3. cancels' \in {cancels, cancels + 1}
  BY DEF WorkerStep, Step, TestStop, Connect, TryLock, TryLockFails, UseSession, CheckLock,
     Unlock, Return, Wait, Dispose, HandleSignal, BreakConnection, CancelTryLock, CancelCheck,
     CancelUnlock, Cancelled, faults
<1> QED
  BY <1>1, <1>2, <1>3, StepOthers

LEMMA LevelsKept == Inv /\ Levels /\ [Next]_vars => Levels'
<1> SUFFICES ASSUME Inv, Levels, [Next]_vars PROVE Levels'
  OBVIOUS
<1>1. CASE UNCHANGED vars
  BY <1>1 DEF vars, process, sessions, lock, faults, Levels, OnlyCancelsLeaveLock, Releases
<1>2. ASSUME NEW w \in Workers, WorkerStep(w) PROVE Levels'
  <2> DEFINE held == \E v \in Workers : Releases(v)
  <2>1. depth \in Nat /\ cancels \in Nat /\ depth <= cancels + (IF held THEN 1 ELSE 0)
    BY DEF Inv, Shape, Levels, OnlyCancelsLeaveLock
  <2>2. \/ depth' = 0 /\ cancels' = cancels
        \/ depth' = depth /\ cancels' = cancels /\ (held => held')
        \/ depth' = depth + 1 /\ ~held /\ ((cancels' = cancels /\ held') \/ cancels' = cancels + 1)
        \/ depth' = depth - 1 /\ cancels' = cancels
        \/ depth' = depth /\ cancels' = cancels + 1
    BY <1>2, StepLevels
  <2>3. /\ cancels' \in Nat
        /\ \A v \in Workers : aborted'[v] => pc'[v] \in {"unlock", "return"}
    BY <1>2, StepAborted
  <2>4. OnlyCancelsLeaveLock' <=> depth' <= cancels' + (IF held' THEN 1 ELSE 0)
    BY DEF OnlyCancelsLeaveLock
  <2> HIDE DEF held
  <2>5. depth' <= cancels' + (IF held' THEN 1 ELSE 0)
    BY <2>1, <2>2
  <2> QED
    BY <2>3, <2>4, <2>5 DEF Levels
<1> QED
  BY <1>1, <1>2 DEF Next, Finished, WorkerStep

\* Only cancelled statements leave the lock behind, each one level of it, over
\* any number of cycles and whatever breaks; the invariant adds that a
\* transaction of the lock connection is only aborted where the lock is about to
\* be released or the connection to be returned (report_processing.py:569-578).
THEOREM LeftByCancels == Spec => []OnlyCancelsLeaveLock
<1>1. Init => Levels
  BY DEF Init, Levels, OnlyCancelsLeaveLock, Releases
<1>2. Levels => OnlyCancelsLeaveLock
  BY DEF Levels
<1> QED
  BY <1>1, <1>2, LevelsKept, SpecInv, PTL DEF Spec

\* A connection that its worker gave up or that broke does not keep the lock:
\* the holder is a session that some worker can still release or close
\* (db.py:12, report_processing.py:569-578).
THEOREM LockIsReachable == Spec => []OwnerAlive
<1>1. Inv => OwnerAlive
  BY DEF Inv
<1> QED
  BY <1>1, SpecInv, PTL
================================================================================
