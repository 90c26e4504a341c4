----------------------------- MODULE WorkerSessions -----------------------------
(***************************************************************************)
(* The loop of the worker processes (app/worker.py), the advisory lock     *)
(* around each cycle (process_next_report and ensure_lock_connection_alive *)
(* of app/services/report_processing.py) and the pool both of a worker's   *)
(* connections come from (app/db.py).                                      *)
(*                                                                         *)
(* The lock belongs to a database session, may be taken again by the       *)
(* session that has it, and must then be released as often; a roll-back    *)
(* does not release it and the end of the session does.  Returning a       *)
(* connection to the pool rolls back and keeps the session.  The pool is   *)
(* a queue: the connection that was returned first is handed out first,    *)
(* and one that turns out broken makes the pool replace all its            *)
(* connections, each when it is handed out next.                           *)
(*                                                                         *)
(* What a cycle does with the lock is ImportPipeline; here it is one       *)
(* transaction and one check of the lock connection.                       *)
(***************************************************************************)
EXTENDS Naturals, Sequences, SequencesExt, FiniteSets

CONSTANTS
    Workers,
    MaxSignals,  \* signals a worker receives
    MaxCancels,  \* statements on a lock connection that are cancelled
    MaxBreaks    \* connections that break

ASSUME WorkerSessionsAssumption ==
    MaxSignals \in Nat /\ MaxCancels \in Nat /\ MaxBreaks \in Nat

VARIABLES
    pc,
    received,  \* how many signals a worker received
    stop,      \* stop_event
    pool,      \* the idle connections of a worker, the next one first
    conn,      \* the lock connection, or Nobody
    aborted,   \* whether its transaction is aborted by an error
    broken,    \* the connections whose session has ended
    stale,     \* the connections the pool replaces when it hands them out
    owner,     \* the session that has the advisory lock, <<worker, connection>>
    depth,     \* how often it has it
    cancels, breaks

process  == <<pc, received, stop>>
sessions == <<pool, conn, aborted, broken, stale>>
lock     == <<owner, depth>>
faults   == <<cancels, breaks>>
vars     == <<process, sessions, lock, faults>>

Nobody == 0

ASSUME NobodyAssumption == Nobody \notin Workers

Connections == 1 .. 2
Free        == <<Nobody, Nobody>>

InCycle == {"try", "work", "check", "unlock", "return"}

Init ==
    /\ pc = [w \in Workers |-> "test"]
    /\ received = [w \in Workers |-> 0]
    /\ stop = [w \in Workers |-> FALSE]
    /\ pool = [w \in Workers |-> <<>>]
    /\ conn = [w \in Workers |-> Nobody]
    /\ aborted = [w \in Workers |-> FALSE]
    /\ broken = [w \in Workers |-> {}]
    /\ stale = [w \in Workers |-> {}]
    /\ owner = Free
    /\ depth = 0
    /\ cancels = 0 /\ breaks = 0

Goto(w, label) == pc' = [pc EXCEPT ![w] = label]

-----------------------------------------------------------------------------
(* The pool                                                                *)

Idle(w)  == ToSet(pool[w])
InUse(w) == Idle(w) \cup ({conn[w]} \ {Nobody})

\* The connection handed out: the first of the queue, or a new one.
Handed(w) ==
    IF pool[w] # <<>> THEN Head(pool[w])
    ELSE CHOOSE c \in Connections : c \notin InUse(w)

\* The pool pings a connection it hands out and replaces it if that fails, and
\* then counts all others as stale; a stale one is closed and replaced.
HandOut(w, c) ==
    /\ broken' = [broken EXCEPT ![w] = @ \ {c}]
    /\ stale' = [stale EXCEPT ![w] = (IF c \in broken[w] THEN InUse(w) ELSE @) \ {c}]
    /\ IF c \in stale[w] /\ owner = <<w, c>>
       THEN owner' = Free /\ depth' = 0
       ELSE UNCHANGED lock

\* A statement finds its connection broken.
NoticeBreak(w) == stale' = [stale EXCEPT ![w] = InUse(w)]

-----------------------------------------------------------------------------
(* The loop                                                                *)

\* Mutant: the handler only counts the first signal.
HandleSignalCounting(w) ==
    /\ pc[w] # "stopped"
    /\ received[w] < MaxSignals
    /\ received' = [received EXCEPT ![w] = @ + 1]
    /\ stop' = [stop EXCEPT ![w] = received[w] > 0]
    /\ UNCHANGED <<pc, sessions, lock, faults>>

\* request_shutdown runs between any two steps of the worker.
HandleSignal(w) ==
    /\ pc[w] # "stopped"
    /\ received[w] < MaxSignals
    /\ received' = [received EXCEPT ![w] = @ + 1]
    /\ stop' = [stop EXCEPT ![w] = TRUE]
    /\ UNCHANGED <<pc, sessions, lock, faults>>

TestStop(w) ==
    /\ pc[w] = "test"
    /\ Goto(w, IF stop[w] THEN "dispose" ELSE "connect")
    /\ UNCHANGED <<received, stop, sessions, lock, faults>>

\* Mutant: the connection handed out stays in the pool.
ConnectShared(w) ==
    LET c == Handed(w) IN
    /\ pc[w] = "connect"
    /\ conn' = [conn EXCEPT ![w] = c]
    /\ HandOut(w, c)
    /\ Goto(w, "try")
    /\ UNCHANGED <<received, stop, pool, aborted, faults>>

\* A cycle begins: engine.connect.
Connect(w) ==
    LET c == Handed(w) IN
    /\ pc[w] = "connect"
    /\ conn' = [conn EXCEPT ![w] = c]
    /\ pool' = [pool EXCEPT ![w] = IF @ = <<>> THEN @ ELSE Tail(@)]
    /\ HandOut(w, c)
    /\ Goto(w, "try")
    /\ UNCHANGED <<received, stop, aborted, faults>>

Lockable(w) == owner \in {Free, <<w, conn[w]>>}

\* Mutant: the result of pg_try_advisory_lock is not looked at.
TryLockUnchecked(w) ==
    /\ pc[w] = "try"
    /\ conn[w] \notin broken[w]
    /\ IF Lockable(w) THEN owner' = <<w, conn[w]>> /\ depth' = depth + 1 ELSE UNCHANGED lock
    /\ Goto(w, "work")
    /\ UNCHANGED <<received, stop, sessions, faults>>

TryLock(w) ==
    /\ pc[w] = "try"
    /\ conn[w] \notin broken[w]
    /\ IF Lockable(w)
       THEN owner' = <<w, conn[w]>> /\ depth' = depth + 1 /\ Goto(w, "work")
       ELSE Goto(w, "return") /\ UNCHANGED lock
    /\ UNCHANGED <<received, stop, sessions, faults>>

TryLockFails(w) ==
    /\ pc[w] = "try"
    /\ conn[w] \in broken[w]
    /\ NoticeBreak(w)
    /\ Goto(w, "return")
    /\ UNCHANGED <<received, stop, pool, conn, aborted, broken, lock, faults>>

\* A transaction of the cycle, on a second connection of the same pool.
UseSession(w) ==
    LET c == Handed(w) IN
    /\ pc[w] = "work"
    /\ HandOut(w, c)
    /\ pool' = [pool EXCEPT ![w] = IF @ = <<>> THEN <<c>> ELSE Append(Tail(@), c)]
    /\ Goto(w, "check")
    /\ UNCHANGED <<received, stop, conn, aborted, faults>>

\* Mutant: the lock is asserted by taking it instead of by SELECT 1.
CheckLockByTaking(w) ==
    /\ pc[w] = "check"
    /\ IF conn[w] \in broken[w]
       THEN NoticeBreak(w) /\ UNCHANGED lock
       ELSE depth' = depth + 1 /\ UNCHANGED <<owner, stale>>
    /\ Goto(w, "unlock")
    /\ UNCHANGED <<received, stop, pool, conn, aborted, broken, faults>>

\* ensure_lock_connection_alive: whether it raises or not, the lock is to be
\* released next.
CheckLock(w) ==
    /\ pc[w] = "check"
    /\ IF conn[w] \in broken[w] THEN NoticeBreak(w) ELSE UNCHANGED stale
    /\ Goto(w, "unlock")
    /\ UNCHANGED <<received, stop, pool, conn, aborted, broken, lock, faults>>

\* pg_advisory_unlock fails on a broken connection, and on one whose
\* transaction an earlier error aborted; both are only logged.
Unlock(w) ==
    LET works == conn[w] \notin broken[w] /\ ~aborted[w] IN
    /\ pc[w] = "unlock"
    /\ depth' = IF works THEN depth - 1 ELSE depth
    /\ owner' = IF works /\ depth = 1 THEN Free ELSE owner
    /\ IF conn[w] \in broken[w] THEN NoticeBreak(w) ELSE UNCHANGED stale
    /\ Goto(w, "return")
    /\ UNCHANGED <<received, stop, pool, conn, aborted, broken, faults>>

\* Mutant: the pool hands out its youngest connection first.
ReturnByAge(w) ==
    /\ pc[w] = "return"
    /\ pool' = [pool EXCEPT ![w] = SortSeq(Append(@, conn[w]), LAMBDA a, b : a > b)]
    /\ conn' = [conn EXCEPT ![w] = Nobody]
    /\ aborted' = [aborted EXCEPT ![w] = FALSE]
    /\ Goto(w, "wait")
    /\ UNCHANGED <<received, stop, broken, stale, lock, faults>>

\* The end of the with block: the pool rolls back and keeps the session.
Return(w) ==
    /\ pc[w] = "return"
    /\ pool' = [pool EXCEPT ![w] = Append(@, conn[w])]
    /\ conn' = [conn EXCEPT ![w] = Nobody]
    /\ aborted' = [aborted EXCEPT ![w] = FALSE]
    /\ Goto(w, "wait")
    /\ UNCHANGED <<received, stop, broken, stale, lock, faults>>

\* stop_event.wait: the polling interval is over, or the event is set.
Wait(w) ==
    /\ pc[w] = "wait"
    /\ Goto(w, "test")
    /\ UNCHANGED <<received, stop, sessions, lock, faults>>

\* engine.dispose closes the idle connections, and their sessions end.
Dispose(w) ==
    /\ pc[w] = "dispose"
    /\ pool' = [pool EXCEPT ![w] = <<>>]
    /\ IF \E c \in Idle(w) : owner = <<w, c>>
       THEN owner' = Free /\ depth' = 0
       ELSE UNCHANGED lock
    /\ Goto(w, "stopped")
    /\ UNCHANGED <<received, stop, conn, aborted, broken, stale, faults>>

-----------------------------------------------------------------------------
(* Faults                                                                  *)

\* A statement on the lock connection is cancelled: the transaction is
\* aborted, the connection and its session stay.
Cancelled(w) ==
    /\ cancels < MaxCancels
    /\ ~aborted[w] /\ conn[w] \notin broken[w]
    /\ aborted' = [aborted EXCEPT ![w] = TRUE]
    /\ cancels' = cancels + 1
    /\ UNCHANGED <<received, stop, pool, conn, broken, stale, breaks>>

\* The lock may have been taken by the time; nothing is done to release it.
CancelTryLock(w) ==
    /\ pc[w] = "try"
    /\ \/ Lockable(w) /\ owner' = <<w, conn[w]>> /\ depth' = depth + 1
       \/ UNCHANGED lock
    /\ Goto(w, "return")
    /\ Cancelled(w)

CancelCheck(w)  == pc[w] = "check" /\ Goto(w, "unlock") /\ Cancelled(w) /\ UNCHANGED lock
CancelUnlock(w) == pc[w] = "unlock" /\ Goto(w, "return") /\ Cancelled(w) /\ UNCHANGED lock

\* The server ends a session, and with it the lock it has.
BreakConnection(w) ==
    /\ breaks < MaxBreaks
    /\ \E c \in InUse(w) \ broken[w] :
           /\ broken' = [broken EXCEPT ![w] = @ \cup {c}]
           /\ IF owner = <<w, c>> THEN owner' = Free /\ depth' = 0 ELSE UNCHANGED lock
    /\ breaks' = breaks + 1
    /\ UNCHANGED <<process, pool, conn, aborted, stale, cancels>>

-----------------------------------------------------------------------------
Step(w) ==
    \/ TestStop(w) \/ Connect(w) \/ TryLock(w) \/ TryLockFails(w) \/ UseSession(w)
    \/ CheckLock(w) \/ Unlock(w) \/ Return(w) \/ Wait(w) \/ Dispose(w)

Finished == (\A w \in Workers : pc[w] = "stopped") /\ UNCHANGED vars

Next ==
    \/ \E w \in Workers : Step(w) \/ HandleSignal(w) \/ BreakConnection(w)
    \/ \E w \in Workers : CancelTryLock(w) \/ CancelCheck(w) \/ CancelUnlock(w)
    \/ Finished

\* A running process goes on: each statement returns or raises, waiting ends
\* with the polling interval.  Signals and faults are up to the environment.
Spec == Init /\ [][Next]_vars /\ \A w \in Workers : WF_vars(Step(w))

-----------------------------------------------------------------------------
\* A connection is in one place; only what is used can be broken or stale; the
\* lock is held as often as it says.
TypeOK ==
    /\ pc \in [Workers -> InCycle \cup {"test", "connect", "wait", "dispose", "stopped"}]
    /\ \A w \in Workers :
           /\ conn[w] \in (IF pc[w] \in InCycle THEN Connections ELSE {Nobody})
           /\ Idle(w) \subseteq Connections
           /\ Len(pool[w]) = Cardinality(Idle(w)) /\ conn[w] \notin Idle(w)
    /\ depth \in Nat /\ (depth = 0 <=> owner = Free)

\* A cycle only works with the advisory lock: as long as the lock connection of
\* a worker in the middle of a cycle is not broken, its session has the lock,
\* whatever was left locked, rolled back or replaced in the pools before
\* (report_processing.py:542-568).
WorksUnderLock ==
    \A w \in Workers :
        pc[w] \in {"work", "check", "unlock"} /\ conn[w] \notin broken[w]
            => owner = <<w, conn[w]>>

\* The cycle that has the lock and will release it: its connection can run
\* pg_advisory_unlock.
Releases(w) ==
    /\ pc[w] \in {"work", "check", "unlock"}
    /\ owner = <<w, conn[w]>> /\ ~aborted[w]

\* Only a cancelled statement leaves the lock behind, and each at most one level
\* of it: all else that the lock is held is what a cycle is about to release.
\* So without one a cycle ends with the lock released, whichever connections
\* broke or were replaced, were handed out twice or had kept the lock before,
\* and however often the loop went round (report_processing.py:569-578).
OnlyCancelsLeaveLock ==
    depth <= cancels + (IF \E w \in Workers : Releases(w) THEN 1 ELSE 0)

\* A signal stops the worker: the cycle it is in ends, and waiting is cut short
\* (worker.py:33-41).
SignalStops == \A w \in Workers : received[w] > 0 ~> pc[w] = "stopped"

\* A lock that could not be released starves the other workers but not the
\* system: the pool is a queue, so that its worker gets the connection that
\* has the lock again and again, until it is told to stop
\* (report_processing.py:569-578, db.py:12).
WorkGoesOn ==
    []<>((\E w \in Workers : pc[w] = "work") \/ (\A w \in Workers : received[w] > 0))
=============================================================================
