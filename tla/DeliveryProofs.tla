--------------------------- MODULE DeliveryProofs ---------------------------
(***************************************************************************)
(* Proofs about Delivery, for every set of updates, every queue of calls   *)
(* and every value of the retention and retry constants.                   *)
(***************************************************************************)
EXTENDS Delivery, TLAPS

-----------------------------------------------------------------------------
(* Types *)

LEMMA TypeInit == Init => TypeOK
BY ConstantAssumption
DEF Init, TypeOK, TaskPCs, Endings, SenderPCs, NoTx, AgeCap, Row

LEMMA TypeStep == TypeOK /\ [Next]_vars => TypeOK'
<1> SUFFICES ASSUME TypeOK, [Next]_vars PROVE TypeOK'
    OBVIOUS
<1> USE ConstantAssumption DEF TaskPCs, Endings, Ending, SenderPCs, NoTx, AgeCap
<1>1. ASSUME NEW new \in SUBSET Updates, Poll(new) PROVE TypeOK'
      BY <1>1 DEF TypeOK, Poll, dbVars, senderVars, userVars
<1>2. ASSUME NEW u \in Updates, Acquire(u) PROVE TypeOK'
      BY <1>2 DEF TypeOK, Acquire, dbVars, senderVars, userVars
<1>3. ASSUME NEW u \in Updates, DropRedelivery(u) PROVE TypeOK'
      BY <1>3 DEF TypeOK, DropRedelivery, Close, dbVars, senderVars, userVars
<1>5. ASSUME NEW u \in Updates, RunHandler(u) PROVE TypeOK'
      BY <1>5 DEF TypeOK, RunHandler, Close, dbVars, senderVars, userVars
<1>6. ASSUME NEW u \in Updates, Fails(u) PROVE TypeOK'
      BY <1>6 DEF TypeOK, Fails, dbVars, senderVars, userVars
<1>7. ASSUME NEW u \in Updates, Commit(u) PROVE TypeOK'
      BY <1>7 DEF TypeOK, Commit, AfterCall, FirstAttempt, Row, senderVars
<1>8. ASSUME NEW u \in Updates, Flush(u) PROVE TypeOK'
  <2>1. PICK kind \in Kinds : Attempt(u, kind)
        BY <1>8 DEF Flush, FlushSends, FlushLoses, FlushStale, EditStale,
                    FlushEdits, Kinds
  <2>2. Tail(queue[u]) \in Seq(Kinds)
        BY <2>1 DEF TypeOK, Attempt
  <2>3. /\ struck' \in [Updates -> BOOLEAN]
        /\ stale' \in [Updates -> BOOLEAN]
        /\ told' \subseteq Updates
        /\ hopeless' \subseteq Updates
        BY <1>8 DEF TypeOK, Flush, FlushSends, FlushLoses, FlushStale,
                    EditStale, FlushEdits
  <2>4. /\ queue' \in [Updates -> Seq(Kinds)]
        /\ pc' \in [Updates -> TaskPCs]
        BY <2>1, <2>2 DEF TypeOK, Attempt, AfterCall
  <2> QED
      BY <2>1, <2>3, <2>4 DEF TypeOK, Attempt, dbVars, senderVars
<1>9. ASSUME NEW u \in Updates, SkipSettle(u) PROVE TypeOK'
      BY <1>9 DEF TypeOK, SkipSettle, dbVars, senderVars, userVars
<1>10. ASSUME NEW u \in Updates, Settle(u) PROVE TypeOK'
      BY <1>10 DEF TypeOK, Settle, senderVars, userVars
<1>11. ASSUME NEW u \in Updates, SettleFails(u) PROVE TypeOK'
      BY <1>11 DEF TypeOK, SettleFails, dbVars, senderVars, userVars
<1>12. CASE SenderWakes
      BY <1>12 DEF TypeOK, SenderWakes, AfterRecord, taskVars, dbVars, userVars
<1>13. CASE Peek
      BY <1>13 DEF TypeOK, Peek, taskVars, dbVars, userVars
<1>14. CASE RecordOutcome
      BY <1>14 DEF TypeOK, RecordOutcome, OutcomeApplied, AfterRecord, Row,
                   Retry, taskVars, userVars
<1>15. CASE Purge
      BY <1>15 DEF TypeOK, Purge, taskVars, userVars
<1>16. CASE ReadBatch
  <2>1. pending' \subseteq Pending
    <3>1. ASSUME NEW i \in Batch
          PROVE  /\ i \in Ids
                 /\ outbox[i].of \in Updates /\ outbox[i].attempts \in Nat
          BY DEF TypeOK, Batch, Due, Row
    <3> QED
        BY <1>16, <3>1 DEF ReadBatch, Pending
  <2> QED
      BY <1>16, <2>1 DEF TypeOK, ReadBatch, taskVars, dbVars, userVars
<1>17. CASE SenderDbFails
      BY <1>17 DEF TypeOK, SenderDbFails, taskVars, dbVars, userVars
<1>18. ASSUME NEW p \in pending, Send(p) PROVE TypeOK'
  <2>1. p.id \in Ids /\ p.of \in Updates /\ p.attempts \in Nat
        BY DEF TypeOK, Pending
  <2>2. ASSUME NEW w \in 0..BACKOFF_MAX
        PROVE  [id |-> p.id, wait |-> w, attempts |-> OneMore(p.attempts)]
                 \in Retry
        BY <2>1 DEF Retry, OneMore
  <2>3. retry' \subseteq Retry
        BY <1>18, <2>2 DEF TypeOK, Send, GivesUp, Sends, IsToldToWait,
                           SendFails, BackoffOverflows
  <2>4. done' \subseteq Ids
        BY <1>18, <2>1 DEF TypeOK, Send, GivesUp, Sends, IsToldToWait,
                           SendFails, BackoffOverflows
  <2>5. told' \subseteq Updates /\ hopeless' \subseteq Updates
        BY <1>18, <2>1 DEF TypeOK, Send, GivesUp, Sends, IsToldToWait,
                           SendFails, BackoffOverflows
  <2>6. CASE Turn(p)
        BY <2>3, <2>4, <2>5, <2>6 DEF TypeOK, Turn, taskVars, dbVars
  <2>7. CASE BackoffOverflows(p)
        BY <2>3, <2>4, <2>5, <2>7 DEF TypeOK, BackoffOverflows, taskVars,
                                      dbVars
  <2> QED
      BY <1>18, <2>6, <2>7 DEF Send, GivesUp, Sends, IsToldToWait, SendFails
<1>19. CASE Tick
  <2>1. \A m \in Nat : \A n \in 0..m : Dec(n) \in 0..m
        BY DEF Dec
  <2>2. outbox' \in [Ids -> Row \union {NoRow}]
    <3>1. ASSUME NEW i \in Ids, outbox[i] # NoRow
          PROVE  outbox[i].of \in Updates /\ outbox[i].wait \in Nat
                 /\ outbox[i].attempts \in Nat
          BY <3>1 DEF TypeOK, Row
    <3> QED
        BY <1>19, <3>1 DEF Tick, Row, Dec
  <2>3. retry' \subseteq Retry
    <3>1. ASSUME NEW r \in retry
          PROVE  r.id \in Ids /\ r.wait \in Nat /\ r.attempts \in Nat
          BY DEF TypeOK, Retry
    <3> QED
        BY <1>19, <3>1 DEF Tick, Retry, Dec
  <2>4. age' \in [Updates -> 0..AgeCap]
        BY <1>19, ConstantAssumption DEF TypeOK, Tick, AgeCap
  <2>5. kept' \in [Updates -> 0..RETENTION]
        BY <1>19, <2>1 DEF TypeOK, Tick
  <2>6. pruneIn' \in 0..PRUNE_EVERY /\ purgeIn' \in 0..PURGE_EVERY
        BY <1>19, <2>1 DEF TypeOK, Tick
  <2> QED
      BY <1>19, <2>2, <2>3, <2>4, <2>5, <2>6
      DEF TypeOK, Tick, taskVars, userVars
<1>20. CASE Crash
      BY <1>20 DEF TypeOK, Crash, dbVars, userVars
<1>21. CASE UNCHANGED vars
      BY <1>21 DEF TypeOK, vars, telegramVars, taskVars, dbVars, senderVars,
                   userVars
<1> QED
    BY <1>1, <1>2, <1>3, <1>5, <1>6, <1>7, <1>8, <1>9, <1>10, <1>11,
       <1>12, <1>13, <1>14, <1>15, <1>16, <1>17, <1>18, <1>19, <1>20, <1>21
    DEF Next, Handle, FollowUp, SenderLocked

\* Every variable stays in its type, whatever the constants (Delivery as a
\* whole): in particular every outbox row is a complete row, and what the
\* sender holds about a row is what it read from one.
THEOREM TypeCorrect == Spec => []TypeOK
<1>1. Init => TypeOK
      BY TypeInit
<1>2. TypeOK /\ [Next]_vars => TypeOK'
      BY TypeStep
<1> QED
    BY <1>1, <1>2, PTL DEF Spec

-----------------------------------------------------------------------------
(* The sender writes nothing that belongs to the handling of an update *)

onceVars == <<kept, pc, lock, tx, applied, marks, age>>

LEMMA SenderIsApart ==
  ASSUME SenderWakes \/ Peek \/ SenderLocked \/ \E p \in pending : Send(p)
  PROVE  UNCHANGED <<kept, taskVars, applied, marks, age, owed>>
<1>1. ASSUME NEW p, Send(p)
      PROVE  UNCHANGED <<kept, taskVars, applied, marks, age, owed>>
      BY <1>1 DEF Send, GivesUp, Sends, IsToldToWait, SendFails,
                  BackoffOverflows, Turn, taskVars, dbVars
<1> QED
    BY <1>1 DEF SenderWakes, Peek, SenderLocked, RecordOutcome, Purge,
                ReadBatch, SenderDbFails, taskVars, dbVars, userVars

-----------------------------------------------------------------------------
(* Exactly once *)

LockOK == \A u \in Updates : pc[u] \in {"handler", "commit"} <=> lock = u

\* The handler may still be run for u, in this process or after a crash.
Recallable(u) == kept[u] > 0 \/ pc[u] \in {"waiting", "handler", "commit"}

KeptFades ==
  \A u \in Updates :
    applied[u] > 0 /\ kept[u] > 0 => age[u] + kept[u] <= RETENTION

\* The mark is there for as long as it is needed, and too young to be pruned.
MarkOutlives ==
  \A u \in Updates :
    applied[u] > 0 /\ Recallable(u) => u \in marks /\ age[u] <= RETENTION

CommitsOnce ==
  \A u \in Updates :
    pc[u] = "commit" /\ tx.change => tx.mark /\ applied[u] = 0

OnceInv == LockOK /\ KeptFades /\ MarkOutlives /\ CommitsOnce /\ ExactlyOnce

LEMMA OnceInit == Init => OnceInv
BY ConstantAssumption
DEF Init, OnceInv, LockOK, KeptFades, MarkOutlives, Recallable, CommitsOnce,
    ExactlyOnce, NoTx

LEMMA OnceStep == TypeOK /\ OnceInv /\ [Next]_vars => OnceInv'
<1> SUFFICES ASSUME TypeOK, OnceInv, [Next]_vars PROVE OnceInv'
    OBVIOUS
<1>t. /\ kept \in [Updates -> 0..RETENTION]
      /\ pc \in [Updates -> TaskPCs]
      /\ lock \in Updates \union {Free}
      /\ tx \in [change : BOOLEAN, mark : BOOLEAN, row : Ids \union {0}]
      /\ applied \in [Updates -> Nat]
      /\ marks \subseteq Updates
      /\ age \in [Updates -> 0..AgeCap]
      BY DEF TypeOK
<1> USE <1>t, ConstantAssumption
    DEF OnceInv, LockOK, KeptFades, MarkOutlives, Recallable, CommitsOnce,
        ExactlyOnce, NoTx, dbVars, AgeCap
<1>1. CASE UNCHANGED onceVars
      BY <1>1 DEF onceVars
<1>2. ASSUME NEW new \in SUBSET Updates, Poll(new) PROVE OnceInv'
      BY <1>2 DEF Poll
<1>3. ASSUME NEW u \in Updates, Acquire(u) PROVE OnceInv'
      BY <1>3 DEF Acquire
<1>4. ASSUME NEW u \in Updates, DropRedelivery(u) PROVE OnceInv'
      BY <1>4 DEF DropRedelivery, Close
<1>5. ASSUME NEW u \in Updates, RunHandler(u) PROVE OnceInv'
  <2>1. u \notin marks /\ pc[u] = "handler"
        BY <1>5 DEF RunHandler, AlreadyApplied, Close
  <2>2. applied[u] = 0
        BY <2>1
  <2>3. /\ pc' = [pc EXCEPT ![u] = "commit"]
        /\ tx'.mark
        /\ UNCHANGED <<kept, lock, applied, marks, age>>
        BY <1>5 DEF RunHandler, Close
  <2> QED
      BY <2>1, <2>2, <2>3
<1>6. ASSUME NEW u \in Updates, Fails(u) PROVE OnceInv'
      BY <1>6 DEF Fails
<1>7. ASSUME NEW u \in Updates, Commit(u) PROVE OnceInv'
  <2>1. AfterCall(queue[u]) \in {"settle", "flush"}
        BY DEF AfterCall
  <2>2. tx.change => applied[u] = 0 /\ tx.mark
        BY <1>7 DEF Commit
  <2> QED
      BY <1>7, <2>1, <2>2 DEF Commit
<1>8. ASSUME NEW u \in Updates, Flush(u) \/ SkipSettle(u) \/ SettleFails(u)
      PROVE  OnceInv'
  <2>1. /\ pc[u] \notin {"waiting", "handler", "commit"}
        /\ \E d \in {"settle", "flush"} \union Endings :
             pc' = [pc EXCEPT ![u] = d]
        /\ UNCHANGED <<kept, lock, tx, applied, marks, age>>
        BY <1>8 DEF Flush, FlushSends, FlushLoses, FlushStale, EditStale,
                    FlushEdits, Attempt, AfterCall, SkipSettle, SettleFails,
                    Ending, Endings
  <2> QED
      BY <2>1 DEF Endings
<1>9. ASSUME NEW u \in Updates, Settle(u) PROVE OnceInv'
  <2>1. \A v \in marks : age[v] <= RETENTION => v \in marks'
        BY <1>9 DEF Settle, Prunable
  <2> QED
      BY <1>9, <2>1 DEF Settle, Ending
<1>10. CASE SenderWakes \/ Peek \/ SenderLocked \/ \E p \in pending : Send(p)
      BY <1>1, <1>10, SenderIsApart DEF onceVars, taskVars
<1>11. CASE Tick
  <2>1. \A u \in Updates : pc[u] \notin {"waiting", "handler", "commit"}
        BY <1>11 DEF Tick, Quiet
  <2>2. UNCHANGED <<pc, lock, tx, applied, marks>>
        BY <1>11 DEF Tick, taskVars
  <2>3. ASSUME NEW u \in Updates, applied[u] > 0, kept'[u] > 0
        PROVE  u \in marks /\ age'[u] + kept'[u] <= RETENTION
    <3>1. kept'[u] = kept[u] - 1 /\ kept[u] > 0
          BY <1>11, <2>3 DEF Tick, Dec
    <3>2. age'[u] <= age[u] + 1
          BY <1>11 DEF Tick
    <3>3. age[u] + kept[u] <= RETENTION /\ u \in marks
          BY <2>3, <3>1
    <3> QED
        BY <3>1, <3>2, <3>3, <1>11 DEF Tick
  <2>4. kept' \in [Updates -> Nat] /\ age' \in [Updates -> Nat]
        BY <1>11 DEF Tick, Dec
  <2> QED
      BY <2>1, <2>2, <2>3, <2>4
<1>12. CASE Crash
      BY <1>12 DEF Crash
<1>13. CASE UNCHANGED vars
      BY <1>1, <1>13 DEF onceVars, vars, telegramVars, taskVars
<1> QED
    BY <1>2, <1>3, <1>4, <1>5, <1>6, <1>7, <1>8, <1>9, <1>10, <1>11, <1>12,
       <1>13
    DEF Next, Handle, FollowUp

\* However often an update is delivered, wherever the process dies and
\* whatever the sweep of old marks removes, the change of an update is
\* committed at most once (IdempotencyMiddleware, WriteLockMiddleware._settle).
THEOREM AppliesOnce == Spec => []ExactlyOnce
<1>1. Init => OnceInv
      BY OnceInit
<1>2. TypeOK /\ OnceInv /\ [Next]_vars => OnceInv'
      BY OnceStep
<1>3. OnceInv => ExactlyOnce
      BY DEF OnceInv
<1> QED
    BY <1>1, <1>2, <1>3, TypeCorrect, PTL DEF Spec

-----------------------------------------------------------------------------
(* Who is told that an update failed *)

\* An update applied by this process is past its commit for good: it is not
\* polled again, and nothing after the commit leads back before it.
AppliedIsOver ==
  \A u \in Updates :
    applied[u] > 0 /\ u \notin recovered
      => pc[u] \in {"flush", "settle", "done", "stale"}

LEMMA AppliedInit == Init => AppliedIsOver
BY DEF Init, AppliedIsOver

LEMMA AppliedStep == TypeOK /\ AppliedIsOver /\ [Next]_vars => AppliedIsOver'
<1> SUFFICES ASSUME TypeOK, AppliedIsOver, [Next]_vars PROVE AppliedIsOver'
    OBVIOUS
<1>t. /\ pc \in [Updates -> TaskPCs]
      /\ applied \in [Updates -> Nat]
      BY DEF TypeOK
<1> USE <1>t DEF AppliedIsOver
<1>1. CASE UNCHANGED <<pc, applied, recovered>>
      BY <1>1
<1>2. ASSUME NEW new \in SUBSET Updates, Poll(new) PROVE AppliedIsOver'
      BY <1>2 DEF Poll, dbVars, userVars
<1>3. ASSUME NEW u \in Updates, Acquire(u) \/ Handle(u) PROVE AppliedIsOver'
  <2>1. /\ pc[u] \in {"waiting", "handler", "commit"}
        /\ \A v \in Updates : v # u => pc'[v] = pc[v]
        /\ UNCHANGED <<applied, recovered>>
        BY <1>3 DEF Acquire, Handle, DropRedelivery, RunHandler, Fails, Close,
                    dbVars, userVars
  <2> QED
      BY <2>1
<1>4. ASSUME NEW u \in Updates, Commit(u) PROVE AppliedIsOver'
  <2>1. /\ pc' = [pc EXCEPT ![u] = AfterCall(queue[u])]
        /\ AfterCall(queue[u]) \in {"flush", "settle"}
        /\ \A v \in Updates : v # u => applied'[v] = applied[v]
        /\ recovered' = recovered
        BY <1>4 DEF Commit, AfterCall
  <2> QED
      BY <2>1
<1>5. ASSUME NEW u \in Updates, Flush(u) \/ FollowUp(u) PROVE AppliedIsOver'
  <2>1. /\ \E d \in {"flush", "settle", "done", "stale"} :
             pc' = [pc EXCEPT ![u] = d]
        /\ UNCHANGED <<applied, recovered>>
        BY <1>5 DEF Flush, FlushSends, FlushLoses, FlushStale, EditStale,
                    FlushEdits, Attempt, AfterCall, FollowUp, SkipSettle,
                    Settle, SettleFails, Ending, dbVars, userVars
  <2> QED
      BY <2>1
<1>6. CASE SenderWakes \/ Peek \/ SenderLocked \/ \E p \in pending : Send(p)
  <2>1. recovered' = recovered
        BY <1>6 DEF SenderWakes, Peek, SenderLocked, RecordOutcome, Purge,
                    ReadBatch, SenderDbFails, Send, GivesUp, Sends,
                    IsToldToWait, SendFails, BackoffOverflows, Turn, userVars
  <2> QED
      BY <1>1, <1>6, <2>1, SenderIsApart DEF taskVars
<1>7. CASE Tick \/ UNCHANGED vars
      BY <1>1, <1>7 DEF Tick, vars, taskVars, dbVars, userVars
<1>8. CASE Crash
      BY <1>8 DEF Crash, dbVars
<1> QED
    BY <1>2, <1>3, <1>4, <1>5, <1>6, <1>7, <1>8 DEF Next

\* on_error tells nobody that an update failed which this process has applied:
\* neither a failed call of the flush, nor a rejected message, nor a failed
\* follow-up leads there (Responder.flush, WriteLockMiddleware.__call__).
THEOREM ApologiesAreTrue == Spec => []NoFalseApology
<1>1. Init => AppliedIsOver
      BY AppliedInit
<1>2. TypeOK /\ AppliedIsOver /\ [Next]_vars => AppliedIsOver'
      BY AppliedStep
<1>3. TypeOK /\ AppliedIsOver => NoFalseApology
  <2> SUFFICES ASSUME TypeOK, AppliedIsOver, NEW u \in Updates,
                      pc[u] = "failed", u \notin recovered
               PROVE  applied[u] = 0
      BY DEF NoFalseApology
  <2>1. ~(applied[u] > 0) /\ applied[u] \in Nat
        BY DEF TypeOK, AppliedIsOver
  <2> QED
      BY <2>1
<1> QED
    BY <1>1, <1>2, <1>3, TypeCorrect, PTL DEF Spec

-----------------------------------------------------------------------------
(* No change, no promise to report one *)

OwedIsApplied == \A u \in owed : applied[u] > 0

RowsAreOwed == \A i \in Ids : outbox[i] # NoRow => outbox[i].of \in owed

ReadIsOwed == \A p \in pending : p.of \in owed

FlushedIsOwed ==
  \A u \in Updates : pc[u] = "flush" /\ HasSend(queue[u]) => u \in owed

\* A scope that is about to commit writes a row only with the change it
\* reports.
ReportsItsChange ==
  \A u \in Updates : pc[u] = "commit" =>
    /\ HasSend(queue[u]) => tx.change
    /\ tx.row # 0 => HasSend(queue[u])

ReportInv ==
  /\ LockOK
  /\ OwedIsApplied /\ RowsAreOwed /\ ReadIsOwed /\ told \subseteq owed
  /\ FlushedIsOwed /\ ReportsItsChange

LEMMA NothingToSend == ~HasSend(<<>>)
BY DEF HasSend

LEMMA SendsInOrder ==
  ASSUME NEW q \in Seq(Kinds), q # <<>>
  PROVE  /\ Head(q) = "send" => HasSend(q)
         /\ HasSend(Tail(q)) => HasSend(q)
<1>1. Head(q) = "send" => HasSend(q)
      BY DEF HasSend
<1>2. ASSUME NEW i \in DOMAIN Tail(q), Tail(q)[i] = "send" PROVE HasSend(q)
  <2>1. i + 1 \in DOMAIN q /\ q[i + 1] = "send"
        BY <1>2
  <2> QED
      BY <2>1 DEF HasSend
<1> QED
    BY <1>1, <1>2 DEF HasSend

LEMMA ReportInit == Init => ReportInv
BY ConstantAssumption
DEF Init, ReportInv, LockOK, OwedIsApplied, RowsAreOwed, ReadIsOwed,
    FlushedIsOwed, ReportsItsChange

LEMMA ReportStep == TypeOK /\ ReportInv /\ [Next]_vars => ReportInv'
<1> SUFFICES ASSUME TypeOK, ReportInv, [Next]_vars PROVE ReportInv'
    OBVIOUS
<1>t. /\ pc \in [Updates -> TaskPCs]
      /\ queue \in [Updates -> Seq(Kinds)]
      /\ lock \in Updates \union {Free}
      /\ tx \in [change : BOOLEAN, mark : BOOLEAN, row : Ids \union {0}]
      /\ applied \in [Updates -> Nat]
      /\ outbox \in [Ids -> Row \union {NoRow}]
      /\ owed \subseteq Updates
      BY DEF TypeOK
<1> USE <1>t, ConstantAssumption
    DEF ReportInv, LockOK, OwedIsApplied, RowsAreOwed, ReadIsOwed,
        FlushedIsOwed, ReportsItsChange
<1>1. ASSUME NEW new \in SUBSET Updates, Poll(new) PROVE ReportInv'
      BY <1>1 DEF Poll, dbVars, senderVars, userVars, HasSend
<1>2. ASSUME NEW u \in Updates, Acquire(u) PROVE ReportInv'
      BY <1>2 DEF Acquire, dbVars, senderVars, userVars
<1>3. ASSUME NEW u \in Updates, DropRedelivery(u) PROVE ReportInv'
  <2>1. /\ pc[u] = "handler" /\ pc' = [pc EXCEPT ![u] = "commit"]
        /\ queue'[u] = <<>> /\ \A v \in Updates \ {u} : queue'[v] = queue[v]
        /\ tx' = NoTx
        /\ UNCHANGED <<lock, applied, outbox, pending, owed, told>>
        BY <1>3 DEF DropRedelivery, Close, dbVars, senderVars, userVars
  <2> QED
      BY <2>1, NothingToSend DEF NoTx
<1>4. ASSUME NEW u \in Updates, RunHandler(u) PROVE ReportInv'
  <2>1. PICK q \in Replies, id \in Ids \union {0} :
          /\ Persists(q, id)
          /\ Close(u, q, [change |-> TRUE, mark |-> TRUE, row |-> id])
        BY <1>4 DEF RunHandler
  <2>2. /\ pc[u] = "handler" /\ pc' = [pc EXCEPT ![u] = "commit"]
        /\ queue'[u] = q /\ \A v \in Updates \ {u} : queue'[v] = queue[v]
        /\ tx'.change /\ tx'.row = id
        /\ UNCHANGED <<lock, applied, outbox, pending, owed, told>>
        BY <2>1 DEF Close, dbVars, senderVars, userVars
  <2>3. id # 0 => HasSend(q)
        BY <2>1 DEF Persists
  <2> QED
      BY <2>2, <2>3
<1>5. ASSUME NEW u \in Updates, Fails(u) PROVE ReportInv'
      BY <1>5 DEF Fails, dbVars, senderVars, userVars
<1>6. ASSUME NEW u \in Updates, Commit(u) PROVE ReportInv'
  <2>1. /\ pc[u] = "commit"
        /\ AfterCall(queue[u]) \in {"settle", "flush"}
        /\ pc' = [pc EXCEPT ![u] = AfterCall(queue[u])]
        /\ UNCHANGED <<queue, pending, told>>
        /\ lock' = Free
        BY <1>6 DEF Commit, AfterCall, senderVars
  <2>2. owed \subseteq owed' /\ OwedIsApplied'
        BY <1>6 DEF Commit
  <2>3. HasSend(queue[u]) => u \in owed'
        BY <1>6 DEF Commit
  <2>4. RowsAreOwed'
    <3> SUFFICES ASSUME NEW i \in Ids, outbox'[i] # NoRow
                 PROVE  outbox'[i].of \in owed'
        OBVIOUS
    <3>1. CASE i = tx.row
      <4>1. HasSend(queue[u])
            BY <2>1, <3>1 DEF Ids
      <4>2. outbox'[i].of = u
            BY <1>6, <3>1 DEF Commit
      <4> QED
          BY <2>3, <4>1, <4>2
    <3>2. CASE i # tx.row
          BY <1>6, <2>2, <3>2 DEF Commit
    <3> QED
        BY <3>1, <3>2
  <2> QED
      BY <2>1, <2>2, <2>3, <2>4
<1>7. ASSUME NEW u \in Updates, Flush(u) PROVE ReportInv'
  <2>1. PICK kind \in Kinds : Attempt(u, kind)
        BY <1>7 DEF Flush, FlushSends, FlushLoses, FlushStale, EditStale,
                    FlushEdits, Kinds
  <2>2. told' \in {told, told \union {u}}
        BY <1>7 DEF Flush, FlushSends, FlushLoses, FlushStale, EditStale,
                    FlushEdits
  <2>3. CASE u \notin owed
    <3>1. ~HasSend(queue[u]) /\ queue[u] \in Seq(Kinds) /\ queue[u] # <<>>
          BY <2>1, <2>3 DEF Attempt
    <3>2. Head(queue[u]) # "send" /\ ~HasSend(Tail(queue[u]))
          BY <3>1, SendsInOrder
    <3>3. told' = told
          BY <1>7, <3>2 DEF Flush, FlushSends, FlushLoses, FlushStale,
                            EditStale, FlushEdits, Attempt
    <3> QED
        BY <2>1, <3>2, <3>3 DEF Attempt, AfterCall, dbVars, senderVars
  <2>4. CASE u \in owed
        BY <2>1, <2>2, <2>4 DEF Attempt, AfterCall, dbVars, senderVars
  <2> QED
      BY <2>3, <2>4
<1>8. ASSUME NEW u \in Updates, FollowUp(u) PROVE ReportInv'
  <2>1. /\ pc[u] = "settle"
        /\ \E d \in Endings : pc' = [pc EXCEPT ![u] = d]
        /\ \A i \in Ids : outbox'[i] \in {outbox[i], NoRow}
        /\ UNCHANGED <<queue, lock, tx, applied, pending, owed, told>>
        BY <1>8 DEF FollowUp, SkipSettle, Settle, SettleFails, Ending, Endings,
                    dbVars, senderVars, userVars
  <2> QED
      BY <2>1 DEF Endings
<1>9. CASE SenderWakes \/ Peek \/ SenderLocked
  <2>1. UNCHANGED <<pc, queue, lock, tx, applied, owed, told>>
        BY <1>9, SenderIsApart
        DEF SenderWakes, Peek, SenderLocked, RecordOutcome, Purge, ReadBatch,
            SenderDbFails, taskVars, userVars
  <2>2. ASSUME NEW i \in Ids
        PROVE  \/ outbox'[i] \in {outbox[i], NoRow}
               \/ /\ outbox[i] # NoRow
                  /\ outbox'[i].of = outbox[i].of
    <3>1. CASE RecordOutcome
          BY <3>1 DEF RecordOutcome, OutcomeApplied
    <3>2. CASE Purge
          BY <3>2 DEF Purge
    <3>3. CASE SenderWakes \/ Peek \/ ReadBatch \/ SenderDbFails
          BY <3>3 DEF SenderWakes, Peek, ReadBatch, SenderDbFails, dbVars
    <3> QED
        BY <1>9, <3>1, <3>2, <3>3 DEF SenderLocked
  <2>3. \A p \in pending' : p \in pending \/ \E i \in Ids :
          outbox[i] # NoRow /\ p.of = outbox[i].of
    <3>1. CASE ReadBatch
      <4>1. Batch \subseteq {i \in Ids : outbox[i] # NoRow}
            BY DEF Batch, Due
      <4>2. \A p \in pending' : \E i \in Batch : p.of = outbox[i].of
            BY <3>1 DEF ReadBatch
      <4> QED
          BY <4>1, <4>2
    <3>2. CASE SenderWakes \/ Peek \/ RecordOutcome \/ Purge \/ SenderDbFails
          BY <3>2 DEF SenderWakes, Peek, RecordOutcome, Purge, SenderDbFails
    <3> QED
        BY <1>9, <3>1, <3>2 DEF SenderLocked
  <2>4. RowsAreOwed'
        BY <2>1, <2>2
  <2> QED
      BY <2>1, <2>3, <2>4
<1>10. ASSUME NEW p \in pending, Send(p) PROVE ReportInv'
  <2>1. UNCHANGED <<pc, queue, lock, tx, applied, owed>>
        BY <1>10, SenderIsApart DEF taskVars
  <2>2. /\ pending' \subseteq pending
        /\ told' \in {told, told \union {p.of}}
        /\ outbox' = outbox
        BY <1>10 DEF Send, GivesUp, Sends, IsToldToWait, SendFails,
                     BackoffOverflows, Turn, dbVars
  <2>3. p.of \in owed
        BY <1>10
  <2>4. told' \subseteq owed' /\ ReadIsOwed'
        BY <2>1, <2>2, <2>3
  <2>5. RowsAreOwed'
        BY <2>1, <2>2
  <2> QED
      BY <2>1, <2>4, <2>5
<1>11. CASE Tick
      BY <1>11 DEF Tick, Dec, Row, taskVars, userVars
<1>12. CASE Crash
      BY <1>12 DEF Crash, dbVars, userVars
<1>13. CASE UNCHANGED vars
      BY <1>13 DEF vars, telegramVars, taskVars, dbVars, senderVars, userVars
<1> QED
    BY <1>1, <1>2, <1>3, <1>4, <1>5, <1>6, <1>7, <1>8, <1>9, <1>10, <1>11,
       <1>12, <1>13
    DEF Next, Handle

\* A user is told of a change, and a report is queued, only if the change is
\* committed, however long flushes take, whatever fails, and although the ids
\* of deleted outbox rows are used again (ResponderMiddleware).
THEOREM ReportsOnlyChanges == Spec => []NoReplyWithoutChange
<1>1. Init => ReportInv
      BY ReportInit
<1>2. TypeOK /\ ReportInv /\ [Next]_vars => ReportInv'
      BY ReportStep
<1>3. TypeOK /\ ReportInv => NoReplyWithoutChange
      BY DEF TypeOK, ReportInv, NoReplyWithoutChange, RowOf, OwedIsApplied,
             RowsAreOwed
<1> QED
    BY <1>1, <1>2, <1>3, TypeCorrect, PTL DEF Spec

-----------------------------------------------------------------------------
(* What is known to be sent leaves the outbox *)

\* No step but a commit makes a row, or makes a row another update's.
LEMMA RowsStay ==
  ASSUME TypeOK, [Next]_vars, \A u \in Updates : ~Commit(u),
         NEW i \in Ids, outbox'[i] # NoRow
  PROVE  outbox[i] # NoRow /\ outbox'[i].of = outbox[i].of
<1>1. CASE outbox' = outbox
      BY <1>1
<1>2. CASE RecordOutcome
      BY <1>2 DEF RecordOutcome, OutcomeApplied
<1>3. CASE Purge
      BY <1>3 DEF Purge
<1>4. ASSUME NEW u \in Updates, FollowUp(u)
      PROVE  outbox[i] # NoRow /\ outbox'[i] = outbox[i]
      BY <1>4 DEF FollowUp, SkipSettle, Settle, SettleFails, dbVars
<1>5. CASE Tick
      BY <1>5 DEF Tick
<1>6. outbox' = outbox \/ RecordOutcome \/ Purge \/ Tick
        \/ \E u \in Updates : FollowUp(u)
  <2>1. ASSUME NEW u \in Updates, Acquire(u) \/ Handle(u) \/ Flush(u)
        PROVE  outbox' = outbox
        BY <2>1 DEF Acquire, Handle, DropRedelivery, RunHandler, Fails, Close,
                    Flush, FlushSends, FlushLoses, FlushStale, EditStale,
                    FlushEdits, Attempt, dbVars
  <2>2. ASSUME NEW p \in pending, Send(p) PROVE outbox' = outbox
        BY <2>2 DEF Send, GivesUp, Sends, IsToldToWait, SendFails,
                    BackoffOverflows, Turn, dbVars
  <2>3. ASSUME \/ SenderWakes \/ Peek \/ ReadBatch \/ SenderDbFails \/ Crash
               \/ UNCHANGED vars \/ \E new \in SUBSET Updates : Poll(new)
        PROVE  outbox' = outbox
        BY <2>3 DEF SenderWakes, Peek, ReadBatch, SenderDbFails, Crash, Poll,
                    vars, dbVars
  <2> QED
      BY <2>1, <2>2, <2>3 DEF Next, SenderLocked
<1> QED
    BY <1>1, <1>2, <1>3, <1>4, <1>5, <1>6

\* The commit of a change finds no row, no promise and no age of its update.
LEMMA CommitIsFirst ==
  ASSUME TypeOK, OnceInv, ReportInv, NEW u \in Updates, Commit(u), tx.change
  PROVE  /\ applied[u] = 0 /\ u \notin owed
         /\ \A i \in Ids : outbox[i] # NoRow => outbox[i].of # u
<1>1. applied[u] = 0
      BY DEF OnceInv, CommitsOnce, Commit
<1> QED
    BY <1>1 DEF ReportInv, OwedIsApplied, RowsAreOwed

StruckIsSent ==
  \A u \in Updates : struck[u] => pc[u] \in {"flush", "settle", "done", "stale"}

ClosedRow == \A u \in Updates : pc[u] = "commit" => rowid[u] = tx.row

\* An update that is going to send its report, or has: whatever the reuse of
\* ids does, a row of it can only be the one its task was given the id of.
Reporting(u) == struck[u] \/ (pc[u] = "flush" /\ HasSend(queue[u]))

OwnRow ==
  \A u \in Updates : Reporting(u) =>
    \A i \in Ids : outbox[i] # NoRow /\ outbox[i].of = u => i = rowid[u]

StruckInv == StruckIsSent /\ ClosedRow /\ OwnRow /\ SentIsStruckOff

LEMMA StruckInit == Init => StruckInv
BY DEF Init, StruckInv, StruckIsSent, ClosedRow, Reporting, OwnRow,
       SentIsStruckOff, Endings

\* A step that neither commits nor knows more, and ends no task.
LEMMA StruckStays ==
  ASSUME TypeOK, StruckInv, [Next]_vars, \A u \in Updates : ~Commit(u),
         \A u \in Updates :
           Reporting(u)' => Reporting(u) /\ rowid'[u] = rowid[u],
         \A u \in Updates : pc'[u] \in Endings /\ struck'[u] =>
           pc[u] \in Endings /\ struck[u],
         dbFaults > 0 => dbFaults' > 0
  PROVE  OwnRow' /\ SentIsStruckOff'
<1>1. \A i \in Ids : outbox'[i] # NoRow =>
        outbox[i] # NoRow /\ outbox'[i].of = outbox[i].of
      BY RowsStay
<1>2. OwnRow'
      BY <1>1 DEF StruckInv, OwnRow
<1>3. \A u \in Updates : RowOf(u)' => RowOf(u)
      BY <1>1 DEF RowOf
<1>4. SentIsStruckOff'
      BY <1>3 DEF StruckInv, SentIsStruckOff
<1> QED
    BY <1>2, <1>4

LEMMA StruckStep ==
  TypeOK /\ OnceInv /\ ReportInv /\ StruckInv /\ [Next]_vars => StruckInv'
<1> SUFFICES ASSUME TypeOK, OnceInv, ReportInv, StruckInv, [Next]_vars
             PROVE  StruckInv'
    OBVIOUS
<1>t. /\ pc \in [Updates -> TaskPCs]
      /\ queue \in [Updates -> Seq(Kinds)]
      /\ rowid \in [Updates -> Ids \union {0}]
      /\ struck \in [Updates -> BOOLEAN]
      /\ lock \in Updates \union {Free}
      /\ tx.row \in Ids \union {0} /\ tx.change \in BOOLEAN
      /\ dbFaults \in Nat
      BY DEF TypeOK
<1>i. StruckIsSent /\ ClosedRow
      BY DEF StruckInv
<1>1. ASSUME NEW u \in Updates, Acquire(u) \/ Handle(u) PROVE StruckInv'
  <2>1. /\ pc[u] \in {"waiting", "handler", "commit"} /\ ~struck[u]
        /\ pc'[u] \in {"handler", "commit", "failed"}
        /\ \A v \in Updates : v # u =>
             pc'[v] = pc[v] /\ queue'[v] = queue[v] /\ rowid'[v] = rowid[v]
        /\ UNCHANGED <<struck, outbox, dbFaults>>
        BY <1>t, <1>i, <1>1
        DEF StruckIsSent, Acquire, Handle, DropRedelivery, RunHandler, Fails,
            Close, dbVars
  <2>2. StruckIsSent'
        BY <1>i, <2>1 DEF StruckIsSent
  <2>3. ClosedRow'
    <3>1. \A v \in Updates : v # u => pc[v] # "commit"
      <4>1. CASE Acquire(u)
            BY <4>1, ConstantAssumption DEF Acquire, OnceInv, LockOK
      <4>2. CASE Handle(u)
            BY <4>2 DEF Handle, DropRedelivery, RunHandler, Fails, Close,
                        OnceInv, LockOK
      <4> QED
          BY <1>1, <4>1, <4>2
    <3>2. pc'[u] = "commit" => rowid'[u] = tx'.row
          BY <1>t, <1>1
          DEF Acquire, Handle, DropRedelivery, RunHandler, Fails, Close
    <3> QED
        BY <2>1, <3>1, <3>2 DEF ClosedRow
  <2>4. OwnRow'
        BY <2>1 DEF StruckInv, OwnRow, Reporting
  <2>5. SentIsStruckOff'
        BY <2>1 DEF StruckInv, SentIsStruckOff, RowOf
  <2> QED
      BY <2>2, <2>3, <2>4, <2>5 DEF StruckInv
<1>2. ASSUME NEW u \in Updates, Commit(u) PROVE StruckInv'
  <2>1. /\ pc[u] = "commit" /\ ~struck[u] /\ rowid[u] = tx.row
        /\ pc' = [pc EXCEPT ![u] = AfterCall(queue[u])]
        /\ AfterCall(queue[u]) \in {"flush", "settle"}
        /\ UNCHANGED <<queue, rowid, struck, dbFaults>>
        BY <1>i, <1>2 DEF StruckIsSent, ClosedRow, Commit, AfterCall
  <2>2. ASSUME NEW i \in Ids, NEW v \in Updates, outbox'[i] # NoRow,
               outbox'[i].of = v
        PROVE  (outbox[i] # NoRow /\ outbox[i].of = v) \/ (v = u /\ i = tx.row)
        BY <1>2, <2>2 DEF Commit
  <2>3. StruckIsSent' /\ ClosedRow'
    <3>1. \A v \in Updates : v # u => pc[v] # "commit"
          BY <2>1 DEF OnceInv, LockOK
    <3> QED
        BY <1>t, <1>i, <2>1, <3>1 DEF StruckIsSent, ClosedRow
  <2>4. OwnRow'
    <3> SUFFICES ASSUME NEW v \in Updates, Reporting(v)', NEW i \in Ids,
                        outbox'[i] # NoRow, outbox'[i].of = v
                 PROVE  i = rowid[v]
        BY <2>1 DEF OwnRow
    <3>1. CASE v = u
      <4>1. HasSend(queue[u]) /\ tx.change
            BY <2>1, <3>1 DEF Reporting, ReportInv, ReportsItsChange
      <4>2. \A j \in Ids : outbox[j] # NoRow => outbox[j].of # u
            BY <1>2, <4>1, CommitIsFirst
      <4> QED
          BY <2>1, <2>2, <3>1, <4>2
    <3>2. CASE v # u
      <4>1. Reporting(v)
            BY <1>t, <2>1, <3>2 DEF Reporting
      <4>2. outbox[i] # NoRow /\ outbox[i].of = v
            BY <2>2, <3>2
      <4> QED
          BY <4>1, <4>2 DEF StruckInv, OwnRow
    <3> QED
        BY <3>1, <3>2
  <2>5. SentIsStruckOff'
    <3> SUFFICES ASSUME NEW v \in Updates, pc'[v] \in Endings, struck'[v],
                        RowOf(v)'
                 PROVE  dbFaults' > 0
        BY DEF SentIsStruckOff
    <3>1. v # u /\ pc[v] \in Endings /\ struck[v]
          BY <1>t, <2>1 DEF Endings
    <3>2. RowOf(v)
          BY <2>2, <3>1 DEF RowOf
    <3> QED
        BY <2>1, <3>1, <3>2 DEF StruckInv, SentIsStruckOff
  <2> QED
      BY <2>3, <2>4, <2>5 DEF StruckInv
<1>3. ASSUME NEW u \in Updates, Flush(u) PROVE StruckInv'
  <2>1. PICK kind \in Kinds : Attempt(u, kind)
        BY <1>3 DEF Flush, FlushSends, FlushLoses, FlushStale, EditStale,
                    FlushEdits, Kinds
  <2>2. /\ pc[u] = "flush" /\ queue[u] # <<>>
        /\ \E d \in {"flush", "settle"} : pc' = [pc EXCEPT ![u] = d]
        /\ queue'[u] = Tail(queue[u])
        /\ \A v \in Updates : v # u => queue'[v] = queue[v]
        /\ UNCHANGED <<rowid, tx, dbFaults>>
        BY <1>t, <2>1 DEF Attempt, AfterCall
  <2>3. /\ struck'[u] => struck[u] \/ HasSend(queue[u])
        /\ \A v \in Updates : v # u => struck'[v] = struck[v]
    <3>1. Head(queue[u]) = "send" => HasSend(queue[u])
          BY <1>t, <2>2, SendsInOrder
    <3> QED
        BY <1>t, <1>3, <3>1
        DEF Flush, FlushSends, FlushLoses, FlushStale, EditStale, FlushEdits,
            Attempt
  <2>4. \A v \in Updates : Reporting(v)' => Reporting(v)
    <3>1. HasSend(Tail(queue[u])) => HasSend(queue[u])
          BY <1>t, <2>2, SendsInOrder
    <3>2. Reporting(u)' => Reporting(u)
          BY <2>2, <2>3, <3>1 DEF Reporting, HasSend
    <3>3. \A v \in Updates : v # u => Reporting(v)' = Reporting(v)
          BY <1>t, <2>2, <2>3 DEF Reporting, HasSend
    <3> QED
        BY <3>2, <3>3
  <2>5. StruckIsSent' /\ ClosedRow'
        BY <1>t, <1>i, <2>2, <2>3 DEF StruckIsSent, ClosedRow
  <2>6. \A v \in Updates : pc'[v] \in Endings /\ struck'[v] =>
          pc[v] \in Endings /\ struck[v]
        BY <1>t, <2>2, <2>3 DEF Endings
  <2>7. \A v \in Updates : ~Commit(v)
        BY <1>t, <2>2 DEF Commit, OnceInv, LockOK
  <2> QED
      BY <2>2, <2>4, <2>5, <2>6, <2>7, StruckStays DEF StruckInv
<1>4. ASSUME NEW u \in Updates, FollowUp(u) PROVE StruckInv'
  <2>1. /\ pc[u] = "settle"
        /\ \E d \in {"done", "stale"} : pc' = [pc EXCEPT ![u] = d]
        /\ UNCHANGED <<queue, rowid, struck, tx>>
        /\ dbFaults > 0 => dbFaults' > 0
        /\ \A i \in Ids : outbox'[i] \in {outbox[i], NoRow}
        BY <1>t, <1>4 DEF FollowUp, SkipSettle, Settle, SettleFails, Ending,
                          dbVars
  <2>2. StruckIsSent' /\ ClosedRow'
        BY <1>t, <1>i, <2>1 DEF StruckIsSent, ClosedRow
  <2>3. OwnRow'
    <3>1. \A v \in Updates : Reporting(v)' => Reporting(v)
          BY <1>t, <2>1 DEF Reporting, HasSend
    <3>2. \A i \in Ids : outbox'[i] # NoRow => outbox'[i] = outbox[i]
          BY <2>1
    <3> QED
        BY <2>1, <3>1, <3>2 DEF StruckInv, OwnRow
  <2>4. SentIsStruckOff'
    <3> SUFFICES ASSUME NEW v \in Updates, pc'[v] \in Endings, struck[v],
                        RowOf(v)'
                 PROVE  dbFaults' > 0
        BY <2>1 DEF SentIsStruckOff
    <3>1. RowOf(v)
          BY <2>1 DEF RowOf
    <3>2. CASE v # u
          BY <1>t, <2>1, <3>1, <3>2 DEF StruckInv, SentIsStruckOff
    <3>3. CASE v = u /\ Settle(u)
      <4>1. PICK i \in Ids : outbox'[i] # NoRow /\ outbox'[i].of = u
            BY <3>3 DEF RowOf
      <4>2. i # rowid[u] /\ outbox[i] # NoRow /\ outbox[i].of = u
            BY <3>3, <4>1 DEF Settle
      <4> QED
          BY <3>3, <4>2 DEF StruckInv, OwnRow, Reporting
    <3>4. CASE v = u /\ ~Settle(u)
          BY <1>t, <1>4, <3>4
          DEF FollowUp, SkipSettle, SettleNeeded, SettleFails
    <3> QED
        BY <3>2, <3>3, <3>4
  <2> QED
      BY <2>2, <2>3, <2>4 DEF StruckInv
<1>5. ASSUME NEW new \in SUBSET Updates, Poll(new) PROVE StruckInv'
  <2>1. /\ \A u \in Updates :
             pc'[u] = pc[u] \/ (pc[u] = "none" /\ pc'[u] = "waiting")
        /\ UNCHANGED <<queue, rowid, struck, tx, outbox, dbFaults>>
        BY <1>t, <1>5 DEF Poll, dbVars
  <2> QED
      BY <2>1
      DEF StruckInv, StruckIsSent, ClosedRow, Reporting, HasSend, OwnRow,
          SentIsStruckOff, RowOf, Endings
<1>6. ASSUME UNCHANGED taskVars, dbFaults > 0 => dbFaults' > 0
      PROVE  StruckInv'
  <2>1. CASE \A u \in Updates : ~Commit(u)
    <3>1. StruckIsSent' /\ ClosedRow'
          BY <1>i, <1>6 DEF StruckIsSent, ClosedRow, taskVars
    <3> QED
        BY <1>6, <2>1, <3>1, StruckStays
        DEF StruckInv, Reporting, HasSend, taskVars
  <2>2. CASE \E u \in Updates : Commit(u)
        BY <1>2, <2>2
  <2> QED
      BY <2>1, <2>2
<1>7. CASE \/ SenderWakes \/ Peek \/ SenderLocked \/ \E p \in pending : Send(p)
           \/ Tick \/ UNCHANGED vars
  <2>1. UNCHANGED taskVars
        BY <1>7, SenderIsApart DEF Tick, vars, taskVars
  <2>2. dbFaults' = dbFaults \/ dbFaults' = dbFaults + 1
        BY <1>7 DEF SenderWakes, Peek, SenderLocked, RecordOutcome, Purge,
                    ReadBatch, SenderDbFails, Send, GivesUp, Sends,
                    IsToldToWait, SendFails, BackoffOverflows, Turn, Tick, vars
  <2> QED
      BY <1>t, <1>6, <2>1, <2>2
<1>8. CASE Crash
      BY <1>8 DEF Crash, StruckInv, StruckIsSent, ClosedRow, Reporting, OwnRow,
                  SentIsStruckOff, Endings
<1> QED
    BY <1>1, <1>2, <1>3, <1>4, <1>5, <1>7, <1>8 DEF Next

\* A report that the flush saw delivered or rejected is out of the outbox when
\* its task has ended, whatever other message of the update was rejected
\* before or after it, unless a transaction failed; however long the flush
\* took, whatever the sender did meanwhile and whoever got the row's id
\* (Responder.flush, the finally block of WriteLockMiddleware.__call__).
THEOREM SentLeavesTheOutbox == Spec => []SentIsStruckOff
<1>1. Init => OnceInv /\ ReportInv /\ StruckInv
      BY OnceInit, ReportInit, StruckInit
<1>2. TypeOK /\ OnceInv /\ ReportInv /\ StruckInv /\ [Next]_vars
        => OnceInv' /\ ReportInv' /\ StruckInv'
      BY OnceStep, ReportStep, StruckStep
<1>3. StruckInv => SentIsStruckOff
      BY DEF StruckInv
<1> QED
    BY <1>1, <1>2, <1>3, TypeCorrect, PTL DEF Spec

-----------------------------------------------------------------------------
(* The fate of the rows of a batch *)

BatchOver == spc # "sending" => pending = {}

LEMMA BatchStep == BatchOver /\ [Next]_vars => BatchOver'
<1> SUFFICES ASSUME BatchOver, [Next]_vars PROVE BatchOver'
    OBVIOUS
<1> USE DEF BatchOver
<1>1. CASE UNCHANGED <<spc, pending>>
      BY <1>1
<1>2. ASSUME NEW p \in pending, Send(p) PROVE BatchOver'
      BY <1>2 DEF Send, GivesUp, Sends, IsToldToWait, SendFails,
                  BackoffOverflows, Turn
<1>3. CASE SenderWakes \/ Peek \/ SenderLocked
      BY <1>3 DEF SenderWakes, Peek, SenderLocked, RecordOutcome, Purge,
                  ReadBatch, SenderDbFails
<1>4. CASE Crash
      BY <1>4 DEF Crash
<1>5. ASSUME NEW u \in Updates,
             Acquire(u) \/ Handle(u) \/ Commit(u) \/ Flush(u) \/ FollowUp(u)
      PROVE  UNCHANGED <<spc, pending>>
      BY <1>5 DEF Acquire, Handle, DropRedelivery, RunHandler, Fails, Close,
                  Commit, Flush, FlushSends, FlushLoses, FlushStale, EditStale,
                  FlushEdits, Attempt, FollowUp, SkipSettle, Settle,
                  SettleFails, senderVars
<1>6. ASSUME Tick \/ UNCHANGED vars \/ \E new \in SUBSET Updates : Poll(new)
      PROVE  UNCHANGED <<spc, pending>>
      BY <1>6 DEF Tick, Poll, vars, senderVars
<1> QED
    BY <1>1, <1>2, <1>3, <1>4, <1>5, <1>6 DEF Next

\* The row whose turn it is goes into the outcome, which loses nothing.
LEMMA TurnHasFate ==
  ASSUME TypeOK, NEW p \in pending, Send(p), ~BackoffOverflows(p)
  PROVE  /\ \A o \in pending : o \in pending' \/ o.id \in Outcome'
         /\ Outcome \subseteq Outcome'
<1>1. pending' = pending \ {p}
      BY DEF Send, GivesUp, Sends, IsToldToWait, SendFails, Turn
<1>2. CASE GivesUp(p) \/ Sends(p)
      BY <1>1, <1>2 DEF GivesUp, Sends, Outcome
<1>3. CASE IsToldToWait(p) \/ SendFails(p)
  <2>1. PICK w \in 0..BACKOFF_MAX :
          retry' = retry \union {[id |-> p.id, wait |-> w,
                                 attempts |-> OneMore(p.attempts)]}
        BY <1>3 DEF IsToldToWait, SendFails
  <2>2. done' = done
        BY <1>3 DEF IsToldToWait, SendFails
  <2>3. [id |-> p.id, wait |-> w, attempts |-> OneMore(p.attempts)].id = p.id
        OBVIOUS
  <2> QED
      BY <1>1, <2>1, <2>2, <2>3 DEF Outcome
<1> QED
    BY <1>2, <1>3 DEF Send

\* Every row of a batch gets a fate in the outcome, and the outcome goes only
\* with the transaction that writes it, for batches of any size, unless a
\* backoff overflows (deliver_batch, run_sender).
THEOREM EveryRowHasAFate == Spec => FateOfEveryRow
<1> DEFINE Fate ==
      crashes' = crashes =>
        \/ /\ \A p \in pending : p \in pending' \/ p.id \in Outcome'
           /\ Outcome \subseteq Outcome' \/ outbox' = OutcomeApplied
        \/ \E p \in pending : BackoffOverflows(p)
<1>1. TypeOK /\ BatchOver /\ [Next]_vars => [Fate]_vars
  <2> SUFFICES ASSUME TypeOK, BatchOver, Next PROVE Fate
      OBVIOUS
  <2>1. CASE UNCHANGED <<pending, done, retry>>
        BY <2>1 DEF Outcome
  <2>2. ASSUME NEW p \in pending, Send(p) PROVE Fate
        BY <2>2, TurnHasFate
  <2>3. CASE RecordOutcome
        BY <2>3 DEF RecordOutcome
  <2>4. CASE ReadBatch
        BY <2>4 DEF ReadBatch, BatchOver, Outcome
  <2>5. CASE Tick
    <3>1. pending' = pending /\ done' = done
          BY <2>5 DEF Tick
    <3>2. ASSUME NEW r \in retry PROVE \E o \in retry' : o.id = r.id
      <4>1. [id |-> r.id, wait |-> Dec(r.wait), attempts |-> r.attempts]
              \in retry'
            BY <2>5 DEF Tick
      <4> QED
          BY <4>1
    <3> QED
        BY <3>1, <3>2 DEF Outcome
  <2>6. CASE Crash
        BY <2>6 DEF Crash, TypeOK
  <2>7. ASSUME NEW u \in Updates,
               Acquire(u) \/ Handle(u) \/ Commit(u) \/ Flush(u) \/ FollowUp(u)
        PROVE  UNCHANGED <<pending, done, retry>>
        BY <2>7 DEF Acquire, Handle, DropRedelivery, RunHandler, Fails, Close,
                    Commit, Flush, FlushSends, FlushLoses, FlushStale,
                    EditStale, FlushEdits, Attempt, FollowUp, SkipSettle,
                    Settle, SettleFails, senderVars
  <2>8. ASSUME \/ SenderWakes \/ Peek \/ Purge \/ SenderDbFails
               \/ \E new \in SUBSET Updates : Poll(new)
        PROVE  UNCHANGED <<pending, done, retry>>
        BY <2>8 DEF SenderWakes, Peek, Purge, SenderDbFails, Poll, senderVars
  <2> QED
      BY <2>1, <2>2, <2>3, <2>4, <2>5, <2>6, <2>7, <2>8 DEF Next, SenderLocked
<1>2. Init => BatchOver
      BY DEF Init, BatchOver
<1>3. BatchOver /\ [Next]_vars => BatchOver'
      BY BatchStep
<1> QED
    BY <1>1, <1>2, <1>3, TypeCorrect, PTL DEF Spec, FateOfEveryRow

=============================================================================
