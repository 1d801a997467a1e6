------------------------------ MODULE Delivery ------------------------------
(***************************************************************************)
(* How an update of Telegram becomes one committed change and one reply.   *)
(*                                                                         *)
(* Modelled together, because the guarantees only exist between them: the  *)
(* redelivery of updates by Telegram, WriteLockMiddleware, the unit of     *)
(* work of di.py, ResponderMiddleware and Responder.persist/flush,         *)
(* IdempotencyMiddleware, the follow-up transaction _settle, and the       *)
(* background sender of runtime/outbox.py.  Whom AuthMiddleware refuses is *)
(* the business of module Access, PinnedStatus has the pinned message.     *)
(*                                                                         *)
(* A section of code that holds the lock and performs one transaction is   *)
(* one step here, except for the handling of an update, whose steps are    *)
(* separate: the sender reads the table without the lock (_has_due) and a  *)
(* crash may fall between any two of them.                                 *)
(*                                                                         *)
(* Time advances in ticks of at least OUTBOX_GRACE.  Instants are kept as  *)
(* what the code compares: ticks left until next_attempt_at, ticks since   *)
(* created_at.                                                             *)
(***************************************************************************)
EXTENDS Integers, Sequences, FiniteSets

CONSTANTS
  Updates,       \* the updates Telegram will ever deliver
  Replies,       \* the queues of calls a handler may record in its Responder
  MaxId,         \* bound on the ids of outbox rows
  NoRow, Free,   \* an unused row id; nobody holds the lock
  GRACE, BACKOFF_BASE, BACKOFF_MAX, TTL, MARK_TTL, PRUNE_EVERY, PURGE_EVERY,
  BATCH,
  RETENTION,     \* how long Telegram keeps an unconfirmed update
  MAX_ATTEMPTS,  \* the first value of attempts whose backoff is no timedelta
  FLUSH,         \* how many ticks a flush may take
  MaxCrashes, MaxDbFaults  \* bounds on crashes and on failed transactions

Ids == 1..MaxId

\* The calls a handler records.  A "send" is durable, an "edit" stands for
\* every call that is not (edits, callback answers, the pinned status).
Kinds == {"send", "edit"}

\* No handler of the bot records more than one durable call.
HasSend(q) == \E i \in DOMAIN q : q[i] = "send"

Row == [of : Updates, wait : Nat, attempts : Nat]

ASSUME ConstantAssumption ==
  /\ Replies \subseteq Seq(Kinds)
  /\ \A q \in Replies : \A i, j \in DOMAIN q :
       q[i] = "send" /\ q[j] = "send" => i = j
  /\ MaxId \in Nat
  /\ NoRow \notin Row
  /\ Free \notin Updates
  /\ GRACE \in Nat \ {0}
  /\ BACKOFF_BASE \in Nat \ {0} /\ BACKOFF_MAX \in Nat \ {0}
  /\ TTL \in Nat /\ MARK_TTL \in Nat /\ TTL <= MARK_TTL
  /\ PRUNE_EVERY \in Nat \ {0} /\ PURGE_EVERY \in Nat \ {0}
  /\ BATCH \in Nat \ {0}
  /\ RETENTION \in Nat \ {0} /\ RETENTION <= MARK_TTL
  /\ MAX_ATTEMPTS \in Nat
  /\ FLUSH \in Nat
  /\ MaxCrashes \in Nat /\ MaxDbFaults \in Nat

VARIABLES
  kept,      \* kept[u]: ticks Telegram still keeps u to deliver again, 0 = never
  pc,        \* pc[u]: where the task handling u in this process stands
  queue,     \* queue[u]: calls recorded by the handler and not attempted yet
  rowid,     \* rowid[u]: Call.outbox_id of u's durable call, 0 = none
  struck,    \* struck[u]: the flush has put that id in Responder.delivered()
  stale,     \* stale[u]: a StaleMessageError the flush holds back, then raises
  lock,      \* the update whose scope holds WriteLockMiddleware.lock
  tx,        \* uncommitted writes of the scope that holds the lock
  applied,   \* applied[u]: how often the change of u was committed
  marks,     \* processed_updates
  outbox,    \* outbox[i]: the row with id i
  age,       \* age[u]: ticks since u was applied (created_at), up to AgeCap
  pruneIn,   \* ticks until the next sweep of processed_updates is due
  spc,       \* where run_sender stands
  pending,   \* rows of the batch that are still to be sent, as they were read
  done, retry, \* the _Outcome not written yet; the carry when spc = "idle"
  purgeIn,   \* ticks until the next purge_expired is due
  owed,      \* updates whose committed change was to be reported
  told,      \* updates whose user has received the reply
  hopeless,  \* updates whose reply Telegram or the code rejects for good
  recovered, \* updates that were applied before the process last died
  crashes, dbFaults

telegramVars == <<kept>>
taskVars == <<pc, queue, rowid, struck, stale, lock, tx>>
dbVars == <<applied, marks, outbox, age>>
senderVars == <<spc, pending, done, retry, purgeIn>>
userVars == <<owed, told, hopeless, recovered>>
vars == <<telegramVars, taskVars, dbVars, pruneIn, senderVars, userVars,
          crashes, dbFaults>>

\* A task ends without an error, in on_error after its scope was rolled back,
\* or in on_error with ERR_STALE_MESSAGE after its change was committed.
Endings == {"done", "failed", "stale"}
TaskPCs == {"none", "waiting", "handler", "commit", "flush", "settle"}
             \union Endings
SenderPCs == {"idle", "record", "purge", "peek", "read", "sending", "apply"}

NoTx == [change |-> FALSE, mark |-> FALSE, row |-> 0]

AgeCap == MARK_TTL + 1

Pending == [id : Ids, of : Updates, attempts : Nat]
Retry == [id : Ids, wait : Nat, attempts : Nat]

TypeOK ==
  /\ kept \in [Updates -> 0..RETENTION]
  /\ pc \in [Updates -> TaskPCs]
  /\ queue \in [Updates -> Seq(Kinds)]
  /\ rowid \in [Updates -> Ids \union {0}]
  /\ struck \in [Updates -> BOOLEAN]
  /\ stale \in [Updates -> BOOLEAN]
  /\ lock \in Updates \union {Free}
  /\ tx \in [change : BOOLEAN, mark : BOOLEAN, row : Ids \union {0}]
  /\ applied \in [Updates -> Nat]
  /\ marks \subseteq Updates
  /\ outbox \in [Ids -> Row \union {NoRow}]
  /\ age \in [Updates -> 0..AgeCap]
  /\ pruneIn \in 0..PRUNE_EVERY
  /\ spc \in SenderPCs
  /\ pending \subseteq Pending
  /\ done \subseteq Ids
  /\ retry \subseteq Retry
  /\ purgeIn \in 0..PURGE_EVERY
  /\ owed \subseteq Updates
  /\ told \subseteq Updates
  /\ hopeless \subseteq Updates
  /\ recovered \subseteq Updates
  /\ crashes \in 0..MaxCrashes
  /\ dbFaults \in 0..MaxDbFaults

Init ==
  /\ kept = [u \in Updates |-> RETENTION]
  /\ pc = [u \in Updates |-> "none"]
  /\ queue = [u \in Updates |-> <<>>]
  /\ rowid = [u \in Updates |-> 0]
  /\ struck = [u \in Updates |-> FALSE]
  /\ stale = [u \in Updates |-> FALSE]
  /\ lock = Free
  /\ tx = NoTx
  /\ applied = [u \in Updates |-> 0]
  /\ marks = {}
  /\ outbox = [i \in Ids |-> NoRow]
  /\ age = [u \in Updates |-> 0]
  /\ pruneIn = 0
  /\ spc = "idle"
  /\ pending = {}
  /\ done = {}
  /\ retry = {}
  /\ purgeIn = 0
  /\ owed = {} /\ told = {} /\ hopeless = {} /\ recovered = {}
  /\ crashes = 0 /\ dbFaults = 0

-----------------------------------------------------------------------------
(* Telegram and the poller *)

\* One getUpdates round trip: it confirms everything received before, and
\* Telegram answers with some of what it still keeps.  aiogram starts a task
\* per update, and every task first waits for the lock.
Poll(new) ==
  /\ new \subseteq {u \in Updates : pc[u] = "none" /\ kept[u] > 0}
  /\ kept' = [u \in Updates |-> IF pc[u] = "none" THEN kept[u] ELSE 0]
  /\ pc' = [u \in Updates |-> IF u \in new THEN "waiting" ELSE pc[u]]
  /\ UNCHANGED <<queue, rowid, struck, stale, lock, tx, dbVars, pruneIn,
                 senderVars, userVars, crashes, dbFaults>>

(* The update's scope, under the lock *)

Acquire(u) ==
  /\ pc[u] = "waiting"
  /\ lock = Free
  /\ lock' = u
  /\ tx' = NoTx
  /\ pc' = [pc EXCEPT ![u] = "handler"]
  /\ UNCHANGED <<kept, queue, rowid, struck, stale, dbVars, pruneIn, senderVars,
                 userVars, crashes, dbFaults>>

AlreadyApplied(u) == u \in marks

\* The scope is over: what it wants to write is what its commit will write.
Close(u, q, writes) ==
  /\ pc[u] = "handler"
  /\ pc' = [pc EXCEPT ![u] = "commit"]
  /\ queue' = [queue EXCEPT ![u] = q]
  /\ rowid' = [rowid EXCEPT ![u] = writes.row]
  /\ tx' = writes
  /\ UNCHANGED <<kept, struck, stale, lock, dbVars, pruneIn, senderVars,
                 userVars, crashes, dbFaults>>

\* IdempotencyMiddleware finds the mark of an earlier delivery.
DropRedelivery(u) ==
  /\ AlreadyApplied(u)
  /\ Close(u, <<>>, NoTx)

\* SQLite's next rowid of a table without AUTOINCREMENT: one more than the
\* largest id in use, so that the id of a deleted row may come back.
UsedIds == {i \in Ids : outbox[i] # NoRow}

IsNextId(id) ==
  /\ id - 1 \in UsedIds \union {0}
  /\ \A i \in UsedIds : i < id

\* A durable call gets an outbox row in the same transaction (persist).
Persists(q, id) ==
  IF HasSend(q) THEN id \in Ids /\ IsNextId(id) ELSE id = 0

\* (Mutant: the update is not marked as processed.)
RunHandlerUnmarked(u) ==
  /\ ~AlreadyApplied(u)
  /\ \E q \in Replies, id \in Ids \union {0} :
       /\ Persists(q, id)
       /\ Close(u, q, [change |-> TRUE, mark |-> FALSE, row |-> id])

\* The handler runs and the update is marked as processed on the way out.
RunHandler(u) ==
  /\ ~AlreadyApplied(u)
  /\ \E q \in Replies, id \in Ids \union {0} :
       /\ Persists(q, id)
       /\ Close(u, q, [change |-> TRUE, mark |-> TRUE, row |-> id])

AfterCall(q) == IF q = <<>> THEN "settle" ELSE "flush"

\* (Mutant: what was recorded is sent although the scope was rolled back.)
FailsButReplies(u) ==
  /\ pc[u] \in {"handler", "commit"}
  /\ pc' = [pc EXCEPT ![u] = AfterCall(queue[u])]
  /\ lock' = Free
  /\ tx' = NoTx
  /\ UNCHANGED <<kept, queue, rowid, struck, stale, dbVars, pruneIn, senderVars,
                 userVars, crashes, dbFaults>>

\* (Mutant: the lock is not released on an exception.)
FailsHoldingLock(u) ==
  /\ pc[u] \in {"handler", "commit"}
  /\ pc' = [pc EXCEPT ![u] = "failed"]
  /\ queue' = [queue EXCEPT ![u] = <<>>]
  /\ rowid' = [rowid EXCEPT ![u] = 0]
  /\ tx' = NoTx
  /\ UNCHANGED <<kept, struck, stale, lock, dbVars, pruneIn, senderVars,
                 userVars, crashes, dbFaults>>

\* Something raises before the commit, or the commit itself does: the scope
\* is rolled back, the lock released, and on_error tells the user.
Fails(u) ==
  /\ pc[u] \in {"handler", "commit"}
  /\ pc' = [pc EXCEPT ![u] = "failed"]
  /\ queue' = [queue EXCEPT ![u] = <<>>]
  /\ rowid' = [rowid EXCEPT ![u] = 0]
  /\ lock' = Free
  /\ tx' = NoTx
  /\ UNCHANGED <<kept, struck, stale, dbVars, pruneIn, senderVars, userVars,
                 crashes, dbFaults>>

\* (Mutants: no grace, and a grace of the wrong sign.)
NoGrace == 0

PastGrace == -GRACE

FirstAttempt == GRACE

Commit(u) ==
  /\ pc[u] = "commit"
  /\ applied' = [applied EXCEPT ![u] = IF tx.change THEN @ + 1 ELSE @]
  /\ age' = [age EXCEPT ![u] = IF tx.change THEN 0 ELSE @]
  /\ marks' = IF tx.mark THEN marks \union {u} ELSE marks
  /\ outbox' = [i \in Ids |->
       IF i = tx.row THEN [of |-> u, wait |-> FirstAttempt, attempts |-> 0]
       ELSE outbox[i]]
  /\ owed' = IF tx.change /\ HasSend(queue[u]) THEN owed \union {u} ELSE owed
  /\ lock' = Free
  /\ tx' = NoTx
  /\ pc' = [pc EXCEPT ![u] = AfterCall(queue[u])]
  /\ UNCHANGED <<kept, queue, rowid, struck, stale, pruneIn, senderVars, told,
                 hopeless, recovered, crashes, dbFaults>>

(* Delivery right after the commit, without the lock *)

\* Responder.flush makes the next call of its queue.
Attempt(u, kind) ==
  /\ pc[u] = "flush"
  /\ queue[u] # <<>>
  /\ Head(queue[u]) = kind
  /\ queue' = [queue EXCEPT ![u] = Tail(@)]
  /\ pc' = [pc EXCEPT ![u] = AfterCall(Tail(queue[u]))]
  /\ UNCHANGED <<kept, rowid, lock, tx, dbVars, pruneIn, senderVars, owed,
                 recovered, crashes, dbFaults>>

\* Sent, and known to be: the row may go.
FlushSends(u) ==
  /\ Attempt(u, "send")
  /\ struck' = [struck EXCEPT ![u] = TRUE]
  /\ told' = told \union {u}
  /\ UNCHANGED <<stale, hopeless>>

\* (Mutant: a failed call strikes its promise.)
FlushLosesAndStrikes(u) ==
  /\ Attempt(u, "send")
  /\ struck' = [struck EXCEPT ![u] = TRUE]
  /\ told' \in {told, told \union {u}}
  /\ UNCHANGED <<stale, hopeless>>

\* The call failed, or its answer was lost after the message had gone out: a
\* transient failure to the code, the row stays.
FlushLoses(u) ==
  /\ Attempt(u, "send")
  /\ told' \in {told, told \union {u}}
  /\ UNCHANGED <<struck, stale, hopeless>>

\* TelegramBadRequest: retrying cannot help, the promise is struck.  The
\* exception is held back until the rest of the queue has gone out.
FlushStale(u) ==
  /\ Attempt(u, "send")
  /\ struck' = [struck EXCEPT ![u] = TRUE]
  /\ stale' = [stale EXCEPT ![u] = TRUE]
  /\ hopeless' = hopeless \union {u}
  /\ UNCHANGED told

\* The same of an edit, except "message is not modified".
EditStale(u) ==
  /\ Attempt(u, "edit")
  /\ stale' = [stale EXCEPT ![u] = TRUE]
  /\ UNCHANGED <<struck, told, hopeless>>

\* An edit that went out, was lost on the network, or is one of those that may
\* fail quietly: the next call is made.
FlushEdits(u) ==
  /\ Attempt(u, "edit")
  /\ UNCHANGED <<struck, stale, told, hopeless>>

(* The follow-up transaction, and the exception of the flush behind it *)

\* What flush has raised goes on to on_error once the follow-up is over,
\* whether that succeeded or not: the bookkeeping is in its finally block.
Ending(u) == IF stale[u] THEN "stale" ELSE "done"

Prunes == pruneIn = 0

\* (Mutant: no finally, a stale message skips the follow-up.)
SettleNeededIfCalm(u) == ~stale[u] /\ (struck[u] \/ Prunes)

SettleNeeded(u) == struck[u] \/ Prunes

SkipSettle(u) ==
  /\ pc[u] = "settle"
  /\ ~SettleNeeded(u)
  /\ pc' = [pc EXCEPT ![u] = Ending(u)]
  /\ UNCHANGED <<kept, queue, rowid, struck, stale, lock, tx, dbVars, pruneIn,
                 senderVars, userVars, crashes, dbFaults>>

Prunable(u) == age[u] > MARK_TTL

\* Deletes the delivered row by its id and, when due, sweeps old marks.
Settle(u) ==
  /\ pc[u] = "settle"
  /\ SettleNeeded(u)
  /\ lock = Free
  /\ outbox' = [i \in Ids |->
       IF struck[u] /\ i = rowid[u] THEN NoRow ELSE outbox[i]]
  /\ marks' = IF Prunes THEN {m \in marks : ~Prunable(m)} ELSE marks
  /\ pruneIn' = IF Prunes THEN PRUNE_EVERY ELSE pruneIn
  /\ pc' = [pc EXCEPT ![u] = Ending(u)]
  /\ UNCHANGED <<kept, queue, rowid, struck, stale, lock, tx, applied, age,
                 senderVars, userVars, crashes, dbFaults>>

\* (Mutant: a failure of the follow-up reaches on_error.)
SettleFailsLoudly(u) ==
  /\ pc[u] = "settle"
  /\ SettleNeeded(u)
  /\ lock = Free
  /\ dbFaults < MaxDbFaults
  /\ dbFaults' = dbFaults + 1
  /\ pc' = [pc EXCEPT ![u] = "failed"]
  /\ UNCHANGED <<kept, queue, rowid, struck, stale, lock, tx, dbVars, pruneIn,
                 senderVars, userVars, crashes>>

\* A failure of the follow-up is logged and goes no further.
SettleFails(u) ==
  /\ pc[u] = "settle"
  /\ SettleNeeded(u)
  /\ lock = Free
  /\ dbFaults < MaxDbFaults
  /\ dbFaults' = dbFaults + 1
  /\ pc' = [pc EXCEPT ![u] = Ending(u)]
  /\ UNCHANGED <<kept, queue, rowid, struck, stale, lock, tx, dbVars, pruneIn,
                 senderVars, userVars, crashes>>

-----------------------------------------------------------------------------
(* The background sender *)

\* (Mutant: no row ever expires.)
NeverExpired(u) == FALSE

Expired(u) == age[u] > TTL

Carry == done # {} \/ retry # {}

AfterRecord == IF purgeIn = 0 THEN "purge" ELSE "peek"

\* One turn of the loop begins; an outcome not written yet comes first.
SenderWakes ==
  /\ spc = "idle"
  /\ spc' = IF Carry THEN "record" ELSE AfterRecord
  /\ UNCHANGED <<kept, taskVars, dbVars, pruneIn, pending, done, retry,
                 purgeIn, userVars, crashes, dbFaults>>

\* (Mutant: the rows to be tried again are deleted with the delivered ones.)
OutcomeDeletesAll ==
  [i \in Ids |-> IF i \in done \/ \E r \in retry : r.id = i THEN NoRow
                ELSE outbox[i]]

\* _apply_outcome: deletes and updates by id, whatever the id names by now.
OutcomeApplied ==
  [i \in Ids |->
     IF i \in done \/ outbox[i] = NoRow THEN
       IF i \in done THEN NoRow ELSE outbox[i]
     ELSE IF \E r \in retry : r.id = i THEN
       LET r == CHOOSE r \in retry : r.id = i
       IN  [of |-> outbox[i].of, wait |-> r.wait, attempts |-> r.attempts]
     ELSE outbox[i]]

RecordOutcome ==
  /\ spc \in {"record", "apply"}
  /\ lock = Free
  /\ outbox' = OutcomeApplied
  /\ done' = {} /\ retry' = {}
  /\ spc' = IF spc = "record" THEN AfterRecord ELSE "idle"
  /\ UNCHANGED <<kept, taskVars, applied, marks, age, pruneIn, pending,
                 purgeIn, userVars, crashes, dbFaults>>

Purge ==
  /\ spc = "purge"
  /\ lock = Free
  /\ outbox' = [i \in Ids |->
       IF outbox[i] # NoRow /\ Expired(outbox[i].of) THEN NoRow ELSE outbox[i]]
  /\ purgeIn' = PURGE_EVERY
  /\ spc' = "peek"
  /\ UNCHANGED <<kept, taskVars, applied, marks, age, pruneIn, pending, done,
                 retry, userVars, crashes, dbFaults>>

Due == {i \in Ids : outbox[i] # NoRow /\ outbox[i].wait = 0}

\* _has_due: a read of the committed table, without the lock.
Peek ==
  /\ spc = "peek"
  /\ spc' = IF Due = {} THEN "idle" ELSE "read"
  /\ UNCHANGED <<kept, taskVars, dbVars, pruneIn, pending, done, retry,
                 purgeIn, userVars, crashes, dbFaults>>

\* The BATCH due rows with the smallest ids.
Batch == {i \in Due : Cardinality({j \in Due : j < i}) < BATCH}

ReadBatch ==
  /\ spc = "read"
  /\ lock = Free
  /\ pending' = {[id |-> i, of |-> outbox[i].of,
                  attempts |-> outbox[i].attempts] : i \in Batch}
  /\ spc' = IF Batch = {} THEN "idle" ELSE "sending"
  /\ UNCHANGED <<kept, taskVars, dbVars, pruneIn, done, retry, purgeIn,
                 userVars, crashes, dbFaults>>

\* (Mutant: the outcome does not survive the failure of its transaction.)
SenderDbForgets ==
  /\ spc \in {"record", "purge", "read", "apply"}
  /\ lock = Free
  /\ dbFaults < MaxDbFaults
  /\ dbFaults' = dbFaults + 1
  /\ spc' = "idle"
  /\ done' = {} /\ retry' = {}
  /\ UNCHANGED <<kept, taskVars, dbVars, pruneIn, pending, purgeIn, userVars,
                 crashes>>

\* A transaction of the sender fails: the loop logs it and sleeps.
SenderDbFails ==
  /\ spc \in {"record", "purge", "read", "apply"}
  /\ lock = Free
  /\ dbFaults < MaxDbFaults
  /\ dbFaults' = dbFaults + 1
  /\ spc' = "idle"
  /\ UNCHANGED <<kept, taskVars, dbVars, pruneIn, pending, done, retry,
                 purgeIn, userVars, crashes>>

\* The row of the batch whose turn it is, and the end of its turn.
Turn(p) ==
  /\ spc = "sending"
  /\ p \in pending
  /\ \A o \in pending : p.id <= o.id
  /\ pending' = pending \ {p}
  /\ spc' = IF pending' = {} THEN "apply" ELSE "sending"
  /\ UNCHANGED <<kept, taskVars, dbVars, pruneIn, purgeIn, owed, recovered,
                 crashes, dbFaults>>

\* Delivered or hopeless: deleted either way.
GivesUp(p) ==
  /\ Turn(p)
  /\ \/ Expired(p.of) /\ UNCHANGED hopeless
     \/ ~Expired(p.of) /\ crashes > 0 /\ hopeless' = hopeless \union {p.of}
  /\ done' = done \union {p.id}
  /\ UNCHANGED <<retry, told>>

Sends(p) ==
  /\ Turn(p)
  /\ ~Expired(p.of)
  /\ told' = told \union {p.of}
  /\ done' = done \union {p.id}
  /\ UNCHANGED <<retry, hopeless>>

\* Attempts are counted as far as anything tells them apart.
OneMore(attempts) == IF attempts < MAX_ATTEMPTS THEN attempts + 1 ELSE attempts

\* TelegramRetryAfter names its own delay, of seconds or of ticks.
IsToldToWait(p) ==
  /\ Turn(p)
  /\ ~Expired(p.of)
  /\ \E w \in 0..BACKOFF_MAX :
       retry' = retry \union {[id |-> p.id, wait |-> w,
                               attempts |-> OneMore(p.attempts)]}
  /\ UNCHANGED <<done, told, hopeless>>

\* min(BACKOFF_BASE * 2 ** (attempts + 1), BACKOFF_MAX)
IsBackoff(w, attempts) ==
  LET delay == BACKOFF_BASE * 2 ^ (attempts + 1)
  IN  w = IF delay < BACKOFF_MAX THEN delay ELSE BACKOFF_MAX

\* Any other exception; the message may have gone out all the same.
SendFails(p) ==
  /\ Turn(p)
  /\ ~Expired(p.of)
  /\ p.attempts < MAX_ATTEMPTS
  /\ told' \in {told, told \union {p.of}}
  /\ \E w \in 1..BACKOFF_MAX :
       /\ IsBackoff(w, p.attempts)
       /\ retry' = retry \union {[id |-> p.id, wait |-> w,
                                  attempts |-> OneMore(p.attempts)]}
  /\ UNCHANGED <<done, hopeless>>

\* The backoff is too large for a timedelta: OverflowError leaves
\* deliver_batch, and the outcome of the batch is lost with it.
BackoffOverflows(p) ==
  /\ spc = "sending"
  /\ p \in pending
  /\ \A o \in pending : p.id <= o.id
  /\ ~Expired(p.of)
  /\ p.attempts >= MAX_ATTEMPTS
  /\ told' \in {told, told \union {p.of}}
  /\ pending' = {} /\ done' = {} /\ retry' = {}
  /\ spc' = "idle"
  /\ UNCHANGED <<kept, taskVars, dbVars, pruneIn, purgeIn, owed, hopeless,
                 recovered, crashes, dbFaults>>

-----------------------------------------------------------------------------
(* The clock and the process *)

Dec(n) == IF n = 0 THEN 0 ELSE n - 1

\* A section under the lock takes milliseconds, a tick a minute or more: no
\* tick falls into one, nor into the wait for one.  A flush and a batch of the
\* sender are made of network calls and may take longer: FLUSH bounds how long
\* after its commit an update may still be in its flush.
Quiet ==
  /\ lock = Free
  /\ \A u \in Updates : pc[u] \notin {"waiting", "settle"}
  /\ spc \in {"idle", "sending"}
  /\ \A u \in Updates : pc[u] = "flush" => age[u] < FLUSH

Tick ==
  /\ Quiet
  /\ outbox' = [i \in Ids |->
       IF outbox[i] = NoRow THEN NoRow
       ELSE [of |-> outbox[i].of, wait |-> Dec(outbox[i].wait),
             attempts |-> outbox[i].attempts]]
  /\ retry' = {[id |-> r.id, wait |-> Dec(r.wait), attempts |-> r.attempts] :
                 r \in retry}
  /\ age' = [u \in Updates |->
       IF applied[u] > 0 /\ age[u] < AgeCap THEN age[u] + 1 ELSE age[u]]
  /\ kept' = [u \in Updates |->
       IF pc[u] # "none" \/ applied[u] > 0 \/ kept[u] < RETENTION
       THEN Dec(kept[u]) ELSE kept[u]]
  /\ pruneIn' = Dec(pruneIn)
  /\ purgeIn' = Dec(purgeIn)
  /\ UNCHANGED <<taskVars, applied, marks, spc, pending, done, userVars,
                 crashes, dbFaults>>

\* The process dies and is started again: tasks, the lock, the Responder, an
\* uncommitted transaction and the sender's carry are gone; the tables stay.
Crash ==
  /\ crashes < MaxCrashes
  /\ crashes' = crashes + 1
  /\ pc' = [u \in Updates |-> "none"]
  /\ queue' = [u \in Updates |-> <<>>]
  /\ rowid' = [u \in Updates |-> 0]
  /\ struck' = [u \in Updates |-> FALSE]
  /\ stale' = [u \in Updates |-> FALSE]
  /\ lock' = Free
  /\ tx' = NoTx
  /\ pruneIn' = 0
  /\ spc' = "idle"
  /\ pending' = {} /\ done' = {} /\ retry' = {}
  /\ purgeIn' = 0
  /\ recovered' = {u \in Updates : applied[u] > 0}
  /\ UNCHANGED <<kept, dbVars, owed, told, hopeless, dbFaults>>

-----------------------------------------------------------------------------

Handle(u) == DropRedelivery(u) \/ RunHandler(u) \/ Fails(u)

Flush(u) ==
  \/ FlushSends(u) \/ FlushLoses(u) \/ FlushStale(u)
  \/ EditStale(u) \/ FlushEdits(u)

FollowUp(u) == SkipSettle(u) \/ Settle(u) \/ SettleFails(u)

Send(p) ==
  \/ GivesUp(p) \/ Sends(p) \/ IsToldToWait(p) \/ SendFails(p)
  \/ BackoffOverflows(p)

SenderLocked == RecordOutcome \/ Purge \/ ReadBatch \/ SenderDbFails

Next ==
  \/ \E new \in SUBSET Updates : Poll(new)
  \/ \E u \in Updates :
       Acquire(u) \/ Handle(u) \/ Commit(u) \/ Flush(u) \/ FollowUp(u)
  \/ SenderWakes \/ Peek \/ SenderLocked
  \/ \E p \in pending : Send(p)
  \/ Tick
  \/ Crash

Spec == Init /\ [][Next]_vars

\* A task that runs goes on: calls end, one way or another, by aiogram's
\* request timeout, and asyncio.Lock serves its waiters first come first
\* served.  Weak fairness says that much, because there are finitely many
\* updates to hold the lock.  Time passes (SF: no tick falls into a section
\* under the lock).  Nothing is assumed of Telegram's answers, of polling, or
\* of crashes.
Fairness ==
  /\ \A u \in Updates :
       WF_vars(Acquire(u) \/ Handle(u) \/ Commit(u) \/ Flush(u) \/ FollowUp(u))
  /\ WF_vars(SenderWakes \/ Peek \/ SenderLocked \/ \E p \in pending : Send(p))
  /\ SF_vars(Tick)

FairSpec == Spec /\ Fairness

-----------------------------------------------------------------------------
(* Properties *)

\* However often Telegram delivers an update and wherever the process dies,
\* its change is committed at most once: the mark commits with the change and
\* outlives Telegram's interest in the update (IdempotencyMiddleware,
\* _MARK_TTL).
ExactlyOnce == \A u \in Updates : applied[u] <= 1

RowOf(u) == \E i \in Ids : outbox[i] # NoRow /\ outbox[i].of = u

\* At-least-once (OutboxMessage, outbox.py): a committed change whose report is
\* due has reached the user, or is still queued in the database, or was given
\* up for a reason the code names: rejected for good, or older than TTL.
PromiseKept ==
  \A u \in owed : u \in told \/ RowOf(u) \/ u \in hopeless \/ Expired(u)

\* No change, no promise to report one (ResponderMiddleware): what is queued
\* or received reports a change that is committed, across rollbacks, crashes
\* and the reuse of row ids.
NoReplyWithoutChange ==
  \A u \in Updates : u \in told \/ RowOf(u) => applied[u] > 0 /\ u \in owed

KnownSent ==
  done \union
  {rowid[u] : u \in {v \in Updates :
                      struck[v] /\ pc[v] \in {"flush", "settle"}}}

\* The sender only sees what the normal path is no longer going to delete
\* (Responder.persist), and records a batch before it sends another
\* (_Outcome): a row the process knows to be sent is never sent again.
NoBlindResend == \A p \in pending : p.id \notin KnownSent

\* Every row of a batch gets a fate, and no fate is forgotten while the process
\* lives: a row leaves the batch into the outcome, and the outcome is dropped
\* only by the transaction that writes it (_Outcome, deliver_batch, run_sender).
\* A backoff that overflows is the only way out.
Outcome == done \union {r.id : r \in retry}

FateOfEveryRow ==
  [][crashes' = crashes =>
       \/ /\ \A p \in pending : p \in pending' \/ p.id \in Outcome'
          /\ Outcome \subseteq Outcome' \/ outbox' = OutcomeApplied
       \/ \E p \in pending : BackoffOverflows(p)]_vars

\* Whoever is told by on_error that an update failed may enter it again, so
\* nobody is told so of a change that is committed: not because a call of the
\* flush or the follow-up failed (Responder.flush, WriteLockMiddleware), nor by
\* a second delivery to the same process.  A message Telegram rejects is told as
\* too old.  Only an update applied before the process died may be delivered
\* again and have its scope fail.
NoFalseApology ==
  \A u \in Updates : pc[u] = "failed" => applied[u] = 0 \/ u \in recovered

\* A message Telegram rejects does not cost the bookkeeping of the others
\* (WriteLockMiddleware's finally): however its task has ended, a report that
\* the flush saw delivered or rejected is not in the outbox any more, to be
\* sent again by the sender, unless a transaction failed.
SentIsStruckOff ==
  \A u \in Updates :
    pc[u] \in Endings /\ struck[u] => ~RowOf(u) \/ dbFaults > 0

\* Whatever Telegram answers, the queue drains: every row is delivered or
\* dropped (purge_expired, deliver_batch).
QueueDrains == \A u \in Updates : RowOf(u) ~> ~RowOf(u)

\* An update the bot received is carried to its end unless the process dies:
\* nobody keeps the lock, and no call or transaction holds its task up.
UpdateEnds ==
  \A u \in Updates :
    pc[u] = "waiting" ~> pc[u] \in Endings \union {"none"}

\* The detailed system implements ReplyPromise: what each update's report is,
\* in terms of the tables and of what reached the user.
ReportOf(u) ==
  IF u \in told THEN "told"
  ELSE IF u \notin owed THEN "none"
  ELSE IF RowOf(u) /\ u \notin hopeless THEN "owed"
  ELSE "dropped"

Promise == INSTANCE ReplyPromise WITH
  promise <- [u \in Updates |-> ReportOf(u)],
  late <- hopeless \union {u \in Updates : applied[u] > 0 /\ Expired(u)}

\* At-least-once as a refinement: a report is owed by the very commit of its
\* change and leaves that state only towards the user, or by being given up
\* when it is late (OutboxMessage, runtime/outbox.py).
KeepsPromises == Promise!Spec

\* The same, and no report stays owed for ever, however Telegram answers.
ResolvesPromises == Promise!FairSpec
=============================================================================
