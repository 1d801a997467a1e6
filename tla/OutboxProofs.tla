---------------------------- MODULE OutboxProofs ----------------------------
(***************************************************************************)
(* Proofs that the outbox keeps its promise, that is, that Delivery        *)
(* implements ReplyPromise.  They hold as long as a flush ends before its  *)
(* row is due (run delivery_rowid shows what happens otherwise), for any   *)
(* updates, calls, retry constants, crashes and failing transactions.      *)
(***************************************************************************)
EXTENDS DeliveryProofs

\* The flush of an update is over before the sender may take up its row, and
\* before the row expires: FLUSH is the time limit of a flush, GRACE is
\* OUTBOX_GRACE (one minute), TTL is a day.
PromptFlush == FLUSH < GRACE /\ FLUSH <= TTL

-----------------------------------------------------------------------------
(* The invariant *)

\* The row the handler was given an id for is not there yet, and nobody else
\* can have taken the id before the commit.
ScopeRow ==
  \A u \in Updates : pc[u] = "commit" =>
    /\ rowid[u] = tx.row
    /\ tx.row # 0 => tx.change /\ outbox[tx.row] = NoRow
    /\ HasSend(queue[u]) => tx.row # 0

InFlight(u) == pc[u] \in {"flush", "settle"} /\ rowid[u] # 0

\* An update in its flush has its row, too young for the sender and for the
\* sweep of expired rows.
FlightRow ==
  \A u \in Updates : InFlight(u) =>
    /\ outbox[rowid[u]] # NoRow
    /\ outbox[rowid[u]].of = u
    /\ outbox[rowid[u]].wait + age[u] >= GRACE
    /\ age[u] <= FLUSH

StruckIsOver == \A u \in Updates : struck[u] => u \in told \union hopeless

HopelessIsOwed == hopeless \subseteq owed

Settled(u) == u \in told \/ u \in hopeless \/ Expired(u)

IsDueRow(i) == outbox[i] # NoRow /\ outbox[i].wait = 0

\* What the sender holds by id is still the row it read.
SenderRows ==
  /\ \A p \in pending : /\ IsDueRow(p.id)
                        /\ outbox[p.id].of = p.of
                        /\ outbox[p.id].attempts = p.attempts
  /\ \A i \in done : IsDueRow(i) /\ Settled(outbox[i].of)
  /\ \A r \in retry : IsDueRow(r.id)

\* One batch at a time, and its outcome is written before the next is read.
SenderOrder ==
  /\ spc # "sending" => pending = {}
  /\ spc \in {"purge", "peek", "read"} => done = {} /\ retry = {}
  /\ \A p \in pending : p.id \notin done

PromiseInv ==
  /\ PromptFlush
  /\ ScopeRow /\ FlightRow /\ StruckIsOver /\ HopelessIsOwed
  /\ SenderRows /\ SenderOrder
  /\ PromiseKept

LEMMA PromiseInit == PromptFlush /\ Init => PromiseInv
BY ConstantAssumption
DEF Init, PromiseInv, ScopeRow, InFlight, FlightRow, StruckIsOver,
    HopelessIsOwed, SenderRows, IsDueRow, SenderOrder,
    PromiseKept, NoTx

-----------------------------------------------------------------------------
(* Being late is for good *)

LEMMA StaysExpired ==
  ASSUME TypeOK, Tick, NEW u \in Updates, Expired(u)
  PROVE  Expired(u)'
<1>1. age[u] \in 0..AgeCap /\ age'[u] \in {age[u], age[u] + 1}
      BY DEF TypeOK, Tick
<1> QED
    BY <1>1, ConstantAssumption DEF Expired, AgeCap

-----------------------------------------------------------------------------
(* Steps of the invariant: the handling of an update *)

\* What a step inside a scope cannot disturb.
LEMMA ScopeStep ==
  ASSUME PromiseInv,
         UNCHANGED <<outbox, age, struck, spc, pending, done, retry, owed,
                     told, hopeless>>,
         ScopeRow',
         \A u \in Updates : InFlight(u)' => InFlight(u) /\ rowid'[u] = rowid[u]
  PROVE  PromiseInv'
BY DEF PromiseInv, FlightRow, StruckIsOver, HopelessIsOwed, SenderRows,
       IsDueRow, Settled, SenderOrder, Expired, PromiseKept,
       RowOf, PromptFlush

LEMMA HandleStep ==
  ASSUME TypeOK, OnceInv, PromiseInv, NEW u \in Updates, Acquire(u) \/ Handle(u)
  PROVE  PromiseInv'
<1>t. /\ pc \in [Updates -> TaskPCs]
      /\ queue \in [Updates -> Seq(Kinds)]
      /\ rowid \in [Updates -> Ids \union {0}]
      /\ lock \in Updates \union {Free}
      /\ LockOK
      BY DEF TypeOK, OnceInv
<1>1. UNCHANGED <<outbox, age, struck, spc, pending, done, retry, owed, told,
                  hopeless>>
      BY DEF Acquire, Handle, DropRedelivery, RunHandler, Fails, Close, dbVars,
             senderVars, userVars
<1>2. \A v \in Updates : InFlight(v)' => InFlight(v) /\ rowid'[v] = rowid[v]
      BY <1>t DEF InFlight, Acquire, Handle, DropRedelivery, RunHandler, Fails,
                  Close
<1>3. ScopeRow'
  <2>1. CASE Acquire(u)
        BY <1>t, <2>1, ConstantAssumption
        DEF PromiseInv, ScopeRow, Acquire, LockOK, dbVars
  <2>2. CASE DropRedelivery(u)
        BY <1>t, <2>2, NothingToSend
        DEF PromiseInv, ScopeRow, DropRedelivery, Close, LockOK, NoTx, dbVars
  <2>3. CASE RunHandler(u)
    <3>1. PICK q \in Replies, id \in Ids \union {0} :
            /\ Persists(q, id)
            /\ Close(u, q, [change |-> TRUE, mark |-> TRUE, row |-> id])
          BY <2>3 DEF RunHandler
    <3>2. id # 0 => outbox[id] = NoRow
      <4>1. id # 0 => IsNextId(id)
            BY <3>1 DEF Persists
      <4>2. id \in UsedIds => id < id
            BY <4>1 DEF IsNextId, UsedIds, Ids
      <4> QED
          BY <4>2 DEF UsedIds, Ids
    <3>3. HasSend(q) => id # 0
          BY <3>1 DEF Persists, Ids
    <3> QED
        BY <1>t, <3>1, <3>2, <3>3 DEF ScopeRow, Close, LockOK, dbVars
  <2>4. CASE Fails(u)
        BY <1>t, <2>4, ConstantAssumption
        DEF PromiseInv, ScopeRow, Fails, LockOK, dbVars
  <2> QED
      BY <2>1, <2>2, <2>3, <2>4 DEF Handle
<1> QED
    BY <1>1, <1>2, <1>3, ScopeStep

LEMMA CommitStep ==
  ASSUME TypeOK, OnceInv, ReportInv, PromiseInv, NEW u \in Updates, Commit(u)
  PROVE  PromiseInv'
<1>t. /\ pc \in [Updates -> TaskPCs]
      /\ rowid \in [Updates -> Ids \union {0}]
      /\ tx.change \in BOOLEAN /\ tx.row \in Ids \union {0}
      /\ outbox \in [Ids -> Row \union {NoRow}]
      /\ age \in [Updates -> 0..AgeCap]
      /\ applied \in [Updates -> Nat]
      /\ pending \subseteq Pending /\ done \subseteq Ids
      /\ retry \subseteq Retry
      /\ owed \subseteq Updates
      BY DEF TypeOK
<1>n. [of |-> u, wait |-> GRACE, attempts |-> 0] \in Row
      BY ConstantAssumption DEF Row
<1>1. /\ pc[u] = "commit" /\ rowid[u] = tx.row
      /\ tx.row # 0 => tx.change /\ outbox[tx.row] = NoRow
      /\ HasSend(queue[u]) => tx.row # 0
      BY DEF PromiseInv, ScopeRow, Commit
<1>2. /\ pc' = [pc EXCEPT ![u] = AfterCall(queue[u])]
      /\ AfterCall(queue[u]) \in {"flush", "settle"}
      /\ UNCHANGED <<queue, rowid, struck, spc, pending, done, retry, told,
                     hopeless>>
      BY DEF Commit, AfterCall, senderVars
<1>3. \A i \in Ids : outbox'[i] =
        IF i = tx.row THEN [of |-> u, wait |-> GRACE, attempts |-> 0]
        ELSE outbox[i]
      BY DEF Commit, FirstAttempt
<1>4. owed \subseteq owed' /\ owed' \subseteq owed \union {u}
      /\ (owed' # owed => tx.change /\ HasSend(queue[u]))
      BY DEF Commit
<1>5. tx.change => /\ age'[u] = 0 /\ applied[u] = 0 /\ u \notin owed
                   /\ \A i \in Ids : outbox[i] # NoRow => outbox[i].of # u
      BY <1>t, CommitIsFirst DEF Commit
<1>6. /\ age' \in [Updates -> 0..AgeCap]
      /\ \A v \in Updates : v # u \/ ~tx.change => age'[v] = age[v]
      BY <1>t, ConstantAssumption DEF Commit, AgeCap
<1>7. ASSUME NEW i \in Ids, outbox[i] # NoRow
      PROVE  /\ outbox'[i] = outbox[i]
             /\ outbox[i].of \in Updates
             /\ age'[outbox[i].of] = age[outbox[i].of]
  <2>1. outbox[i] \in Row
        BY <1>t, <1>7
  <2>2. outbox[i].of \in Updates
        BY <2>1 DEF Row
  <2>3. outbox'[i] = outbox[i]
        BY <1>t, <1>1, <1>3, <1>7 DEF Ids
  <2>4. tx.change => outbox[i].of # u
        BY <1>5, <1>7
  <2> QED
      BY <1>6, <2>2, <2>3, <2>4
<1>8. ScopeRow'
  <2>1. \A v \in Updates : v # u => pc[v] # "commit"
        BY <1>1 DEF OnceInv, LockOK
  <2> QED
      BY <1>t, <1>2, <2>1 DEF ScopeRow
<1>9. FlightRow'
  <2> SUFFICES ASSUME NEW v \in Updates, InFlight(v)'
               PROVE  /\ outbox'[rowid'[v]] # NoRow
                      /\ outbox'[rowid'[v]].of = v
                      /\ outbox'[rowid'[v]].wait + age'[v] >= GRACE
                      /\ age'[v] <= FLUSH
      BY DEF FlightRow
  <2>1. CASE v = u
    <3>1. rowid[u] # 0 /\ tx.change
          BY <1>1, <1>2, <2>1 DEF InFlight
    <3>2. outbox'[rowid[u]] = [of |-> u, wait |-> GRACE, attempts |-> 0]
          BY <1>t, <1>1, <1>3, <3>1
    <3>3. outbox'[rowid[u]] # NoRow
          BY <1>n, <3>2, ConstantAssumption
    <3> QED
        BY <1>2, <1>5, <2>1, <3>1, <3>2, <3>3, ConstantAssumption
  <2>2. CASE v # u
    <3>1. InFlight(v)
          BY <1>t, <1>2, <2>2 DEF InFlight
    <3>2. rowid[v] \in Ids
          BY <1>t, <3>1 DEF InFlight
    <3> QED
        BY <1>2, <1>6, <1>7, <2>2, <3>1, <3>2 DEF PromiseInv, FlightRow
  <2> QED
      BY <2>1, <2>2
<1>10. SenderRows'
  <2>1. ASSUME NEW i \in Ids, outbox[i] # NoRow, Settled(outbox[i].of)
        PROVE  Settled(outbox[i].of)'
        BY <1>2, <1>7, <2>1 DEF Settled, Expired
  <2> QED
      BY <1>t, <1>2, <1>7, <2>1
      DEF PromiseInv, SenderRows, IsDueRow, Pending, Retry
<1>12. PromiseKept'
  <2> SUFFICES ASSUME NEW v \in owed'
               PROVE  (v \in told \/ RowOf(v) \/ v \in hopeless \/ Expired(v))'
      BY DEF PromiseKept
  <2>1. CASE v \in owed
    <3>1. RowOf(v) => RowOf(v)'
          BY <1>7 DEF RowOf
    <3>2. age'[v] = age[v]
          BY <1>t, <1>5, <1>6, <2>1
    <3> QED
        BY <1>2, <2>1, <3>1, <3>2 DEF PromiseInv, PromiseKept, Expired
  <2>2. CASE v \notin owed
    <3>1. v = u /\ tx.row \in Ids
          BY <1>t, <1>1, <1>4, <2>2
    <3>2. outbox'[tx.row] # NoRow /\ outbox'[tx.row].of = u
          BY <1>n, <1>3, <3>1, ConstantAssumption
    <3> QED
        BY <3>1, <3>2 DEF RowOf
  <2> QED
      BY <2>1, <2>2
<1>13. StruckIsOver' /\ HopelessIsOwed' /\ SenderOrder' /\ PromptFlush'
      BY <1>2, <1>4
      DEF PromiseInv, StruckIsOver, HopelessIsOwed, SenderOrder, PromptFlush
<1> QED
    BY <1>8, <1>9, <1>10, <1>12, <1>13 DEF PromiseInv

\* A call is made, and something may be known of it now.
LEMMA FlushStep ==
  ASSUME TypeOK, ReportInv, PromiseInv, NEW u \in Updates, Flush(u)
  PROVE  PromiseInv'
<1>t. /\ pc \in [Updates -> TaskPCs]
      /\ queue \in [Updates -> Seq(Kinds)]
      /\ rowid \in [Updates -> Ids \union {0}]
      /\ struck \in [Updates -> BOOLEAN]
      BY DEF TypeOK
<1>1. PICK kind \in Kinds : Attempt(u, kind)
      BY DEF Flush, FlushSends, FlushLoses, FlushStale, EditStale, FlushEdits,
             Kinds
<1>2. /\ pc[u] = "flush"
      /\ \E d \in {"flush", "settle"} : pc' = [pc EXCEPT ![u] = d]
      /\ UNCHANGED <<rowid, tx, outbox, age, spc, pending, done, retry, owed>>
      /\ \A v \in Updates : v # u => queue'[v] = queue[v]
      BY <1>t, <1>1 DEF Attempt, AfterCall, dbVars, senderVars
<1>3. told \subseteq told' /\ hopeless \subseteq hopeless'
      BY DEF Flush, FlushSends, FlushLoses, FlushStale, EditStale, FlushEdits
<1>4. hopeless' # hopeless => u \in owed
  <2>1. FlushStale(u) \/ hopeless' = hopeless
        BY DEF Flush, FlushSends, FlushLoses, EditStale, FlushEdits
  <2>2. FlushStale(u) => HasSend(queue[u])
        BY <1>t, SendsInOrder DEF FlushStale, Attempt
  <2> QED
      BY <1>2, <2>1, <2>2 DEF ReportInv, FlushedIsOwed
<1>5. hopeless' \subseteq hopeless \union {u}
      BY DEF Flush, FlushSends, FlushLoses, FlushStale, EditStale, FlushEdits
<1>6. ScopeRow' /\ FlightRow'
      BY <1>t, <1>2 DEF PromiseInv, ScopeRow, FlightRow, InFlight
<1>7. StruckIsOver'
  <2>1. /\ \A v \in Updates : v # u => struck'[v] = struck[v]
        /\ struck'[u] => struck[u] \/ u \in told' \union hopeless'
        BY <1>t DEF Flush, FlushSends, FlushLoses, FlushStale, EditStale,
                    FlushEdits
  <2> QED
      BY <1>3, <2>1 DEF PromiseInv, StruckIsOver
<1>8. SenderRows' /\ SenderOrder'
      BY <1>2, <1>3
      DEF PromiseInv, SenderRows, IsDueRow, Settled, Expired, SenderOrder
<1>9. HopelessIsOwed' /\ PromiseKept' /\ PromptFlush'
      BY <1>2, <1>3, <1>4, <1>5
      DEF PromiseInv, HopelessIsOwed, PromiseKept, RowOf, Expired, PromptFlush
<1> QED
    BY <1>6, <1>7, <1>8, <1>9 DEF PromiseInv

\* The follow-up deletes the row of its own update, and nobody holds it.
LEMMA FollowUpStep ==
  ASSUME TypeOK, PromiseInv, NEW u \in Updates, FollowUp(u)
  PROVE  PromiseInv'
<1>t. /\ pc \in [Updates -> TaskPCs]
      /\ rowid \in [Updates -> Ids \union {0}]
      /\ struck \in [Updates -> BOOLEAN]
      /\ outbox \in [Ids -> Row \union {NoRow}]
      /\ age \in [Updates -> 0..AgeCap]
      /\ pending \subseteq Pending /\ done \subseteq Ids
      /\ retry \subseteq Retry
      /\ GRACE \in Nat /\ FLUSH \in Nat
      BY ConstantAssumption DEF TypeOK
<1>1. /\ pc[u] = "settle" /\ \E d \in Endings : pc' = [pc EXCEPT ![u] = d]
      /\ UNCHANGED <<queue, rowid, tx, age, spc, pending, done, retry, owed,
                     told, hopeless>>
      /\ \A v \in Updates : struck'[v] => struck[v]
      /\ \A i \in Ids : outbox'[i] # outbox[i] =>
           i = rowid[u] /\ struck[u] /\ outbox'[i] = NoRow
      BY <1>t DEF FollowUp, SkipSettle, Settle, SettleFails, Ending, Endings,
                  dbVars, senderVars, userVars
<1>2. ASSUME NEW i \in Ids, outbox'[i] # outbox[i]
      PROVE  /\ outbox'[i] = NoRow /\ outbox[i] # NoRow
             /\ outbox[i].of = u /\ outbox[i].wait # 0
             /\ u \in told \union hopeless
  <2>1. InFlight(u) /\ rowid[u] = i /\ struck[u]
        BY <1>1, <1>2 DEF InFlight, Ids
  <2>2. outbox[i] # NoRow /\ outbox[i].of = u /\ age[u] <= FLUSH
        /\ outbox[i].wait + age[u] >= GRACE
        BY <2>1 DEF PromiseInv, FlightRow
  <2>3. outbox[i].wait \in Nat /\ age[u] \in Nat
        BY <1>t, <2>2 DEF Row
  <2> QED
      BY <1>1, <1>2, <2>1, <2>2, <2>3, <1>t
      DEF PromiseInv, PromptFlush, StruckIsOver
<1>3. ScopeRow'
  <2>1. \A v \in Updates : pc'[v] = "commit" => pc[v] = "commit"
        BY <1>t, <1>1 DEF Endings
  <2>2. \A i \in Ids : outbox[i] = NoRow => outbox'[i] = NoRow
        BY <1>2
  <2>3. \A v \in Updates : pc'[v] = "commit" => tx.row \in Ids \union {0}
        BY <1>t, <2>1 DEF PromiseInv, ScopeRow
  <2> QED
      BY <1>1, <2>1, <2>2, <2>3 DEF PromiseInv, ScopeRow
<1>4. FlightRow'
  <2>1. ASSUME NEW v \in Updates, InFlight(v)'
        PROVE  v # u /\ InFlight(v) /\ rowid[v] \in Ids
        BY <1>t, <1>1, <2>1 DEF InFlight, Endings
  <2> QED
      BY <1>1, <1>2, <2>1 DEF PromiseInv, FlightRow
<1>5. SenderRows'
  <2>1. \A i \in Ids : IsDueRow(i) => outbox'[i] = outbox[i]
        BY <1>2 DEF IsDueRow
  <2> QED
      BY <1>t, <1>1, <2>1
      DEF PromiseInv, SenderRows, IsDueRow, Settled, Expired, Pending, Retry
<1>7. PromiseKept'
  <2>1. \A v \in owed : RowOf(v) => RowOf(v)' \/ v \in told \union hopeless
        BY <1>2 DEF RowOf
  <2> QED
      BY <1>1, <2>1 DEF PromiseInv, PromiseKept, Expired
<1>8. StruckIsOver' /\ HopelessIsOwed' /\ SenderOrder' /\ PromptFlush'
      BY <1>1
      DEF PromiseInv, StruckIsOver, HopelessIsOwed, SenderOrder, PromptFlush
<1> QED
    BY <1>3, <1>4, <1>5, <1>7, <1>8 DEF PromiseInv

-----------------------------------------------------------------------------
(* Steps of the invariant: the sender *)

\* What no step of the sender disturbs if it leaves the rows in flight alone
\* and puts nothing where there was no row.
LEMMA SenderStep ==
  ASSUME PromiseInv,
         UNCHANGED <<taskVars, age, owed>>,
         told \subseteq told', hopeless \subseteq hopeless',
         hopeless' \subseteq owed,
         \A i \in Ids : outbox[i] = NoRow => outbox'[i] = NoRow,
         \A u \in Updates : InFlight(u) => outbox'[rowid[u]] = outbox[rowid[u]],
         \A u \in Updates : rowid[u] \in Ids \union {0}
  PROVE  ScopeRow' /\ FlightRow' /\ StruckIsOver' /\ HopelessIsOwed'
         /\ PromptFlush'
BY DEF PromiseInv, taskVars, ScopeRow, InFlight, FlightRow, StruckIsOver,
       HopelessIsOwed, PromptFlush

\* A row in flight is not due, and its update not expired.
LEMMA InFlightIsYoung ==
  ASSUME TypeOK, PromiseInv, NEW u \in Updates, InFlight(u)
  PROVE  /\ rowid[u] \in Ids /\ outbox[rowid[u]].of = u
         /\ outbox[rowid[u]] # NoRow
         /\ ~IsDueRow(rowid[u]) /\ ~Expired(u)
<1>1. /\ rowid[u] \in Ids /\ outbox[rowid[u]] \in Row /\ age[u] \in Nat
      BY DEF TypeOK, InFlight, PromiseInv, FlightRow
<1>2. outbox[rowid[u]].wait \in Nat
      BY <1>1 DEF Row
<1> QED
    BY <1>1, <1>2, ConstantAssumption
    DEF PromiseInv, FlightRow, PromptFlush, IsDueRow, Expired

\* Wakes, peeks, or has its transaction fail.
LEMMA IdleStep ==
  ASSUME TypeOK, PromiseInv, SenderWakes \/ Peek \/ SenderDbFails
  PROVE  PromiseInv'
<1>1. UNCHANGED <<taskVars, outbox, age, pending, done, retry, owed, told,
                  hopeless>>
      BY DEF SenderWakes, Peek, SenderDbFails, dbVars, userVars
<1>2. SenderOrder'
      BY <1>1 DEF PromiseInv, SenderOrder, SenderWakes, Peek, SenderDbFails,
                  Carry, AfterRecord
<1>3. \A u \in Updates : rowid[u] \in Ids \union {0}
      BY DEF TypeOK
<1>4. SenderRows' /\ PromiseKept'
      BY <1>1
      DEF PromiseInv, SenderRows, IsDueRow, Settled, Expired,
          PromiseKept, RowOf
<1> QED
    BY <1>1, <1>2, <1>3, <1>4, SenderStep
    DEF PromiseInv, HopelessIsOwed

\* The rows of the batch are due, and its outcome is empty.
LEMMA ReadStep ==
  ASSUME TypeOK, PromiseInv, ReadBatch
  PROVE  PromiseInv'
<1>1. UNCHANGED <<taskVars, outbox, age, done, retry, owed, told, hopeless>>
      BY DEF ReadBatch, dbVars, userVars
<1>2. spc = "read" /\ done = {} /\ retry = {}
      BY DEF ReadBatch, PromiseInv, SenderOrder
<1>3. SenderOrder'
      BY <1>1, <1>2 DEF SenderOrder, ReadBatch
<1>4. SenderRows'
  <2>1. \A i \in Batch : IsDueRow(i)
        BY DEF Batch, Due, IsDueRow
  <2>2. \A p \in pending' : /\ p.id \in Batch /\ p.of = outbox[p.id].of
                            /\ p.attempts = outbox[p.id].attempts
        BY DEF ReadBatch
  <2> QED
      BY <1>1, <1>2, <2>1, <2>2 DEF SenderRows, IsDueRow
<1>5. \A u \in Updates : rowid[u] \in Ids \union {0}
      BY DEF TypeOK
<1>6. PromiseKept'
      BY <1>1 DEF PromiseInv, Expired, PromiseKept, RowOf
<1> QED
    BY <1>1, <1>3, <1>4, <1>5, <1>6, SenderStep
    DEF PromiseInv, HopelessIsOwed

LEMMA PurgeStep ==
  ASSUME TypeOK, PromiseInv, Purge
  PROVE  PromiseInv'
<1>1. /\ spc = "purge" /\ spc' = "peek"
      /\ UNCHANGED <<taskVars, age, pending, done, retry, owed, told, hopeless>>
      BY DEF Purge, userVars
<1>2. \A i \in Ids : outbox'[i] =
        IF outbox[i] # NoRow /\ Expired(outbox[i].of) THEN NoRow ELSE outbox[i]
      BY DEF Purge
<1>3. pending = {} /\ done = {} /\ retry = {}
      BY <1>1 DEF PromiseInv, SenderOrder
<1>4. SenderOrder' /\ SenderRows'
      BY <1>1, <1>3 DEF SenderOrder, SenderRows
<1>6. PromiseKept'
  <2>1. \A v \in owed : RowOf(v) => RowOf(v)' \/ Expired(v)
        BY <1>2 DEF RowOf
  <2> QED
      BY <1>1, <2>1 DEF PromiseInv, PromiseKept, Expired
<1>7. \A u \in Updates : InFlight(u) => outbox'[rowid[u]] = outbox[rowid[u]]
      BY <1>2, InFlightIsYoung
<1>8. \A u \in Updates : rowid[u] \in Ids \union {0}
      BY DEF TypeOK
<1> QED
    BY <1>1, <1>2, <1>4, <1>6, <1>7, <1>8, SenderStep
    DEF PromiseInv, HopelessIsOwed

\* What is deleted was settled, what is put off is still there.
LEMMA OutcomeOfRow ==
  ASSUME TypeOK, PromiseInv, RecordOutcome, NEW i \in Ids
  PROVE  \/ outbox'[i] = outbox[i]
         \/ /\ i \in done /\ outbox[i] # NoRow /\ IsDueRow(i)
            /\ outbox'[i] = NoRow
            /\ Settled(outbox[i].of)
         \/ /\ IsDueRow(i)
            /\ \E r \in retry :
                 /\ r.id = i
                 /\ outbox'[i] = [of |-> outbox[i].of, wait |-> r.wait,
                                  attempts |-> r.attempts]
<1>1. outbox'[i] = OutcomeApplied[i]
      BY DEF RecordOutcome
<1>2. CASE i \in done
      BY <1>1, <1>2
      DEF OutcomeApplied, PromiseInv, SenderRows, IsDueRow
<1>3. CASE i \notin done /\ outbox[i] = NoRow
      BY <1>1, <1>3 DEF OutcomeApplied
<1>4. CASE i \notin done /\ outbox[i] # NoRow /\ \E r \in retry : r.id = i
  <2> DEFINE r == CHOOSE r \in retry : r.id = i
  <2>1. r \in retry /\ r.id = i
        BY <1>4
  <2>2. outbox'[i] = [of |-> outbox[i].of, wait |-> r.wait,
                      attempts |-> r.attempts]
        BY <1>1, <1>4 DEF OutcomeApplied
  <2>3. IsDueRow(i)
        BY <2>1 DEF PromiseInv, SenderRows
  <2> QED
      BY <2>1, <2>2, <2>3
<1>5. CASE i \notin done /\ ~(\E r \in retry : r.id = i)
      BY <1>1, <1>5 DEF OutcomeApplied
<1> QED
    BY <1>2, <1>3, <1>4, <1>5

LEMMA RecordStep ==
  ASSUME TypeOK, PromiseInv, RecordOutcome
  PROVE  PromiseInv'
<1>1. /\ spc \in {"record", "apply"} /\ spc' \in {"purge", "peek", "idle"}
      /\ UNCHANGED <<taskVars, age, pending, owed, told, hopeless>>
      /\ done' = {} /\ retry' = {} /\ pending = {}
      BY DEF RecordOutcome, AfterRecord, PromiseInv, SenderOrder, userVars
<1>2. SenderOrder' /\ SenderRows'
      BY <1>1 DEF SenderOrder, SenderRows
<1>4. PromiseKept'
  <2>1. ASSUME NEW v \in owed, RowOf(v) PROVE RowOf(v)' \/ Settled(v)
    <3>1. PICK i \in Ids : outbox[i] # NoRow /\ outbox[i].of = v
          BY <2>1 DEF RowOf
    <3>2. \/ outbox'[i] = NoRow /\ Settled(v)
          \/ outbox'[i] = outbox[i]
          \/ \E r \in retry : outbox'[i] = [of |-> v, wait |-> r.wait,
                                            attempts |-> r.attempts]
          BY <3>1, OutcomeOfRow
    <3>3. ASSUME NEW r \in retry, outbox'[i] = [of |-> v, wait |-> r.wait,
                                                attempts |-> r.attempts]
          PROVE  outbox'[i] \in Row /\ outbox'[i].of = v
          BY <3>3 DEF TypeOK, Retry, Row
    <3> QED
        BY <3>1, <3>2, <3>3, ConstantAssumption DEF RowOf
  <2> QED
      BY <1>1, <2>1 DEF PromiseInv, PromiseKept, Expired, Settled
<1>5. \A u \in Updates : InFlight(u) => outbox'[rowid[u]] = outbox[rowid[u]]
      BY OutcomeOfRow, InFlightIsYoung
<1>6. \A i \in Ids : outbox[i] = NoRow => outbox'[i] = NoRow
      BY OutcomeOfRow DEF IsDueRow
<1>7. \A u \in Updates : rowid[u] \in Ids \union {0}
      BY DEF TypeOK
<1> QED
    BY <1>1, <1>2, <1>4, <1>5, <1>6, <1>7, SenderStep
    DEF PromiseInv, HopelessIsOwed

\* The row whose turn it is gets a fate; the other rows keep theirs.
LEMMA SendStep ==
  ASSUME TypeOK, ReportInv, PromiseInv, NEW p \in pending, Send(p)
  PROVE  PromiseInv'
<1>t. /\ p.id \in Ids /\ p.attempts \in Nat /\ p.of \in Updates
      /\ age[p.of] \in Nat
      /\ \A u \in Updates : rowid[u] \in Ids \union {0}
      BY DEF TypeOK, Pending
<1>1. /\ UNCHANGED <<taskVars, outbox, age, owed>>
      /\ pending' \subseteq pending
      BY SenderIsApart
      DEF Send, GivesUp, Sends, IsToldToWait, SendFails, BackoffOverflows,
          Turn, dbVars
<1>2. /\ told \subseteq told' /\ hopeless \subseteq hopeless'
      /\ hopeless' \subseteq hopeless \union {p.of}
      BY DEF Send, GivesUp, Sends, IsToldToWait, SendFails, BackoffOverflows
<1>3. p.of \in owed /\ IsDueRow(p.id) /\ outbox[p.id].of = p.of
      /\ outbox[p.id].attempts = p.attempts
      BY DEF ReportInv, ReadIsOwed, PromiseInv, SenderRows
<1>4. hopeless' \subseteq owed
      BY <1>2, <1>3 DEF PromiseInv, HopelessIsOwed
<1>5. \A i \in done' : i \in done \/ (i = p.id /\ Settled(p.of)')
  <2>1. CASE GivesUp(p)
    <3>1. done' = done \union {p.id} /\ (Expired(p.of) \/ p.of \in hopeless')
          BY <2>1 DEF GivesUp
    <3> QED
        BY <1>1, <3>1 DEF Settled, Expired
  <2>2. CASE Sends(p)
    <3>1. done' = done \union {p.id} /\ p.of \in told'
          BY <2>2 DEF Sends
    <3> QED
        BY <3>1 DEF Settled
  <2>3. CASE IsToldToWait(p) \/ SendFails(p) \/ BackoffOverflows(p)
        BY <2>3 DEF IsToldToWait, SendFails, BackoffOverflows
  <2> QED
      BY <2>1, <2>2, <2>3 DEF Send
<1>6. \A r \in retry' : r \in retry \/
        /\ ~Expired(p.of)
        /\ r.id = p.id /\ r.attempts = OneMore(p.attempts)
        /\ r.wait \in 0..BACKOFF_MAX
      BY DEF Send, GivesUp, Sends, IsToldToWait, SendFails, BackoffOverflows
<1>7. SenderRows'
      BY <1>1, <1>2, <1>3, <1>5, <1>6
      DEF PromiseInv, SenderRows, IsDueRow, Settled, Expired
<1>8. SenderOrder'
  <2>1. CASE Turn(p)
    <3>1. /\ spc = "sending"
          /\ spc' = IF pending' = {} THEN "apply" ELSE "sending"
          /\ pending' = pending \ {p}
          BY <2>1 DEF Turn
    <3>2. \A o \in pending' : o.id # p.id
      <4> SUFFICES ASSUME NEW o \in pending', o.id = p.id PROVE FALSE
          OBVIOUS
      <4>1. o \in pending /\ p \in pending /\ o # p
            BY <3>1
      <4>2. o.of = p.of /\ o.attempts = p.attempts
            BY <4>1 DEF PromiseInv, SenderRows
      <4>3. o \in Pending /\ p \in Pending
            BY <4>1 DEF TypeOK
      <4> QED
          BY <4>1, <4>2, <4>3 DEF Pending
    <3> QED
        BY <1>1, <1>5, <3>1, <3>2 DEF PromiseInv, SenderOrder
  <2>2. CASE BackoffOverflows(p)
        BY <2>2 DEF BackoffOverflows, SenderOrder
  <2> QED
      BY <2>1, <2>2 DEF Send, GivesUp, Sends, IsToldToWait, SendFails
<1>10. PromiseKept'
      BY <1>1, <1>2 DEF PromiseInv, PromiseKept, RowOf, Expired
<1> QED
    BY <1>t, <1>1, <1>2, <1>4, <1>7, <1>8, <1>10, SenderStep
    DEF PromiseInv

-----------------------------------------------------------------------------
(* Steps of the invariant: time *)

LEMMA TickStep ==
  ASSUME TypeOK, ReportInv, PromiseInv, Tick
  PROVE  PromiseInv'
<1>t. /\ pc \in [Updates -> TaskPCs]
      /\ rowid \in [Updates -> Ids \union {0}]
      /\ outbox \in [Ids -> Row \union {NoRow}]
      /\ age \in [Updates -> 0..AgeCap]
      /\ pending \subseteq Pending /\ done \subseteq Ids
      /\ retry \subseteq Retry
      BY DEF TypeOK
<1>1. /\ UNCHANGED <<pc, queue, rowid, struck, tx, spc, pending, done, owed,
                     told, hopeless, applied>>
      /\ \A u \in Updates : /\ pc[u] # "settle"
                            /\ pc[u] = "flush" => age[u] < FLUSH
      BY DEF Tick, Quiet, taskVars, userVars
<1>2. \A u \in Updates :
        /\ age'[u] \in {age[u], age[u] + 1}
        /\ applied[u] > 0 /\ age[u] < AgeCap => age'[u] = age[u] + 1
      BY <1>t DEF Tick
<1>3. ASSUME NEW i \in Ids, outbox[i] # NoRow
      PROVE  /\ outbox'[i] # NoRow
             /\ outbox'[i].of = outbox[i].of
             /\ outbox'[i].attempts = outbox[i].attempts
             /\ outbox'[i].wait = Dec(outbox[i].wait)
             /\ outbox[i].of \in Updates /\ outbox[i].wait \in Nat
             /\ outbox[i].attempts \in Nat
  <2>1. outbox[i] \in Row
        BY <1>t, <1>3
  <2>2. outbox'[i] = [of |-> outbox[i].of, wait |-> Dec(outbox[i].wait),
                      attempts |-> outbox[i].attempts]
        BY <1>3 DEF Tick
  <2>3. outbox'[i] \in Row
        BY <2>1, <2>2 DEF Row, Dec
  <2> QED
      BY <2>1, <2>2, <2>3, ConstantAssumption DEF Row
<1>4. \A i \in Ids : outbox[i] = NoRow => outbox'[i] = NoRow
      BY DEF Tick
<1>5. ScopeRow'
  <2>1. \A u \in Updates : pc[u] # "commit"
        BY ConstantAssumption DEF ReportInv, LockOK, Tick, Quiet
  <2> QED
      BY <1>1, <2>1 DEF ScopeRow
<1>6. FlightRow'
  <2> SUFFICES ASSUME NEW u \in Updates, InFlight(u)'
               PROVE  /\ outbox'[rowid[u]] # NoRow
                      /\ outbox'[rowid[u]].of = u
                      /\ outbox'[rowid[u]].wait + age'[u] >= GRACE
                      /\ age'[u] <= FLUSH
      BY <1>1 DEF FlightRow
  <2>1. InFlight(u) /\ rowid[u] \in Ids /\ age[u] < FLUSH
        BY <1>t, <1>1 DEF InFlight
  <2>2. /\ outbox[rowid[u]] # NoRow /\ outbox[rowid[u]].of = u
        /\ outbox[rowid[u]].wait + age[u] >= GRACE
        BY <2>1 DEF PromiseInv, FlightRow
  <2>3. applied[u] > 0
        BY <2>1, <2>2 DEF ReportInv, RowsAreOwed, OwedIsApplied
  <2>4. age'[u] = age[u] + 1 /\ age[u] \in Nat
        BY <1>t, <1>2, <2>1, <2>3, ConstantAssumption
        DEF PromiseInv, PromptFlush, AgeCap
  <2>5. outbox[rowid[u]].wait \in Nat
        BY <1>3, <2>1, <2>2
  <2>6. outbox[rowid[u]].wait + age[u] <= Dec(outbox[rowid[u]].wait) + age'[u]
        BY <2>4, <2>5 DEF Dec
  <2>7. Dec(outbox[rowid[u]].wait) \in Nat
        BY <2>5 DEF Dec
  <2> QED
      BY <1>3, <2>1, <2>2, <2>4, <2>5, <2>6, <2>7, ConstantAssumption
<1>7. \A r \in retry' : \E o \in retry :
        r.id = o.id /\ r.attempts = o.attempts /\ r.wait = Dec(o.wait)
      BY DEF Tick
<1>8. ASSUME NEW u \in Updates, Expired(u) PROVE Expired(u)'
      BY <1>8, StaysExpired
<1>9. SenderRows'
  <2>1. ASSUME NEW i \in Ids, IsDueRow(i)
        PROVE  IsDueRow(i)' /\ outbox'[i].of = outbox[i].of
               /\ outbox'[i].attempts = outbox[i].attempts
               /\ outbox[i].of \in Updates
        BY <1>3, <2>1 DEF IsDueRow, Dec
  <2>2. \A u \in Updates : Settled(u) => Settled(u)'
        BY <1>1, <1>8 DEF Settled
  <2>3. ASSUME NEW i \in done'
        PROVE  IsDueRow(i)' /\ Settled(outbox[i].of)'
    <3>1. i \in Ids /\ IsDueRow(i) /\ Settled(outbox[i].of)
          BY <1>t, <1>1 DEF PromiseInv, SenderRows
    <3> QED
        BY <1>t, <2>1, <2>2, <3>1 DEF Settled, Expired
  <2>4. \A p \in pending' : /\ IsDueRow(p.id)' /\ outbox'[p.id].of = p.of
                            /\ outbox'[p.id].attempts = p.attempts
        BY <1>t, <1>1, <2>1 DEF PromiseInv, SenderRows, Pending
  <2>5. \A r \in retry' : IsDueRow(r.id)'
        BY <1>t, <1>7, <2>1 DEF PromiseInv, SenderRows, Retry
  <2> QED
      BY <2>3, <2>4, <2>5 DEF SenderRows
<1>10. SenderOrder'
      BY <1>1, <1>7 DEF PromiseInv, SenderOrder
<1>13. PromiseKept'
  <2>1. \A u \in Updates : RowOf(u) => RowOf(u)'
        BY <1>3 DEF RowOf
  <2>2. owed \subseteq Updates
        BY DEF TypeOK
  <2> QED
      BY <1>1, <1>8, <2>1, <2>2 DEF PromiseInv, PromiseKept
<1>14. StruckIsOver' /\ HopelessIsOwed' /\ PromptFlush'
      BY <1>1 DEF PromiseInv, StruckIsOver, HopelessIsOwed, PromptFlush
<1> QED
    BY <1>5, <1>6, <1>9, <1>10, <1>13, <1>14 DEF PromiseInv

LEMMA CrashStep ==
  ASSUME TypeOK, PromiseInv, Crash
  PROVE  PromiseInv'
<1> USE DEF Crash
<1>1. UNCHANGED <<outbox, age, owed, told, hopeless>>
      BY DEF dbVars, userVars
<1>2. ScopeRow' /\ FlightRow' /\ StruckIsOver'
      BY DEF ScopeRow, FlightRow, InFlight, StruckIsOver
<1>3. SenderRows' /\ SenderOrder'
      BY DEF SenderRows, SenderOrder
<1>4. PromiseKept' /\ HopelessIsOwed' /\ PromptFlush'
      BY <1>1 DEF PromiseInv, Expired, PromiseKept, RowOf,
                  HopelessIsOwed, PromptFlush
<1> QED
    BY <1>2, <1>3, <1>4 DEF PromiseInv

\* Updates arrive, or nothing happens.
LEMMA PollStep ==
  ASSUME TypeOK, PromiseInv,
         UNCHANGED vars \/ \E new \in SUBSET Updates : Poll(new)
  PROVE  PromiseInv'
<1>1. /\ UNCHANGED <<queue, rowid, struck, tx, outbox, age, spc, pending, done,
                     retry, owed, told, hopeless>>
      /\ \A u \in Updates : pc'[u] \in {pc[u], "waiting"}
      BY DEF TypeOK, Poll, vars, taskVars, dbVars, senderVars, userVars
<1>2. ScopeRow' /\ \A u \in Updates : InFlight(u)' => InFlight(u)
      BY <1>1 DEF PromiseInv, ScopeRow, InFlight
<1> QED
    BY <1>1, <1>2, ScopeStep

LEMMA PromiseStep ==
  TypeOK /\ OnceInv /\ ReportInv /\ PromiseInv /\ [Next]_vars => PromiseInv'
BY HandleStep, CommitStep, FlushStep, FollowUpStep, IdleStep, ReadStep,
   PurgeStep, RecordStep, SendStep, TickStep, CrashStep, PollStep
DEF Next, SenderLocked

-----------------------------------------------------------------------------
(* What follows at once *)

DeliveryInv == TypeOK /\ OnceInv /\ ReportInv /\ PromiseInv

LEMMA DeliveryIsInv == PromptFlush => (Spec => []DeliveryInv)
<1>1. PromptFlush /\ Init => DeliveryInv
      BY TypeInit, OnceInit, ReportInit, PromiseInit DEF DeliveryInv
<1>2. DeliveryInv /\ [Next]_vars => DeliveryInv'
      BY TypeStep, OnceStep, ReportStep, PromiseStep DEF DeliveryInv
<1> QED
    BY <1>1, <1>2, PTL DEF Spec

\* At-least-once: as long as flushes end in time, a committed change whose
\* report is due has reached the user, is queued, was rejected for good or is
\* older than TTL, whatever crashes, failed transactions and lost answers do
\* (OutboxMessage, Responder.persist, _settle, deliver_batch, _apply_outcome).
THEOREM NoReportIsLost == PromptFlush => (Spec => []PromiseKept)
<1>1. DeliveryInv => PromiseKept
      BY DEF DeliveryInv, PromiseInv
<1> QED
    BY <1>1, DeliveryIsInv, PTL

\* A row the process knows to be sent is not in a batch that is being sent
\* (Responder.persist's grace, the carried _Outcome of run_sender).
THEOREM NothingIsResentBlindly == PromptFlush => (Spec => []NoBlindResend)
<1>1. DeliveryInv => NoBlindResend
  <2> SUFFICES ASSUME DeliveryInv, NEW p \in pending PROVE p.id \notin KnownSent
      BY DEF NoBlindResend
  <2> USE DEF DeliveryInv
  <2>1. p.id \in Ids /\ IsDueRow(p.id) /\ p.id \notin done
        BY DEF TypeOK, Pending, PromiseInv, SenderRows, SenderOrder
  <2>2. ASSUME NEW u \in Updates, struck[u], pc[u] \in {"flush", "settle"}
        PROVE  p.id # rowid[u]
    <3>1. rowid[u] # 0 => ~IsDueRow(rowid[u])
          BY <2>2, InFlightIsYoung DEF InFlight
    <3> QED
        BY <2>1, <3>1 DEF Ids
  <2> QED
      BY <2>1, <2>2 DEF KnownSent
<1> QED
    BY <1>1, DeliveryIsInv, PTL

-----------------------------------------------------------------------------
(* Delivery implements ReplyPromise *)

Report == [u \in Updates |-> ReportOf(u)]
Late == hopeless \union {u \in Updates : applied[u] > 0 /\ Expired(u)}

\* Rows may go, and promises with them if they are late.
LEMMA StepDrops ==
  ASSUME UNCHANGED <<told, owed>>, hopeless \subseteq hopeless',
         Late \subseteq Late', Late' \subseteq Updates,
         NEW Gone \in SUBSET Updates, Gone \subseteq told \union Late',
         \A u \in Updates : RowOf(u)' => RowOf(u),
         \A u \in Updates : RowOf(u) => RowOf(u)' \/ u \in Gone
  PROVE  Promise!Next
<1> DEFINE S == {u \in Updates : Report[u] = "owed" /\ Report'[u] # "owed"}
<1>1. ASSUME NEW u \in Updates
      PROVE  Report'[u] = IF u \in S THEN "dropped" ELSE Report[u]
      BY DEF Report, ReportOf
<1>2. Report' = [u \in Updates |-> IF u \in S THEN "dropped" ELSE Report[u]]
      BY <1>1 DEF Report
<1>3. ASSUME NEW u \in S PROVE u \in Late'
  <2>1. u \in owed /\ u \notin told /\ RowOf(u)
        BY DEF Report, ReportOf
  <2>2. u \in hopeless' \/ ~RowOf(u)'
        BY <2>1 DEF Report, ReportOf
  <2> QED
      BY <2>1, <2>2 DEF Late
<1>4. PICK D \in SUBSET Updates : D = S
      OBVIOUS
<1>5. /\ D \subseteq {u \in Updates : Report[u] = "owed"}
      /\ D \subseteq Late'
      /\ Late' \in {l \in SUBSET Updates : Late \subseteq l}
      BY <1>3, <1>4
<1>6. Promise!Drop(D)
      BY <1>2, <1>4, <1>5 DEF Promise!Drop, Promise!Ages, Report, Late
<1> QED
    BY <1>6 DEF Promise!Next

\* A reply gets through, or a call of one fails.
LEMMA StepTells ==
  ASSUME NEW u \in Updates, u \in owed, told' \in {told, told \union {u}},
         UNCHANGED <<outbox, owed, hopeless>>,
         Late \subseteq Late', Late' \subseteq Updates
  PROVE  Promise!Next
<1>1. \A v \in Updates : RowOf(v)' = RowOf(v)
      BY DEF RowOf
<1>2. CASE told' = told
      BY <1>1, <1>2, StepDrops
<1>3. CASE told' # told
  <2>1. Report[u] \in {"owed", "dropped"}
        BY <1>3 DEF Report, ReportOf
  <2>2. \A v \in Updates : Report'[v] = IF v = u THEN "told" ELSE Report[v]
        BY <1>1, <1>3 DEF Report, ReportOf
  <2>3. Report' = [Report EXCEPT ![u] = "told"]
        BY <2>2 DEF Report
  <2>4. Promise!Keep(u)
        BY <2>1, <2>3 DEF Promise!Keep, Promise!Ages, Report, Late
  <2> QED
      BY <2>4 DEF Promise!Next
<1> QED
    BY <1>2, <1>3

LEMMA LateGrows ==
  ASSUME TypeOK, OnceInv, ReportInv, [Next]_vars, hopeless \subseteq hopeless'
  PROVE  Late \subseteq Late'
<1>1. ASSUME NEW u \in Updates, applied[u] > 0, Expired(u)
      PROVE  applied'[u] > 0 /\ Expired(u)'
  <2>1. CASE Tick
        BY <1>1, <2>1, StaysExpired DEF Tick
  <2>2. ASSUME NEW v \in Updates, Commit(v) PROVE applied'[u] > 0 /\ Expired(u)'
    <3>1. v = u => ~tx.change
          BY <1>1, <2>2, CommitIsFirst
    <3>2. applied \in [Updates -> Nat] /\ age \in [Updates -> 0..AgeCap]
          BY DEF TypeOK
    <3> QED
        BY <1>1, <2>2, <3>1, <3>2 DEF Commit, Expired
  <2>3. UNCHANGED <<applied, age>> \/ Tick \/ \E v \in Updates : Commit(v)
    <3>1. CASE SenderWakes \/ Peek \/ SenderLocked \/ \E p \in pending : Send(p)
          BY <3>1, SenderIsApart
    <3>2. ASSUME NEW v \in Updates, Flush(v) PROVE UNCHANGED <<applied, age>>
          BY <3>2 DEF Flush, FlushSends, FlushLoses, FlushStale, EditStale,
                      FlushEdits, Attempt, dbVars
    <3>3. ASSUME NEW v \in Updates, Acquire(v) \/ Handle(v) \/ FollowUp(v)
          PROVE  UNCHANGED <<applied, age>>
          BY <3>3 DEF Acquire, Handle, DropRedelivery, RunHandler, Close,
                      Fails, FollowUp, SkipSettle, Settle, SettleFails, dbVars
    <3>4. CASE Crash \/ UNCHANGED vars \/ \E new \in SUBSET Updates : Poll(new)
          BY <3>4 DEF Crash, Poll, vars, dbVars
    <3> QED
        BY <3>1, <3>2, <3>3, <3>4 DEF Next
  <2> QED
      BY <1>1, <2>1, <2>2, <2>3 DEF Expired
<1> QED
    BY <1>1 DEF Late

\* The commit of a change that is to be reported makes the promise; any other
\* commit changes nothing a user is owed.
LEMMA CommitMakes ==
  ASSUME DeliveryInv, DeliveryInv', NEW u \in Updates, Commit(u),
         Late \subseteq Late', Late' \subseteq Updates
  PROVE  Promise!Next
<1> USE DEF DeliveryInv
<1>1. UNCHANGED <<told, hopeless>>
      BY DEF Commit
<1>2. ASSUME NEW v \in Updates, v # u \/ owed' = owed
      PROVE  RowOf(v)' <=> RowOf(v)
  <2>1. \A i \in Ids : i # tx.row => outbox'[i] = outbox[i]
        BY DEF Commit
  <2>2. tx.row # 0 => /\ outbox[tx.row] = NoRow /\ tx.change
                      /\ HasSend(queue[u])
        BY DEF Commit, PromiseInv, ScopeRow, ReportInv, ReportsItsChange
  <2>3. tx.row # 0 => u \notin owed /\ u \in owed'
        BY <2>2, CommitIsFirst DEF Commit
  <2>4. tx.row \in Ids => outbox'[tx.row].of = u /\ tx.row # 0
        BY DEF Commit, Ids
  <2> QED
      BY <1>2, <2>1, <2>2, <2>3, <2>4 DEF RowOf
<1>3. CASE owed' = owed
      BY <1>1, <1>2, <1>3, StepDrops
<1>4. CASE owed' # owed
  <2>1. /\ tx.change /\ owed' = owed \union {u} /\ u \notin owed
        BY <1>4, CommitIsFirst DEF Commit
  <2>2. u \notin told /\ u \notin hopeless /\ u \notin hopeless'
        BY <1>1, <2>1 DEF ReportInv, PromiseInv, HopelessIsOwed
  <2>3. age'[u] = 0
        BY <2>1 DEF Commit, TypeOK
  <2>4. RowOf(u)'
        BY <1>1, <2>1, <2>2, <2>3, ConstantAssumption
        DEF PromiseInv, PromiseKept, Expired
  <2>5. \A v \in Updates : Report'[v] = IF v = u THEN "owed" ELSE Report[v]
        BY <1>1, <1>2, <2>1, <2>2, <2>4 DEF Report, ReportOf
  <2>6. Report[u] = "none" /\ Report' = [Report EXCEPT ![u] = "owed"]
        BY <2>1, <2>2, <2>5 DEF Report, ReportOf
  <2>7. Promise!Make(u)
        BY <2>6 DEF Promise!Make, Promise!Ages, Report, Late
  <2> QED
      BY <2>7 DEF Promise!Next
<1> QED
    BY <1>3, <1>4

LEMMA PromiseInitMaps == Init => Promise!Init
<1> SUFFICES ASSUME Init PROVE Promise!Init
    OBVIOUS
<1>1. \A u \in Updates : Report[u] = "none"
      BY DEF Init, Report, ReportOf
<1>2. Report = [u \in Updates |-> "none"]
      BY <1>1 DEF Report
<1>3. Late = {}
      BY DEF Init, Late
<1> QED
    BY <1>2, <1>3 DEF Promise!Init, Report, Late

\* A step that touches nothing the promise is about.
LEMMA Stutters ==
  ASSUME UNCHANGED <<outbox, applied, age, owed, told, hopeless>>
  PROVE  UNCHANGED <<Report, Late>>
<1>1. \A u \in Updates : ReportOf(u)' = ReportOf(u)
      BY DEF ReportOf, RowOf
<1> QED
    BY <1>1 DEF Report, Late, Expired

LEMMA PromiseStepMaps ==
  DeliveryInv /\ DeliveryInv' /\ [Next]_vars
    => Promise!Next \/ UNCHANGED <<Report, Late>>
<1> SUFFICES ASSUME DeliveryInv, DeliveryInv', [Next]_vars
             PROVE  Promise!Next \/ UNCHANGED <<Report, Late>>
    OBVIOUS
<1> USE DEF DeliveryInv
<1>l. Late' \subseteq Updates /\ told \subseteq Updates
      BY DEF TypeOK, Late
<1>1. ASSUME NEW u \in Updates, Commit(u) PROVE Promise!Next
  <2>1. Late \subseteq Late'
        BY <1>1, LateGrows DEF Commit
  <2> QED
      BY <1>1, <1>l, <2>1, CommitMakes
<1>2. ASSUME NEW u \in Updates, Flush(u)
      PROVE  Promise!Next \/ UNCHANGED <<Report, Late>>
  <2>1. PICK kind \in Kinds : Attempt(u, kind)
        BY <1>2 DEF Flush, FlushSends, FlushLoses, FlushStale, EditStale,
                    FlushEdits, Kinds
  <2>2. /\ UNCHANGED <<outbox, applied, age, owed>>
        /\ hopeless \subseteq hopeless'
        BY <1>2, <2>1 DEF Flush, FlushSends, FlushLoses, FlushStale,
                          EditStale, FlushEdits, Attempt, dbVars
  <2>3. Late \subseteq Late'
        BY <2>2 DEF Late, Expired
  <2>4. FlushSends(u) \/ FlushLoses(u) => u \in owed
    <3>1. queue[u] \in Seq(Kinds)
          BY DEF TypeOK
    <3>2. FlushSends(u) \/ FlushLoses(u) => pc[u] = "flush" /\ HasSend(queue[u])
          BY <3>1, SendsInOrder DEF FlushSends, FlushLoses, Attempt
    <3> QED
        BY <3>2 DEF ReportInv, FlushedIsOwed
  <2>5. CASE FlushSends(u) \/ FlushLoses(u)
    <3>1. told' \in {told, told \union {u}} /\ hopeless' = hopeless
          BY <2>5 DEF FlushSends, FlushLoses
    <3>2. u \in owed
          BY <2>4, <2>5
    <3> QED
        BY <1>l, <2>2, <2>3, <3>1, <3>2, StepTells
  <2>6. CASE FlushStale(u)
    <3>1. \A v \in Updates : RowOf(v)' = RowOf(v)
          BY <2>2 DEF RowOf
    <3>2. told' = told
          BY <2>6 DEF FlushStale
    <3> QED
        BY <1>l, <2>2, <2>3, <3>1, <3>2, StepDrops
  <2>7. CASE EditStale(u) \/ FlushEdits(u)
        BY <2>2, <2>7, Stutters DEF EditStale, FlushEdits
  <2> QED
      BY <1>2, <2>5, <2>6, <2>7 DEF Flush
<1>3. ASSUME NEW u \in Updates, FollowUp(u) PROVE Promise!Next
  <2>1. /\ UNCHANGED <<applied, age, owed, told, hopeless>>
        /\ pc[u] = "settle"
        /\ \A i \in Ids : outbox'[i] # outbox[i] =>
             i = rowid[u] /\ struck[u] /\ outbox'[i] = NoRow
        BY <1>3 DEF FollowUp, SkipSettle, Settle, SettleFails, TypeOK, dbVars,
                    userVars
  <2>2. \A i \in Ids : outbox'[i] # outbox[i] =>
          outbox[i].of = u /\ u \in told \union hopeless
        BY <2>1 DEF Ids, PromiseInv, FlightRow, InFlight, StruckIsOver
  <2>3. /\ \A v \in Updates : RowOf(v)' => RowOf(v)
        /\ \A v \in Updates :
             RowOf(v) => RowOf(v)' \/ v \in told \union hopeless
        BY <2>1, <2>2 DEF RowOf
  <2>4. Late' = Late /\ hopeless \subseteq Late
        BY <2>1 DEF Late, Expired
  <2>5. told \union hopeless \in SUBSET Updates
        BY DEF TypeOK
  <2> QED
      BY <1>l, <2>1, <2>3, <2>4, <2>5, StepDrops
<1>4. ASSUME RecordOutcome \/ Purge PROVE Promise!Next
  <2> DEFINE Gone == {v \in Updates : Settled(v) /\ (v \in told \/ v \in Late)}
  <2>1. UNCHANGED <<applied, age, owed, told, hopeless>>
        BY <1>4 DEF RecordOutcome, Purge, userVars
  <2>2. \A i \in Ids : outbox[i] # NoRow =>
          applied[outbox[i].of] > 0 /\ outbox[i].of \in Updates
        BY DEF TypeOK, ReportInv, RowsAreOwed, OwedIsApplied
  <2>3. ASSUME NEW i \in Ids
        PROVE  /\ outbox'[i] # NoRow =>
                    outbox[i] # NoRow /\ outbox'[i].of = outbox[i].of
               /\ outbox[i] # NoRow /\ outbox'[i] = NoRow =>
                    Settled(outbox[i].of)
    <3>1. CASE RecordOutcome
      <4>1. ASSUME NEW r \in retry, IsDueRow(i),
                   outbox'[i] = [of |-> outbox[i].of, wait |-> r.wait,
                                 attempts |-> r.attempts]
            PROVE  outbox'[i] \in Row /\ outbox[i] # NoRow
                   /\ outbox'[i].of = outbox[i].of
        <5>1. outbox[i] \in Row /\ r \in Retry
              BY <4>1 DEF TypeOK, IsDueRow
        <5> QED
            BY <4>1, <5>1 DEF Row, Retry, IsDueRow
      <4> QED
          BY <3>1, <4>1, OutcomeOfRow, ConstantAssumption
    <3>2. CASE Purge
          BY <3>2 DEF Purge, Settled
    <3> QED
        BY <1>4, <3>1, <3>2
  <2>4. /\ \A v \in Updates : RowOf(v)' => RowOf(v)
        /\ \A v \in Updates : RowOf(v) => RowOf(v)' \/ v \in Gone
    <3>1. ASSUME NEW v \in Updates, RowOf(v), ~RowOf(v)' PROVE v \in Gone
      <4>1. PICK i \in Ids : outbox[i] # NoRow /\ outbox[i].of = v
            BY <3>1 DEF RowOf
      <4>2. Settled(v) /\ applied[v] > 0
            BY <2>2, <2>3, <3>1, <4>1 DEF RowOf
      <4> QED
          BY <4>2 DEF Settled, Late
    <3> QED
        BY <2>3, <3>1 DEF RowOf
  <2>5. Late' = Late
        BY <2>1 DEF Late, Expired
  <2>6. PICK G \in SUBSET Updates : G = Gone
        OBVIOUS
  <2> QED
      BY <1>l, <2>1, <2>4, <2>5, <2>6, StepDrops
<1>5. ASSUME NEW p \in pending, Send(p) PROVE Promise!Next
  <2>1. /\ UNCHANGED <<outbox, applied, age, owed>>
        /\ hopeless \subseteq hopeless'
        BY <1>5, SenderIsApart
        DEF Send, GivesUp, Sends, IsToldToWait, SendFails, BackoffOverflows,
            Turn, dbVars
  <2>2. Late \subseteq Late'
        BY <2>1 DEF Late, Expired
  <2>3. p.of \in owed /\ p.of \in Updates
        BY DEF ReportInv, ReadIsOwed, TypeOK
  <2>4. CASE GivesUp(p)
    <3>1. told' = told
          BY <2>4 DEF GivesUp
    <3>2. \A v \in Updates : RowOf(v)' = RowOf(v)
          BY <2>1 DEF RowOf
    <3> QED
        BY <1>l, <2>1, <2>2, <3>1, <3>2, StepDrops
  <2>5. CASE Sends(p) \/ IsToldToWait(p) \/ SendFails(p) \/ BackoffOverflows(p)
    <3>1. told' \in {told, told \union {p.of}} /\ hopeless' = hopeless
          BY <2>5 DEF Sends, IsToldToWait, SendFails, BackoffOverflows
    <3> QED
        BY <1>l, <2>1, <2>2, <2>3, <3>1, StepTells
  <2> QED
      BY <1>5, <2>4, <2>5 DEF Send
<1>6. ASSUME Tick PROVE Promise!Next
  <2>1. UNCHANGED <<owed, told, hopeless>>
        BY <1>6 DEF Tick, userVars
  <2>2. Late \subseteq Late'
        BY <2>1, LateGrows
  <2>3. \A v \in Updates : RowOf(v)' <=> RowOf(v)
    <3>1. ASSUME NEW i \in Ids, outbox[i] # NoRow
          PROVE  outbox'[i] # NoRow /\ outbox'[i].of = outbox[i].of
      <4>1. outbox[i] \in Row
            BY <3>1 DEF TypeOK
      <4>2. outbox'[i] = [of |-> outbox[i].of, wait |-> Dec(outbox[i].wait),
                          attempts |-> outbox[i].attempts]
            BY <1>6, <3>1 DEF Tick
      <4>3. outbox'[i] \in Row
            BY <4>1, <4>2 DEF Row, Dec
      <4> QED
          BY <4>2, <4>3, ConstantAssumption
    <3>2. \A i \in Ids : outbox[i] = NoRow => outbox'[i] = NoRow
          BY <1>6 DEF Tick
    <3> QED
        BY <3>1, <3>2 DEF RowOf
  <2> QED
      BY <1>l, <2>1, <2>2, <2>3, StepDrops
<1>7. ASSUME NEW u \in Updates, Acquire(u) \/ Handle(u)
      PROVE  UNCHANGED <<Report, Late>>
  <2>1. UNCHANGED <<outbox, applied, age, owed, told, hopeless>>
        BY <1>7 DEF Acquire, Handle, DropRedelivery, RunHandler, Close, Fails,
                    dbVars, userVars
  <2> QED
      BY <2>1, Stutters
<1>8. ASSUME \/ SenderWakes \/ Peek \/ ReadBatch \/ SenderDbFails \/ Crash
             \/ UNCHANGED vars \/ \E new \in SUBSET Updates : Poll(new)
      PROVE  UNCHANGED <<Report, Late>>
  <2>1. UNCHANGED <<outbox, applied, age, owed, told, hopeless>>
        BY <1>8 DEF SenderWakes, Peek, ReadBatch, SenderDbFails, Crash, Poll,
                    vars, dbVars, userVars
  <2> QED
      BY <2>1, Stutters
<1> QED
    BY <1>1, <1>2, <1>3, <1>4, <1>5, <1>6, <1>7, <1>8 DEF Next, SenderLocked

\* Delivery implements ReplyPromise: every step of the pipeline, the outbox
\* and the sender makes a promise, keeps one, gives up late ones or leaves
\* them alone; as long as flushes end in time.
THEOREM ImplementsPromise == PromptFlush => (Spec => KeepsPromises)
<1>1. DeliveryInv /\ DeliveryInv' /\ [Next]_vars
        => [Promise!Next]_<<Report, Late>>
      BY PromiseStepMaps
<1> QED
    BY <1>1, PromiseInitMaps, DeliveryIsInv, PTL
    DEF Spec, KeepsPromises, Promise!Spec, Report, Late
=============================================================================
