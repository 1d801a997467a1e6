------------------------------ MODULE Reminders ------------------------------
(***************************************************************************)
(* The daily reminder: runtime/scheduler.py decides when a run starts,     *)
(* services/reminders.py who is due, bot/notifier.py sends.                *)
(*                                                                         *)
(* A run reads the users that are due in one transaction, then opens one   *)
(* transaction per user, without the write lock of the updates, and makes  *)
(* the call to Telegram after that transaction.  Updates, midnights and    *)
(* crashes fall between all of these.  A step that is one transaction is   *)
(* one action: SQLite runs one BEGIN IMMEDIATE at a time.                  *)
(***************************************************************************)
EXTENDS Integers, FiniteSets

CONSTANTS
  Users,
  Nobody,      \* no user's turn
  Never,       \* last_reminder_sent_dt is NULL
  MaxDay,      \* bound on local days
  MaxCrashes, MaxFaults  \* bounds on crashes and on failed transactions

Days == 0..MaxDay

ASSUME ConstantAssumption ==
  /\ MaxDay \in Nat /\ MaxCrashes \in Nat /\ MaxFaults \in Nat
  /\ Nobody \notin Users
  /\ Never = -1

VARIABLES
  day, past,   \* the local date; its REMINDER_TIME has come
  pc,          \* where run_reminder_scheduler stands
  wakeDay,     \* the day at whose REMINDER_TIME the sleep ends
  today,       \* the date send_due_reminders read when its run began
  todo,        \* users of the run whose turn has not come
  turn,        \* the user whose message is recorded and not sent yet
  overLimit,   \* users whose status is over limit, or past its resource
  lastSent,    \* users.last_reminder_sent_dt
  received,    \* received[u][d]: reminders for day d that reached u
  crashes, faults

vars == <<day, past, pc, wakeDay, today, todo, turn, overLimit, lastSent,
          received, crashes, faults>>

PCs == {"start", "loop", "asleep", "collect", "users", "deliver"}

TypeOK ==
  /\ day \in Days /\ past \in BOOLEAN
  /\ pc \in PCs
  /\ wakeDay \in 0..(MaxDay + 1)
  /\ today \in Days
  /\ todo \subseteq Users
  /\ turn \in Users \union {Nobody}
  /\ overLimit \subseteq Users
  /\ lastSent \in [Users -> Days \union {Never}]
  /\ received \in [Users -> [Days -> Nat]]
  /\ crashes \in 0..MaxCrashes /\ faults \in 0..MaxFaults

Init ==
  /\ day = 0 /\ past \in BOOLEAN
  /\ pc = "start"
  /\ wakeDay = 0 /\ today = 0
  /\ todo = {} /\ turn = Nobody
  /\ overLimit \in SUBSET Users
  /\ lastSent = [u \in Users |-> Never]
  /\ received = [u \in Users |-> [d \in Days |-> 0]]
  /\ crashes = 0 /\ faults = 0

-----------------------------------------------------------------------------
(* scheduler.py: when *)

\* (Mutant: no catch-up run when the process starts late in the day.)
NoCatchUp == FALSE

\* is_past_reminder_time
CatchesUp == past

\* seconds_until_next_run
NextRun == IF past THEN day + 1 ELSE day

\* The clock is read here, and again to compute the sleep.
Start ==
  /\ pc = "start"
  /\ pc' = IF CatchesUp THEN "collect" ELSE "loop"
  /\ UNCHANGED <<day, past, wakeDay, today, todo, turn, overLimit, lastSent,
                 received, crashes, faults>>

Sleep ==
  /\ pc = "loop"
  /\ pc' = "asleep"
  /\ wakeDay' = NextRun
  /\ UNCHANGED <<day, past, today, todo, turn, overLimit, lastSent, received,
                 crashes, faults>>

\* The sleep is measured on another clock than the one it was computed from:
\* on the day the clocks go back it ends an hour early, and a run is made
\* then as well as at REMINDER_TIME.
Wake ==
  /\ pc = "asleep"
  /\ day >= wakeDay
  /\ pc' = "collect"
  /\ UNCHANGED <<day, past, wakeDay, today, todo, turn, overLimit, lastSent,
                 received, crashes, faults>>

-----------------------------------------------------------------------------
(* reminders.py: who *)

IsDue(u, date) == u \in overLimit /\ lastSent[u] < date

\* Phase 1: due_user_ids, with the date of the whole run.
Collect ==
  /\ pc = "collect"
  /\ today' = day
  /\ todo' = {u \in Users : IsDue(u, day)}
  /\ pc' = "users"
  /\ UNCHANGED <<day, past, wakeDay, turn, overLimit, lastSent, received,
                 crashes, faults>>

\* (Mutants: no second check; no mark; a mark that says until when.)
StillListed(u) == TRUE

Unmarked(u) == lastSent

MarkedUntil(u) == [lastSent EXCEPT ![u] = today + 1]

StillDue(u) == IsDue(u, today)

Marked(u) == [lastSent EXCEPT ![u] = today]

\* Phase 2, the transaction of one user: the message is recorded, the mark
\* committed.
Remind(u) ==
  /\ pc = "users"
  /\ u \in todo
  /\ todo' = todo \ {u}
  /\ StillDue(u)
  /\ lastSent' = Marked(u)
  /\ turn' = u
  /\ pc' = "deliver"
  /\ UNCHANGED <<day, past, wakeDay, today, overLimit, received, crashes,
                 faults>>

\* In the meantime the user rode, rotated, or was reminded by an earlier run.
NoLongerDue(u) ==
  /\ pc = "users"
  /\ u \in todo
  /\ todo' = todo \ {u}
  /\ ~StillDue(u)
  /\ UNCHANGED <<day, past, pc, wakeDay, today, turn, overLimit, lastSent,
                 received, crashes, faults>>

\* A transaction fails, "database is locked" included: one user's failure is
\* only theirs, one of phase 1 ends the run.
Fails ==
  /\ faults < MaxFaults
  /\ faults' = faults + 1
  /\ \/ /\ pc = "users"
        /\ \E u \in todo : todo' = todo \ {u}
        /\ UNCHANGED pc
     \/ /\ pc = "collect"
        /\ pc' = "loop"
        /\ UNCHANGED todo
  /\ UNCHANGED <<day, past, wakeDay, today, turn, overLimit, lastSent,
                 received, crashes>>

-----------------------------------------------------------------------------
(* notifier.py: the call, after the transaction *)

Delivered ==
  /\ pc = "deliver"
  /\ received' = [received EXCEPT ![turn][today] = @ + 1]
  /\ turn' = Nobody
  /\ pc' = "users"
  /\ UNCHANGED <<day, past, wakeDay, today, todo, overLimit, lastSent,
                 crashes, faults>>

\* Responder.flush logs a failed call and goes on; nothing was persisted that
\* could be sent again.
Lost ==
  /\ pc = "deliver"
  /\ turn' = Nobody
  /\ pc' = "users"
  /\ UNCHANGED <<day, past, wakeDay, today, todo, overLimit, lastSent,
                 received, crashes, faults>>

RunEnds ==
  /\ pc = "users"
  /\ todo = {}
  /\ pc' = "loop"
  /\ UNCHANGED <<day, past, wakeDay, today, todo, turn, overLimit, lastSent,
                 received, crashes, faults>>

-----------------------------------------------------------------------------
(* Updates, the clock and the process *)

\* An update of u's is applied: a ride, a rotation, a retirement, another
\* limit or another current group.
StatusChanges(u) ==
  /\ overLimit' = IF u \in overLimit THEN overLimit \ {u} ELSE overLimit \union {u}
  /\ UNCHANGED <<day, past, pc, wakeDay, today, todo, turn, lastSent, received,
                 crashes, faults>>

ReminderTime ==
  /\ ~past
  /\ past' = TRUE
  /\ UNCHANGED <<day, pc, wakeDay, today, todo, turn, overLimit, lastSent,
                 received, crashes, faults>>

\* A day is long: a sleep that is over does not outlast it.
Midnight ==
  /\ past
  /\ day < MaxDay
  /\ pc = "asleep" => day < wakeDay
  /\ day' = day + 1
  /\ past' = FALSE
  /\ UNCHANGED <<pc, wakeDay, today, todo, turn, overLimit, lastSent,
                 received, crashes, faults>>

Crash ==
  /\ crashes < MaxCrashes
  /\ crashes' = crashes + 1
  /\ pc' = "start"
  /\ todo' = {} /\ turn' = Nobody
  /\ UNCHANGED <<day, past, wakeDay, today, overLimit, lastSent, received,
                 faults>>

Turn(u) == Remind(u) \/ NoLongerDue(u)

Scheduler ==
  \/ Start \/ Sleep \/ Wake \/ Collect \/ Delivered \/ Lost \/ RunEnds \/ Fails
  \/ \E u \in Users : Turn(u)

Next ==
  \/ Scheduler
  \/ \E u \in Users : StatusChanges(u)
  \/ ReminderTime \/ Midnight
  \/ Crash

Spec == Init /\ [][Next]_vars

\* The event loop serves the scheduler, a call ends by its timeout, and the
\* clock reaches REMINDER_TIME.  Nothing is assumed of midnight or of updates.
\* Before its time a sleep may end, and need not.
FairSpec ==
  /\ Spec
  /\ WF_vars(Scheduler /\ (pc = "asleep" => past))
  /\ WF_vars(ReminderTime)

-----------------------------------------------------------------------------
(* Properties *)

\* However often runs are made, by catch-ups, early wake-ups, restarts and
\* over midnight, a user gets at most one reminder per date (mark_reminded).
AtMostOnceADay == \A u \in Users, d \in Days : received[u][d] <= 1

\* The status a user is reminded of is not the one phase 1 saw: somebody who
\* rode or rotated before their turn is not reminded (send_due_reminder).
RemindsWhoIsDue ==
  [][\A u \in Users : lastSent'[u] # lastSent[u] => u \in overLimit]_vars

HadTurn(u, d) == lastSent[u] >= d \/ u \notin overLimit \/ day > d

\* Whoever is due while the scheduler sleeps towards today's REMINDER_TIME,
\* or when the process starts after it, has their turn that day; or else a
\* transaction fails from then on, or the process starts once more before the
\* time (run_reminder_scheduler, D19).
NobodyForgotten ==
  \A u \in Users, d \in Days, f \in 0..MaxFaults :
    (/\ day = d /\ faults = f
     /\ IsDue(u, d)
     /\ (pc = "start" /\ past) \/ (pc = "asleep" /\ wakeDay <= d))
      ~> (HadTurn(u, d) \/ faults > f \/ (pc = "start" /\ ~past))

\* What send_due_reminder says: a failed send leaves no mark, so that the
\* reminder is not silently dropped for the day.
MarkedIsReminded ==
  \A u \in Users :
    lastSent[u] # Never =>
      received[u][lastSent[u]] > 0 \/ turn = u \/ crashes > 0
=============================================================================
