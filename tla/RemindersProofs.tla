--------------------------- MODULE RemindersProofs ---------------------------
(* Proofs about Reminders, for any users and any number of days. *)
EXTENDS Reminders, TLAPS

USE DEF Days

\* Every reminder that arrived left its mark, so that a mark tells a later
\* run what earlier runs sent.
ArrivedIsMarked ==
  \A u \in Users, d \in Days : received[u][d] > 0 => lastSent[u] >= d

\* The reminder on its way is marked, and is the first one of its date.
OnItsWay ==
  pc = "deliver" => /\ turn \in Users
                    /\ received[turn][today] = 0
                    /\ lastSent[turn] >= today

Inv == TypeOK /\ AtMostOnceADay /\ ArrivedIsMarked /\ OnItsWay

-----------------------------------------------------------------------------
LEMMA RemindersInit == Init => Inv
<1>. SUFFICES ASSUME Init PROVE Inv
  OBVIOUS
<1>. USE DEF Init
<1>1. TypeOK
  BY ConstantAssumption DEF TypeOK, PCs
<1>2. AtMostOnceADay /\ ArrivedIsMarked
  BY DEF AtMostOnceADay, ArrivedIsMarked
<1>3. OnItsWay
  BY DEF OnItsWay
<1>. QED
  BY <1>1, <1>2, <1>3 DEF Inv

\* What a step of the others, of the clock and of a restart leaves alone.
LEMMA Unsent ==
  ASSUME Inv, UNCHANGED <<lastSent, received>>, pc' # "deliver"
  PROVE  AtMostOnceADay' /\ ArrivedIsMarked' /\ OnItsWay'
BY DEF Inv, AtMostOnceADay, ArrivedIsMarked, OnItsWay

LEMMA SameTurn ==
  ASSUME Inv, UNCHANGED <<lastSent, received, turn, today, pc>>
  PROVE  AtMostOnceADay' /\ ArrivedIsMarked' /\ OnItsWay'
BY DEF Inv, AtMostOnceADay, ArrivedIsMarked, OnItsWay

LEMMA RemindersStep == Inv /\ [Next]_vars => Inv'
<1>. SUFFICES ASSUME Inv, [Next]_vars PROVE Inv'
  OBVIOUS
<1>. USE ConstantAssumption
<1>t. TypeOK
  BY DEF Inv
<1>1. CASE Start
  <2>1. TypeOK'
    BY <1>t, <1>1 DEF TypeOK, PCs, Start
  <2>2. UNCHANGED <<lastSent, received>> /\ pc' # "deliver"
    BY <1>1 DEF Start
  <2>. QED
    BY <2>1, <2>2, Unsent DEF Inv
<1>2. CASE Wake
  <2>1. TypeOK'
    BY <1>t, <1>2 DEF TypeOK, PCs, Wake
  <2>2. UNCHANGED <<lastSent, received>> /\ pc' # "deliver"
    BY <1>2 DEF Wake
  <2>. QED
    BY <2>1, <2>2, Unsent DEF Inv
<1>3. CASE Collect
  <2>1. TypeOK'
    BY <1>t, <1>3 DEF TypeOK, PCs, Collect
  <2>2. UNCHANGED <<lastSent, received>> /\ pc' # "deliver"
    BY <1>3 DEF Collect
  <2>. QED
    BY <2>1, <2>2, Unsent DEF Inv
<1>4. CASE Delivered
  <2>. USE DEF Delivered
  <2>1. turn \in Users /\ today \in Days
    BY <1>4 DEF Inv, OnItsWay, TypeOK
  <2>2. /\ received' \in [Users -> [Days -> Nat]]
        /\ \A u \in Users, d \in Days :
             received'[u][d] = IF u = turn /\ d = today THEN 1 ELSE received[u][d]
    BY <1>t, <1>4, <2>1 DEF Inv, OnItsWay, TypeOK
  <2>3. TypeOK'
    BY <1>t, <1>4, <2>2 DEF TypeOK, PCs
  <2>4. AtMostOnceADay'
    BY <2>2 DEF Inv, AtMostOnceADay
  <2>5. ArrivedIsMarked'
    BY <1>4, <2>2 DEF Inv, ArrivedIsMarked, OnItsWay
  <2>6. OnItsWay'
    BY <1>4 DEF OnItsWay
  <2>. QED
    BY <2>3, <2>4, <2>5, <2>6 DEF Inv
<1>5. CASE Lost
  <2>1. TypeOK'
    BY <1>t, <1>5 DEF TypeOK, PCs, Lost
  <2>2. UNCHANGED <<lastSent, received>> /\ pc' # "deliver"
    BY <1>5 DEF Lost
  <2>. QED
    BY <2>1, <2>2, Unsent DEF Inv
<1>6. CASE RunEnds
  <2>1. TypeOK'
    BY <1>t, <1>6 DEF TypeOK, PCs, RunEnds
  <2>2. UNCHANGED <<lastSent, received>> /\ pc' # "deliver"
    BY <1>6 DEF RunEnds
  <2>. QED
    BY <2>1, <2>2, Unsent DEF Inv
<1>7. CASE Fails
  <2>1. TypeOK'
    BY <1>t, <1>7 DEF TypeOK, PCs, Fails
  <2>2. UNCHANGED <<lastSent, received>> /\ pc' # "deliver"
    BY <1>7 DEF Fails
  <2>. QED
    BY <2>1, <2>2, Unsent DEF Inv
<1>8. ASSUME NEW u \in Users, Remind(u) PROVE Inv'
  <2>. USE <1>8 DEF Remind, StillDue, IsDue, Marked
  <2>1. today \in Days /\ lastSent[u] < today
    BY <1>t DEF TypeOK
  <2>2. /\ lastSent' \in [Users -> Days \union {Never}]
        /\ \A v \in Users : lastSent'[v] = IF v = u THEN today ELSE lastSent[v]
    BY <1>t DEF TypeOK
  <2>3. TypeOK'
    BY <1>t, <2>2 DEF TypeOK, PCs
  <2>4. AtMostOnceADay'
    BY DEF Inv, AtMostOnceADay
  <2>5. ArrivedIsMarked'
    <3>. SUFFICES ASSUME NEW v \in Users, NEW d \in Days, received[v][d] > 0
                  PROVE  lastSent'[v] >= d
      BY DEF ArrivedIsMarked
    <3>1. lastSent[v] >= d
      BY DEF Inv, ArrivedIsMarked
    <3>2. lastSent[v] \in Int
      BY <1>t DEF TypeOK
    <3>. QED
      BY <2>1, <2>2, <3>1, <3>2
  <2>6. received[u][today] = 0
    <3>1. received[u][today] \in Nat /\ lastSent[u] \in Int
      BY <1>t DEF TypeOK
    <3>2. received[u][today] > 0 => lastSent[u] >= today
      BY <2>1 DEF Inv, ArrivedIsMarked
    <3>. QED
      BY <2>1, <3>1, <3>2
  <2>7. OnItsWay'
    BY <2>1, <2>2, <2>6 DEF OnItsWay
  <2>. QED
    BY <2>3, <2>4, <2>5, <2>7 DEF Inv
<1>9. ASSUME NEW u \in Users, NoLongerDue(u) PROVE Inv'
  <2>1. TypeOK'
    BY <1>t, <1>9 DEF TypeOK, PCs, NoLongerDue
  <2>2. UNCHANGED <<lastSent, received, turn, today, pc>>
    BY <1>9 DEF NoLongerDue
  <2>. QED
    BY <2>1, <2>2, SameTurn DEF Inv
<1>10. ASSUME NEW u \in Users, StatusChanges(u) PROVE Inv'
  <2>1. TypeOK'
    BY <1>t, <1>10 DEF TypeOK, StatusChanges
  <2>2. UNCHANGED <<lastSent, received, turn, today, pc>>
    BY <1>10 DEF StatusChanges
  <2>. QED
    BY <2>1, <2>2, SameTurn DEF Inv
<1>11. CASE ReminderTime
  <2>1. TypeOK'
    BY <1>t, <1>11 DEF TypeOK, ReminderTime
  <2>2. UNCHANGED <<lastSent, received, turn, today, pc>>
    BY <1>11 DEF ReminderTime
  <2>. QED
    BY <2>1, <2>2, SameTurn DEF Inv
<1>12. CASE Midnight
  <2>1. TypeOK'
    <3>1. day' \in Days
      BY <1>t, <1>12 DEF TypeOK, Midnight
    <3>2. past' \in BOOLEAN
      BY <1>12 DEF Midnight
    <3>3. UNCHANGED <<pc, wakeDay, today, todo, turn, overLimit, lastSent,
                      received, crashes, faults>>
      BY <1>12 DEF Midnight
    <3>. QED
      BY <1>t, <3>1, <3>2, <3>3 DEF TypeOK
  <2>2. UNCHANGED <<lastSent, received, turn, today, pc>>
    BY <1>12 DEF Midnight
  <2>. QED
    BY <2>1, <2>2, SameTurn DEF Inv
<1>13. CASE Crash
  <2>1. TypeOK'
    BY <1>t, <1>13 DEF TypeOK, PCs, Crash
  <2>2. UNCHANGED <<lastSent, received>> /\ pc' # "deliver"
    BY <1>13 DEF Crash
  <2>. QED
    BY <2>1, <2>2, Unsent DEF Inv
<1>14. CASE Sleep
  <2>1. TypeOK'
    BY <1>t, <1>14 DEF TypeOK, PCs, Sleep, NextRun
  <2>2. UNCHANGED <<lastSent, received>> /\ pc' # "deliver"
    BY <1>14 DEF Sleep
  <2>. QED
    BY <2>1, <2>2, Unsent DEF Inv
<1>15. CASE UNCHANGED vars
  <2>1. TypeOK'
    BY <1>t, <1>15 DEF TypeOK, vars
  <2>2. UNCHANGED <<lastSent, received, turn, today, pc>>
    BY <1>15 DEF vars
  <2>. QED
    BY <2>1, <2>2, SameTurn DEF Inv
<1>. QED
  BY <1>1, <1>2, <1>3, <1>4, <1>5, <1>6, <1>7, <1>8, <1>9, <1>10, <1>11,
     <1>12, <1>13, <1>14, <1>15 DEF Next, Scheduler, Turn

-----------------------------------------------------------------------------
\* The reminders stay well typed: where the loop and the turn of a user stand,
\* and whom the marks in users.last_reminder_sent_dt name.
THEOREM TypeCorrect == Spec => []TypeOK
<1>1. Inv => TypeOK
  BY DEF Inv
<1>. QED
  BY RemindersInit, RemindersStep, <1>1, PTL DEF Spec

\* No sequence of catch-up runs, early wake-ups, failures, midnights and
\* restarts sends a user two reminders for one date (mark_reminded), for any
\* number of users, days and crashes.
THEOREM RemindsOnce == Spec => []AtMostOnceADay
<1>1. Inv => AtMostOnceADay
  BY DEF Inv
<1>. QED
  BY RemindersInit, RemindersStep, <1>1, PTL DEF Spec

\* A mark is set only on a user who is due at that moment, whatever phase 1
\* saw (send_due_reminder's second check).
THEOREM RemindsTheDue == Spec => RemindsWhoIsDue
<1>1. [Next]_vars
        => [\A u \in Users : lastSent'[u] # lastSent[u] => u \in overLimit]_vars
  <2>. SUFFICES ASSUME [Next]_vars, vars' # vars, NEW u \in Users,
                       lastSent'[u] # lastSent[u]
                PROVE  u \in overLimit
    OBVIOUS
  <2>1. PICK v \in Users : Remind(v)
    BY DEF Next, Scheduler, Turn, Start, Sleep, Wake, Collect, Delivered, Lost,
           RunEnds, Fails, NoLongerDue, StatusChanges, ReminderTime, Midnight,
           Crash
  <2>2. lastSent' = [lastSent EXCEPT ![v] = today] /\ v \in overLimit
    BY <2>1 DEF Remind, Marked, StillDue, IsDue
  <2>. QED
    BY <2>2
<1>. QED
  BY <1>1, PTL DEF Spec, RemindsWhoIsDue
=============================================================================
