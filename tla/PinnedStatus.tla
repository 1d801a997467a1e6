---------------------------- MODULE PinnedStatus ----------------------------
(***************************************************************************)
(* The pinned status message of one chat: Responder.sync_pinned and        *)
(* _do_sync_pinned (bot/ui.py), StatusService.build, UserService's         *)
(* pinned_message_id and the part of WriteLockMiddleware._settle that      *)
(* stores it.                                                              *)
(*                                                                         *)
(* A handler that changed the status records its text and the id of the    *)
(* pinned message as its transaction sees them.  The message is edited, or *)
(* sent and pinned, after the commit and without the lock, while other     *)
(* updates of the chat go on; the id of a new one is stored in a           *)
(* transaction of its own.  A scope is one step, its commit: one that is   *)
(* rolled back records nothing.  A text is the version of the status it    *)
(* shows.                                                                  *)
(***************************************************************************)
EXTENDS Integers, FiniteSets

CONSTANTS
  Tasks,       \* the updates that change the status and sync it
  MaxVersion,  \* bound on the changes of the status
  MaxMessage,  \* bound on the status messages sent
  MaxLosses,   \* bound on calls that fail, carried out or not
  MaxFaults,   \* bound on follow-up transactions that fail
  MaxDeleted,  \* bound on the messages the user deletes
  MaxCrashes   \* bound on crashes

ASSUME ConstantAssumption ==
  /\ IsFiniteSet(Tasks)
  /\ {MaxVersion, MaxMessage, MaxLosses, MaxFaults, MaxDeleted, MaxCrashes}
       \subseteq Nat

VARIABLES
  version,  \* of the committed status
  known,    \* users.pinned_message_id, 0 = NULL
  pc,       \* pc[t]: where the flush of t stands
  sync,     \* sync[t]: the PinnedSync t has recorded
  made,     \* made[t]: Responder.pinned_updates, 0 = empty
  sent,     \* the status messages Telegram has accepted so far are 1..sent
  text,     \* text[m]: the version that message m shows
  gone,     \* the messages the user has deleted
  alone,    \* tasks during which no other task of the chat ran
  floor,    \* the first version committed since tasks of the chat run
  smooth,   \* no lost call, failed transaction, deletion or crash since then
  excess,   \* status messages the code admits to creating in excess
  losses, faults, crashes

vars == <<version, known, pc, sync, made, sent, text, gone, alone, floor,
          smooth, excess, losses, faults, crashes>>
bounds == <<losses, faults, crashes>>

Versions == 0..MaxVersion
Ids == 1..MaxMessage
PCs == {"new", "edit", "send", "pin", "settle", "done"}
PinnedSync == [text : Versions, known : Ids \union {0}]

TypeOK ==
  /\ version \in Versions
  /\ known \in Ids \union {0}
  /\ pc \in [Tasks -> PCs]
  /\ sync \in [Tasks -> PinnedSync]
  /\ made \in [Tasks -> Ids \union {0}]
  /\ sent \in Ids \union {0}
  /\ text \in [Ids -> Versions]
  /\ gone \subseteq 1..sent
  /\ alone \subseteq Tasks /\ floor \in Versions /\ smooth \in BOOLEAN
  /\ excess \in Nat
  /\ losses \in 0..MaxLosses /\ faults \in 0..MaxFaults
  /\ crashes \in 0..MaxCrashes

Init ==
  /\ version = 0
  /\ known = 0
  /\ pc = [t \in Tasks |-> "new"]
  /\ sync = [t \in Tasks |-> [text |-> 0, known |-> 0]]
  /\ made = [t \in Tasks |-> 0]
  /\ sent = 0
  /\ text = [m \in Ids |-> 0]
  /\ gone = {}
  /\ alone = {} /\ floor = 0 /\ smooth = TRUE
  /\ excess = 0
  /\ losses = 0 /\ faults = 0 /\ crashes = 0

Running == {t \in Tasks : pc[t] \notin {"new", "done"}}
Alive == 1..sent \ gone

-----------------------------------------------------------------------------
(* Under the lock *)

\* (Mutant: the known id is left out.)
ReadsText == [text |-> version + 1]

\* sync_pinned: the text with the handler's own change, and the known id.
Reads == [text |-> version + 1, known |-> known]

\* A ride recorded, edited or deleted, a chain added, rotated or retired, the
\* current group set, a user onboarded: a change that is synced commits.
Change(t) ==
  /\ pc[t] = "new"
  /\ version < MaxVersion
  /\ version' = version + 1
  /\ sync' = [sync EXCEPT ![t] = Reads]
  /\ pc' = [pc EXCEPT ![t] = IF known = 0 THEN "send" ELSE "edit"]
  /\ IF Running = {}
     THEN alone' = {t} /\ floor' = version + 1 /\ smooth' = TRUE
     ELSE alone' = {} /\ UNCHANGED <<floor, smooth>>
  /\ UNCHANGED <<known, made, sent, text, gone, excess, bounds>>

\* A limit or a resource is set: the status shows it, and is not synced.
ChangeUnsynced ==
  /\ version < MaxVersion
  /\ version' = version + 1
  /\ UNCHANGED <<known, pc, sync, made, sent, text, gone, alone, floor,
                 smooth, excess, bounds>>

-----------------------------------------------------------------------------
(* The flush, without the lock *)

\* The sync of t is over; there is something to store if a message was sent.
Over(t) ==
  pc' = [pc EXCEPT ![t] = IF made[t] = 0 THEN "done" ELSE "settle"]

\* A call fails with a TelegramAPIError, which is logged; Telegram may have
\* carried it out all the same.
Loses(t) ==
  /\ losses < MaxLosses
  /\ losses' = losses + 1
  /\ smooth' = FALSE
  /\ Over(t)
  /\ UNCHANGED <<faults, crashes>>

Shows(m, v) == text' = [text EXCEPT ![m] = v]

\* The edit succeeds, or the message is not modified.
Edits(t) ==
  /\ pc[t] = "edit" /\ sync[t].known \notin gone
  /\ Shows(sync[t].known, sync[t].text)
  /\ Over(t)
  /\ UNCHANGED <<version, known, sync, made, sent, gone, alone, floor, smooth,
                 excess, bounds>>

EditLost(t) ==
  /\ pc[t] = "edit"
  /\ \/ Shows(sync[t].known, sync[t].text) /\ sync[t].known \notin gone
     \/ UNCHANGED text
  /\ Loses(t)
  /\ UNCHANGED <<version, known, sync, made, sent, gone, alone, floor,
                 excess>>

\* (Mutant: the sync ends here, as for any other error.)
GivesUpOnGone(t) ==
  /\ pc[t] = "edit" /\ sync[t].known \in gone
  /\ Over(t)
  /\ UNCHANGED <<version, known, sync, made, sent, text, gone, alone, floor,
                 smooth, excess, bounds>>

\* TelegramBadRequest: the message was deleted, and is recreated.
EditRejected(t) ==
  /\ pc[t] = "edit" /\ sync[t].known \in gone
  /\ pc' = [pc EXCEPT ![t] = "send"]
  /\ UNCHANGED <<version, known, sync, made, sent, text, gone, alone, floor,
                 smooth, excess, bounds>>

\* Telegram accepts a new status message.  It is one too many if its task
\* could not know of another one, or cannot be told of this one.
Appears(t, toomany) ==
  /\ pc[t] = "send"
  /\ sent < MaxMessage
  /\ sent' = sent + 1
  /\ Shows(sent + 1, sync[t].text)
  /\ excess' = IF toomany THEN excess + 1 ELSE excess
  /\ UNCHANGED <<version, known, sync, gone, alone, floor>>

\* (Mutant: the id is recorded once the message is pinned, which may fail.)
SendsRecordsLate(t) ==
  /\ Appears(t, t \notin alone)
  /\ made' \in {made, [made EXCEPT ![t] = sent + 1]}
  /\ pc' = [pc EXCEPT ![t] = "pin"]
  /\ UNCHANGED <<smooth, bounds>>

\* The id is recorded before the message is pinned.
Sends(t) ==
  /\ Appears(t, t \notin alone)
  /\ made' = [made EXCEPT ![t] = sent + 1]
  /\ pc' = [pc EXCEPT ![t] = "pin"]
  /\ UNCHANGED <<smooth, bounds>>

SendLost(t) ==
  /\ \/ Appears(t, TRUE)
     \/ /\ pc[t] = "send"
        /\ UNCHANGED <<version, known, sync, sent, text, gone, alone, floor,
                 excess>>
  /\ Loses(t)
  /\ UNCHANGED made

\* pin_chat_message, whether it succeeds or not.
Pins(t) ==
  /\ pc[t] = "pin"
  /\ Over(t)
  /\ UNCHANGED <<version, known, sync, made, sent, text, gone, alone, floor,
                 smooth, excess, bounds>>

Flush(t) ==
  Edits(t) \/ EditLost(t) \/ EditRejected(t) \/ Sends(t) \/ SendLost(t) \/ Pins(t)

-----------------------------------------------------------------------------
(* The follow-up transaction, and the world *)

\* UserService.set_pinned_message_id
Settle(t) ==
  /\ pc[t] = "settle"
  /\ known' = made[t]
  /\ made' = [made EXCEPT ![t] = 0]
  /\ pc' = [pc EXCEPT ![t] = "done"]
  /\ UNCHANGED <<version, sync, sent, text, gone, alone, floor, smooth,
                 excess, bounds>>

\* Logged: the next sync sends another message.
SettleFails(t) ==
  /\ pc[t] = "settle"
  /\ faults < MaxFaults
  /\ faults' = faults + 1
  /\ pc' = [pc EXCEPT ![t] = "done"]
  /\ smooth' = FALSE
  /\ excess' = excess + 1
  /\ UNCHANGED <<version, known, sync, made, sent, text, gone, alone, floor,
                 losses, crashes>>

\* The user deletes a message, for both sides of the chat.
Delete(m) ==
  /\ Cardinality(gone) < MaxDeleted
  /\ gone' = gone \union {m}
  /\ smooth' = FALSE
  /\ UNCHANGED <<version, known, pc, sync, made, sent, text, alone, floor,
                 excess, bounds>>

\* Flushes and what they have not stored yet are lost.
Crash ==
  /\ crashes < MaxCrashes
  /\ crashes' = crashes + 1
  /\ excess' = excess + Cardinality({t \in Running : made[t] # 0})
  /\ pc' = [t \in Tasks |-> IF t \in Running THEN "done" ELSE pc[t]]
  /\ made' = [t \in Tasks |-> 0]
  /\ smooth' = FALSE
  /\ UNCHANGED <<version, known, sync, sent, text, gone, alone, floor, losses,
                 faults>>

Next ==
  \/ \E t \in Tasks : Change(t) \/ Flush(t) \/ Settle(t) \/ SettleFails(t)
  \/ ChangeUnsynced
  \/ \E m \in Alive : Delete(m)
  \/ Crash

Spec == Init /\ [][Next]_vars

-----------------------------------------------------------------------------
(* Properties *)

\* The status "rebuilds itself on the next update" (D10): whatever failures of
\* the past have left behind, once syncs go through again the stored id names
\* a message that exists, and it shows a status at least as new as the first
\* of the syncs that overlapped, the very status if it was alone; a late flush
\* may put an older text over a newer one, but not the text of before.
HealsWhenCalm ==
  [][Running # {} /\ Running' = {} /\ smooth' =>
       known' \in Alive /\ text'[known'] >= floor]_vars

\* The chat does not fill up with status messages (_do_sync_pinned: "a pin
\* failure must not orphan the message and make every later sync create yet
\* another one"): beyond one, each is due to an answer that was lost, an id
\* whose transaction failed or died, or a sync that overlapped another.
OneMessageOrExcess == Cardinality(Alive) <= 1 + excess
=============================================================================
