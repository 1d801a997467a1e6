# chain-health: TLA+ model

A formal model of the chain-health Telegram bot: how an update becomes one
committed change and one reply, how rides and rotations add up to mileage, and
how daily reminders are sent. Small instances are model-checked with TLC; the
theorems are proved with TLAPS for every value of the constants. `PROJECT.json`
maps every definition to the lines it models.

Paths below are relative to `src/src/chain_health/`; *Dn* is the decision of that
number in `src/docs/ARCHITECTURE.md`.

## The system

One asyncio process, one SQLite database, one Telegram chat per user. Three
loops run side by side: aiogram's poller with one task per update, the outbox
sender, and the reminder scheduler (and the watchdog, which only reports that
the others are alive). They share the database, the write lock (updates and the
sender, *not* the scheduler) and the Telegram API.

| Component | State | Operations | What makes it correct |
|---|---|---|---|
| Update pipeline (`bot/middlewares.py`, `di.py`, `__main__.py`) | the write lock, the open transaction, `processed_updates`, when marks were last swept | drop what is not from a private chat; lock; open a scope; drop a redelivery; refuse a stranger; run the handler; mark; commit or roll back; flush; follow-up transaction | a change is committed once however often its update is delivered; a failure before the commit leaves nothing, one after it is not reported as a failure; the lock is always released |
| Outbox and sender (`bot/ui.py`, `runtime/outbox.py`) | `outbox_messages`; the calls and delivered ids of each Responder; the sender's batch and unwritten outcome | persist, flush; read a batch, send it, write its outcome; purge | a committed report reaches the user or is given up for a named reason; a row known to be sent is not sent again; the queue drains |
| Garage (`services/garage.py` and its handlers) | `groups`, `chains`, `rotations`, `users.current_group_id` | create a group, add a chain, onboard, switch, rotate, retire | one active chain per group after every statement; an active chain is usable; nobody touches another's rows |
| Rides and cycles (`services/rides.py`, `services/mileage.py`) | `rides` | record, edit, delete; total and cycle | a cycle holds what an odometer zeroed at the last rotation would |
| Reminders (`runtime/scheduler.py`, `services/reminders.py`, `bot/notifier.py`) | `users.last_reminder_sent_dt`, where the loop stands | catch up, sleep, collect, re-check one user, mark, send | at most one reminder per user and date; only to somebody who is due now; nobody forgotten |
| Dialogs (`bot/dialogs.py`, `bot/states.py`, `bot/errors.py`) | FSM state and data per chat, in memory | open, ask again, answer, leave, clear on error | state and data go together; an answer is applied once, to what its dialog was opened for |
| Access and invites (`services/access.py`) | `users`, `invites` | register, allow, invite, redeem | nobody gets in unvouched for; an invite lets in one person, before it expires, and is spent on nobody else |
| Pinned status (`bot/ui.py`) | `users.pinned_message_id`, the message in the chat | edit, or send, pin and remember | it heals once syncs go through again; the chat does not fill up with status messages |
| Watchdog (`runtime/watchdog.py`) | none of its own | probe, report | a hung loop is not reported alive |
| Presentation, configuration, migrations | none | wording, keyboards, parsing | – |

Interactions: a middleware opens the scope in which a handler calls services
and records calls in a Responder; the Responder writes its durable call to the
outbox in the same transaction, and makes the calls after the commit, without
the lock; the sender finds what was not delivered; on_error speaks to the user
when the scope failed. The scheduler uses the same services and a Responder of
its own, but neither the lock nor the outbox.

What is hard about it, and hardly reached by a test: Telegram delivers an
update again when the process dies before confirming it; a transaction commits
and the follow-up does not; the flush of one update, the handler of the next and
the sender interleave; ids read in one transaction are used in a later one
after the row is gone and its id given away; an answer of Telegram is lost
although the message went out; midnight falls between any two steps; every
button ever sent is still in the chat. `PROJECT.json` lists these hazards at
their lines, with the properties that would notice each.

## Modules

| Module | Extends / uses | Role |
|---|---|---|
| `Delivery` | `ReplyPromise` (refined) | pipeline, outbox, sender |
| `ReplyPromise` | | what the bot promises about one reply |
| `Access` | | gates, invites, admin commands |
| `Garage` | `Odometer` (refined) | groups, chains, rotations, rides |
| `Odometer` | | what a mileage should be |
| `Reminders` | | scheduler and reminder service |
| `Dialogs` | | FSM context of one chat |
| `PinnedStatus` | | pinned message of one chat |
| `DeliveryProofs`, `AccessProofs`, `GarageProofs`, `RemindersProofs`, `DialogsProofs`, `PinnedProofs` | their module | proofs |
| `OutboxProofs` | `DeliveryProofs` | proof that `Delivery` implements `ReplyPromise` |
| `OdometerProofs` | `GarageProofs` | proof that `Garage` implements `Odometer` |
| `MCDelivery`, `MCAccess`, `MCGarage`, `MCReminders`, `MCDialogs`, `MCPinned` | their module | constants for TLC |

Operators marked *(Mutant: ...)* in a module are wrong variants of the operator
defined after them, used only to test that the properties can fail.

### Delivery

Pipeline, outbox and sender are one module because their guarantees only hold
between them. A section of code that holds the lock and makes one transaction is
one action, except the scope of an update, which is split into lock, handler and
commit: the sender's `Peek` reads the table without the lock, a crash falls
anywhere, and a failure (`Fails`) may come before or at the commit.

| Code | Variable or action |
|---|---|
| Telegram's queue and getUpdates confirmation | `kept`, `Poll` |
| `WriteLockMiddleware.lock`; the scope's session | `lock`, `Acquire`; `tx` |
| `IdempotencyMiddleware` | `DropRedelivery`, the mark in `tx` |
| handler, `Responder.persist` | `RunHandler` (the row's id by SQLite's rule, `IsNextId`) |
| commit, or rollback and `on_error` | `Commit`, `Fails` |
| `Responder.flush` | `FlushSends`, `FlushLoses`, `FlushStale`, `EditStale`, `FlushEdits` |
| the `StaleMessageError` that flush holds back and raises at its end, through `_settle` to `on_error` | `stale`, `Ending` |
| `_settle` | `SkipSettle`, `Settle`, `SettleFails` |
| `run_sender`, `deliver_batch`, `_apply_outcome`, `purge_expired` | `SenderWakes`, `Peek`, `ReadBatch`, `Sends`, `SendFails`, `IsToldToWait`, `GivesUp`, `BackoffOverflows`, `RecordOutcome`, `Purge`, `SenderDbFails` |
| clock, process | `Tick`, `Crash` |

`owed`, `told`, `hopeless` record what the user was owed and has heard,
`recovered` which updates were applied before the process last died; no action
reads them. The code cannot know of a lost answer: a failed call puts the update
into `told` or not.

A task ends in one of three ways, `Endings`. *Done*: nothing reached `on_error`.
*Failed*: the scope raised, was rolled back, and `on_error` speaks of an error.
*Stale*: Telegram rejected a message of the flush. The exception is raised once the
rest of the queue is out, the follow-up runs in a finally block, and only then does
`on_error` answer, with `ERR_STALE_MESSAGE`; the change is committed by then.

Abstractions. A handler is the queue of calls it records, at most one of them
durable, as in every handler of the bot. Time is ticks of at least
`OUTBOX_GRACE`; an instant is kept as what the code compares, and a delay Telegram
names may be less than a tick, so that a row is tried again at once. The calls of a
pinned sync fail with a TelegramAPIError only: any other exception of aiogram would
drop the rest of the queue (the row stays, the sender finds it) and reach `on_error`
behind the commit, with the words for an unexpected error. Attempts are counted up
to `MAX_ATTEMPTS`, beyond which nothing tells them apart. Sections under the lock
take milliseconds, so no tick falls into one; a flush is network calls and may last
`FLUSH` ticks. Whom `AuthMiddleware` refuses is in `Access`, the id a
recreated pinned message leaves to `_settle` in `PinnedStatus`: either only
shortens a path that is here already.

### ReplyPromise

A report is owed by the commit of its change, then told, or dropped when late
(older than `TTL` or rejected for good); a message may still get through after it
was dropped. `Delivery!Promise` maps each update to one of the four states;
`KeepsPromises` says that every step of the system is one of the promise or a
stutter, `ResolvesPromises` adds that nothing stays owed for ever.

### Access

Within the lock there is one transaction, so the scope of an update is one
action: the commit, or nothing (`Fail`). What remains is the order in which updates
are handled, confirmed and delivered again, and what changes between: the
clock, the tables, ADMIN_IDS.

| Code | Variable or action |
|---|---|
| `users`, `invites`, `processed_updates`; `Settings.admin_ids` | `users`, `invites`, `marks`; `admins` |
| `PrivateChatOnlyMiddleware`; `IdempotencyMiddleware` | `DropGroup`; `DropRedelivery`, the mark in `Commits` |
| `is_admin`, `is_allowed`, `ensure_registered` | `IsAdmin`, `IsAllowed`, `Commits` |
| `AuthMiddleware` | `Deny`, `Redeem`, `Handled` |
| `redeem_invite`: WHERE; UPDATE | `Matches`; `Claim` |
| `cmd_invite`, `create_invite`; `cmd_allow`, `allow_user` | `CreateInvite`, `NewInvite`; `AllowUser` |
| every other handler | `Serve` |
| getUpdates and its confirmation; a restart | `Arrive`, `Confirm`; `Restart` |

`entered` and `trusted` record who was let in by which invite and who has ever
been an admin; no action reads them. A former admin keeps the `users` row of
their first contact and stays in; their open invites stay good
(`EveryoneWasVouchedFor` says *was*). Usernames and the denial logs, which choose a
log level, are left out. `users.invited_by` (db/models.py:50) is never written.

### Dialogs

One chat. aiogram's FSM middleware reads the state when an update arrives
(`seen`); its handler runs when the lock is free and reads the data of that
moment. The database part of a scope does not touch the context, so a scope is
one action.

| Code | Variable or action |
|---|---|
| FSMContext | `state`, `data`; `SetState`, `UpdateData`, `Clear` |
| tasks waiting for the lock, in order | `queue`, `Arrive`, `IsNext` |
| `start_edit_dialog` and its five callers, `cb_group_add`, `/start` | `OpenDialog`, `OpenAddGroup`, `Start` |
| handlers that leave a dialog | `Escape` |
| fsm_* and onboarding handlers | `AnswerWithData`, `AnswerAddGroup`, `AnswerGroupName`, `Retry`, `DataIsGone`, `RideIsGone` |
| `add_mileage`; no handler | `RecordRide`; `NobodyAnswers` |
| `Responder.flush`; `on_error` | `FlushShows`, `FlushLoses`, `FlushRejected`; `OnError` |
| a scope that fails before or after it wrote the context | `FailsEarly`, `FailsLate` |

`prompt`, `asked`, `done` and `quiet` record what was shown, what a dialog is
about, what was done and whether the user waited. Texts are the four kinds that
handlers tell apart.

Seen and left without a run: two quick answers to "add a group" make two groups,
since that dialog needs no data; an answer whose commit failed has cleared its
dialog all the same, so a number typed again is a ride; the late on_error of an
older update clears a dialog that a newer one has opened and shown.

### PinnedStatus

One chat, updates that change its status and sync it. `Change` is the scope: it
records text (the version of the status) and known id. Flushes (`Edits`,
`EditRejected`, `Sends`, `Pins`, and `EditLost`, `SendLost` for answers that do
not come) and follow-ups (`Settle`, `SettleFails`) of several updates overlap.
`alone`, `floor`, `smooth` and `excess` record what the properties allow for: an
overlap, the first of the overlapping versions, a fault, a message too many.

Seen and left without a run: a late flush puts an older text over a newer one
until the next sync; a limit, a resource and a further group change the status
without a sync (`ChangeUnsynced`); a message whose pin failed is edited from then
on and never pinned again, although D10 says that it rebuilds itself; a message the
user deletes for their own side only is edited out of sight.

### Garage and Odometer

The request scope is serialized by the lock, so an operation is one action; the
statements by which a rotation reaches the database (`plan`, `Statement`) are
actions of their own, because the partial unique index is checked after each.
Buttons are not limited to what the bot would offer now. Rides carry what the
code compares, a local date and an instant, and are recorded and rotated around
`NextDay` in any order. Mileages are sums over sets of rides, so the sets stand
for them: `CycleOf` is `_cycle_predicate`, `RidesOf` the total.

`Odometer` has neither dates nor instants: a ride joins the cycle of the mounted
chain, mounting a chain moves its cycle to the past. `KeepsOdometer` shows that
the query over dates and instants computes exactly that. It relies on two facts
of the code: an activation reads the clock once for date and instant, and a
button of the chain already mounted is refused (`MayRotate`).

### Reminders

`Start`, `Sleep`, `Wake`, `Collect`, then per user `Remind` or `NoLongerDue`, then
`Delivered` or `Lost`, then `RunEnds`. Updates change who is over the limit
(`StatusChanges`), midnights and REMINDER_TIME come between any two steps. The
clock is read twice before the first sleep (`Start` and `Sleep`), as in the code:
when REMINDER_TIME falls between the two, there is no run that day, although D19
says that a restart at any time of day still reminds.
A sleep may end before REMINDER_TIME of its day: the code subtracts wall-clock
times of one zone, so on the day clocks go back it ends an hour early. A wake-up
on the day before (REMINDER_TIME at midnight and a clock that runs fast) is not
modelled; the hazard list has it.

`NobodyForgotten` speaks of whoever is due while the scheduler sleeps towards its
time, or when it starts after it. Two days are outside of it, because
the code skips them: the one on which REMINDER_TIME falls between the two readings
of the clock, and the one whose REMINDER_TIME comes while the last run is still
sending.

## Runs

Runs that must pass:

| Run | Instance | What it shows |
|---|---|---|
| `delivery` | 2 updates, 1 crash, 1 failed transaction, rejected calls, overflowing backoffs, batches of 2, `FLUSH = 0` | `ExactlyOnce`, `PromiseKept`, `NoReplyWithoutChange`, `NoBlindResend`, `FateOfEveryRow`, `NoFalseApology`, `SentIsStruckOff`, and the refinement `KeepsPromises` |
| `delivery_live` | 2 updates, 1 crash, fairness, overflowing backoffs | `QueueDrains`, `UpdateEnds`, `ResolvesPromises` |
| `access` | an admin, two guests (one may become the admin), 2 invites, 4 updates, 1 restart | `EveryoneWasVouchedFor`, `OneGuestPerInvite`, `SpentOnAGuest`, `OneInvitePerGuest`, `MarksAreOfMembers` |
| `garage` | 2 users, 2 groups, 3 chains, 2 ride ids, 4 instants, 3 days | `OneActivePerGroup`, `ActiveIsUsable`, `OwnGarage`, `ChangesOnlyOwn`, the refinement `KeepsOdometer` |
| `reminders` | 2 users, 3 days, 1 crash, 1 failed transaction, fairness | `AtMostOnceADay`, `RemindsWhoIsDue`, `NobodyForgotten` |
| `dialogs` | 4 updates of 10 kinds, 1 failed scope, 1 crash | `StateHasData`, `RejectedIsCleared`, `QuietAnswersMatch`, `NoDoubleAnswer` |
| `pinned` | 3 syncs, 1 change without, 2 lost calls, 1 failed follow-up, 2 deletions, 1 crash | `OneMessageOrExcess`, `HealsWhenCalm` |

Runs that must find the code doing something else than a comment, a test or a
document says:

| Run | Property | What the run shows |
|---|---|---|
| `delivery_rowid` | `PromiseKept` | flush and sender deliver one row and delete it twice, by id; `outbox_messages.id` is a rowid SQLite reuses, and the second deletion may hit the next update's promise. A lost reply, which outbox.py:10 rules out. |
| `garage_button` | `ButtonMeansItsRide` | the id of a deleted ride is given to the next ride, and the old button acts on that one (domain/errors.py:8: a stale button finds nothing) |
| `reminders_lost` | `MarkedIsReminded` | the mark is committed before the call, the failed call is logged and dropped: the day's reminder is lost (reminders.py:68 says it is retried) |
| `dialogs_number` | `NoRideMidDialog` | a number that arrives behind the button of a dialog is logged as a ride (D3: it never reaches `add_mileage`) |
| `dialogs_unseen` | `OpenDialogWasShown` | a prompt lost on the network leaves its dialog open (ui.py:257: clearing it is on_error's job) |

Met while reading and not worth a run of their own: the calls of one flush have a
timeout of a minute each, as long as the sender's grace, so a slow flush makes it
send the reply again, a duplicate the design tolerates (with `FLUSH = 1`,
`NoBlindResend` fails); `BACKOFF_BASE * 2 ** (attempts + 1)` overflows a
timedelta from 41 attempts on, inside an except clause, and the outcome of the
batch is forgotten (`BackoffOverflows`; 41 attempts in a day take delays named by
Telegram). No report is lost by that (`PromiseKept`), but what the batch had sent is
sent again; `FateOfEveryRow` admits this one way out, and no other property sees the
second message.

What `on_error` says of a committed change: a message Telegram rejects is answered
with `ERR_STALE_MESSAGE`, as docs/ARCHITECTURE.md:295 wants it, although the change
has been applied. `NoFalseApology` is about the other ending, *failed*, which invites
the user to enter the change again. The one way to it after a commit is a crash:
Telegram delivers the update again, and its scope may raise before the mark of the
first delivery is found (`recovered`).

Also: tests/test_idempotency.py:72 says that an
update of a stranger costs neither a row nor the write lock; it waits for the lock
and holds it (`Acquire` has no other guard), but leaves no row.

### Bounds, and why they are enough

- *Two updates* are the smallest number at which a row id is used again, a
  batch competes with a flush, and one task waits for another.
- `MaxId = 2`: as many rows as there are updates; nothing is cut off.
- *Retry and retention constants* are 1 to 3 ticks, in the order the code has
  them: grace, then backoff, then TTL, then the life of a mark;
  `RETENTION <= MARK_TTL` as 24 hours are less than 7 days. In `delivery`
  `BATCH = 2`: the rows of a batch have different fates, and a second one may
  overflow with the fate of the first in hand. In `delivery_live` `BATCH = 1`
  splits two due rows into two batches, with an outcome written between them.
- *Replies* in `delivery`: none, an edit, a report, a report followed by an edit,
  which may be rejected once the report is out.
- `FLUSH = 0` says every flush ends within its grace, which is what the code
  assumes; `FLUSH = 1` is what its timeouts allow. The two configurations
  separate what depends on the assumption from what does not.
- `MAX_ATTEMPTS` stands for 41; with 1, a row is tried, waits and is tried again,
  and the third failure overflows. In `delivery_live`, `TTL = 2` leaves a row the
  time for that.
- *One crash and one failed transaction* at any point; a second crash meets the
  same tables, with everything else reset.
- *Access*: four updates hold two invites and two claims of one person, or an
  invite, two claims by two people and a redelivery; invites live a tick, so both
  the instant they expire at and a later one are reached. `Messages` leaves out
  what no property tells apart: an admin's /start, a guest's /invite.
- *Garage*: three chains are a rotation there, a rotation back and a spare;
  two ride ids let one be deleted and given again; four instants and three days
  let two rotations and rides fall on the same and on different dates. Larger
  instances are what `GarageProofs` and `OdometerProofs` are for.
- *Reminders*: with three days a run may cross midnight, the next one follow it
  and a third come after a restart.
- *Dialogs*: four updates are a dialog opened, another over it, and an answer to
  each; two ids tell the objects of dialogs over one key apart.
- *PinnedStatus*: three syncs are two that overlap and a later one, or three at
  once; `MaxMessage` is more than three syncs can send.

Symmetry is used where no definition tells the values apart and no liveness is
checked: updates in `delivery`, updates and codes in `access`, users in `garage`,
updates in `pinned`. Deadlock is checked in every run but `access` and `pinned`,
which end when no more updates come: elsewhere time, updates or buttons go on.

### Fairness

`Delivery!Fairness`: each task of an update and the sender go on when they can
(asyncio runs what is ready, every call to Telegram ends by aiogram's timeout,
`asyncio.Lock` serves in order), and time passes. Weak fairness is enough for the
tasks because finitely many updates compete for the lock; ticks need strong
fairness, because sections under the lock switch them off for a moment again and
again. Nothing is assumed of Telegram's answers: every call may fail for ever. No
fairness is assumed of polling, of crashes or of handlers' success.

`Reminders!FairSpec`: the scheduler goes on, except that a sleep need not end
before its time, and REMINDER_TIME comes. Midnight is not assumed, so that a day
that never ends cannot hide a forgotten user, and neither are updates.

## Proofs

`DeliveryProofs` (for any updates, replies, retry and retention constants, bounds
on crashes and faults, and any `FLUSH`):

- `TypeCorrect`: `Spec => []TypeOK`.
- `AppliesOnce`: `Spec => []ExactlyOnce`. `ExactlyOnce` is not inductive: it
  does not say why the handler will not run again. The invariant `OnceInv` adds
  that the lock belongs to the task in its scope (`LockOK`); that a change about
  to be committed brings its mark and is the first (`CommitsOnce`); that what
  Telegram keeps of an applied update fades with its age (`KeptFades`); and that
  while Telegram may deliver it again the mark is there and too young to be
  swept (`MarkOutlives`). `RETENTION <= MARK_TTL`, an assumption on the
  constants, is where the argument rests.
- `ApologiesAreTrue`: `Spec => []NoFalseApology`. What this process has applied
  is past its commit and does not come back before it: not polled again, and every
  way on from there ends well or stale (`AppliedIsOver`).
- `ReportsOnlyChanges`: `Spec => []NoReplyWithoutChange`, through `ReportInv`:
  rows, what the sender has read, and what a flush still holds all belong to
  updates that are owed a report, and those have been applied. No assumption on
  `FLUSH` and none on row ids: reuse may lose a promise, never invent one.
- `SentLeavesTheOutbox`: `Spec => []SentIsStruckOff`, through `StruckInv`: a
  row of an update that is reporting, or has reported, can only be the one under the
  id its task remembers (`OwnRow`), since nobody but its own commit makes it one
  (`CommitIsFirst`, `RowsStay`). Deleting by id is then enough, whoever else
  deletes and whoever is given the id next.
- `EveryRowHasAFate`: `Spec => FateOfEveryRow`, for any batch size. Rows are
  in hand only while a batch is sent (`BatchOver`), and the turn of each puts it into
  the outcome (`TurnHasFate`).

`OutboxProofs` (for the same): what the outbox promises.

- `NoReportIsLost`: `PromptFlush => (Spec => []PromiseKept)`;
  `NothingIsResentBlindly`: the same for `NoBlindResend`. `PromptFlush` says that a
  flush is over before the sender may take up its row and before the row expires
  (`FLUSH < GRACE`, `FLUSH <= TTL`). It is what the code means `OUTBOX_GRACE` to
  ensure and what its timeouts do not quite ensure; it cannot be dropped, as
  `delivery_rowid` shows. The invariant `PromiseInv` says whose hands an id is in:
  the row of an open scope is not there yet (`ScopeRow`); an update in its flush
  has a row of its own, too young to be due (`FlightRow`); and what the sender
  holds by id is still the row it read, due (`SenderRows`), one batch at a time
  (`SenderOrder`). So a deletion by id hits what it is meant for, and no row goes
  before its report is told, hopeless or late (`StruckIsOver`).
- `ImplementsPromise`: `PromptFlush => (Spec => KeepsPromises)`. `Delivery`
  implements `ReplyPromise`: one lemma per action maps its step to one of the
  promise or a stutter, with `PromiseInv` to rule out a row that goes early.

`RemindersProofs` (for any users, any number of days, crashes and faults):

- `RemindsOnce`: `Spec => []AtMostOnceADay`. The invariant adds that every
  reminder that arrived left a mark of at least its date (`ArrivedIsMarked`) and
  that the one on its way is the first of its date (`OnItsWay`); a mark only
  grows because `IsDue` compares it with the date of the run.
- `RemindsTheDue`: `Spec => RemindsWhoIsDue`, and `TypeCorrect`.

`DialogsProofs` (for any ids, updates and bounds): `TypeCorrect`, `DialogHasData`,
`RejectedDialogCloses`, `OneDialogOneChange`, `WaitingUserIsUnderstood`. The
invariant adds that what a dialog finds in the data is what it was opened for, and
that there are no data of a dialog that was answered (`AskedIsKept`); that on_error
is owed as long as a rejected dialog is open (`RejectedHasError`); and that an
update which came when all was quiet is the next one and has seen the state as it is
(`QuietIsNext`). `HandleEffect` sums up what the handlers do to the context: nothing,
`Leaves`, `Opens` or `Asks`; the rest of the argument never looks at a handler again.

`PinnedProofs` (for any finite set of tasks and any bounds): `TypeCorrect`,
`NoPileOfMessages`, `StatusHeals`. To count messages one must count those not stored
yet as well: of the messages alive or in a task's hands there is at most one more
than `excess`, and not even that one while nothing is stored and nothing is to be
(`InHandCounted`). A task that runs alone sends only then (`AloneKnows`), every other
message is in excess from the start. For `StatusHeals`, as long as nothing goes
wrong a message to be stored shows a text of the current syncs, and the stored one
does or is still to be edited (`FreshWhenCalm`).

`AccessProofs` (for any people, messages, invites, values of ADMIN_IDS, updates and
restarts): `TypeCorrect`, `OnlyTheVouchedFor`, `InvitesAreOneTime`,
`NoInviteIsWasted`, `GuestsSpendOne`, `RefusedLeaveNoMark`, for the five invariants
of the run `access` and its types. The inductive invariant adds that whoever was let
in by an invite is the one its row names (`EnteredIsSpent`), which a WHERE over
`used_by IS NULL` cannot undo; that whoever issued one has been an admin
(`IssuedByTrusted`); and that only what was sent is handled (`SentBefore`). A guest
spends one invite because the first one brings the row that `is_allowed` finds.

`GarageProofs` (for any users and numbers of groups, chains, rides, instants and
days): `TypeCorrect`, `IndexNeverFires`, `RetiredStaysOff`,
`EveryoneOwnsTheirGarage`, `OthersAreSafe`. The invariant adds what the open
transaction may be (`PlanOK`: a chain to mount, in a group of the actor's where
nothing else is mounted but what the first statement takes off) and that chains
with no row are neither mounted nor retired (`RowsInOrder`).

`OdometerProofs`: `ImplementsOdometer`, `Spec => KeepsOdometer`, so `Garage` is a
refinement of `Odometer` for all of those. Besides the invariant above it needs
`Stamped`: every stamp lies in the past and no two rides share one. A rotation is
then later, in both halves of its stamp, than every ride before it, and a ride
later than every rotation; this is where reading the clock once for date and
instant counts. One lemma per operation says what it does to the cycles
(`RecordMaps`, `MountMaps`, `DeleteMaps`), `StepMaps` puts them together.

The assumptions are the named `ConstantAssumption` of each module; every run
evaluates them. The auxiliary invariants of `DeliveryProofs` and `OutboxProofs` hold
on the `delivery` instance, those of `DialogsProofs` and `PinnedProofs` on `dialogs`
and `pinned`.

Only model-checked: liveness, which needs ENABLED and is out of the prover's reach
(`QueueDrains`, `UpdateEnds`, `ResolvesPromises`, `NobodyForgotten`). Every
invariant and every action property of the passing runs is proved.

## Not modelled

- *The watchdog*: one loop that probes with a timeout; it shares no state with
  anything, so there is no order of steps to explore.
- *Distances, limits, resources*: a mileage is the set of rides it sums; whether
  a sum reaches a limit is one changing fact per user in `Reminders`.
- *Clocks that are set back*: instants grow strictly in `Garage`, the clock of
  `Access` does not turn back, dates and times follow each other in `Reminders`.
- *SQLite*: assumed to run one BEGIN IMMEDIATE transaction at a time, wholly or
  not at all. Contention shows as a transaction that fails.
- *Wording, keyboards, parsing, configuration, migrations*: no state. What a
  handler can tell of a text is `Texts` in `Dialogs`.

## Plan

1. A composition of `Garage` and `Reminders`: due is then a fact of the rides.
2. Distances: limits and resources in `Garage`, with the amounts the parser
   accepts.
3. Proofs: what remains true of the outbox when a flush outlasts its grace, and
   what a batch costs whose backoff overflows.

The runs are kept to a dozen, one per question.
