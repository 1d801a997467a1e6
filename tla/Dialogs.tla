------------------------------- MODULE Dialogs -------------------------------
(***************************************************************************)
(* The dialogs of one chat: bot/states.py, bot/dialogs.py, bot/errors.py   *)
(* and what the handlers do to the FSM context.  A dialog is a state and   *)
(* some data in memory (aiogram's MemoryStorage): both are lost in a crash *)
(* and neither is rolled back with a transaction.                          *)
(*                                                                         *)
(* Which handler a message gets is decided by the state as aiogram's FSM   *)
(* middleware read it when the update arrived, before the write lock was   *)
(* awaited; the handler reads and writes state and data under the lock;    *)
(* on_error clears them without it.  The lock serves in order of arrival.  *)
(* The database work of a handler does not touch the dialog, and on_error  *)
(* in the middle of a handler amounts to on_error before or after it, so a *)
(* scope is one step.  Other chats only make waiting longer.               *)
(***************************************************************************)
EXTENDS Integers, Sequences

CONSTANTS
  Ids,        \* of groups, chains and rides
  Unset,      \* the value of a key that is not in the data
  Sent,       \* the updates the user may send
  MaxSent,    \* bound on the updates sent
  MaxFaults,  \* bound on scopes that fail for no reason of their own
  MaxCrashes  \* bound on crashes

\* What a handler can tell of a text: a number in bounds, "-", another
\* acceptable name, and nothing usable (a photo, an overlong name).
Texts == {"number", "dash", "word", "unusable"}

\* The dialogs opened by a button with an id, and where they put it.
KeyOf == [AddChain |-> "group_id", EditGroupLimit |-> "group_id",
          EditChainLimit |-> "chain_id", EditChainResource |-> "chain_id",
          EditRideAmount |-> "ride_id", ChainName |-> "group_name"]
NeedsData == DOMAIN KeyOf
ByButton == NeedsData \ {"ChainName"}
Keys == {KeyOf[d] : d \in NeedsData}
Dialog == NeedsData \union {"AddGroup", "GroupName"}
State == Dialog \union {"none"}

\* "escape": any update whose handler begins by clearing the dialog.
Update == [is : {"open"}, dialog : ByButton, id : Ids]
            \union [is : {"add group", "escape", "/start"}]
            \union [is : {"text"}, text : Texts]

ASSUME ConstantAssumption ==
  /\ Sent \subseteq Update
  /\ MaxSent \in Nat /\ MaxFaults \in Nat /\ MaxCrashes \in Nat
  /\ Unset \notin Ids \union Texts

VARIABLES
  state, data,  \* of the FSM context
  prompt,       \* the update that opened the dialog, and whether it was shown
  queue,        \* updates that wait for the lock, oldest first
  flights,      \* updates whose flush is under way
  errors,       \* updates whose on_error is to come
  hasGroup,     \* whether the user has a group
  asked,        \* what the last dialog opened is about, until it is answered
  done,         \* the last change made for a text, and the dialog open then
  sent, faults, crashes

vars == <<state, data, prompt, queue, flights, errors, hasGroup, asked, done,
          sent, faults, crashes>>

Numbers == 1..MaxSent
Value == Ids \union Texts \union {Unset}
Task == [update : Sent, n : Numbers, seen : State, quiet : BOOLEAN]
Shown == {"coming", "seen", "queued", "lost", "rejected"}

TypeOK ==
  /\ state \in State
  /\ data \in [Keys -> Value]
  /\ prompt \in [by : {0} \union Numbers, is : Shown]
  /\ queue \in Seq(Task)
  /\ flights \subseteq [n : Numbers, durable : BOOLEAN]
  /\ errors \subseteq Numbers
  /\ hasGroup \in BOOLEAN
  /\ asked \in Value
  /\ done \in [n : {0} \union Numbers, by : State \union {"ride"},
               id : Value, open : State]
  /\ sent \in 0..MaxSent /\ faults \in 0..MaxFaults /\ crashes \in 0..MaxCrashes

NoData == [k \in Keys |-> Unset]
NoPrompt == [by |-> 0, is |-> "seen"]

Init ==
  /\ state = "none"
  /\ data = NoData
  /\ prompt = NoPrompt
  /\ queue = <<>>
  /\ flights = {}
  /\ errors = {}
  /\ hasGroup \in BOOLEAN
  /\ asked = Unset
  /\ done = [n |-> 0, by |-> "none", id |-> Unset, open |-> "none"]
  /\ sent = 0 /\ faults = 0 /\ crashes = 0

\* Nothing of this chat is being worked on.
Quiet == queue = <<>> /\ flights = {} /\ errors = {}

-----------------------------------------------------------------------------
(* The FSM context *)

\* (Mutant: set_state(None), the data stays.)
StateAlone == state' = "none" /\ data' = data /\ prompt' = NoPrompt

\* FSMContext.clear
Clear == state' = "none" /\ data' = NoData /\ prompt' = NoPrompt

\* (Mutants: the pair is stored; what is there already wins.)
StoresPair(key, value) == [data EXCEPT ![key] = <<key, value>>]

FirstWins(key, value) ==
  [data EXCEPT ![key] = IF @ = Unset THEN value ELSE @]

\* FSMContext.update_data: what other dialogs left stays.
UpdateData(key, value) == [data EXCEPT ![key] = value]

SetState(t, dialog) ==
  state' = dialog /\ prompt' = [by |-> t.n, is |-> "coming"]

-----------------------------------------------------------------------------
(* An update arrives, and its scope ends *)

\* The FSM middleware reads the state, then the task asks for the lock.  A
\* button with an id was sent with a group, and groups stay.
Arrive(u) ==
  /\ sent < MaxSent
  /\ u.is = "open" => hasGroup
  /\ sent' = sent + 1
  /\ queue' = Append(queue, [update |-> u, n |-> sent + 1, seen |-> state,
                             quiet |-> Quiet])
  /\ UNCHANGED <<state, data, prompt, flights, errors, hasGroup, asked, done,
                 faults, crashes>>

\* The scope of the update that has waited longest.
IsNext(t) == queue # <<>> /\ t = Head(queue) /\ queue' = Tail(queue)

\* Replies to messages are sent and durable, buttons edit their message.
Flies(t) ==
  /\ flights' = flights \union
       {[n |-> t.n, durable |-> t.update.is \in {"text", "/start"}]}
  /\ UNCHANGED errors

\* Raises: the transaction is rolled back, on_error follows.
Raises(t) ==
  /\ errors' = errors \union {t.n}
  /\ UNCHANGED <<flights, hasGroup, done>>

\* After the dialog was written, the rest of the handler or the commit fails.
FailsLate(t) ==
  /\ faults < MaxFaults
  /\ faults' = faults + 1
  /\ Raises(t)

\* A scope that changes nothing, or nothing but the dialog.
Ends(t) ==
  \/ Flies(t) /\ UNCHANGED <<hasGroup, done, faults>>
  \/ FailsLate(t)

\* A scope that makes a change for a text.
Changes(t, by, id) ==
  \/ /\ Flies(t)
     /\ done' = [n |-> t.n, by |-> by, id |-> id, open |-> state]
     /\ hasGroup' = (hasGroup \/ by \in {"AddGroup", "ChainName"})
     /\ UNCHANGED faults
  \/ FailsLate(t)

\* Any scope may fail before its handler gets to the dialog, and so do the
\* buttons whose group, chain or ride is not there any more.
FailsEarly(t) ==
  /\ IsNext(t)
  /\ FailsLate(t)
  /\ UNCHANGED <<state, data, prompt, asked, sent, crashes>>

-----------------------------------------------------------------------------
(* Handlers that open and close dialogs *)

\* start_edit_dialog, after the id was found to name something of the user's.
OpenDialog(t, dialog) ==
  /\ IsNext(t)
  /\ t.update.is = "open" /\ t.update.dialog = dialog
  /\ data' = UpdateData(KeyOf[dialog], t.update.id)
  /\ SetState(t, dialog)
  /\ asked' = t.update.id
  /\ Ends(t)
  /\ UNCHANGED <<sent, crashes>>

AskChainName(t) == OpenDialog(t, "AddChain")
AskGroupLimit(t) == OpenDialog(t, "EditGroupLimit")
AskChainLimit(t) == OpenDialog(t, "EditChainLimit")
AskChainResource(t) == OpenDialog(t, "EditChainResource")
AskRideAmount(t) == OpenDialog(t, "EditRideAmount")

\* cb_group_add
OpenAddGroup(t) ==
  /\ IsNext(t)
  /\ t.update.is = "add group"
  /\ SetState(t, "AddGroup")
  /\ Ends(t)
  /\ UNCHANGED <<data, asked, sent, crashes>>

\* /menu, /status, an admin's /invite and /allow, every list and card, rotating,
\* retiring, deleting, switching the group: the dialog is left before anything
\* else.
Escape(t) ==
  /\ IsNext(t)
  /\ t.update.is = "escape"
  /\ Clear
  /\ Ends(t)
  /\ UNCHANGED <<asked, sent, crashes>>

\* /start is the way in for a new user, and an escape for everybody else.
Start(t) ==
  /\ IsNext(t)
  /\ t.update.is = "/start"
  /\ IF hasGroup THEN Clear ELSE SetState(t, "GroupName") /\ UNCHANGED data
  /\ Ends(t)
  /\ UNCHANGED <<asked, sent, crashes>>

-----------------------------------------------------------------------------
(* Handlers of texts: the state the update has seen chooses *)

Says(t, texts) == t.update.is = "text" /\ t.update.text \in texts

\* What each dialog takes for an answer.
Accepts(dialog) ==
  CASE dialog \in {"AddGroup", "AddChain", "GroupName", "ChainName"} ->
         {"number", "dash", "word"}
    [] dialog = "EditChainResource" -> {"number", "dash"}
    [] OTHER -> {"number"}

\* add_mileage: a number, and no dialog when it arrived.
RecordRide(t) ==
  /\ IsNext(t)
  /\ t.seen = "none" /\ Says(t, {"number"})
  /\ Changes(t, "ride", Unset)
  /\ UNCHANGED <<state, data, prompt, asked, sent, crashes>>

\* A text no handler matches: nothing is sent.
NobodyAnswers(t) ==
  /\ IsNext(t)
  /\ t.seen = "none" /\ Says(t, Texts \ {"number"})
  /\ UNCHANGED <<state, data, prompt, flights, errors, hasGroup, asked, done,
                 sent, faults, crashes>>

\* The dialog asks again.
Retry(t) ==
  /\ IsNext(t)
  /\ t.seen # "none" /\ Says(t, Texts \ Accepts(t.seen))
  /\ Ends(t)
  /\ UNCHANGED <<state, data, prompt, asked, sent, crashes>>

\* fsm_add_group_name
AnswerAddGroup(t) ==
  /\ IsNext(t)
  /\ t.seen = "AddGroup" /\ Says(t, Accepts("AddGroup"))
  /\ Clear
  /\ Changes(t, "AddGroup", Unset)
  /\ UNCHANGED <<asked, sent, crashes>>

\* onboarding_group_name: the name is kept until the chain has one.
AnswerGroupName(t) ==
  /\ IsNext(t)
  /\ t.seen = "GroupName" /\ Says(t, Accepts("GroupName"))
  /\ data' = UpdateData("group_name", t.update.text)
  /\ SetState(t, "ChainName")
  /\ asked' = t.update.text
  /\ Ends(t)
  /\ UNCHANGED <<sent, crashes>>

\* The other dialogs: the change is made to what the data names.
AnswerWithData(t, dialog) ==
  /\ IsNext(t)
  /\ t.seen = dialog /\ Says(t, Accepts(dialog))
  /\ LET id == data[KeyOf[dialog]] IN
       /\ id # Unset
       /\ Clear
       /\ Changes(t, dialog, id)
       /\ asked' = IF done' # done THEN Unset ELSE asked
  /\ UNCHANGED <<sent, crashes>>

AnswerOnboarding(t) == AnswerWithData(t, "ChainName")
AnswerChainName(t) == AnswerWithData(t, "AddChain")
AnswerGroupLimit(t) == AnswerWithData(t, "EditGroupLimit")
AnswerChainLimit(t) == AnswerWithData(t, "EditChainLimit")
AnswerChainResource(t) == AnswerWithData(t, "EditChainResource")
AnswerRideAmount(t) == AnswerWithData(t, "EditRideAmount")

\* KeyError: an earlier answer, an escape or on_error has taken the data.
DataIsGone(t) ==
  /\ IsNext(t)
  /\ t.seen \in NeedsData /\ Says(t, Accepts(t.seen))
  /\ data[KeyOf[t.seen]] = Unset
  /\ Raises(t)
  /\ UNCHANGED <<state, data, prompt, asked, sent, faults, crashes>>

\* require_ride: the ride was deleted since.  The state is as it was.
RideIsGone(t) ==
  /\ IsNext(t)
  /\ t.seen = "EditRideAmount" /\ Says(t, {"number"})
  /\ data["ride_id"] # Unset
  /\ Raises(t)
  /\ UNCHANGED <<state, data, prompt, asked, sent, faults, crashes>>

Handle(t) ==
  \/ FailsEarly(t) \/ OpenAddGroup(t) \/ Escape(t) \/ Start(t)
  \/ AskChainName(t) \/ AskGroupLimit(t) \/ AskChainLimit(t)
  \/ AskChainResource(t) \/ AskRideAmount(t)
  \/ RecordRide(t) \/ NobodyAnswers(t) \/ Retry(t) \/ AnswerAddGroup(t)
  \/ AnswerGroupName(t) \/ AnswerOnboarding(t) \/ AnswerChainName(t)
  \/ AnswerGroupLimit(t) \/ AnswerChainLimit(t) \/ AnswerChainResource(t)
  \/ AnswerRideAmount(t) \/ DataIsGone(t) \/ RideIsGone(t)

-----------------------------------------------------------------------------
(* After the lock: the flush, and on_error *)

\* What became of the prompt, if this was the flush that brings it.
Lands(f, outcome) ==
  /\ flights' = flights \ {f}
  /\ prompt' = IF prompt.by = f.n THEN [prompt EXCEPT !.is = outcome] ELSE prompt
  /\ UNCHANGED <<state, data, queue, hasGroup, asked, done, sent, faults, crashes>>

FlushShows(f) == Lands(f, "seen") /\ UNCHANGED errors

\* A network mishap is logged; only durable calls are tried again.
FlushLoses(f) ==
  /\ Lands(f, IF f.durable THEN "queued" ELSE "lost")
  /\ UNCHANGED errors

\* (Mutant: the flush keeps the rejection to itself.)
FlushIgnores(f) == Lands(f, "rejected") /\ UNCHANGED errors

\* Telegram rejects the message: StaleMessageError, once the queue is out.
FlushRejected(f) ==
  /\ Lands(f, "rejected")
  /\ errors' = errors \union {f.n}

\* (Mutant: the data is dropped and the state is not.)
ForgetsData(n) ==
  /\ errors' = errors \ {n}
  /\ data' = NoData
  /\ UNCHANGED <<state, prompt, queue, flights, hasGroup, asked, done, sent,
                 faults, crashes>>

\* Whatever dialog is open by now is cleared.
OnError(n) ==
  /\ errors' = errors \ {n}
  /\ Clear
  /\ UNCHANGED <<queue, flights, hasGroup, asked, done, sent, faults, crashes>>

\* Telegram delivers again, all at once, what was waiting.
Crash ==
  /\ crashes < MaxCrashes
  /\ crashes' = crashes + 1
  /\ Clear
  /\ queue' = [i \in DOMAIN queue |->
                 [queue[i] EXCEPT !.seen = "none", !.quiet = FALSE]]
  /\ flights' = {}
  /\ errors' = {}
  /\ UNCHANGED <<hasGroup, asked, done, sent, faults>>

\* The user has nothing more to say.
Rests == Quiet /\ sent = MaxSent /\ UNCHANGED vars

Next ==
  \/ \E u \in Sent : Arrive(u)
  \/ queue # <<>> /\ Handle(Head(queue))
  \/ \E f \in flights : FlushShows(f) \/ FlushLoses(f) \/ FlushRejected(f)
  \/ \E n \in errors : OnError(n)
  \/ Crash
  \/ Rests

Spec == Init /\ [][Next]_vars

-----------------------------------------------------------------------------
(* Properties *)

\* A dialog that works on something always knows on what: whatever stale
\* handlers, merged data, failed scopes, late on_error and crashes do to the
\* context, its state never outlives its data (update_data before set_state,
\* clear for both).
StateHasData == state \in NeedsData => data[KeyOf[state]] # Unset

\* A user who waits for the bot is understood: a text that arrived while
\* nothing else of the chat was under way is judged by the dialog open when
\* its turn comes, and an answer changes what that dialog was opened for,
\* although data of other dialogs may be in the context (start_edit_dialog,
\* the fsm_* handlers; mileage.py's StateFilter).
QuietAnswersMatch ==
  [][queue # <<>> /\ queue' = Tail(queue)
       /\ Head(queue).quiet /\ Head(queue).update.is = "text" =>
         /\ Head(queue).seen = state
         /\ done' # done /\ state \in NeedsData => done'.id = asked]_vars

\* One dialog, one change: the second of two quick answers is not applied to
\* what the first was about, whichever handler gets it, since the first one
\* took the data away.
NoDoubleAnswer ==
  [][done' # done /\ done'.by \in NeedsData => asked # Unset]_vars

\* A dialog whose prompt Telegram rejected does not stay open to swallow the
\* next message (bot/errors.py:59, D10).
RejectedIsCleared ==
  Quiet /\ state # "none" => prompt.is # "rejected"

\* What D3 says of mileage.py: a bare number typed mid-dialog never reaches
\* add_mileage.
NoRideMidDialog == done.by = "ride" => done.open = "none"

\* What Responder.flush says of on_error: a dialog whose prompt could not be
\* shown is cleared.
OpenDialogWasShown ==
  Quiet /\ state # "none" => prompt.is \in {"seen", "queued"}
=============================================================================
