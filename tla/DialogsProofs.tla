---------------------------- MODULE DialogsProofs ----------------------------
(* Proofs about Dialogs, for any ids, updates and numbers of them. *)
EXTENDS Dialogs, SequenceTheorems, TLAPS

-----------------------------------------------------------------------------
(* The invariant *)

\* What the data is about is what the last dialog opened was about, and there
\* is none of it once that was answered.
AskedIsKept ==
  /\ state \in NeedsData => data[KeyOf[state]] = asked
  /\ \A k \in Keys : data[k] # Unset => asked # Unset

\* on_error is still to come for an open dialog whose prompt was rejected.
RejectedHasError ==
  state # "none" /\ prompt.is = "rejected" => errors # {}

\* An update that came when nothing was under way is the next one, has nothing
\* but itself to change the dialog, and has seen what is there.
QuietIsNext ==
  \A i \in DOMAIN queue : queue[i].quiet =>
    i = 1 /\ flights = {} /\ errors = {} /\ queue[i].seen = state

DialogInv ==
  TypeOK /\ StateHasData /\ AskedIsKept /\ RejectedHasError /\ QuietIsNext

LEMMA DialogInit == Init => DialogInv
<1> SUFFICES ASSUME Init PROVE DialogInv
    OBVIOUS
<1> USE ConstantAssumption DEF Init, NoData, NoPrompt
<1>1. NeedsData \subseteq State /\ \A d \in NeedsData : KeyOf[d] \in Keys
      BY DEF State, Dialog, Keys
<1>2. "none" \in State /\ "none" \notin NeedsData
      BY DEF State, NeedsData, KeyOf
<1>3. TypeOK
      BY <1>2 DEF TypeOK, Value, Shown
<1>4. StateHasData /\ AskedIsKept /\ RejectedHasError /\ QuietIsNext
      BY <1>2 DEF StateHasData, AskedIsKept, RejectedHasError, QuietIsNext
<1> QED
    BY <1>3, <1>4 DEF DialogInv

-----------------------------------------------------------------------------
(* What a handler does to the FSM context and to the rest *)

\* It leaves the dialog, opens one that works on something, or opens another.
Leaves == Clear /\ asked' \in Value

Opens(t, d, x) ==
  /\ state' = d /\ prompt' = [by |-> t.n, is |-> "coming"]
  /\ data' = [data EXCEPT ![KeyOf[d]] = x]
  /\ asked' = x

Asks(t) ==
  /\ state' \in {"AddGroup", "GroupName"}
  /\ prompt' = [by |-> t.n, is |-> "coming"]
  /\ UNCHANGED <<data, asked>>

ContextStep(t) ==
  \/ UNCHANGED <<state, data, prompt, asked>>
  \/ Leaves
  \/ \E d \in NeedsData : \E x \in Value \ {Unset} : Opens(t, d, x)
  \/ Asks(t)

\* A text changes something as the dialog it has seen says.
DoneStep(t) ==
  \/ UNCHANGED done
  \/ (t.seen = "none" /\ done'.by = "ride")
  \/ (t.seen = "AddGroup" /\ done'.by = "AddGroup")
  \/ /\ t.seen \in NeedsData /\ done'.by = t.seen
     /\ data[KeyOf[t.seen]] # Unset
     /\ done'.id = data[KeyOf[t.seen]]

RestStep ==
  /\ flights' \subseteq [n : Numbers, durable : BOOLEAN]
  /\ errors \subseteq errors' /\ errors' \subseteq Numbers
  /\ hasGroup' \in BOOLEAN
  /\ done' \in [n : {0} \union Numbers, by : State \union {"ride"},
                id : Value, open : State]
  /\ sent' = sent /\ faults' \in 0..MaxFaults /\ crashes' = crashes

LEMMA DialogNames ==
  /\ NeedsData \subseteq State /\ \A d \in NeedsData : KeyOf[d] \in Keys
  /\ {"none", "AddGroup", "GroupName"} \subseteq State \ NeedsData
  /\ Unset \notin Ids /\ Unset \notin Texts
BY ConstantAssumption DEF State, Dialog, Keys, NeedsData, KeyOf

LEMMA FliesRest ==
  ASSUME NEW t \in Task, TypeOK, Flies(t)
  PROVE  /\ flights' \subseteq [n : Numbers, durable : BOOLEAN]
         /\ errors' = errors
<1> DEFINE d == t.update.is \in {"text", "/start"}
<1>1. \A b \in BOOLEAN : [n |-> t.n, durable |-> b]
                             \in [n : Numbers, durable : BOOLEAN]
      BY DEF Task
<1>2. d \in BOOLEAN
      OBVIOUS
<1>3. [n |-> t.n, durable |-> d] \in [n : Numbers, durable : BOOLEAN]
      BY <1>1, <1>2, Zenon
<1>4. flights' = flights \union {[n |-> t.n, durable |-> d]}
      BY DEF Flies
<1> HIDE DEF d
<1>5. flights' \subseteq [n : Numbers, durable : BOOLEAN]
      BY <1>3, <1>4 DEF TypeOK
<1> QED
    BY <1>5 DEF Flies

LEMMA EndsRest ==
  ASSUME NEW t \in Task, TypeOK, Ends(t) \/ FailsLate(t) \/ (Raises(t) /\ UNCHANGED faults),
         UNCHANGED <<sent, crashes>>
  PROVE  RestStep /\ UNCHANGED done
<1> USE ConstantAssumption DEF TypeOK, RestStep, Task
<1>1. t.n \in Numbers
      OBVIOUS
<1>2. CASE Flies(t) /\ UNCHANGED <<hasGroup, done, faults>>
      BY <1>2, FliesRest
<1>3. CASE Raises(t) /\ UNCHANGED faults
      BY <1>1, <1>3 DEF Raises
<1>4. CASE FailsLate(t)
      BY <1>1, <1>4 DEF FailsLate, Raises
<1> QED
    BY <1>2, <1>3, <1>4 DEF Ends

LEMMA ChangesRest ==
  ASSUME NEW t \in Task, TypeOK, NEW by \in State \union {"ride"},
         NEW id \in Value, Changes(t, by, id), UNCHANGED <<sent, crashes>>
  PROVE  RestStep /\ (UNCHANGED done \/ (done'.by = by /\ done'.id = id))
<1>1. CASE FailsLate(t)
      BY <1>1, EndsRest
<1>2. CASE /\ Flies(t) /\ UNCHANGED faults
           /\ done' = [n |-> t.n, by |-> by, id |-> id, open |-> state]
           /\ hasGroup' = (hasGroup \/ by \in {"AddGroup", "ChainName"})
  <2>1. t.n \in Numbers /\ state \in State
        BY DEF Task, TypeOK
  <2>2. hasGroup' \in BOOLEAN
        BY <1>2
  <2>3. /\ done' \in [n : {0} \union Numbers, by : State \union {"ride"},
                      id : Value, open : State]
        /\ done'.by = by /\ done'.id = id
        BY <1>2, <2>1
  <2>4. /\ flights' \subseteq [n : Numbers, durable : BOOLEAN]
        /\ errors' = errors
        BY <1>2, FliesRest
  <2> QED
      BY <1>2, <2>2, <2>3, <2>4 DEF RestStep, TypeOK
<1> QED
    BY <1>1, <1>2 DEF Changes

LEMMA OpenDialogEffect ==
  ASSUME NEW t \in Task, TypeOK, NEW d \in ByButton, OpenDialog(t, d)
  PROVE  ContextStep(t) /\ RestStep /\ DoneStep(t)
<1>1. t.update \in Update
      BY ConstantAssumption DEF Task
<1>2. t.update.is = "open" /\ Ends(t) /\ UNCHANGED <<sent, crashes>>
      BY DEF OpenDialog
<1>3. t.update.id \in Ids
      BY <1>1, <1>2 DEF Update
<1>4. t.update.id \in Value \ {Unset}
      BY <1>3, DialogNames DEF Value
<1>5. d \in NeedsData
      BY DEF ByButton
<1>6. Opens(t, d, t.update.id)
      BY DEF OpenDialog, UpdateData, SetState, Opens
<1>7. ContextStep(t)
      BY <1>4, <1>5, <1>6 DEF ContextStep
<1> QED
    BY <1>2, <1>7, EndsRest DEF DoneStep

LEMMA AnswerGroupNameEffect ==
  ASSUME NEW t \in Task, TypeOK, AnswerGroupName(t)
  PROVE  ContextStep(t) /\ RestStep /\ DoneStep(t)
<1>1. "ChainName" \in NeedsData /\ KeyOf["ChainName"] = "group_name"
      BY DEF NeedsData, KeyOf
<1>2. t.update.text \in Texts
      BY DEF AnswerGroupName, Says, Accepts, Texts
<1>3. t.update.text \in Value \ {Unset}
      BY <1>2, DialogNames DEF Value
<1>4. Opens(t, "ChainName", t.update.text)
      BY <1>1 DEF AnswerGroupName, UpdateData, SetState, Opens
<1>5. ContextStep(t)
      BY <1>1, <1>3, <1>4 DEF ContextStep
<1>6. Ends(t) /\ UNCHANGED <<sent, crashes>>
      BY DEF AnswerGroupName
<1> QED
    BY <1>5, <1>6, EndsRest DEF DoneStep

LEMMA AnswerWithDataEffect ==
  ASSUME NEW t \in Task, TypeOK, NEW d \in NeedsData, AnswerWithData(t, d)
  PROVE  ContextStep(t) /\ RestStep /\ DoneStep(t)
<1> DEFINE id == data[KeyOf[d]]
<1>1. /\ t.seen = d /\ id # Unset /\ Clear /\ Changes(t, d, id)
      /\ asked' = (IF done' # done THEN Unset ELSE asked)
      /\ UNCHANGED <<sent, crashes>>
      BY DEF AnswerWithData
<1>2. d \in State \union {"ride"} /\ id \in Value
      BY DialogNames DEF TypeOK
<1>3. asked' \in Value
      BY <1>1 DEF TypeOK, Value
<1>4. ContextStep(t)
      BY <1>1, <1>3 DEF ContextStep, Leaves
<1> HIDE DEF id
<1>5. RestStep /\ (UNCHANGED done \/ (done'.by = d /\ done'.id = id))
      BY <1>1, <1>2, ChangesRest
<1> USE DEF id
<1>6. DoneStep(t)
      BY <1>1, <1>5 DEF DoneStep
<1> QED
    BY <1>4, <1>5, <1>6

LEMMA HandleTakes ==
  ASSUME NEW t, Handle(t)
  PROVE  queue' = Tail(queue)
<1>1. IsNext(t)
      BY DEF Handle, FailsEarly, OpenAddGroup, Escape, Start, AskChainName,
             AskGroupLimit, AskChainLimit, AskChainResource, AskRideAmount,
             OpenDialog, RecordRide, NobodyAnswers, Retry, AnswerAddGroup,
             AnswerGroupName, AnswerOnboarding, AnswerChainName,
             AnswerGroupLimit, AnswerChainLimit, AnswerChainResource,
             AnswerRideAmount, AnswerWithData, DataIsGone, RideIsGone
<1> QED
    BY <1>1 DEF IsNext

LEMMA HandleEffect ==
  ASSUME NEW t \in Task, TypeOK, Handle(t)
  PROVE  ContextStep(t) /\ RestStep /\ DoneStep(t)
<1>1. asked \in Value /\ {"ride", "AddGroup"} \subseteq State \union {"ride"}
      BY DialogNames DEF TypeOK
<1>2. ASSUME UNCHANGED <<state, data, prompt, asked>> PROVE ContextStep(t)
      BY <1>2 DEF ContextStep
<1>3. ASSUME UNCHANGED done PROVE DoneStep(t)
      BY <1>3 DEF DoneStep
<1>4. CASE FailsEarly(t) \/ Retry(t) \/ DataIsGone(t) \/ RideIsGone(t)
  <2>1. ContextStep(t)
        BY <1>2, <1>4 DEF FailsEarly, Retry, DataIsGone, RideIsGone
  <2>2. /\ Ends(t) \/ FailsLate(t) \/ (Raises(t) /\ UNCHANGED faults)
        /\ UNCHANGED <<sent, crashes>>
        BY <1>4 DEF FailsEarly, Retry, DataIsGone, RideIsGone
  <2> QED
      BY <1>3, <2>1, <2>2, EndsRest
<1>5. CASE OpenAddGroup(t)
  <2>1. ContextStep(t)
        BY <1>5 DEF OpenAddGroup, SetState, ContextStep, Asks
  <2> QED
      BY <1>3, <1>5, <2>1, EndsRest DEF OpenAddGroup
<1>6. CASE Escape(t)
  <2>1. ContextStep(t)
        BY <1>1, <1>6 DEF Escape, ContextStep, Leaves
  <2> QED
      BY <1>3, <1>6, <2>1, EndsRest DEF Escape
<1>7. CASE Start(t)
  <2>1. ContextStep(t)
        BY <1>1, <1>7 DEF Start, SetState, ContextStep, Leaves, Asks
  <2> QED
      BY <1>3, <1>7, <2>1, EndsRest DEF Start
<1>8. CASE \/ AskChainName(t) \/ AskGroupLimit(t) \/ AskChainLimit(t)
           \/ AskChainResource(t) \/ AskRideAmount(t)
  <2>1. {"AddChain", "EditGroupLimit", "EditChainLimit", "EditChainResource",
         "EditRideAmount"} \subseteq ByButton
        BY DEF ByButton, NeedsData, KeyOf
  <2>2. \E d \in ByButton : OpenDialog(t, d)
        BY <1>8, <2>1 DEF AskChainName, AskGroupLimit, AskChainLimit,
                          AskChainResource, AskRideAmount
  <2> QED
      BY <2>2, OpenDialogEffect
<1>9. CASE RecordRide(t)
  <2>1. ContextStep(t) /\ Unset \in Value
        BY <1>2, <1>9 DEF RecordRide, Value
  <2>2. Changes(t, "ride", Unset) /\ UNCHANGED <<sent, crashes>>
        BY <1>9 DEF RecordRide
  <2>3. RestStep /\ (UNCHANGED done \/ done'.by = "ride")
        BY <1>1, <2>1, <2>2, ChangesRest
  <2> QED
      BY <1>9, <2>1, <2>3 DEF RecordRide, DoneStep
<1>10. CASE NobodyAnswers(t)
  <2>1. RestStep
        BY <1>10 DEF NobodyAnswers, RestStep, TypeOK
  <2> QED
      BY <1>2, <1>3, <1>10, <2>1 DEF NobodyAnswers
<1>11. CASE AnswerAddGroup(t)
  <2>1. ContextStep(t) /\ Unset \in Value
        BY <1>1, <1>11 DEF AnswerAddGroup, ContextStep, Leaves, Value
  <2>2. Changes(t, "AddGroup", Unset) /\ UNCHANGED <<sent, crashes>>
        BY <1>11 DEF AnswerAddGroup
  <2>3. RestStep /\ (UNCHANGED done \/ done'.by = "AddGroup")
        BY <1>1, <2>1, <2>2, ChangesRest
  <2> QED
      BY <1>11, <2>1, <2>3 DEF AnswerAddGroup, DoneStep
<1>12. CASE AnswerGroupName(t)
       BY <1>12, AnswerGroupNameEffect
<1>13. CASE \/ AnswerOnboarding(t) \/ AnswerChainName(t) \/ AnswerGroupLimit(t)
            \/ AnswerChainLimit(t) \/ AnswerChainResource(t)
            \/ AnswerRideAmount(t)
  <2>1. {"ChainName", "AddChain", "EditGroupLimit", "EditChainLimit",
         "EditChainResource", "EditRideAmount"} \subseteq NeedsData
        BY DEF NeedsData, KeyOf
  <2>2. \E d \in NeedsData : AnswerWithData(t, d)
        BY <1>13, <2>1 DEF AnswerOnboarding, AnswerChainName, AnswerGroupLimit,
             AnswerChainLimit, AnswerChainResource, AnswerRideAmount
  <2> QED
      BY <2>2, AnswerWithDataEffect
<1> QED
    BY <1>4, <1>5, <1>6, <1>7, <1>8, <1>9, <1>10, <1>11, <1>12, <1>13
       DEF Handle

-----------------------------------------------------------------------------
(* The invariant is kept *)

\* The update whose scope it is.
LEMMA NextTask ==
  ASSUME TypeOK, queue # <<>>
  PROVE  /\ Head(queue) \in Task /\ Head(queue) = queue[1]
         /\ 1 \in DOMAIN queue
BY DEF TypeOK

\* Scopes in the queue behind it have company.
LEMMA TailWaits ==
  ASSUME TypeOK, QuietIsNext, queue # <<>>, queue' = Tail(queue)
  PROVE  QuietIsNext' /\ queue' \in Seq(Task)
<1>1. queue \in Seq(Task)
      BY DEF TypeOK
<1>2. queue' \in Seq(Task) /\ Len(queue') = Len(queue) - 1
      BY <1>1
<1>3. ASSUME NEW i \in DOMAIN queue' PROVE ~queue'[i].quiet
  <2>1. i \in Nat \ {0} /\ i + 1 \in DOMAIN queue /\ queue'[i] = queue[i + 1]
        BY <1>1, <1>2, <1>3
  <2> QED
      BY <2>1 DEF QuietIsNext
<1> QED
    BY <1>2, <1>3 DEF QuietIsNext

LEMMA ContextKept ==
  ASSUME NEW t \in Task, TypeOK, StateHasData, AskedIsKept, RejectedHasError,
         ContextStep(t), errors \subseteq errors'
  PROVE  /\ StateHasData' /\ AskedIsKept' /\ RejectedHasError'
         /\ state' \in State /\ data' \in [Keys -> Value]
         /\ prompt' \in [by : {0} \union Numbers, is : Shown]
         /\ asked' \in Value
<1> USE DialogNames
<1> USE DEF StateHasData, AskedIsKept, RejectedHasError
<1>1. /\ state \in State /\ data \in [Keys -> Value] /\ asked \in Value
      /\ prompt \in [by : {0} \union Numbers, is : Shown]
      /\ [by |-> t.n, is |-> "coming"] \in [by : {0} \union Numbers, is : Shown]
      BY DEF TypeOK, Task, Shown
<1>2. CASE UNCHANGED <<state, data, prompt, asked>>
      BY <1>1, <1>2
<1>3. CASE Leaves
  <2>1. /\ state' = "none" /\ asked' \in Value
        /\ data' \in [Keys -> Value] /\ \A k \in Keys : data'[k] = Unset
        /\ prompt' \in [by : {0} \union Numbers, is : Shown]
        BY <1>3 DEF Leaves, Clear, NoData, NoPrompt, Value, Shown
  <2> QED
      BY <2>1
<1>4. ASSUME NEW d \in NeedsData, NEW x \in Value \ {Unset}, Opens(t, d, x)
      PROVE  /\ StateHasData' /\ AskedIsKept' /\ RejectedHasError'
             /\ state' \in State /\ data' \in [Keys -> Value]
             /\ prompt' \in [by : {0} \union Numbers, is : Shown]
             /\ asked' \in Value
  <2>1. /\ state' = d /\ asked' = x /\ data' = [data EXCEPT ![KeyOf[d]] = x]
        /\ prompt' = [by |-> t.n, is |-> "coming"]
        BY <1>4 DEF Opens
  <2>2. data' \in [Keys -> Value] /\ data'[KeyOf[d]] = x
        BY <1>1, <2>1
  <2> QED
      BY <1>1, <2>1, <2>2
<1>5. CASE Asks(t)
      BY <1>1, <1>5 DEF Asks
<1> QED
    BY <1>2, <1>3, <1>4, <1>5 DEF ContextStep

LEMMA DialogStep == DialogInv /\ [Next]_vars => DialogInv'
<1> SUFFICES ASSUME DialogInv, [Next]_vars
             PROVE  DialogInv'
    OBVIOUS
<1> USE ConstantAssumption
<1>1. /\ TypeOK /\ StateHasData /\ AskedIsKept /\ RejectedHasError
      /\ QuietIsNext
      BY DEF DialogInv
<1>2. ASSUME NEW u \in Sent, Arrive(u) PROVE DialogInv'
  <2> DEFINE t == [update |-> u, n |-> sent + 1, seen |-> state,
                   quiet |-> Quiet]
  <2>1. /\ queue' = Append(queue, t) /\ sent' = sent + 1 /\ sent < MaxSent
        /\ UNCHANGED <<state, data, prompt, flights, errors, hasGroup, asked,
                       done, faults, crashes>>
        BY <1>2 DEF Arrive
  <2>2. Quiet \in BOOLEAN
        BY DEF Quiet
  <2>3. \A b \in BOOLEAN :
          [update |-> u, n |-> sent + 1, seen |-> state, quiet |-> b] \in Task
        BY <1>1, <2>1 DEF TypeOK, Task, Numbers
  <2>4. t \in Task /\ t.quiet = Quiet /\ t.seen = state
        BY <2>2, <2>3, Zenon
  <2> HIDE DEF t
  <2>5. queue \in Seq(Task)
        BY <1>1 DEF TypeOK
  <2>6. /\ queue' \in Seq(Task) /\ Len(queue') = Len(queue) + 1
        /\ queue'[Len(queue) + 1] = t
        /\ \A i \in DOMAIN queue : queue'[i] = queue[i]
        BY <2>1, <2>4, <2>5
  <2>7. TypeOK'
        BY <1>1, <2>1, <2>6 DEF TypeOK
  <2>8. ASSUME NEW i \in DOMAIN queue', queue'[i].quiet
        PROVE  /\ i = 1 /\ flights' = {} /\ errors' = {}
               /\ queue'[i].seen = state'
    <3>1. CASE i = Len(queue) + 1
      <4>1. Quiet
            BY <2>4, <2>6, <2>8, <3>1
      <4> QED
          BY <2>1, <2>4, <2>6, <3>1, <4>1 DEF Quiet
    <3>2. CASE i \in DOMAIN queue
          BY <1>1, <2>1, <2>6, <2>8, <3>2 DEF QuietIsNext
    <3> QED
        BY <2>5, <2>6, <3>1, <3>2
  <2>9. QuietIsNext'
        BY <2>8 DEF QuietIsNext
  <2> QED
      BY <1>1, <2>1, <2>7, <2>9
         DEF DialogInv, StateHasData, AskedIsKept, RejectedHasError
<1>3. CASE queue # <<>> /\ Handle(Head(queue))
  <2>1. Head(queue) \in Task
        BY <1>1, <1>3, NextTask
  <2>2. ContextStep(Head(queue)) /\ RestStep
        BY <1>1, <1>3, <2>1, HandleEffect
  <2>3. queue' = Tail(queue)
        BY <1>3, HandleTakes
  <2>4. QuietIsNext' /\ queue' \in Seq(Task)
        BY <1>1, <1>3, <2>3, TailWaits
  <2>5. errors \subseteq errors'
        BY <2>2 DEF RestStep
  <2>6. /\ StateHasData' /\ AskedIsKept' /\ RejectedHasError'
        /\ state' \in State /\ data' \in [Keys -> Value]
        /\ prompt' \in [by : {0} \union Numbers, is : Shown]
        /\ asked' \in Value
        BY <1>1, <2>1, <2>2, <2>5, ContextKept
  <2>7. TypeOK'
        BY <1>1, <2>2, <2>4, <2>6 DEF TypeOK, RestStep
  <2> QED
      BY <2>4, <2>6, <2>7 DEF DialogInv
<1>4. ASSUME NEW f \in flights,
             FlushShows(f) \/ FlushLoses(f) \/ FlushRejected(f)
      PROVE  DialogInv'
  <2>1. /\ UNCHANGED <<state, data, queue, hasGroup, asked, done, sent, faults,
                       crashes>>
        /\ flights' = flights \ {f}
        BY <1>4 DEF FlushShows, FlushLoses, FlushRejected, Lands
  <2>2. errors' \subseteq Numbers /\ errors \subseteq errors'
        BY <1>1, <1>4 DEF FlushShows, FlushLoses, FlushRejected, TypeOK
  <2>3. /\ prompt' \in [by : {0} \union Numbers, is : Shown]
        /\ prompt'.is = "rejected" => prompt.is = "rejected" \/ errors' # {}
        BY <1>1, <1>4 DEF FlushShows, FlushLoses, FlushRejected, Lands, TypeOK,
                          Shown
  <2>4. \A i \in DOMAIN queue : ~queue[i].quiet
        BY <1>1, <1>4 DEF QuietIsNext
  <2>5. QuietIsNext'
        BY <2>1, <2>4 DEF QuietIsNext
  <2>6. TypeOK'
        BY <1>1, <2>1, <2>2, <2>3 DEF TypeOK
  <2>7. RejectedHasError'
        BY <1>1, <2>1, <2>2, <2>3 DEF RejectedHasError
  <2> QED
      BY <1>1, <2>1, <2>5, <2>6, <2>7
         DEF DialogInv, StateHasData, AskedIsKept
<1>5. ASSUME Clear, UNCHANGED <<hasGroup, asked, done, sent, faults>>
      PROVE  /\ StateHasData' /\ AskedIsKept' /\ RejectedHasError'
             /\ state' \in State /\ data' \in [Keys -> Value]
             /\ prompt' \in [by : {0} \union Numbers, is : Shown]
  <2>1. /\ state' = "none" /\ data' \in [Keys -> Value]
        /\ \A k \in Keys : data'[k] = Unset
        /\ prompt' \in [by : {0} \union Numbers, is : Shown]
        BY <1>5 DEF Clear, NoData, NoPrompt, Value, Shown
  <2> QED
      BY <2>1, DialogNames DEF StateHasData, AskedIsKept, RejectedHasError
<1>6. ASSUME NEW n \in errors, OnError(n) PROVE DialogInv'
  <2>1. /\ Clear /\ errors' = errors \ {n}
        /\ UNCHANGED <<queue, flights, hasGroup, asked, done, sent, faults,
                       crashes>>
        BY <1>6 DEF OnError
  <2>2. QuietIsNext'
        BY <1>1, <1>6, <2>1 DEF QuietIsNext
  <2>3. TypeOK'
        BY <1>1, <1>5, <2>1 DEF TypeOK
  <2> QED
      BY <1>5, <2>1, <2>2, <2>3 DEF DialogInv
<1>7. CASE Crash
  <2>1. /\ Clear /\ flights' = {} /\ errors' = {}
        /\ crashes' = crashes + 1 /\ crashes < MaxCrashes
        /\ queue' = [i \in DOMAIN queue |->
                       [queue[i] EXCEPT !.seen = "none", !.quiet = FALSE]]
        /\ UNCHANGED <<hasGroup, asked, done, sent, faults>>
        BY <1>7 DEF Crash
  <2>2. queue \in Seq(Task)
        BY <1>1 DEF TypeOK
  <2>3. ASSUME NEW i \in DOMAIN queue
        PROVE  queue'[i] \in Task /\ queue'[i].quiet = FALSE
    <3>1. queue[i] \in Task
          BY <2>2
    <3>2. queue'[i] = [queue[i] EXCEPT !.seen = "none", !.quiet = FALSE]
          BY <2>1
    <3>3. queue'[i] = [update |-> queue[i].update, n |-> queue[i].n,
                       seen |-> "none", quiet |-> FALSE]
          BY <3>1, <3>2 DEF Task
    <3> QED
        BY <3>1, <3>3, DialogNames DEF Task
  <2>4. queue' \in Seq(Task) /\ DOMAIN queue' = DOMAIN queue
    <3>1. DOMAIN queue = 1..Len(queue) /\ Len(queue) \in Nat
          BY <2>2
    <3>2. queue' \in [1..Len(queue) -> Task]
          BY <2>1, <2>3, <3>1
    <3> QED
        BY <3>1, <3>2, IsASeq
  <2>5. QuietIsNext'
        BY <2>3, <2>4 DEF QuietIsNext
  <2>6. /\ state' \in State /\ data' \in [Keys -> Value]
        /\ prompt' \in [by : {0} \union Numbers, is : Shown]
        BY <1>5, <2>1
  <2>7. crashes' \in 0..MaxCrashes
    <3>1. crashes \in 0..MaxCrashes
          BY <1>1 DEF TypeOK
    <3>2. crashes' = crashes + 1 /\ crashes < MaxCrashes
          BY <2>1
    <3> QED
        BY <3>1, <3>2
  <2>8. TypeOK'
        BY <1>1, <2>1, <2>4, <2>6, <2>7 DEF TypeOK
  <2> QED
      BY <1>5, <2>1, <2>5, <2>8 DEF DialogInv
<1>8. CASE UNCHANGED vars
      BY <1>1, <1>8 DEF vars, DialogInv, TypeOK, StateHasData, AskedIsKept,
                        RejectedHasError, QuietIsNext
<1> QED
    BY <1>2, <1>3, <1>4, <1>6, <1>7, <1>8 DEF Next, Rests

-----------------------------------------------------------------------------
(* The theorems *)

\* The dialogs stay well typed: states, data, queue and flights have the form
\* that bot/states.py, bot/dialogs.py and the middlewares give them.
THEOREM TypeCorrect == Spec => []TypeOK
<1>1. DialogInv => TypeOK
      BY DEF DialogInv
<1> QED
    BY <1>1, DialogInit, DialogStep, PTL DEF Spec

\* A dialog that works on something always knows on what (update_data before
\* set_state in bot/dialogs.py, clear for both): no handler, failed scope, late
\* on_error or crash leaves a state without its data.
THEOREM DialogHasData == Spec => []StateHasData
<1>1. DialogInv => StateHasData
      BY DEF DialogInv
<1> QED
    BY <1>1, DialogInit, DialogStep, PTL DEF Spec

\* Once nothing of the chat is under way, no dialog is open whose prompt was
\* rejected (bot/errors.py, D10): on_error is owed as long as there is one.
THEOREM RejectedDialogCloses == Spec => []RejectedIsCleared
<1>1. DialogInv => RejectedIsCleared
      BY DEF DialogInv, RejectedHasError, RejectedIsCleared, Quiet
<1> QED
    BY <1>1, DialogInit, DialogStep, PTL DEF Spec

\* Only the scope of the next update changes anything for a text.
LEMMA OnlyHandleIsDone ==
  ASSUME [Next]_vars, done' # done
  PROVE  queue # <<>> /\ Handle(Head(queue))
BY DEF Next, Arrive, FlushShows, FlushLoses, FlushRejected, Lands, OnError,
       Crash, Rests, vars

\* One dialog, one change: of two quick answers only the first is applied to
\* what the dialog was opened for (the fsm_* handlers, which clear the context
\* under the lock before they change anything).
THEOREM OneDialogOneChange == Spec => NoDoubleAnswer
<1>1. ASSUME DialogInv, [Next]_vars, done' # done, done'.by \in NeedsData
      PROVE  asked # Unset
  <2> DEFINE t == Head(queue)
  <2>1. TypeOK /\ AskedIsKept
        BY <1>1 DEF DialogInv
  <2>2. queue # <<>> /\ Handle(t)
        BY <1>1, OnlyHandleIsDone
  <2>3. t \in Task
        BY <2>1, <2>2, NextTask
  <2> HIDE DEF t
  <2>4. DoneStep(t)
        BY <2>1, <2>2, <2>3, HandleEffect
  <2>5. "ride" \notin NeedsData /\ "AddGroup" \notin NeedsData
        BY DEF NeedsData, KeyOf
  <2>6. t.seen \in NeedsData /\ data[KeyOf[t.seen]] # Unset
        BY <1>1, <2>4, <2>5 DEF DoneStep
  <2> QED
      BY <2>1, <2>6, DialogNames DEF AskedIsKept
<1>2. DialogInv /\ [Next]_vars
        => [done' # done /\ done'.by \in NeedsData => asked # Unset]_vars
      BY <1>1
<1> QED
    BY <1>2, DialogInit, DialogStep, PTL DEF Spec, NoDoubleAnswer

\* A user who waits for the bot is understood: the text is judged by the dialog
\* that is open at its turn, and changes what that dialog was opened for (the
\* state filters of the fsm_* handlers and of mileage.py).
THEOREM WaitingUserIsUnderstood == Spec => QuietAnswersMatch
<1> DEFINE A == queue # <<>> /\ queue' = Tail(queue)
                  /\ Head(queue).quiet /\ Head(queue).update.is = "text" =>
                    /\ Head(queue).seen = state
                    /\ done' # done /\ state \in NeedsData => done'.id = asked
<1>1. ASSUME DialogInv, [Next]_vars, queue # <<>>, Head(queue).quiet
      PROVE  /\ Head(queue).seen = state
             /\ done' # done /\ state \in NeedsData => done'.id = asked
  <2> DEFINE t == Head(queue)
  <2>1. TypeOK /\ AskedIsKept /\ QuietIsNext
        BY <1>1 DEF DialogInv
  <2>2. t \in Task /\ t = queue[1] /\ 1 \in DOMAIN queue
        BY <1>1, <2>1, NextTask
  <2>3. t.seen = state
        BY <1>1, <2>1, <2>2 DEF QuietIsNext
  <2>4. ASSUME done' # done, state \in NeedsData PROVE done'.id = asked
    <3>1. Handle(t)
          BY <1>1, <2>4, OnlyHandleIsDone
    <3> HIDE DEF t
    <3>2. DoneStep(t)
          BY <2>1, <2>2, <3>1, HandleEffect
    <3>3. state # "none" /\ state # "AddGroup"
          BY <2>4 DEF NeedsData, KeyOf
    <3> QED
        BY <2>1, <2>3, <2>4, <3>2, <3>3 DEF DoneStep, AskedIsKept
  <2> QED
      BY <2>3, <2>4
<1>2. DialogInv /\ [Next]_vars => [A]_vars
      BY <1>1
<1> QED
    BY <1>2, DialogInit, DialogStep, PTL DEF Spec, QuietAnswersMatch
=============================================================================
